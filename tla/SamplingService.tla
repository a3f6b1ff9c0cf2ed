-------------------------- MODULE SamplingService --------------------------
(***************************************************************************)
(* What sampling.h promises of a measure, without samples, counters or     *)
(* barriers: the threads of a team each start, spend time and stop; when   *)
(* all of them have stopped one line per node is printed, once, with the   *)
(* slowest time and the sums of what the threads below that node           *)
(* announced.                                                              *)
(***************************************************************************)
EXTENDS Integers, FiniteSets, FiniteSetsExt, Functions

CONSTANTS
  Thread, PU, Node, NodeOf,
  Job,   \* the [bytes, flops] a thread may contribute
  NoPU   \* the place of a thread that does not count

VARIABLES
  team,   \* the threads of the measure under way
  phase,  \* "idle" -> "counting" -> "stopped" -> "done" for each thread
  place,  \* the PU a thread counts on
  job,    \* the bytes and flops a thread contributes
  spent,  \* its CPU time between its start and its stop, until it is printed
  lines   \* the line last printed for each node

avars == <<team, phase, place, job, spent, lines>>

NoJob == [bytes |-> 0, flops |-> 0]
Blank == [nanoseconds |-> 0, bytes |-> 0, flops |-> 0, n_threads |-> 0]

Init ==
  /\ team = {}
  /\ phase = [t \in Thread |-> "idle"]
  /\ place = [t \in Thread |-> NoPU]
  /\ job = [t \in Thread |-> NoJob]
  /\ spent = [t \in Thread |-> 0]
  /\ lines = [n \in Node |-> Blank]

All(p) == \A t \in team : phase[t] = p

\* A sequential caller is a team of one, a region is the whole team.
Gather(T) ==
  /\ team = {} /\ T # {}
  /\ team' = T
  /\ UNCHANGED <<phase, place, job, spent, lines>>

Begin(t, p, j) ==
  /\ t \in team /\ phase[t] = "idle"
  /\ phase' = [phase EXCEPT ![t] = "counting"]
  /\ place' = [place EXCEPT ![t] = p]
  /\ job' = [job EXCEPT ![t] = j]
  /\ UNCHANGED <<team, spent, lines>>

Spend(t) ==
  /\ phase[t] = "counting"
  /\ spent' = [spent EXCEPT ![t] = @ + 1]
  /\ UNCHANGED <<team, phase, place, job, lines>>

End(t) ==
  /\ phase[t] = "counting"
  /\ phase' = [phase EXCEPT ![t] = "stopped"]
  /\ UNCHANGED <<team, place, job, spent, lines>>

Below(n) == {t \in team : NodeOf[place[t]] = n}

LineOf(n) ==
  [nanoseconds |-> Max({0} \union {spent[t] : t \in Below(n)}),
   bytes |-> SumFunctionOnSet([t \in Thread |-> job[t].bytes], Below(n)),
   flops |-> SumFunctionOnSet([t \in Thread |-> job[t].flops], Below(n)),
   n_threads |-> Cardinality(Below(n))]

Publish ==
  /\ team # {} /\ All("stopped")
  /\ phase' = [t \in Thread |-> IF t \in team THEN "done" ELSE phase[t]]
  /\ lines' = [n \in Node |-> LineOf(n)]
  /\ spent' = [t \in Thread |-> IF t \in team THEN 0 ELSE spent[t]]
  /\ UNCHANGED <<team, place, job>>

\* The calls return; a user's region may go on to its next measure.
Dismiss ==
  /\ team # {} /\ All("done")
  /\ team' \in {team, {}}
  /\ phase' = [t \in Thread |-> "idle"]
  /\ place' = [t \in Thread |-> NoPU]
  /\ job' = [t \in Thread |-> NoJob]
  /\ UNCHANGED <<spent, lines>>

Disband ==
  /\ team # {} /\ All("idle")
  /\ team' = {}
  /\ UNCHANGED <<phase, place, job, spent, lines>>

Next ==
  \/ \E T \in SUBSET Thread : Gather(T)
  \/ \E t \in Thread :
       \/ Spend(t) \/ End(t)
       \/ \E p \in PU, j \in Job : Begin(t, p, j)
  \/ Publish \/ Dismiss \/ Disband

Spec == Init /\ [][Next]_avars

=============================================================================
