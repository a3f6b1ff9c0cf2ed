------------------------------- MODULE Bench -------------------------------
(***************************************************************************)
(* The measuring loops of the benchmark: roofline_fpeak() and              *)
(* roofline_memory() (roofline.c), the calibration they share,             *)
(* roofline_autoset_repeat() (stats.c), and the gathering of the results   *)
(* by memory group (output.c).                                             *)
(*                                                                         *)
(* roofline_memory() runs whole in a parallel region, calibration          *)
(* included.  roofline_fpeak() calibrates on the master alone, then opens  *)
(* its region.  Barriers, single and critical are OpenMP's: each barrier   *)
(* is a joint step of the team, what lies between two of them interleaves. *)
(***************************************************************************)
EXTENDS Integers, FiniteSets, Sequences

CONSTANTS
  N,           \* number of threads of a region (n_threads)
  Calls,       \* what the program measures in turn: "memory" or "fpeak"
  Sizes,       \* the sizes of roofline_linear_sizes(), one per round
  LowSize,     \* the lower bound of the memory measured
  Group,       \* logical indices of the memory groups
  Location,    \* the group each thread is bound under, or Elsewhere
  Elsewhere,   \* bound above the groups, or not located
  Samples,     \* n_samples: calls of the benchmark in a trial
  Measures,    \* timed sections in one call: its overhead, the benchmark
  LongEnough   \* bound: a trial of this repeat takes more than 500ms

Thread == 0 .. N - 1

ASSUME TeamAssumption == N \in Nat \ {0}
ASSUME ProgramAssumption ==
  /\ Calls \in Seq({"memory", "fpeak"})
  /\ Sizes \in Seq(Nat) /\ Sizes # <<>>
  /\ LowSize \in Nat
ASSUME GroupAssumption ==
  /\ Group \subseteq Nat /\ 0 \in Group
  /\ Elsewhere \notin Group
  /\ Location \in [Thread -> Group \union {Elsewhere}]
ASSUME MeasureAssumption ==
  /\ Samples \in Nat \ {0}
  /\ Measures \in Nat \ {0}
  /\ LongEnough \in Nat \ {0}

VARIABLES
  call,       \* how many of the calls have begun
  pc,         \* where each thread is; "out" when it is not in a call
  idx,        \* the round of each thread (local i)
  phase,      \* what each thread times: "calib", a trial, or "bench"
  left,       \* timed sections left before the thread compares or gathers
  trial,      \* the repeat of autoset_repeat (its local repeat)
  used,       \* the repeat the benchmark was called with
  repeat,     \* the repeat of the caller, shared by the region
  test_stop,  \* static of autoset_repeat
  lock,       \* who is in the critical section, or Nobody
  seen,       \* the result of its group a thread has read
  out,        \* the result gathered for each group
  log         \* what was printed, one function of the groups for each print

vars == <<call, pc, idx, phase, left, trial, used, repeat, test_stop, lock,
          seen, out, log>>

Nobody == -1

Labels ==
  {"out", "round", "pre", "check", "begin", "run", "end", "decide", "decided",
   "read", "store", "fork", "call", "lock", "load", "add", "gathered",
   "print", "printed", "leave"}

Program == Calls[call]

Team == {t \in Thread : pc[t] # "out"}

TeamAt(label) == Team # {} /\ \A t \in Team : pc[t] = label

Move(label) == [t \in Thread |-> IF t \in Team THEN label ELSE pc[t]]

Goto(t, label) == pc' = [pc EXCEPT ![t] = label]

-----------------------------------------------------------------------------
(***************************************************************************)
(* Results                                                                 *)
(***************************************************************************)
Cleared == [n |-> 0, work |-> 0]

\* One more thread, and what it did.
OutputAccumulate(dst, work) == [dst EXCEPT !.n = @ + 1, !.work = @ + work]

\* The group a thread's result goes to: the first one when it has none.
GroupOf(t) == IF Location[t] = Elsewhere THEN 0 ELSE Location[t]

\* The bytes, or the flops, of one call of the benchmark.
WorkOf(program, i, r) == IF program = "memory" THEN Sizes[i] * r ELSE r

\* Sizes under the bound, and those that resizing made equal to the last one.
Skipped(program, i) ==
  /\ program = "memory"
  /\ Sizes[i] < LowSize \/ (i > 1 /\ Sizes[i] = Sizes[i - 1])

-----------------------------------------------------------------------------
Init ==
  /\ call = 0
  /\ pc = [t \in Thread |-> "out"]
  /\ idx = [t \in Thread |-> 1]
  /\ phase = [t \in Thread |-> "bench"]
  /\ left = [t \in Thread |-> 0]
  /\ trial = [t \in Thread |-> 1]
  /\ used = [t \in Thread |-> 0]
  /\ repeat = 1
  /\ test_stop = FALSE
  /\ lock = Nobody
  /\ seen = [t \in Thread |-> Cleared]
  /\ out = [g \in Group |-> Cleared]
  /\ log = <<>>

\* roofline_memory: the region opens, with repeat = 100.
CallMemory ==
  /\ call < Len(Calls) /\ Calls[call + 1] = "memory"
  /\ Team = {}
  /\ call' = call + 1
  /\ pc' = [t \in Thread |-> "round"]
  /\ idx' = [t \in Thread |-> 1]
  /\ repeat' = 100
  /\ out' = [g \in Group |-> Cleared]
  /\ UNCHANGED <<phase, left, trial, used, test_stop, lock, seen, log>>

\* n_samples calls of the benchmark.
TrialSections == Samples * Measures

\* A trial of autoset_repeat with repeat r.
Trial(t, r) ==
  /\ trial' = [trial EXCEPT ![t] = r]
  /\ phase' = [phase EXCEPT ![t] = "calib"]
  /\ left' = [left EXCEPT ![t] = TrialSections]
  /\ Goto(t, "begin")

\* roofline_fpeak: the master calibrates before the region opens.
CallFpeak ==
  /\ call < Len(Calls) /\ Calls[call + 1] = "fpeak"
  /\ Team = {}
  /\ call' = call + 1
  /\ Trial(0, 1)
  /\ idx' = [t \in Thread |-> 1]
  /\ out' = [g \in Group |-> Cleared]
  /\ UNCHANGED <<used, repeat, test_stop, lock, seen, log>>

Fork ==
  /\ TeamAt("fork")
  /\ pc' = [t \in Thread |-> "round"]
  /\ UNCHANGED <<call, idx, phase, left, trial, used, repeat, test_stop, lock,
                 seen, out, log>>

(***************************************************************************)
(* One round: a size of roofline_memory, a sample of roofline_fpeak        *)
(***************************************************************************)
\* Mutant: the loop runs once more than there are sizes.
AnotherRoundPast(i) == i <= Len(Sizes)

\* Mutant: the loop stops before the last size.
AnotherRoundShort(i) == i + 1 < Len(Sizes)

\* The condition of the loop, after the increment of i.
AnotherRound(i) == i < Len(Sizes)

NextRound(T) ==
  /\ idx' = [t \in Thread |->
              IF t \in T /\ AnotherRound(idx[t]) THEN idx[t] + 1 ELSE idx[t]]
  /\ pc' = [t \in Thread |->
             CASE t \notin T -> pc[t]
               [] t \in T /\ AnotherRound(idx[t]) -> "round"
               [] OTHER -> "leave"]

Round(t) ==
  /\ pc[t] = "round"
  /\ \/ /\ Skipped(Program, idx[t])
        /\ NextRound({t})
     \/ /\ ~ Skipped(Program, idx[t])
        /\ Goto(t, IF Program = "memory" THEN "pre" ELSE "call")
        /\ UNCHANGED idx
  /\ UNCHANGED <<call, phase, left, trial, used, repeat, test_stop, lock, seen,
                 out, log>>

\* The barrier of the first single, which holds debug prints only.
PreSingle ==
  /\ TeamAt("pre")
  /\ pc' = Move("check")
  /\ UNCHANGED <<call, idx, phase, left, trial, used, repeat, test_stop, lock,
                 seen, out, log>>

\* Calibrates until a calibration finds that a single repeat is long enough.
Check(t) ==
  /\ pc[t] = "check"
  /\ \/ repeat > 1 /\ Trial(t, 1)
     \/ /\ repeat <= 1
        /\ Goto(t, "call")
        /\ UNCHANGED <<phase, left, trial>>
  /\ UNCHANGED <<call, idx, used, repeat, test_stop, lock, seen, out, log>>

(***************************************************************************)
(* A timed section: barrier, clock, run, clock, barrier                    *)
(***************************************************************************)
BeginMeasure ==
  /\ TeamAt("begin")
  /\ pc' = Move("run")
  /\ UNCHANGED <<call, idx, phase, left, trial, used, repeat, test_stop, lock,
                 seen, out, log>>

Run(t) ==
  /\ pc[t] = "run"
  /\ Goto(t, "end")
  /\ UNCHANGED <<call, idx, phase, left, trial, used, repeat, test_stop, lock,
                 seen, out, log>>

AfterMeasure(t) ==
  CASE left[t] > 1 -> "begin"
    [] left[t] <= 1 /\ phase[t] = "calib" -> "decide"
    [] OTHER -> "lock"

\* Mutant: a thread goes on once its own clock is stopped.
EndMeasureAlone ==
  /\ \E t \in Team :
       /\ pc[t] = "end"
       /\ Goto(t, AfterMeasure(t))
       /\ left' = [left EXCEPT ![t] = @ - 1]
  /\ UNCHANGED <<call, idx, phase, trial, used, repeat, test_stop, lock, seen,
                 out, log>>

EndMeasure ==
  /\ TeamAt("end")
  /\ pc' = [t \in Thread |-> IF t \in Team THEN AfterMeasure(t) ELSE pc[t]]
  /\ left' = [t \in Thread |-> IF t \in Team THEN left[t] - 1 ELSE left[t]]
  /\ UNCHANGED <<call, idx, phase, trial, used, repeat, test_stop, lock, seen,
                 out, log>>

(***************************************************************************)
(* roofline_autoset_repeat                                                 *)
(***************************************************************************)
\* The single: the first thread to arrive compares its own five measures with
\* the bounds; they end the calibration for sure only once it lasts 500ms.
Decide(t) ==
  /\ pc[t] = "decide"
  /\ \A u \in Team : pc[u] # "decided"
  /\ test_stop' \in IF trial[t] >= LongEnough THEN {TRUE} ELSE BOOLEAN
  /\ Goto(t, "decided")
  /\ UNCHANGED <<call, idx, phase, left, trial, used, repeat, lock, seen, out, log>>

PassSingle(t) ==
  /\ pc[t] = "decide"
  /\ \E u \in Team : pc[u] = "decided"
  /\ Goto(t, "decided")
  /\ UNCHANGED <<call, idx, phase, left, trial, used, repeat, test_stop, lock,
                 seen, out, log>>

\* Mutant: no barrier after the single, a thread reads the static as it finds it.
DecideBarrierNone ==
  /\ \E t \in Team : pc[t] = "decided" /\ Goto(t, "read")
  /\ UNCHANGED <<call, idx, phase, left, trial, used, repeat, test_stop, lock,
                 seen, out, log>>

\* The barrier of the single and the one after it.
DecideBarrier ==
  /\ TeamAt("decided")
  /\ pc' = Move("read")
  /\ UNCHANGED <<call, idx, phase, left, trial, used, repeat, test_stop, lock,
                 seen, out, log>>

\* Mutant: the next trial is no longer than the last.
ReadStopSame(t) ==
  /\ pc[t] = "read"
  /\ \/ test_stop /\ Goto(t, "store") /\ UNCHANGED <<phase, left, trial>>
     \/ ~test_stop /\ Trial(t, trial[t])
  /\ UNCHANGED <<call, idx, used, repeat, test_stop, lock, seen, out, log>>

ReadStop(t) ==
  /\ pc[t] = "read"
  /\ \/ test_stop /\ Goto(t, "store") /\ UNCHANGED <<phase, left, trial>>
     \/ ~test_stop /\ Trial(t, 2 * trial[t])
  /\ UNCHANGED <<call, idx, used, repeat, test_stop, lock, seen, out, log>>

\* The caller stores what autoset_repeat returns.
Store(t) ==
  /\ pc[t] = "store"
  /\ repeat' = trial[t]
  /\ Goto(t, IF Program = "memory" THEN "call" ELSE "fork")
  /\ UNCHANGED <<call, idx, phase, left, trial, used, test_stop, lock, seen,
                 out, log>>

(***************************************************************************)
(* The benchmark, then its results                                         *)
(***************************************************************************)
\* local_out is cleared and the benchmark called with the shared repeat.
CallBenchmark(t) ==
  /\ pc[t] = "call"
  /\ used' = [used EXCEPT ![t] = repeat]
  /\ phase' = [phase EXCEPT ![t] = "bench"]
  /\ left' = [left EXCEPT ![t] = Measures]
  /\ Goto(t, "begin")
  /\ UNCHANGED <<call, idx, trial, repeat, test_stop, lock, seen, out, log>>

\* Mutant: results are gathered out of a critical section.
EnterCriticalAnyway(t) ==
  /\ pc[t] = "lock"
  /\ lock' = t
  /\ Goto(t, "load")
  /\ UNCHANGED <<call, idx, phase, left, trial, used, repeat, test_stop, seen,
                 out, log>>

EnterCritical(t) ==
  /\ pc[t] = "lock" /\ lock = Nobody
  /\ lock' = t
  /\ Goto(t, "load")
  /\ UNCHANGED <<call, idx, phase, left, trial, used, repeat, test_stop, seen,
                 out, log>>

LoadResult(t) ==
  /\ pc[t] = "load"
  /\ seen' = [seen EXCEPT ![t] = out[GroupOf(t)]]
  /\ Goto(t, "add")
  /\ UNCHANGED <<call, idx, phase, left, trial, used, repeat, test_stop, lock,
                 out, log>>

AddResult(t) ==
  /\ pc[t] = "add"
  /\ out' = [out EXCEPT ![GroupOf(t)] =
               OutputAccumulate(seen[t], WorkOf(Program, idx[t], used[t]))]
  /\ seen' = [seen EXCEPT ![t] = Cleared]
  /\ lock' = Nobody
  /\ Goto(t, "gathered")
  /\ UNCHANGED <<call, idx, phase, left, trial, used, repeat, test_stop, log>>

\* Mutant: a thread prints without waiting for the results of the others.
PrintBarrierNone ==
  /\ \E e \in Team : pc[e] = "gathered" /\ Goto(e, "print")
  /\ UNCHANGED <<call, idx, phase, left, trial, used, repeat, test_stop, lock,
                 seen, out, log>>

\* The barrier, then the single.
PrintBarrier ==
  /\ TeamAt("gathered")
  /\ \E e \in Team : pc' = [Move("printed") EXCEPT ![e] = "print"]
  /\ UNCHANGED <<call, idx, phase, left, trial, used, repeat, test_stop, lock,
                 seen, out, log>>

\* A group is printed, then cleared, when threads have gathered in it (n > 0).
PrintOutputs(t) ==
  /\ pc[t] = "print"
  /\ log' = Append(log, out)
  /\ out' = [g \in Group |-> IF out[g].n > 0 THEN Cleared ELSE out[g]]
  /\ Goto(t, "printed")
  /\ UNCHANGED <<call, idx, phase, left, trial, used, repeat, test_stop, lock, seen>>

\* The barrier at the end of the single.
EndRound ==
  /\ TeamAt("printed")
  /\ NextRound(Team)
  /\ UNCHANGED <<call, phase, left, trial, used, repeat, test_stop, lock, seen,
                 out, log>>

\* The end of the region; the results are freed.
Join ==
  /\ TeamAt("leave")
  /\ pc' = Move("out")
  /\ UNCHANGED <<call, idx, phase, left, trial, used, repeat, test_stop, lock,
                 seen, out, log>>

Done == call = Len(Calls) /\ Team = {}

Step(t) ==
  \/ Round(t) \/ Check(t) \/ Run(t) \/ Decide(t) \/ PassSingle(t) \/ ReadStop(t)
  \/ Store(t) \/ CallBenchmark(t) \/ EnterCritical(t) \/ LoadResult(t)
  \/ AddResult(t) \/ PrintOutputs(t)

Together ==
  \/ PreSingle \/ BeginMeasure \/ EndMeasure \/ DecideBarrier \/ PrintBarrier
  \/ EndRound \/ Fork \/ Join

Next ==
  \/ CallMemory \/ CallFpeak
  \/ \E t \in Thread : Step(t)
  \/ Together
  \/ Done /\ UNCHANGED vars

Spec == Init /\ [][Next]_vars

\* Threads run, and the critical section lets in every thread that waits for it
\* (a team has N entries in a round, so weak fairness is enough).
Fairness ==
  /\ WF_vars(CallMemory \/ CallFpeak) /\ WF_vars(Together)
  /\ \A t \in Thread : WF_vars(Step(t))

FairSpec == Spec /\ Fairness

-----------------------------------------------------------------------------
(***************************************************************************)
(* Properties                                                              *)
(***************************************************************************)

\* Type correctness of the locals, of the shared repeat and of the results.
TypeOK ==
  /\ call \in 0 .. Len(Calls)
  /\ pc \in [Thread -> Labels]
  /\ idx \in [Thread -> 1 .. Len(Sizes)]
  /\ phase \in [Thread -> {"calib", "bench"}]
  /\ left \in [Thread -> 0 .. TrialSections]
  /\ trial \in [Thread -> Nat \ {0}]
  /\ used \in [Thread -> Nat]
  /\ repeat \in Nat \ {0}
  /\ test_stop \in BOOLEAN
  /\ lock \in Thread \union {Nobody}
  /\ seen \in [Thread -> [n : Nat, work : Nat]]
  /\ out \in [Group -> [n : Nat, work : Nat]]
  /\ log \in Seq([Group -> [n : Nat, work : Nat]])

\* Threads that time a section together time the same thing: the same round,
\* all a trial of the same repeat or all the benchmark with the same repeat.
\* The throughput of a group is meaningless otherwise; the repeat is a shared
\* variable every thread tests (roofline.c:235) and then writes, after a loop
\* whose exit depends on a static (stats.c:43, 102).
SameMeasure ==
  \A t, u \in Thread : (pc[t] = "run" /\ pc[u] \in {"run", "end"}) =>
    /\ idx[t] = idx[u] /\ phase[t] = phase[u] /\ left[t] = left[u]
    /\ phase[t] = "calib" => trial[t] = trial[u]
    /\ phase[t] = "bench" => used[t] = used[u]

\* While a thread is timed no thread of the team does anything else than being
\* timed or waiting for the end of it: no calibration decision, no gathering,
\* no printing disturbs a measure (output.c:54 and 64).
TimedTogether ==
  \A t \in Thread : pc[t] = "run" => \A u \in Team : pc[u] \in {"run", "end"}

\* The results are printed and cleared (roofline.c:149 and 266) while no thread
\* reads or writes them: all have gathered and none has begun the next round.
PrintAlone ==
  \A t \in Thread : pc[t] = "print" =>
    \A u \in Team \ {t} : pc[u] = "printed"

\* Every call ends: calibration ends, no thread is left behind at a barrier.
Ends == <>Done
=============================================================================
