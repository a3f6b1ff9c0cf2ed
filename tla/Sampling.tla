------------------------------ MODULE Sampling ------------------------------
(***************************************************************************)
(* The sampling library (sampling.c), built with OpenMP and without PAPI.  *)
(*                                                                         *)
(* One sample per processing unit (PU) is shared by all the threads that   *)
(* call roofline_sampling_start() from that PU.  A call runs in one of     *)
(* three ways:                                                             *)
(*   - from a parallel region of the user: every thread of the team calls; *)
(*   - from a sequential region: the calling thread is a team of one;      *)
(*   - forced: a sequential caller makes the library open a parallel       *)
(*     region of its own, once for start and once for stop.                *)
(*                                                                         *)
(* Each access to shared memory is a step.  The OpenMP runtime (parallel   *)
(* regions, barrier, single) is external and modelled from its use.        *)
(***************************************************************************)
EXTENDS Integers, FiniteSets, FiniteSetsExt, Folds, Functions

CONSTANTS
  N,            \* number of threads of a team (omp_get_num_threads)
  PU,           \* logical indices of the processing units
  Node,         \* objects of the topology at the reduction depth
  NodeOf,       \* the node above each PU
  Affinity,     \* the PUs the system may run each thread on
  Unlocatable,  \* threads for which neither get_cpubind nor getcpu answers
  SeqCallers,   \* threads that sample from sequential regions
  Regions,      \* "par", "forced": the parallel ways to sample that are used
  Kernels,      \* the [bytes, flops] a caller may announce
  MaxClock      \* bound: ticks of CPU time a thread may spend

Thread == 0 .. N - 1

ASSUME ThreadAssumption == N \in Nat \ {0}
ASSUME TopologyAssumption ==
  /\ PU \subseteq Nat /\ IsFiniteSet(PU)
  /\ IsFiniteSet(Node)
  /\ 0 \in PU
  /\ NodeOf \in [PU -> Node]
ASSUME BindingAssumption ==
  /\ Affinity \in [Thread -> SUBSET PU]
  /\ \A t \in Thread : Affinity[t] # {}
\* A thread that is not located skips the barrier its team waits at, which OpenMP
\* leaves undefined: such threads sample from sequential regions only.  The region
\* that stop opens for the sample they did not get (sampling.c:504-507) has one
\* thread then, for the same reason: the pool of such a caller is of one thread.
ASSUME LookupAssumption ==
  /\ Unlocatable \subseteq Thread
  /\ Unlocatable # {} => Regions = {}
ASSUME UsageAssumption ==
  /\ SeqCallers \subseteq Thread
  /\ Regions \subseteq {"par", "forced"}
  /\ Kernels \subseteq [bytes : Nat, flops : Nat]
  /\ MaxClock \in Nat

VARIABLES
  lib,       \* "off" | "on": between init and fini
  mode,      \* "none" | "par" | "forced": the parallel region, if any
  pc,        \* where each thread is in the library
  arg,       \* the bytes and flops of each thread's call
  handle,    \* the sample each thread holds (its PU), or NoSample
  now,       \* the time each thread read in stop (local t)
  clock,     \* CPU time of each thread
  bindings,  \* the array of PU indices by thread number
  samples,   \* the sample of each PU
  out        \* the line last printed for each node

vars == <<lib, mode, pc, arg, handle, now, clock, bindings, samples, out>>

NoSample == -1
NoKernel == [bytes |-> 0, flops |-> 0]

Labels ==
  {"idle", "lookup", "inc", "bar0", "bytes", "flops", "first", "stamp",
   "join", "open", "relook", "time", "dec", "estamp", "bar1",
   "report", "reset", "bar2"}

(***************************************************************************)
(* Samples                                                                 *)
(***************************************************************************)
Sample ==
  [n_threads : Nat, last_thread : Int, bytes : Nat, flops : Nat,
   s_nano : Nat, e_nano : Nat]

NewSample ==
  [n_threads |-> 0, last_thread |-> 0, bytes |-> 0, flops |-> 0,
   s_nano |-> 0, e_nano |-> 0]

\* Mutants: the count, or the bytes, of a measure survive its report.
ResetKeepsThreads(s) ==
  [s EXCEPT !.s_nano = 0, !.e_nano = 0, !.flops = 0, !.bytes = 0]

ResetKeepsBytes(s) ==
  [s EXCEPT !.s_nano = 0, !.e_nano = 0, !.flops = 0, !.n_threads = 0]

\* last_thread survives a reset.
ResetSample(s) ==
  [s EXCEPT !.s_nano = 0, !.e_nano = 0, !.flops = 0, !.bytes = 0,
            !.n_threads = 0]

Elapsed(s) == s.e_nano - s.s_nano

\* Mutant: keeps the faster timing.
AccumulateFastest(sum, with) ==
  LET faster == IF Elapsed(sum) < Elapsed(with) THEN sum ELSE with
  IN [sum EXCEPT !.s_nano = faster.s_nano,
                 !.e_nano = faster.e_nano,
                 !.bytes = @ + with.bytes,
                 !.flops = @ + with.flops,
                 !.n_threads = @ + with.n_threads]

\* The slower of the two timings is kept, the rest is summed.
Accumulate(sum, with) ==
  LET slower == IF Elapsed(sum) > Elapsed(with) THEN sum ELSE with
  IN [sum EXCEPT !.s_nano = slower.s_nano,
                 !.e_nano = slower.e_nano,
                 !.bytes = @ + with.bytes,
                 !.flops = @ + with.flops,
                 !.n_threads = @ + with.n_threads]

PUsUnder(n) == {p \in PU : NodeOf[p] = n}

\* The samples of a node are a sublist of the samples, which are in logical
\* order: the one of the greatest index is accumulated last.
Reduce(n) ==
  MapThenFoldSet(LAMBDA sample, sum : Accumulate(sum, sample), NewSample,
                 LAMBDA p : samples[p], Max, PUsUnder(n))

Printed(s) ==
  [nanoseconds |-> Elapsed(s), bytes |-> s.bytes, flops |-> s.flops,
   n_threads |-> s.n_threads]

NoLine == [nanoseconds |-> 0, bytes |-> 0, flops |-> 0, n_threads |-> 0]

(***************************************************************************)
(* Teams                                                                   *)
(***************************************************************************)
Team(t) == IF mode = "none" THEN {t} ELSE Thread

Tid(t) == IF mode = "none" THEN 0 ELSE t

AllIdle == \A t \in Thread : pc[t] = "idle"

TeamAt(T, label) == \A t \in T : pc[t] = label

Move(T, label) == [t \in Thread |-> IF t \in T THEN label ELSE pc[t]]

\* Mutant: rounds up.
ShareUp(t) ==
  IF mode = "forced"
    THEN [bytes |-> (arg[t].bytes + N - 1) \div N,
          flops |-> (arg[t].flops + N - 1) \div N]
    ELSE arg[t]

\* What the thread announces: the forced call spreads the total over the team.
Share(t) ==
  IF mode = "forced"
    THEN [bytes |-> arg[t].bytes \div N, flops |-> arg[t].flops \div N]
    ELSE arg[t]

-----------------------------------------------------------------------------
Init ==
  /\ lib = "off"
  /\ mode = "none"
  /\ pc = [t \in Thread |-> "idle"]
  /\ arg = [t \in Thread |-> NoKernel]
  /\ handle = [t \in Thread |-> NoSample]
  /\ now = [t \in Thread |-> 0]
  /\ clock = [t \in Thread |-> 0]
  /\ bindings = [t \in Thread |-> 0]
  /\ samples = [p \in PU |-> NewSample]
  /\ out = [n \in Node |-> NoLine]

SamplingInit ==
  /\ lib = "off"
  /\ lib' = "on"
  /\ bindings' = [t \in Thread |-> 0]
  /\ samples' = [p \in PU |-> NewSample]
  /\ UNCHANGED <<mode, pc, arg, handle, now, clock, out>>

\* The samples are freed: what they held is never read again.
SamplingFini ==
  /\ lib = "on" /\ mode = "none" /\ AllIdle
  /\ lib' = "off"
  /\ UNCHANGED <<mode, pc, arg, handle, now, clock, bindings, samples, out>>

(***************************************************************************)
(* The user's program: it opens and closes its own parallel regions, calls *)
(* start and stop from the same scope, and spends CPU time.                *)
(***************************************************************************)
EnterParallel ==
  /\ "par" \in Regions
  /\ lib = "on" /\ mode = "none" /\ AllIdle
  /\ mode' = "par"
  /\ UNCHANGED <<lib, pc, arg, handle, now, clock, bindings, samples, out>>

LeaveParallel ==
  /\ mode = "par" /\ AllIdle
  /\ mode' = "none"
  /\ UNCHANGED <<lib, pc, arg, handle, now, clock, bindings, samples, out>>

Tick(t) ==
  /\ pc[t] # "idle"
  /\ clock[t] < MaxClock
  /\ clock' = [clock EXCEPT ![t] = @ + 1]
  /\ UNCHANGED <<lib, mode, pc, arg, handle, now, bindings, samples, out>>

(***************************************************************************)
(* roofline_sampling_start                                                 *)
(***************************************************************************)
Start(t, k) ==
  /\ lib = "on" /\ pc[t] = "idle"
  /\ \/ mode = "par"
     \/ mode = "none" /\ t \in SeqCallers
  /\ pc' = [pc EXCEPT ![t] = "lookup"]
  /\ arg' = [arg EXCEPT ![t] = k]
  /\ UNCHANGED <<lib, mode, handle, now, clock, bindings, samples, out>>

StartForced(k) ==
  /\ "forced" \in Regions
  /\ lib = "on" /\ mode = "none" /\ AllIdle
  /\ mode' = "forced"
  /\ pc' = Move(Thread, "lookup")
  /\ arg' = [t \in Thread |-> k]
  /\ UNCHANGED <<lib, handle, now, clock, bindings, samples, out>>

AfterStart == IF mode = "forced" THEN "join" ELSE "open"

\* Mutant: stores an OS index, which may be one past the logical ones.
LocateOsIndex(t) ==
  /\ t \notin Unlocatable
  /\ \E p \in Affinity[t] :
       /\ bindings' = [bindings EXCEPT ![Tid(t)] = p + 1]
       /\ handle' = [handle EXCEPT ![t] = p]

\* roofline_sampling_caller(-tid): the PU the thread runs on at this moment.
Locate(t) ==
  /\ t \notin Unlocatable
  /\ \E p \in Affinity[t] :
       /\ bindings' = [bindings EXCEPT ![Tid(t)] = p]
       /\ handle' = [handle EXCEPT ![t] = p]

Lookup(t) ==
  /\ pc[t] = "lookup"
  /\ \/ Locate(t) /\ pc' = [pc EXCEPT ![t] = "inc"]
     \/ /\ t \in Unlocatable
        /\ pc' = [pc EXCEPT ![t] = AfterStart]
        /\ UNCHANGED <<handle, bindings>>
  /\ UNCHANGED <<lib, mode, arg, now, clock, samples, out>>

\* Mutant: only the first thread of a PU waits at the barrier.
IncThreadsSkip(t) ==
  /\ pc[t] = "inc"
  /\ samples' = [samples EXCEPT ![handle[t]].n_threads = @ + 1]
  /\ pc' = [pc EXCEPT ![t] =
              IF samples[handle[t]].n_threads = 0 THEN "bar0" ELSE "bytes"]
  /\ UNCHANGED <<lib, mode, arg, handle, now, clock, bindings, out>>

IncThreads(t) ==
  /\ pc[t] = "inc"
  /\ samples' = [samples EXCEPT ![handle[t]].n_threads = @ + 1]
  /\ pc' = [pc EXCEPT ![t] = "bar0"]
  /\ UNCHANGED <<lib, mode, arg, handle, now, clock, bindings, out>>

StartBarrier(T) ==
  /\ TeamAt(T, "bar0")
  /\ pc' = Move(T, "bytes")
  /\ UNCHANGED <<lib, mode, arg, handle, now, clock, bindings, samples, out>>

SetBytes(t) ==
  /\ pc[t] = "bytes"
  /\ samples' = [samples EXCEPT ![handle[t]].bytes = Share(t).bytes]
  /\ pc' = [pc EXCEPT ![t] = "flops"]
  /\ UNCHANGED <<lib, mode, arg, handle, now, clock, bindings, out>>

SetFlops(t) ==
  /\ pc[t] = "flops"
  /\ samples' = [samples EXCEPT ![handle[t]].flops = Share(t).flops]
  /\ pc' = [pc EXCEPT ![t] = "first"]
  /\ UNCHANGED <<lib, mode, arg, handle, now, clock, bindings, out>>

\* Only the thread that finds the counter at zero starts the timer.
IncLast(t) ==
  /\ pc[t] = "first"
  /\ samples' = [samples EXCEPT ![handle[t]].last_thread = @ + 1]
  /\ pc' = [pc EXCEPT ![t] =
              IF samples[handle[t]].last_thread = 0 THEN "stamp" ELSE AfterStart]
  /\ UNCHANGED <<lib, mode, arg, handle, now, clock, bindings, out>>

Stamp(t) ==
  /\ pc[t] = "stamp"
  /\ samples' = [samples EXCEPT ![handle[t]].s_nano = clock[t]]
  /\ pc' = [pc EXCEPT ![t] = AfterStart]
  /\ UNCHANGED <<lib, mode, arg, handle, now, clock, bindings, out>>

\* The end of the forced region: the samples found are dropped, start gives NULL.
JoinForced ==
  /\ TeamAt(Thread, "join")
  /\ pc' = Move(Thread, "open")
  /\ handle' = [t \in Thread |-> NoSample]
  /\ UNCHANGED <<lib, mode, arg, now, clock, bindings, samples, out>>

(***************************************************************************)
(* roofline_sampling_stop                                                  *)
(***************************************************************************)
\* Without a sample stop looks the thread up again; from a sequential region it
\* does so in a region of its own, of one thread (LookupAssumption).
Stop(t) ==
  /\ mode # "forced" /\ pc[t] = "open"
  /\ pc' = [pc EXCEPT ![t] = IF handle[t] = NoSample THEN "relook" ELSE "time"]
  /\ UNCHANGED <<lib, mode, arg, handle, now, clock, bindings, samples, out>>

StopForced ==
  /\ mode = "forced" /\ TeamAt(Thread, "open")
  /\ pc' = Move(Thread, "relook")
  /\ UNCHANGED <<lib, mode, arg, handle, now, clock, bindings, samples, out>>

\* Mutant: stop does not return early on a thread it cannot locate.
RelookNull(t) ==
  /\ pc[t] = "relook"
  /\ \/ /\ Tid(t) > 0
        /\ handle' = [handle EXCEPT ![t] = bindings[t]]
        /\ pc' = [pc EXCEPT ![t] = "time"]
        /\ UNCHANGED bindings
     \/ Tid(t) = 0 /\ Locate(t) /\ pc' = [pc EXCEPT ![t] = "time"]
     \/ /\ Tid(t) = 0 /\ t \in Unlocatable
        /\ pc' = [pc EXCEPT ![t] = "bar1"]
        /\ UNCHANGED <<handle, bindings>>
  /\ UNCHANGED <<lib, mode, arg, now, clock, samples, out>>

\* roofline_sampling_caller(tid): thread 0, whose number has no sign, is looked
\* up again, the others find what start stored.
Relook(t) ==
  /\ pc[t] = "relook"
  /\ \/ /\ Tid(t) > 0
        /\ handle' = [handle EXCEPT ![t] = bindings[t]]
        /\ pc' = [pc EXCEPT ![t] = "time"]
        /\ UNCHANGED bindings
     \/ Tid(t) = 0 /\ Locate(t) /\ pc' = [pc EXCEPT ![t] = "time"]
     \/ /\ Tid(t) = 0 /\ t \in Unlocatable
        /\ pc' = [pc EXCEPT ![t] = "bar2"]
        /\ UNCHANGED <<handle, bindings>>
  /\ UNCHANGED <<lib, mode, arg, now, clock, samples, out>>

ReadTime(t) ==
  /\ pc[t] = "time"
  /\ now' = [now EXCEPT ![t] = clock[t]]
  /\ pc' = [pc EXCEPT ![t] = "dec"]
  /\ UNCHANGED <<lib, mode, arg, handle, clock, bindings, samples, out>>

\* Mutant: the first thread to stop clears the counter of its PU.
DecLastClears(t) ==
  /\ pc[t] = "dec"
  /\ samples' = [samples EXCEPT ![handle[t]].last_thread = 0]
  /\ pc' = [pc EXCEPT ![t] =
              IF samples[handle[t]].last_thread = 1 THEN "estamp" ELSE "bar1"]
  /\ UNCHANGED <<lib, mode, arg, handle, now, clock, bindings, out>>

\* Only the thread that brings the counter to zero stops the timer.
DecLast(t) ==
  /\ pc[t] = "dec"
  /\ samples' = [samples EXCEPT ![handle[t]].last_thread = @ - 1]
  /\ pc' = [pc EXCEPT ![t] =
              IF samples[handle[t]].last_thread = 1 THEN "estamp" ELSE "bar1"]
  /\ UNCHANGED <<lib, mode, arg, handle, now, clock, bindings, out>>

EndStamp(t) ==
  /\ pc[t] = "estamp"
  /\ samples' = [samples EXCEPT ![handle[t]].e_nano = now[t]]
  /\ pc' = [pc EXCEPT ![t] = "bar1"]
  /\ UNCHANGED <<lib, mode, arg, handle, now, clock, bindings, out>>

\* Mutant: no barrier before the single, each thread reports when it arrives.
StopBarrierNone(T) ==
  /\ \E e \in T : pc[e] = "bar1" /\ pc' = [pc EXCEPT ![e] = "report"]
  /\ UNCHANGED <<lib, mode, arg, handle, now, clock, bindings, samples, out>>

\* The barrier, then the single: one thread of the team is chosen, the others
\* go to the barrier at its end.
StopBarrier(T) ==
  /\ TeamAt(T, "bar1")
  /\ \E e \in T : pc' = [Move(T, "bar2") EXCEPT ![e] = "report"]
  /\ UNCHANGED <<lib, mode, arg, handle, now, clock, bindings, samples, out>>

Report(t) ==
  /\ pc[t] = "report"
  /\ out' = [n \in Node |-> Printed(Reduce(n))]
  /\ pc' = [pc EXCEPT ![t] = "reset"]
  /\ UNCHANGED <<lib, mode, arg, handle, now, clock, bindings, samples>>

ResetAll(t) ==
  /\ pc[t] = "reset"
  /\ samples' = [p \in PU |-> ResetSample(samples[p])]
  /\ pc' = [pc EXCEPT ![t] = "bar2"]
  /\ UNCHANGED <<lib, mode, arg, handle, now, clock, bindings, out>>

\* The barrier of the single; the calls return and their locals are gone.
Return(T) ==
  /\ TeamAt(T, "bar2")
  /\ pc' = Move(T, "idle")
  /\ arg' = [t \in Thread |-> IF t \in T THEN NoKernel ELSE arg[t]]
  /\ handle' = [t \in Thread |-> IF t \in T THEN NoSample ELSE handle[t]]
  /\ now' = [t \in Thread |-> IF t \in T THEN 0 ELSE now[t]]
  /\ mode' = IF mode = "forced" THEN "none" ELSE mode
  /\ UNCHANGED <<lib, clock, bindings, samples, out>>

-----------------------------------------------------------------------------
\* A call of a thread of the library that does not wait for the others.
Step(t) ==
  \/ Lookup(t) \/ IncThreads(t) \/ SetBytes(t) \/ SetFlops(t)
  \/ IncLast(t) \/ Stamp(t)
  \/ Relook(t) \/ ReadTime(t) \/ DecLast(t) \/ EndStamp(t)
  \/ Report(t) \/ ResetAll(t)

\* What a team does together, from the point of view of one of its threads.
Together(t) ==
  \/ StartBarrier(Team(t)) \/ StopBarrier(Team(t)) \/ Return(Team(t))

Library ==
  \/ \E t \in Thread : Step(t) \/ Together(t)
  \/ JoinForced

User ==
  \/ SamplingInit \/ SamplingFini \/ EnterParallel \/ LeaveParallel
  \/ \E t \in Thread : Tick(t) \/ Stop(t) \/ \E k \in Kernels : Start(t, k)
  \/ \E k \in Kernels : StartForced(k)
  \/ StopForced

Next == Library \/ User

Spec == Init /\ [][Next]_vars

\* Threads run; the user's program ends what it started: a thread of a parallel
\* region follows the others into start, and every start has its stop.
Follow(t) ==
  /\ \E u \in Thread : pc[u] \in {"lookup", "inc", "bar0"}
  /\ \E k \in Kernels : Start(t, k)

Fairness ==
  /\ \A t \in Thread :
       /\ WF_vars(Step(t)) /\ WF_vars(Together(t))
       /\ WF_vars(mode = "par" /\ Follow(t)) /\ WF_vars(Stop(t))
  /\ WF_vars(JoinForced) /\ WF_vars(StopForced)

FairSpec == Spec /\ Fairness

-----------------------------------------------------------------------------
(***************************************************************************)
(* Properties                                                              *)
(***************************************************************************)

\* Type correctness of the library's state (sampling.c globals and locals).
TypeOK ==
  /\ lib \in {"off", "on"}
  /\ mode \in {"none", "par", "forced"}
  /\ pc \in [Thread -> Labels]
  /\ arg \in [Thread -> [bytes : Nat, flops : Nat]]
  /\ handle \in [Thread -> PU \union {NoSample}]
  /\ now \in [Thread -> Nat]
  /\ clock \in [Thread -> Nat]
  /\ bindings \in [Thread -> PU]
  /\ samples \in [PU -> Sample]
  /\ DOMAIN out = Node

\* The PU whose sample a thread counts on: the handle of the call, and between
\* the two regions of a forced call what start stored for the thread.
Owner(t) ==
  IF mode = "forced" /\ pc[t] \in {"open", "relook"}
    THEN bindings[t] ELSE handle[t]

Counting == {"stamp", "join", "open", "relook", "time", "dec"}

Holders(p) ==
  {t \in Thread \ Unlocatable : pc[t] \in Counting /\ Owner(t) = p}

\* last_thread is at any time the number of threads between the increment of
\* start (sampling.c:417) and the decrement of stop (sampling.c:483) that own
\* the sample, whatever the threads that share a PU and across resets; so the
\* thread that brings it to zero really is the last one.
CounterExact ==
  lib = "on" =>
    \A p \in PU : samples[p].last_thread = Cardinality(Holders(p))

\* The samples are printed and reset (sampling.c:491-496) by one thread, while
\* all the others that have a sample wait at the end of the single or are outside
\* of the library: the two barriers leave no thread behind and let none run ahead
\* into the next measure, so nothing that is under way is printed or erased.
NoWipe ==
  \A t \in Thread : pc[t] \in {"report", "reset"} =>
    \A u \in Thread \ (Unlocatable \union {t}) : pc[u] \in {"idle", "bar2"}

TotalOf(field(_)) == SumFunctionOnSet([n \in Node |-> field(out[n])], Node)

\* What was just printed counts every thread of the team once, on whatever PUs
\* the threads were and however many shared one: n_threads is "the number of
\* threads actually used" (sampling.h:68).  A caller that is not located has no
\* sample: it neither reports nor erases what another one measures meanwhile.
AllCounted ==
  \A t \in Thread : pc[t] = "reset" =>
    TotalOf(LAMBDA l : l.n_threads) = Cardinality(Team(t))

\* The time printed is never negative (it would be printed as a huge unsigned
\* number), although on a shared PU one thread's CPU clock starts the timer and
\* another's stops it: the reduction starts from zero and keeps the slowest
\* (sampling.c:173-177).
TimeNeverNegative == \A n \in Node : out[n].nanoseconds >= 0

\* Every call returns: a thread that enters start gets through the barriers, the
\* single and the stop.
Returns == \A t \in Thread : pc[t] # "idle" ~> pc[t] = "idle"

\* sampling.c:33: last_thread is "a counter atomically incremented to know when
\* the last thread has to stop timer": with no thread counting, it is zero.
CounterRestsAtZero ==
  (lib = "on" /\ AllIdle) => \A p \in PU : samples[p].last_thread = 0

\* sampling.h:17: the library "is thread safe" with OpenMP: what a caller prints
\* counts at least the threads of its own team.
NoneLost ==
  \A t \in Thread : pc[t] = "reset" =>
    TotalOf(LAMBDA l : l.n_threads) >= Cardinality(Team(t))

\* sampling.h:15-16: a PU's sample holds the flops and bytes of the threads that
\* called start from it; outside of a forced call, what is printed is what the
\* threads of the team announced (sampling.h:50).
TotalsAnnounced ==
  \A t \in Thread : (pc[t] = "reset" /\ mode = "par") =>
    /\ TotalOf(LAMBDA l : l.bytes)
         = SumFunctionOnSet([u \in Thread |-> arg[u].bytes], Thread)
    /\ TotalOf(LAMBDA l : l.flops)
         = SumFunctionOnSet([u \in Thread |-> arg[u].flops], Thread)

\* sampling.h:47-48: the bytes and flops of a forced call are "the total of all
\* threads results", spread among the threads.  What is printed is never above
\* that total, and what the division by the team (sampling.c:439) loses of it is
\* less than one byte, or flop, for each thread.
ForcedTotal ==
  \A t \in Thread : (pc[t] = "reset" /\ mode = "forced") =>
    /\ arg[t].bytes - TotalOf(LAMBDA l : l.bytes) \in 0 .. N - 1
    /\ arg[t].flops - TotalOf(LAMBDA l : l.flops) \in 0 .. N - 1

=============================================================================
