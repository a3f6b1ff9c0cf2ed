--------------------------- MODULE SamplingProofs ---------------------------
(* Theorems about Sampling for every number of threads, topology and mask. *)
EXTENDS Sampling, FiniteSetTheorems, WellFoundedInduction, TLAPS

(***************************************************************************)
(* Types                                                                   *)
(***************************************************************************)
LEMMA InitType == Init => TypeOK
BY ThreadAssumption, TopologyAssumption
DEF Init, TypeOK, Labels, Sample, NewSample, NoKernel, Thread

LEMMA ShareType ==
  ASSUME TypeOK, NEW t \in Thread
  PROVE  Share(t) \in [bytes : Nat, flops : Nat]
<1>1. arg[t] \in [bytes : Nat, flops : Nat]
  BY DEF TypeOK
<1>2. arg[t].bytes \div N \in Nat /\ arg[t].flops \div N \in Nat
  BY <1>1, ThreadAssumption
<1>3. QED
  BY <1>1, <1>2 DEF Share

LEMMA ResetType ==
  ASSUME NEW s \in Sample
  PROVE  ResetSample(s) \in Sample
BY DEF Sample, ResetSample

\* A step that writes one field of the sample of thread t keeps the types.
LEMMA WriteType ==
  ASSUME TypeOK, NEW t \in Thread, NEW v,
         handle[t] \in PU => v \in Sample,
         samples' = [samples EXCEPT ![handle[t]] = v]
  PROVE  samples' \in [PU -> Sample]
BY DEF TypeOK

LEMMA MoveType ==
  ASSUME TypeOK, NEW T, NEW label \in Labels
  PROVE  Move(T, label) \in [Thread -> Labels]
BY DEF TypeOK, Move

LEMMA LocateType ==
  ASSUME TypeOK, NEW t \in Thread, Locate(t)
  PROVE  /\ bindings' \in [Thread -> PU]
         /\ handle' \in [Thread -> PU \union {NoSample}]
<1>1. PICK p \in Affinity[t] :
        /\ bindings' = [bindings EXCEPT ![Tid(t)] = p]
        /\ handle' = [handle EXCEPT ![t] = p]
  BY DEF Locate
<1>2. p \in PU
  BY BindingAssumption
<1>3. bindings' \in [Thread -> PU]
  BY <1>1, <1>2 DEF TypeOK
<1>4. handle' \in [Thread -> PU \union {NoSample}]
  BY <1>1, <1>2 DEF TypeOK
<1>5. QED
  BY <1>3, <1>4

LEMMA StepType == TypeOK /\ [Next]_vars => TypeOK'
<1> SUFFICES ASSUME TypeOK, [Next]_vars PROVE TypeOK'
  OBVIOUS
<1> USE DEF TypeOK, Labels
<1>1. CASE UNCHANGED vars
  BY <1>1 DEF vars
<1>2. CASE SamplingInit
  BY <1>2, TopologyAssumption DEF SamplingInit, NewSample, Sample
<1>3. CASE SamplingFini \/ EnterParallel \/ LeaveParallel \/ StopForced
  BY <1>3, MoveType DEF SamplingFini, EnterParallel, LeaveParallel, StopForced
<1>4. ASSUME NEW k \in Kernels, StartForced(k) PROVE TypeOK'
  BY <1>4, MoveType, UsageAssumption DEF StartForced
<1>5. CASE JoinForced
  BY <1>5, MoveType DEF JoinForced
<1>6. ASSUME NEW t \in Thread, NEW k \in Kernels, Start(t, k) PROVE TypeOK'
  BY <1>6, UsageAssumption DEF Start
<1>7. ASSUME NEW t \in Thread, Tick(t) \/ Stop(t) \/ ReadTime(t) PROVE TypeOK'
  BY <1>7 DEF Tick, Stop, ReadTime
<1>8. ASSUME NEW t \in Thread, Lookup(t) \/ Relook(t) PROVE TypeOK'
  BY <1>8, LocateType DEF Lookup, Relook, AfterStart
<1>9. ASSUME NEW t \in Thread, IncThreads(t) PROVE TypeOK'
  <2>1. ASSUME handle[t] \in PU
        PROVE  [samples[handle[t]] EXCEPT !.n_threads = @ + 1] \in Sample
    <3>1. samples[handle[t]] \in Sample
      BY <2>1
    <3>2. samples[handle[t]].n_threads + 1 \in Nat
      BY <3>1 DEF Sample
    <3>3. QED
      BY <3>1, <3>2 DEF Sample
  <2>2. samples' \in [PU -> Sample]
    BY <1>9, <2>1, WriteType DEF IncThreads
  <2>3. QED
    BY <1>9, <2>2 DEF IncThreads
<1>10. ASSUME NEW t \in Thread, SetBytes(t) PROVE TypeOK'
  <2>1. ASSUME handle[t] \in PU
        PROVE  [samples[handle[t]] EXCEPT !.bytes = Share(t).bytes] \in Sample
    <3>1. samples[handle[t]] \in Sample
      BY <2>1
    <3>2. Share(t).bytes \in Nat
      BY ShareType
    <3>3. QED
      BY <3>1, <3>2 DEF Sample
  <2>2. samples' \in [PU -> Sample]
    BY <1>10, <2>1, WriteType DEF SetBytes
  <2>3. QED
    BY <1>10, <2>2 DEF SetBytes
<1>11. ASSUME NEW t \in Thread, SetFlops(t) PROVE TypeOK'
  <2>1. ASSUME handle[t] \in PU
        PROVE  [samples[handle[t]] EXCEPT !.flops = Share(t).flops] \in Sample
    <3>1. samples[handle[t]] \in Sample
      BY <2>1
    <3>2. Share(t).flops \in Nat
      BY ShareType
    <3>3. QED
      BY <3>1, <3>2 DEF Sample
  <2>2. samples' \in [PU -> Sample]
    BY <1>11, <2>1, WriteType DEF SetFlops
  <2>3. QED
    BY <1>11, <2>2 DEF SetFlops
<1>12. ASSUME NEW t \in Thread, IncLast(t) PROVE TypeOK'
  <2>1. ASSUME handle[t] \in PU
        PROVE  [samples[handle[t]] EXCEPT !.last_thread = @ + 1] \in Sample
    <3>1. samples[handle[t]] \in Sample
      BY <2>1
    <3>2. samples[handle[t]].last_thread + 1 \in Int
      BY <3>1 DEF Sample
    <3>3. QED
      BY <3>1, <3>2 DEF Sample
  <2>2. samples' \in [PU -> Sample]
    BY <1>12, <2>1, WriteType DEF IncLast
  <2>3. QED
    BY <1>12, <2>2 DEF IncLast, AfterStart
<1>13. ASSUME NEW t \in Thread, DecLast(t) PROVE TypeOK'
  <2>1. ASSUME handle[t] \in PU
        PROVE  [samples[handle[t]] EXCEPT !.last_thread = @ - 1] \in Sample
    <3>1. samples[handle[t]] \in Sample
      BY <2>1
    <3>2. samples[handle[t]].last_thread - 1 \in Int
      BY <3>1 DEF Sample
    <3>3. QED
      BY <3>1, <3>2 DEF Sample
  <2>2. samples' \in [PU -> Sample]
    BY <1>13, <2>1, WriteType DEF DecLast
  <2>3. QED
    BY <1>13, <2>2 DEF DecLast
<1>14. ASSUME NEW t \in Thread, Stamp(t) PROVE TypeOK'
  <2>1. ASSUME handle[t] \in PU
        PROVE  [samples[handle[t]] EXCEPT !.s_nano = clock[t]] \in Sample
    <3>1. samples[handle[t]] \in Sample
      BY <2>1
    <3>2. clock[t] \in Nat
      BY DEF TypeOK
    <3>3. QED
      BY <3>1, <3>2 DEF Sample
  <2>2. samples' \in [PU -> Sample]
    BY <1>14, <2>1, WriteType DEF Stamp
  <2>3. QED
    BY <1>14, <2>2 DEF Stamp, AfterStart
<1>15. ASSUME NEW t \in Thread, EndStamp(t) PROVE TypeOK'
  <2>1. ASSUME handle[t] \in PU
        PROVE  [samples[handle[t]] EXCEPT !.e_nano = now[t]] \in Sample
    <3>1. samples[handle[t]] \in Sample
      BY <2>1
    <3>2. now[t] \in Nat
      BY DEF TypeOK
    <3>3. QED
      BY <3>1, <3>2 DEF Sample
  <2>2. samples' \in [PU -> Sample]
    BY <1>15, <2>1, WriteType DEF EndStamp
  <2>3. QED
    BY <1>15, <2>2 DEF EndStamp
<1>16. ASSUME NEW t \in Thread, Report(t) PROVE TypeOK'
  BY <1>16 DEF Report
<1>17. ASSUME NEW t \in Thread, ResetAll(t) PROVE TypeOK'
  <2>1. \A p \in PU : samples[p] \in Sample
    OBVIOUS
  <2>2. \A p \in PU : ResetSample(samples[p]) \in Sample
    BY <2>1, ResetType
  <2>3. samples' \in [PU -> Sample]
    BY <1>17, <2>2 DEF ResetAll
  <2>4. QED
    BY <1>17, <2>3 DEF ResetAll
<1>18. ASSUME NEW T, StartBarrier(T) PROVE TypeOK'
  BY <1>18, MoveType DEF StartBarrier
<1>19. ASSUME NEW T, StopBarrier(T) PROVE TypeOK'
  <2>1. Move(T, "bar2") \in [Thread -> Labels]
    BY MoveType
  <2>2. pc' \in [Thread -> Labels]
    BY <1>19, <2>1 DEF StopBarrier
  <2>3. QED
    BY <1>19, <2>2 DEF StopBarrier
<1>20. ASSUME NEW T, Return(T) PROVE TypeOK'
  <2>1. pc' \in [Thread -> Labels]
    BY <1>20, MoveType DEF Return
  <2>2. mode' \in {"none", "par", "forced"}
    BY <1>20 DEF Return
  <2>3. arg' \in [Thread -> [bytes : Nat, flops : Nat]]
    BY <1>20 DEF Return, NoKernel
  <2>4. /\ handle' \in [Thread -> PU \union {NoSample}]
        /\ now' \in [Thread -> Nat]
    BY <1>20 DEF Return
  <2>5. QED
    BY <1>20, <2>1, <2>2, <2>3, <2>4 DEF Return
<1>21. QED
  BY <1>1, <1>2, <1>3, <1>4, <1>5, <1>6, <1>7, <1>8, <1>9, <1>10, <1>11,
     <1>12, <1>13, <1>14, <1>15, <1>16, <1>17, <1>18, <1>19, <1>20
  DEF Next, Library, User, Step, Together

\* Every state of the library is of the type its declarations give it, for any
\* number of threads, any topology and any mask.
THEOREM TypeCorrect == Spec => []TypeOK
BY InitType, StepType, PTL DEF Spec

(***************************************************************************)
(* The counter last_thread                                                 *)
(***************************************************************************)

\* The first thread of a forced call, the one that stop looks up again, must be
\* bound: the run sampling_moved_master shows what happens otherwise.
MasterPinned == "forced" \in Regions => \E p \in PU : Affinity[0] = {p}

\* A thread that holds the sample of its own call.
Held ==
  {"inc", "bar0", "bytes", "flops", "first", "stamp", "time", "dec", "estamp",
   "bar1"}

\* A thread of a forced call between its lookup and the end of start.
Started == {"inc", "bar0", "bytes", "flops", "first", "stamp", "join"}

\* Where a thread finds its sample at each point of start and stop.
Placed(t) ==
  /\ pc[t] \in Held => handle[t] \in PU /\ t \notin Unlocatable
  /\ pc[t] \in {"report", "reset"} => t \notin Unlocatable
  /\ t \in Unlocatable => handle[t] = NoSample
  /\ pc[t] = "join" => mode = "forced"
  /\ (mode = "forced" /\ t \notin Unlocatable) =>
       /\ pc[t] \in Started => bindings[t] = handle[t]
       /\ pc[t] \in Started \union {"open", "relook"} => bindings[t] \in Affinity[t]
  /\ (mode # "forced" /\ t \notin Unlocatable) =>
       /\ pc[t] = "open" => handle[t] # NoSample
       /\ pc[t] # "relook"

Placement ==
  /\ lib = "off" => AllIdle /\ mode = "none"
  /\ mode # "none" => mode \in Regions
  /\ \A t \in Thread : Placed(t)

CounterInv == TypeOK /\ Placement /\ CounterExact

LEMMA InitCounter == Init => CounterInv
<1> SUFFICES ASSUME Init PROVE CounterInv
  OBVIOUS
<1>1. TypeOK
  BY InitType
<1>2. Placement
  BY DEF Init, Placement, Placed, AllIdle, Held, Started
<1>3. CounterExact
  BY DEF Init, CounterExact
<1>4. QED
  BY <1>1, <1>2, <1>3 DEF CounterInv

\* Locate is the only step that writes bindings, at the caller's own number.
LEMMA LocatePlaces ==
  ASSUME TypeOK, NEW t \in Thread, Locate(t)
  PROVE  /\ t \notin Unlocatable
         /\ handle'[t] \in PU /\ handle'[t] \in Affinity[t]
         /\ \A u \in Thread \ {t} : handle'[u] = handle[u]
         /\ mode = "forced" =>
              /\ bindings'[t] = handle'[t]
              /\ \A u \in Thread \ {t} : bindings'[u] = bindings[u]
<1>1. t \notin Unlocatable
  BY DEF Locate
<1>2. PICK p \in Affinity[t] :
        /\ bindings' = [bindings EXCEPT ![Tid(t)] = p]
        /\ handle' = [handle EXCEPT ![t] = p]
  BY DEF Locate
<1>3. p \in PU
  BY BindingAssumption
<1>4. /\ handle'[t] = p
      /\ \A u \in Thread \ {t} : handle'[u] = handle[u]
  BY <1>2 DEF TypeOK
<1>5. ASSUME mode = "forced"
      PROVE  /\ bindings'[t] = p
             /\ \A u \in Thread \ {t} : bindings'[u] = bindings[u]
  BY <1>2, <1>5 DEF TypeOK, Tid
<1>6. QED
  BY <1>1, <1>3, <1>4, <1>5

\* Outside of a team that moves together a thread changes its own place only.
LEMMA OthersPlaced ==
  ASSUME Placement, NEW t \in Thread, mode' = mode, lib' = lib,
         lib = "on" \/ ~AllIdle,
         Placed(t)',
         \A u \in Thread \ {t} : pc'[u] = pc[u] /\ handle'[u] = handle[u],
         mode = "forced" => \A u \in Thread \ {t} : bindings'[u] = bindings[u]
  PROVE  Placement'
<1>1. lib # "off"
  BY DEF Placement
<1>2. \A u \in Thread \ {t} : Placed(u)'
  BY DEF Placement, Placed
<1>3. QED
  BY <1>1, <1>2 DEF Placement

LEMMA PlacementStep == TypeOK /\ Placement /\ [Next]_vars => Placement'
<1> SUFFICES ASSUME TypeOK, Placement, [Next]_vars PROVE Placement'
  OBVIOUS
<1>1. CASE UNCHANGED vars
  BY <1>1 DEF vars, Placement, Placed, AllIdle
<1>2. CASE SamplingInit \/ SamplingFini
  BY <1>2 DEF SamplingInit, SamplingFini, Placement, Placed, AllIdle, Held, Started
<1>3. CASE EnterParallel \/ LeaveParallel
  BY <1>3 DEF EnterParallel, LeaveParallel, Placement, Placed, AllIdle, Held, Started
<1>4. ASSUME NEW k \in Kernels, StartForced(k) PROVE Placement'
  <2>1. \A t \in Thread : pc'[t] = "lookup"
    BY <1>4 DEF StartForced, Move
  <2>2. QED
    BY <1>4, <2>1 DEF StartForced, Placement, Placed, Held, Started
<1>5. CASE JoinForced
  <2>1. \A t \in Thread : pc[t] = "join" /\ pc'[t] = "open"
    BY <1>5 DEF JoinForced, Move, TeamAt
  <2>2. 0 \in Thread
    BY ThreadAssumption DEF Thread
  <2>3. mode = "forced" /\ ~AllIdle
    BY <2>1, <2>2 DEF Placement, Placed, AllIdle
  <2>4. \A t \in Thread : Placed(t)'
    BY <1>5, <2>1, <2>3 DEF JoinForced, Placement, Placed, Held, Started
  <2>5. QED
    BY <1>5, <2>3, <2>4 DEF JoinForced, Placement
<1>6. CASE StopForced
  <2>1. \A t \in Thread : pc[t] = "open" /\ pc'[t] = "relook"
    BY <1>6 DEF StopForced, Move, TeamAt
  <2>2. 0 \in Thread
    BY ThreadAssumption DEF Thread
  <2>3. ~AllIdle
    BY <2>1, <2>2 DEF AllIdle
  <2>4. \A t \in Thread : Placed(t)'
    BY <1>6, <2>1 DEF StopForced, Placement, Placed, Held, Started
  <2>5. QED
    BY <1>6, <2>3, <2>4 DEF StopForced, Placement
<1>7. ASSUME NEW t \in Thread, Tick(t) PROVE Placement'
  BY <1>7 DEF Tick, Placement, Placed, AllIdle
<1>8. ASSUME NEW t \in Thread, NEW k \in Kernels, Start(t, k) PROVE Placement'
  <2>1. Placed(t)'
    BY <1>8 DEF Start, Placement, Placed, TypeOK, Held, Started
  <2>2. QED
    BY <1>8, <2>1, OthersPlaced DEF Start, TypeOK
<1>9. ASSUME NEW t \in Thread, Lookup(t) PROVE Placement'
  <2>1. CASE Locate(t) /\ pc' = [pc EXCEPT ![t] = "inc"]
    <3>1. Placed(t)'
      BY <1>9, <2>1, LocatePlaces DEF Lookup, Placed, TypeOK, Held, Started
    <3>2. QED
      BY <1>9, <2>1, <3>1, LocatePlaces, OthersPlaced DEF Lookup, TypeOK, AllIdle
  <2>2. CASE t \in Unlocatable /\ pc' = [pc EXCEPT ![t] = AfterStart]
             /\ UNCHANGED <<handle, bindings>>
    <3>1. Placed(t)'
      BY <1>9, <2>2
      DEF Lookup, Placement, Placed, TypeOK, Held, Started, AfterStart
    <3>2. QED
      BY <1>9, <2>2, <3>1, OthersPlaced DEF Lookup, TypeOK, AllIdle
  <2>3. QED
    BY <1>9, <2>1, <2>2 DEF Lookup
<1>10. ASSUME NEW t \in Thread, Relook(t) PROVE Placement'
  <2>1. CASE Tid(t) > 0 /\ handle' = [handle EXCEPT ![t] = bindings[t]]
             /\ pc' = [pc EXCEPT ![t] = "time"] /\ UNCHANGED bindings
    <3>1. t \notin Unlocatable
      BY <2>1, LookupAssumption DEF Tid, Placement
    <3>2. Placed(t)'
      BY <1>10, <2>1, <3>1 DEF Relook, Placed, TypeOK, Held, Started
    <3>3. QED
      BY <1>10, <2>1, <3>2, OthersPlaced DEF Relook, TypeOK, AllIdle
  <2>2. CASE Locate(t) /\ pc' = [pc EXCEPT ![t] = "time"]
    <3>1. Placed(t)'
      BY <1>10, <2>2, LocatePlaces DEF Relook, Placed, TypeOK, Held, Started
    <3>2. QED
      BY <1>10, <2>2, <3>1, LocatePlaces, OthersPlaced DEF Relook, TypeOK, AllIdle
  <2>3. CASE t \in Unlocatable /\ pc' = [pc EXCEPT ![t] = "bar2"]
             /\ UNCHANGED <<handle, bindings>>
    <3>1. Placed(t)'
      BY <1>10, <2>3 DEF Relook, Placement, Placed, TypeOK, Held, Started
    <3>2. QED
      BY <1>10, <2>3, <3>1, OthersPlaced DEF Relook, TypeOK, AllIdle
  <2>4. QED
    BY <1>10, <2>1, <2>2, <2>3 DEF Relook
<1>11. ASSUME NEW t \in Thread, Stop(t) PROVE Placement'
  <2>1. Placed(t)'
    BY <1>11 DEF Stop, Placement, Placed, TypeOK, Held, Started
  <2>2. QED
    BY <1>11, <2>1, OthersPlaced DEF Stop, TypeOK, AllIdle
<1>12. ASSUME NEW t \in Thread,
              \/ IncThreads(t) \/ SetBytes(t) \/ SetFlops(t) \/ IncLast(t)
              \/ Stamp(t) \/ ReadTime(t) \/ DecLast(t) \/ EndStamp(t)
              \/ Report(t) \/ ResetAll(t)
       PROVE  Placement'
  <2> USE DEF IncThreads, SetBytes, SetFlops, IncLast, Stamp, ReadTime,
              DecLast, EndStamp, Report, ResetAll
  <2>1. /\ UNCHANGED <<lib, mode, handle, bindings>> /\ pc[t] # "idle"
        /\ \A u \in Thread \ {t} : pc'[u] = pc[u]
    BY <1>12 DEF TypeOK
  <2>2. CASE IncLast(t) \/ Stamp(t)
    <3>1. pc[t] \in Started \intersect Held /\ pc'[t] \in {"stamp", AfterStart}
      BY <2>2 DEF TypeOK, Started, Held
    <3>2. Placed(t)'
      <4>1. handle[t] \in PU /\ t \notin Unlocatable /\ handle[t] # NoSample
        BY <3>1, TopologyAssumption DEF Placement, Placed, Held, NoSample
      <4>2. QED
        BY <2>1, <3>1, <4>1 DEF Placement, Placed, Held, Started, AfterStart
    <3>3. QED
      BY <2>1, <3>2, OthersPlaced DEF AllIdle
  <2>3. CASE IncThreads(t) \/ SetBytes(t) \/ SetFlops(t)
    <3>1. /\ pc[t] \in Started \intersect Held
          /\ pc'[t] \in {"bar0", "flops", "first"}
      BY <2>3 DEF TypeOK, Started, Held
    <3>2. Placed(t)'
      BY <2>1, <3>1 DEF Placement, Placed, Held, Started
    <3>3. QED
      BY <2>1, <3>2, OthersPlaced DEF AllIdle
  <2>4. CASE ReadTime(t) \/ DecLast(t) \/ EndStamp(t)
    <3>1. pc[t] \in Held /\ pc'[t] \in {"dec", "estamp", "bar1"}
      BY <2>4 DEF TypeOK, Held
    <3>2. Placed(t)'
      BY <2>1, <3>1 DEF Placement, Placed, Held, Started
    <3>3. QED
      BY <2>1, <3>2, OthersPlaced DEF AllIdle
  <2>5. CASE Report(t) \/ ResetAll(t)
    <3>1. pc[t] \in {"report", "reset"} /\ pc'[t] \in {"reset", "bar2"}
      BY <2>5 DEF TypeOK
    <3>2. Placed(t)'
      BY <2>1, <3>1 DEF Placement, Placed, Held, Started
    <3>3. QED
      BY <2>1, <3>2, OthersPlaced DEF AllIdle
  <2>6. QED
    BY <1>12, <2>2, <2>3, <2>4, <2>5
<1>13. ASSUME NEW t \in Thread, StartBarrier(Team(t)) PROVE Placement'
  <2>1. /\ pc[t] = "bar0"
        /\ \A u \in Thread :
             \/ pc'[u] = pc[u]
             \/ pc[u] = "bar0" /\ pc'[u] = "bytes"
    BY <1>13 DEF StartBarrier, TeamAt, Team, Move
  <2>2. \A u \in Thread : Placed(u)'
    BY <1>13, <2>1 DEF StartBarrier, Placement, Placed, Held, Started
  <2>3. QED
    BY <1>13, <2>1, <2>2 DEF StartBarrier, Placement, AllIdle
<1>14. ASSUME NEW t \in Thread, StopBarrier(Team(t)) PROVE Placement'
  <2>1. /\ pc[t] = "bar1"
        /\ \A u \in Thread :
             \/ pc'[u] = pc[u]
             \/ pc[u] = "bar1" /\ pc'[u] \in {"report", "bar2"}
    BY <1>14 DEF StopBarrier, TeamAt, Team, Move
  <2>2. \A u \in Thread : Placed(u)'
    BY <1>14, <2>1 DEF StopBarrier, Placement, Placed, Held, Started
  <2>3. QED
    BY <1>14, <2>1, <2>2 DEF StopBarrier, Placement, AllIdle
<1>15. ASSUME NEW t \in Thread, Return(Team(t)) PROVE Placement'
  <2>1. /\ pc[t] = "bar2"
        /\ \A u \in Thread :
             \/ pc'[u] = pc[u] /\ handle'[u] = handle[u]
             \/ pc'[u] = "idle" /\ handle'[u] = NoSample
        /\ mode = "forced" => \A u \in Thread : pc'[u] = "idle"
    BY <1>15 DEF Return, TeamAt, Team, Move
  <2>2. \A u \in Thread : Placed(u)'
    BY <1>15, <2>1 DEF Return, Placement, Placed, Held, Started
  <2>3. QED
    BY <1>15, <2>1, <2>2 DEF Return, Placement, AllIdle
<1>16. QED
  BY <1>1, <1>2, <1>3, <1>4, <1>5, <1>6, <1>7, <1>8, <1>9, <1>10, <1>11,
     <1>12, <1>13, <1>14, <1>15
  DEF Next, Library, User, Step, Together

\* The steps that leave the counters alone leave the threads that count alone.
LEMMA SameCounters ==
  ASSUME CounterExact, lib = "on",
         \A p \in PU : samples'[p].last_thread = samples[p].last_thread,
         \A t \in Thread \ Unlocatable :
           /\ pc'[t] \in Counting <=> pc[t] \in Counting
           /\ pc[t] \in Counting => Owner(t)' = Owner(t)
  PROVE  CounterExact'
<1>1. \A p \in PU : Holders(p)' = Holders(p)
  BY DEF Holders
<1>2. QED
  BY <1>1 DEF CounterExact

LEMMA HoldersFinite ==
  \A p : IsFiniteSet(Holders(p)) /\ Cardinality(Holders(p)) \in Nat
<1>1. IsFiniteSet(Thread)
  BY FS_Interval, ThreadAssumption DEF Thread
<1>2. QED
  BY <1>1, FS_Subset, FS_CardinalityType DEF Holders

\* A thread that starts to count joins the holders of its PU.
LEMMA HoldersJoin ==
  ASSUME CounterInv, NEW t \in Thread, IncLast(t)
  PROVE  CounterExact'
<1>1. /\ pc[t] = "first" /\ handle[t] \in PU /\ t \notin Unlocatable
      /\ pc'[t] \in {"stamp", AfterStart}
      /\ \A u \in Thread \ {t} : pc'[u] = pc[u]
      /\ lib = "on" /\ UNCHANGED <<lib, mode, handle, bindings>>
  BY DEF IncLast, CounterInv, Placement, Placed, Held, TypeOK, AllIdle
<1>2. \A p \in PU : samples'[p].last_thread =
        IF p = handle[t] THEN samples[p].last_thread + 1 ELSE samples[p].last_thread
  BY DEF IncLast, CounterInv, TypeOK, Sample
<1>3. pc'[t] \in Counting /\ pc[t] \notin Counting /\ Owner(t)' = handle[t]
  BY <1>1 DEF Counting, Owner, AfterStart
<1>4. \A u \in Thread \ {t} : Owner(u)' = Owner(u)
  BY <1>1 DEF Owner
<1>5. ASSUME NEW p \in PU, p # handle[t] PROVE Holders(p)' = Holders(p)
  BY <1>1, <1>3, <1>4, <1>5 DEF Holders
<1>6. /\ Holders(handle[t])' = Holders(handle[t]) \union {t}
      /\ t \notin Holders(handle[t])
  BY <1>1, <1>3, <1>4 DEF Holders
<1>7. Cardinality(Holders(handle[t])') = Cardinality(Holders(handle[t])) + 1
  BY <1>6, HoldersFinite, FS_AddElement
<1>8. QED
  BY <1>1, <1>2, <1>5, <1>7 DEF CounterInv, CounterExact

\* A thread that stops counting leaves the holders of its PU.
LEMMA HoldersLeave ==
  ASSUME CounterInv, NEW t \in Thread, DecLast(t)
  PROVE  CounterExact'
<1>1. /\ pc[t] = "dec" /\ handle[t] \in PU /\ t \notin Unlocatable
      /\ pc'[t] \in {"estamp", "bar1"}
      /\ \A u \in Thread \ {t} : pc'[u] = pc[u]
      /\ lib = "on" /\ UNCHANGED <<lib, mode, handle, bindings>>
  BY DEF DecLast, CounterInv, Placement, Placed, Held, TypeOK, AllIdle
<1>2. \A p \in PU : samples'[p].last_thread =
        IF p = handle[t] THEN samples[p].last_thread - 1 ELSE samples[p].last_thread
  BY DEF DecLast, CounterInv, TypeOK, Sample
<1>3. pc'[t] \notin Counting /\ pc[t] \in Counting /\ Owner(t) = handle[t]
  BY <1>1 DEF Counting, Owner
<1>4. \A u \in Thread \ {t} : Owner(u)' = Owner(u)
  BY <1>1 DEF Owner
<1>5. ASSUME NEW p \in PU, p # handle[t] PROVE Holders(p)' = Holders(p)
  BY <1>1, <1>3, <1>4, <1>5 DEF Holders
<1>6. /\ Holders(handle[t])' = Holders(handle[t]) \ {t}
      /\ t \in Holders(handle[t])
  BY <1>1, <1>3, <1>4 DEF Holders
<1>7. Cardinality(Holders(handle[t])') = Cardinality(Holders(handle[t])) - 1
  BY <1>6, HoldersFinite, FS_RemoveElement
<1>8. QED
  BY <1>1, <1>2, <1>5, <1>7 DEF CounterInv, CounterExact

\* Neither side of a step on which nobody is in a call has holders.
LEMMA NoHolders ==
  ASSUME AllIdle, AllIdle', CounterExact, lib = "on", UNCHANGED samples
  PROVE  CounterExact'
BY SameCounters DEF AllIdle, Counting

LEMMA CounterStep ==
  ASSUME MasterPinned, CounterInv, [Next]_vars
  PROVE  CounterExact'
<1> USE DEF CounterInv
<1>1. CASE UNCHANGED vars
  BY <1>1 DEF vars, CounterExact, Holders, Owner
<1>2. CASE SamplingInit
  <2>1. \A p : Holders(p)' = {}
    BY <1>2 DEF SamplingInit, Placement, AllIdle, Holders, Counting
  <2>2. \A p \in PU : samples'[p].last_thread = 0
    BY <1>2 DEF SamplingInit, NewSample
  <2>3. QED
    BY <2>1, <2>2, FS_EmptySet DEF CounterExact
<1>3. CASE SamplingFini
  BY <1>3 DEF SamplingFini, CounterExact
<1>4. CASE EnterParallel \/ LeaveParallel
  BY <1>4, NoHolders DEF EnterParallel, LeaveParallel, AllIdle, Placement, TypeOK,
     CounterExact
<1>5. ASSUME NEW k \in Kernels, StartForced(k) PROVE CounterExact'
  BY <1>5, SameCounters DEF StartForced, Move, AllIdle, Counting
<1>6. ASSUME lib = "off", UNCHANGED lib PROVE CounterExact'
  BY <1>6 DEF CounterExact
<1>7. CASE JoinForced
  <2>1. \A t \in Thread : pc[t] = "join" /\ pc'[t] = "open" /\ mode = "forced"
    BY <1>7 DEF JoinForced, Move, TeamAt, Placement, Placed
  <2>2. \A t \in Thread \ Unlocatable : Owner(t)' = Owner(t)
    BY <1>7, <2>1 DEF JoinForced, Owner, Placement, Placed, Started
  <2>3. lib = "on" => CounterExact'
    BY <1>7, <2>1, <2>2, SameCounters DEF JoinForced, Counting
  <2>4. QED
    BY <1>6, <1>7, <2>3 DEF JoinForced, TypeOK
<1>8. CASE StopForced
  <2>1. \A t \in Thread : pc[t] = "open" /\ pc'[t] = "relook"
    BY <1>8 DEF StopForced, Move, TeamAt
  <2>2. \A t \in Thread : Owner(t)' = Owner(t)
    BY <1>8, <2>1 DEF StopForced, Owner
  <2>3. lib = "on" => CounterExact'
    BY <1>8, <2>1, <2>2, SameCounters DEF StopForced, Counting
  <2>4. QED
    BY <1>6, <1>8, <2>3 DEF StopForced, TypeOK
<1>9. ASSUME NEW t \in Thread, Tick(t) \/ Report(t) \/ ReadTime(t) \/ Stop(t)
      PROVE  CounterExact'
  <2>1. /\ \A u \in Thread : pc'[u] \in Counting <=> pc[u] \in Counting
        /\ UNCHANGED <<lib, mode, handle, bindings, samples>>
    BY <1>9 DEF Tick, Report, ReadTime, Stop, TypeOK, Counting
  <2>2. \A u \in Thread : Owner(u)' = Owner(u)
    BY <1>9, <2>1 DEF Tick, Report, ReadTime, Stop, TypeOK, Owner
  <2>3. QED
    BY <1>6, <2>1, <2>2, SameCounters DEF TypeOK
<1>10. ASSUME NEW t \in Thread, NEW k \in Kernels, Start(t, k) PROVE CounterExact'
  <2>1. /\ \A u \in Thread : pc'[u] \in Counting <=> pc[u] \in Counting
        /\ lib = "on"
    BY <1>10 DEF Start, TypeOK, Counting
  <2>2. \A u \in Thread : pc[u] \in Counting => Owner(u)' = Owner(u)
    BY <1>10 DEF Start, TypeOK, Owner, Counting
  <2>3. QED
    BY <1>10, <2>1, <2>2, SameCounters DEF Start
<1>11. ASSUME NEW t \in Thread, Lookup(t) PROVE CounterExact'
  <2>1. ASSUME Locate(t), pc' = [pc EXCEPT ![t] = "inc"]
        PROVE  \A u \in Thread :
                 /\ pc'[u] \in Counting <=> pc[u] \in Counting
                 /\ pc[u] \in Counting => Owner(u)' = Owner(u)
    BY <1>11, <2>1, LocatePlaces DEF Lookup, TypeOK, Counting, Owner
  <2>2. ASSUME t \in Unlocatable, pc' = [pc EXCEPT ![t] = AfterStart],
               UNCHANGED <<handle, bindings>>
        PROVE  \A u \in Thread \ {t} :
                 /\ pc'[u] \in Counting <=> pc[u] \in Counting
                 /\ pc[u] \in Counting => Owner(u)' = Owner(u)
    BY <1>11, <2>2 DEF Lookup, TypeOK, Owner
  <2>3. \A u \in Thread \ Unlocatable :
          /\ pc'[u] \in Counting <=> pc[u] \in Counting
          /\ pc[u] \in Counting => Owner(u)' = Owner(u)
    BY <1>11, <2>1, <2>2 DEF Lookup
  <2>4. lib = "on" => CounterExact'
    BY <1>11, <2>3, SameCounters DEF Lookup
  <2>5. QED
    BY <1>6, <1>11, <2>4 DEF Lookup, TypeOK
<1>12. ASSUME NEW t \in Thread, Relook(t) PROVE CounterExact'
  <2>1. /\ pc[t] = "relook" /\ pc'[t] \in {"time", "bar2"}
        /\ \A u \in Thread \ {t} : pc'[u] = pc[u]
    BY <1>12 DEF Relook, TypeOK
  <2>2. t \notin Unlocatable => mode = "forced" /\ bindings[t] \in Affinity[t]
    BY <2>1 DEF Placement, Placed
  <2>3. ASSUME Tid(t) > 0, handle' = [handle EXCEPT ![t] = bindings[t]],
               pc' = [pc EXCEPT ![t] = "time"], UNCHANGED bindings
        PROVE  \A u \in Thread \ Unlocatable :
                 /\ pc'[u] \in Counting <=> pc[u] \in Counting
                 /\ pc[u] \in Counting => Owner(u)' = Owner(u)
    BY <1>12, <2>1, <2>2, <2>3 DEF Relook, TypeOK, Counting, Owner
  <2>4. ASSUME Tid(t) = 0, Locate(t), pc' = [pc EXCEPT ![t] = "time"]
        PROVE  \A u \in Thread \ Unlocatable :
                 /\ pc'[u] \in Counting <=> pc[u] \in Counting
                 /\ pc[u] \in Counting => Owner(u)' = Owner(u)
    <3>1. mode = "forced" /\ t = 0
      BY <2>2, <2>4, LocatePlaces DEF Tid
    <3>2. handle'[t] = bindings[t]
      BY <2>2, <2>4, <3>1, LocatePlaces DEF MasterPinned, Placement
    <3>3. UNCHANGED mode
      BY <1>12 DEF Relook
    <3>4. Owner(t) = bindings[t] /\ Owner(t)' = handle'[t]
      BY <2>1, <2>4, <3>1, <3>3 DEF Owner, TypeOK
    <3>5. \A u \in Thread \ {t} : Owner(u)' = Owner(u)
      BY <2>1, <2>4, <3>1, <3>3, LocatePlaces DEF Owner
    <3>6. pc'[t] = "time"
      BY <2>4 DEF TypeOK
    <3>7. QED
      BY <2>1, <3>2, <3>4, <3>5, <3>6 DEF Counting
  <2>5. ASSUME t \in Unlocatable, UNCHANGED <<handle, bindings>>
        PROVE  \A u \in Thread \ Unlocatable :
                 /\ pc'[u] \in Counting <=> pc[u] \in Counting
                 /\ pc[u] \in Counting => Owner(u)' = Owner(u)
    BY <1>12, <2>1, <2>5 DEF Relook, Owner
  <2>6. \A u \in Thread \ Unlocatable :
          /\ pc'[u] \in Counting <=> pc[u] \in Counting
          /\ pc[u] \in Counting => Owner(u)' = Owner(u)
    BY <1>12, <2>3, <2>4, <2>5 DEF Relook
  <2>7. lib = "on" => CounterExact'
    BY <1>12, <2>6, SameCounters DEF Relook
  <2>8. QED
    BY <1>6, <1>12, <2>7 DEF Relook, TypeOK
<1>13. ASSUME NEW t \in Thread, IncThreads(t) \/ SetBytes(t) \/ SetFlops(t)
       PROVE  CounterExact'
  <2>1. \A p \in PU : samples'[p].last_thread = samples[p].last_thread
    <3>1. CASE IncThreads(t)
      BY <3>1 DEF IncThreads, TypeOK, Sample
    <3>2. CASE SetBytes(t)
      BY <3>2 DEF SetBytes, TypeOK, Sample
    <3>3. CASE SetFlops(t)
      BY <3>3 DEF SetFlops, TypeOK, Sample
    <3>4. QED
      BY <1>13, <3>1, <3>2, <3>3
  <2>2. /\ \A u \in Thread :
             /\ pc'[u] \in Counting <=> pc[u] \in Counting
             /\ pc[u] \in Counting => Owner(u)' = Owner(u)
        /\ UNCHANGED lib
    BY <1>13 DEF IncThreads, SetBytes, SetFlops, TypeOK, Counting, Owner
  <2>3. lib = "on" => CounterExact'
    BY <2>1, <2>2, SameCounters
  <2>4. QED
    BY <1>6, <2>2, <2>3 DEF TypeOK
<1>14. ASSUME NEW t \in Thread, Stamp(t) \/ EndStamp(t) PROVE CounterExact'
  <2>1. \A p \in PU : samples'[p].last_thread = samples[p].last_thread
    BY <1>14, SMTT(20) DEF Stamp, EndStamp, TypeOK, Sample
  <2>2. \A u \in Thread : pc'[u] \in Counting <=> pc[u] \in Counting
    BY <1>14 DEF Stamp, EndStamp, AfterStart, TypeOK, Counting
  <2>3. \A u \in Thread : pc[u] \in Counting => Owner(u)' = Owner(u)
    BY <1>14 DEF Stamp, EndStamp, AfterStart, TypeOK, Counting, Owner
  <2>4. QED
    BY <1>6, <1>14, <2>1, <2>2, <2>3, SameCounters DEF Stamp, EndStamp, TypeOK
<1>15. ASSUME NEW t \in Thread, ResetAll(t) PROVE CounterExact'
  <2>1. \A p \in PU : samples'[p].last_thread = samples[p].last_thread
    BY <1>15 DEF ResetAll, ResetSample, TypeOK, Sample
  <2>2. \A u \in Thread :
          /\ pc'[u] \in Counting <=> pc[u] \in Counting
          /\ pc[u] \in Counting => Owner(u)' = Owner(u)
    BY <1>15 DEF ResetAll, TypeOK, Counting, Owner
  <2>3. lib = "on" => CounterExact'
    BY <2>1, <2>2, SameCounters
  <2>4. QED
    BY <1>6, <1>15, <2>3 DEF ResetAll, TypeOK
<1>16. ASSUME NEW t \in Thread, IncLast(t) PROVE CounterExact'
  BY <1>16, HoldersJoin
<1>17. ASSUME NEW t \in Thread, DecLast(t) PROVE CounterExact'
  BY <1>17, HoldersLeave
<1>18. ASSUME NEW t \in Thread,
              StartBarrier(Team(t)) \/ StopBarrier(Team(t)) \/ Return(Team(t))
       PROVE  CounterExact'
  <2>1. UNCHANGED <<lib, bindings, samples>>
    BY <1>18 DEF StartBarrier, StopBarrier, Return
  <2>2. \A u \in Thread :
          \/ pc'[u] = pc[u] /\ handle'[u] = handle[u]
          \/ pc[u] \notin Counting /\ pc'[u] \notin Counting
    <3>1. CASE StartBarrier(Team(t))
      BY <3>1 DEF StartBarrier, Move, TeamAt, Counting
    <3>2. CASE StopBarrier(Team(t))
      <4>1. PICK e \in Team(t) : pc' = [Move(Team(t), "bar2") EXCEPT ![e] = "report"]
        BY <3>2 DEF StopBarrier
      <4>2. \A u \in Thread :
              \/ u \in Team(t) /\ pc'[u] \in {"report", "bar2"}
              \/ u \notin Team(t) /\ pc'[u] = pc[u]
        BY <4>1 DEF Move
      <4>3. \A u \in Team(t) : pc[u] = "bar1"
        BY <3>2 DEF StopBarrier, TeamAt
      <4>4. QED
        BY <3>2, <4>2, <4>3 DEF StopBarrier, Counting
    <3>3. CASE Return(Team(t))
      BY <3>3 DEF Return, Move, TeamAt, Counting
    <3>4. QED
      BY <1>18, <3>1, <3>2, <3>3
  <2>3. UNCHANGED mode \/ \A u \in Thread : pc[u] \notin Counting
    BY <1>18 DEF StartBarrier, StopBarrier, Return, TeamAt, Team, Counting
  <2>4. \A u \in Thread :
          /\ pc'[u] \in Counting <=> pc[u] \in Counting
          /\ pc[u] \in Counting => Owner(u)' = Owner(u)
    BY <2>1, <2>2, <2>3 DEF Owner
  <2>5. lib = "on" => CounterExact'
    BY <2>1, <2>4, SameCounters
  <2>6. QED
    BY <1>6, <2>1, <2>5 DEF TypeOK
<1>19. QED
  BY <1>1, <1>2, <1>3, <1>4, <1>5, <1>7, <1>8, <1>9, <1>10, <1>11,
     <1>12, <1>13, <1>14, <1>15, <1>16, <1>17, <1>18
  DEF Next, Library, User, Step, Together

\* For every machine, team and mask, as long as the first thread of a forced
\* call is bound: last_thread is exactly the number of threads that count on the
\* PU, so the thread that brings it to zero is the last one.
THEOREM CounterCorrect == ASSUME MasterPinned PROVE Spec => []CounterExact
<1>1. CounterInv /\ [Next]_vars => CounterInv'
  BY StepType, PlacementStep, CounterStep DEF CounterInv
<1>2. CounterInv => CounterExact
  BY DEF CounterInv
<1>3. QED
  BY InitCounter, <1>1, <1>2, PTL DEF Spec

\* Under the same condition no counter is left over by a measure.
THEOREM CounterRests == ASSUME MasterPinned PROVE Spec => []CounterRestsAtZero
<1>1. CounterExact => CounterRestsAtZero
  <2> SUFFICES ASSUME CounterExact, lib = "on", AllIdle, NEW p \in PU
               PROVE  samples[p].last_thread = 0
    BY DEF CounterRestsAtZero
  <2>1. Holders(p) = {}
    BY DEF AllIdle, Holders, Counting
  <2>2. QED
    BY <2>1, FS_EmptySet DEF CounterExact
<1>2. QED
  BY CounterCorrect, <1>1, PTL

(***************************************************************************)
(* Barriers and the reset                                                  *)
(***************************************************************************)

\* A region has a team whose threads are all located.
LEMMA TeamLocated == ASSUME Placement, mode # "none" PROVE Unlocatable = {}
BY LookupAssumption DEF Placement

\* One sequential caller that has a sample: the run sampling_two_callers shows
\* what two do.  Callers that are not located may be as many as there are threads.
OneCaller == \A a, b \in SeqCallers \ Unlocatable : a = b

Before == {"idle", "lookup", "inc", "bar0"}
During ==
  {"bytes", "flops", "first", "stamp", "join", "open", "relook", "time", "dec",
   "estamp", "bar1"}
After == {"report", "reset", "bar2"}

\* The barriers keep the threads of a region in the same phase of a measure.
InPhase ==
  \/ \A t \in Thread : pc[t] \in Before
  \/ \A t \in Thread : pc[t] \in During
  \/ \A t \in Thread : pc[t] \in After

OneReporter ==
  \A t, u \in Thread :
    pc[t] \in {"report", "reset"} /\ pc[u] \in {"report", "reset"} => t = u

OthersIdle == \A t \in Thread \ SeqCallers : pc[t] = "idle"

PhaseInv ==
  /\ TypeOK
  /\ Placement
  /\ mode # "none" => InPhase
  /\ mode = "none" => OthersIdle
  /\ OneReporter

LEMMA InitPhase == Init => PhaseInv
BY InitCounter DEF CounterInv, PhaseInv, Init, OthersIdle, OneReporter

\* Outside of a region the other threads that have a sample are idle.
LEMMA AloneIdle ==
  ASSUME OneCaller, PhaseInv, mode = "none",
         NEW t \in Thread \ Unlocatable, pc[t] # "idle"
  PROVE  \A u \in Thread \ (Unlocatable \union {t}) : pc[u] = "idle"
BY DEF OneCaller, PhaseInv, OthersIdle

LEMMA PhaseWipe == ASSUME OneCaller, PhaseInv PROVE NoWipe
<1> SUFFICES ASSUME NEW t \in Thread, pc[t] \in {"report", "reset"},
                    NEW u \in Thread \ (Unlocatable \union {t})
             PROVE  pc[u] \in {"idle", "bar2"}
  BY DEF NoWipe
<1>1. CASE mode = "none"
  <2>1. t \notin Unlocatable
    BY DEF PhaseInv, Placement, Placed
  <2>2. QED
    BY <1>1, <2>1, AloneIdle
<1>2. CASE mode # "none"
  <2>1. pc[u] \in After
    BY <1>2 DEF PhaseInv, InPhase, Before, During, After
  <2>2. QED
    BY <2>1 DEF PhaseInv, OneReporter, After
<1>3. QED
  BY <1>1, <1>2

\* A thread alone in its step stays in its phase, or is in no region.
LEMMA AlonePhase ==
  ASSUME PhaseInv, TypeOK', Placement', NEW t \in Thread, mode' = mode,
         \A u \in Thread \ {t} : pc'[u] = pc[u],
         mode = "none" => t \in SeqCallers,
         pc'[t] \in {"report", "reset"} => pc[t] \in {"report", "reset"},
         \/ pc[t] \in Before /\ pc'[t] \in Before
         \/ pc[t] \in During /\ pc'[t] \in During
         \/ pc[t] \in After /\ pc'[t] \in After
         \/ mode = "none"
  PROVE  PhaseInv'
<1>1. mode = "none" => OthersIdle'
  BY DEF PhaseInv, OthersIdle
<1>2. OneReporter'
  BY DEF PhaseInv, OneReporter
<1>3. mode # "none" => InPhase'
  BY DEF PhaseInv, InPhase, Before, During, After
<1>4. QED
  BY <1>1, <1>2, <1>3 DEF PhaseInv

LEMMA PhaseStep ==
  ASSUME OneCaller, PhaseInv, [Next]_vars
  PROVE  PhaseInv'
<1>1. TypeOK' /\ Placement'
  BY StepType, PlacementStep DEF PhaseInv
<1>2. CASE UNCHANGED vars
  BY <1>1, <1>2 DEF vars, PhaseInv, InPhase, OthersIdle, OneReporter
<1>3. CASE SamplingInit \/ SamplingFini \/ \E t \in Thread : Tick(t)
  BY <1>1, <1>3
  DEF SamplingInit, SamplingFini, Tick, PhaseInv, InPhase, OthersIdle, OneReporter
<1>4. CASE EnterParallel \/ LeaveParallel
  BY <1>1, <1>4
  DEF EnterParallel, LeaveParallel, AllIdle, PhaseInv, InPhase, OthersIdle,
      OneReporter, Before
<1>5. ASSUME NEW k \in Kernels, StartForced(k) PROVE PhaseInv'
  <2>1. mode' = "forced" /\ \A t \in Thread : pc'[t] = "lookup"
    BY <1>5 DEF StartForced, Move
  <2>2. QED
    BY <1>1, <2>1 DEF PhaseInv, InPhase, OneReporter, Before
<1>6. CASE JoinForced \/ StopForced
  <2>1. \A t \in Thread : pc'[t] \in {"open", "relook"}
    BY <1>6 DEF JoinForced, StopForced, Move
  <2>2. mode' = mode /\ \A t \in Thread : pc[t] # "idle"
    BY <1>6 DEF JoinForced, StopForced, TeamAt
  <2>3. mode = "none" => \A t \in Thread : t \in SeqCallers
    BY <2>2 DEF PhaseInv, OthersIdle
  <2>4. QED
    BY <1>1, <2>1, <2>2, <2>3 DEF PhaseInv, InPhase, OthersIdle, OneReporter, During
<1>7. ASSUME NEW t \in Thread, NEW k \in Kernels, Start(t, k) PROVE PhaseInv'
  <2>1. /\ mode' = mode /\ pc[t] = "idle" /\ pc'[t] = "lookup"
        /\ mode = "none" => t \in SeqCallers
        /\ \A u \in Thread \ {t} : pc'[u] = pc[u]
    BY <1>7 DEF Start, PhaseInv, TypeOK
  <2>2. QED
    BY <1>1, <2>1, AlonePhase DEF Before
<1>8. ASSUME NEW t \in Thread, Step(t) \/ Stop(t) PROVE PhaseInv'
  <2>1. mode' = mode /\ \A u \in Thread \ {t} : pc'[u] = pc[u]
    BY <1>8
    DEF PhaseInv, TypeOK, Step, Stop, Lookup, IncThreads, SetBytes, SetFlops,
        IncLast, Stamp, Relook, ReadTime, DecLast, EndStamp, Report, ResetAll
  <2>2. pc[t] # "idle"
    BY <1>8
    DEF Step, Stop, Lookup, IncThreads, SetBytes, SetFlops,
        IncLast, Stamp, Relook, ReadTime, DecLast, EndStamp, Report, ResetAll
  <2>3. mode = "none" => t \in SeqCallers
    BY <2>2 DEF PhaseInv, OthersIdle
  <2>4. CASE Lookup(t) \/ IncThreads(t)
    <3>1. \/ pc[t] \in Before /\ pc'[t] \in Before
          \/ mode = "none" /\ pc'[t] \in During
      BY <2>4, TeamLocated
      DEF PhaseInv, TypeOK, Lookup, IncThreads, AfterStart, Before, During
    <3>2. pc'[t] \notin {"report", "reset"}
      BY <3>1 DEF Before, During
    <3>3. QED
      BY <1>1, <2>1, <2>3, <3>1, <3>2, AlonePhase
  <2>5. CASE \/ SetBytes(t) \/ SetFlops(t) \/ IncLast(t) \/ Stamp(t)
             \/ Stop(t) \/ ReadTime(t) \/ DecLast(t) \/ EndStamp(t)
    <3>1. pc[t] \in During /\ pc'[t] \in During
      BY <2>5
      DEF PhaseInv, TypeOK, SetBytes, SetFlops, IncLast, Stamp, Stop, ReadTime,
          DecLast, EndStamp, AfterStart, During
    <3>2. pc'[t] \notin {"report", "reset"}
      BY <3>1 DEF During
    <3>3. QED
      BY <1>1, <2>1, <2>3, <3>1, <3>2, AlonePhase
  <2>6. CASE Relook(t)
    <3>1. \/ pc[t] \in During /\ pc'[t] \in During
          \/ mode = "none" /\ pc'[t] \in After
      BY <2>6, TeamLocated DEF PhaseInv, TypeOK, Relook, During, After
    <3>2. pc'[t] \notin {"report", "reset"}
      BY <2>6 DEF Relook, PhaseInv, TypeOK
    <3>3. QED
      BY <1>1, <2>1, <2>3, <3>1, <3>2, AlonePhase
  <2>7. CASE Report(t) \/ ResetAll(t)
    <3>1. /\ pc[t] \in {"report", "reset"}
          /\ pc[t] \in After /\ pc'[t] \in After
      BY <2>7 DEF PhaseInv, TypeOK, Report, ResetAll, After
    <3>2. QED
      BY <1>1, <2>1, <2>3, <3>1, AlonePhase
  <2>8. QED
    BY <1>8, <2>4, <2>5, <2>6, <2>7 DEF Step
<1>9. ASSUME NEW t \in Thread, StartBarrier(Team(t)) PROVE PhaseInv'
  <2>1. /\ mode' = mode /\ pc[t] = "bar0"
        /\ \A u \in Thread :
             pc'[u] = IF u \in Team(t) THEN "bytes" ELSE pc[u]
    BY <1>9 DEF StartBarrier, Move, TeamAt, Team
  <2>2. mode # "none" => InPhase'
    BY <2>1 DEF Team, InPhase, During
  <2>3. mode = "none" => OthersIdle'
    BY <2>1 DEF Team, OthersIdle, PhaseInv
  <2>4. OneReporter'
    BY <2>1 DEF OneReporter, PhaseInv
  <2>5. QED
    BY <1>1, <2>1, <2>2, <2>3, <2>4 DEF PhaseInv
<1>10. ASSUME NEW t \in Thread, StopBarrier(Team(t)) PROVE PhaseInv'
  <2>1. PICK e \in Team(t) : pc' = [Move(Team(t), "bar2") EXCEPT ![e] = "report"]
    BY <1>10 DEF StopBarrier
  <2>2. /\ mode' = mode /\ pc[t] = "bar1"
        /\ \A u \in Team(t) : pc[u] = "bar1"
        /\ \A u \in Thread :
             pc'[u] = IF u = e THEN "report"
                      ELSE IF u \in Team(t) THEN "bar2" ELSE pc[u]
    BY <1>10, <2>1 DEF StopBarrier, Move, TeamAt, Team
  <2>3. mode # "none" => InPhase'
    BY <2>2 DEF Team, InPhase, After
  <2>4. mode = "none" => OthersIdle'
    BY <2>1, <2>2 DEF Team, OthersIdle, PhaseInv
  <2>5. \A u \in Thread \ {e} : pc'[u] \notin {"report", "reset"}
    <3>1. CASE mode = "none"
      <4>1. e \in Thread /\ pc[e] = "bar1"
        BY <2>1, <2>2, <3>1 DEF Team
      <4>2. e \in Thread \ Unlocatable /\ pc[e] # "idle"
        BY <4>1 DEF PhaseInv, Placement, Placed, Held
      <4>3. \A u \in Thread \ (Unlocatable \union {e}) : pc[u] = "idle"
        BY <3>1, <4>2, AloneIdle
      <4>4. \A u \in Unlocatable : u \in Thread => pc[u] \notin {"report", "reset"}
        BY DEF PhaseInv, Placement, Placed
      <4>5. QED
        BY <2>2, <3>1, <4>3, <4>4 DEF Team
    <3>2. CASE mode # "none"
      BY <2>2, <3>2 DEF Team
    <3>3. QED
      BY <3>1, <3>2
  <2>6. OneReporter'
    BY <2>5 DEF OneReporter
  <2>7. QED
    BY <1>1, <2>2, <2>3, <2>4, <2>6 DEF PhaseInv
<1>11. ASSUME NEW t \in Thread, Return(Team(t)) PROVE PhaseInv'
  <2>1. /\ mode' = mode \/ (mode = "forced" /\ mode' = "none")
        /\ \A u \in Thread :
             pc'[u] = IF u \in Team(t) THEN "idle" ELSE pc[u]
    BY <1>11 DEF Return, Move
  <2>2. mode # "none" => \A u \in Thread : pc'[u] = "idle"
    BY <2>1 DEF Team
  <2>3. mode = "none" => OthersIdle'
    BY <2>1 DEF OthersIdle, PhaseInv
  <2>4. OneReporter'
    BY <2>1 DEF OneReporter, PhaseInv
  <2>5. QED
    BY <1>1, <2>1, <2>2, <2>3, <2>4 DEF PhaseInv, InPhase, OthersIdle, Before
<1>12. QED
  BY <1>2, <1>3, <1>4, <1>5, <1>6, <1>7, <1>8, <1>9, <1>10, <1>11
  DEF Next, Library, User, Together

\* For every team and machine, as long as one of the threads that have a sample
\* samples from sequential regions: nothing under way is printed or erased by a
\* reset.
THEOREM NoWipeCorrect == ASSUME OneCaller PROVE Spec => []NoWipe
BY InitPhase, PhaseStep, PhaseWipe, PTL DEF Spec


(***************************************************************************)
(* Folds over a finite set.  The induction theorems take an operator; here *)
(* they are replaced by a set of numbers, or of sets, and its least one.   *)
(***************************************************************************)
LEMMA LeastOne ==
  ASSUME NEW B \in SUBSET Nat, B # {}
  PROVE  \E m \in B : \A k \in B : m <= k
<1>1. PICK m \in B : \A k \in B : ~ (<<k, m>> \in OpToRel(<, Nat))
  BY NatLessThanWellFounded, WFMin
<1>2. \A k \in B : ~ (k < m)
  BY <1>1 DEF OpToRel
<1>3. QED
  BY <1>2

\* What holds of the empty set and of a set if of that set less one element
\* holds of all the subsets.
Inductive(S, choose, G) ==
  /\ \A s \in SUBSET S : s # {} => choose[s] \in s
  /\ {} \in G
  /\ \A s \in SUBSET S : s # {} /\ s \ {choose[s]} \in G => s \in G

LEMMA SubsetInduction ==
  ASSUME NEW S, IsFiniteSet(S), NEW choose, NEW G, Inductive(S, choose, G)
  PROVE  S \in G /\ \A s \in SUBSET S : s \in G
<1> DEFINE B == {k \in Nat : \E s \in SUBSET S : s \notin G /\ Cardinality(s) = k}
<1> USE DEF Inductive
<1> SUFFICES ASSUME NEW r \in SUBSET S, r \notin G PROVE FALSE
  OBVIOUS
<1>1. \A s \in SUBSET S : IsFiniteSet(s) /\ Cardinality(s) \in Nat
  BY FS_Subset, FS_CardinalityType
<1>2. B \in SUBSET Nat /\ B # {}
  BY <1>1
<1>3. PICK m \in B : \A k \in B : m <= k
  BY <1>2, LeastOne
<1>4. PICK s \in SUBSET S : s \notin G /\ Cardinality(s) = m
  BY <1>3
<1>5. s # {} /\ choose[s] \in s
  BY <1>4
<1>6. Cardinality(s \ {choose[s]}) = m - 1
  BY <1>1, <1>4, <1>5, FS_RemoveElement
<1>7. s \ {choose[s]} \in G
  BY <1>1, <1>3, <1>6
<1>8. QED
  BY <1>4, <1>5, <1>7

\* h[s] folds F over s, of which it takes choose[s] last.
FoldsWith(h, S, choose, base, F) ==
  \A s \in SUBSET S :
    h[s] = IF s = {} THEN base ELSE F[choose[s]][h[s \ {choose[s]}]]

\* The function that a fold defines exists.
LEMMA FoldExists ==
  ASSUME NEW S, IsFiniteSet(S), NEW choose,
         \A s \in SUBSET S : s # {} => choose[s] \in s,
         NEW V, NEW base \in V, NEW F,
         \A x \in S : \A v \in V : F[x][v] \in V
  PROVE  \E h \in [SUBSET S -> V] : FoldsWith(h, S, choose, base, F)
<1> DEFINE Upto(n) == {s \in SUBSET S : Cardinality(s) <= n}
           Defines(h, n) ==
             \A s \in Upto(n) :
               h[s] = IF s = {} THEN base ELSE F[choose[s]][h[s \ {choose[s]}]]
           B == {n \in Nat : ~ \E h \in [Upto(n) -> V] : Defines(h, n)}
<1>1. \A s \in SUBSET S : IsFiniteSet(s) /\ Cardinality(s) \in Nat
  BY FS_Subset, FS_CardinalityType
<1>2. \A s \in SUBSET S : s # {} =>
        /\ choose[s] \in S /\ s \ {choose[s]} \in SUBSET S
        /\ Cardinality(s \ {choose[s]}) = Cardinality(s) - 1
  BY <1>1, FS_RemoveElement
<1>3. 0 \notin B
  <2> DEFINE h == [s \in Upto(0) |-> base]
  <2>1. \A s \in Upto(0) : s = {}
    BY <1>1, FS_EmptySet
  <2>2. h \in [Upto(0) -> V] /\ Defines(h, 0)
    BY <2>1
  <2>3. QED
    BY <2>2
<1>4. ASSUME NEW m \in B, \A k \in B : m <= k PROVE FALSE
  <2>1. m - 1 \in Nat /\ m - 1 \notin B
    <3>1. m \in Nat /\ m # 0
      BY <1>3
    <3> HIDE DEF B
    <3>2. QED
      BY <1>4, <3>1
  <2>2. PICK g \in [Upto(m - 1) -> V] : Defines(g, m - 1)
    BY <2>1
  <2> DEFINE h == [s \in Upto(m) |->
                     IF s = {} THEN base ELSE F[choose[s]][g[s \ {choose[s]}]]]
  <2>3. \A s \in Upto(m) : s # {} => s \ {choose[s]} \in Upto(m - 1)
    BY <1>1, <1>2, <2>1
  <2>4. h \in [Upto(m) -> V]
    <3> SUFFICES ASSUME NEW s \in Upto(m), s # {}
                 PROVE  F[choose[s]][g[s \ {choose[s]}]] \in V
      OBVIOUS
    <3>1. g[s \ {choose[s]}] \in V
      BY <2>2, <2>3
    <3>2. QED
      BY <1>2, <3>1
  <2>5. \A s \in Upto(m - 1) : s \in Upto(m) /\ h[s] = g[s]
    <3> SUFFICES ASSUME NEW s \in Upto(m - 1) PROVE s \in Upto(m) /\ h[s] = g[s]
      OBVIOUS
    <3>1. s \in Upto(m)
      BY <1>1, <2>1
    <3>2. g[s] = IF s = {} THEN base ELSE F[choose[s]][g[s \ {choose[s]}]]
      BY <2>2
    <3>3. QED
      BY <3>1, <3>2
  <2>6. Defines(h, m)
    BY <2>3, <2>5
  <2>7. QED
    BY <1>4, <2>4, <2>6
<1>5. B = {}
  BY <1>4, LeastOne
<1>6. PICK h \in [Upto(Cardinality(S)) -> V] : Defines(h, Cardinality(S))
  BY <1>1, <1>5
<1>7. Upto(Cardinality(S)) = SUBSET S
  BY FS_Subset
<1>8. QED
  BY <1>6, <1>7 DEF FoldsWith

\* The sum of a function over a finite set, from the empty set up.
LEMMA SumFold ==
  ASSUME NEW S, IsFiniteSet(S), NEW f, \A x \in S : f[x] \in Nat
  PROVE  \E h \in [SUBSET S -> Nat] :
           /\ h[{}] = 0
           /\ \A s \in SUBSET S : s # {} =>
                LET x == CHOOSE x \in s : TRUE
                IN  x \in s /\ h[s] = f[x] + h[s \ {x}]
           /\ h[S] = SumFunctionOnSet(f, S)
<1> DEFINE choose == [s \in SUBSET S |-> CHOOSE x \in s : TRUE]
           F == [x \in S |-> [v \in Nat |-> f[x] + v]]
           Sums(h) ==
             h = [s \in SUBSET S |->
                    IF s = {} THEN 0
                    ELSE f[CHOOSE x \in s : TRUE] + h[s \ {CHOOSE x \in s : TRUE}]]
           g == CHOOSE h : Sums(h)
<1>1. \A s \in SUBSET S : s # {} => choose[s] \in s
  OBVIOUS
<1>2. \A x \in S : \A v \in Nat : F[x][v] \in Nat
  OBVIOUS
<1>3. PICK h \in [SUBSET S -> Nat] : FoldsWith(h, S, choose, 0, F)
  <2>1. 0 \in Nat
    OBVIOUS
  <2> HIDE DEF choose, F
  <2>2. QED
    BY <1>1, <1>2, <2>1, FoldExists
<1>4. \A s \in SUBSET S :
        h[s] = IF s = {} THEN 0
               ELSE f[CHOOSE x \in s : TRUE] + h[s \ {CHOOSE x \in s : TRUE}]
  <2> SUFFICES ASSUME NEW s \in SUBSET S, s # {}
               PROVE  F[choose[s]][h[s \ {choose[s]}]] = f[choose[s]] + h[s \ {choose[s]}]
    BY <1>3 DEF FoldsWith
  <2>1. choose[s] \in S /\ h[s \ {choose[s]}] \in Nat
    BY <1>1, <1>3
  <2>2. QED
    BY <2>1
<1>5. Sums(h)
  BY <1>3, <1>4
<1>6. Sums(g)
  <2> HIDE DEF Sums
  <2>1. QED
    BY <1>5
<1>7. g[S] = SumFunctionOnSet(f, S)
  BY DEF SumFunctionOnSet, FoldFunctionOnSet, MapThenFoldSet
<1> HIDE DEF g
<1>8. g[{}] = 0
  BY <1>6
<1>9. \A s \in SUBSET S : s # {} =>
        /\ choose[s] \in s
        /\ g[s] = f[choose[s]] + g[s \ {choose[s]}]
  BY <1>1, <1>6
<1>10. \A s \in SUBSET S : s \in {r \in SUBSET S : g[r] \in Nat}
  <2> DEFINE G == {r \in SUBSET S : g[r] \in Nat}
  <2>1. {} \in G
    BY <1>8
  <2>2. \A s \in SUBSET S : s # {} /\ s \ {choose[s]} \in G => s \in G
    <3> SUFFICES ASSUME NEW s \in SUBSET S, s # {}, g[s \ {choose[s]}] \in Nat
                 PROVE  g[s] \in Nat
      OBVIOUS
    <3>1. f[choose[s]] \in Nat
      BY <1>1
    <3>2. g[s] = f[choose[s]] + g[s \ {choose[s]}]
      BY <1>9
    <3> HIDE DEF choose
    <3>3. QED
      BY <3>1, <3>2
  <2> HIDE DEF G, choose
  <2>3. Inductive(S, choose, G)
    BY <1>1, <2>1, <2>2 DEF Inductive
  <2>4. \A s \in SUBSET S : s \in G
    BY <2>3, SubsetInduction
  <2>5. QED
    BY <2>4 DEF G
<1>11. g \in [SUBSET S -> Nat]
  BY <1>6, <1>10
<1>12. QED
  BY <1>7, <1>8, <1>9, <1>11

\* A finite set of numbers has a greatest one.
LEMMA MaxIn ==
  ASSUME NEW S \in SUBSET Nat, IsFiniteSet(S), S # {}
  PROVE  Max(S) \in S /\ \A x \in S : x <= Max(S)
<1> DEFINE choose == [s \in SUBSET S |-> CHOOSE x \in s : TRUE]
           G == {s \in SUBSET S : s = {} \/ \E m \in s : \A x \in s : x <= m}
<1>1. \A s \in SUBSET S : s # {} => choose[s] \in s
  OBVIOUS
<1>2. {} \in G
  OBVIOUS
<1>3. \A s \in SUBSET S : s # {} /\ s \ {choose[s]} \in G => s \in G
  <2> SUFFICES ASSUME NEW s \in SUBSET S, s # {}, s \ {choose[s]} \in G
               PROVE  \E m \in s : \A x \in s : x <= m
    OBVIOUS
  <2>1. PICK c \in s : c = choose[s]
    BY <1>1
  <2>2. CASE s \ {c} = {}
    <3>1. \A x \in s : x = c
      BY <2>2
    <3>2. c <= c
      OBVIOUS
    <3>3. QED
      BY <3>1, <3>2
  <2>3. CASE \E m \in s \ {c} : \A x \in s \ {c} : x <= m
    <3>1. PICK m \in s \ {c} : \A x \in s \ {c} : x <= m
      BY <2>3
    <3>2. CASE c <= m
      BY <3>1, <3>2
    <3>3. CASE m < c
      BY <3>1, <3>3
    <3>4. QED
      BY <3>2, <3>3
  <2>4. QED
    BY <2>1, <2>2, <2>3
<1>4. S \in G
  <2> HIDE DEF G, choose
  <2>1. Inductive(S, choose, G)
    BY <1>1, <1>2, <1>3 DEF Inductive
  <2>2. QED
    BY <2>1, SubsetInduction
<1>5. \E m \in S : \A x \in S : m >= x
  BY <1>4
<1>6. QED
  BY <1>5 DEF Max

\* The times of two samples, and the fields of what they accumulate to.
LEMMA AccumulateFields ==
  ASSUME NEW sum \in Sample, NEW with \in Sample
  PROVE  /\ Accumulate(sum, with) \in Sample
         /\ \/ /\ Elapsed(sum) > Elapsed(with)
               /\ Accumulate(sum, with).s_nano = sum.s_nano
               /\ Accumulate(sum, with).e_nano = sum.e_nano
            \/ /\ ~ (Elapsed(sum) > Elapsed(with))
               /\ Accumulate(sum, with).s_nano = with.s_nano
               /\ Accumulate(sum, with).e_nano = with.e_nano
         /\ Accumulate(sum, with).bytes = sum.bytes + with.bytes
         /\ Accumulate(sum, with).flops = sum.flops + with.flops
         /\ Accumulate(sum, with).n_threads = sum.n_threads + with.n_threads
<1> DEFINE slower == IF Elapsed(sum) > Elapsed(with) THEN sum ELSE with
<1>1. /\ sum.s_nano \in Nat /\ sum.e_nano \in Nat
      /\ with.s_nano \in Nat /\ with.e_nano \in Nat
      /\ sum.bytes + with.bytes \in Nat /\ sum.flops + with.flops \in Nat
      /\ sum.n_threads + with.n_threads \in Nat
  BY DEF Sample
<1>2. \/ Elapsed(sum) > Elapsed(with) /\ slower = sum
      \/ ~ (Elapsed(sum) > Elapsed(with)) /\ slower = with
  OBVIOUS
<1>3. Accumulate(sum, with) =
        [sum EXCEPT !.s_nano = slower.s_nano, !.e_nano = slower.e_nano,
                    !.bytes = @ + with.bytes, !.flops = @ + with.flops,
                    !.n_threads = @ + with.n_threads]
  BY DEF Accumulate
<1> HIDE DEF slower
<1>4. slower.s_nano \in Nat /\ slower.e_nano \in Nat
  BY <1>1, <1>2
<1>5. Accumulate(sum, with) \in Sample
  BY <1>1, <1>3, <1>4 DEF Sample
<1>6. /\ Accumulate(sum, with).s_nano = slower.s_nano
      /\ Accumulate(sum, with).e_nano = slower.e_nano
      /\ Accumulate(sum, with).bytes = sum.bytes + with.bytes
      /\ Accumulate(sum, with).flops = sum.flops + with.flops
      /\ Accumulate(sum, with).n_threads = sum.n_threads + with.n_threads
  BY <1>3 DEF Sample
<1>7. QED
  BY <1>2, <1>5, <1>6

LEMMA AccumulateType ==
  ASSUME NEW sum \in Sample, NEW with \in Sample
  PROVE  /\ Accumulate(sum, with) \in Sample
         /\ \A field \in {"bytes", "flops", "n_threads"} :
              Accumulate(sum, with)[field] = sum[field] + with[field]
BY AccumulateFields

LEMMA AccumulateTime ==
  ASSUME NEW sum \in Sample, NEW with \in Sample, NEW acc, acc = Accumulate(sum, with)
  PROVE  /\ Elapsed(sum) \in Int /\ Elapsed(with) \in Int
         /\ Elapsed(sum) > Elapsed(with) => Elapsed(acc) = Elapsed(sum)
         /\ ~ (Elapsed(sum) > Elapsed(with)) => Elapsed(acc) = Elapsed(with)
<1>1. Elapsed(sum) \in Int /\ Elapsed(with) \in Int
  BY DEF Sample, Elapsed
<1>2. /\ Elapsed(sum) > Elapsed(with) =>
           acc.s_nano = sum.s_nano /\ acc.e_nano = sum.e_nano
      /\ ~ (Elapsed(sum) > Elapsed(with)) =>
           acc.s_nano = with.s_nano /\ acc.e_nano = with.e_nano
  BY AccumulateFields
<1>3. (acc.s_nano = sum.s_nano /\ acc.e_nano = sum.e_nano)
        => Elapsed(acc) = Elapsed(sum)
  BY DEF Elapsed
<1>4. (acc.s_nano = with.s_nano /\ acc.e_nano = with.e_nano)
        => Elapsed(acc) = Elapsed(with)
  BY DEF Elapsed
<1>5. QED
  BY <1>1, <1>2, <1>3, <1>4

(***************************************************************************)
(* What a node reduces to                                                  *)
(***************************************************************************)
LEMMA UnderNode ==
  ASSUME NEW n
  PROVE  /\ IsFiniteSet(PUsUnder(n))
         /\ \A s \in SUBSET PUsUnder(n) : s # {} => Max(s) \in s
<1>1. PUsUnder(n) \in SUBSET PU /\ PU \subseteq Nat /\ IsFiniteSet(PU)
  BY TopologyAssumption DEF PUsUnder
<1>2. \A s \in SUBSET PU : IsFiniteSet(s) /\ s \in SUBSET Nat
  BY <1>1, FS_Subset
<1>3. QED
  BY <1>1, <1>2, MaxIn

\* The samples of a node, accumulated from the empty set up.
LEMMA ReduceFold ==
  ASSUME TypeOK, NEW n
  PROVE  \E h \in [SUBSET PUsUnder(n) -> Sample] :
           /\ h[{}] = NewSample
           /\ \A s \in SUBSET PUsUnder(n) : s # {} =>
                h[s] = Accumulate(h[s \ {Max(s)}], samples[Max(s)])
           /\ h[PUsUnder(n)] = Reduce(n)
<1> DEFINE S == PUsUnder(n)
           choose == [s \in SUBSET S |-> Max(s)]
           F == [p \in S |-> [v \in Sample |-> Accumulate(v, samples[p])]]
           Sums(h) ==
             h = [s \in SUBSET S |->
                    IF s = {} THEN NewSample
                    ELSE Accumulate(h[s \ {Max(s)}], samples[Max(s)])]
           g == CHOOSE h : Sums(h)
<1>1. \A s \in SUBSET S : s # {} => choose[s] = Max(s) /\ choose[s] \in s
  BY UnderNode
<1>2. \A p \in S : samples[p] \in Sample
  BY DEF PUsUnder, TypeOK
<1>3. \A p \in S : \A v \in Sample : F[p][v] \in Sample
  BY <1>2, AccumulateType
<1>4. NewSample \in Sample
  BY DEF NewSample, Sample
<1>5. PICK h \in [SUBSET S -> Sample] : FoldsWith(h, S, choose, NewSample, F)
  <2> HIDE DEF choose, F
  <2>1. QED
    BY <1>1, <1>3, <1>4, UnderNode, FoldExists
<1>6. \A s \in SUBSET S :
        h[s] = IF s = {} THEN NewSample
               ELSE Accumulate(h[s \ {Max(s)}], samples[Max(s)])
  <2> SUFFICES ASSUME NEW s \in SUBSET S, s # {}
               PROVE  F[choose[s]][h[s \ {choose[s]}]]
                        = Accumulate(h[s \ {choose[s]}], samples[choose[s]])
    BY <1>1, <1>5 DEF FoldsWith
  <2>1. choose[s] \in S /\ h[s \ {choose[s]}] \in Sample
    BY <1>1, <1>5
  <2>2. QED
    BY <2>1
<1>7. Sums(h)
  BY <1>5, <1>6
<1>8. Sums(g)
  <2> HIDE DEF Sums
  <2>1. QED
    BY <1>7
<1>9. g[S] = Reduce(n)
  BY DEF Reduce, MapThenFoldSet
<1> HIDE DEF g
<1>10. g[{}] = NewSample
  BY <1>8
<1>11. \A s \in SUBSET S : s # {} =>
         g[s] = Accumulate(g[s \ {Max(s)}], samples[Max(s)])
  BY <1>8
<1> DEFINE G == {r \in SUBSET S : g[r] \in Sample}
<1>12. {} \in G
  BY <1>4, <1>10
<1>13. \A s \in SUBSET S : s # {} /\ s \ {choose[s]} \in G => s \in G
  <2> SUFFICES ASSUME NEW s \in SUBSET S, s # {}, g[s \ {Max(s)}] \in Sample
               PROVE  g[s] \in Sample
    BY <1>1
  <2>1. samples[Max(s)] \in Sample
    BY <1>1, <1>2
  <2>2. QED
    BY <1>11, <2>1, AccumulateType
<1>14. \A s \in SUBSET S : s \in G
  <2> HIDE DEF G, choose
  <2>1. Inductive(S, choose, G)
    BY <1>1, <1>12, <1>13 DEF Inductive
  <2>2. IsFiniteSet(S)
    BY UnderNode
  <2> HIDE DEF S
  <2>3. QED
    BY <2>1, <2>2, SubsetInduction
<1>15. g \in [SUBSET S -> Sample]
  BY <1>8, <1>14
<1>16. QED
  BY <1>9, <1>10, <1>11, <1>15

\* Every subset of the PUs of a node, the greatest taken last.
LEMMA UnderInduction ==
  ASSUME NEW n, NEW G, {} \in G,
         \A s \in SUBSET PUsUnder(n) : s # {} /\ s \ {Max(s)} \in G => s \in G
  PROVE  PUsUnder(n) \in G
<1> DEFINE choose == [s \in SUBSET PUsUnder(n) |-> Max(s)]
<1>1. \A s \in SUBSET PUsUnder(n) : s # {} => choose[s] \in s
  BY UnderNode
<1>2. \A s \in SUBSET PUsUnder(n) : s # {} /\ s \ {choose[s]} \in G => s \in G
  OBVIOUS
<1> HIDE DEF choose
<1>3. Inductive(PUsUnder(n), choose, G)
  BY <1>1, <1>2 DEF Inductive
<1>4. QED
  BY <1>3, UnderNode, SubsetInduction

\* The time of a node is that of the slowest of its samples, or zero.
LEMMA ReduceTime ==
  ASSUME TypeOK, NEW n
  PROVE  /\ Reduce(n) \in Sample
         /\ Elapsed(Reduce(n)) \in Int /\ Elapsed(Reduce(n)) >= 0
         /\ \A p \in PUsUnder(n) : Elapsed(Reduce(n)) >= Elapsed(samples[p])
         /\ \/ Elapsed(Reduce(n)) = 0
            \/ \E p \in PUsUnder(n) : Elapsed(Reduce(n)) = Elapsed(samples[p])
<1>1. PICK h \in [SUBSET PUsUnder(n) -> Sample] :
        /\ h[{}] = NewSample
        /\ \A s \in SUBSET PUsUnder(n) : s # {} =>
             h[s] = Accumulate(h[s \ {Max(s)}], samples[Max(s)])
        /\ h[PUsUnder(n)] = Reduce(n)
  BY ReduceFold
<1> DEFINE Slowest(s) ==
             /\ Elapsed(h[s]) >= 0
             /\ \A p \in s : Elapsed(h[s]) >= Elapsed(samples[p])
             /\ Elapsed(h[s]) = 0 \/ \E p \in s : Elapsed(h[s]) = Elapsed(samples[p])
           G == {s \in SUBSET PUsUnder(n) : Slowest(s)}
<1>2. {} \in G
  BY <1>1 DEF NewSample, Elapsed
<1>3. \A p \in PUsUnder(n) : samples[p] \in Sample /\ Elapsed(samples[p]) \in Int
  BY DEF PUsUnder, TypeOK, Sample, Elapsed
<1>4. \A s \in SUBSET PUsUnder(n) : s # {} /\ s \ {Max(s)} \in G => s \in G
  <2> SUFFICES ASSUME NEW s \in SUBSET PUsUnder(n), s # {}, Slowest(s \ {Max(s)})
               PROVE  Slowest(s)
    OBVIOUS
  <2>1. PICK m \in s : m = Max(s)
    BY UnderNode
  <2> DEFINE r == s \ {m}
             e == Elapsed(h[s \ {m}])
             w == Elapsed(samples[m])
  <2>2. h[s \ {m}] \in Sample /\ samples[m] \in Sample
    BY <1>1, <1>3
  <2>3. e \in Int /\ w \in Int /\ Elapsed(h[s]) = IF e > w THEN e ELSE w
    <3>1. h[s] = Accumulate(h[s \ {m}], samples[m])
      BY <1>1, <2>1
    <3>2. QED
      BY <2>2, <3>1, AccumulateTime
  <2>4. /\ e >= 0
        /\ \A p \in r : e >= Elapsed(samples[p])
        /\ e = 0 \/ \E p \in r : e = Elapsed(samples[p])
    BY <2>1
  <2> HIDE DEF e
  <2>5. Elapsed(h[s]) >= 0 /\ Elapsed(h[s]) >= w /\ Elapsed(h[s]) >= e
    BY <2>3, <2>4
  <2>6. ASSUME NEW p \in s PROVE Elapsed(h[s]) >= Elapsed(samples[p])
    <3>1. CASE p = m
      BY <2>5, <3>1
    <3>2. CASE p # m
      <4>1. e >= Elapsed(samples[p]) /\ Elapsed(samples[p]) \in Int
        BY <1>3, <2>4, <3>2
      <4>2. QED
        BY <2>3, <2>5, <4>1
    <3>3. QED
      BY <3>1, <3>2
  <2>7. Elapsed(h[s]) = 0 \/ \E p \in s : Elapsed(h[s]) = Elapsed(samples[p])
    BY <2>3, <2>4
  <2>8. QED
    BY <2>5, <2>6, <2>7
<1>5. PUsUnder(n) \in G
  <2> HIDE DEF G
  <2>1. QED
    BY <1>2, <1>4, UnderInduction
<1>6. Elapsed(Reduce(n)) \in Int
  BY <1>1 DEF Sample, Elapsed
<1>7. QED
  BY <1>1, <1>5, <1>6

\* The time printed is never negative, whatever clocks started and stopped the
\* timer of a PU: the reduction starts from zero and keeps the slowest.
THEOREM TimeCorrect == Spec => []TimeNeverNegative
<1>1. Init => TimeNeverNegative
  BY DEF Init, TimeNeverNegative, NoLine
<1>2. TypeOK /\ TimeNeverNegative /\ [Next]_vars => TimeNeverNegative'
  <2> SUFFICES ASSUME TypeOK, TimeNeverNegative, [Next]_vars
               PROVE  TimeNeverNegative'
    OBVIOUS
  <2>1. ASSUME NEW t \in Thread, Report(t) PROVE TimeNeverNegative'
    BY <2>1, ReduceTime DEF Report, Printed, TimeNeverNegative
  <2>2. UNCHANGED out \/ \E t \in Thread : Report(t)
    BY DEF Next, Library, User, Step, Together, vars, SamplingInit, SamplingFini,
       EnterParallel, LeaveParallel, Tick, Start, StartForced, Lookup, IncThreads,
       StartBarrier, SetBytes, SetFlops, IncLast, Stamp, JoinForced, Stop,
       StopForced, Relook, ReadTime, DecLast, EndStamp, StopBarrier, ResetAll,
       Return
  <2>3. QED
    BY <2>1, <2>2 DEF TimeNeverNegative
<1>3. QED
  BY <1>1, <1>2, TypeCorrect, PTL DEF Spec

(***************************************************************************)
(* Totals                                                                  *)
(***************************************************************************)

\* W gives a weight to the sets of elements of T, and adds up.
Weighs(W, T) ==
  /\ W \in [SUBSET T -> Nat]
  /\ W[{}] = 0
  /\ \A A, B \in SUBSET T : A \intersect B = {} => W[A \union B] = W[A] + W[B]

\* The sample of each PU has the weight of the threads that are placed there.
Carries(field, W, T, place) ==
  \A p \in PU : samples[p][field] = W[{t \in T : place[t] = p}]

\* A node is then reduced to the weight of the threads below it.
LEMMA ReduceTotal ==
  ASSUME TypeOK, NEW T, NEW W, Weighs(W, T), NEW place \in [T -> PU],
         NEW field \in {"bytes", "flops", "n_threads"},
         Carries(field, W, T, place), NEW n
  PROVE  Reduce(n)[field] = W[{t \in T : NodeOf[place[t]] = n}]
<1> DEFINE On(s) == {t \in T : place[t] \in s}
<1>1. PICK h \in [SUBSET PUsUnder(n) -> Sample] :
        /\ h[{}] = NewSample
        /\ \A s \in SUBSET PUsUnder(n) : s # {} =>
             h[s] = Accumulate(h[s \ {Max(s)}], samples[Max(s)])
        /\ h[PUsUnder(n)] = Reduce(n)
  BY ReduceFold
<1> DEFINE G == {s \in SUBSET PUsUnder(n) : h[s][field] = W[On(s)]}
<1>2. {} \in G
  <2>1. On({}) = {}
    OBVIOUS
  <2>2. NewSample[field] = 0
    BY DEF NewSample
  <2>3. QED
    BY <1>1, <2>1, <2>2 DEF Weighs
<1>3. \A s \in SUBSET PUsUnder(n) : s # {} /\ s \ {Max(s)} \in G => s \in G
  <2> SUFFICES ASSUME NEW s \in SUBSET PUsUnder(n), s # {},
                      h[s \ {Max(s)}][field] = W[On(s \ {Max(s)})]
               PROVE  h[s][field] = W[On(s)]
    OBVIOUS
  <2>1. PICK m \in s : m = Max(s)
    BY UnderNode
  <2>2. m \in PU
    BY DEF PUsUnder
  <2>3. h[s \ {m}] \in Sample /\ samples[m] \in Sample
    BY <1>1, <2>2 DEF TypeOK
  <2>4. h[s][field] = h[s \ {m}][field] + samples[m][field]
    BY <1>1, <2>1, <2>3, AccumulateType
  <2>5. samples[m][field] = W[{t \in T : place[t] = m}]
    BY <2>2 DEF Carries
  <2>6. /\ On(s \ {m}) \in SUBSET T /\ {t \in T : place[t] = m} \in SUBSET T
        /\ On(s \ {m}) \intersect {t \in T : place[t] = m} = {}
        /\ On(s) = On(s \ {m}) \union {t \in T : place[t] = m}
    OBVIOUS
  <2> HIDE DEF On
  <2>7. W[On(s)] = W[On(s \ {m})] + W[{t \in T : place[t] = m}]
    BY <2>6 DEF Weighs
  <2>8. QED
    BY <2>1, <2>4, <2>5, <2>7
<1>4. PUsUnder(n) \in G
  <2> HIDE DEF G
  <2>1. QED
    BY <1>2, <1>3, UnderInduction
<1>5. On(PUsUnder(n)) = {t \in T : NodeOf[place[t]] = n}
  BY DEF PUsUnder
<1>6. QED
  BY <1>1, <1>4, <1>5

\* The weights of the fibres of a function add up to the weight of all.
LEMMA FibresTotal ==
  ASSUME NEW T, NEW W, Weighs(W, T), NEW S, IsFiniteSet(S), NEW under \in [T -> S],
         NEW f, \A n \in S : f[n] = W[{t \in T : under[t] = n}]
  PROVE  SumFunctionOnSet(f, S) = W[T]
<1> DEFINE Below(s) == {t \in T : under[t] \in s}
           choose == [s \in SUBSET S |-> CHOOSE x \in s : TRUE]
<1>1. \A n \in S : f[n] \in Nat
  BY DEF Weighs
<1>2. PICK h \in [SUBSET S -> Nat] :
        /\ h[{}] = 0
        /\ \A s \in SUBSET S : s # {} =>
             LET x == CHOOSE x \in s : TRUE
             IN  x \in s /\ h[s] = f[x] + h[s \ {x}]
        /\ h[S] = SumFunctionOnSet(f, S)
  BY <1>1, SumFold
<1> DEFINE G == {s \in SUBSET S : h[s] = W[Below(s)]}
<1>3. {} \in G
  <2>1. Below({}) = {}
    OBVIOUS
  <2>2. QED
    BY <1>2, <2>1 DEF Weighs
<1>4. \A s \in SUBSET S : s # {} => choose[s] \in s
  OBVIOUS
<1>5. \A s \in SUBSET S : s # {} /\ s \ {choose[s]} \in G => s \in G
  <2> SUFFICES ASSUME NEW s \in SUBSET S, s # {},
                      h[s \ {choose[s]}] = W[Below(s \ {choose[s]})]
               PROVE  h[s] = W[Below(s)]
    OBVIOUS
  <2>1. PICK m \in s : m = choose[s]
    BY <1>4
  <2>2. h[s] = f[m] + h[s \ {m}]
    BY <1>2, <2>1
  <2>3. f[m] = W[{t \in T : under[t] = m}]
    OBVIOUS
  <2>4. /\ Below(s \ {m}) \in SUBSET T
        /\ {t \in T : under[t] = m} \in SUBSET T
        /\ {t \in T : under[t] = m} \intersect Below(s \ {m}) = {}
        /\ Below(s) = {t \in T : under[t] = m} \union Below(s \ {m})
    OBVIOUS
  <2> HIDE DEF Below
  <2>5. W[Below(s)] = W[{t \in T : under[t] = m}] + W[Below(s \ {m})]
    BY <2>4 DEF Weighs
  <2>6. QED
    BY <2>1, <2>2, <2>3, <2>5
<1>6. S \in G
  <2> HIDE DEF G, choose
  <2>1. Inductive(S, choose, G)
    BY <1>3, <1>4, <1>5 DEF Inductive
  <2>2. QED
    BY <2>1, SubsetInduction
<1>7. Below(S) = T
  OBVIOUS
<1>8. QED
  BY <1>2, <1>6, <1>7

LEMMA TotalCarried ==
  ASSUME TypeOK, NEW T, NEW W, Weighs(W, T), NEW place \in [T -> PU],
         NEW field \in {"bytes", "flops", "n_threads"},
         Carries(field, W, T, place)
  PROVE  SumFunctionOnSet([n \in Node |-> Reduce(n)[field]], Node) = W[T]
<1> DEFINE f == [n \in Node |-> Reduce(n)[field]]
<1>1. ASSUME NEW n \in Node PROVE f[n] = W[{t \in T : NodeOf[place[t]] = n}]
  <2>1. Reduce(n)[field] = W[{t \in T : NodeOf[place[t]] = n}]
    BY ReduceTotal
  <2>2. QED
    BY <2>1
<1> DEFINE under == [t \in T |-> NodeOf[place[t]]]
<1>2. under \in [T -> Node] /\ IsFiniteSet(Node)
  BY TopologyAssumption
<1>3. \A n \in Node : f[n] = W[{t \in T : under[t] = n}]
  <2> HIDE DEF f
  <2>1. \A n : {t \in T : under[t] = n} = {t \in T : NodeOf[place[t]] = n}
    OBVIOUS
  <2>2. QED
    BY <1>1, <2>1
<1> HIDE DEF f, under
<1>4. SumFunctionOnSet(f, Node) = W[T]
  BY <1>2, <1>3, FibresTotal
<1>5. QED
  BY <1>4 DEF f

(***************************************************************************)
(* The threads counted                                                     *)
(***************************************************************************)
Reporting == \E t \in Thread : pc[t] \in {"report", "reset"}

\* Since it was added to the sample of a PU a thread stays there until the reset.
Counted ==
  {t \in Thread \ Unlocatable :
     \/ pc[t] \in During \union {"bar0", "report", "reset"}
     \/ pc[t] = "bar2" /\ Reporting}

CountsOn(place) ==
  \A p \in PU :
    samples[p].n_threads = Cardinality({t \in Counted : place[t] = p})

\* Thread 0 may be looked up elsewhere when it stops: where the threads started
\* is no variable of the library any more.
CountInv ==
  /\ \A t \in Thread : pc[t] \in {"report", "reset"} => t \notin Unlocatable
  /\ \E place \in [Thread -> PU] : CountsOn(place)

MeasureInv == PhaseInv /\ Placement /\ CountInv

LEMMA ThreadFinite == IsFiniteSet(Thread)
BY FS_Interval, ThreadAssumption DEF Thread

\* A step that adds nobody to the counts nor takes anybody away.
LEMMA SameCount ==
  ASSUME CountInv, Counted' = Counted,
         \A p \in PU : samples'[p].n_threads = samples[p].n_threads,
         \A t \in Thread : pc'[t] \in {"report", "reset"} => t \notin Unlocatable
  PROVE  CountInv'
<1>1. PICK place \in [Thread -> PU] : CountsOn(place)
  BY DEF CountInv
<1>2. CountsOn(place)'
  BY <1>1 DEF CountsOn
<1>3. QED
  BY <1>2 DEF CountInv

\* All counts are at zero and nobody is counted.
LEMMA NoCount ==
  ASSUME Counted' = {}, \A p \in PU : samples'[p].n_threads = 0,
         \A t \in Thread : pc'[t] \in {"report", "reset"} => t \notin Unlocatable
  PROVE  CountInv'
<1> DEFINE place == [t \in Thread |-> 0]
<1>1. place \in [Thread -> PU]
  BY TopologyAssumption
<1>2. CountsOn(place)'
  BY FS_EmptySet DEF CountsOn
<1>3. QED
  BY <1>1, <1>2 DEF CountInv

\* A thread that moves alone, and neither starts nor ends being counted.
LEMMA CountedAlone ==
  ASSUME NEW t \in Thread, \A u \in Thread \ {t} : pc'[u] = pc[u],
         pc[t] \in {"report", "reset"} <=> pc'[t] \in {"report", "reset"},
         t \notin Unlocatable =>
           /\ pc[t] # "bar2" /\ pc'[t] # "bar2"
           /\ pc[t] \in During \union {"bar0", "report", "reset"}
                <=> pc'[t] \in During \union {"bar0", "report", "reset"}
  PROVE  Counted' = Counted
<1>1. Reporting' <=> Reporting
  BY DEF Reporting
<1>2. \A u \in Thread \ Unlocatable : u \in Counted' <=> u \in Counted
  BY <1>1 DEF Counted
<1>3. QED
  BY <1>2 DEF Counted

LEMMA CountJoins ==
  ASSUME TypeOK, Placement, NEW t \in Thread, IncThreads(t)
  PROVE  t \notin Counted /\ Counted' = Counted \union {t}
<1>1. /\ pc[t] = "inc" /\ pc'[t] = "bar0"
      /\ \A u \in Thread \ {t} : pc'[u] = pc[u]
  BY DEF IncThreads, TypeOK
<1>2. t \notin Unlocatable
  BY <1>1 DEF Placement, Placed, Held
<1>3. Reporting' <=> Reporting
  BY <1>1 DEF Reporting
<1>4. t \notin Counted /\ t \in Counted'
  BY <1>1, <1>2 DEF Counted, During
<1>5. \A u \in Thread \ {t} : u \in Counted' <=> u \in Counted
  BY <1>1, <1>3 DEF Counted
<1>6. QED
  BY <1>4, <1>5 DEF Counted

LEMMA CountIncrement ==
  ASSUME TypeOK, Placement, CountInv, NEW t \in Thread, IncThreads(t)
  PROVE  CountInv'
<1>1. PICK place \in [Thread -> PU] : CountsOn(place)
  BY DEF CountInv
<1>2. /\ pc[t] = "inc" /\ pc'[t] = "bar0"
      /\ \A u \in Thread \ {t} : pc'[u] = pc[u]
  BY DEF IncThreads, TypeOK
<1>3. t \notin Unlocatable /\ \E q \in PU : q = handle[t]
  BY <1>2 DEF Placement, Placed, Held
<1> PICK q \in PU : q = handle[t]
  BY <1>3
<1>5. t \notin Counted /\ Counted' = Counted \union {t}
  BY CountJoins
<1> DEFINE there == [place EXCEPT ![t] = q]
           At(p) == {u \in Counted : place[u] = p}
<1>6. there \in [Thread -> PU]
  OBVIOUS
<1>7. ASSUME NEW p \in PU
      PROVE  samples'[p].n_threads = Cardinality({u \in Counted' : there[u] = p})
  <2>1. samples[p] \in Sample /\ samples[p].n_threads = Cardinality(At(p))
    BY <1>1 DEF CountsOn, TypeOK
  <2>2. IsFiniteSet(At(p)) /\ t \notin At(p)
    BY <1>5, ThreadFinite, FS_Subset DEF Counted
  <2>3. {u \in Counted' : there[u] = p}
          = IF p = q THEN At(p) \union {t} ELSE At(p)
    BY <1>5 DEF Counted
  <2>4. samples'[p].n_threads
          = IF p = q THEN samples[p].n_threads + 1 ELSE samples[p].n_threads
    BY <2>1 DEF IncThreads, TypeOK, Sample
  <2>5. Cardinality(At(p) \union {t}) = Cardinality(At(p)) + 1
    BY <2>2, FS_AddElement
  <2> HIDE DEF At, there
  <2>6. QED
    BY <2>1, <2>3, <2>4, <2>5
<1>8. CountsOn(there)'
  BY <1>7 DEF CountsOn
<1>9. \A u \in Thread : pc'[u] \in {"report", "reset"} => u \notin Unlocatable
  BY <1>2 DEF CountInv
<1>10. QED
  BY <1>6, <1>8, <1>9 DEF CountInv

\* A counted thread that has written what it announced.
Written == (During \ {"bytes", "flops"}) \union {"report", "reset", "bar2"}

Onward(t) ==
  \/ pc'[t] = pc[t]
  \/ pc[t] = "bar0" /\ pc'[t] = "bytes"
  \/ SetBytes(t) \/ SetFlops(t)
  \/ pc[t] \in Written /\ pc'[t] \in Written

\* Only the increment and the reset change who is counted.
LEMMA CountedStep ==
  ASSUME OneCaller, MeasureInv, [Next]_vars,
         ~ \E t \in Thread : IncThreads(t) \/ ResetAll(t)
  PROVE  /\ Counted' = Counted
         /\ \A t \in Thread : pc'[t] \in {"report", "reset"} => t \notin Unlocatable
         /\ \A t \in Counted : Onward(t)
<1> DEFINE Q == /\ Counted' = Counted
                /\ \A t \in Thread :
                     pc'[t] \in {"report", "reset"} => t \notin Unlocatable
                /\ \A t \in Counted : Onward(t)
<1>1. TypeOK /\ PhaseInv /\ Placement /\ CountInv
  BY DEF MeasureInv, PhaseInv
<1>2. CASE UNCHANGED pc
  BY <1>1, <1>2 DEF CountInv, Counted, Reporting, Onward
<1>3. ASSUME NEW k \in Kernels, StartForced(k) PROVE Q
  <2>1. \A t \in Thread : pc[t] = "idle" /\ pc'[t] = "lookup"
    BY <1>3 DEF StartForced, AllIdle, Move
  <2>2. QED
    BY <2>1 DEF Counted, During
<1>4. CASE JoinForced \/ StopForced
  <2>1. \A t \in Thread : /\ pc[t] \in {"join", "open"}
                          /\ pc'[t] \in {"open", "relook"}
    BY <1>4 DEF JoinForced, StopForced, TeamAt, Move
  <2>2. QED
    BY <2>1 DEF Counted, During, Onward, Written
<1>5. ASSUME NEW t \in Thread, NEW k \in Kernels, Start(t, k) PROVE Q
  <2>1. /\ pc[t] = "idle" /\ pc'[t] = "lookup"
        /\ \A u \in Thread \ {t} : pc'[u] = pc[u]
    BY <1>1, <1>5 DEF Start, TypeOK
  <2>2. Counted' = Counted
    BY <2>1, CountedAlone DEF During
  <2>3. QED
    BY <1>1, <2>1, <2>2 DEF CountInv, Onward, Counted, During
<1>6. ASSUME NEW t \in Thread, Lookup(t) PROVE Q
  <2>1. /\ pc[t] = "lookup" /\ \A u \in Thread \ {t} : pc'[u] = pc[u]
        /\ pc'[t] = "inc" \/ (t \in Unlocatable /\ pc'[t] \in {"join", "open"})
    BY <1>1, <1>6 DEF Lookup, AfterStart, TypeOK, Locate
  <2>2. Counted' = Counted
    BY <2>1, CountedAlone DEF During
  <2>3. QED
    BY <1>1, <2>1, <2>2 DEF CountInv, Onward, Counted, During
<1>7. ASSUME NEW t \in Thread,
             \/ SetBytes(t) \/ SetFlops(t) \/ IncLast(t) \/ Stamp(t) \/ Stop(t)
             \/ ReadTime(t) \/ DecLast(t) \/ EndStamp(t)
      PROVE  Q
  <2>1. /\ pc[t] \in During /\ pc'[t] \in During
        /\ \A u \in Thread \ {t} : pc'[u] = pc[u]
    BY <1>1, <1>7
    DEF SetBytes, SetFlops, IncLast, Stamp, Stop, ReadTime, DecLast, EndStamp,
        AfterStart, During, TypeOK
  <2>2. Counted' = Counted
    BY <2>1, CountedAlone DEF During
  <2>3. SetBytes(t) \/ SetFlops(t) \/ (pc[t] \in Written /\ pc'[t] \in Written)
    BY <1>1, <1>7
    DEF IncLast, Stamp, Stop, ReadTime, DecLast, EndStamp, AfterStart, Written,
        During, TypeOK
  <2>4. QED
    BY <1>1, <2>1, <2>2, <2>3 DEF CountInv, Onward, During, Counted
<1>8. ASSUME NEW t \in Thread, Relook(t) PROVE Q
  <2>1. /\ pc[t] = "relook" /\ \A u \in Thread \ {t} : pc'[u] = pc[u]
        /\ pc'[t] = "time" \/ (t \in Unlocatable /\ pc'[t] = "bar2")
    BY <1>1, <1>8 DEF Relook, TypeOK, Locate
  <2>2. Counted' = Counted
    BY <2>1, CountedAlone DEF During
  <2>3. QED
    BY <1>1, <2>1, <2>2 DEF CountInv, Onward, Written, Counted, During
<1>9. ASSUME NEW t \in Thread, Report(t) PROVE Q
  <2>1. /\ pc[t] = "report" /\ pc'[t] = "reset"
        /\ \A u \in Thread \ {t} : pc'[u] = pc[u]
    BY <1>1, <1>9 DEF Report, TypeOK
  <2>2. Counted' = Counted
    BY <2>1, CountedAlone DEF During
  <2>3. QED
    BY <1>1, <2>1, <2>2 DEF CountInv, Onward, Written, Counted
<1>10. ASSUME NEW t \in Thread, StartBarrier(Team(t)) PROVE Q
  <2>1. /\ \A u \in Team(t) : pc[u] = "bar0" /\ pc'[u] = "bytes"
        /\ \A u \in Thread \ Team(t) : pc'[u] = pc[u]
    BY <1>10 DEF StartBarrier, TeamAt, Move, Team
  <2>2. Reporting' <=> Reporting
    BY <2>1 DEF Reporting, Team
  <2>3. \A u \in Thread : u \in Counted' <=> u \in Counted
    BY <2>1, <2>2 DEF Counted, During
  <2>4. Counted' = Counted
    BY <2>3 DEF Counted
  <2>5. QED
    BY <1>1, <2>1, <2>4 DEF CountInv, Onward, Counted, Team
<1>11. ASSUME NEW t \in Thread, StopBarrier(Team(t)) PROVE Q
  <2>1. PICK e \in Team(t) : pc' = [Move(Team(t), "bar2") EXCEPT ![e] = "report"]
    BY <1>11 DEF StopBarrier
  <2>2. /\ \A u \in Team(t) : pc[u] = "bar1"
        /\ e \in Thread
        /\ \A u \in Thread :
             pc'[u] = IF u = e THEN "report"
                      ELSE IF u \in Team(t) THEN "bar2" ELSE pc[u]
    BY <1>11, <2>1 DEF StopBarrier, Move, TeamAt, Team
  <2>3. \A u \in Thread \ (Unlocatable \union Team(t)) : pc[u] = "idle"
    BY <1>1, <2>1, <2>2, AloneIdle DEF Team, Placement, Placed, Held
  <2>4. \A u \in Thread : u \in Counted' <=> u \in Team(t) \ Unlocatable
    BY <2>2, <2>3 DEF Counted, Reporting, During
  <2>5. \A u \in Thread : u \in Counted <=> u \in Team(t) \ Unlocatable
    BY <2>2, <2>3 DEF Counted, During
  <2>6. Counted' = Counted
    BY <2>4, <2>5 DEF Counted
  <2>7. e \notin Unlocatable
    BY <1>1, <2>1, <2>2 DEF Placement, Placed, Held
  <2>8. \A u \in Thread : pc'[u] \in {"report", "reset"} => u \notin Unlocatable
    BY <1>1, <2>2, <2>7 DEF CountInv
  <2>9. \A u \in Counted : Onward(u)
    BY <2>2, <2>5 DEF Onward, Written, Counted, During
  <2>10. QED
    BY <2>6, <2>8, <2>9
<1>12. ASSUME NEW t \in Thread, Return(Team(t)) PROVE Q
  <2>1. /\ \A u \in Team(t) : pc[u] = "bar2" /\ pc'[u] = "idle"
        /\ \A u \in Thread \ Team(t) : pc'[u] = pc[u]
        /\ t \in Team(t)
    BY <1>12 DEF Return, TeamAt, Move, Team
  <2>2. \A u \in Thread : pc'[u] \in {"report", "reset"} => u \notin Unlocatable
    BY <1>1, <2>1 DEF CountInv
  <2>3. CASE t \in Unlocatable /\ mode = "none"
    <3>1. Reporting' <=> Reporting
      BY <2>1, <2>3 DEF Reporting, Team
    <3>2. \A u \in Thread \ Unlocatable : pc'[u] = pc[u]
      BY <2>1, <2>3 DEF Team
    <3>3. QED
      BY <2>2, <3>1, <3>2 DEF Counted, Onward
  <2>4. CASE t \notin Unlocatable \/ mode # "none"
    <3>1. \A u \in Thread \ (Unlocatable \union Team(t)) : pc[u] = "idle"
      BY <1>1, <2>1, <2>4, AloneIdle DEF Team
    <3>2. ~ Reporting
      BY <1>1, <2>1, <3>1 DEF Reporting, CountInv
    <3>3. Counted = {} /\ Counted' = {}
      BY <1>1, <2>1, <3>1, <3>2 DEF Counted, Reporting, During, CountInv
    <3>4. QED
      BY <2>2, <3>3
  <2>5. QED
    BY <2>3, <2>4
<1>13. QED
  BY <1>2, <1>3, <1>4, <1>5, <1>6, <1>7, <1>8, <1>9, <1>10, <1>11, <1>12
  DEF Next, Library, User, Step, Together, vars, SamplingInit, SamplingFini,
      EnterParallel, LeaveParallel, Tick

\* After the reset nobody is counted and the samples are empty.
LEMMA ResetEmpties ==
  ASSUME OneCaller, MeasureInv, NEW t \in Thread, ResetAll(t)
  PROVE  /\ Counted' = {}
         /\ \A u \in Thread : pc'[u] \notin {"report", "reset"}
         /\ \A p \in PU : /\ samples'[p].n_threads = 0
                          /\ samples'[p].bytes = 0 /\ samples'[p].flops = 0
<1>1. TypeOK /\ PhaseInv
  BY DEF MeasureInv, PhaseInv
<1>2. /\ pc[t] = "reset" /\ pc'[t] = "bar2"
      /\ \A u \in Thread \ {t} : pc'[u] = pc[u]
  BY <1>1 DEF ResetAll, TypeOK
<1>3. /\ \A u \in Thread \ (Unlocatable \union {t}) : pc[u] \in {"idle", "bar2"}
      /\ \A u \in Thread \ {t} : pc[u] \notin {"report", "reset"}
  BY <1>1, <1>2, PhaseWipe DEF NoWipe, PhaseInv, OneReporter
<1>4. Counted' = {}
  BY <1>2, <1>3 DEF Counted, Reporting, During
<1>5. ASSUME NEW p \in PU
      PROVE  /\ samples'[p].n_threads = 0
             /\ samples'[p].bytes = 0 /\ samples'[p].flops = 0
  <2>1. samples[p] \in Sample /\ samples'[p] = ResetSample(samples[p])
    BY <1>1 DEF TypeOK, ResetAll
  <2>2. QED
    BY <2>1 DEF ResetSample, Sample
<1>6. QED
  BY <1>2, <1>3, <1>4, <1>5

\* When the library opens nobody is counted and the samples are empty.
LEMMA OpeningEmpties ==
  ASSUME Placement, SamplingInit
  PROVE  /\ Counted' = {}
         /\ \A u \in Thread : pc'[u] \notin {"report", "reset"}
         /\ \A p \in PU : /\ samples'[p].n_threads = 0
                          /\ samples'[p].bytes = 0 /\ samples'[p].flops = 0
<1>1. \A u \in Thread : pc'[u] = "idle"
  BY DEF SamplingInit, Placement, AllIdle
<1>2. QED
  BY <1>1 DEF SamplingInit, NewSample, Counted, During

\* Each field of a sample but the counter has one step that writes it.
LEMMA SamplesStep ==
  ASSUME TypeOK, [Next]_vars, ~ SamplingInit, ~ \E t \in Thread : ResetAll(t),
         NEW p \in PU
  PROVE  /\ \/ samples'[p].n_threads = samples[p].n_threads
            \/ \E t \in Thread : IncThreads(t) /\ handle[t] = p
         /\ \/ samples'[p].bytes = samples[p].bytes
            \/ \E t \in Thread : SetBytes(t) /\ handle[t] = p
         /\ \/ samples'[p].flops = samples[p].flops
            \/ \E t \in Thread : SetFlops(t) /\ handle[t] = p
         /\ \/ samples'[p].s_nano = samples[p].s_nano
            \/ \E t \in Thread : Stamp(t) /\ handle[t] = p
         /\ \/ samples'[p].e_nano = samples[p].e_nano
            \/ \E t \in Thread : EndStamp(t) /\ handle[t] = p
<1> DEFINE Same(field) == samples'[p][field] = samples[p][field]
           Q == /\ Same("n_threads") \/ \E t \in Thread : IncThreads(t) /\ handle[t] = p
                /\ Same("bytes") \/ \E t \in Thread : SetBytes(t) /\ handle[t] = p
                /\ Same("flops") \/ \E t \in Thread : SetFlops(t) /\ handle[t] = p
                /\ Same("s_nano") \/ \E t \in Thread : Stamp(t) /\ handle[t] = p
                /\ Same("e_nano") \/ \E t \in Thread : EndStamp(t) /\ handle[t] = p
<1>1. CASE samples'[p] = samples[p]
  BY <1>1
<1>2. ASSUME NEW t \in Thread, IncLast(t) \/ DecLast(t) PROVE Q
  <2> DEFINE All == /\ Same("n_threads") /\ Same("bytes") /\ Same("flops")
                    /\ Same("s_nano") /\ Same("e_nano")
  <2>1. CASE IncLast(t)
    <3>1. All
      BY <2>1 DEF IncLast, TypeOK, Sample
    <3>2. QED
      BY <3>1
  <2>2. CASE DecLast(t)
    <3>1. All
      BY <2>2 DEF DecLast, TypeOK, Sample
    <3>2. QED
      BY <3>1
  <2>3. QED
    BY <1>2, <2>1, <2>2
<1>3. ASSUME NEW t \in Thread, Stamp(t), handle[t] = p PROVE Q
  <2>1. Same("n_threads") /\ Same("bytes") /\ Same("flops") /\ Same("e_nano")
    BY <1>3 DEF Stamp, TypeOK, Sample
  <2>2. QED
    BY <1>3, <2>1
<1>4. ASSUME NEW t \in Thread, EndStamp(t), handle[t] = p PROVE Q
  <2>1. Same("n_threads") /\ Same("bytes") /\ Same("flops") /\ Same("s_nano")
    BY <1>4 DEF EndStamp, TypeOK, Sample
  <2>2. QED
    BY <1>4, <2>1
<1>5. ASSUME NEW t \in Thread, IncThreads(t), handle[t] = p PROVE Q
  <2>1. Same("bytes") /\ Same("flops") /\ Same("s_nano") /\ Same("e_nano")
    BY <1>5 DEF IncThreads, TypeOK, Sample
  <2>2. QED
    BY <1>5, <2>1
<1>6. ASSUME NEW t \in Thread, SetBytes(t), handle[t] = p PROVE Q
  <2>1. Same("n_threads") /\ Same("flops") /\ Same("s_nano") /\ Same("e_nano")
    BY <1>6 DEF SetBytes, TypeOK, Sample
  <2>2. QED
    BY <1>6, <2>1
<1>7. ASSUME NEW t \in Thread, SetFlops(t), handle[t] = p PROVE Q
  <2>1. Same("n_threads") /\ Same("bytes") /\ Same("s_nano") /\ Same("e_nano")
    BY <1>7 DEF SetFlops, TypeOK, Sample
  <2>2. QED
    BY <1>7, <2>1
<1>8. \/ samples'[p] = samples[p]
      \/ \E t \in Thread :
           \/ IncLast(t) \/ DecLast(t)
           \/ /\ handle[t] = p
              /\ \/ Stamp(t) \/ EndStamp(t)
                 \/ IncThreads(t) \/ SetBytes(t) \/ SetFlops(t)
  <2>1. \/ UNCHANGED samples
        \/ \E t \in Thread : \/ IncLast(t) \/ DecLast(t) \/ Stamp(t) \/ EndStamp(t)
                             \/ IncThreads(t) \/ SetBytes(t) \/ SetFlops(t)
    BY DEF Next, Library, User, Step, Together, vars, SamplingFini, EnterParallel,
       LeaveParallel, Tick, Start, StartForced, Lookup, StartBarrier, JoinForced,
       Stop, StopForced, Relook, ReadTime, StopBarrier, Report, Return
  <2>2. ASSUME NEW t \in Thread, handle[t] # p,
               \/ Stamp(t) \/ EndStamp(t)
               \/ IncThreads(t) \/ SetBytes(t) \/ SetFlops(t)
        PROVE  samples'[p] = samples[p]
    BY <2>2 DEF Stamp, EndStamp, IncThreads, SetBytes, SetFlops, TypeOK
  <2>3. QED
    BY <2>1, <2>2
<1>9. QED
  BY <1>1, <1>2, <1>3, <1>4, <1>5, <1>6, <1>7, <1>8

LEMMA CountStep ==
  ASSUME OneCaller, MeasureInv, [Next]_vars
  PROVE  CountInv'
<1>1. TypeOK /\ PhaseInv /\ Placement /\ CountInv
  BY DEF MeasureInv, PhaseInv
<1>2. ASSUME NEW t \in Thread, IncThreads(t) PROVE CountInv'
  BY <1>1, <1>2, CountIncrement
<1>3. CASE SamplingInit
  BY <1>1, <1>3, OpeningEmpties, NoCount
<1>4. CASE \E t \in Thread : ResetAll(t)
  BY <1>4, ResetEmpties, NoCount
<1>5. CASE ~ SamplingInit /\ ~ \E t \in Thread : IncThreads(t) \/ ResetAll(t)
  <2>1. \A p \in PU : samples'[p].n_threads = samples[p].n_threads
    BY <1>1, <1>5, SamplesStep
  <2>2. QED
    BY <1>1, <1>5, <2>1, CountedStep, SameCount
<1>6. QED
  BY <1>2, <1>3, <1>4, <1>5

LEMMA MeasureStep ==
  ASSUME OneCaller, MeasureInv, [Next]_vars
  PROVE  MeasureInv'
BY PhaseStep, PlacementStep, CountStep DEF MeasureInv, PhaseInv

LEMMA InitMeasure == Init => MeasureInv
<1> SUFFICES ASSUME Init PROVE MeasureInv
  OBVIOUS
<1>1. PhaseInv /\ Placement
  BY InitPhase, InitCounter DEF CounterInv
<1> DEFINE place == [t \in Thread |-> 0]
<1>2. place \in [Thread -> PU]
  BY TopologyAssumption
<1>3. Counted = {}
  BY DEF Init, Counted, During
<1>4. CountsOn(place)
  BY <1>3, FS_EmptySet DEF Init, CountsOn, NewSample
<1>5. QED
  BY <1>1, <1>2, <1>4 DEF MeasureInv, CountInv, Init

\* When a thread reports its whole team is counted and nobody else is.
LEMMA TeamCounted ==
  ASSUME OneCaller, MeasureInv, NEW t \in Thread, pc[t] = "report"
  PROVE  Counted = Team(t)
<1>1. PhaseInv /\ t \notin Unlocatable
  BY DEF MeasureInv, CountInv
<1>2. CASE mode = "none"
  BY <1>1, <1>2, AloneIdle DEF Counted, Team, During
<1>3. CASE mode # "none"
  <2>1. \A u \in Thread : pc[u] \in {"report", "reset", "bar2"}
    BY <1>1, <1>3 DEF PhaseInv, InPhase, Before, During, After
  <2>2. Unlocatable = {}
    BY <1>1, <1>3, TeamLocated DEF PhaseInv
  <2>3. QED
    BY <1>3, <2>1, <2>2 DEF Counted, Team, Reporting
<1>4. QED
  BY <1>2, <1>3

\* From a report to the reset the team, its call and what is printed stay.
LEMMA WhileReset ==
  ASSUME OneCaller, MeasureInv, [Next]_vars, NEW t \in Thread, pc'[t] = "reset",
         ~ Report(t)
  PROVE  pc[t] = "reset" /\ mode' = mode /\ out' = out /\ arg'[t] = arg[t]
<1>1. TypeOK /\ PhaseInv
  BY DEF MeasureInv, PhaseInv
<1>2. CASE UNCHANGED <<pc, mode, out, arg>>
  BY <1>2
<1>3. CASE EnterParallel \/ LeaveParallel
  BY <1>3 DEF EnterParallel, LeaveParallel, AllIdle
<1>4. CASE JoinForced \/ StopForced
  BY <1>4 DEF JoinForced, StopForced, Move
<1>5. ASSUME NEW k \in Kernels, StartForced(k) PROVE FALSE
  BY <1>5 DEF StartForced, Move
<1>6. ASSUME NEW u \in Thread, NEW k \in Kernels, Start(u, k)
      PROVE  pc[t] = "reset" /\ mode' = mode /\ out' = out /\ arg'[t] = arg[t]
  BY <1>1, <1>6 DEF Start, TypeOK
<1>7. ASSUME NEW u \in Thread,
             \/ Lookup(u) \/ IncThreads(u) \/ SetBytes(u) \/ SetFlops(u)
             \/ IncLast(u) \/ Stamp(u) \/ Stop(u) \/ Relook(u) \/ ReadTime(u)
             \/ DecLast(u) \/ EndStamp(u) \/ ResetAll(u)
      PROVE  pc[t] = "reset" /\ mode' = mode /\ out' = out /\ arg'[t] = arg[t]
  <2>1. UNCHANGED <<mode, out, arg>>
    BY <1>7
    DEF Lookup, IncThreads, SetBytes, SetFlops, IncLast, Stamp, Stop, Relook,
        ReadTime, DecLast, EndStamp, ResetAll
  <2>2. pc'[t] = pc[t] \/ pc'[t] # "reset"
    BY <1>1, <1>7
    DEF TypeOK, Lookup, IncThreads, SetBytes, SetFlops, IncLast, Stamp, Stop,
        Relook, ReadTime, DecLast, EndStamp, ResetAll, AfterStart
  <2>3. QED
    BY <2>1, <2>2
<1>8. ASSUME NEW u \in Thread, Report(u)
      PROVE  pc[t] = "reset" /\ mode' = mode /\ out' = out /\ arg'[t] = arg[t]
  <2>1. u # t /\ pc[u] = "report" /\ pc'[t] = pc[t]
    BY <1>1, <1>8 DEF Report, TypeOK
  <2>2. FALSE
    BY <1>1, <2>1 DEF PhaseInv, OneReporter
  <2>3. QED
    BY <2>2
<1>9. ASSUME NEW u \in Thread, StartBarrier(Team(u)) \/ StopBarrier(Team(u))
      PROVE  pc[t] = "reset" /\ mode' = mode /\ out' = out /\ arg'[t] = arg[t]
  <2>1. UNCHANGED <<mode, out, arg>>
    BY <1>9 DEF StartBarrier, StopBarrier
  <2>2. pc'[t] = pc[t] \/ pc'[t] \in {"bytes", "bar2", "report"}
    BY <1>9 DEF StartBarrier, StopBarrier, Move
  <2>3. QED
    BY <2>1, <2>2
<1>10. ASSUME NEW u \in Thread, Return(Team(u))
       PROVE  pc[t] = "reset" /\ mode' = mode /\ out' = out /\ arg'[t] = arg[t]
  <2>1. t \notin Team(u) /\ pc'[t] = pc[t] /\ arg'[t] = arg[t] /\ out' = out
    BY <1>10 DEF Return, Move
  <2>2. mode = "none"
    BY <2>1 DEF Team
  <2>3. QED
    BY <1>10, <2>1, <2>2 DEF Return
<1>11. QED
  BY <1>2, <1>3, <1>4, <1>5, <1>6, <1>7, <1>8, <1>9, <1>10
  DEF Next, Library, User, Step, Together, vars, SamplingInit, SamplingFini, Tick

\* To count is a way to weigh.
LEMMA CardinalityWeighs ==
  ASSUME NEW T, IsFiniteSet(T), NEW W, W = [A \in SUBSET T |-> Cardinality(A)]
  PROVE  Weighs(W, T)
<1>1. \A A \in SUBSET T : IsFiniteSet(A) /\ Cardinality(A) \in Nat
  BY FS_Subset, FS_CardinalityType
<1>2. W \in [SUBSET T -> Nat] /\ W[{}] = 0
  BY <1>1, FS_EmptySet
<1>3. ASSUME NEW A \in SUBSET T, NEW B \in SUBSET T, A \intersect B = {}
      PROVE  W[A \union B] = W[A] + W[B]
  <2>1. /\ Cardinality(A \union B)
              = Cardinality(A) + Cardinality(B) - Cardinality(A \intersect B)
        /\ Cardinality(A \intersect B) = 0
    <3>1. IsFiniteSet(A) /\ IsFiniteSet(B)
      BY <1>1
    <3>2. QED
      BY <3>1, <1>3, FS_Union, FS_EmptySet
  <2>2. QED
    BY <1>1, <2>1
<1>4. QED
  BY <1>2, <1>3 DEF Weighs

LEMMA ReportCounts ==
  ASSUME OneCaller, MeasureInv, NEW t \in Thread, Report(t)
  PROVE  TotalOf(LAMBDA l : l.n_threads)' = Cardinality(Team(t))'
<1>1. TypeOK
  BY DEF MeasureInv, PhaseInv
<1>2. PICK place \in [Thread -> PU] : CountsOn(place)
  BY DEF MeasureInv, CountInv
<1>3. Counted = Team(t) /\ Counted \in SUBSET Thread
  BY TeamCounted DEF Report, Counted
<1> DEFINE W == [A \in SUBSET Counted |-> Cardinality(A)]
           there == [u \in Counted |-> place[u]]
           f == [n \in Node |-> Reduce(n).n_threads]
<1>4. Weighs(W, Counted)
  <2>1. IsFiniteSet(Counted) /\ W = [A \in SUBSET Counted |-> Cardinality(A)]
    BY <1>3, ThreadFinite, FS_Subset
  <2> HIDE DEF W
  <2>2. QED
    BY <2>1, CardinalityWeighs
<1>5. there \in [Counted -> PU]
  BY <1>3
<1>6. Carries("n_threads", W, Counted, there)
  BY <1>2 DEF CountsOn, Carries
<1>7. SumFunctionOnSet([n \in Node |-> Reduce(n)["n_threads"]], Node) = W[Counted]
  <2> HIDE DEF W, there
  <2>1. QED
    BY <1>1, <1>4, <1>5, <1>6, TotalCarried
<1>8. SumFunctionOnSet(f, Node) = W[Counted]
  BY <1>7
<1>9. [n \in Node |-> out'[n].n_threads] = f
  BY DEF Report, Printed
<1>10. W[Counted] = Cardinality(Team(t)) /\ Team(t)' = Team(t)
  BY <1>3 DEF Report, Team
<1>11. QED
  BY <1>8, <1>9, <1>10 DEF TotalOf

\* What is printed counts every thread of the team once, on whatever PUs the
\* threads were when they started, as long as one of the threads that have a
\* sample samples from sequential regions.
THEOREM AllCountedCorrect == ASSUME OneCaller PROVE Spec => []AllCounted
<1>1. Init => AllCounted
  BY DEF Init, AllCounted
<1>2. MeasureInv /\ AllCounted /\ [Next]_vars => AllCounted'
  <2> SUFFICES ASSUME MeasureInv, AllCounted, [Next]_vars,
                      NEW t \in Thread, pc'[t] = "reset"
               PROVE  TotalOf(LAMBDA l : l.n_threads)' = Cardinality(Team(t))'
    BY DEF AllCounted
  <2>1. CASE Report(t)
    BY <2>1, ReportCounts
  <2>2. CASE ~ Report(t)
    <3>1. pc[t] = "reset" /\ mode' = mode /\ out' = out
      BY <2>2, WhileReset
    <3>2. TotalOf(LAMBDA l : l.n_threads) = Cardinality(Team(t))
      BY <3>1 DEF AllCounted
    <3>3. QED
      BY <3>1, <3>2 DEF TotalOf, Team
  <2>3. QED
    BY <2>1, <2>2
<1>3. QED
  BY InitMeasure, MeasureStep, <1>1, <1>2, PTL DEF Spec

(***************************************************************************)
(* Forced totals                                                           *)
(***************************************************************************)

\* No two threads of a forced call may meet on a PU, where the second would
\* overwrite what the first announced.
Apart ==
  "forced" \in Regions =>
    \A t, u \in Thread : t # u => Affinity[t] \intersect Affinity[u] = {}

Starting == {"inc", "bar0", "bytes", "flops", "first", "stamp"}

\* The threads that have written their bytes, their flops.
WroteBytes == {t \in Counted : pc[t] \notin {"bar0", "bytes"}}
WroteFlops == {t \in Counted : pc[t] \notin {"bar0", "bytes", "flops"}}

\* The threads T have each written part in the sample of their place.
Spread(field, T, place, part) ==
  \A p \in PU :
    samples[p][field] = IF \E t \in T : place[t] = p THEN part ELSE 0

Settled(place) ==
  \A t \in Thread : /\ place[t] \in Affinity[t]
                    /\ pc[t] \in Starting => place[t] = handle[t]

Announced == \A t \in Thread : arg[t] = arg[0] /\ arg[t] \in Kernels

ForcedInv ==
  /\ WroteBytes = {} => \A p \in PU : samples[p].bytes = 0
  /\ WroteFlops = {} => \A p \in PU : samples[p].flops = 0
  /\ mode = "forced" =>
       /\ Announced
       /\ \E place \in [Thread -> PU] :
            /\ Settled(place)
            /\ Spread("bytes", WroteBytes, place, arg[0].bytes \div N)
            /\ Spread("flops", WroteFlops, place, arg[0].flops \div N)

\* What each step does to the threads that have written.
LEMMA WroteStep ==
  ASSUME OneCaller, MeasureInv, [Next]_vars, ~ \E t \in Thread : ResetAll(t)
  PROVE  /\ \A t \in Thread : SetBytes(t) => WroteBytes' = WroteBytes \union {t}
         /\ \A t \in Thread : SetFlops(t) => WroteFlops' = WroteFlops \union {t}
         /\ (~ \E t \in Thread : SetBytes(t)) => WroteBytes' = WroteBytes
         /\ (~ \E t \in Thread : SetFlops(t)) => WroteFlops' = WroteFlops
<1>1. TypeOK /\ Placement /\ PhaseInv
  BY DEF MeasureInv, PhaseInv
<1>2. CASE \E t \in Thread : IncThreads(t)
  <2>1. PICK t \in Thread : IncThreads(t)
    BY <1>2
  <2>2. /\ pc[t] = "inc" /\ pc'[t] = "bar0"
        /\ \A u \in Thread \ {t} : pc'[u] = pc[u]
    BY <1>1, <2>1 DEF IncThreads, TypeOK
  <2>3. Reporting' <=> Reporting
    BY <2>2 DEF Reporting
  <2>4. \A u \in Thread : /\ u \in WroteBytes' <=> u \in WroteBytes
                          /\ u \in WroteFlops' <=> u \in WroteFlops
    BY <2>2, <2>3 DEF Counted, WroteBytes, WroteFlops, During
  <2>5. WroteBytes' = WroteBytes /\ WroteFlops' = WroteFlops
    BY <2>4 DEF Counted, WroteBytes, WroteFlops
  <2>6. \A u \in Thread : ~ SetBytes(u) /\ ~ SetFlops(u)
    BY <1>1, <2>2 DEF SetBytes, SetFlops, TypeOK
  <2>7. QED
    BY <2>5, <2>6
<1>3. CASE ~ \E t \in Thread : IncThreads(t)
  <2>1. Counted' = Counted /\ \A t \in Counted : Onward(t)
    BY <1>3, CountedStep
  <2>2. Counted \in SUBSET Thread
    BY DEF Counted
  <2>3. ASSUME NEW t \in Thread, SetBytes(t)
        PROVE  WroteBytes' = WroteBytes \union {t}
    <3>1. /\ pc[t] = "bytes" /\ pc'[t] = "flops"
          /\ \A u \in Thread \ {t} : pc'[u] = pc[u]
      BY <1>1, <2>3 DEF SetBytes, TypeOK
    <3>2. t \in Counted
      BY <1>1, <3>1 DEF Counted, During, Placement, Placed, Held
    <3>3. QED
      BY <2>1, <2>2, <3>1, <3>2 DEF WroteBytes
  <2>4. ASSUME NEW t \in Thread, SetFlops(t)
        PROVE  WroteFlops' = WroteFlops \union {t}
    <3>1. /\ pc[t] = "flops" /\ pc'[t] = "first"
          /\ \A u \in Thread \ {t} : pc'[u] = pc[u]
      BY <1>1, <2>4 DEF SetFlops, TypeOK
    <3>2. t \in Counted
      BY <1>1, <3>1 DEF Counted, During, Placement, Placed, Held
    <3>3. QED
      BY <2>1, <2>2, <3>1, <3>2 DEF WroteFlops
  <2>5. ASSUME ~ \E t \in Thread : SetBytes(t) PROVE WroteBytes' = WroteBytes
    <3>1. ASSUME NEW t \in Thread, SetFlops(t)
          PROVE  pc[t] = "flops" /\ pc'[t] = "first"
      BY <1>1, <3>1 DEF SetFlops, TypeOK
    <3>2. \A t \in Counted : pc'[t] \in {"bar0", "bytes"} <=> pc[t] \in {"bar0", "bytes"}
      BY <2>1, <2>2, <2>5, <3>1 DEF Onward, Written, During
    <3>3. QED
      BY <2>1, <3>2 DEF WroteBytes
  <2>6. ASSUME ~ \E t \in Thread : SetFlops(t) PROVE WroteFlops' = WroteFlops
    <3>1. ASSUME NEW t \in Thread, SetBytes(t)
          PROVE  pc[t] = "bytes" /\ pc'[t] = "flops"
      BY <1>1, <3>1 DEF SetBytes, TypeOK
    <3>2. \A t \in Counted : pc'[t] \in {"bar0", "bytes", "flops"}
                               <=> pc[t] \in {"bar0", "bytes", "flops"}
      BY <2>1, <2>2, <2>6, <3>1 DEF Onward, Written, During
    <3>3. QED
      BY <2>1, <3>2 DEF WroteFlops
  <2>7. QED
    BY <2>3, <2>4, <2>5, <2>6
<1>4. QED
  BY <1>2, <1>3

LEMMA InitForced == Init => ForcedInv
BY DEF Init, ForcedInv, NewSample

\* A forced call lasts from its start to its return, with the same arguments.
LEMMA ForcedStays ==
  ASSUME [Next]_vars, mode' = "forced", ~ \E k \in Kernels : StartForced(k)
  PROVE  mode = "forced" /\ arg' = arg
<1>1. CASE UNCHANGED <<mode, arg>>
  BY <1>1
<1>2. CASE EnterParallel \/ LeaveParallel
  BY <1>2 DEF EnterParallel, LeaveParallel
<1>3. ASSUME NEW t \in Thread, NEW k \in Kernels, Start(t, k) PROVE FALSE
  BY <1>3 DEF Start
<1>4. ASSUME NEW t \in Thread, Return(Team(t)) PROVE FALSE
  BY <1>4 DEF Return
<1>5. QED
  BY <1>1, <1>2, <1>3, <1>4
  DEF Next, Library, User, Step, Together, vars, SamplingInit, SamplingFini, Tick,
      Lookup, IncThreads, StartBarrier, SetBytes, SetFlops, IncLast, Stamp,
      JoinForced, Stop, StopForced, Relook, ReadTime, DecLast, EndStamp,
      StopBarrier, Report, ResetAll

\* A thread is settled when it is looked up, and stays.
LEMMA SettledStep ==
  ASSUME TypeOK, Placement, [Next]_vars, mode = "forced", mode' = "forced",
         NEW place \in [Thread -> PU], Settled(place)
  PROVE  \E there \in [Thread -> PU] :
           /\ Settled(there)'
           /\ \A t \in Thread : pc[t] # "lookup" => there[t] = place[t]
<1>1. ASSUME NEW t \in Thread, Lookup(t)
      PROVE  \E there \in [Thread -> PU] :
               /\ Settled(there)'
               /\ \A u \in Thread : pc[u] # "lookup" => there[u] = place[u]
  <2>1. pc[t] = "lookup" /\ \A u \in Thread \ {t} : pc'[u] = pc[u]
    BY <1>1 DEF Lookup, TypeOK, Locate
  <2>2. CASE Locate(t) /\ pc' = [pc EXCEPT ![t] = "inc"]
    <3>1. PICK p \in Affinity[t] : handle' = [handle EXCEPT ![t] = p]
      BY <2>2 DEF Locate
    <3> DEFINE there == [place EXCEPT ![t] = p]
    <3>2. p \in PU /\ handle'[t] = p /\ \A u \in Thread \ {t} : handle'[u] = handle[u]
      BY <3>1, BindingAssumption DEF TypeOK
    <3>3. there \in [Thread -> PU]
      BY <3>2
    <3>4. Settled(there)'
      BY <2>1, <3>2 DEF Settled
    <3>5. \A u \in Thread : pc[u] # "lookup" => there[u] = place[u]
      BY <2>1
    <3>6. QED
      BY <3>3, <3>4, <3>5
  <2>3. CASE pc' = [pc EXCEPT ![t] = AfterStart] /\ UNCHANGED <<handle, bindings>>
    <3>1. pc'[t] \in {"join", "open"} /\ UNCHANGED handle
      BY <2>3 DEF AfterStart, TypeOK
    <3>2. Settled(place)'
      BY <2>1, <3>1 DEF Settled, Starting
    <3>3. QED
      BY <3>2
  <2>4. QED
    BY <1>1, <2>2, <2>3 DEF Lookup
<1>2. CASE \A t \in Thread :
             pc'[t] \in Starting => pc[t] \in Starting /\ handle'[t] = handle[t]
  <2>1. Settled(place)'
    BY <1>2 DEF Settled
  <2>2. QED
    BY <2>1
<1>3. CASE UNCHANGED <<pc, handle>>
  BY <1>2, <1>3
<1>4. ASSUME NEW k \in Kernels, StartForced(k) PROVE FALSE
  BY <1>4 DEF StartForced
<1>5. CASE JoinForced \/ StopForced
  <2>1. \A t \in Thread : pc'[t] \in {"open", "relook"}
    BY <1>5 DEF JoinForced, StopForced, Move
  <2>2. QED
    BY <1>2, <2>1 DEF Starting
<1>6. ASSUME NEW t \in Thread, NEW k \in Kernels, Start(t, k) PROVE FALSE
  BY <1>6 DEF Start
<1>7. ASSUME NEW t \in Thread, Relook(t)
      PROVE  \A u \in Thread :
               pc'[u] \in Starting => pc[u] \in Starting /\ handle'[u] = handle[u]
  <2>1. pc'[t] \in {"time", "bar2"} /\ \A u \in Thread \ {t} : pc'[u] = pc[u]
    BY <1>7 DEF Relook, TypeOK
  <2>2. \A u \in Thread \ {t} : handle'[u] = handle[u]
    BY <1>7 DEF Relook, Locate, TypeOK
  <2>3. QED
    BY <2>1, <2>2 DEF Starting
<1>8. ASSUME NEW t \in Thread,
             \/ IncThreads(t) \/ SetBytes(t) \/ SetFlops(t) \/ IncLast(t)
             \/ Stamp(t) \/ Stop(t) \/ ReadTime(t) \/ DecLast(t) \/ EndStamp(t)
             \/ Report(t) \/ ResetAll(t)
      PROVE  \A u \in Thread :
               pc'[u] \in Starting => pc[u] \in Starting /\ handle'[u] = handle[u]
  <2>1. UNCHANGED handle /\ \A u \in Thread \ {t} : pc'[u] = pc[u]
    BY <1>8
    DEF IncThreads, SetBytes, SetFlops, IncLast, Stamp, Stop, ReadTime, DecLast,
        EndStamp, Report, ResetAll, TypeOK
  <2>2. pc'[t] \in Starting => pc[t] \in Starting
    BY <1>8
    DEF IncThreads, SetBytes, SetFlops, IncLast, Stamp, Stop, ReadTime, DecLast,
        EndStamp, Report, ResetAll, TypeOK, Starting, AfterStart
  <2>3. QED
    BY <2>1, <2>2
<1>9. ASSUME NEW t \in Thread, StartBarrier(Team(t)) \/ StopBarrier(Team(t))
      PROVE  \A u \in Thread :
               pc'[u] \in Starting => pc[u] \in Starting /\ handle'[u] = handle[u]
  <2>1. CASE StartBarrier(Team(t))
    BY <2>1 DEF StartBarrier, TeamAt, Move, Starting
  <2>2. CASE StopBarrier(Team(t))
    <3>1. UNCHANGED handle
      BY <2>2 DEF StopBarrier
    <3>2. \A u \in Thread : pc'[u] = pc[u] \/ pc'[u] \in {"report", "bar2"}
      BY <2>2 DEF StopBarrier, Move
    <3>3. QED
      BY <3>1, <3>2 DEF Starting
  <2>3. QED
    BY <1>9, <2>1, <2>2
<1>10. ASSUME NEW t \in Thread, Return(Team(t)) PROVE FALSE
  BY <1>10 DEF Return
<1>11. QED
  BY <1>1, <1>2, <1>3, <1>4, <1>5, <1>6, <1>7, <1>8, <1>9, <1>10
  DEF Next, Library, User, Step, Together, vars, SamplingInit, SamplingFini, Tick,
      EnterParallel, LeaveParallel

\* While a forced call goes on each thread writes its part where it is settled.
LEMMA SpreadStep ==
  ASSUME OneCaller, MeasureInv, [Next]_vars, mode = "forced", mode' = "forced",
         arg' = arg, Announced,
         NEW place \in [Thread -> PU], Settled(place),
         NEW there \in [Thread -> PU],
         \A t \in Thread : pc[t] # "lookup" => there[t] = place[t]
  PROVE  /\ Spread("bytes", WroteBytes, place, arg[0].bytes \div N) =>
              Spread("bytes", WroteBytes, there, arg[0].bytes \div N)'
         /\ Spread("flops", WroteFlops, place, arg[0].flops \div N) =>
              Spread("flops", WroteFlops, there, arg[0].flops \div N)'
<1>1. TypeOK /\ Placement /\ ~ SamplingInit
  BY DEF MeasureInv, PhaseInv, Placement, SamplingInit
<1>2. CASE \E t \in Thread : ResetAll(t)
  BY <1>2, ResetEmpties DEF Spread, WroteBytes, WroteFlops
<1>3. CASE ~ \E t \in Thread : ResetAll(t)
  <2>1. \A t \in Counted : there[t] = place[t]
    BY DEF Counted, During
  <2>2. ASSUME Spread("bytes", WroteBytes, place, arg[0].bytes \div N),
               NEW p \in PU
        PROVE  samples'[p].bytes = IF \E t \in WroteBytes' : there[t] = p
                                     THEN arg[0].bytes \div N ELSE 0
    <3>1. CASE \E t \in Thread : SetBytes(t)
      <4>1. PICK t \in Thread : SetBytes(t)
        BY <3>1
      <4>2. WroteBytes' = WroteBytes \union {t}
        BY <1>3, <4>1, WroteStep
      <4>3. /\ pc[t] = "bytes" /\ there[t] = place[t] /\ place[t] = handle[t]
            /\ Share(t).bytes = arg[0].bytes \div N
        BY <4>1 DEF SetBytes, Settled, Starting, Share, Announced
      <4>4. samples'[p].bytes
              = IF p = there[t] THEN arg[0].bytes \div N ELSE samples[p].bytes
        BY <1>1, <4>1, <4>3 DEF SetBytes, TypeOK, Sample
      <4>5. QED
        BY <2>1, <2>2, <4>2, <4>4 DEF Spread, WroteBytes
    <3>2. CASE ~ \E t \in Thread : SetBytes(t)
      <4>1. WroteBytes' = WroteBytes /\ samples'[p].bytes = samples[p].bytes
        BY <1>1, <1>3, <3>2, WroteStep, SamplesStep
      <4>2. QED
        BY <2>1, <2>2, <4>1 DEF Spread, WroteBytes
    <3>3. QED
      BY <3>1, <3>2
  <2>3. ASSUME Spread("flops", WroteFlops, place, arg[0].flops \div N),
               NEW p \in PU
        PROVE  samples'[p].flops = IF \E t \in WroteFlops' : there[t] = p
                                     THEN arg[0].flops \div N ELSE 0
    <3>1. CASE \E t \in Thread : SetFlops(t)
      <4>1. PICK t \in Thread : SetFlops(t)
        BY <3>1
      <4>2. WroteFlops' = WroteFlops \union {t}
        BY <1>3, <4>1, WroteStep
      <4>3. /\ pc[t] = "flops" /\ there[t] = place[t] /\ place[t] = handle[t]
            /\ Share(t).flops = arg[0].flops \div N
        BY <4>1 DEF SetFlops, Settled, Starting, Share, Announced
      <4>4. samples'[p].flops
              = IF p = there[t] THEN arg[0].flops \div N ELSE samples[p].flops
        BY <1>1, <4>1, <4>3 DEF SetFlops, TypeOK, Sample
      <4>5. QED
        BY <2>1, <2>3, <4>2, <4>4 DEF Spread, WroteFlops
    <3>2. CASE ~ \E t \in Thread : SetFlops(t)
      <4>1. WroteFlops' = WroteFlops /\ samples'[p].flops = samples[p].flops
        BY <1>1, <1>3, <3>2, WroteStep, SamplesStep
      <4>2. QED
        BY <2>1, <2>3, <4>1 DEF Spread, WroteFlops
    <3>3. QED
      BY <3>1, <3>2
  <2>4. QED
    BY <2>2, <2>3 DEF Spread
<1>4. QED
  BY <1>2, <1>3

LEMMA ForcedStep ==
  ASSUME OneCaller, MeasureInv, ForcedInv, [Next]_vars
  PROVE  ForcedInv'
<1>1. TypeOK /\ Placement
  BY DEF MeasureInv, PhaseInv
<1>2. ASSUME WroteBytes' = {}, NEW p \in PU PROVE samples'[p].bytes = 0
  <2>1. CASE SamplingInit \/ \E t \in Thread : ResetAll(t)
    BY <1>1, <2>1, OpeningEmpties, ResetEmpties
  <2>2. CASE ~ SamplingInit /\ ~ \E t \in Thread : ResetAll(t)
    <3>1. WroteBytes' = WroteBytes /\ samples'[p].bytes = samples[p].bytes
      BY <1>1, <1>2, <2>2, WroteStep, SamplesStep
    <3>2. QED
      BY <1>2, <3>1 DEF ForcedInv
  <2>3. QED
    BY <2>1, <2>2
<1>3. ASSUME WroteFlops' = {}, NEW p \in PU PROVE samples'[p].flops = 0
  <2>1. CASE SamplingInit \/ \E t \in Thread : ResetAll(t)
    BY <1>1, <2>1, OpeningEmpties, ResetEmpties
  <2>2. CASE ~ SamplingInit /\ ~ \E t \in Thread : ResetAll(t)
    <3>1. WroteFlops' = WroteFlops /\ samples'[p].flops = samples[p].flops
      BY <1>1, <1>3, <2>2, WroteStep, SamplesStep
    <3>2. QED
      BY <1>3, <3>1 DEF ForcedInv
  <2>3. QED
    BY <2>1, <2>2
<1>4. ASSUME NEW k \in Kernels, StartForced(k)
      PROVE  /\ Announced'
             /\ \E place \in [Thread -> PU] :
                  /\ Settled(place)'
                  /\ Spread("bytes", WroteBytes, place, arg[0].bytes \div N)'
                  /\ Spread("flops", WroteFlops, place, arg[0].flops \div N)'
  <2>1. /\ \A t \in Thread : pc[t] = "idle" /\ pc'[t] = "lookup"
        /\ arg' = [t \in Thread |-> k] /\ UNCHANGED samples
    BY <1>4 DEF StartForced, AllIdle, Move
  <2>2. 0 \in Thread
    BY ThreadAssumption DEF Thread
  <2>3. Announced'
    BY <2>1, <2>2 DEF Announced
  <2> DEFINE place == [t \in Thread |-> CHOOSE p \in Affinity[t] : TRUE]
  <2>4. \A t \in Thread : place[t] \in Affinity[t]
    BY BindingAssumption
  <2>5. place \in [Thread -> PU]
    BY <2>4, BindingAssumption
  <2>6. Settled(place)'
    BY <2>1, <2>4 DEF Settled, Starting
  <2>7. /\ WroteBytes = {} /\ WroteBytes' = {}
        /\ WroteFlops = {} /\ WroteFlops' = {}
    BY <2>1 DEF WroteBytes, WroteFlops, Counted, During
  <2>8. /\ Spread("bytes", WroteBytes, place, arg[0].bytes \div N)'
        /\ Spread("flops", WroteFlops, place, arg[0].flops \div N)'
    BY <2>1, <2>7 DEF ForcedInv, Spread
  <2>9. QED
    BY <2>3, <2>5, <2>6, <2>8
<1>5. ASSUME mode' = "forced", ~ \E k \in Kernels : StartForced(k)
      PROVE  /\ Announced'
             /\ \E place \in [Thread -> PU] :
                  /\ Settled(place)'
                  /\ Spread("bytes", WroteBytes, place, arg[0].bytes \div N)'
                  /\ Spread("flops", WroteFlops, place, arg[0].flops \div N)'
  <2>1. mode = "forced" /\ arg' = arg
    BY <1>5, ForcedStays
  <2>2. Announced
    BY <2>1 DEF ForcedInv
  <2>3. PICK place \in [Thread -> PU] :
          /\ Settled(place)
          /\ Spread("bytes", WroteBytes, place, arg[0].bytes \div N)
          /\ Spread("flops", WroteFlops, place, arg[0].flops \div N)
    BY <2>1 DEF ForcedInv
  <2>4. PICK there \in [Thread -> PU] :
          /\ Settled(there)'
          /\ \A t \in Thread : pc[t] # "lookup" => there[t] = place[t]
    BY <1>1, <1>5, <2>1, <2>3, SettledStep
  <2>5. /\ Spread("bytes", WroteBytes, there, arg[0].bytes \div N)'
        /\ Spread("flops", WroteFlops, there, arg[0].flops \div N)'
    BY <1>5, <2>1, <2>2, <2>3, <2>4, SpreadStep
  <2>6. Announced'
    BY <2>1, <2>2 DEF Announced
  <2>7. QED
    BY <2>4, <2>5, <2>6
<1>6. QED
  BY <1>2, <1>3, <1>4, <1>5 DEF ForcedInv

LEMMA Distributes ==
  ASSUME NEW w \in Nat, NEW a \in Nat, NEW b \in Nat
  PROVE  w * (a + b) = w * a + w * b /\ w * a \in Nat /\ w * 0 = 0 /\ w * 1 = w
OBVIOUS

\* What the equal parts of a total leave out of it is less than one each.
LEMMA PartsFallShort ==
  ASSUME NEW n \in Nat \ {0}, NEW total \in Nat
  PROVE  /\ total \div n \in Nat /\ (total \div n) * n \in Nat
         /\ total - (total \div n) * n \in 0 .. n - 1
OBVIOUS

\* A weight for each thread.
LEMMA EqualParts ==
  ASSUME NEW part \in Nat
  PROVE  LET W == [A \in SUBSET Thread |-> part * Cardinality(A)]
         IN  /\ Weighs(W, Thread)
             /\ W[Thread] = part * N
             /\ \A t \in Thread : W[{t}] = part
<1> DEFINE W == [A \in SUBSET Thread |-> part * Cardinality(A)]
<1>1. \A A \in SUBSET Thread : IsFiniteSet(A) /\ Cardinality(A) \in Nat
  BY ThreadFinite, FS_Subset, FS_CardinalityType
<1>2. W \in [SUBSET Thread -> Nat]
  BY <1>1, Distributes
<1>3. W[{}] = 0
  BY FS_EmptySet, Distributes
<1>4. ASSUME NEW A \in SUBSET Thread, NEW B \in SUBSET Thread, A \intersect B = {}
      PROVE  W[A \union B] = W[A] + W[B]
  <2> HIDE DEF W
  <2>0. Cardinality(A \union B)
          = Cardinality(A) + Cardinality(B) - Cardinality(A \intersect B)
    BY <1>1, FS_Union
  <2>1. Cardinality(A \union B) = Cardinality(A) + Cardinality(B)
    <3>1. Cardinality(A \intersect B) = 0
      BY <1>4, FS_EmptySet
    <3>2. QED
      BY <1>1, <2>0, <3>1
  <2> USE DEF W
  <2>2. W[A \union B] = part * (Cardinality(A) + Cardinality(B))
    BY <2>1
  <2>3. QED
    BY <1>1, <2>2, Distributes
<1>5. Cardinality(Thread) = N
  BY FS_Interval, ThreadAssumption DEF Thread
<1>6. \A t \in Thread : W[{t}] = part
  BY FS_Singleton, Distributes
<1> HIDE DEF W
<1>7. Weighs(W, Thread)
  BY <1>2, <1>3, <1>4 DEF Weighs
<1>8. W[Thread] = part * N
  BY <1>5 DEF W
<1>9. QED
  BY <1>6, <1>7, <1>8 DEF W

\* The parts that threads apart have written add up to the part of the team.
LEMMA PartsTotal ==
  ASSUME TypeOK, Apart, "forced" \in Regions,
         NEW place \in [Thread -> PU], Settled(place), NEW part \in Nat,
         NEW field \in {"bytes", "flops", "n_threads"},
         Spread(field, Thread, place, part)
  PROVE  SumFunctionOnSet([n \in Node |-> Reduce(n)[field]], Node) = part * N
<1> DEFINE W == [A \in SUBSET Thread |-> part * Cardinality(A)]
<1>1. /\ Weighs(W, Thread) /\ W[Thread] = part * N
      /\ \A t \in Thread : W[{t}] = part
  BY EqualParts
<1> HIDE DEF W
<1>2. \A t, u \in Thread : place[t] = place[u] => t = u
  BY DEF Settled, Apart
<1>3. ASSUME NEW p \in PU
      PROVE  samples[p][field] = W[{t \in Thread : place[t] = p}]
  <2>1. CASE \E t \in Thread : place[t] = p
    <3>1. PICK t \in Thread : place[t] = p
      BY <2>1
    <3>2. {u \in Thread : place[u] = p} = {t}
      BY <1>2, <3>1
    <3>3. QED
      BY <1>1, <3>1, <3>2 DEF Spread
  <2>2. CASE ~ \E t \in Thread : place[t] = p
    <3>1. {u \in Thread : place[u] = p} = {}
      BY <2>2
    <3>2. QED
      BY <1>1, <2>2, <3>1 DEF Spread, Weighs
  <2>3. QED
    BY <2>1, <2>2
<1>4. Carries(field, W, Thread, place)
  BY <1>3 DEF Carries
<1>5. SumFunctionOnSet([n \in Node |-> Reduce(n)[field]], Node) = W[Thread]
  BY <1>1, <1>4, TotalCarried
<1>6. QED
  BY <1>1, <1>5

LEMMA ReportForced ==
  ASSUME OneCaller, Apart, MeasureInv, ForcedInv,
         NEW t \in Thread, Report(t), mode = "forced"
  PROVE  /\ arg'[t].bytes - TotalOf(LAMBDA l : l.bytes)' \in 0 .. N - 1
         /\ arg'[t].flops - TotalOf(LAMBDA l : l.flops)' \in 0 .. N - 1
<1>1. TypeOK /\ Placement /\ PhaseInv /\ "forced" \in Regions
  BY DEF MeasureInv, PhaseInv, Placement
<1>2. Counted = Thread /\ \A u \in Thread : pc[u] \notin {"bar0", "bytes", "flops"}
  <2>1. Counted = Thread /\ Unlocatable = {}
    BY <1>1, TeamCounted, TeamLocated DEF Report, Team
  <2>2. \A u \in Thread \ {t} : pc[u] \in {"idle", "bar2"}
    BY <1>1, <2>1, PhaseWipe DEF NoWipe, Report
  <2>3. QED
    BY <2>1, <2>2 DEF Report
<1>3. WroteBytes = Thread /\ WroteFlops = Thread
  BY <1>2 DEF WroteBytes, WroteFlops
<1>4. PICK place \in [Thread -> PU] :
        /\ Settled(place)
        /\ Spread("bytes", Thread, place, arg[0].bytes \div N)
        /\ Spread("flops", Thread, place, arg[0].flops \div N)
  BY <1>3 DEF ForcedInv
<1>5. 0 \in Thread /\ arg[0] \in Kernels /\ arg[t] = arg[0] /\ arg' = arg
  BY ThreadAssumption DEF Thread, ForcedInv, Announced, Report
<1>6. arg[0].bytes \in Nat /\ arg[0].flops \in Nat
  BY <1>5, UsageAssumption
<1> DEFINE bytes == arg[0].bytes \div N
           flops == arg[0].flops \div N
<1>7. /\ bytes \in Nat /\ arg[0].bytes - bytes * N \in 0 .. N - 1
      /\ flops \in Nat /\ arg[0].flops - flops * N \in 0 .. N - 1
  BY <1>6, ThreadAssumption, PartsFallShort
<1> HIDE DEF bytes, flops
<1>8. SumFunctionOnSet([n \in Node |-> Reduce(n)["bytes"]], Node) = bytes * N
  BY <1>1, <1>4, <1>7, PartsTotal DEF bytes
<1>9. SumFunctionOnSet([n \in Node |-> Reduce(n)["flops"]], Node) = flops * N
  BY <1>1, <1>4, <1>7, PartsTotal DEF flops
<1>10. /\ [n \in Node |-> out'[n].bytes] = [n \in Node |-> Reduce(n)["bytes"]]
       /\ [n \in Node |-> out'[n].flops] = [n \in Node |-> Reduce(n)["flops"]]
  BY DEF Report, Printed
<1>11. QED
  BY <1>5, <1>7, <1>8, <1>9, <1>10 DEF TotalOf

\* Whatever total the caller of a forced measure announces, what is printed is
\* the bytes and flops of that total, less at most one for each thread but the
\* first, when the threads cannot meet on a PU.
THEOREM ForcedTotalCorrect ==
  ASSUME OneCaller, Apart PROVE Spec => []ForcedTotal
<1>1. Init => ForcedTotal
  BY DEF Init, ForcedTotal
<1>2. MeasureInv /\ ForcedInv /\ ForcedTotal /\ [Next]_vars => ForcedTotal'
  <2> SUFFICES ASSUME MeasureInv, ForcedInv, ForcedTotal, [Next]_vars,
                      NEW t \in Thread, pc'[t] = "reset", mode' = "forced"
               PROVE  /\ arg'[t].bytes - TotalOf(LAMBDA l : l.bytes)' \in 0 .. N - 1
                      /\ arg'[t].flops - TotalOf(LAMBDA l : l.flops)' \in 0 .. N - 1
    BY DEF ForcedTotal
  <2>1. CASE Report(t)
    <3>1. mode = "forced"
      BY <2>1 DEF Report
    <3>2. QED
      BY <2>1, <3>1, ReportForced
  <2>2. CASE ~ Report(t)
    <3>1. pc[t] = "reset" /\ mode' = mode /\ out' = out /\ arg'[t] = arg[t]
      BY <2>2, WhileReset
    <3>2. /\ arg[t].bytes - TotalOf(LAMBDA l : l.bytes) \in 0 .. N - 1
          /\ arg[t].flops - TotalOf(LAMBDA l : l.flops) \in 0 .. N - 1
      BY <3>1 DEF ForcedTotal
    <3>3. QED
      BY <3>1, <3>2 DEF TotalOf
  <2>3. QED
    BY <2>1, <2>2
<1>3. QED
  BY InitMeasure, InitForced, MeasureStep, ForcedStep, <1>1, <1>2, PTL DEF Spec
=============================================================================
