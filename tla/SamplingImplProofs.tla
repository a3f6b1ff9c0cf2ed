------------------------- MODULE SamplingImplProofs -------------------------
(***************************************************************************)
(* The library implements SamplingService for every team, topology and     *)
(* kernel: what is printed is one line per node and measure.               *)
(***************************************************************************)
EXTENDS SamplingImpl, SamplingProofs

(***************************************************************************)
(* The service.  It is implemented when all threads are located, when no   *)
(* two threads of a region may meet on a PU and thread 0 of a forced call  *)
(* stays.                                                                  *)
(***************************************************************************)
Located == Unlocatable = {}

Disjoint ==
  Regions # {} =>
    \A t, u \in Thread : t # u => Affinity[t] \intersect Affinity[u] = {}

\* A thread that was looked up.
Seated == Labels \ {"idle", "lookup"}

HomeInv ==
  /\ mode \in Regions \union {"none"}
  /\ \A t \in Thread : pc[t] # "idle" => arg[t] \in Kernels
  /\ \A t \in Thread : pc[t] \in Seated => Owner(t) \in Affinity[t]

\* What a thread has written in the sample of its PU so far.
Filled(t) ==
  /\ samples[Owner(t)].n_threads = 1
  /\ pc[t] \notin {"bar0", "bytes"} => samples[Owner(t)].bytes = Share(t).bytes
  /\ pc[t] \notin {"bar0", "bytes", "flops"} =>
       samples[Owner(t)].flops = Share(t).flops
  /\ pc[t] \in {"bar1"} \union After => samples[Owner(t)].e_nano = now[t]

\* Nothing is left in a sample that no thread counts on.
Clear(p) ==
  /\ samples[p].n_threads = 0
  /\ samples[p].bytes = 0 /\ samples[p].flops = 0
  /\ samples[p].s_nano = 0 /\ samples[p].e_nano = 0

FillInv ==
  /\ \A t \in Counted : Filled(t)
  /\ \A p \in PU : (\A t \in Counted : Owner(t) # p) => Clear(p)

ServeInv == MeasureInv /\ CounterInv /\ HomeInv

LEMMA InitServe == Init => ServeInv /\ FillInv
<1> SUFFICES ASSUME Init PROVE ServeInv /\ FillInv
  OBVIOUS
<1>1. MeasureInv /\ CounterInv
  BY InitMeasure, InitCounter
<1>2. HomeInv
  BY DEF Init, HomeInv, Seated
<1>3. FillInv
  BY DEF Init, FillInv, Counted, During, Clear, NewSample
<1>4. QED
  BY <1>1, <1>2, <1>3 DEF ServeInv

\* From its lookup to its return a thread counts on one sample, between the two
\* regions of a forced call too.
LEMMA OwnerStays ==
  ASSUME Located, MasterPinned, ServeInv, [Next]_vars, NEW t \in Thread,
         pc[t] \in Seated, pc'[t] # "idle"
  PROVE  Owner(t)' = Owner(t) /\ pc'[t] \in Seated /\ mode' = mode /\ arg'[t] = arg[t]
<1> DEFINE Q == /\ Owner(t)' = Owner(t) /\ pc'[t] \in Seated
                /\ mode' = mode /\ arg'[t] = arg[t]
<1>1. /\ TypeOK /\ Placement /\ PhaseInv /\ HomeInv
      /\ lib = "on"
      /\ Placed(t) /\ t \notin Unlocatable
      /\ mode = "forced" => "forced" \in Regions
  <2>1. TypeOK /\ Placement /\ PhaseInv /\ HomeInv /\ pc[t] # "idle"
    BY DEF ServeInv, MeasureInv, CounterInv, Seated
  <2>2. lib # "off"
    BY <2>1 DEF Placement, AllIdle
  <2>3. QED
    BY <2>1, <2>2 DEF TypeOK, Placement, Located
<1>2. CASE UNCHANGED <<mode, pc, arg, handle, bindings>>
  BY <1>2 DEF Owner
<1>3. CASE SamplingInit
  BY <1>1, <1>3 DEF SamplingInit
<1>4. CASE EnterParallel \/ LeaveParallel
  BY <1>4 DEF EnterParallel, LeaveParallel, AllIdle, Seated
<1>5. ASSUME NEW k \in Kernels, StartForced(k) PROVE FALSE
  BY <1>5 DEF StartForced, AllIdle, Seated
<1>6. ASSUME NEW u \in Thread, NEW k \in Kernels, Start(u, k) PROVE Q
  <2>1. u # t
    BY <1>6 DEF Start, Seated
  <2>2. pc'[t] = pc[t] /\ arg'[t] = arg[t] /\ UNCHANGED <<mode, handle, bindings>>
    BY <1>1, <1>6, <2>1 DEF Start, TypeOK
  <2>3. QED
    BY <2>2 DEF Owner
<1>7. ASSUME NEW u \in Thread, u # t, Lookup(u) \/ Relook(u) PROVE Q
  <2>1. /\ pc'[t] = pc[t] /\ handle'[t] = handle[t] /\ arg' = arg /\ mode' = mode
        /\ mode = "forced" => bindings'[t] = bindings[t]
    BY <1>1, <1>7 DEF Lookup, Relook, Locate, TypeOK, Tid
  <2>2. QED
    BY <2>1 DEF Owner
<1>8. CASE Lookup(t)
  BY <1>8 DEF Lookup, Seated
<1>9. CASE Relook(t)
  <2>1. mode = "forced" /\ bindings[t] \in Affinity[t] /\ mode' = mode /\ arg' = arg
    BY <1>1, <1>9 DEF Relook, Placed
  <2>2. pc[t] = "relook" /\ pc'[t] = "time"
    BY <1>1, <1>9, <2>1 DEF Relook, TypeOK
  <2>3. handle'[t] = bindings[t]
    <3>1. CASE Tid(t) > 0
      BY <1>1, <1>9, <3>1 DEF Relook, TypeOK
    <3>2. CASE ~ (Tid(t) > 0)
      <4>1. t = 0
        BY <2>1, <3>2 DEF Tid, Thread
      <4>2. Locate(t)
        BY <1>1, <1>9, <3>2 DEF Relook
      <4>3. handle'[t] \in Affinity[t]
        BY <1>1, <4>2, LocatePlaces
      <4>4. QED
        BY <1>1, <2>1, <4>1, <4>3 DEF MasterPinned
    <3>3. QED
      BY <3>1, <3>2
  <2>4. QED
    BY <2>1, <2>2, <2>3 DEF Owner, Seated, Labels
<1>10. ASSUME NEW u \in Thread,
              \/ IncThreads(u) \/ SetBytes(u) \/ SetFlops(u) \/ IncLast(u)
              \/ Stamp(u) \/ Stop(u) \/ ReadTime(u) \/ DecLast(u) \/ EndStamp(u)
              \/ Report(u) \/ ResetAll(u)
       PROVE  Q
  <2>1. UNCHANGED <<mode, arg, handle, bindings>>
    BY <1>10
    DEF IncThreads, SetBytes, SetFlops, IncLast, Stamp, Stop, ReadTime, DecLast,
        EndStamp, Report, ResetAll
  <2>2. /\ pc'[t] = pc[t] \/ (pc'[t] \in Seated /\ pc'[t] # "open")
             \/ (mode # "forced" /\ pc'[t] = "open")
        /\ pc'[t] = "relook" /\ pc[t] # "relook" => mode # "forced"
        /\ pc'[t] # pc[t] /\ pc[t] \in {"open", "relook"} => mode # "forced"
    BY <1>1, <1>10
    DEF IncThreads, SetBytes, SetFlops, IncLast, Stamp, Stop, ReadTime, DecLast,
        EndStamp, Report, ResetAll, TypeOK, Seated, Labels, AfterStart
  <2>3. pc'[t] \in Seated
    BY <2>2 DEF Seated, Labels
  <2>4. QED
    BY <2>1, <2>2, <2>3 DEF Owner
<1>11. CASE JoinForced
  <2>1. pc[t] = "join" /\ pc'[t] = "open" /\ UNCHANGED <<mode, arg, bindings>>
    BY <1>11 DEF JoinForced, TeamAt, Move
  <2>2. mode = "forced" /\ bindings[t] = handle[t]
    BY <1>1, <2>1 DEF Placed, Started
  <2>3. QED
    BY <2>1, <2>2 DEF Owner, Seated, Labels
<1>12. CASE StopForced
  BY <1>12 DEF StopForced, TeamAt, Move, Owner, Seated, Labels
<1>13. ASSUME NEW u \in Thread, StartBarrier(Team(u)) \/ StopBarrier(Team(u))
       PROVE  Q
  <2>1. UNCHANGED <<mode, arg, handle, bindings>>
    BY <1>13 DEF StartBarrier, StopBarrier
  <2>2. \/ pc'[t] = pc[t]
        \/ pc[t] = "bar0" /\ pc'[t] = "bytes"
        \/ pc[t] = "bar1" /\ pc'[t] \in {"bar2", "report"}
    BY <1>13 DEF StartBarrier, StopBarrier, TeamAt, Move
  <2>3. QED
    BY <2>1, <2>2 DEF Owner, Seated, Labels
<1>14. ASSUME NEW u \in Thread, Return(Team(u)) PROVE Q
  <2>1. t \notin Team(u)
    BY <1>14 DEF Return, Move
  <2>2. /\ pc'[t] = pc[t] /\ arg'[t] = arg[t] /\ handle'[t] = handle[t]
        /\ mode = "none" /\ mode' = mode /\ bindings' = bindings
    BY <1>14, <2>1 DEF Return, Move, Team
  <2>3. QED
    BY <2>2 DEF Owner
<1>15. QED
  BY <1>2, <1>3, <1>4, <1>5, <1>6, <1>7, <1>8, <1>9, <1>10, <1>11, <1>12, <1>13, <1>14
  DEF Next, Library, User, Step, Together, vars, SamplingFini, Tick

\* How a thread comes to be looked up, and its arguments to be those of a call.
LEMMA Entering ==
  ASSUME TypeOK, [Next]_vars, NEW t \in Thread, pc[t] \in {"idle", "lookup"}
  PROVE  \/ pc'[t] = pc[t] /\ (pc[t] = "idle" \/ arg'[t] = arg[t])
         \/ pc'[t] = "lookup" /\ arg'[t] \in Kernels
         \/ Lookup(t)
<1> DEFINE Q == \/ pc'[t] = pc[t] /\ (pc[t] = "idle" \/ arg'[t] = arg[t])
                \/ pc'[t] = "lookup" /\ arg'[t] \in Kernels
                \/ Lookup(t)
<1>1. CASE UNCHANGED <<pc, arg>>
  BY <1>1
<1>2. CASE EnterParallel \/ LeaveParallel
  BY <1>2 DEF EnterParallel, LeaveParallel
<1>3. ASSUME NEW k \in Kernels, StartForced(k) PROVE Q
  BY <1>3 DEF StartForced, Move
<1>4. ASSUME NEW u \in Thread, NEW k \in Kernels, Start(u, k) PROVE Q
  BY <1>4 DEF Start, TypeOK
<1>5. CASE JoinForced \/ StopForced
  BY <1>5 DEF JoinForced, StopForced, TeamAt
<1>6. ASSUME NEW u \in Thread,
             \/ Lookup(u) \/ IncThreads(u) \/ SetBytes(u) \/ SetFlops(u)
             \/ IncLast(u) \/ Stamp(u) \/ Stop(u) \/ Relook(u) \/ ReadTime(u)
             \/ DecLast(u) \/ EndStamp(u) \/ Report(u) \/ ResetAll(u)
      PROVE  Q
  <2>1. CASE u = t
    BY <1>6, <2>1
    DEF IncThreads, SetBytes, SetFlops, IncLast, Stamp, Stop, Relook,
        ReadTime, DecLast, EndStamp, Report, ResetAll
  <2>2. CASE u # t
    BY <1>6, <2>2
    DEF TypeOK, Lookup, IncThreads, SetBytes, SetFlops, IncLast, Stamp, Stop, Relook,
        ReadTime, DecLast, EndStamp, Report, ResetAll
  <2>3. QED
    BY <2>1, <2>2
<1>7. ASSUME NEW u \in Thread, StartBarrier(Team(u)) \/ StopBarrier(Team(u))
      PROVE  Q
  <2>1. t \notin Team(u) /\ UNCHANGED arg
    BY <1>7 DEF StartBarrier, StopBarrier, TeamAt
  <2>2. pc'[t] = pc[t]
    BY <1>7, <2>1 DEF StartBarrier, StopBarrier, Move, Team
  <2>3. QED
    BY <2>1, <2>2
<1>8. ASSUME NEW u \in Thread, Return(Team(u)) PROVE Q
  BY <1>8 DEF Return, TeamAt, Move
<1>9. QED
  BY <1>1, <1>2, <1>3, <1>4, <1>5, <1>6, <1>7, <1>8
  DEF Next, Library, User, Step, Together, vars, SamplingInit, SamplingFini, Tick

\* A region is one of those in use.
LEMMA ModeStep ==
  ASSUME mode \in Regions \union {"none"}, [Next]_vars
  PROVE  mode' \in Regions \union {"none"}
<1>1. ASSUME NEW k \in Kernels, StartForced(k) PROVE mode' \in Regions
  BY <1>1 DEF StartForced
<1>2. QED
  BY <1>1
  DEF Next, Library, User, Step, Together, vars, SamplingInit, SamplingFini,
      EnterParallel, LeaveParallel, Tick, Start, Lookup, IncThreads, StartBarrier,
      SetBytes, SetFlops, IncLast, Stamp, JoinForced, Stop, StopForced, Relook,
      ReadTime, DecLast, EndStamp, StopBarrier, Report, ResetAll, Return

LEMMA HomeStep ==
  ASSUME Located, MasterPinned, ServeInv, [Next]_vars
  PROVE  HomeInv'
<1>1. TypeOK /\ TypeOK' /\ HomeInv
  BY StepType DEF ServeInv, CounterInv
<1>2. mode' \in Regions \union {"none"}
  BY <1>1, ModeStep DEF HomeInv
<1>3. ASSUME NEW t \in Thread, pc'[t] # "idle"
      PROVE  arg'[t] \in Kernels /\ (pc'[t] \in Seated => Owner(t)' \in Affinity[t])
  <2>1. CASE pc[t] \in Seated
    BY <1>1, <1>3, <2>1, OwnerStays DEF HomeInv, Seated
  <2>2. CASE pc[t] \in {"idle", "lookup"}
    <3>1. CASE Lookup(t)
      <4>1. /\ pc[t] = "lookup" /\ Locate(t) /\ pc'[t] = "inc" /\ arg' = arg
        BY <1>1, <3>1 DEF Lookup, Located, TypeOK
      <4>2. Owner(t)' \in Affinity[t]
        BY <1>1, <4>1, LocatePlaces DEF Owner
      <4>3. QED
        BY <1>1, <4>1, <4>2 DEF HomeInv
    <3>2. CASE ~ Lookup(t)
      BY <1>1, <1>3, <2>2, <3>2, Entering DEF HomeInv, Seated
    <3>3. QED
      BY <3>1, <3>2
  <2>3. QED
    BY <1>1, <2>1, <2>2 DEF TypeOK, Seated
<1>4. QED
  BY <1>2, <1>3 DEF HomeInv, Seated

LEMMA ServeStep ==
  ASSUME OneCaller, Located, MasterPinned, ServeInv, [Next]_vars
  PROVE  ServeInv'
<1>1. MeasureInv' /\ HomeInv'
  BY MeasureStep, HomeStep DEF ServeInv
<1>2. CounterInv'
  BY StepType, PlacementStep, CounterStep DEF ServeInv, CounterInv
<1>3. QED
  BY <1>1, <1>2 DEF ServeInv

\* All the threads have a sample, so one caller is alone outside of a region, and
\* nobody is in a measure when one thread resets the samples.
LEMMA AloneHere ==
  ASSUME OneCaller, Located, PhaseInv, mode = "none",
         NEW t \in Thread, pc[t] # "idle"
  PROVE  \A u \in Thread \ {t} : pc[u] = "idle"
BY AloneIdle DEF Located

LEMMA NoneElse ==
  ASSUME OneCaller, Located, PhaseInv,
         NEW t \in Thread, pc[t] \in {"report", "reset"}
  PROVE  \A u \in Thread \ {t} : pc[u] \in {"idle", "bar2"}
BY PhaseWipe DEF NoWipe, Located

\* No two threads count on a PU.
LEMMA OneOwner ==
  ASSUME OneCaller, Disjoint, Located, ServeInv,
         NEW t \in Thread, NEW u \in Thread,
         pc[t] \in Seated, pc[u] \in Seated, Owner(t) = Owner(u)
  PROVE  t = u
<1>1. HomeInv /\ PhaseInv
  BY DEF ServeInv, MeasureInv
<1>2. Owner(t) \in Affinity[t] \intersect Affinity[u]
  BY <1>1 DEF HomeInv
<1>3. CASE mode = "none"
  BY <1>1, <1>3, AloneHere DEF Seated
<1>4. CASE mode # "none"
  BY <1>1, <1>2, <1>4 DEF HomeInv, Disjoint
<1>5. QED
  BY <1>3, <1>4

\* The PU of a thread, and that its counter is that of the one thread.
LEMMA OwnCounter ==
  ASSUME OneCaller, Disjoint, Located, ServeInv, NEW t \in Thread
  PROVE  /\ pc[t] \in Seated => Owner(t) \in PU
         /\ pc[t] \in Held => Owner(t) = handle[t]
         /\ pc[t] = "first" => samples[handle[t]].last_thread = 0
         /\ pc[t] = "dec" => samples[handle[t]].last_thread = 1
<1>1. HomeInv /\ PhaseInv /\ CounterInv /\ TypeOK
  BY DEF ServeInv, MeasureInv, CounterInv
<1>2. pc[t] \in Seated => Owner(t) \in PU
  BY <1>1, BindingAssumption DEF HomeInv
<1>3. pc[t] \in Held => Owner(t) = handle[t]
  BY DEF Held, Owner
<1>4. pc[t] # "idle" => lib = "on"
  BY <1>1 DEF CounterInv, Placement, AllIdle, TypeOK
<1>5. ASSUME pc[t] = "first" PROVE samples[handle[t]].last_thread = 0
  <2>1. pc[t] \in Seated /\ pc[t] \in Held /\ pc[t] \notin Counting
    BY <1>5 DEF Seated, Labels, Held, Counting
  <2>2. Holders(handle[t]) = {}
    <3>1. \A u \in Thread : pc[u] \in Counting => pc[u] \in Seated
      BY DEF Counting, Seated, Labels
    <3>2. QED
      BY <1>3, <2>1, <3>1, OneOwner DEF Holders
  <2>3. samples[handle[t]].last_thread = Cardinality(Holders(handle[t]))
    BY <1>1, <1>2, <1>3, <1>4, <2>1 DEF CounterInv, CounterExact, Seated
  <2>4. QED
    BY <2>2, <2>3, FS_EmptySet
<1>6. ASSUME pc[t] = "dec" PROVE samples[handle[t]].last_thread = 1
  <2>1. pc[t] \in Seated /\ pc[t] \in Held /\ pc[t] \in Counting
    BY <1>6 DEF Seated, Labels, Held, Counting
  <2>2. Holders(handle[t]) = {t}
    <3>1. \A u \in Thread : pc[u] \in Counting => pc[u] \in Seated
      BY DEF Counting, Seated, Labels
    <3>2. QED
      BY <1>3, <2>1, <3>1, OneOwner DEF Holders, Located
  <2>3. samples[handle[t]].last_thread = Cardinality(Holders(handle[t]))
    BY <1>1, <1>2, <1>3, <1>4, <2>1 DEF CounterInv, CounterExact, Seated
  <2>4. QED
    BY <2>2, <2>3, FS_Singleton
<1>7. QED
  BY <1>2, <1>3, <1>5, <1>6

(***************************************************************************)
(* What the samples hold                                                   *)
(***************************************************************************)
LEMMA CountedSeated ==
  ASSUME NEW t \in Counted
  PROVE  t \in Thread /\ pc[t] \in Seated /\ pc[t] # "inc"
BY DEF Counted, During, Seated, Labels

Ended == {"bar1"} \union After

\* A thread ends its measure when it has stopped the timer, with the time it read.
LEMMA EndsStep ==
  ASSUME OneCaller, Disjoint, Located, ServeInv, [Next]_vars,
         NEW t \in Thread, pc'[t] \in Ended
  PROVE  now'[t] = now[t] /\ (pc[t] \in Ended \/ EndStamp(t))
<1> DEFINE Q == now'[t] = now[t] /\ (pc[t] \in Ended \/ EndStamp(t))
<1>1. TypeOK /\ Placement
  BY DEF ServeInv, CounterInv
<1>2. CASE UNCHANGED <<pc, now>>
  BY <1>2
<1>3. ASSUME NEW k \in Kernels, StartForced(k) PROVE FALSE
  BY <1>3 DEF StartForced, Move, Ended, After
<1>4. ASSUME NEW u \in Thread, NEW k \in Kernels, Start(u, k) PROVE Q
  BY <1>1, <1>4 DEF Start, TypeOK, Ended, After
<1>5. CASE JoinForced \/ StopForced
  BY <1>5 DEF JoinForced, StopForced, Move, Ended, After
<1>6. ASSUME NEW u \in Thread, u # t,
             \/ Lookup(u) \/ IncThreads(u) \/ SetBytes(u) \/ SetFlops(u)
             \/ IncLast(u) \/ Stamp(u) \/ Stop(u) \/ Relook(u) \/ ReadTime(u)
             \/ DecLast(u) \/ EndStamp(u) \/ Report(u) \/ ResetAll(u)
      PROVE  Q
  <2>1. pc'[t] = pc[t]
    BY <1>1, <1>6
    DEF TypeOK, Lookup, IncThreads, SetBytes, SetFlops, IncLast, Stamp, Stop,
        Relook, ReadTime, DecLast, EndStamp, Report, ResetAll
  <2>2. now'[t] = now[t]
    BY <1>1, <1>6
    DEF TypeOK, Lookup, IncThreads, SetBytes, SetFlops, IncLast, Stamp, Stop,
        Relook, ReadTime, DecLast, EndStamp, Report, ResetAll
  <2>3. QED
    BY <2>1, <2>2
<1>7. CASE Lookup(t) \/ IncThreads(t) \/ SetBytes(t) \/ SetFlops(t)
             \/ IncLast(t) \/ Stamp(t) \/ Stop(t) \/ ReadTime(t)
  <2>1. pc'[t] \in Labels \ Ended
    BY <1>1, <1>7
    DEF TypeOK, Lookup, IncThreads, SetBytes, SetFlops, IncLast, Stamp, Stop,
        ReadTime, AfterStart, Labels, Ended, After
  <2>2. QED
    BY <2>1
<1>8. CASE Relook(t)
  <2>1. pc'[t] = "time"
    BY <1>1, <1>8 DEF Relook, TypeOK, Located
  <2>2. QED
    BY <2>1 DEF Ended, After
<1>9. CASE DecLast(t)
  <2>1. pc[t] = "dec" /\ samples[handle[t]].last_thread = 1
    BY <1>9, OwnCounter DEF DecLast
  <2>2. pc'[t] = "estamp"
    BY <1>1, <1>9, <2>1 DEF DecLast, TypeOK
  <2>3. QED
    BY <2>2 DEF Ended, After
<1>10. CASE EndStamp(t) \/ Report(t) \/ ResetAll(t)
  BY <1>10 DEF EndStamp, Report, ResetAll, Ended, After
<1>11. ASSUME NEW u \in Thread, StartBarrier(Team(u)) \/ StopBarrier(Team(u))
       PROVE  Q
  <2>1. UNCHANGED now
    BY <1>11 DEF StartBarrier, StopBarrier
  <2>2. pc'[t] = pc[t] \/ pc[t] \in Ended \/ pc'[t] = "bytes"
    BY <1>11 DEF StartBarrier, StopBarrier, TeamAt, Move, Ended
  <2>3. QED
    BY <2>1, <2>2 DEF Ended, After
<1>12. ASSUME NEW u \in Thread, Return(Team(u)) PROVE Q
  <2>1. t \notin Team(u) /\ pc'[t] = pc[t] /\ now'[t] = now[t]
    BY <1>12 DEF Return, Move, Ended, After
  <2>2. QED
    BY <2>1
<1>13. QED
  BY <1>2, <1>3, <1>4, <1>5, <1>6, <1>7, <1>8, <1>9, <1>10, <1>11, <1>12
  DEF Next, Library, User, Step, Together, vars, SamplingInit, SamplingFini, Tick,
      EnterParallel, LeaveParallel

LEMMA AllClear ==
  ASSUME Counted' = {}, \A p \in PU : Clear(p)'
  PROVE  FillInv'
BY DEF FillInv

\* A thread joins a sample that is clear, as no other counts there.
LEMMA FillIncrement ==
  ASSUME OneCaller, Disjoint, Located, MasterPinned, ServeInv, FillInv,
         [Next]_vars, NEW t \in Thread, IncThreads(t)
  PROVE  FillInv'
<1>1. TypeOK /\ Placement
  BY DEF ServeInv, CounterInv
<1>2. t \notin Counted /\ Counted' = Counted \union {t}
  BY <1>1, CountJoins
<1>3. /\ pc[t] = "inc" /\ pc'[t] = "bar0"
      /\ \A u \in Thread \ {t} : pc'[u] = pc[u]
      /\ UNCHANGED <<mode, arg, now, handle, bindings>>
  BY <1>1 DEF IncThreads, TypeOK
<1>4. pc[t] \in Seated /\ Owner(t) = handle[t] /\ handle[t] \in PU
  BY <1>3, OwnCounter DEF Seated, Labels, Held
<1>5. ASSUME NEW p \in PU, p # handle[t] PROVE samples'[p] = samples[p]
  BY <1>1, <1>5 DEF IncThreads, TypeOK
<1>6. ASSUME NEW u \in Counted PROVE Filled(u)'
  <2>1. u \in Thread /\ u # t /\ pc[u] \in Seated
    BY <1>2, <1>6, CountedSeated
  <2>2. Owner(u) # handle[t] /\ Owner(u) \in PU
    BY <1>4, <2>1, OneOwner, OwnCounter
  <2>3. Owner(u)' = Owner(u) /\ Share(u)' = Share(u)
    BY <1>3, <2>1 DEF Owner, Share
  <2>4. samples'[Owner(u)] = samples[Owner(u)] /\ pc'[u] = pc[u]
    BY <1>3, <1>5, <2>1, <2>2
  <2>5. Filled(u)
    BY DEF FillInv
  <2>6. QED
    BY <1>3, <2>3, <2>4, <2>5 DEF Filled
<1>7. Filled(t)'
  <2>1. \A u \in Counted : Owner(u) # handle[t]
    BY <1>2, <1>4, OneOwner, CountedSeated
  <2>2. samples[handle[t]].n_threads = 0
    BY <1>4, <2>1 DEF FillInv, Clear
  <2>3. samples'[handle[t]].n_threads = 1
    BY <1>1, <1>4, <2>2 DEF IncThreads, TypeOK, Sample
  <2>4. Owner(t)' = handle[t]
    BY <1>3 DEF Owner
  <2>5. QED
    BY <1>3, <2>3, <2>4 DEF Filled, After
<1>8. ASSUME NEW p \in PU, \A u \in Counted' : Owner(u)' # p PROVE Clear(p)'
  <2>1. p # handle[t]
    BY <1>2, <1>3, <1>8 DEF Owner
  <2>2. \A u \in Counted : Owner(u) # p
    BY <1>2, <1>3, <1>8, CountedSeated DEF Owner
  <2>3. Clear(p)
    BY <2>2 DEF FillInv
  <2>4. QED
    BY <1>5, <2>1, <2>3 DEF Clear
<1>9. QED
  BY <1>2, <1>6, <1>7, <1>8 DEF FillInv

\* The fields that a thread has to write are those of the PU it counts on.
LEMMA FillKept ==
  ASSUME OneCaller, Disjoint, Located, MasterPinned, ServeInv, FillInv,
         [Next]_vars, ~ SamplingInit,
         ~ \E t \in Thread : IncThreads(t) \/ ResetAll(t)
  PROVE  FillInv'
<1>1. TypeOK /\ Placement
  BY DEF ServeInv, CounterInv
<1>2. Counted' = Counted /\ \A t \in Counted : Onward(t)
  BY CountedStep DEF ServeInv
<1>3. ASSUME NEW t \in Counted
      PROVE  /\ t \in Thread /\ pc[t] \in Seated
             /\ Owner(t) \in PU /\ Owner(t)' = Owner(t) /\ Share(t)' = Share(t)
  <2>1. t \in Thread /\ pc[t] \in Seated /\ pc'[t] # "idle"
    <3>1. t \in Counted' /\ t \in Thread
      BY <1>2, <1>3, CountedSeated
    <3>2. pc'[t] # "idle"
      BY <3>1 DEF Counted, During
    <3>3. QED
      BY <3>1, <3>2, <1>3, CountedSeated
  <2>2. Owner(t)' = Owner(t) /\ mode' = mode /\ arg'[t] = arg[t]
    BY <2>1, OwnerStays
  <2>3. QED
    BY <2>1, <2>2, OwnCounter DEF Share
<1>4. ASSUME NEW u \in Thread, SetBytes(u) \/ SetFlops(u) \/ Stamp(u) \/ EndStamp(u)
      PROVE  u \in Counted /\ Owner(u) = handle[u]
  <2>1. pc[u] \in {"bytes", "flops", "stamp", "estamp"}
    BY <1>4 DEF SetBytes, SetFlops, Stamp, EndStamp
  <2>2. QED
    BY <2>1, OwnCounter DEF Counted, During, Located, Held
<1>5. ASSUME NEW t \in Counted, NEW u \in Thread,
             SetBytes(u) \/ SetFlops(u) \/ Stamp(u) \/ EndStamp(u),
             handle[u] = Owner(t)
      PROVE  u = t
  BY <1>3, <1>4, <1>5, OneOwner
<1>6. ASSUME NEW t \in Counted PROVE Filled(t)'
  <2> DEFINE p == Owner(t)
  <2>1. Filled(t) /\ t \in Thread /\ p \in PU
    BY <1>3 DEF FillInv
  <2>2. samples'[p].n_threads = 1
    <3>1. samples'[p].n_threads = samples[p].n_threads
      BY <1>1, <1>3, SamplesStep
    <3>2. QED
      BY <2>1, <3>1 DEF Filled
  <2>3. ASSUME pc'[t] \notin {"bar0", "bytes"}
        PROVE  samples'[p].bytes = Share(t).bytes
    <3>1. CASE SetBytes(t)
      <4>1. handle[t] = p
        BY <1>4, <2>1, <3>1
      <4> HIDE DEF p
      <4>2. QED
        BY <1>1, <2>1, <3>1, <4>1 DEF SetBytes, TypeOK, Sample
    <3>2. CASE ~ SetBytes(t)
      <4>1. samples'[p].bytes = samples[p].bytes
        BY <1>1, <1>5, <2>1, <3>2, SamplesStep
      <4>2. pc[t] \notin {"bar0", "bytes"}
        BY <1>2, <2>3, <3>2 DEF Onward, SetFlops, Written, During
      <4>3. QED
        BY <2>1, <4>1, <4>2 DEF Filled
    <3>3. QED
      BY <3>1, <3>2
  <2>4. ASSUME pc'[t] \notin {"bar0", "bytes", "flops"}
        PROVE  samples'[p].flops = Share(t).flops
    <3>1. CASE SetFlops(t)
      <4>1. handle[t] = p
        BY <1>4, <2>1, <3>1
      <4> HIDE DEF p
      <4>2. QED
        BY <1>1, <2>1, <3>1, <4>1 DEF SetFlops, TypeOK, Sample
    <3>2. CASE ~ SetFlops(t)
      <4>1. samples'[p].flops = samples[p].flops
        BY <1>1, <1>5, <2>1, <3>2, SamplesStep
      <4>2. SetBytes(t) => pc'[t] = "flops"
        BY <1>1, <2>1 DEF SetBytes, TypeOK
      <4>3. pc[t] \notin {"bar0", "bytes", "flops"}
        BY <1>2, <2>4, <3>2, <4>2 DEF Onward, Written, During
      <4>4. QED
        BY <2>1, <4>1, <4>3 DEF Filled
    <3>3. QED
      BY <3>1, <3>2
  <2>5. ASSUME pc'[t] \in Ended PROVE samples'[p].e_nano = now'[t]
    <3>1. now'[t] = now[t] /\ (pc[t] \in Ended \/ EndStamp(t))
      BY <2>1, <2>5, EndsStep
    <3>2. CASE EndStamp(t)
      <4>1. handle[t] = p
        BY <1>4, <2>1, <3>2
      <4> HIDE DEF p
      <4>2. QED
        BY <1>1, <2>1, <3>1, <3>2, <4>1 DEF EndStamp, TypeOK, Sample
    <3>3. CASE ~ EndStamp(t)
      <4>1. samples'[p].e_nano = samples[p].e_nano
        BY <1>1, <1>5, <2>1, <3>3, SamplesStep
      <4>2. QED
        BY <2>1, <3>1, <3>3, <4>1 DEF Filled, Ended
    <3>4. QED
      BY <3>2, <3>3
  <2>6. QED
    BY <1>3, <2>2, <2>3, <2>4, <2>5 DEF Filled, Ended
<1>7. ASSUME NEW p \in PU, \A t \in Counted' : Owner(t)' # p PROVE Clear(p)'
  <2>1. \A t \in Counted : Owner(t) # p
    BY <1>2, <1>3, <1>7
  <2>2. \A u \in Thread :
          SetBytes(u) \/ SetFlops(u) \/ Stamp(u) \/ EndStamp(u) => handle[u] # p
    BY <1>4, <2>1
  <2>3. Clear(p)
    BY <2>1 DEF FillInv
  <2>4. QED
    BY <1>1, <2>2, <2>3, SamplesStep DEF Clear
<1>8. QED
  BY <1>2, <1>6, <1>7 DEF FillInv

LEMMA FillStep ==
  ASSUME OneCaller, Disjoint, Located, MasterPinned, ServeInv, FillInv, [Next]_vars
  PROVE  FillInv'
<1>1. TypeOK /\ Placement /\ MeasureInv
  BY DEF ServeInv, CounterInv
<1>2. CASE SamplingInit
  <2>1. \A p \in PU : Clear(p)'
    BY <1>2 DEF SamplingInit, Clear, NewSample
  <2>2. QED
    BY <1>1, <1>2, <2>1, OpeningEmpties, AllClear
<1>3. ASSUME NEW t \in Thread, ResetAll(t) PROVE FillInv'
  <2>1. ASSUME NEW p \in PU PROVE Clear(p)'
    <3>1. samples[p] \in Sample /\ samples'[p] = ResetSample(samples[p])
      BY <1>1, <1>3 DEF TypeOK, ResetAll
    <3>2. QED
      BY <3>1 DEF Clear, ResetSample, Sample
  <2>2. QED
    BY <1>1, <1>3, <2>1, ResetEmpties, AllClear
<1>4. ASSUME NEW t \in Thread, IncThreads(t) PROVE FillInv'
  BY <1>4, FillIncrement
<1>5. QED
  BY <1>2, <1>3, <1>4, FillKept

(***************************************************************************)
(* Sums and greatest elements over the threads below a node                *)
(***************************************************************************)
\* A way to add f up over the parts of T.
Adds(W, T, f) == Weighs(W, T) /\ \A t \in T : W[{t}] = f[t]

\* Sums of the same function over parts of a set, all taken in the order of the
\* whole, add up.
LEMMA PartSums ==
  ASSUME NEW T, IsFiniteSet(T), NEW f, \A x \in T : f[x] \in Nat
  PROVE  \E W : Adds(W, T, f)
<1> DEFINE part(A) == [x \in T |-> IF x \in A THEN f[x] ELSE 0]
           W == [A \in SUBSET T |-> SumFunctionOnSet(part(A), T)]
           choose == [s \in SUBSET T |-> CHOOSE x \in s : TRUE]
           Sums(h, A) ==
             /\ h[{}] = 0
             /\ \A s \in SUBSET T : s # {} =>
                  h[s] = (IF choose[s] \in A THEN f[choose[s]] ELSE 0)
                           + h[s \ {choose[s]}]
             /\ h[T] = W[A]
<1>1. \A s \in SUBSET T : s # {} => choose[s] \in s
  OBVIOUS
<1>2. ASSUME NEW A \in SUBSET T
      PROVE  \E h \in [SUBSET T -> Nat] : Sums(h, A)
  <2> DEFINE g == part(A)
  <2>1. \A x \in T : g[x] \in Nat /\ g[x] = IF x \in A THEN f[x] ELSE 0
    OBVIOUS
  <2>2. SumFunctionOnSet(g, T) = W[A]
    OBVIOUS
  <2> HIDE DEF g, W
  <2>3. PICK h \in [SUBSET T -> Nat] :
          /\ h[{}] = 0
          /\ \A s \in SUBSET T : s # {} =>
               LET x == CHOOSE x \in s : TRUE
               IN  x \in s /\ h[s] = g[x] + h[s \ {x}]
          /\ h[T] = SumFunctionOnSet(g, T)
    BY <2>1, SumFold
  <2>4. ASSUME NEW s \in SUBSET T, s # {}
        PROVE  h[s] = (IF choose[s] \in A THEN f[choose[s]] ELSE 0)
                        + h[s \ {choose[s]}]
    <3>1. PICK m \in T : m = choose[s] /\ m = CHOOSE x \in s : TRUE
      BY <1>1, <2>4
    <3> HIDE DEF choose
    <3>2. h[s] = g[m] + h[s \ {m}]
      BY <2>3, <2>4, <3>1
    <3>3. QED
      BY <2>1, <3>1, <3>2
  <2>5. QED
    BY <2>2, <2>3, <2>4
<1>3. ASSUME NEW A \in SUBSET T, NEW B \in SUBSET T, A \intersect B = {}
      PROVE  W[A \union B] = W[A] + W[B]
  <2>1. PICK a \in [SUBSET T -> Nat] : Sums(a, A)
    BY <1>2
  <2>2. PICK b \in [SUBSET T -> Nat] : Sums(b, B)
    BY <1>2
  <2>3. PICK c \in [SUBSET T -> Nat] : Sums(c, A \union B)
    BY <1>2
  <2> DEFINE G == {s \in SUBSET T : c[s] = a[s] + b[s]}
  <2>4. {} \in G
    BY <2>1, <2>2, <2>3
  <2>5. \A s \in SUBSET T : s # {} /\ s \ {choose[s]} \in G => s \in G
    <3> SUFFICES ASSUME NEW s \in SUBSET T, s # {},
                        c[s \ {choose[s]}] = a[s \ {choose[s]}] + b[s \ {choose[s]}]
                 PROVE  c[s] = a[s] + b[s]
      OBVIOUS
    <3>1. PICK m \in T : m = choose[s]
      BY <1>1
    <3>2. /\ a[s] = (IF m \in A THEN f[m] ELSE 0) + a[s \ {m}]
          /\ b[s] = (IF m \in B THEN f[m] ELSE 0) + b[s \ {m}]
          /\ c[s] = (IF m \in A \union B THEN f[m] ELSE 0) + c[s \ {m}]
      BY <2>1, <2>2, <2>3, <3>1
    <3>3. f[m] \in Nat /\ a[s \ {m}] \in Nat /\ b[s \ {m}] \in Nat
      OBVIOUS
    <3>4. c[s \ {m}] = a[s \ {m}] + b[s \ {m}]
      BY <3>1
    <3> HIDE DEF Sums, choose, W, G
    <3>5. QED
      BY <1>3, <3>2, <3>3, <3>4
  <2>6. T \in G
    <3> HIDE DEF G, choose, Sums
    <3>1. Inductive(T, choose, G)
      BY <1>1, <2>4, <2>5 DEF Inductive
    <3>2. QED
      BY <3>1, SubsetInduction
  <2>7. QED
    BY <2>1, <2>2, <2>3, <2>6
<1>4. W[{}] = 0
  <2>1. PICK h \in [SUBSET T -> Nat] : Sums(h, {})
    BY <1>2
  <2> DEFINE G == {s \in SUBSET T : h[s] = 0}
  <2>2. {} \in G
    BY <2>1
  <2>3. \A s \in SUBSET T : s # {} /\ s \ {choose[s]} \in G => s \in G
    BY <2>1
  <2>4. T \in G
    <3> HIDE DEF G, choose, Sums
    <3>1. Inductive(T, choose, G)
      BY <1>1, <2>2, <2>3 DEF Inductive
    <3>2. QED
      BY <3>1, SubsetInduction
  <2>5. QED
    BY <2>1, <2>4
<1>5. ASSUME NEW t \in T PROVE W[{t}] = f[t]
  <2>1. PICK h \in [SUBSET T -> Nat] : Sums(h, {t})
    BY <1>2, ZenonT(30)
  <2> DEFINE G == {s \in SUBSET T : h[s] = IF t \in s THEN f[t] ELSE 0}
  <2>2. {} \in G
    BY <2>1
  <2>3. \A s \in SUBSET T : s # {} /\ s \ {choose[s]} \in G => s \in G
    <3> SUFFICES ASSUME NEW s \in SUBSET T, s # {},
                        h[s \ {choose[s]}]
                          = IF t \in s \ {choose[s]} THEN f[t] ELSE 0
                 PROVE  h[s] = IF t \in s THEN f[t] ELSE 0
      OBVIOUS
    <3>1. PICK m \in T : m = choose[s] /\ m \in s
      BY <1>1
    <3>2. h[s] = (IF m \in {t} THEN f[m] ELSE 0) + h[s \ {m}]
      BY <2>1, <3>1
    <3>3. h[s \ {m}] = IF t \in s \ {m} THEN f[t] ELSE 0
      BY <3>1
    <3>4. f[t] \in Nat
      OBVIOUS
    <3> HIDE DEF Sums, choose, W, G
    <3>5. QED
      BY <3>1, <3>2, <3>3, <3>4
  <2>4. T \in G
    <3> HIDE DEF G, choose, Sums
    <3>1. Inductive(T, choose, G)
      BY <1>1, <2>2, <2>3 DEF Inductive
    <3>2. QED
      BY <3>1, SubsetInduction
  <2>5. QED
    BY <2>1, <2>4
<1>6. W \in [SUBSET T -> Nat]
  <2>1. \A A \in SUBSET T : W[A] \in Nat
    <3> SUFFICES ASSUME NEW A \in SUBSET T PROVE W[A] \in Nat
      OBVIOUS
    <3>1. PICK h \in [SUBSET T -> Nat] : Sums(h, A)
      BY <1>2
    <3>2. QED
      BY <3>1
  <2>2. QED
    BY <2>1
<1> HIDE DEF W
<1>7. Weighs(W, T)
  BY <1>3, <1>4, <1>6 DEF Weighs
<1>8. QED
  BY <1>5, <1>7 DEF Adds

\* So do the sums over the parts, each in its own order.
LEMMA SumsWeigh ==
  ASSUME NEW T, IsFiniteSet(T), NEW f, \A x \in T : f[x] \in Nat
  PROVE  \E W : /\ Adds(W, T, f)
                /\ \A A \in SUBSET T : W[A] = SumFunctionOnSet(f, A)
<1>1. PICK W : Adds(W, T, f)
  BY PartSums
<1>2. ASSUME NEW A \in SUBSET T PROVE SumFunctionOnSet(f, A) = W[A]
  <2> DEFINE V == [B \in SUBSET A |-> W[B]]
             same == [x \in A |-> x]
  <2>1. Weighs(V, A)
    BY <1>1 DEF Adds, Weighs
  <2>2. same \in [A -> A] /\ IsFiniteSet(A)
    BY FS_Subset
  <2>3. \A n \in A : f[n] = V[{t \in A : same[t] = n}]
    <3> SUFFICES ASSUME NEW n \in A PROVE f[n] = V[{t \in A : same[t] = n}]
      OBVIOUS
    <3>1. {t \in A : same[t] = n} = {n}
      OBVIOUS
    <3>2. V[{n}] = f[n]
      BY <1>1 DEF Adds
    <3>3. QED
      BY <3>1, <3>2
  <2>4. V[A] = W[A]
    OBVIOUS
  <2> HIDE DEF V, same
  <2>5. QED
    BY <2>1, <2>2, <2>3, <2>4, FibresTotal
<1>3. QED
  BY <1>1, <1>2

LEMMA MaxIs ==
  ASSUME NEW S \in SUBSET Int, NEW m \in S, \A x \in S : m >= x
  PROVE  Max(S) = m
<1>1. \A y \in S : (\A x \in S : y >= x) => y = m
  OBVIOUS
<1>2. QED
  BY <1>1 DEF Max

(***************************************************************************)
(* What the service sees                                                   *)
(***************************************************************************)
CountingAt == {"join", "open", "relook", "time"}
StoppedAt == {"dec", "estamp", "bar1", "report"}

LEMMA PhaseIs ==
  ASSUME NEW t \in Thread
  PROVE  /\ PhaseOf(t) =
              IF pc[t] \in CountingAt THEN "counting"
              ELSE IF pc[t] \in StoppedAt \/ (pc[t] = "bar2" /\ Unprinted)
                     THEN "stopped"
              ELSE IF pc[t] \in {"reset", "bar2"} THEN "done" ELSE "idle"
         /\ PhaseOf(t)' =
              IF pc'[t] \in CountingAt THEN "counting"
              ELSE IF pc'[t] \in StoppedAt \/ (pc'[t] = "bar2" /\ Unprinted')
                     THEN "stopped"
              ELSE IF pc'[t] \in {"reset", "bar2"} THEN "done" ELSE "idle"
BY DEF PhaseOf, CountingAt, StoppedAt

\* The stamp of a thread stays until the reset.
LEMMA StampStays ==
  ASSUME OneCaller, Disjoint, Located, ServeInv, [Next]_vars,
         NEW t \in Thread, pc[t] \in Seated, pc[t] # "stamp",
         ~ \E u \in Thread : ResetAll(u)
  PROVE  samples'[Owner(t)].s_nano = samples[Owner(t)].s_nano
<1>1. TypeOK /\ lib = "on" /\ Owner(t) \in PU
  BY OwnCounter DEF ServeInv, CounterInv, TypeOK, Placement, AllIdle, Seated
<1>2. ~ SamplingInit
  BY <1>1 DEF SamplingInit
<1>3. ASSUME NEW u \in Thread, Stamp(u), handle[u] = Owner(t) PROVE FALSE
  <2>1. pc[u] = "stamp" /\ pc[u] \in Seated /\ Owner(u) = handle[u]
    BY <1>3, OwnCounter DEF Stamp, Seated, Labels, Held
  <2>2. QED
    BY <1>3, <2>1, OneOwner
<1>4. QED
  BY <1>1, <1>2, <1>3, SamplesStep

\* During a reset the threads are through with their measure.
LEMMA WhileResetting ==
  ASSUME OneCaller, Located, ServeInv, NEW t \in Thread, pc[t] = "reset",
         NEW u \in Thread
  PROVE  PhaseOf(u) \in {"idle", "done"} /\ ~ Unprinted
<1>1. PhaseInv
  BY DEF ServeInv, MeasureInv
<1>2. \A v \in Thread \ {t} : pc[v] \in {"idle", "bar2"}
  BY <1>1, NoneElse
<1>3. ~ Unprinted
  BY <1>2 DEF Unprinted
<1>4. QED
  BY <1>2, <1>3, PhaseIs DEF CountingAt, StoppedAt

\* A thread of which nothing is seen to change.
LEMMA Unseen ==
  ASSUME OneCaller, Disjoint, Located, MasterPinned, ServeInv, [Next]_vars,
         NEW t \in Thread, PhaseOf(t)' = PhaseOf(t),
         PhaseOf(t) = "counting" => clock'[t] = clock[t],
         PhaseOf(t) = "stopped" => now'[t] = now[t]
  PROVE  /\ PlaceOf(t)' = PlaceOf(t) /\ JobOf(t)' = JobOf(t)
         /\ SpentOf(t)' = SpentOf(t)
<1>1. CASE PhaseOf(t) = "idle"
  BY <1>1 DEF PlaceOf, JobOf, SpentOf
<1>2. CASE PhaseOf(t) # "idle"
  <2>1. pc[t] \in Seated /\ pc[t] # "stamp" /\ pc'[t] # "idle"
    BY <1>2, PhaseIs DEF Seated, Labels, CountingAt, StoppedAt
  <2>2. Owner(t)' = Owner(t) /\ mode' = mode /\ arg'[t] = arg[t]
    BY <2>1, OwnerStays
  <2>3. PlaceOf(t)' = PlaceOf(t) /\ JobOf(t)' = JobOf(t)
    BY <1>2, <2>2 DEF PlaceOf, JobOf, Share
  <2>4. CASE PhaseOf(t) \notin {"counting", "stopped"}
    BY <2>3, <2>4 DEF SpentOf
  <2>5. CASE PhaseOf(t) \in {"counting", "stopped"}
    <3>1. ~ \E u \in Thread : ResetAll(u)
      BY <2>5, WhileResetting DEF ResetAll
    <3>2. samples'[Owner(t)].s_nano = samples[Owner(t)].s_nano
      BY <2>1, <3>1, StampStays
    <3>3. QED
      BY <2>2, <2>3, <2>5, <3>2 DEF SpentOf
  <2>6. QED
    BY <2>4, <2>5
<1>3. QED
  BY <1>1, <1>2

\* A step of which the service sees nothing.
LEMMA UnseenStep ==
  ASSUME OneCaller, Disjoint, Located, MasterPinned, ServeInv, [Next]_vars,
         Gathered' = Gathered, out' = out,
         \A t \in Thread : /\ PhaseOf(t)' = PhaseOf(t)
                           /\ PhaseOf(t) = "counting" => clock'[t] = clock[t]
                           /\ PhaseOf(t) = "stopped" => now'[t] = now[t]
  PROVE  UNCHANGED Service!avars
<1>1. \A t \in Thread : /\ PlaceOf(t)' = PlaceOf(t) /\ JobOf(t)' = JobOf(t)
                        /\ SpentOf(t)' = SpentOf(t)
  BY Unseen
<1>2. QED
  BY <1>1 DEF Service!avars

\* A thread that moves alone, inside of the library, does not show in the others.
LEMMA MovesAlone ==
  ASSUME NEW t \in Thread, mode' = mode, pc[t] # "report", pc'[t] # "report",
         (pc[t] = "idle" <=> pc'[t] = "idle") \/ mode # "none",
         \A u \in Thread \ {t} : pc'[u] = pc[u]
  PROVE  /\ Unprinted' = Unprinted /\ Gathered' = Gathered
         /\ \A u \in Thread \ {t} : PhaseOf(u)' = PhaseOf(u)
<1>1. Unprinted' = Unprinted
  BY DEF Unprinted
<1>2. Gathered' = Gathered
  BY DEF Gathered
<1>3. QED
  BY <1>1, <1>2, PhaseIs

\* The steps of one thread that change none of its phases.
LEMMA QuietThread ==
  ASSUME OneCaller, Disjoint, Located, MasterPinned, ServeInv, NEW t \in Thread,
         \/ Lookup(t) \/ IncThreads(t) \/ SetBytes(t) \/ SetFlops(t) \/ IncLast(t)
         \/ Stop(t) \/ Relook(t) \/ DecLast(t) \/ EndStamp(t)
  PROVE  UNCHANGED Service!avars
<1>1. TypeOK
  BY DEF ServeInv, CounterInv
<1>2. /\ UNCHANGED <<mode, out, clock, now>>
      /\ \A u \in Thread \ {t} : pc'[u] = pc[u]
  BY <1>1
  DEF TypeOK, Lookup, IncThreads, SetBytes, SetFlops, IncLast, Stop, Relook,
      DecLast, EndStamp
<1>3. \/ /\ pc[t] \in {"lookup", "inc", "bytes", "flops", "first"}
         /\ pc'[t] \in {"inc", "bar0", "flops", "first", "stamp"}
      \/ pc[t] \in CountingAt /\ pc'[t] \in CountingAt
      \/ pc[t] \in {"dec", "estamp"} /\ pc'[t] \in {"estamp", "bar1"}
  <2>1. CASE Lookup(t)
    BY <1>1, <2>1 DEF TypeOK, Lookup, Located
  <2>2. CASE IncThreads(t) \/ SetBytes(t) \/ SetFlops(t)
    BY <1>1, <2>2 DEF TypeOK, IncThreads, SetBytes, SetFlops
  <2>3. CASE IncLast(t)
    BY <1>1, <2>3, OwnCounter DEF TypeOK, IncLast
  <2>4. CASE Stop(t) \/ Relook(t)
    BY <1>1, <2>4 DEF TypeOK, Stop, Relook, Located, CountingAt
  <2>5. CASE DecLast(t) \/ EndStamp(t)
    BY <1>1, <2>5 DEF TypeOK, DecLast, EndStamp
  <2>6. QED
    BY <2>1, <2>2, <2>3, <2>4, <2>5
<1>4. /\ Gathered' = Gathered /\ Unprinted' = Unprinted
      /\ \A u \in Thread \ {t} : PhaseOf(u)' = PhaseOf(u)
  <2>1. /\ pc[t] # "report" /\ pc'[t] # "report"
        /\ pc[t] # "idle" /\ pc'[t] # "idle"
    BY <1>3 DEF CountingAt
  <2>2. QED
    BY <1>2, <2>1, MovesAlone
<1>5. PhaseOf(t)' = PhaseOf(t)
  BY <1>3, PhaseIs DEF CountingAt, StoppedAt
<1>6. [Next]_vars
  BY DEF Next, Library, User, Step
<1>7. QED
  BY <1>2, <1>4, <1>5, <1>6, UnseenStep

\* So do a start in a region, and the reset.
LEMMA QuietStart ==
  ASSUME OneCaller, Disjoint, Located, MasterPinned, ServeInv, NEW t \in Thread,
         NEW k \in Kernels, Start(t, k), mode # "none"
  PROVE  UNCHANGED Service!avars
<1>1. /\ UNCHANGED <<mode, out, clock, now>> /\ pc[t] = "idle" /\ pc'[t] = "lookup"
      /\ \A u \in Thread \ {t} : pc'[u] = pc[u]
  BY DEF Start, TypeOK, ServeInv, CounterInv
<1>2. /\ Gathered' = Gathered
      /\ \A u \in Thread \ {t} : PhaseOf(u)' = PhaseOf(u)
  BY <1>1, MovesAlone
<1>3. PhaseOf(t)' = PhaseOf(t)
  BY <1>1, PhaseIs DEF CountingAt, StoppedAt
<1>4. [Next]_vars
  BY DEF Next, User
<1>5. QED
  BY <1>1, <1>2, <1>3, <1>4, UnseenStep

LEMMA QuietReset ==
  ASSUME OneCaller, Disjoint, Located, MasterPinned, ServeInv, NEW t \in Thread,
         ResetAll(t)
  PROVE  UNCHANGED Service!avars
<1>1. /\ UNCHANGED <<mode, out, clock, now>> /\ pc[t] = "reset" /\ pc'[t] = "bar2"
      /\ \A u \in Thread \ {t} : pc'[u] = pc[u]
  BY DEF ResetAll, TypeOK, ServeInv, CounterInv
<1>2. /\ Gathered' = Gathered /\ Unprinted' = Unprinted
      /\ \A u \in Thread \ {t} : PhaseOf(u)' = PhaseOf(u)
  BY <1>1, MovesAlone
<1>3. PhaseOf(t)' = PhaseOf(t)
  BY <1>1, <1>2, PhaseIs, WhileResetting DEF CountingAt, StoppedAt
<1>4. [Next]_vars
  BY DEF Next, Library, Step
<1>5. QED
  BY <1>1, <1>2, <1>3, <1>4, UnseenStep

\* The barriers and the ends of the forced regions, and the library that opens
\* and closes.
LEMMA QuietTeam ==
  ASSUME OneCaller, Disjoint, Located, MasterPinned, ServeInv,
         \/ \E t \in Thread : StartBarrier(Team(t)) \/ StopBarrier(Team(t))
         \/ JoinForced \/ StopForced \/ SamplingInit \/ SamplingFini
         \/ UNCHANGED vars
  PROVE  UNCHANGED Service!avars
<1>1. TypeOK /\ PhaseInv
  BY DEF ServeInv, MeasureInv, PhaseInv
<1>2. UNCHANGED <<mode, out, clock, now>>
  BY DEF StartBarrier, StopBarrier, JoinForced, StopForced, SamplingInit,
     SamplingFini, vars
<1>3. [Next]_vars
  BY DEF Next, Library, User, Together
<1>4. ASSUME NEW t \in Thread, StopBarrier(Team(t))
      PROVE  /\ Gathered' = Gathered
             /\ \A u \in Thread : PhaseOf(u)' = PhaseOf(u)
  <2>1. PICK e \in Team(t) : pc' = [Move(Team(t), "bar2") EXCEPT ![e] = "report"]
    BY <1>4 DEF StopBarrier
  <2>2. /\ e \in Thread /\ pc'[e] = "report"
        /\ \A u \in Team(t) \ {e} : pc[u] = "bar1" /\ pc'[u] = "bar2"
        /\ \A u \in Thread \ Team(t) : pc'[u] = pc[u]
        /\ pc[e] = "bar1"
    BY <1>4, <2>1 DEF StopBarrier, TeamAt, Move, Team
  <2>3. \A u \in Thread \ Team(t) : pc[u] = "idle"
    <3>1. CASE mode = "none"
      <4>1. pc[t] # "idle" /\ Team(t) = {t}
        BY <1>4, <3>1 DEF StopBarrier, TeamAt, Team
      <4>2. QED
        BY <1>1, <3>1, <4>1, AloneHere
    <3>2. CASE mode # "none"
      BY <3>2 DEF Team
    <3>3. QED
      BY <3>1, <3>2
  <2>4. Unprinted'
    BY <2>2 DEF Unprinted
  <2>5. Gathered' = Gathered
    BY <1>2, <2>2, <2>3 DEF Gathered
  <2>6. \A u \in Thread : PhaseOf(u)' = PhaseOf(u)
    BY <2>2, <2>3, <2>4, PhaseIs DEF CountingAt, StoppedAt
  <2>7. QED
    BY <2>5, <2>6
<1>5. CASE ~ \E t \in Thread : StopBarrier(Team(t))
  <2>1. \A u \in Thread :
          \/ pc'[u] = pc[u]
          \/ pc[u] = "bar0" /\ pc'[u] = "bytes"
          \/ pc[u] \in {"join", "open"} /\ pc'[u] \in {"open", "relook"}
    BY <1>5
    DEF StartBarrier, JoinForced, StopForced, SamplingInit, SamplingFini, vars,
        TeamAt, Move
  <2>2. Unprinted' = Unprinted
    BY <2>1 DEF Unprinted
  <2>3. Gathered' = Gathered
    BY <1>2, <2>1 DEF Gathered
  <2>4. \A u \in Thread : PhaseOf(u)' = PhaseOf(u)
    BY <2>1, <2>2, PhaseIs DEF CountingAt, StoppedAt
  <2>5. QED
    BY <1>2, <1>3, <2>3, <2>4, UnseenStep
<1>6. QED
  BY <1>2, <1>3, <1>4, <1>5, UnseenStep

(***************************************************************************)
(* The steps of which the service sees something                           *)
(***************************************************************************)
LEMMA TickServes ==
  ASSUME OneCaller, Disjoint, Located, MasterPinned, ServeInv, NEW t \in Thread,
         Tick(t)
  PROVE  Service!Spend(t) \/ UNCHANGED Service!avars
<1>1. /\ UNCHANGED <<mode, pc, out, now, samples, arg, handle, bindings>>
      /\ clock'[t] = clock[t] + 1
      /\ \A u \in Thread \ {t} : clock'[u] = clock[u]
  BY DEF Tick, TypeOK, ServeInv, CounterInv
<1>2. [Next]_vars
  BY DEF Next, User
<1>3. Gathered' = Gathered /\ \A u \in Thread : PhaseOf(u)' = PhaseOf(u)
  BY <1>1 DEF Gathered, PhaseOf, Unprinted
<1>4. CASE PhaseOf(t) # "counting"
  BY <1>1, <1>2, <1>3, <1>4, UnseenStep
<1>5. CASE PhaseOf(t) = "counting"
  <2>1. \A u \in Thread \ {t} : SpentOf(u)' = SpentOf(u)
    BY <1>1, <1>2, <1>3, Unseen
  <2>2. \A u \in Thread : PlaceOf(u)' = PlaceOf(u) /\ JobOf(u)' = JobOf(u)
    BY <1>1, <1>3 DEF PlaceOf, JobOf, Owner, Share
  <2>3. SpentOf(t)' = SpentOf(t) + 1
    <3>1. pc[t] \in Seated
      BY <1>5, PhaseIs DEF CountingAt, Seated, Labels
    <3>2. clock[t] \in Nat /\ samples[Owner(t)].s_nano \in Nat
      BY <3>1, OwnCounter DEF ServeInv, CounterInv, TypeOK, Sample
    <3>3. Owner(t)' = Owner(t) /\ samples' = samples
      BY <1>1 DEF Owner
    <3>4. /\ SpentOf(t) = clock[t] - samples[Owner(t)].s_nano
          /\ SpentOf(t)' = clock'[t] - samples[Owner(t)].s_nano
      BY <1>3, <1>5, <3>3 DEF SpentOf
    <3>5. QED
      BY <1>1, <3>2, <3>4
  <2> HIDE DEF SpentOf, PlaceOf, JobOf, PhaseOf, Gathered
  <2>4. Service!Spend(t)
    BY <1>1, <1>3, <1>5, <2>1, <2>2, <2>3 DEF Service!Spend
  <2>5. QED
    BY <2>4
<1>6. QED
  BY <1>4, <1>5

\* A start from a sequential region gathers a team of one.
LEMMA StartServes ==
  ASSUME OneCaller, Disjoint, Located, MasterPinned, ServeInv, NEW t \in Thread,
         NEW k \in Kernels, Start(t, k)
  PROVE  (\E T \in SUBSET Thread : Service!Gather(T)) \/ UNCHANGED Service!avars
<1>1. CASE mode # "none"
  BY <1>1, QuietStart
<1>2. CASE mode = "none"
  <2>1. /\ UNCHANGED <<mode, out, clock, now>> /\ pc[t] = "idle" /\ pc'[t] = "lookup"
        /\ t \in SeqCallers
        /\ \A u \in Thread \ {t} : pc'[u] = pc[u]
    BY <1>2 DEF Start, TypeOK, ServeInv, CounterInv
  <2>2. \A u \in Thread : pc[u] = "idle"
    <3>1. PhaseInv
      BY DEF ServeInv, MeasureInv
    <3>2. QED
      BY <1>2, <2>1, <3>1 DEF OneCaller, Located, PhaseInv, OthersIdle
  <2>3. Gathered = {} /\ Gathered' = {t}
    BY <1>2, <2>1, <2>2 DEF Gathered
  <2>4. \A u \in Thread : PhaseOf(u) = "idle" /\ PhaseOf(u)' = "idle"
    BY <2>1, <2>2, PhaseIs DEF CountingAt, StoppedAt
  <2>5. \A u \in Thread : /\ PlaceOf(u)' = PlaceOf(u) /\ JobOf(u)' = JobOf(u)
                          /\ SpentOf(u)' = SpentOf(u)
    BY <2>4 DEF PlaceOf, JobOf, SpentOf
  <2>6. Service!Gather({t})
    BY <2>1, <2>3, <2>4, <2>5 DEF Service!Gather
  <2>7. QED
    BY <2>6
<1>3. QED
  BY <1>1, <1>2

\* A region gathers the whole team, the one of a forced call too.
LEMMA RegionServes ==
  ASSUME EnterParallel \/ \E k \in Kernels : StartForced(k)
  PROVE  Service!Gather(Thread)
<1>1. /\ UNCHANGED out /\ mode = "none" /\ mode' # "none"
      /\ \A u \in Thread : pc[u] = "idle" /\ pc'[u] \in {"idle", "lookup"}
  BY DEF EnterParallel, StartForced, AllIdle, Move
<1>2. Gathered = {} /\ Gathered' = Thread /\ Thread # {}
  BY <1>1, ThreadAssumption DEF Gathered, Thread
<1>3. \A u \in Thread : PhaseOf(u) = "idle" /\ PhaseOf(u)' = "idle"
  BY <1>1, PhaseIs DEF CountingAt, StoppedAt
<1>4. \A u \in Thread : /\ PlaceOf(u)' = PlaceOf(u) /\ JobOf(u)' = JobOf(u)
                        /\ SpentOf(u)' = SpentOf(u)
  BY <1>3 DEF PlaceOf, JobOf, SpentOf
<1>5. QED
  BY <1>1, <1>2, <1>3, <1>4 DEF Service!Gather

LEMMA LeaveServes == ASSUME LeaveParallel PROVE Service!Disband
<1>1. /\ UNCHANGED out /\ mode = "par" /\ mode' = "none"
      /\ \A u \in Thread : pc[u] = "idle" /\ pc'[u] = "idle"
  BY DEF LeaveParallel, AllIdle
<1>2. Gathered = Thread /\ Gathered' = {} /\ Thread # {}
  BY <1>1, ThreadAssumption DEF Gathered, Thread
<1>3. \A u \in Thread : PhaseOf(u) = "idle" /\ PhaseOf(u)' = "idle"
  BY <1>1, PhaseIs DEF CountingAt, StoppedAt
<1>4. \A u \in Thread : /\ PlaceOf(u)' = PlaceOf(u) /\ JobOf(u)' = JobOf(u)
                        /\ SpentOf(u)' = SpentOf(u)
  BY <1>3 DEF PlaceOf, JobOf, SpentOf
<1>5. QED
  BY <1>1, <1>2, <1>3, <1>4 DEF Service!Disband, Service!All

LEMMA StampServes ==
  ASSUME OneCaller, Disjoint, Located, MasterPinned, ServeInv, NEW t \in Thread,
         Stamp(t)
  PROVE  \E p \in PU, j \in Jobs : Service!Begin(t, p, j)
<1>1. TypeOK /\ HomeInv /\ [Next]_vars
  BY DEF ServeInv, CounterInv, Next, Library, Step
<1>2. /\ UNCHANGED <<mode, out, now, clock, arg, handle, bindings>>
      /\ pc[t] = "stamp" /\ pc'[t] \in {"join", "open"}
      /\ \A u \in Thread \ {t} : pc'[u] = pc[u]
  BY <1>1 DEF Stamp, TypeOK, AfterStart
<1>3. pc[t] \in Seated /\ Owner(t) = handle[t] /\ handle[t] \in PU
  BY <1>2, OwnCounter DEF Seated, Labels, Held
<1>4. Owner(t)' = handle[t] /\ Share(t)' = Share(t)
  BY <1>1, <1>2, <1>3, OwnerStays DEF Share
<1>5. Gathered' = Gathered /\ \A u \in Thread \ {t} : PhaseOf(u)' = PhaseOf(u)
  BY <1>2, MovesAlone
<1>6. \A u \in Thread \ {t} : /\ PlaceOf(u)' = PlaceOf(u) /\ JobOf(u)' = JobOf(u)
                              /\ SpentOf(u)' = SpentOf(u)
  BY <1>1, <1>2, <1>5, Unseen
<1>7. PhaseOf(t) = "idle" /\ PhaseOf(t)' = "counting"
  BY <1>2, PhaseIs DEF CountingAt, StoppedAt
<1>8. PlaceOf(t)' = handle[t] /\ JobOf(t)' = Share(t)
  BY <1>4, <1>7 DEF PlaceOf, JobOf
<1>9. SpentOf(t) = 0 /\ SpentOf(t)' = 0
  <2>1. samples'[handle[t]].s_nano = clock[t] /\ clock[t] \in Nat
    BY <1>1, <1>3 DEF Stamp, TypeOK, Sample
  <2>2. SpentOf(t)' = clock'[t] - samples'[Owner(t)'].s_nano
    BY <1>7 DEF SpentOf
  <2>3. SpentOf(t) = 0
    BY <1>7 DEF SpentOf
  <2>4. QED
    BY <1>2, <1>4, <2>1, <2>2, <2>3
<1>10. t \in Gathered
  BY <1>2 DEF Gathered
<1>11. Share(t) \in Jobs
  BY <1>1, <1>2 DEF HomeInv, Share, Jobs
<1> HIDE DEF SpentOf, PlaceOf, JobOf, PhaseOf, Gathered, Jobs
<1>12. Service!Begin(t, handle[t], Share(t))
  BY <1>2, <1>5, <1>6, <1>7, <1>8, <1>9, <1>10 DEF Service!Begin
<1>13. QED
  BY <1>3, <1>11, <1>12

LEMMA ReadTimeServes ==
  ASSUME OneCaller, Disjoint, Located, MasterPinned, ServeInv, NEW t \in Thread,
         ReadTime(t)
  PROVE  Service!End(t)
<1>1. TypeOK /\ [Next]_vars
  BY DEF ServeInv, CounterInv, Next, Library, Step
<1>2. /\ UNCHANGED <<mode, out, clock, arg, handle, bindings, samples>>
      /\ pc[t] = "time" /\ pc'[t] = "dec" /\ now'[t] = clock[t]
      /\ \A u \in Thread \ {t} : pc'[u] = pc[u] /\ now'[u] = now[u]
  BY <1>1 DEF ReadTime, TypeOK
<1>3. Owner(t)' = Owner(t) /\ Share(t)' = Share(t)
  BY <1>2 DEF Owner, Share
<1>4. Gathered' = Gathered /\ \A u \in Thread \ {t} : PhaseOf(u)' = PhaseOf(u)
  BY <1>2, MovesAlone
<1>5. \A u \in Thread \ {t} : /\ PlaceOf(u)' = PlaceOf(u) /\ JobOf(u)' = JobOf(u)
                              /\ SpentOf(u)' = SpentOf(u)
  BY <1>1, <1>2, <1>4, Unseen
<1>6. PhaseOf(t) = "counting" /\ PhaseOf(t)' = "stopped"
  BY <1>2, PhaseIs DEF CountingAt, StoppedAt
<1>7. PlaceOf(t)' = PlaceOf(t) /\ JobOf(t)' = JobOf(t) /\ SpentOf(t)' = SpentOf(t)
  BY <1>2, <1>3, <1>6 DEF PlaceOf, JobOf, SpentOf
<1> HIDE DEF SpentOf, PlaceOf, JobOf, PhaseOf, Gathered
<1>8. QED
  BY <1>2, <1>4, <1>5, <1>6, <1>7 DEF Service!End

LEMMA ReturnServes ==
  ASSUME OneCaller, Disjoint, Located, MasterPinned, ServeInv, NEW t \in Thread,
         Return(Team(t))
  PROVE  Service!Dismiss
<1>1. TypeOK /\ PhaseInv
  BY DEF ServeInv, CounterInv, MeasureInv
<1>2. pc[t] = "bar2" /\ t \in Team(t)
  BY DEF Return, TeamAt, Team
<1>3. \A u \in Thread : /\ IF u \in Team(t) THEN pc[u] = "bar2" ELSE pc[u] = "idle"
                        /\ pc'[u] = "idle"
  <2>1. \A u \in Thread \ Team(t) : pc[u] = "idle"
    BY <1>1, <1>2, AloneHere DEF Team
  <2>2. QED
    BY <2>1 DEF Return, TeamAt, Move
<1>4. ~ Unprinted
  BY <1>3 DEF Unprinted
<1>5. \A u \in Thread :
        /\ PhaseOf(u) = IF u \in Team(t) THEN "done" ELSE "idle"
        /\ PhaseOf(u)' = "idle"
  BY <1>3, <1>4, PhaseIs DEF CountingAt, StoppedAt
<1>6. Gathered = Team(t)
  BY <1>2, <1>3 DEF Gathered, Team
<1>7. Gathered' \in {Gathered, {}}
  <2>1. CASE mode' = "none"
    BY <1>3, <2>1 DEF Gathered
  <2>2. CASE mode' # "none"
    BY <2>2 DEF Gathered, Return
  <2>3. QED
    BY <2>1, <2>2
<1>8. \A u \in Thread : /\ PlaceOf(u)' = NoSample /\ JobOf(u)' = NoKernel
                        /\ SpentOf(u) = 0 /\ SpentOf(u)' = 0
  BY <1>5 DEF PlaceOf, JobOf, SpentOf
<1>9. out' = out /\ NoKernel = Service!NoJob
  BY DEF Return, NoKernel, Service!NoJob
<1> HIDE DEF SpentOf, PlaceOf, JobOf, PhaseOf, Gathered
<1>10. Service!All("done")
  BY <1>5, <1>6 DEF Service!All, Team
<1>11. QED
  BY <1>2, <1>5, <1>6, <1>7, <1>8, <1>9, <1>10 DEF Service!Dismiss

\* A counted thread weighs what its sample holds.
EachWeighs(W, field) ==
  /\ Weighs(W, Counted)
  /\ \A u \in Counted : W[{u}] = samples[Owner(u)][field]

\* Each sample has the weight of the one thread that counts there, if any.
LEMMA EachCarries ==
  ASSUME OneCaller, Disjoint, Located, ServeInv, FillInv,
         NEW field \in {"bytes", "flops", "n_threads"},
         NEW W, EachWeighs(W, field),
         NEW place, place = [u \in Counted |-> Owner(u)]
  PROVE  place \in [Counted -> PU] /\ Carries(field, W, Counted, place)
<1>1. \A u \in Counted : u \in Thread /\ pc[u] \in Seated /\ Owner(u) \in PU
  BY CountedSeated, OwnCounter
<1>2. ASSUME NEW p \in PU
      PROVE  samples[p][field] = W[{u \in Counted : place[u] = p}]
  <2>1. CASE \A u \in Counted : Owner(u) # p
    <3>1. {u \in Counted : place[u] = p} = {}
      BY <2>1
    <3>2. samples[p][field] = 0
      BY <2>1 DEF FillInv, Clear
    <3>3. QED
      BY <3>1, <3>2 DEF EachWeighs, Weighs
  <2>2. ASSUME NEW v \in Counted, Owner(v) = p
        PROVE  samples[p][field] = W[{u \in Counted : place[u] = p}]
    <3>1. {u \in Counted : place[u] = p} = {v}
      BY <1>1, <2>2, OneOwner
    <3>2. QED
      BY <2>2, <3>1 DEF EachWeighs
  <2>3. QED
    BY <2>1, <2>2
<1>3. QED
  BY <1>1, <1>2 DEF Carries

\* The counted threads below a node.
BelowOf(n) == {u \in Counted : NodeOf[Owner(u)] = n}

\* A node is reduced to the weight of the threads below it.
LEMMA EachBelow ==
  ASSUME OneCaller, Disjoint, Located, ServeInv, FillInv,
         NEW field \in {"bytes", "flops", "n_threads"},
         NEW W, EachWeighs(W, field), NEW n
  PROVE  Reduce(n)[field] = W[BelowOf(n)]
<1> DEFINE place == [u \in Counted |-> Owner(u)]
<1>1. TypeOK
  BY DEF ServeInv, CounterInv
<1>2. {u \in Counted : NodeOf[place[u]] = n} = BelowOf(n)
  BY DEF BelowOf
<1>3. place = [u \in Counted |-> Owner(u)]
  OBVIOUS
<1> HIDE DEF place
<1>4. place \in [Counted -> PU] /\ Carries(field, W, Counted, place)
  BY <1>3, EachCarries
<1>5. QED
  BY <1>1, <1>2, <1>4, ReduceTotal DEF EachWeighs

\* What a node counts, and the sum of what f gives to the threads below it.
LEMMA CountBelow ==
  ASSUME OneCaller, Disjoint, Located, ServeInv, FillInv, NEW n
  PROVE  Reduce(n).n_threads = Cardinality(BelowOf(n))
<1> DEFINE W == [A \in SUBSET Counted |-> Cardinality(A)]
<1>1. IsFiniteSet(Counted) /\ W = [A \in SUBSET Counted |-> Cardinality(A)]
  BY ThreadFinite, FS_Subset DEF Counted
<1>2. Weighs(W, Counted)
  <2> HIDE DEF W
  <2>1. QED
    BY <1>1, CardinalityWeighs
<1>3. ASSUME NEW u \in Counted PROVE W[{u}] = samples[Owner(u)]["n_threads"]
  <2>1. samples[Owner(u)].n_threads = 1
    BY DEF FillInv, Filled
  <2>2. W[{u}] = 1
    BY FS_Singleton
  <2>3. QED
    BY <2>1, <2>2
<1>4. W[BelowOf(n)] = Cardinality(BelowOf(n))
  BY DEF BelowOf
<1> HIDE DEF W
<1>5. EachWeighs(W, "n_threads")
  BY <1>2, <1>3 DEF EachWeighs
<1>6. Reduce(n)["n_threads"] = W[BelowOf(n)]
  BY <1>5, EachBelow
<1>7. QED
  BY <1>4, <1>6

LEMMA SumBelow ==
  ASSUME OneCaller, Disjoint, Located, ServeInv, FillInv,
         NEW field \in {"bytes", "flops"}, NEW f,
         \A u \in Counted : f[u] \in Nat /\ f[u] = samples[Owner(u)][field], NEW n
  PROVE  Reduce(n)[field] = SumFunctionOnSet(f, BelowOf(n))
<1>1. IsFiniteSet(Counted)
  BY ThreadFinite, FS_Subset DEF Counted
<1>2. PICK W : /\ Adds(W, Counted, f)
               /\ \A A \in SUBSET Counted : W[A] = SumFunctionOnSet(f, A)
  BY <1>1, SumsWeigh
<1>3. EachWeighs(W, field)
  BY <1>2 DEF EachWeighs, Adds
<1>4. Reduce(n)[field] = W[BelowOf(n)]
  BY <1>3, EachBelow
<1>5. QED
  BY <1>2, <1>4 DEF BelowOf

\* The time of a node is that of the slowest thread below it.
LEMMA SlowestBelow ==
  ASSUME OneCaller, Disjoint, Located, ServeInv, FillInv,
         \A u \in Counted : pc[u] \in After, NEW spent,
         \A u \in Counted : spent[u] = now[u] - samples[Owner(u)].s_nano, NEW n
  PROVE  Elapsed(Reduce(n)) = Max({0} \union {spent[u] : u \in BelowOf(n)})
<1> DEFINE S == {0} \union {spent[u] : u \in BelowOf(n)}
           m == Elapsed(Reduce(n))
<1>1. TypeOK
  BY DEF ServeInv, CounterInv
<1>2. ASSUME NEW u \in Counted
      PROVE  /\ Owner(u) \in PU
             /\ spent[u] \in Int /\ Elapsed(samples[Owner(u)]) = spent[u]
  <2>1. u \in Thread /\ Owner(u) \in PU
    BY CountedSeated, OwnCounter
  <2>2. samples[Owner(u)].e_nano = now[u]
    BY DEF FillInv, Filled
  <2>3. samples[Owner(u)].s_nano \in Nat /\ now[u] \in Nat
    BY <1>1, <2>1 DEF TypeOK, Sample
  <2>4. QED
    BY <2>1, <2>2, <2>3 DEF Elapsed
<1>3. ASSUME NEW p \in PUsUnder(n) PROVE Elapsed(samples[p]) \in S
  <2>1. CASE \A u \in Counted : Owner(u) # p
    BY <2>1 DEF FillInv, Clear, Elapsed, PUsUnder
  <2>2. ASSUME NEW u \in Counted, Owner(u) = p PROVE Elapsed(samples[p]) \in S
    <3>1. u \in BelowOf(n)
      BY <2>2 DEF BelowOf, PUsUnder
    <3>2. QED
      BY <1>2, <2>2, <3>1
  <2>3. QED
    BY <2>1, <2>2
<1>4. /\ m \in Int /\ m >= 0
      /\ \A p \in PUsUnder(n) : m >= Elapsed(samples[p])
      /\ m = 0 \/ \E p \in PUsUnder(n) : m = Elapsed(samples[p])
  BY <1>1, ReduceTime
<1>5. S \in SUBSET Int /\ m \in S
  BY <1>2, <1>3, <1>4 DEF BelowOf
<1>6. ASSUME NEW u \in BelowOf(n) PROVE m >= spent[u]
  <2>1. u \in Counted /\ Owner(u) \in PUsUnder(n)
    BY <1>2 DEF BelowOf, PUsUnder
  <2>2. QED
    BY <1>2, <1>4, <2>1
<1>7. \A x \in S : m >= x
  BY <1>4, <1>6
<1> HIDE DEF S, m
<1>8. m = Max(S)
  BY <1>5, <1>7, MaxIs
<1>9. QED
  BY <1>8 DEF S, m

\* When a thread reports its team has stopped, and all others are outside.
LEMMA ReportPhases ==
  ASSUME OneCaller, Disjoint, Located, ServeInv, NEW t \in Thread, Report(t)
  PROVE  /\ Gathered = Counted /\ Gathered' = Counted /\ t \in Counted
         /\ \A u \in Counted :
              u \in Thread /\ pc[u] \in {"report", "bar2"}
                /\ PhaseOf(u) = "stopped" /\ PhaseOf(u)' = "done"
         /\ \A u \in Thread \ Counted :
              PhaseOf(u) = "idle" /\ PhaseOf(u)' = "idle"
<1>1. TypeOK /\ PhaseInv /\ MeasureInv
  BY DEF ServeInv, CounterInv, MeasureInv
<1>2. /\ pc[t] = "report" /\ pc'[t] = "reset" /\ mode' = mode
      /\ \A u \in Thread \ {t} : pc'[u] = pc[u]
  BY <1>1 DEF Report, TypeOK
<1>3. Counted = Team(t)
  BY <1>1, <1>2, TeamCounted
<1>4. \A u \in Thread \ {t} : pc[u] \in {"idle", "bar2"}
  BY <1>1, <1>2, NoneElse
<1>5. \A u \in Counted : u \in Thread /\ pc[u] # "idle"
  BY DEF Counted, During
<1>6. \A u \in Thread \ Counted : pc[u] = "idle"
  BY <1>1, <1>2, <1>3, AloneHere DEF Team
<1>7. Unprinted /\ ~ Unprinted'
  BY <1>2, <1>4 DEF Unprinted
<1>8. t \in Counted
  BY <1>3 DEF Team
<1>9. Gathered = Counted /\ Gathered' = Counted
  BY <1>2, <1>3, <1>5, <1>6 DEF Gathered, Team
<1>10. ASSUME NEW u \in Counted
       PROVE  /\ u \in Thread /\ pc[u] \in {"report", "bar2"}
              /\ PhaseOf(u) = "stopped" /\ PhaseOf(u)' = "done"
  <2>1. \/ pc[u] = "report" /\ pc'[u] = "reset"
        \/ pc[u] = "bar2" /\ pc'[u] = "bar2"
    BY <1>2, <1>4, <1>5, <1>10
  <2>2. QED
    BY <1>5, <1>7, <1>10, <2>1, PhaseIs DEF CountingAt, StoppedAt
<1>11. ASSUME NEW u \in Thread \ Counted
       PROVE  PhaseOf(u) = "idle" /\ PhaseOf(u)' = "idle"
  BY <1>2, <1>6, <1>8, <1>11, PhaseIs DEF CountingAt, StoppedAt
<1>12. QED
  BY <1>8, <1>9, <1>10, <1>11

\* The service takes its greatest elements and its sums as the library does.
LEMMA SameMax == ASSUME NEW S PROVE Service!Max(S) = Max(S)
BY DEF Service!Max, Max

LEMMA SameCardinality == ASSUME NEW S PROVE Service!Cardinality(S) = Cardinality(S)
BY DEF Service!Cardinality, Cardinality

LEMMA SameSum ==
  ASSUME NEW f, NEW S
  PROVE  Service!SumFunctionOnSet(f, S) = SumFunctionOnSet(f, S)
BY DEF Service!SumFunctionOnSet, SumFunctionOnSet, Service!FoldFunctionOnSet,
       FoldFunctionOnSet, Service!MapThenFoldSet, MapThenFoldSet

\* What is printed of a node is the line of the service.
LEMMA ReportLine ==
  ASSUME OneCaller, Disjoint, Located, ServeInv, FillInv, NEW t \in Thread,
         Report(t), NEW n
  PROVE  Printed(Reduce(n)) = Service!LineOf(n)
<1>1. TypeOK
  BY DEF ServeInv, CounterInv
<1>2. /\ Gathered = Counted
      /\ \A u \in Counted : /\ u \in Thread /\ pc[u] \in {"report", "bar2"}
                            /\ PhaseOf(u) = "stopped"
  BY ReportPhases
<1>3. ASSUME NEW u \in Counted
      PROVE  /\ PlaceOf(u) = Owner(u) /\ JobOf(u) = Share(u)
             /\ SpentOf(u) = now[u] - samples[Owner(u)].s_nano
             /\ Share(u).bytes \in Nat /\ Share(u).bytes = samples[Owner(u)].bytes
             /\ Share(u).flops \in Nat /\ Share(u).flops = samples[Owner(u)].flops
  <2>1. PlaceOf(u) = Owner(u) /\ JobOf(u) = Share(u)
    BY <1>2 DEF PlaceOf, JobOf
  <2>2. SpentOf(u) = now[u] - samples[Owner(u)].s_nano
    BY <1>2 DEF SpentOf
  <2>3. /\ Share(u).bytes = samples[Owner(u)].bytes
        /\ Share(u).flops = samples[Owner(u)].flops
    BY <1>2 DEF FillInv, Filled
  <2>4. Owner(u) \in PU
    BY <1>2, OwnCounter DEF Seated, Labels
  <2>5. samples[Owner(u)] \in Sample
    BY <1>1, <2>4 DEF TypeOK
  <2>6. QED
    BY <2>1, <2>2, <2>3, <2>5 DEF Sample
<1> DEFINE place == [u \in Thread |-> PlaceOf(u)]
           spent == [u \in Thread |-> SpentOf(u)]
           bytes == [u \in Thread |-> JobOf(u).bytes]
           flops == [u \in Thread |-> JobOf(u).flops]
<1>4. {u \in Gathered : NodeOf[place[u]] = n} = BelowOf(n)
  BY <1>2, <1>3 DEF BelowOf
<1>5. /\ \A u \in Counted : /\ spent[u] = now[u] - samples[Owner(u)].s_nano
                            /\ bytes[u] \in Nat /\ bytes[u] = samples[Owner(u)]["bytes"]
                            /\ flops[u] \in Nat /\ flops[u] = samples[Owner(u)]["flops"]
      /\ \A u \in Counted : pc[u] \in After
  BY <1>2, <1>3 DEF After
<1> HIDE DEF place, spent, bytes, flops
<1>6. Elapsed(Reduce(n)) = Max({0} \union {spent[u] : u \in BelowOf(n)})
  BY <1>5, SlowestBelow
<1>7. Reduce(n)["bytes"] = SumFunctionOnSet(bytes, BelowOf(n))
  BY <1>5, SumBelow
<1>8. Reduce(n)["flops"] = SumFunctionOnSet(flops, BelowOf(n))
  BY <1>5, SumBelow
<1>9. Reduce(n).n_threads = Cardinality(BelowOf(n))
  BY CountBelow
<1>10. Service!Below(n) = BelowOf(n)
  BY <1>4 DEF Service!Below, place
<1>11. Service!LineOf(n) =
         [nanoseconds |-> Max({0} \union {spent[u] : u \in BelowOf(n)}),
          bytes |-> SumFunctionOnSet(bytes, BelowOf(n)),
          flops |-> SumFunctionOnSet(flops, BelowOf(n)),
          n_threads |-> Cardinality(BelowOf(n))]
  BY <1>10, SameMax, SameCardinality, SameSum
  DEF Service!LineOf, spent, bytes, flops
<1>12. QED
  BY <1>6, <1>7, <1>8, <1>9, <1>11 DEF Printed

LEMMA ReportServes ==
  ASSUME OneCaller, Disjoint, Located, MasterPinned, ServeInv, FillInv,
         NEW t \in Thread, Report(t)
  PROVE  Service!Publish
<1>1. [Next]_vars
  BY DEF Next, Library, Step
<1>2. /\ Gathered = Counted /\ Gathered' = Counted /\ t \in Counted
      /\ \A u \in Counted :
           u \in Thread /\ PhaseOf(u) = "stopped" /\ PhaseOf(u)' = "done"
      /\ \A u \in Thread \ Counted : PhaseOf(u) = "idle" /\ PhaseOf(u)' = "idle"
  BY ReportPhases
<1>3. UNCHANGED <<mode, arg, handle, bindings>> /\ Owner(t)' = Owner(t)
  <2>1. UNCHANGED <<mode, arg, handle, bindings>> /\ pc[t] = "report"
    BY DEF Report
  <2>2. pc'[t] = "reset"
    BY <2>1 DEF Report, TypeOK, ServeInv, CounterInv
  <2>3. QED
    BY <2>1, <2>2 DEF Owner
<1>4. \A u \in Thread \ {t} : pc'[u] = pc[u]
  BY DEF Report, TypeOK, ServeInv, CounterInv
<1>5. ASSUME NEW u \in Thread
      PROVE  /\ PlaceOf(u)' = PlaceOf(u) /\ JobOf(u)' = JobOf(u)
             /\ SpentOf(u)' = IF u \in Counted THEN 0 ELSE SpentOf(u)
  <2>1. Owner(u)' = Owner(u) /\ Share(u)' = Share(u)
    BY <1>3, <1>4 DEF Owner, Share
  <2>2. QED
    BY <1>2, <2>1 DEF PlaceOf, JobOf, SpentOf
<1>6. out' = [n \in Node |-> Service!LineOf(n)]
  BY ReportLine DEF Report
<1> HIDE DEF SpentOf, PlaceOf, JobOf, PhaseOf, Gathered
<1>7. Gathered # {} /\ Service!All("stopped")
  BY <1>2 DEF Service!All
<1>8. QED
  BY <1>2, <1>5, <1>6, <1>7 DEF Service!Publish

LEMMA InitServes == ASSUME Init PROVE Service!Init
<1>1. \A u \in Thread : pc[u] = "idle"
  BY DEF Init
<1>2. \A u \in Thread : PhaseOf(u) = "idle"
  BY <1>1, PhaseIs DEF CountingAt, StoppedAt
<1>3. Gathered = {}
  BY <1>1 DEF Init, Gathered
<1>4. \A u \in Thread : PlaceOf(u) = NoSample /\ JobOf(u) = NoKernel /\ SpentOf(u) = 0
  BY <1>2 DEF PlaceOf, JobOf, SpentOf
<1>5. out = [n \in Node |-> Service!Blank] /\ NoKernel = Service!NoJob
  BY DEF Init, NoLine, Service!Blank, NoKernel, Service!NoJob
<1> HIDE DEF SpentOf, PlaceOf, JobOf, PhaseOf, Gathered
<1>6. QED
  BY <1>2, <1>3, <1>4, <1>5 DEF Service!Init

\* Every step is a step of the service, or one of which it sees nothing.
LEMMA ServiceStep ==
  ASSUME OneCaller, Disjoint, Located, MasterPinned, ServeInv, FillInv, [Next]_vars
  PROVE  [Service!Next]_Service!avars
<1> DEFINE Q == Service!Next \/ UNCHANGED Service!avars
<1>1. ASSUME NEW t \in Thread, Tick(t) PROVE Q
  BY <1>1, TickServes DEF Service!Next
<1>2. ASSUME NEW t \in Thread, NEW k \in Kernels, Start(t, k) PROVE Q
  BY <1>2, StartServes DEF Service!Next
<1>3. ASSUME EnterParallel \/ \E k \in Kernels : StartForced(k) PROVE Q
  BY <1>3, RegionServes DEF Service!Next
<1>4. ASSUME LeaveParallel PROVE Q
  BY <1>4, LeaveServes DEF Service!Next
<1>5. ASSUME NEW t \in Thread, Stamp(t) PROVE Q
  BY <1>5, StampServes DEF Service!Next
<1>6. ASSUME NEW t \in Thread, ReadTime(t) PROVE Q
  BY <1>6, ReadTimeServes DEF Service!Next
<1>7. ASSUME NEW t \in Thread, Report(t) PROVE Q
  BY <1>7, ReportServes DEF Service!Next
<1>8. ASSUME NEW t \in Thread, Return(Team(t)) PROVE Q
  BY <1>8, ReturnServes DEF Service!Next
<1>9. ASSUME NEW t \in Thread,
             \/ Lookup(t) \/ IncThreads(t) \/ SetBytes(t) \/ SetFlops(t) \/ IncLast(t)
             \/ Stop(t) \/ Relook(t) \/ DecLast(t) \/ EndStamp(t)
      PROVE  Q
  BY <1>9, QuietThread
<1>10. ASSUME NEW t \in Thread, ResetAll(t) PROVE Q
  BY <1>10, QuietReset
<1>11. ASSUME \/ \E t \in Thread : StartBarrier(Team(t)) \/ StopBarrier(Team(t))
              \/ JoinForced \/ StopForced \/ SamplingInit \/ SamplingFini
              \/ UNCHANGED vars
       PROVE  Q
  BY <1>11, QuietTeam
<1> HIDE DEF Q
<1>12. Q
  BY <1>1, <1>2, <1>3, <1>4, <1>5, <1>6, <1>7, <1>8, <1>9, <1>10, <1>11
  DEF Next, Library, User, Step, Together
<1>13. QED
  BY <1>12 DEF Q

\* The library implements the service: the counters, the stamps, the shared
\* samples and the barriers (sampling.c:382-497) amount to one line per node
\* and measure, in which each thread counts once, on the PU where it started,
\* with the time between its start and its stop.  So it is when all threads are
\* located and one at a time samples from sequential regions, when no two
\* threads of a region may run on the same PU, and when the first thread of a
\* forced call is bound.
THEOREM LibraryImplementsService ==
  ASSUME OneCaller, Located, Disjoint, MasterPinned
  PROVE  Spec => ImplementsService
<1>1. Init => ServeInv /\ FillInv /\ Service!Init
  BY InitServe, InitServes
<1>2. ServeInv /\ FillInv /\ [Next]_vars =>
        ServeInv' /\ FillInv' /\ [Service!Next]_Service!avars
  BY ServeStep, FillStep, ServiceStep
<1>3. QED
  BY <1>1, <1>2, PTL DEF Spec, ImplementsService, Service!Spec
=============================================================================
