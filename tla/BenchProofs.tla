---------------------------- MODULE BenchProofs ----------------------------
(* Theorems about Bench for every team, topology, list of sizes and calls. *)
EXTENDS Bench, TLAPS

(***************************************************************************)
(* Types                                                                   *)
(***************************************************************************)
Result == [n : Nat, work : Nat]

\* Inside a timed section there is at least one section left.
Owed == \A t \in Thread : pc[t] \in {"begin", "run", "end"} => left[t] >= 1

TypeInv == TypeOK /\ Owed

LEMMA TrialLength ==
  /\ TrialSections \in Nat
  /\ TrialSections >= 1
  /\ Measures <= TrialSections
<1> DEFINE s == Samples
           m == Measures
<1>1. s \in Nat /\ m \in Nat /\ s >= 1 /\ m >= 1
  BY MeasureAssumption
<1> HIDE DEF s, m
<1>2. s * m \in Nat /\ s * m >= m
  BY <1>1
<1>3. QED
  BY <1>1, <1>2 DEF s, m, TrialSections

LEMMA ThreadZero == 0 \in Thread
BY TeamAssumption DEF Thread

LEMMA RoundsType == Len(Sizes) \in Nat /\ 1 \in 1 .. Len(Sizes)
<1>1. Len(Sizes) \in Nat /\ Len(Sizes) # 0
  BY ProgramAssumption
<1>2. QED
  BY <1>1

LEMMA GroupType == \A t \in Thread : GroupOf(t) \in Group
BY GroupAssumption DEF GroupOf

LEMMA WorkType ==
  ASSUME NEW program, NEW i \in 1 .. Len(Sizes), NEW r \in Nat
  PROVE  WorkOf(program, i, r) \in Nat
<1>1. Sizes[i] \in Nat
  BY ProgramAssumption
<1>2. QED
  BY <1>1 DEF WorkOf

LEMMA AccumulateType ==
  ASSUME NEW dst \in Result, NEW w \in Nat
  PROVE  OutputAccumulate(dst, w) \in Result
<1>1. dst.n + 1 \in Nat /\ dst.work + w \in Nat
  BY DEF Result
<1>2. QED
  BY <1>1 DEF OutputAccumulate, Result

LEMMA InitTypeInv == Init => TypeInv
<1> SUFFICES ASSUME Init PROVE TypeInv
  OBVIOUS
<1>1. Owed
  BY DEF Init, Owed
<1>2. call \in 0 .. Len(Calls)
  BY ProgramAssumption DEF Init
<1>3. left \in [Thread -> 0 .. TrialSections]
  BY TrialLength DEF Init
<1>4. log \in Seq([Group -> [n : Nat, work : Nat]])
  BY DEF Init
<1>5. idx \in [Thread -> 1 .. Len(Sizes)]
  BY RoundsType DEF Init
<1>6. /\ pc \in [Thread -> Labels]
      /\ phase \in [Thread -> {"calib", "bench"}]
      /\ trial \in [Thread -> Nat \ {0}]
      /\ used \in [Thread -> Nat]
      /\ repeat \in Nat \ {0}
  BY DEF Init, Labels
<1>8. test_stop \in BOOLEAN /\ lock \in Thread \union {Nobody}
  BY Zenon DEF Init
<1>7. /\ seen \in [Thread -> [n : Nat, work : Nat]]
      /\ out \in [Group -> [n : Nat, work : Nat]]
  BY DEF Init, Cleared
<1>9. TypeOK
  BY <1>2, <1>3, <1>4, <1>5, <1>6, <1>7, <1>8, Zenon DEF TypeOK
<1>10. QED
  BY <1>1, <1>9 DEF TypeInv

\* The part of the types that a trial sets.
TrialVars ==
  /\ pc \in [Thread -> Labels]
  /\ phase \in [Thread -> {"calib", "bench"}]
  /\ left \in [Thread -> 0 .. TrialSections]
  /\ trial \in [Thread -> Nat \ {0}]
  /\ Owed

LEMMA TrialType ==
  ASSUME TypeInv, NEW t \in Thread, NEW r \in Nat \ {0}, Trial(t, r)
  PROVE  TrialVars'
<1>1. TrialSections \in 0 .. TrialSections
  BY TrialLength
<1>2. left' = [left EXCEPT ![t] = TrialSections] /\ pc' = [pc EXCEPT ![t] = "begin"]
  BY DEF Trial, Goto
<1>3. Owed'
  BY <1>2, TrialLength DEF TypeInv, TypeOK, Owed
<1>4. pc' \in [Thread -> Labels] /\ left' \in [Thread -> 0 .. TrialSections]
  BY <1>1, <1>2 DEF TypeInv, TypeOK, Labels
<1>5. QED
  BY <1>3, <1>4 DEF TypeInv, TypeOK, Trial, TrialVars

LEMMA NextRoundType ==
  ASSUME TypeInv, NEW T, NextRound(T), UNCHANGED left
  PROVE  /\ pc' \in [Thread -> Labels]
         /\ idx' \in [Thread -> 1 .. Len(Sizes)]
         /\ Owed'
<1>1. ASSUME NEW t \in Thread, AnotherRound(idx[t])
      PROVE  idx[t] + 1 \in 1 .. Len(Sizes)
  <2>1. idx[t] \in 1 .. Len(Sizes)
    BY DEF TypeInv, TypeOK
  <2>2. QED
    BY <1>1, <2>1, RoundsType DEF AnotherRound
<1>2. idx' \in [Thread -> 1 .. Len(Sizes)]
  BY <1>1 DEF TypeInv, TypeOK, NextRound
<1>3. pc' \in [Thread -> Labels]
  BY DEF TypeInv, TypeOK, NextRound, Labels
<1>4. Owed'
  <2> SUFFICES ASSUME NEW t \in Thread, pc'[t] \in {"begin", "run", "end"}
               PROVE  left'[t] >= 1
    BY DEF Owed
  <2>1. pc'[t] = pc[t]
    BY DEF NextRound
  <2>2. QED
    BY <2>1 DEF TypeInv, Owed
<1>5. QED
  BY <1>2, <1>3, <1>4

LEMMA TypeStep == TypeInv /\ [Next]_vars => TypeInv'
<1> SUFFICES ASSUME TypeInv, [Next]_vars PROVE TypeInv'
  OBVIOUS
<1> USE DEF TypeInv
<1>1. CASE UNCHANGED vars
  BY <1>1 DEF vars, TypeOK, Owed
<1>2. CASE CallMemory
  <2>1. call' \in 0 .. Len(Calls)
    BY <1>2, ProgramAssumption DEF CallMemory, TypeOK
  <2>2. QED
    BY <1>2, <2>1, RoundsType DEF CallMemory, TypeOK, Owed, Labels, Cleared
<1>3. CASE CallFpeak
  <2>1. call' \in 0 .. Len(Calls)
    BY <1>3, ProgramAssumption DEF CallFpeak, TypeOK
  <2>2. Trial(0, 1)
    BY <1>3 DEF CallFpeak
  <2>3. TrialVars'
    BY <2>2, TrialType, ThreadZero
  <2>4. QED
    BY <1>3, <2>1, <2>3, RoundsType DEF CallFpeak, TypeOK, TrialVars, Cleared
<1>4. CASE Fork \/ PreSingle \/ DecideBarrier \/ Join
  BY <1>4 DEF Fork, PreSingle, DecideBarrier, Join, Move, TypeOK, Owed, Labels
<1>5. CASE PrintBarrier
  BY <1>5 DEF PrintBarrier, Move, TypeOK, Owed, Labels
<1>6. CASE BeginMeasure
  BY <1>6 DEF BeginMeasure, Move, TeamAt, TypeOK, Owed, Labels
<1>7. CASE EndMeasure
  <2>1. ASSUME NEW t \in Team
        PROVE  left[t] \in 1 .. TrialSections
    <3>1. t \in Thread /\ pc[t] = "end"
      BY <1>7, <2>1 DEF EndMeasure, TeamAt, Team
    <3>2. left[t] >= 1 /\ left[t] \in 0 .. TrialSections
      BY <3>1 DEF Owed, TypeOK
    <3>3. QED
      BY <3>2, TrialLength
  <2>2. left' \in [Thread -> 0 .. TrialSections]
    <3>1. ASSUME NEW t \in Thread
          PROVE  (IF t \in Team THEN left[t] - 1 ELSE left[t]) \in 0 .. TrialSections
      <4>1. left[t] \in 0 .. TrialSections
        BY DEF TypeOK
      <4>2. CASE t \in Team
        BY <2>1, <4>2, TrialLength
      <4>3. CASE t \notin Team
        BY <4>1, <4>3
      <4>4. QED
        BY <4>2, <4>3
    <3>2. QED
      BY <1>7, <3>1 DEF EndMeasure
  <2>3. pc' \in [Thread -> Labels]
    BY <1>7 DEF EndMeasure, AfterMeasure, TypeOK, Labels
  <2>4. Owed'
    <3> SUFFICES ASSUME NEW t \in Thread, pc'[t] \in {"begin", "run", "end"}
                 PROVE  left'[t] >= 1
      BY DEF Owed
    <3>1. CASE t \in Team
      <4>1. pc'[t] = AfterMeasure(t) /\ left'[t] = left[t] - 1
        BY <1>7, <3>1 DEF EndMeasure
      <4>2. left[t] > 1
        BY <4>1 DEF AfterMeasure
      <4>3. QED
        BY <2>1, <3>1, <4>1, <4>2, TrialLength
    <3>2. CASE t \notin Team
      BY <1>7, <3>2 DEF EndMeasure, Owed
    <3>3. QED
      BY <3>1, <3>2
  <2>5. QED
    BY <1>7, <2>2, <2>3, <2>4 DEF EndMeasure, TypeOK
<1>8. CASE EndRound
  BY <1>8, NextRoundType DEF EndRound, TypeOK
<1>9. ASSUME NEW t \in Thread, Round(t) PROVE TypeInv'
  <2>1. CASE Skipped(Program, idx[t])
    BY <1>9, <2>1, NextRoundType DEF Round, TypeOK
  <2>2. CASE ~ Skipped(Program, idx[t])
    BY <1>9, <2>2 DEF Round, Goto, TypeOK, Owed, Labels
  <2>3. QED
    BY <2>1, <2>2
<1>10. ASSUME NEW t \in Thread, Check(t) PROVE TypeInv'
  <2>1. CASE Trial(t, 1)
    <3>1. TrialVars'
      BY <2>1, TrialType
    <3>2. QED
      BY <1>10, <3>1 DEF Check, TypeOK, TrialVars
  <2>2. CASE Goto(t, "call") /\ UNCHANGED <<phase, left, trial>>
    BY <1>10, <2>2 DEF Check, Goto, TypeOK, Owed, Labels
  <2>3. QED
    BY <1>10, <2>1, <2>2 DEF Check
<1>11. ASSUME NEW t \in Thread, Run(t) \/ PassSingle(t) \/ Decide(t)
       PROVE  TypeInv'
  BY <1>11 DEF Run, PassSingle, Decide, Goto, TypeOK, Owed, Labels
<1>12. ASSUME NEW t \in Thread, ReadStop(t) PROVE TypeInv'
  <2>1. CASE test_stop
    BY <1>12, <2>1 DEF ReadStop, Goto, TypeOK, Owed, Labels
  <2>2. CASE ~test_stop
    <3>1. 2 * trial[t] \in Nat \ {0}
      BY SMTT(20) DEF TypeOK
    <3>2. TrialVars'
      BY <1>12, <2>2, <3>1, TrialType DEF ReadStop
    <3>3. QED
      BY <1>12, <3>2 DEF ReadStop, TypeOK, TrialVars
  <2>3. QED
    BY <2>1, <2>2
<1>13. ASSUME NEW t \in Thread, Store(t) PROVE TypeInv'
  BY <1>13 DEF Store, Goto, TypeOK, Owed, Labels
<1>14. ASSUME NEW t \in Thread, CallBenchmark(t) PROVE TypeInv'
  <2>1. Measures \in 0 .. TrialSections /\ Measures >= 1
    BY TrialLength, MeasureAssumption
  <2>2. QED
    BY <1>14, <2>1 DEF CallBenchmark, Goto, TypeOK, Owed, Labels
<1>15. ASSUME NEW t \in Thread, EnterCritical(t) \/ LoadResult(t) PROVE TypeInv'
  BY <1>15, GroupType DEF EnterCritical, LoadResult, Goto, TypeOK, Owed, Labels
<1>16. ASSUME NEW t \in Thread, AddResult(t) PROVE TypeInv'
  <2>1. WorkOf(Program, idx[t], used[t]) \in Nat
    BY WorkType DEF TypeOK
  <2>2. OutputAccumulate(seen[t], WorkOf(Program, idx[t], used[t])) \in Result
    <3>1. seen[t] \in Result
      BY DEF TypeOK, Result
    <3>2. QED
      BY <2>1, <3>1, AccumulateType
  <2>3. QED
    BY <1>16, <2>2, GroupType
    DEF AddResult, Goto, TypeOK, Owed, Labels, Result, Cleared
<1>17. ASSUME NEW t \in Thread, PrintOutputs(t) PROVE TypeInv'
  <2>1. log' \in Seq([Group -> [n : Nat, work : Nat]])
    BY <1>17 DEF PrintOutputs, TypeOK
  <2>2. out' \in [Group -> [n : Nat, work : Nat]]
    BY <1>17 DEF PrintOutputs, TypeOK, Cleared
  <2>3. QED
    BY <1>17, <2>1, <2>2 DEF PrintOutputs, Goto, TypeOK, Owed, Labels
<1>18. QED
  BY <1>1, <1>2, <1>3, <1>4, <1>5, <1>6, <1>7, <1>8, <1>9, <1>10, <1>11, <1>12,
     <1>13, <1>14, <1>15, <1>16, <1>17
  DEF Next, Step, Together

\* Types are preserved by every call, calibration, measure and print.
THEOREM TypeCorrect == Spec => []TypeOK
<1>1. Spec => []TypeInv
  BY InitTypeInv, TypeStep, PTL DEF Spec
<1>2. TypeInv => TypeOK
  BY DEF TypeInv
<1>3. QED
  BY <1>1, <1>2, PTL

(***************************************************************************)
(* Barriers                                                                *)
(***************************************************************************)
\* What a thread does between two timed sections, or before the print.
Untimed ==
  {"round", "pre", "check", "begin", "decide", "decided", "read", "store",
   "fork", "call", "lock", "load", "add", "gathered", "leave"}

\* The barriers keep the whole team on one side: none is timed, all are timed,
\* or the round is over and one thread at most prints.
Stages ==
  \/ \A t \in Team : pc[t] \in Untimed
  \/ \A t \in Team : pc[t] \in {"run", "end"}
  \/ /\ \A t \in Team : pc[t] \in {"print", "printed"}
     /\ \A t, u \in Team : pc[t] = "print" /\ pc[u] = "print" => t = u

LEMMA StagesStep == TypeOK /\ Stages /\ [Next]_vars => Stages'
<1> SUFFICES ASSUME TypeOK, Stages, [Next]_vars PROVE Stages'
  OBVIOUS
<1>0. pc \in [Thread -> Labels]
  BY DEF TypeOK
<1>1. CASE UNCHANGED vars
  BY <1>1 DEF vars, Stages, Team
<1>2. CASE CallMemory
  BY <1>0, <1>2 DEF CallMemory, Stages, Team, Untimed
<1>3. CASE CallFpeak
  BY <1>0, <1>3 DEF CallFpeak, Trial, Goto, Stages, Team, Untimed
<1>4. CASE Fork
  BY <1>0, <1>4 DEF Fork, Stages, Team, Untimed
<1>5. CASE PreSingle \/ DecideBarrier \/ Join
  BY <1>0, <1>5 DEF PreSingle, DecideBarrier, Join, Move, Stages, Team, Untimed
<1>6. CASE BeginMeasure
  BY <1>0, <1>6 DEF BeginMeasure, Move, Stages, Team
<1>7. CASE EndMeasure
  BY <1>0, <1>7 DEF EndMeasure, AfterMeasure, Stages, Team, Untimed
<1>8. CASE PrintBarrier
  BY <1>0, <1>8 DEF PrintBarrier, Move, Stages, Team
<1>9. CASE EndRound
  BY <1>0, <1>9 DEF EndRound, NextRound, Stages, Team, Untimed
<1>10. ASSUME NEW t \in Thread, Run(t) \/ PrintOutputs(t) PROVE Stages'
  BY <1>0, <1>10 DEF Run, PrintOutputs, Goto, Stages, Team, Untimed
<1>11. ASSUME NEW t \in Thread, NEW from \in Untimed, NEW to \in Untimed,
              pc[t] = from, pc' = [pc EXCEPT ![t] = to]
       PROVE  Stages'
  BY <1>0, <1>11 DEF Stages, Team, Untimed
<1>12. ASSUME NEW t \in Thread, Round(t) PROVE Stages'
  <2>1. pc[t] = "round"
    BY <1>12 DEF Round
  <2>2. \E to \in Untimed : pc' = [pc EXCEPT ![t] = to]
    <3>1. CASE Skipped(Program, idx[t])
      <4> DEFINE to == IF AnotherRound(idx[t]) THEN "round" ELSE "leave"
      <4>1. pc' = [pc EXCEPT ![t] = to]
        BY <1>0, <1>12, <3>1 DEF Round, NextRound
      <4>2. QED
        BY <4>1 DEF Untimed
    <3>2. CASE ~ Skipped(Program, idx[t])
      BY <1>12, <3>2 DEF Round, Goto, Untimed
    <3>3. QED
      BY <3>1, <3>2
  <2>3. "round" \in Untimed
    BY DEF Untimed
  <2>4. QED
    BY <1>11, <2>1, <2>2, <2>3
<1>13. ASSUME NEW t \in Thread, Check(t) \/ ReadStop(t) PROVE Stages'
  BY <1>11, <1>13 DEF Check, ReadStop, Trial, Goto, Untimed
<1>14. ASSUME NEW t \in Thread,
              Decide(t) \/ PassSingle(t) \/ Store(t) \/ CallBenchmark(t)
       PROVE  Stages'
  <2>1. \E from \in Untimed, to \in Untimed :
          pc[t] = from /\ pc' = [pc EXCEPT ![t] = to]
    BY <1>14 DEF Decide, PassSingle, Store, CallBenchmark, Goto, Untimed
  <2>2. QED
    BY <1>11, <2>1
<1>15. ASSUME NEW t \in Thread, EnterCritical(t) \/ LoadResult(t) \/ AddResult(t)
       PROVE  Stages'
  <2>1. \E from \in Untimed, to \in Untimed :
          pc[t] = from /\ pc' = [pc EXCEPT ![t] = to]
    BY <1>15 DEF EnterCritical, LoadResult, AddResult, Goto, Untimed
  <2>2. QED
    BY <1>11, <2>1
<1>16. QED
  BY <1>1, <1>2, <1>3, <1>4, <1>5, <1>6, <1>7, <1>8, <1>9, <1>10, <1>12, <1>13,
     <1>14, <1>15
  DEF Next, Step, Together

LEMMA StagesCorrect == Spec => []Stages
<1>1. Init => Stages
  BY DEF Init, Stages, Team
<1>2. QED
  BY <1>1, StagesStep, TypeCorrect, PTL DEF Spec

\* A timed section runs with nothing beside it but other timed sections, in any
\* team: what roofline_output_begin_measure and roofline_output_end_measure
\* measure is the benchmark alone.
THEOREM TimedTogetherCorrect == Spec => []TimedTogether
<1>1. TypeOK /\ Stages => TimedTogether
  BY DEF TypeOK, Stages, TimedTogether, Team, Untimed
<1>2. QED
  BY <1>1, TypeCorrect, StagesCorrect, PTL

\* Results are printed and cleared once all threads have gathered theirs and
\* before any begins the next round, in any team.
THEOREM PrintAloneCorrect == Spec => []PrintAlone
<1>1. TypeOK /\ Stages => PrintAlone
  BY DEF TypeOK, Stages, PrintAlone, Team, Untimed
<1>2. QED
  BY <1>1, TypeCorrect, StagesCorrect, PTL

(***************************************************************************)
(* Rounds                                                                  *)
(***************************************************************************)
\* What a thread times now, or is bound to time next: what it is, how many
\* sections it owes, with which repeat.
Ahead(t) ==
  CASE pc[t] \in {"begin", "run", "end"} ->
         <<phase[t], left[t], IF phase[t] = "calib" THEN trial[t] ELSE used[t]>>
    [] pc[t] = "check" ->
         IF repeat > 1 THEN <<"calib", TrialSections, 1>>
                       ELSE <<"bench", Measures, repeat>>
    [] pc[t] \in {"decide", "decided"} -> <<"calib", 0, trial[t]>>
    [] pc[t] = "read" ->
         IF test_stop THEN <<"bench", Measures, trial[t]>>
                      ELSE <<"calib", TrialSections, 2 * trial[t]>>
    [] pc[t] = "store" -> <<"bench", Measures, trial[t]>>
    [] pc[t] \in {"fork", "round", "call"} -> <<"bench", Measures, repeat>>
    [] OTHER -> <<"bench", 0, used[t]>>

\* Where the threads of a region can be together once they agree on a round.
MemoryStages ==
  {{"check", "begin", "call"}, {"run", "end"}, {"decide", "decided"},
   {"read", "store", "begin", "call"}, {"lock", "load", "add", "gathered"},
   {"print", "printed"}}

PeakStages ==
  {{"round", "begin", "call"}, {"run", "end"},
   {"lock", "load", "add", "gathered"}, {"print", "printed"}}

\* Between two calls.
Waiting == \A t \in Thread : pc[t] = "out"

\* The master calibrates for roofline_fpeak, before the region.
Alone ==
  /\ Program = "fpeak"
  /\ pc[0] \in {"begin", "run", "end", "decide", "decided", "read", "store", "fork"}
  /\ pc[0] \in {"begin", "run", "end"} => phase[0] = "calib"
  /\ \A t \in Thread \ {0} : pc[t] = "out"
  /\ \A t \in Thread : idx[t] = 1

\* The first size a thread has not passed.
Position(t) == IF pc[t] = "leave" THEN idx[t] + 1 ELSE idx[t]

\* The threads look for the next size, or leave: one of them is ahead of
\* another only by sizes that are skipped.
Choosing ==
  /\ \A t \in Thread : pc[t] \in {"round", "pre", "leave"}
  /\ Program = "memory" \/ \A t \in Thread : pc[t] = "leave"
  /\ \A t \in Thread :
       /\ pc[t] = "pre" => ~ Skipped(Program, idx[t])
       /\ pc[t] = "leave" => idx[t] = Len(Sizes)
  /\ \A t, u \in Thread, k \in 1 .. Len(Sizes) :
       Position(t) <= k /\ k < Position(u) => Skipped(Program, k)

\* The threads agree on the round, which is not skipped, and on what is ahead.
Measuring ==
  /\ \/ /\ Program = "memory"
        /\ \E S \in MemoryStages : \A t \in Thread : pc[t] \in S
     \/ /\ Program = "fpeak"
        /\ \E S \in PeakStages : \A t \in Thread : pc[t] \in S
        /\ \A t \in Thread : Ahead(t)[1] = "bench"
  /\ \A t \in Thread : ~ Skipped(Program, idx[t])
  /\ \A t, u \in Thread : idx[t] = idx[u] /\ Ahead(t) = Ahead(u)

RoundInv == Waiting \/ Alone \/ Choosing \/ Measuring

LEMMA WaitingStep ==
  ASSUME TypeInv, Waiting, Next
  PROVE  Waiting' \/ (Alone' /\ CallFpeak) \/ (Choosing' /\ CallMemory)
<1>1. Team = {}
  BY DEF Waiting, Team
<1>2. CASE CallMemory
  <2>1. Program' = "memory"
    BY <1>2 DEF CallMemory, Program
  <2>2. \A t \in Thread : pc'[t] = "round" /\ idx'[t] = 1
    BY <1>2 DEF CallMemory
  <2>3. \A t \in Thread : Position(t)' = 1
    BY <2>2 DEF Position
  <2>4. QED
    BY <1>2, <2>1, <2>2, <2>3 DEF Choosing
<1>3. CASE CallFpeak
  <2>1. Program' = "fpeak"
    BY <1>3 DEF CallFpeak, Program
  <2>2. /\ pc' = [pc EXCEPT ![0] = "begin"]
        /\ phase' = [phase EXCEPT ![0] = "calib"]
        /\ idx' = [t \in Thread |-> 1]
    BY <1>3 DEF CallFpeak, Trial, Goto
  <2>3. QED
    BY <1>3, <2>1, <2>2, ThreadZero DEF Alone, Waiting, TypeInv, TypeOK
<1>4. CASE \E t \in Thread : Step(t)
  BY <1>4 DEF Waiting, Step, Round, Check, Run, Decide, PassSingle, ReadStop, Store,
     CallBenchmark, EnterCritical, LoadResult, AddResult, PrintOutputs
<1>5. CASE Together
  BY <1>1, <1>5 DEF Together, TeamAt, PreSingle, BeginMeasure, EndMeasure,
     DecideBarrier, PrintBarrier, EndRound, Fork, Join
<1>6. CASE UNCHANGED vars
  BY <1>6 DEF vars, Waiting
<1>7. QED
  BY <1>2, <1>3, <1>4, <1>5, <1>6 DEF Next

LEMMA AloneStep ==
  ASSUME TypeInv, Alone, Next
  PROVE  Alone' \/ (Measuring' /\ Fork)
<1>1. Team = {0}
  BY ThreadZero DEF Alone, Team
<1>2. pc \in [Thread -> Labels] /\ phase \in [Thread -> {"calib", "bench"}]
  BY DEF TypeInv, TypeOK
<1>3. ASSUME NEW label \in {"begin", "run", "end", "decide", "decided", "read",
                           "store", "fork"},
             pc' = [pc EXCEPT ![0] = label],
             label \in {"begin", "run", "end"} => phase'[0] = "calib",
             UNCHANGED <<call, idx>>
      PROVE  Alone'
  BY <1>2, <1>3, ThreadZero DEF Alone, Program
<1>4. CASE \E t \in Thread : Step(t)
  <2>1. PICK t \in Thread : Step(t)
    BY <1>4
  <2>2. t = 0
    BY <2>1 DEF Alone, Step, Round, Check, Run, Decide, PassSingle, ReadStop,
       Store, CallBenchmark, EnterCritical, LoadResult, AddResult, PrintOutputs
  <2>3. Run(0) \/ Decide(0) \/ PassSingle(0) \/ ReadStop(0) \/ Store(0)
    BY <2>1, <2>2 DEF Alone, Step, Round, Check, CallBenchmark, EnterCritical,
       LoadResult, AddResult, PrintOutputs
  <2>4. CASE Run(0)
    BY <1>3, <2>4 DEF Run, Goto, Alone
  <2>5. CASE Decide(0) \/ PassSingle(0)
    BY <1>3, <2>5 DEF Decide, PassSingle, Goto
  <2>6. CASE ReadStop(0)
    BY <1>2, <1>3, <2>6, ThreadZero DEF ReadStop, Trial, Goto
  <2>7. CASE Store(0)
    BY <1>3, <2>7 DEF Store, Goto, Alone
  <2>8. QED
    BY <2>3, <2>4, <2>5, <2>6, <2>7
<1>5. CASE BeginMeasure
  <2>1. pc' = [pc EXCEPT ![0] = "run"] /\ pc[0] = "begin"
    BY <1>1, <1>2, <1>5, ThreadZero DEF BeginMeasure, Move, TeamAt
  <2>2. QED
    BY <1>3, <1>5, <2>1 DEF BeginMeasure, Alone
<1>6. CASE EndMeasure
  <2>1. pc[0] = "end" /\ phase[0] = "calib"
    BY <1>1, <1>6 DEF EndMeasure, TeamAt, Alone
  <2>2. pc' = [pc EXCEPT ![0] = AfterMeasure(0)]
    BY <1>1, <1>2, <1>6, ThreadZero DEF EndMeasure
  <2>3. left[0] \in Nat
    BY ThreadZero, TrialLength DEF TypeInv, TypeOK
  <2>4. AfterMeasure(0) \in {"begin", "decide"}
    BY <2>1, <2>3 DEF AfterMeasure
  <2>5. QED
    BY <1>3, <1>6, <2>1, <2>2, <2>4 DEF EndMeasure
<1>7. CASE DecideBarrier
  <2>1. pc' = [pc EXCEPT ![0] = "read"]
    BY <1>1, <1>2, <1>7, ThreadZero DEF DecideBarrier, Move
  <2>2. QED
    BY <1>3, <1>7, <2>1 DEF DecideBarrier
<1>8. CASE Fork
  <2>1. /\ \A t \in Thread : pc'[t] = "round"
        /\ UNCHANGED <<call, idx, repeat, phase>>
    BY <1>8 DEF Fork
  <2>2. \A t \in Thread : Ahead(t)' = <<"bench", Measures, repeat>>
    BY <2>1 DEF Ahead
  <2>3. \A t \in Thread : ~ Skipped(Program, idx[t])'
    BY <2>1 DEF Alone, Skipped, Program
  <2>4. \E S \in PeakStages : \A t \in Thread : pc'[t] \in S
    BY <2>1 DEF PeakStages
  <2>5. Measuring'
    BY <2>1, <2>2, <2>3, <2>4 DEF Measuring, Alone, Program
  <2>6. QED
    BY <1>8, <2>5
<1>9. CASE PreSingle \/ PrintBarrier \/ EndRound \/ Join
  BY <1>1, <1>9 DEF PreSingle, PrintBarrier, EndRound, Join, TeamAt, Alone
<1>10. CASE CallMemory \/ CallFpeak
  BY <1>1, <1>10 DEF CallMemory, CallFpeak
<1>11. CASE UNCHANGED vars
  BY <1>11 DEF vars, Alone, Program
<1>12. QED
  BY <1>4, <1>5, <1>6, <1>7, <1>8, <1>9, <1>10, <1>11 DEF Next, Together

LEMMA ChoosingStep ==
  ASSUME TypeInv, Choosing, Next
  PROVE  Waiting' \/ Choosing' \/ (Measuring' /\ PreSingle)
<1>1. Team = Thread /\ 0 \in Thread
  BY ThreadZero DEF Choosing, Team
<1>2. /\ pc \in [Thread -> Labels]
      /\ idx \in [Thread -> 1 .. Len(Sizes)]
      /\ Len(Sizes) \in Nat
  BY RoundsType DEF TypeInv, TypeOK
<1>3. CASE \E t \in Thread : Step(t)
  <2>1. PICK t \in Thread : Step(t)
    BY <1>3
  <2>2. Round(t)
    BY <2>1 DEF Choosing, Step, Round, Check, Run, Decide, PassSingle, ReadStop,
       Store, CallBenchmark, EnterCritical, LoadResult, AddResult, PrintOutputs
  <2>3. Program = "memory" /\ Program' = Program /\ pc[t] = "round"
    BY <2>2 DEF Round, Choosing, Program
  <2>4. CASE Skipped(Program, idx[t])
    <3>1. NextRound({t})
      BY <2>2, <2>4 DEF Round
    <3>2. \A u \in Thread \ {t} : pc'[u] = pc[u] /\ idx'[u] = idx[u]
      BY <1>2, <3>1 DEF NextRound
    <3>3. IF AnotherRound(idx[t])
            THEN pc'[t] = "round" /\ idx'[t] = idx[t] + 1
            ELSE pc'[t] = "leave" /\ idx'[t] = idx[t]
      BY <1>2, <3>1 DEF NextRound
    <3>4. pc'[t] = "leave" => idx'[t] = Len(Sizes)
      BY <1>2, <3>3 DEF AnotherRound
    <3>5. /\ Position(t) = idx[t]
          /\ Position(t)' = Position(t) + 1
          /\ \A u \in Thread \ {t} : Position(u)' = Position(u)
      BY <2>3, <3>2, <3>3 DEF Position
    <3>6. \A u \in Thread : Position(u) \in Int
      BY <1>2 DEF Position
    <3>7. ASSUME NEW a \in Thread, NEW b \in Thread, NEW k \in 1 .. Len(Sizes),
                 Position(a)' <= k, k < Position(b)'
          PROVE  Skipped(Program, k)
      <4>1. CASE b = t /\ k = Position(t)
        BY <2>4, <3>5, <4>1
      <4>2. CASE ~ (b = t /\ k = Position(t))
        <5>1. Position(a) <= k /\ k < Position(b)
          BY <1>2, <3>5, <3>6, <3>7, <4>2
        <5>2. QED
          BY <5>1 DEF Choosing
      <4>3. QED
        BY <4>1, <4>2
    <3>8. \A u \in Thread : pc'[u] \in {"round", "pre", "leave"}
      BY <3>2, <3>3 DEF Choosing
    <3>9. \A u \in Thread : /\ pc'[u] = "pre" => ~ Skipped(Program, idx'[u])
                            /\ pc'[u] = "leave" => idx'[u] = Len(Sizes)
      BY <3>2, <3>3, <3>4 DEF Choosing
    <3>10. \A k : Skipped(Program, k)' = Skipped(Program, k)
      BY <2>3 DEF Skipped
    <3>11. \A u \in Thread : Skipped(Program, idx[u])' = Skipped(Program, idx'[u])
      BY <2>3 DEF Skipped
    <3>12. Choosing'
      BY <2>3, <3>7, <3>8, <3>9, <3>10, <3>11 DEF Choosing
    <3>13. QED
      BY <3>12
  <2>5. CASE ~ Skipped(Program, idx[t])
    <3>1. pc' = [pc EXCEPT ![t] = "pre"] /\ UNCHANGED <<call, idx>>
      BY <2>2, <2>3, <2>5 DEF Round, Goto
    <3>2. \A u \in Thread : Position(u)' = Position(u)
      BY <1>2, <2>3, <3>1 DEF Position
    <3>3. \A k : Skipped(Program, k)' = Skipped(Program, k)
      BY <2>3 DEF Skipped
    <3>4. \A u \in Thread : Skipped(Program, idx[u])' = Skipped(Program, idx[u])
      BY <2>3, <3>1 DEF Skipped
    <3>5. Choosing'
      BY <1>2, <2>3, <2>5, <3>1, <3>2, <3>3, <3>4 DEF Choosing
    <3>6. QED
      BY <3>5
  <2>6. QED
    BY <2>4, <2>5
<1>4. CASE PreSingle
  <2>1. /\ \A t \in Thread : pc[t] = "pre" /\ pc'[t] = "check"
        /\ UNCHANGED <<call, idx, repeat>>
    BY <1>1, <1>4 DEF PreSingle, TeamAt, Move
  <2>2. Program = "memory" /\ Program' = "memory"
    BY <1>1, <2>1 DEF Choosing, Program
  <2>3. ASSUME NEW t \in Thread, NEW u \in Thread
        PROVE  ~ (idx[t] < idx[u])
    <3> SUFFICES ASSUME idx[t] < idx[u] PROVE FALSE
      OBVIOUS
    <3>1. idx[t] \in 1 .. Len(Sizes) /\ Position(t) = idx[t] /\ Position(u) = idx[u]
      BY <1>2, <2>1 DEF Position
    <3>2. Skipped(Program, idx[t])
      BY <1>2, <3>1 DEF Choosing
    <3>3. QED
      BY <2>1, <3>2 DEF Choosing
  <2>4. \A t, u \in Thread : idx'[t] = idx'[u]
    BY <1>2, <2>1, <2>3
  <2>5. \A t \in Thread :
          Ahead(t)' = IF repeat > 1 THEN <<"calib", TrialSections, 1>>
                                    ELSE <<"bench", Measures, repeat>>
    BY <2>1 DEF Ahead
  <2>6. \A t \in Thread : ~ Skipped(Program, idx[t])'
    BY <2>1, <2>2 DEF Choosing, Skipped
  <2>7. \E S \in MemoryStages : \A t \in Thread : pc'[t] \in S
    BY <2>1 DEF MemoryStages
  <2>8. Measuring'
    BY <2>2, <2>4, <2>5, <2>6, <2>7 DEF Measuring
  <2>9. QED
    BY <1>4, <2>8
<1>5. CASE Join
  BY <1>1, <1>5 DEF Join, Move, Waiting
<1>6. CASE BeginMeasure \/ EndMeasure \/ DecideBarrier \/ PrintBarrier \/ EndRound \/ Fork
  BY <1>1, <1>6 DEF BeginMeasure, EndMeasure, DecideBarrier, PrintBarrier, EndRound,
     Fork, TeamAt, Choosing
<1>7. CASE CallMemory \/ CallFpeak
  BY <1>1, <1>7 DEF CallMemory, CallFpeak
<1>8. CASE UNCHANGED vars
  <2>1. UNCHANGED <<pc, idx, call>>
    BY <1>8 DEF vars
  <2>2. Choosing'
    BY <2>1 DEF Choosing, Position, Skipped, Program
  <2>3. QED
    BY <2>2
<1>9. QED
  BY <1>3, <1>4, <1>5, <1>6, <1>7, <1>8 DEF Next, Together

\* A step of one thread within a stage, which leaves what is ahead as it was.
LEMMA WithinStage ==
  ASSUME TypeInv, Measuring, NEW t \in Thread, NEW from, NEW to,
         pc[t] = from, pc' = [pc EXCEPT ![t] = to],
         Program = "memory" => \A S \in MemoryStages : from \in S => to \in S,
         Program = "fpeak" => \A S \in PeakStages : from \in S => to \in S,
         UNCHANGED <<call, idx>>,
         \A u \in Thread : Ahead(u)' = Ahead(u)
  PROVE  RoundInv'
<1>1. Program' = Program /\ pc \in [Thread -> Labels]
  BY DEF Program, TypeInv, TypeOK
<1>2. ASSUME NEW S, from \in S => to \in S, \A u \in Thread : pc[u] \in S
      PROVE  \A u \in Thread : pc'[u] \in S
  BY <1>1, <1>2
<1>3. \A u \in Thread : ~ Skipped(Program, idx[u])'
  BY <1>1 DEF Measuring, Skipped
<1>4. CASE Program = "memory"
  <2>1. \E S \in MemoryStages : \A u \in Thread : pc'[u] \in S
    BY <1>2, <1>4 DEF Measuring
  <2>2. QED
    BY <1>1, <1>3, <1>4, <2>1 DEF Measuring, RoundInv
<1>5. CASE Program = "fpeak"
  <2>1. \E S \in PeakStages : \A u \in Thread : pc'[u] \in S
    BY <1>2, <1>5 DEF Measuring
  <2>2. \A u \in Thread : Ahead(u)'[1] = "bench"
    BY <1>5 DEF Measuring
  <2>3. QED
    BY <1>1, <1>3, <1>5, <2>1, <2>2 DEF Measuring, RoundInv
<1>6. QED
  BY <1>4, <1>5 DEF Measuring

\* A thread that acts on its own does not change what is ahead of any: it does
\* what was expected, and the repeat it stores is the one the others read.
LEMMA AheadKept ==
  ASSUME TypeInv, Alone \/ Measuring, NEW t \in Thread, Step(t)
  PROVE  \A u \in Team : Ahead(u)' = Ahead(u)
<1>0. /\ pc \in [Thread -> Labels]
      /\ phase \in [Thread -> {"calib", "bench"}]
      /\ trial \in [Thread -> Nat \ {0}]
      /\ left \in [Thread -> 0 .. TrialSections]
      /\ used \in [Thread -> Nat]
      /\ repeat \in Nat \ {0}
  BY DEF TypeInv, TypeOK
<1> USE DEF Team
<1>1. CASE Round(t)
  <2>1. pc[t] = "round" /\ Program = "fpeak"
    BY <1>1, ThreadZero DEF Round, Alone, Measuring, MemoryStages
  <2>2. Measuring
    BY <2>1 DEF Alone
  <2>3. ~ Skipped(Program, idx[t])
    BY <2>2 DEF Measuring
  <2>4. /\ pc' = [pc EXCEPT ![t] = "call"]
        /\ UNCHANGED <<phase, left, trial, used, repeat, test_stop>>
    BY <1>1, <2>1, <2>3 DEF Round, Goto
  <2>5. QED
    BY <1>0, <2>1, <2>4 DEF Ahead
<1>2. CASE Check(t)
  <2>1. pc[t] = "check" /\ UNCHANGED <<used, repeat, test_stop>>
    BY <1>2 DEF Check
  <2>2. CASE repeat > 1
    <3>1. /\ pc' = [pc EXCEPT ![t] = "begin"]
          /\ phase' = [phase EXCEPT ![t] = "calib"]
          /\ left' = [left EXCEPT ![t] = TrialSections]
          /\ trial' = [trial EXCEPT ![t] = 1]
      BY <1>0, <1>2, <2>2 DEF Check, Trial, Goto
    <3>2. QED
      BY <1>0, <2>1, <2>2, <3>1 DEF Ahead
  <2>3. CASE ~ (repeat > 1)
    <3>1. pc' = [pc EXCEPT ![t] = "call"] /\ UNCHANGED <<phase, left, trial>>
      BY <1>0, <1>2, <2>3 DEF Check, Goto
    <3>2. QED
      BY <1>0, <2>1, <2>3, <3>1 DEF Ahead
  <2>4. QED
    BY <2>2, <2>3
<1>3. CASE Run(t)
  <2>1. /\ pc[t] = "run" /\ pc' = [pc EXCEPT ![t] = "end"]
        /\ UNCHANGED <<phase, left, trial, used, repeat, test_stop>>
    BY <1>3 DEF Run, Goto
  <2>2. QED
    BY <1>0, <2>1 DEF Ahead
<1>4. CASE Decide(t) \/ PassSingle(t)
  <2>1. /\ pc[t] = "decide" /\ pc' = [pc EXCEPT ![t] = "decided"]
        /\ UNCHANGED <<phase, left, trial, used, repeat>>
    BY <1>4 DEF Decide, PassSingle, Goto
  <2>2. \A u \in Team : pc[u] \in {"decide", "decided"}
    BY <2>1 DEF Alone, Measuring, MemoryStages, PeakStages
  <2>3. QED
    BY <1>0, <2>1, <2>2 DEF Ahead
<1>5. CASE ReadStop(t)
  <2>1. pc[t] = "read" /\ UNCHANGED <<used, repeat, test_stop>>
    BY <1>5 DEF ReadStop
  <2>2. CASE test_stop
    <3>1. pc' = [pc EXCEPT ![t] = "store"] /\ UNCHANGED <<phase, left, trial>>
      BY <1>5, <2>2 DEF ReadStop, Goto
    <3>2. QED
      BY <1>0, <2>1, <2>2, <3>1 DEF Ahead
  <2>3. CASE ~test_stop
    <3>1. /\ pc' = [pc EXCEPT ![t] = "begin"]
          /\ phase' = [phase EXCEPT ![t] = "calib"]
          /\ left' = [left EXCEPT ![t] = TrialSections]
          /\ trial' = [trial EXCEPT ![t] = 2 * trial[t]]
      BY <1>5, <2>3 DEF ReadStop, Trial, Goto
    <3>2. QED
      BY <1>0, <2>1, <2>3, <3>1 DEF Ahead
  <2>4. QED
    BY <2>2, <2>3
<1>6. CASE Store(t)
  <2>1. /\ pc[t] = "store" /\ repeat' = trial[t]
        /\ pc' = [pc EXCEPT ![t] = IF Program = "memory" THEN "call" ELSE "fork"]
        /\ UNCHANGED <<phase, left, trial, used, test_stop>>
    BY <1>6 DEF Store, Goto
  <2>2. \A u \in Team : u # t => pc[u] \in {"read", "store", "begin", "call"}
    BY <2>1 DEF Alone, Measuring, MemoryStages, PeakStages
  <2>3. \A u \in Team : pc[u] = "call" => repeat = trial[t]
    <3>1. Ahead(t) = <<"bench", Measures, trial[t]>>
      BY <2>1 DEF Ahead
    <3>2. \A u \in Thread : pc[u] = "call" => Ahead(u) = <<"bench", Measures, repeat>>
      BY DEF Ahead
    <3>3. CASE Measuring
      BY <3>1, <3>2, <3>3 DEF Measuring
    <3>4. CASE Alone
      BY <3>4 DEF Alone
    <3>5. QED
      BY <3>3, <3>4
  <2>4. SUFFICES ASSUME NEW u \in Team PROVE Ahead(u)' = Ahead(u)
    OBVIOUS
  <2>5. CASE u = t
    <3>1. pc'[u] \in {"call", "fork"}
      BY <1>0, <2>1, <2>5
    <3>2. Ahead(u)' = <<"bench", Measures, trial[t]>>
      BY <2>1, <3>1 DEF Ahead
    <3>3. QED
      BY <2>1, <2>5, <3>2 DEF Ahead
  <2>6. CASE u # t /\ pc[u] = "call"
    BY <1>0, <2>1, <2>3, <2>6 DEF Ahead
  <2>7. CASE u # t /\ pc[u] # "call"
    BY <1>0, <2>1, <2>2, <2>7 DEF Ahead
  <2>8. QED
    BY <2>5, <2>6, <2>7
<1>7. CASE CallBenchmark(t)
  <2>1. /\ pc[t] = "call" /\ pc' = [pc EXCEPT ![t] = "begin"]
        /\ used' = [used EXCEPT ![t] = repeat]
        /\ phase' = [phase EXCEPT ![t] = "bench"]
        /\ left' = [left EXCEPT ![t] = Measures]
        /\ UNCHANGED <<trial, repeat, test_stop>>
    BY <1>7 DEF CallBenchmark, Goto
  <2>2. QED
    BY <1>0, <2>1 DEF Ahead
<1>8. CASE EnterCritical(t) \/ LoadResult(t) \/ AddResult(t) \/ PrintOutputs(t)
  <2>1. /\ pc[t] \in {"lock", "load", "add", "print"}
        /\ \E to \in {"load", "add", "gathered", "printed"} :
             pc' = [pc EXCEPT ![t] = to]
        /\ UNCHANGED <<phase, left, trial, used, repeat, test_stop>>
    BY <1>8 DEF EnterCritical, LoadResult, AddResult, PrintOutputs, Goto
  <2>2. QED
    BY <1>0, <2>1 DEF Ahead
<1>9. QED
  BY <1>1, <1>2, <1>3, <1>4, <1>5, <1>6, <1>7, <1>8 DEF Step

LEMMA MeasuringThread ==
  ASSUME TypeInv, Measuring, NEW t \in Thread, Step(t)
  PROVE  RoundInv'
<1>0. \A u \in Thread : Ahead(u)' = Ahead(u)
  <2>1. Team = Thread
    BY DEF Measuring, MemoryStages, PeakStages, Team
  <2>2. QED
    BY <2>1, AheadKept
<1>1. CASE Round(t)
  <2>1. pc[t] = "round" /\ Program = "fpeak"
    BY <1>1 DEF Round, Measuring, MemoryStages
  <2>2. ~ Skipped(Program, idx[t])
    BY DEF Measuring
  <2>3. pc' = [pc EXCEPT ![t] = "call"] /\ UNCHANGED <<call, idx>>
    BY <1>1, <2>1, <2>2 DEF Round, Goto
  <2>4. \A S \in PeakStages : "round" \in S => "call" \in S
    BY DEF PeakStages
  <2>5. QED
    BY <1>0, <2>1, <2>3, <2>4, WithinStage
<1>2. CASE Check(t)
  <2>1. /\ pc[t] = "check" /\ Program = "memory" /\ UNCHANGED <<call, idx>>
        /\ \E to \in {"begin", "call"} : pc' = [pc EXCEPT ![t] = to]
    BY <1>2 DEF Check, Trial, Goto, Measuring, PeakStages
  <2>2. \A S \in MemoryStages : "check" \in S => "begin" \in S /\ "call" \in S
    BY DEF MemoryStages
  <2>3. QED
    BY <1>0, <2>1, <2>2, WithinStage
<1>3. CASE Run(t) \/ Decide(t) \/ PassSingle(t) \/ CallBenchmark(t)
  <2>1. PICK from \in {"run", "decide", "call"}, to \in {"end", "decided", "begin"} :
               /\ pc[t] = from /\ pc' = [pc EXCEPT ![t] = to]
               /\ <<from, to>> \in {<<"run", "end">>, <<"decide", "decided">>,
                                    <<"call", "begin">>}
    BY <1>3 DEF Run, Decide, PassSingle, CallBenchmark, Goto
  <2>2. UNCHANGED <<call, idx>>
    BY <1>3 DEF Run, Decide, PassSingle, CallBenchmark
  <2>3. \A S \in MemoryStages \union PeakStages : from \in S => to \in S
    BY <2>1 DEF MemoryStages, PeakStages
  <2>4. QED
    BY <1>0, <2>1, <2>2, <2>3, WithinStage
<1>4. CASE ReadStop(t)
  <2>1. /\ pc[t] = "read" /\ UNCHANGED <<call, idx>>
        /\ \E to \in {"store", "begin"} : pc' = [pc EXCEPT ![t] = to]
    BY <1>4 DEF ReadStop, Trial, Goto
  <2>2. \A S \in MemoryStages \union PeakStages :
          "read" \in S => "store" \in S /\ "begin" \in S
    BY DEF MemoryStages, PeakStages
  <2>3. QED
    BY <1>0, <2>1, <2>2, WithinStage
<1>5. CASE Store(t)
  <2>1. pc[t] = "store" /\ Program = "memory"
    BY <1>5 DEF Store, Measuring, PeakStages
  <2>2. pc' = [pc EXCEPT ![t] = "call"] /\ UNCHANGED <<call, idx>>
    BY <1>5, <2>1 DEF Store, Goto
  <2>3. \A S \in MemoryStages : "store" \in S => "call" \in S
    BY DEF MemoryStages
  <2>4. QED
    BY <1>0, <2>1, <2>2, <2>3, WithinStage
<1>6. CASE EnterCritical(t) \/ LoadResult(t) \/ AddResult(t) \/ PrintOutputs(t)
  <2>1. PICK from \in {"lock", "load", "add", "print"},
             to \in {"load", "add", "gathered", "printed"} :
               /\ pc[t] = from /\ pc' = [pc EXCEPT ![t] = to]
               /\ <<from, to>> \in {<<"lock", "load">>, <<"load", "add">>,
                                    <<"add", "gathered">>, <<"print", "printed">>}
    BY <1>6 DEF EnterCritical, LoadResult, AddResult, PrintOutputs, Goto
  <2>2. UNCHANGED <<call, idx>>
    BY <1>6 DEF EnterCritical, LoadResult, AddResult, PrintOutputs
  <2>3. \A S \in MemoryStages \union PeakStages : from \in S => to \in S
    BY <2>1 DEF MemoryStages, PeakStages
  <2>4. QED
    BY <1>0, <2>1, <2>2, <2>3, WithinStage
<1>7. QED
  BY <1>1, <1>2, <1>3, <1>4, <1>5, <1>6 DEF Step

\* The whole team moves to a stage of the same program.
LEMMA ToStage ==
  ASSUME Measuring, NEW S \in MemoryStages \intersect PeakStages,
         \A t \in Thread : pc'[t] \in S, UNCHANGED <<call, idx>>,
         \A t \in Thread : Ahead(t)' = Ahead(t)
  PROVE  RoundInv'
<1>1. Program' = Program
  BY DEF Program
<1>2. \A u \in Thread : ~ Skipped(Program, idx[u])'
  BY <1>1 DEF Measuring, Skipped
<1>3. QED
  BY <1>1, <1>2 DEF Measuring, RoundInv

LEMMA MeasuringTogether ==
  ASSUME TypeInv, Measuring, Together
  PROVE  RoundInv'
<1>0. /\ pc \in [Thread -> Labels]
      /\ phase \in [Thread -> {"calib", "bench"}]
      /\ left \in [Thread -> 0 .. TrialSections]
      /\ idx \in [Thread -> 1 .. Len(Sizes)]
      /\ Len(Sizes) \in Nat /\ TrialSections \in Nat
      /\ 0 \in Thread
  BY RoundsType, TrialLength, ThreadZero DEF TypeInv, TypeOK
<1>1. Team = Thread
  BY DEF Measuring, MemoryStages, PeakStages, Team
<1>2. CASE BeginMeasure
  <2>1. /\ \A t \in Thread : pc[t] = "begin" /\ pc'[t] = "run"
        /\ UNCHANGED <<call, idx, phase, left, trial, used, repeat, test_stop>>
    BY <1>1, <1>2 DEF BeginMeasure, TeamAt, Move
  <2>2. \A t \in Thread : Ahead(t)' = Ahead(t)
    BY <2>1 DEF Ahead
  <2>3. {"run", "end"} \in MemoryStages \intersect PeakStages
    BY DEF MemoryStages, PeakStages
  <2>4. QED
    BY <2>1, <2>2, <2>3, ToStage
<1>3. CASE EndMeasure
  <2>1. /\ \A t \in Thread : /\ pc[t] = "end" /\ pc'[t] = AfterMeasure(t)
                             /\ left'[t] = left[t] - 1
        /\ UNCHANGED <<call, idx, phase, trial, used, repeat, test_stop>>
    BY <1>1, <1>3 DEF EndMeasure, TeamAt
  <2>2. \A t \in Thread :
          Ahead(t) = <<phase[t], left[t],
                       IF phase[t] = "calib" THEN trial[t] ELSE used[t]>>
    BY <2>1 DEF Ahead
  <2>3. \A t, u \in Thread :
          /\ phase[t] = phase[u] /\ left[t] = left[u]
          /\ phase[t] = "calib" => trial[t] = trial[u]
          /\ phase[t] # "calib" => used[t] = used[u]
    BY <2>2 DEF Measuring
  <2>4. \A t \in Thread : left[t] >= 1 /\ left[t] \in Int
    BY <1>0, <2>1 DEF TypeInv, Owed
  <2>5. ASSUME NEW t \in Thread
        PROVE  Ahead(t)' = <<phase[t], left[t] - 1,
                             IF phase[t] = "calib" THEN trial[t] ELSE used[t]>>
    <3>1. CASE left[t] > 1
      <4>1. pc'[t] = "begin"
        BY <2>1, <2>4, <3>1 DEF AfterMeasure
      <4>2. Ahead(t)' = <<phase'[t], left'[t],
                          IF phase'[t] = "calib" THEN trial'[t] ELSE used'[t]>>
        BY <4>1 DEF Ahead
      <4>3. /\ phase'[t] = phase[t] /\ left'[t] = left[t] - 1
            /\ trial'[t] = trial[t] /\ used'[t] = used[t]
        BY <2>1
      <4>4. QED
        BY <4>2, <4>3, Zenon
    <3>2. CASE ~ (left[t] > 1) /\ phase[t] = "calib"
      <4>1. pc'[t] = "decide" /\ left[t] - 1 = 0
        BY <2>1, <2>4, <3>2 DEF AfterMeasure
      <4>2. QED
        BY <2>1, <3>2, <4>1 DEF Ahead
    <3>3. CASE ~ (left[t] > 1) /\ phase[t] # "calib"
      <4>1. pc'[t] = "lock" /\ left[t] - 1 = 0 /\ phase[t] = "bench"
        BY <1>0, <2>1, <2>4, <3>3 DEF AfterMeasure
      <4>2. QED
        BY <2>1, <3>3, <4>1 DEF Ahead
    <3>4. QED
      BY <3>1, <3>2, <3>3
  <2>6. \A t, u \in Thread : Ahead(t)' = Ahead(u)'
    BY <2>3, <2>5
  <2>7. /\ \A t, u \in Thread : pc'[t] = pc'[u]
        /\ \A t \in Thread : pc'[t] \in {"begin", "decide", "lock"}
        /\ \A t \in Thread : pc'[t] = "decide" => phase[t] = "calib"
    BY <2>1, <2>3 DEF AfterMeasure
  <2>8. Program' = Program /\ \A t \in Thread : ~ Skipped(Program, idx[t])'
    BY <2>1 DEF Measuring, Skipped, Program
  <2>9. Program = "fpeak" => \A t \in Thread : phase[t] = "bench"
    BY <2>2 DEF Measuring
  <2>10. Program = "memory" => \E S \in MemoryStages : \A t \in Thread : pc'[t] \in S
    BY <1>0, <2>7 DEF MemoryStages
  <2>11. Program = "fpeak" => /\ \E S \in PeakStages : \A t \in Thread : pc'[t] \in S
                              /\ \A t \in Thread : Ahead(t)'[1] = "bench"
    <3> SUFFICES ASSUME Program = "fpeak"
                 PROVE  /\ \E S \in PeakStages : \A t \in Thread : pc'[t] \in S
                        /\ \A t \in Thread : Ahead(t)'[1] = "bench"
      OBVIOUS
    <3>1. \A t \in Thread : phase[t] = "bench"
      BY <2>9
    <3>2. pc'[0] \in {"begin", "lock"} /\ \A t \in Thread : pc'[t] = pc'[0]
      BY <1>0, <2>7, <3>1
    <3>3. \E S \in PeakStages : pc'[0] \in S
      BY <3>2 DEF PeakStages
    <3>4. \A t \in Thread : Ahead(t)'[1] = "bench"
      BY <2>5, <3>1
    <3>5. QED
      BY <3>2, <3>3, <3>4
  <2>12. \A t, u \in Thread : idx'[t] = idx'[u]
    BY <2>1 DEF Measuring
  <2>13. Measuring'
    BY <2>6, <2>8, <2>10, <2>11, <2>12 DEF Measuring
  <2>14. QED
    BY <2>13 DEF RoundInv
<1>4. CASE DecideBarrier
  <2>1. /\ \A t \in Thread : pc[t] = "decided" /\ pc'[t] = "read"
        /\ UNCHANGED <<call, idx, phase, left, trial, used, repeat, test_stop>>
    BY <1>1, <1>4 DEF DecideBarrier, TeamAt, Move
  <2>2. Program = "memory" /\ Program' = "memory"
    BY <1>0, <2>1 DEF Measuring, PeakStages, Program
  <2>3. \A t, u \in Thread : trial[t] = trial[u]
    <3>1. \A t \in Thread : Ahead(t) = <<"calib", 0, trial[t]>>
      BY <2>1 DEF Ahead
    <3>2. QED
      BY <3>1 DEF Measuring
  <2>4. \A t, u \in Thread : Ahead(t)' = Ahead(u)'
    BY <2>1, <2>3 DEF Ahead
  <2>5. \A t \in Thread : ~ Skipped(Program, idx[t])'
    BY <2>1, <2>2 DEF Measuring, Skipped
  <2>6. \E S \in MemoryStages : \A t \in Thread : pc'[t] \in S
    BY <2>1 DEF MemoryStages
  <2>7. \A t, u \in Thread : idx'[t] = idx'[u]
    BY <2>1 DEF Measuring
  <2>8. QED
    BY <2>2, <2>4, <2>5, <2>6, <2>7 DEF Measuring, RoundInv
<1>5. CASE PrintBarrier
  <2>1. /\ \A t \in Thread : pc[t] = "gathered" /\ pc'[t] \in {"print", "printed"}
        /\ UNCHANGED <<call, idx, phase, left, trial, used, repeat, test_stop>>
    BY <1>1, <1>5 DEF PrintBarrier, TeamAt, Move
  <2>2. \A t \in Thread : Ahead(t)' = Ahead(t)
    BY <2>1 DEF Ahead
  <2>3. {"print", "printed"} \in MemoryStages \intersect PeakStages
    BY DEF MemoryStages, PeakStages
  <2>4. QED
    BY <2>1, <2>2, <2>3, ToStage
<1>6. CASE EndRound
  <2>1. /\ NextRound(Thread) /\ \A t \in Thread : pc[t] = "printed"
        /\ UNCHANGED <<call, phase, left, trial, used, repeat, test_stop>>
    BY <1>1, <1>6 DEF EndRound, TeamAt
  <2>2. Program' = Program /\ \A t, u \in Thread : idx[t] = idx[u]
    BY <2>1 DEF Program, Measuring
  <2>3. CASE AnotherRound(idx[0])
    <3>1. \A t \in Thread : pc'[t] = "round" /\ idx'[t] = idx[0] + 1
      BY <1>0, <2>1, <2>2, <2>3 DEF NextRound
    <3>2. CASE Program = "memory"
      <4>1. \A t \in Thread : Position(t)' = idx[0] + 1
        BY <3>1 DEF Position
      <4>2. idx[0] + 1 \in Int
        BY <1>0
      <4>3. Choosing'
        BY <2>2, <3>1, <3>2, <4>1, <4>2 DEF Choosing
      <4>4. QED
        BY <4>3 DEF RoundInv
    <3>3. CASE Program = "fpeak"
      <4>1. \A t \in Thread : Ahead(t)' = <<"bench", Measures, repeat>>
        BY <2>1, <3>1 DEF Ahead
      <4>2. \A t \in Thread : ~ Skipped(Program, idx[t])'
        BY <2>2, <3>3 DEF Skipped
      <4>3. \E S \in PeakStages : \A t \in Thread : pc'[t] \in S
        BY <3>1 DEF PeakStages
      <4>4. \A t, u \in Thread : idx'[t] = idx'[u]
        BY <3>1
      <4>5. QED
        BY <2>2, <3>3, <4>1, <4>2, <4>3, <4>4 DEF Measuring, RoundInv
    <3>4. QED
      BY <3>2, <3>3 DEF Measuring
  <2>4. CASE ~ AnotherRound(idx[0])
    <3>1. \A t \in Thread : pc'[t] = "leave" /\ idx'[t] = idx[0]
      BY <1>0, <2>1, <2>2, <2>4 DEF NextRound
    <3>2. idx[0] = Len(Sizes)
      BY <1>0, <2>4 DEF AnotherRound
    <3>3. \A t \in Thread : Position(t)' = Len(Sizes) + 1
      BY <3>1, <3>2 DEF Position
    <3>4. Choosing'
      BY <1>0, <3>1, <3>2, <3>3 DEF Choosing
    <3>5. QED
      BY <3>4 DEF RoundInv
  <2>5. QED
    BY <2>3, <2>4
<1>7. CASE PreSingle \/ Fork \/ Join
  BY <1>0, <1>1, <1>7 DEF PreSingle, Fork, Join, TeamAt, Measuring, MemoryStages,
     PeakStages
<1>8. QED
  BY <1>2, <1>3, <1>4, <1>5, <1>6, <1>7 DEF Together

LEMMA MeasuringStep == TypeInv /\ Measuring /\ Next => RoundInv'
<1> SUFFICES ASSUME TypeInv, Measuring, Next PROVE RoundInv'
  OBVIOUS
<1>1. Team # {}
  BY ThreadZero DEF Measuring, MemoryStages, PeakStages, Team
<1>2. ~ (CallMemory \/ CallFpeak \/ Done)
  BY <1>1 DEF CallMemory, CallFpeak, Done
<1>3. QED
  BY <1>2, MeasuringThread, MeasuringTogether DEF Next

LEMMA RoundStep == TypeInv /\ RoundInv /\ [Next]_vars => RoundInv'
<1> SUFFICES ASSUME TypeInv, RoundInv, [Next]_vars PROVE RoundInv'
  OBVIOUS
<1>1. CASE Next
  BY <1>1, WaitingStep, AloneStep, ChoosingStep, MeasuringStep DEF RoundInv
<1>2. CASE UNCHANGED vars
  <2>1. \A t : Ahead(t)' = Ahead(t) /\ Position(t)' = Position(t)
    BY <1>2 DEF vars, Ahead, Position
  <2>2. UNCHANGED <<call, pc, idx, phase>> /\ Program' = Program
    BY <1>2 DEF vars, Program
  <2>3. /\ \A k : Skipped(Program, k)' = Skipped(Program, k)
        /\ \A t : Skipped(Program, idx[t])' = Skipped(Program, idx[t])
    BY <2>2 DEF Skipped
  <2>4. CASE Waiting \/ Alone
    BY <2>2, <2>4 DEF RoundInv, Waiting, Alone
  <2>5. CASE Choosing
    BY <2>1, <2>2, <2>3, <2>5 DEF RoundInv, Choosing
  <2>6. CASE Measuring
    BY <2>1, <2>2, <2>3, <2>6 DEF RoundInv, Measuring
  <2>7. QED
    BY <2>4, <2>5, <2>6 DEF RoundInv
<1>3. QED
  BY <1>1, <1>2

LEMMA RoundCorrect == Spec => [](TypeInv /\ RoundInv)
<1>1. Init => RoundInv
  BY DEF Init, RoundInv, Waiting
<1>2. QED
  BY <1>1, InitTypeInv, TypeStep, RoundStep, PTL DEF Spec

\* Threads timed together time the same section of the same round with the same
\* repeat, in any team and for any list of sizes: the copies of the loops each
\* thread runs, the shared repeat and the static test_stop keep them together.
THEOREM SameMeasureCorrect == Spec => []SameMeasure
<1>1. ASSUME TypeInv, RoundInv PROVE SameMeasure
  <2> SUFFICES ASSUME NEW t \in Thread, NEW u \in Thread,
                      pc[t] = "run", pc[u] \in {"run", "end"}
               PROVE  /\ idx[t] = idx[u] /\ phase[t] = phase[u] /\ left[t] = left[u]
                      /\ phase[t] = "calib" => trial[t] = trial[u]
                      /\ phase[t] = "bench" => used[t] = used[u]
    BY DEF SameMeasure
  <2>1. CASE Alone
    BY <2>1 DEF Alone
  <2>2. CASE Measuring
    <3>1. idx[t] = idx[u] /\ Ahead(t) = Ahead(u)
      BY <2>2 DEF Measuring
    <3>2. QED
      BY <3>1 DEF Ahead
  <2>3. CASE Waiting \/ Choosing
    BY <2>3 DEF Waiting, Choosing
  <2>4. QED
    BY <1>1, <2>1, <2>2, <2>3 DEF RoundInv
<1>2. QED
  BY <1>1, RoundCorrect, PTL
=============================================================================
