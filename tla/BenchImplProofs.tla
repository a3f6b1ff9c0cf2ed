-------------------------- MODULE BenchImplProofs --------------------------
(***************************************************************************)
(* The benchmark implements BenchService for every team, topology, list of *)
(* sizes and calls: what is printed is one whole round after the other.    *)
(***************************************************************************)
EXTENDS BenchImpl, BenchProofs, FiniteSetTheorems

-----------------------------------------------------------------------------
(***************************************************************************)
(* Rounds and their order                                                  *)
(***************************************************************************)
\* The rounds up to size i of call c.
Upto(c, i) == {p \in KeptRounds : p[1] < c \/ (p[1] = c /\ p[2] <= i)}

LEMMA CallsType == Len(Calls) \in Nat
BY ProgramAssumption

LEMMA KeptFinite == IsFiniteSet(KeptRounds) /\ Cardinality(KeptRounds) \in Nat
<1>1. IsFiniteSet(1 .. Len(Calls)) /\ IsFiniteSet(1 .. Len(Sizes))
  BY CallsType, RoundsType, FS_Interval
<1>2. IsFiniteSet((1 .. Len(Calls)) \X (1 .. Len(Sizes)))
  BY <1>1, FS_Product
<1>3. IsFiniteSet(KeptRounds)
  BY <1>2, FS_Subset DEF KeptRounds
<1>4. QED
  BY <1>3, FS_CardinalityType

LEMMA SomeKept ==
  ASSUME NEW S \in SUBSET KeptRounds
  PROVE  /\ IsFiniteSet(S)
         /\ Cardinality(S) \in Nat
         /\ Cardinality(S) <= Cardinality(KeptRounds)
<1>1. IsFiniteSet(S) /\ Cardinality(S) <= Cardinality(KeptRounds)
  BY KeptFinite, FS_Subset
<1>2. QED
  BY <1>1, FS_CardinalityType

LEMMA KeptType ==
  ASSUME NEW p \in KeptRounds
  PROVE  /\ p[1] \in 1 .. Len(Calls) /\ p[1] \in Nat
         /\ p[2] \in 1 .. Len(Sizes) /\ p[2] \in Nat
         /\ p = <<p[1], p[2]>>
         /\ ~ Skipped(Calls[p[1]], p[2])
BY CallsType, RoundsType DEF KeptRounds

\* A call begins where the one before ended.
LEMMA UptoNextCall ==
  ASSUME NEW c \in Nat
  PROVE  Upto(c + 1, 0) = Upto(c, Len(Sizes))
<1>1. ASSUME NEW p \in KeptRounds
      PROVE  p \in Upto(c + 1, 0) <=> p \in Upto(c, Len(Sizes))
  BY KeptType, RoundsType DEF Upto
<1>2. QED
  BY <1>1 DEF Upto

LEMMA UptoSkipped ==
  ASSUME NEW c \in Nat, NEW i \in 1 .. Len(Sizes), Skipped(Calls[c], i)
  PROVE  Upto(c, i) = Upto(c, i - 1)
<1>1. ASSUME NEW p \in KeptRounds
      PROVE  p \in Upto(c, i) <=> p \in Upto(c, i - 1)
  <2>1. ~ (p[1] = c /\ p[2] = i)
    BY KeptType
  <2>2. QED
    BY <2>1, KeptType, RoundsType DEF Upto
<1>2. QED
  BY <1>1 DEF Upto

LEMMA UptoKept ==
  ASSUME NEW c \in 1 .. Len(Calls), NEW i \in 1 .. Len(Sizes), ~ Skipped(Calls[c], i)
  PROVE  /\ <<c, i>> \in KeptRounds
         /\ Upto(c, i) = Upto(c, i - 1) \union {<<c, i>>}
         /\ Cardinality(Upto(c, i)) = Cardinality(Upto(c, i - 1)) + 1
         /\ Rank(<<c, i>>) = Cardinality(Upto(c, i))
<1> DEFINE q == <<c, i>>
<1>1. q \in KeptRounds
  BY DEF KeptRounds
<1>2. c \in Nat /\ i \in Nat
  BY CallsType, RoundsType
<1>3. ASSUME NEW p \in KeptRounds
      PROVE  p \in Upto(c, i) <=> p \in Upto(c, i - 1) \/ p = q
  <2>1. p = q <=> p[1] = c /\ p[2] = i
    BY KeptType
  <2>2. QED
    BY <1>2, <2>1, KeptType DEF Upto
<1>4. Upto(c, i) = Upto(c, i - 1) \union {q}
  BY <1>1, <1>3 DEF Upto
<1>5. q \notin Upto(c, i - 1)
  BY <1>2 DEF Upto
<1>6. IsFiniteSet(Upto(c, i - 1))
  BY SomeKept DEF Upto
<1>7. Cardinality(Upto(c, i)) = Cardinality(Upto(c, i - 1)) + 1
  BY <1>4, <1>5, <1>6, FS_AddElement
<1>8. {p \in KeptRounds : Before(p, q)} = Upto(c, i - 1)
  <2>1. ASSUME NEW p \in KeptRounds
        PROVE  Before(p, q) <=> p \in Upto(c, i - 1)
    BY <1>2, KeptType DEF Before, Upto
  <2>2. QED
    BY <2>1 DEF Upto
<1>9. QED
  BY <1>1, <1>4, <1>7, <1>8 DEF Rank

\* No two rounds have the same rank.
LEMMA RankUnique ==
  ASSUME NEW p \in KeptRounds, NEW q \in KeptRounds, Rank(p) = Rank(q)
  PROVE  p = q
<1> DEFINE Below(r) == {s \in KeptRounds : Before(s, r)}
<1>1. ASSUME NEW a \in KeptRounds, NEW b \in KeptRounds, Before(a, b)
      PROVE  Cardinality(Below(a)) < Cardinality(Below(b))
  <2>1. \A s \in KeptRounds : Before(s, a) => Before(s, b)
    BY <1>1, KeptType DEF Before
  <2>2. Below(a) \subseteq Below(b) /\ a \in Below(b)
    BY <1>1, <2>1
  <2>3. a \notin Below(a)
    BY KeptType DEF Before
  <2>4. IsFiniteSet(Below(b)) /\ Below(a) \in SUBSET Below(b)
    BY <2>2, SomeKept
  <2>5. /\ Cardinality(Below(a)) <= Cardinality(Below(b))
        /\ Cardinality(Below(b)) = Cardinality(Below(a)) => Below(b) = Below(a)
    BY <2>4, FS_Subset
  <2>6. Cardinality(Below(a)) \in Nat /\ Cardinality(Below(b)) \in Nat
    BY SomeKept
  <2>7. QED
    BY <2>2, <2>3, <2>5, <2>6
<1>2. Before(p, q) \/ Before(q, p) \/ p = q
  BY KeptType DEF Before
<1>3. Cardinality(Below(p)) = Cardinality(Below(q))
  <2>1. Cardinality(Below(p)) \in Nat /\ Cardinality(Below(q)) \in Nat
    BY SomeKept
  <2>2. QED
    BY <2>1 DEF Rank
<1>4. Cardinality(Below(p)) \in Nat
  BY SomeKept
<1>5. QED
  BY <1>1, <1>2, <1>3, <1>4

\* The plan names a round at its rank.
LEMMA RankedRound ==
  ASSUME NEW p \in KeptRounds
  PROVE  Ranked(Rank(p)) = p
<1>1. Ranked(Rank(p)) \in KeptRounds /\ Rank(Ranked(Rank(p))) = Rank(p)
  BY DEF Ranked
<1>2. QED
  BY <1>1, RankUnique

-----------------------------------------------------------------------------
(***************************************************************************)
(* Repeats                                                                 *)
(***************************************************************************)
Repeats == {r \in 1 .. 2 * LongEnough - 1 : PowerOfTwo(r)}

LEMMA RepeatOne == 1 \in Repeats
<1>1. PowerOfTwo(1)
  BY DEF PowerOfTwo
<1>2. QED
  BY <1>1, MeasureAssumption DEF Repeats

LEMMA RepeatTwice ==
  ASSUME NEW r \in Repeats, r < LongEnough
  PROVE  2 * r \in Repeats
<1>1. r \in Nat /\ r >= 1 /\ LongEnough \in Nat
  BY MeasureAssumption DEF Repeats
<1>2. 2 * r \in 1 .. 2 * LongEnough - 1
  BY <1>1
<1>3. ASSUME NEW d \in 2 .. 2 * r, (2 * r) % d = 0, d % 2 # 0
      PROVE  FALSE
  <2>1. d \in Nat /\ d >= 2
    BY <1>1
  <2>2. PICK k \in Int : 2 * r = d * k
    <3> DEFINE x == 2 * r
    <3>1. x \in Nat /\ x % d = 0
      BY <1>1, <1>3
    <3> HIDE DEF x
    <3>2. x = d * (x \div d) + (x % d) /\ x \div d \in Int
      BY <2>1, <3>1
    <3>3. x = d * (x \div d)
      BY <2>1, <3>1, <3>2
    <3>4. QED
      BY <3>2, <3>3 DEF x
  <2>3. PICK e \in Int : d = 2 * e + 1
    BY <1>3, <2>1
  <2>4. k = 2 * (r - e * k)
    <3> DEFINE m == e * k
    <3>1. m \in Int
      BY <2>2, <2>3
    <3>2. d * k = 2 * m + k
      <4>1. (2 * e + 1) * k = 2 * (e * k) + k
        BY <2>2, <2>3
      <4>2. QED
        BY <2>3, <4>1
    <3> HIDE DEF m
    <3>3. k = 2 * (r - m)
      BY <1>1, <2>2, <3>1, <3>2
    <3>4. QED
      BY <3>3 DEF m
  <2>5. PICK j \in Int : k = 2 * j
    <3>1. e * k \in Int
      BY <2>2, <2>3
    <3>2. r - e * k \in Int
      BY <1>1, <3>1
    <3>3. QED
      BY <2>4, <3>2
  <2>6. r = d * j
    <3> DEFINE m == d * j
    <3>1. m \in Int /\ d * k = 2 * m
      BY <2>1, <2>5
    <3> HIDE DEF m
    <3>2. r = m
      BY <1>1, <2>2, <3>1
    <3>3. QED
      BY <3>2 DEF m
  <2>7. j >= 1
    <3>1. j <= 0 => d * j <= 0
      BY <2>1, <2>5
    <3>2. QED
      BY <1>1, <2>5, <2>6, <3>1
  <2>8. d <= r
    <3>1. d * j >= d
      BY <2>1, <2>5, <2>7
    <3>2. QED
      BY <2>6, <3>1
  <2>9. r % d = 0
    <3>1. (d * j) % d = 0
      BY <2>1, <2>5
    <3>2. QED
      BY <2>6, <3>1
  <2>10. PowerOfTwo(r) /\ d \in 2 .. r
    BY <1>1, <2>1, <2>8 DEF Repeats
  <2>11. QED
    BY <1>3, <2>9, <2>10 DEF PowerOfTwo
<1>4. PowerOfTwo(2 * r)
  BY <1>3 DEF PowerOfTwo
<1>5. QED
  BY <1>2, <1>4 DEF Repeats

-----------------------------------------------------------------------------
(***************************************************************************)
(* The number of lines                                                     *)
(***************************************************************************)
\* The round of thread t is printed, or t found that there is none left.
Over(t) == pc[t] = "leave" \/ (pc[t] = "printed" /\ \A u \in Thread : pc[u] # "print")

\* One line was printed for each round before the one of the threads.
LogInv ==
  /\ Waiting \/ call \in 1 .. Len(Calls)
  /\ Waiting => Len(log) = Cardinality(Upto(call, Len(Sizes)))
  /\ \A t \in Team :
       Len(log) = Cardinality(Upto(call, IF Over(t) THEN idx[t] ELSE idx[t] - 1))

LEMMA WaitingTeam == (Waiting <=> Team = {}) /\ (Waiting' <=> Team' = {})
BY DEF Waiting, Team

LEMMA LogSame ==
  ASSUME LogInv, UNCHANGED <<call, idx, log>>, Team' = Team,
         \A t \in Team : Over(t)' <=> Over(t)
  PROVE  LogInv'
<1>1. Waiting' <=> Waiting
  BY WaitingTeam
<1>2. \A t \in Team :
        (IF Over(t) THEN idx[t] ELSE idx[t] - 1)' = IF Over(t) THEN idx[t] ELSE idx[t] - 1
  OBVIOUS
<1>3. QED
  BY <1>1, <1>2 DEF LogInv, Upto

LEMMA LogThread ==
  ASSUME TypeInv, LogInv, NEW t \in Thread, NEW to,
         pc' = [pc EXCEPT ![t] = to], UNCHANGED <<call, idx, log>>,
         pc[t] \notin {"out", "print", "printed", "leave"},
         to \notin {"out", "print", "printed", "leave"}
  PROVE  LogInv'
<1>1. pc \in [Thread -> Labels]
  BY DEF TypeInv, TypeOK
<1>2. Team' = Team
  BY <1>1 DEF Team
<1>3. \A u \in Team : Over(u)' <=> Over(u)
  BY <1>1 DEF Over, Team
<1>4. QED
  BY <1>2, <1>3, LogSame

LEMMA LogTogether ==
  ASSUME TypeInv, LogInv, UNCHANGED <<call, idx, log>>, Team' = Team,
         \A t \in Team : /\ pc[t] \notin {"printed", "leave"}
                         /\ pc'[t] \notin {"printed", "leave"}
  PROVE  LogInv'
<1>1. \A u \in Team : ~ Over(u) /\ ~ Over(u)'
  BY DEF Over
<1>2. QED
  BY <1>1, LogSame

\* The skipped size of a thread is passed without a line.
LEMMA LogRound ==
  ASSUME TypeInv, RoundInv, LogInv, NEW t \in Thread, Round(t)
  PROVE  LogInv'
<1>0. /\ pc \in [Thread -> Labels] /\ idx \in [Thread -> 1 .. Len(Sizes)]
      /\ call \in Nat /\ Len(Sizes) \in Nat
  BY RoundsType, CallsType, SMTT(20) DEF TypeInv, TypeOK
<1>1. /\ pc[t] = "round" /\ t \in Team /\ UNCHANGED <<call, log>>
  BY DEF Round, Team
<1>2. CASE ~ Skipped(Program, idx[t])
  <2>1. \E to \in {"pre", "call"} : pc' = [pc EXCEPT ![t] = to]
    BY <1>2 DEF Round, Goto
  <2>2. UNCHANGED idx
    BY <1>2 DEF Round
  <2>3. QED
    BY <1>1, <2>1, <2>2, LogThread
<1>3. CASE Skipped(Program, idx[t])
  <2>1. NextRound({t})
    BY <1>3 DEF Round
  <2>2. \A u \in Thread \ {t} : pc'[u] = pc[u] /\ idx'[u] = idx[u]
    BY <1>0, <2>1 DEF NextRound
  <2>3. IF AnotherRound(idx[t])
          THEN pc'[t] = "round" /\ idx'[t] = idx[t] + 1
          ELSE pc'[t] = "leave" /\ idx'[t] = idx[t]
    BY <1>0, <2>1 DEF NextRound
  <2>4. Team' = Team
    BY <1>0, <1>1, <2>2, <2>3 DEF Team
  <2>5. ASSUME NEW u \in Team, u # t
        PROVE  (Over(u)' <=> Over(u)) /\ idx'[u] = idx[u]
    BY <1>1, <2>2, <2>3, <2>5 DEF Over, Team
  <2>6. Upto(call, idx[t]) = Upto(call, idx[t] - 1)
    BY <1>0, <1>3, UptoSkipped DEF Program
  <2>7. Len(log) = Cardinality(Upto(call, idx[t] - 1))
    BY <1>1 DEF LogInv, Over
  <2>8. (IF Over(t) THEN idx[t] ELSE idx[t] - 1)' = idx[t]
    <3>1. CASE AnotherRound(idx[t])
      BY <1>0, <2>3, <3>1 DEF Over
    <3>2. CASE ~ AnotherRound(idx[t])
      BY <2>3, <3>2 DEF Over
    <3>3. QED
      BY <3>1, <3>2
  <2>9. ASSUME NEW u \in Team
        PROVE  Len(log) = Cardinality(Upto(call, (IF Over(u) THEN idx[u] ELSE idx[u] - 1)'))
    <3>1. CASE u = t
      BY <2>6, <2>7, <2>8, <3>1
    <3>2. CASE u # t
      BY <2>5, <3>2 DEF LogInv
    <3>3. QED
      BY <3>1, <3>2
  <2>10. ~ Waiting' /\ ~ Waiting
    BY <1>1, <2>4, WaitingTeam
  <2>11. QED
    BY <1>1, <2>4, <2>9, <2>10 DEF LogInv, Upto
<1>4. QED
  BY <1>2, <1>3

\* What holds when a thread prints: all the others wait, and the round of the
\* team is one to measure.
LEMMA AtPrint ==
  ASSUME TypeInv, RoundInv, Stages, LogInv, NEW t \in Thread, pc[t] = "print"
  PROVE  /\ Measuring /\ Team = Thread
         /\ \A u \in Thread \ {t} : pc[u] = "printed"
         /\ \A u \in Thread : idx[u] = idx[t] /\ ~ Over(u)
         /\ call \in 1 .. Len(Calls) /\ idx[t] \in 1 .. Len(Sizes)
         /\ ~ Skipped(Calls[call], idx[t])
<1>1. Measuring
  BY DEF RoundInv, Waiting, Alone, Choosing
<1>2. Team = Thread
  BY <1>1 DEF Measuring, MemoryStages, PeakStages, Team
<1>3. \A u \in Thread \ {t} : pc[u] = "printed"
  BY <1>2 DEF Stages, Untimed
<1>4. \A u \in Thread : idx[u] = idx[t] /\ ~ Over(u)
  BY <1>1, <1>3 DEF Measuring, Over
<1>5. idx[t] \in 1 .. Len(Sizes)
  BY DEF TypeInv, TypeOK
<1>6. call \in 1 .. Len(Calls)
  BY DEF LogInv, Waiting
<1>7. ~ Skipped(Calls[call], idx[t])
  BY <1>1 DEF Measuring, Program
<1>8. QED
  BY <1>1, <1>2, <1>3, <1>4, <1>5, <1>6, <1>7

LEMMA LogPrint ==
  ASSUME TypeInv, RoundInv, Stages, LogInv, NEW t \in Thread, PrintOutputs(t)
  PROVE  LogInv'
<1>0. pc \in [Thread -> Labels] /\ log \in Seq([Group -> [n : Nat, work : Nat]])
  BY DEF TypeInv, TypeOK
<1>1. /\ pc[t] = "print" /\ pc' = [pc EXCEPT ![t] = "printed"]
      /\ log' = Append(log, out) /\ UNCHANGED <<call, idx>>
  BY DEF PrintOutputs, Goto
<1>2. /\ Team = Thread /\ \A u \in Thread \ {t} : pc[u] = "printed"
      /\ \A u \in Thread : idx[u] = idx[t] /\ ~ Over(u)
      /\ call \in 1 .. Len(Calls) /\ idx[t] \in 1 .. Len(Sizes)
      /\ ~ Skipped(Calls[call], idx[t])
  BY <1>1, AtPrint
<1>3. \A u \in Thread : pc'[u] = "printed"
  BY <1>0, <1>1, <1>2
<1>4. Team' = Thread /\ \A u \in Thread : Over(u)'
  BY <1>3 DEF Team, Over
<1>5. Len(log) = Cardinality(Upto(call, idx[t] - 1))
  BY <1>2 DEF LogInv
<1>6. Len(log') = Cardinality(Upto(call, idx[t]))
  <2>1. Cardinality(Upto(call, idx[t])) = Cardinality(Upto(call, idx[t] - 1)) + 1
    BY <1>2, UptoKept
  <2>2. Len(log') = Len(log) + 1
    BY <1>0, <1>1
  <2>3. QED
    BY <1>5, <2>1, <2>2
<1>7. ~ Waiting'
  BY <1>3 DEF Waiting
<1>8. QED
  BY <1>1, <1>2, <1>4, <1>6, <1>7 DEF LogInv, Upto

LEMMA LogStep == TypeInv /\ RoundInv /\ Stages /\ LogInv /\ [Next]_vars => LogInv'
<1> SUFFICES ASSUME TypeInv, RoundInv, Stages, LogInv, [Next]_vars PROVE LogInv'
  OBVIOUS
<1>0. /\ pc \in [Thread -> Labels] /\ idx \in [Thread -> 1 .. Len(Sizes)]
      /\ call \in 0 .. Len(Calls) /\ call \in Nat /\ Len(Sizes) \in Nat
      /\ Len(Calls) \in Nat
  BY RoundsType, CallsType DEF TypeInv, TypeOK
<1>1. CASE CallMemory \/ CallFpeak
  <2>1. /\ Team = {} /\ call' = call + 1 /\ call' \in 1 .. Len(Calls)
        /\ idx' = [t \in Thread |-> 1] /\ log' = log
    BY <1>0, <1>1 DEF CallMemory, CallFpeak
  <2>2. \A t \in Thread : pc'[t] \in {"out", "round", "begin"}
    BY <1>0, <1>1, <2>1 DEF CallMemory, CallFpeak, Trial, Goto, Team
  <2>3. Team' # {} /\ \A t \in Team' : ~ Over(t)'
    <3>1. pc'[0] # "out"
      BY <1>0, <1>1, ThreadZero DEF CallMemory, CallFpeak, Trial, Goto
    <3>2. QED
      BY <2>2, <3>1, ThreadZero DEF Team, Over
  <2>4. Len(log) = Cardinality(Upto(call, Len(Sizes)))
    BY <2>1, WaitingTeam DEF LogInv
  <2>5. Len(log') = Cardinality(Upto(call + 1, 0))
    BY <1>0, <2>1, <2>4, UptoNextCall
  <2>7. ASSUME NEW t \in Team'
        PROVE  Len(log') = Cardinality(Upto(call, IF Over(t) THEN idx[t] ELSE idx[t] - 1))'
    <3>1. (IF Over(t) THEN idx[t] ELSE idx[t] - 1)' = 0
      BY <2>1, <2>3, <2>7 DEF Team
    <3>2. QED
      BY <2>1, <2>5, <3>1 DEF Upto
  <2>8. QED
    BY <2>1, <2>3, <2>7, WaitingTeam DEF LogInv
<1>2. ASSUME NEW t \in Thread, Round(t) PROVE LogInv'
  BY <1>2, LogRound
<1>3. ASSUME NEW t \in Thread, PrintOutputs(t) PROVE LogInv'
  BY <1>3, LogPrint
<1>4. ASSUME NEW t \in Thread,
             Check(t) \/ Run(t) \/ Decide(t) \/ PassSingle(t) \/ ReadStop(t)
               \/ Store(t) \/ CallBenchmark(t) \/ EnterCritical(t) \/ LoadResult(t)
               \/ AddResult(t)
      PROVE  LogInv'
  <2>1. pc[t] \in {"check", "run", "decide", "read", "store", "call", "lock", "load",
                   "add"}
    BY <1>4 DEF Check, Run, Decide, PassSingle, ReadStop, Store, CallBenchmark,
       EnterCritical, LoadResult, AddResult
  <2>2. \E to \in {"begin", "call", "end", "decided", "store", "fork", "load", "add",
                   "gathered"} : pc' = [pc EXCEPT ![t] = to]
    BY <1>4 DEF Check, Run, Decide, PassSingle, ReadStop, Store, CallBenchmark,
       EnterCritical, LoadResult, AddResult, Trial, Goto
  <2>3. UNCHANGED <<call, idx, log>>
    BY <1>4 DEF Check, Run, Decide, PassSingle, ReadStop, Store, CallBenchmark,
       EnterCritical, LoadResult, AddResult
  <2>4. QED
    BY <2>1, <2>2, <2>3, LogThread
<1>5. CASE PreSingle \/ BeginMeasure \/ DecideBarrier
  <2>1. UNCHANGED <<call, idx, log>>
    BY <1>5 DEF PreSingle, BeginMeasure, DecideBarrier
  <2>2. Team' = Team
    BY <1>0, <1>5 DEF PreSingle, BeginMeasure, DecideBarrier, Move, Team
  <2>3. \A t \in Team : /\ pc[t] \in {"pre", "begin", "decided"}
                        /\ pc'[t] \in {"check", "run", "read"}
    BY <1>5 DEF PreSingle, BeginMeasure, DecideBarrier, Move, Team, TeamAt
  <2>4. QED
    BY <2>1, <2>2, <2>3, LogTogether
<1>6. CASE EndMeasure
  <2>1. UNCHANGED <<call, idx, log>>
    BY <1>6 DEF EndMeasure
  <2>2. Team' = Team
    BY <1>0, <1>6 DEF EndMeasure, AfterMeasure, Team
  <2>3. \A t \in Team : pc[t] = "end" /\ pc'[t] \in {"begin", "decide", "lock"}
    BY <1>6 DEF EndMeasure, AfterMeasure, Team, TeamAt
  <2>4. QED
    BY <2>1, <2>2, <2>3, LogTogether
<1>7. CASE PrintBarrier
  <2>1. UNCHANGED <<call, idx, log>> /\ \A t \in Team : pc[t] = "gathered"
    BY <1>7 DEF PrintBarrier, TeamAt
  <2>2. PICK e \in Team : pc' = [Move("printed") EXCEPT ![e] = "print"]
    BY <1>7 DEF PrintBarrier
  <2>3. Team' = Team
    BY <1>0, <2>2 DEF Move, Team
  <2>4. pc'[e] = "print" /\ e \in Thread /\ \A t \in Team : pc'[t] # "leave"
    BY <2>2 DEF Move, Team
  <2>5. \A t \in Team : ~ Over(t) /\ ~ Over(t)'
    BY <2>1, <2>4 DEF Over
  <2>6. QED
    BY <2>1, <2>3, <2>5, LogSame
<1>8. CASE EndRound
  <2>1. /\ NextRound(Team) /\ UNCHANGED <<call, log>>
        /\ \A t \in Team : pc[t] = "printed"
    BY <1>8 DEF EndRound, TeamAt
  <2>2. \A t \in Team : Over(t)
    BY <2>1 DEF Over, Team
  <2>3. Team' = Team
    BY <1>0, <2>1 DEF NextRound, Team
  <2>4. ASSUME NEW t \in Team
        PROVE  (IF Over(t) THEN idx[t] ELSE idx[t] - 1)' = idx[t]
    <3>1. CASE AnotherRound(idx[t])
      <4>1. pc'[t] = "round" /\ idx'[t] = idx[t] + 1
        BY <2>1, <2>4, <3>1 DEF NextRound, Team
      <4>2. QED
        BY <1>0, <4>1 DEF Over, Team
    <3>2. CASE ~ AnotherRound(idx[t])
      <4>1. pc'[t] = "leave" /\ idx'[t] = idx[t]
        BY <2>1, <2>4, <3>2 DEF NextRound, Team
      <4>2. QED
        BY <4>1 DEF Over
    <3>3. QED
      BY <3>1, <3>2
  <2>5. Waiting' <=> Waiting
    BY <2>3, WaitingTeam
  <2>6. QED
    BY <2>1, <2>2, <2>3, <2>4, <2>5 DEF LogInv, Upto
<1>9. CASE Fork
  <2>1. /\ UNCHANGED <<call, idx, log>> /\ \A t \in Thread : pc'[t] = "round"
        /\ TeamAt("fork")
    BY <1>9 DEF Fork
  <2>2. Alone
    BY <2>1 DEF RoundInv, Waiting, Choosing, Measuring, MemoryStages, PeakStages,
       TeamAt, Team
  <2>3. 0 \in Team /\ ~ Over(0) /\ \A t \in Thread : idx[t] = 1
    BY <2>2, ThreadZero DEF Alone, Team, Over
  <2>4. Len(log) = Cardinality(Upto(call, 0))
    BY <2>3, ThreadZero DEF LogInv
  <2>5. \A t \in Thread : ~ Over(t)' /\ idx'[t] = 1
    BY <2>1, <2>3 DEF Over
  <2>6. ~ Waiting' /\ ~ Waiting
    BY <2>1, <2>3, ThreadZero DEF Waiting, Team
  <2>7. ASSUME NEW t \in Thread
        PROVE  (IF Over(t) THEN idx[t] ELSE idx[t] - 1)' = 0
    BY <2>5
  <2>8. Team' \subseteq Thread
    BY DEF Team
  <2>9. QED
    BY <2>1, <2>4, <2>6, <2>7, <2>8 DEF LogInv, Upto
<1>10. CASE Join
  <2>1. /\ UNCHANGED <<call, idx, log>> /\ Team # {} /\ Team' = {}
        /\ \A t \in Team : pc[t] = "leave"
    BY <1>10 DEF Join, TeamAt, Move, Team
  <2>2. PICK t \in Thread : pc[t] = "leave"
    BY <2>1 DEF Team
  <2>3. idx[t] = Len(Sizes)
    BY <2>2 DEF RoundInv, Waiting, Alone, Choosing, Measuring, MemoryStages, PeakStages
  <2>4. Len(log) = Cardinality(Upto(call, Len(Sizes)))
    BY <2>2, <2>3 DEF LogInv, Over, Team
  <2>5. QED
    BY <2>1, <2>4, WaitingTeam DEF LogInv, Upto
<1>11. CASE UNCHANGED vars
  <2>1. UNCHANGED <<call, idx, log, pc>>
    BY <1>11 DEF vars
  <2>2. Team' = Team /\ \A t \in Team : Over(t)' <=> Over(t)
    BY <2>1 DEF Team, Over
  <2>3. QED
    BY <2>1, <2>2, LogSame
<1>12. QED
  BY <1>1, <1>2, <1>3, <1>4, <1>5, <1>6, <1>7, <1>8, <1>9, <1>10, <1>11
  DEF Next, Step, Together

-----------------------------------------------------------------------------
(***************************************************************************)
(* The repeat                                                              *)
(***************************************************************************)
\* The repeat ahead is one that calibration can find: a trial is doubled only
\* under the repeat that is long enough.
RepeatInv ==
  /\ Waiting \/ Choosing \/ \A t \in Team : Ahead(t)[3] \in Repeats
  /\ Waiting \/ Alone \/ Program = "memory" \/ repeat \in Repeats
  /\ \A t \in Thread : pc[t] = "decided" => test_stop \/ trial[t] < LongEnough

\* A thread decides for all the team; the others that passed agree on the trial.
LEMMA DecidedStep ==
  ASSUME TypeInv, RoundInv, RepeatInv, [Next]_vars,
         NEW u \in Thread, pc'[u] = "decided"
  PROVE  test_stop' \/ trial'[u] < LongEnough
<1>0. /\ pc \in [Thread -> Labels] /\ trial \in [Thread -> Nat \ {0}]
      /\ LongEnough \in Nat
  BY MeasureAssumption DEF TypeInv, TypeOK
<1>1. CASE \E t \in Thread : Decide(t)
  <2>1. PICK t \in Thread : Decide(t)
    BY <1>1
  <2>2. \A v \in Team : pc[v] # "decided"
    BY <2>1 DEF Decide
  <2>3. u = t
    BY <1>0, <2>1, <2>2 DEF Decide, Goto, Team
  <2>4. trial' = trial
    BY <2>1 DEF Decide
  <2>5. CASE trial[t] >= LongEnough
    BY <2>1, <2>5 DEF Decide
  <2>6. CASE ~ (trial[t] >= LongEnough)
    BY <1>0, <2>3, <2>4, <2>6
  <2>7. QED
    BY <2>5, <2>6
<1>2. CASE \E t \in Thread : PassSingle(t)
  <2>1. PICK t \in Thread : PassSingle(t)
    BY <1>2
  <2>2. /\ pc[t] = "decide" /\ pc' = [pc EXCEPT ![t] = "decided"]
        /\ UNCHANGED <<trial, test_stop>> /\ \E v \in Team : pc[v] = "decided"
    BY <2>1 DEF PassSingle, Goto
  <2>3. CASE u # t
    BY <1>0, <2>2, <2>3 DEF RepeatInv
  <2>4. CASE u = t
    <3>1. PICK v \in Thread : pc[v] = "decided"
      BY <2>2 DEF Team
    <3>2. Measuring
      BY <2>2, <3>1 DEF RoundInv, Waiting, Alone, Choosing
    <3>3. Ahead(t) = <<"calib", 0, trial[t]>> /\ Ahead(v) = <<"calib", 0, trial[v]>>
      BY <2>2, <3>1 DEF Ahead
    <3>4. trial[t] = trial[v]
      BY <3>2, <3>3 DEF Measuring
    <3>5. QED
      BY <2>2, <2>4, <3>1, <3>4 DEF RepeatInv
  <2>5. QED
    BY <2>3, <2>4
<1>3. CASE \E t \in Thread :
             \/ Check(t) \/ Run(t) \/ ReadStop(t) \/ Store(t) \/ CallBenchmark(t)
             \/ EnterCritical(t) \/ LoadResult(t) \/ AddResult(t) \/ PrintOutputs(t)
  <2>1. PICK t \in Thread :
             \/ Check(t) \/ Run(t) \/ ReadStop(t) \/ Store(t) \/ CallBenchmark(t)
             \/ EnterCritical(t) \/ LoadResult(t) \/ AddResult(t) \/ PrintOutputs(t)
    BY <1>3
  <2>2. \E to \in Labels \ {"decided"} : pc' = [pc EXCEPT ![t] = to]
    BY <2>1 DEF Check, Run, ReadStop, Store, CallBenchmark, EnterCritical, LoadResult,
       AddResult, PrintOutputs, Trial, Goto, Labels
  <2>3. u # t /\ pc[u] = "decided"
    BY <1>0, <2>2
  <2>4. test_stop' = test_stop /\ trial'[u] = trial[u]
    BY <1>0, <2>1, <2>3 DEF Check, Run, ReadStop, Store, CallBenchmark, EnterCritical,
       LoadResult, AddResult, PrintOutputs, Trial
  <2>5. QED
    BY <2>3, <2>4 DEF RepeatInv
<1>4. CASE \E t \in Thread : Round(t)
  <2>1. PICK t \in Thread : Round(t)
    BY <1>4
  <2>2. pc[t] = "round" /\ UNCHANGED <<test_stop, trial>>
    BY <2>1 DEF Round
  <2>3. pc[u] = "decided"
    BY <1>0, <2>1 DEF Round, NextRound, Goto
  <2>4. QED
    BY <2>2, <2>3 DEF RepeatInv
<1>5. CASE CallMemory \/ CallFpeak
  BY <1>0, <1>5 DEF CallMemory, CallFpeak, Trial, Goto, Team
<1>6. CASE Together
  <2>1. UNCHANGED <<test_stop, trial>>
    BY <1>6 DEF Together, PreSingle, BeginMeasure, EndMeasure, DecideBarrier,
       PrintBarrier, EndRound, Fork, Join
  <2>2. pc[u] = "decided"
    <3>1. CASE PreSingle \/ BeginMeasure \/ DecideBarrier \/ Fork \/ Join
      BY <1>0, <3>1 DEF PreSingle, BeginMeasure, DecideBarrier, Fork, Join, Move, Team
    <3>2. CASE EndMeasure
      BY <1>0, <3>2 DEF EndMeasure, AfterMeasure
    <3>3. CASE PrintBarrier
      BY <1>0, <3>3 DEF PrintBarrier, Move, Team
    <3>4. CASE EndRound
      BY <1>0, <3>4 DEF EndRound, NextRound
    <3>5. QED
      BY <1>6, <3>1, <3>2, <3>3, <3>4 DEF Together
  <2>3. QED
    BY <2>1, <2>2 DEF RepeatInv
<1>7. CASE UNCHANGED vars
  BY <1>7 DEF vars, RepeatInv
<1>8. QED
  BY <1>1, <1>2, <1>3, <1>4, <1>5, <1>6, <1>7 DEF Next, Step

\* The region of roofline_fpeak uses the repeat that the master has stored.
LEMMA SharedRepeat ==
  ASSUME TypeInv, RoundInv, RepeatInv, [Next]_vars,
         ~ Waiting', ~ Alone', Program' # "memory"
  PROVE  repeat' \in Repeats
<1>0. Team \subseteq Thread /\ 0 \in Thread
  BY ThreadZero DEF Team
<1>1. CASE UNCHANGED vars
  <2>1. UNCHANGED <<pc, idx, call, phase, repeat>> /\ Program' = Program
    BY <1>1 DEF vars, Program
  <2>2. ~ Waiting /\ ~ Alone
    BY <2>1 DEF Waiting, Alone
  <2>3. QED
    BY <2>1, <2>2 DEF RepeatInv
<1>2. CASE Next /\ Waiting
  BY <1>2, WaitingStep DEF CallMemory, Program
<1>3. CASE Next /\ Alone
  <2>1. Fork
    BY <1>3, AloneStep
  <2>2. repeat' = repeat /\ pc[0] = "fork" /\ 0 \in Team
    BY <1>0, <1>3, <2>1 DEF Fork, TeamAt, Alone, Team
  <2>3. Ahead(0) = <<"bench", Measures, repeat>>
    BY <2>2 DEF Ahead
  <2>4. ~ Waiting /\ ~ Choosing
    BY <1>0, <2>2 DEF Waiting, Choosing
  <2>5. QED
    BY <2>2, <2>3, <2>4 DEF RepeatInv
<1>4. CASE Next /\ ~ Waiting /\ ~ Alone
  <2>1. Team # {}
    BY <1>4 DEF Waiting, Team
  <2>2. ~ CallMemory /\ ~ CallFpeak
    BY <2>1 DEF CallMemory, CallFpeak
  <2>3. Program' = Program
    BY <1>4, <2>2 DEF Next, Step, Together, Round, Check, Run, Decide, PassSingle,
       ReadStop, Store, CallBenchmark, EnterCritical, LoadResult, AddResult,
       PrintOutputs, PreSingle, BeginMeasure, EndMeasure, DecideBarrier, PrintBarrier,
       EndRound, Fork, Join, vars, Program
  <2>4. repeat \in Repeats
    BY <1>4, <2>3 DEF RepeatInv
  <2>5. \A t \in Thread : pc[t] # "store"
    BY <1>4, <2>3 DEF RoundInv, Measuring, Choosing, PeakStages
  <2>6. repeat' = repeat
    BY <1>4, <2>2, <2>5 DEF Next, Step, Together, Round, Check, Run, Decide, PassSingle,
       ReadStop, Store, CallBenchmark, EnterCritical, LoadResult, AddResult,
       PrintOutputs, PreSingle, BeginMeasure, EndMeasure, DecideBarrier, PrintBarrier,
       EndRound, Fork, Join, vars
  <2>7. QED
    BY <2>4, <2>6
<1>5. QED
  BY <1>1, <1>2, <1>3, <1>4

LEMMA AheadStep ==
  ASSUME TypeInv, RoundInv, RepeatInv, [Next]_vars, RoundInv',
         ~ Waiting', ~ Choosing', NEW t \in Team'
  PROVE  Ahead(t)'[3] \in Repeats
<1>0. /\ pc \in [Thread -> Labels] /\ trial \in [Thread -> Nat \ {0}]
      /\ t \in Thread /\ pc'[t] # "out" /\ Team \subseteq Thread
  BY DEF TypeInv, TypeOK, Team
<1>1. CASE UNCHANGED vars
  <2>1. Ahead(t)' = Ahead(t) /\ Team' = Team
    BY <1>1 DEF vars, Ahead, Team
  <2>2. (Waiting' <=> Waiting) /\ (Choosing' <=> Choosing)
    BY <1>1 DEF vars, Waiting, Choosing, Position, Skipped, Program
  <2>3. QED
    BY <2>1, <2>2 DEF RepeatInv
<1>2. CASE Next /\ Waiting
  <2>1. CallFpeak /\ Alone'
    BY <1>2, WaitingStep
  <2>2. t = 0
    BY <1>0, <2>1 DEF Alone
  <2>3. pc'[0] = "begin" /\ phase'[0] = "calib" /\ trial'[0] = 1
    BY <1>0, <2>1, <2>2 DEF CallFpeak, Trial, Goto, TypeInv, TypeOK
  <2>4. Ahead(0)' = <<"calib", left'[0], 1>>
    BY <2>3 DEF Ahead
  <2>5. QED
    BY <2>2, <2>4, RepeatOne
<1>3. CASE Next /\ Choosing
  <2>1. PreSingle
    BY <1>3, ChoosingStep
  <2>2. pc'[t] = "check" /\ repeat' = repeat
    BY <1>0, <2>1 DEF PreSingle, Move, Team, TeamAt
  <2>3. Ahead(t)'[3] = IF repeat > 1 THEN 1 ELSE repeat
    BY <2>2 DEF Ahead
  <2>4. ~ (repeat > 1) => repeat = 1
    BY DEF TypeInv, TypeOK
  <2>5. QED
    BY <2>3, <2>4, RepeatOne
<1>4. CASE Next /\ (Alone \/ Measuring)
  <2>1. /\ ~ Waiting /\ ~ Choosing
    BY <1>4, ThreadZero DEF Alone, Measuring, MemoryStages, PeakStages, Waiting, Choosing
  <2>2. \A u \in Team : Ahead(u)[3] \in Repeats
    BY <2>1 DEF RepeatInv
  <2>3. ~ CallMemory /\ ~ CallFpeak /\ ~ Done
    BY <2>1 DEF CallMemory, CallFpeak, Done, Waiting, Team
  <2>4. CASE \E u \in Thread : Step(u)
    <3>1. PICK u \in Thread : Step(u)
      BY <2>4
    <3>2. pc[u] # "out" /\ \A v \in Thread \ {u} : pc'[v] = pc[v]
      BY <1>0, <3>1 DEF Step, Round, NextRound, Check, Run, Decide, PassSingle, ReadStop,
         Store, CallBenchmark, EnterCritical, LoadResult, AddResult, PrintOutputs,
         Trial, Goto
    <3>3. t \in Team
      BY <1>0, <3>2 DEF Team
    <3>4. Ahead(t)' = Ahead(t)
      BY <1>4, <3>1, <3>3, AheadKept
    <3>5. QED
      BY <2>2, <3>3, <3>4
  <2>5. CASE BeginMeasure \/ PrintBarrier
    <3>1. /\ t \in Team /\ UNCHANGED <<phase, left, trial, used>>
          /\ \/ pc[t] = "begin" /\ pc'[t] = "run"
             \/ pc[t] = "gathered" /\ pc'[t] \in {"print", "printed"}
      BY <1>0, <2>5 DEF BeginMeasure, PrintBarrier, Move, TeamAt, Team
    <3>2. Ahead(t)' = Ahead(t)
      BY <3>1 DEF Ahead
    <3>3. QED
      BY <2>2, <3>1, <3>2
  <2>6. CASE EndMeasure
    <3>1. /\ t \in Team /\ pc[t] = "end" /\ pc'[t] = AfterMeasure(t)
          /\ UNCHANGED <<phase, trial, used>>
      BY <1>0, <2>6 DEF EndMeasure, TeamAt, Team
    <3>2. Ahead(t)[3] = IF phase[t] = "calib" THEN trial[t] ELSE used[t]
      BY <3>1 DEF Ahead
    <3>3. left[t] \in Int
      BY <1>0, TrialLength DEF TypeInv, TypeOK
    <3>4. \/ pc'[t] = "begin"
          \/ pc'[t] = "decide" /\ phase[t] = "calib"
          \/ pc'[t] = "lock" /\ phase[t] # "calib"
      BY <3>1, <3>3 DEF AfterMeasure
    <3>5. Ahead(t)'[3] = IF phase[t] = "calib" THEN trial[t] ELSE used[t]
      BY <3>1, <3>4 DEF Ahead
    <3>6. QED
      BY <2>2, <3>1, <3>2, <3>5
  <2>7. CASE DecideBarrier
    <3>1. /\ t \in Team /\ pc[t] = "decided" /\ pc'[t] = "read"
          /\ UNCHANGED <<trial, test_stop>>
      BY <1>0, <2>7 DEF DecideBarrier, Move, TeamAt, Team
    <3>2. Ahead(t)[3] = trial[t]
      BY <3>1 DEF Ahead
    <3>3. trial[t] \in Repeats
      BY <2>2, <3>1, <3>2
    <3>4. Ahead(t)'[3] = IF test_stop THEN trial[t] ELSE 2 * trial[t]
      BY <3>1 DEF Ahead
    <3>5. test_stop \/ trial[t] < LongEnough
      BY <1>0, <3>1 DEF RepeatInv
    <3>6. QED
      BY <3>3, <3>4, <3>5, RepeatTwice
  <2>8. CASE EndRound \/ Fork
    <3>1. \A u \in Team' : pc'[u] \in {"round", "leave"}
      BY <1>0, <2>8 DEF EndRound, NextRound, Fork, Team
    <3>2. ~ Alone'
      BY <3>1, ThreadZero DEF Alone, Team
    <3>3. Measuring'
      BY <3>2 DEF RoundInv
    <3>4. Program' = "fpeak" /\ pc'[t] = "round"
      BY <1>0, <3>1, <3>3 DEF Measuring, MemoryStages, PeakStages
    <3>5. Ahead(t)'[3] = repeat'
      BY <3>4 DEF Ahead
    <3>6. repeat' \in Repeats
      BY <3>2, <3>4, SharedRepeat
    <3>7. QED
      BY <3>5, <3>6
  <2>9. CASE PreSingle \/ Join
    BY <1>4, <2>9, ThreadZero DEF PreSingle, Join, TeamAt, Team, Alone, Measuring,
       MemoryStages, PeakStages
  <2>10. QED
    BY <1>4, <2>3, <2>4, <2>5, <2>6, <2>7, <2>8, <2>9 DEF Next, Together
<1>5. QED
  BY <1>1, <1>2, <1>3, <1>4 DEF RoundInv

LEMMA RepeatStep ==
  TypeInv /\ RoundInv /\ RepeatInv /\ [Next]_vars /\ RoundInv' => RepeatInv'
<1> SUFFICES ASSUME TypeInv, RoundInv, RepeatInv, [Next]_vars, RoundInv'
             PROVE  RepeatInv'
  OBVIOUS
<1>1. (Waiting \/ Choosing \/ \A t \in Team : Ahead(t)[3] \in Repeats)'
  BY AheadStep DEF Repeats
<1>2. (Waiting \/ Alone \/ Program = "memory" \/ repeat \in Repeats)'
  BY SharedRepeat DEF Repeats
<1>3. \A t \in Thread : pc'[t] = "decided" => test_stop' \/ trial'[t] < LongEnough
  BY DecidedStep
<1>4. QED
  BY <1>1, <1>2, <1>3 DEF RepeatInv

-----------------------------------------------------------------------------
(***************************************************************************)
(* The results                                                             *)
(***************************************************************************)
\* The threads of group g whose results are in out and not printed yet.
Counted(g) ==
  {t \in Thread :
     /\ GroupOf(t) = g
     /\ pc[t] \in {"gathered", "print", "printed"}
     /\ \E u \in Thread : pc[u] \in {"lock", "load", "add", "gathered", "print"}}

\* The work of a thread in this round.
Share == WorkOf(Program, idx[0], used[0])

Tally(n, w) == [n |-> n, work |-> n * w]

\* A thread is in the critical section exactly when it holds the lock, what it
\* read there of its group is still what out holds, and that is the work of the
\* threads of the group that have gathered theirs.
GatherInv ==
  /\ \A t \in Thread : pc[t] \in {"load", "add"} <=> lock = t
  /\ \A t \in Thread : pc[t] = "add" => seen[t] = out[GroupOf(t)]
  /\ Waiting \/ \A g \in Group : out[g] = Tally(Cardinality(Counted(g)), Share)

LEMMA ThreadFinite == IsFiniteSet(Thread)
BY FS_Interval, TeamAssumption DEF Thread

LEMMA CountedType ==
  ASSUME NEW g
  PROVE  IsFiniteSet(Counted(g)) /\ Cardinality(Counted(g)) \in Nat
<1>1. IsFiniteSet(Counted(g))
  BY ThreadFinite, FS_Subset DEF Counted
<1>2. QED
  BY <1>1, FS_CardinalityType

LEMMA ShareType == (TypeInv => Share \in Nat) /\ (TypeInv' => Share' \in Nat)
<1>1. ASSUME TypeInv PROVE Share \in Nat
  BY <1>1, ThreadZero, WorkType DEF TypeInv, TypeOK, Share
<1>2. ASSUME TypeInv' PROVE Share' \in Nat
  <2>1. idx'[0] \in 1 .. Len(Sizes) /\ used'[0] \in Nat
    BY <1>2, ThreadZero DEF TypeInv, TypeOK
  <2>2. WorkOf(Program', idx'[0], used'[0]) \in Nat
    BY <2>1, WorkType
  <2>3. QED
    BY <2>2 DEF Share, WorkOf
<1>3. QED
  BY <1>1, <1>2

LEMMA NothingCounted ==
  ASSUME NEW g,
         \/ \A u \in Thread : pc[u] \notin {"lock", "load", "add", "gathered", "print"}
         \/ \A u \in Thread : pc[u] \notin {"gathered", "print", "printed"}
  PROVE  Counted(g) = {}
BY DEF Counted

LEMMA TallyNothing ==
  ASSUME NEW w \in Nat
  PROVE  Tally(0, w) = Cleared /\ Tally(Cardinality({}), w) = Cleared
<1>1. Cardinality({}) = 0 /\ 0 * w = 0
  BY FS_EmptySet
<1>2. QED
  BY <1>1 DEF Tally, Cleared

\* A thread adds itself and its work to the results of its group.
LEMMA AccumulateTally ==
  ASSUME NEW c \in Nat, NEW w \in Nat
  PROVE  OutputAccumulate(Tally(c, w), w) = Tally(c + 1, w)
<1> DEFINE p == c * w
           r == [n |-> c, work |-> p]
           s == [n |-> c + 1, work |-> p + w]
<1>1. (c + 1) * w = p + w /\ p \in Nat
  OBVIOUS
<1> HIDE DEF p
<1>2. Tally(c, w) = r /\ Tally(c + 1, w) = s
  BY <1>1 DEF Tally, p
<1>3. r.n = c /\ r.work = p
  OBVIOUS
<1>4. r \in Result /\ OutputAccumulate(r, w) \in Result /\ s \in Result
  <2>1. r \in Result
    BY <1>1 DEF Result
  <2>2. s \in Result
    <3>1. c + 1 \in Nat /\ p + w \in Nat
      BY <1>1
    <3>2. QED
      BY <3>1 DEF Result
  <2>3. OutputAccumulate(r, w) \in Result
    BY <2>1, AccumulateType
  <2>4. QED
    BY <2>1, <2>2, <2>3
<1>5. OutputAccumulate(r, w).n = c + 1 /\ OutputAccumulate(r, w).work = p + w
  BY <1>3, <1>4 DEF OutputAccumulate, Result
<1>6. OutputAccumulate(r, w) = s
  BY <1>4, <1>5 DEF Result
<1>7. QED
  BY <1>2, <1>6

\* Results are cleared while none is counted.
LEMMA OutCleared ==
  ASSUME TypeInv, GatherInv, ~ Waiting, NEW g \in Group, Counted(g) = {}
  PROVE  out[g] = Cleared
<1>1. out[g] = Tally(Cardinality({}), Share)
  BY DEF GatherInv
<1>2. QED
  BY <1>1, ShareType, TallyNothing

\* A step between timed sections, before and after which nothing is counted.
LEMMA GatherIdle ==
  ASSUME TypeInv, TypeInv', GatherInv, ~ Waiting, UNCHANGED <<lock, seen, out>>,
         \A t \in Thread : pc'[t] \in {"load", "add"} <=> pc[t] \in {"load", "add"},
         \A t \in Thread : pc'[t] = "add" => pc[t] = "add",
         \A g \in Group : Counted(g) = {} /\ Counted(g)' = {}
  PROVE  GatherInv'
<1>1. ASSUME NEW g \in Group
      PROVE  out'[g] = Tally(Cardinality(Counted(g)), Share)'
  <2>1. out'[g] = Cleared
    BY OutCleared
  <2>2. Tally(Cardinality({}), Share') = Cleared
    BY ShareType, TallyNothing
  <2>3. Tally(Cardinality(Counted(g)), Share)' = Tally(Cardinality(Counted(g)'), Share')
    BY DEF Tally
  <2>4. QED
    BY <2>1, <2>2, <2>3
<1>2. /\ \A t \in Thread : pc'[t] \in {"load", "add"} <=> lock' = t
      /\ \A t \in Thread : pc'[t] = "add" => seen'[t] = out'[GroupOf(t)]
  BY DEF GatherInv
<1>3. QED
  BY <1>1, <1>2 DEF GatherInv, GroupOf

\* The results of a round are those of its team: no thread is anywhere else.
LEMMA WhileGathering ==
  ASSUME RoundInv, NEW t \in Thread, pc[t] \in {"lock", "load", "add", "gathered"}
  PROVE  /\ Measuring
         /\ \A u \in Thread : pc[u] \in {"lock", "load", "add", "gathered"}
<1>1. Measuring
  BY DEF RoundInv, Waiting, Alone, Choosing
<1>2. QED
  BY <1>1 DEF Measuring, MemoryStages, PeakStages

LEMMA GatherEnter ==
  ASSUME TypeInv, TypeInv', RoundInv, GatherInv, NEW t \in Thread,
         EnterCritical(t) \/ LoadResult(t)
  PROVE  GatherInv'
<1>0. /\ pc \in [Thread -> Labels] /\ seen \in [Thread -> [n : Nat, work : Nat]]
      /\ Nobody \notin Thread
  BY DEF TypeInv, TypeOK, Nobody, Thread
<1>1. /\ pc[t] \in {"lock", "load"} /\ UNCHANGED <<call, idx, used, out>>
      /\ \E to \in {"load", "add"} : pc' = [pc EXCEPT ![t] = to]
  BY DEF EnterCritical, LoadResult, Goto
<1>2. Share' = Share
  BY <1>1 DEF Share, Program, WorkOf
<1>3. ASSUME NEW g \in Group PROVE Counted(g)' = Counted(g)
  <2>1. pc'[t] \in {"load", "add"} /\ \A u \in Thread \ {t} : pc'[u] = pc[u]
    BY <1>0, <1>1
  <2>2. QED
    BY <1>1, <2>1 DEF Counted, GroupOf
<1>4. ~ Waiting
  BY <1>1 DEF Waiting
<1>5. ASSUME NEW g \in Group
      PROVE  out'[g] = Tally(Cardinality(Counted(g)), Share)'
  BY <1>1, <1>2, <1>3, <1>4 DEF GatherInv, Tally
<1>6. CASE EnterCritical(t)
  <2>1. /\ lock = Nobody /\ lock' = t /\ pc[t] = "lock" /\ seen' = seen
        /\ pc' = [pc EXCEPT ![t] = "load"]
    BY <1>6 DEF EnterCritical, Goto
  <2>2. \A u \in Thread : pc[u] \notin {"load", "add"}
    BY <1>0, <2>1 DEF GatherInv
  <2>3. /\ \A u \in Thread : pc'[u] \in {"load", "add"} <=> lock' = u
        /\ \A u \in Thread : pc'[u] # "add"
    BY <1>0, <2>1, <2>2
  <2>4. QED
    BY <1>5, <2>3 DEF GatherInv
<1>7. CASE LoadResult(t)
  <2>1. /\ pc[t] = "load" /\ lock' = lock
        /\ pc' = [pc EXCEPT ![t] = "add"]
        /\ seen' = [seen EXCEPT ![t] = out[GroupOf(t)]]
    BY <1>7 DEF LoadResult, Goto
  <2>2. \A u \in Thread : pc'[u] \in {"load", "add"} <=> lock' = u
    BY <1>0, <2>1 DEF GatherInv
  <2>3. \A u \in Thread : pc'[u] = "add" => seen'[u] = out'[GroupOf(u)]
    BY <1>0, <1>1, <2>1 DEF GatherInv
  <2>4. QED
    BY <1>5, <2>2, <2>3 DEF GatherInv, GroupOf
<1>8. QED
  BY <1>6, <1>7

LEMMA GatherAdd ==
  ASSUME TypeInv, TypeInv', RoundInv, GatherInv, NEW t \in Thread, AddResult(t)
  PROVE  GatherInv'
<1>0. /\ pc \in [Thread -> Labels] /\ out \in [Group -> [n : Nat, work : Nat]]
      /\ Nobody \notin Thread /\ GroupOf(t) \in Group
  BY GroupType DEF TypeInv, TypeOK, Nobody, Thread
<1>1. /\ pc[t] = "add" /\ pc' = [pc EXCEPT ![t] = "gathered"] /\ lock' = Nobody
      /\ out' = [out EXCEPT ![GroupOf(t)] =
                   OutputAccumulate(seen[t], WorkOf(Program, idx[t], used[t]))]
      /\ UNCHANGED <<call, idx, used>>
  BY DEF AddResult, Goto
<1>2. /\ Measuring
      /\ \A u \in Thread : pc[u] \in {"lock", "load", "add", "gathered"}
  BY <1>1, WhileGathering
<1>3. lock = t /\ \A u \in Thread \ {t} : pc[u] \notin {"load", "add"}
  BY <1>1 DEF GatherInv
<1>4. /\ \A u \in Thread : pc'[u] \in {"load", "add"} <=> lock' = u
      /\ \A u \in Thread : pc'[u] # "add"
  BY <1>0, <1>1, <1>3
<1>5. WorkOf(Program, idx[t], used[t]) = Share
  <2>1. idx[t] = idx[0] /\ Ahead(t) = Ahead(0)
    BY <1>2, ThreadZero DEF Measuring
  <2>2. Ahead(t) = <<"bench", 0, used[t]>> /\ Ahead(0) = <<"bench", 0, used[0]>>
    BY <1>2, ThreadZero DEF Ahead
  <2>3. used[t] = used[0]
    BY <2>1, <2>2
  <2>4. QED
    BY <2>1, <2>3 DEF Share
<1>6. Share' = Share /\ Share \in Nat
  BY <1>1, ShareType DEF Share, Program, WorkOf
<1>7. ~ Waiting
  BY <1>1 DEF Waiting
<1>8. ASSUME NEW g \in Group
      PROVE  out'[g] = Tally(Cardinality(Counted(g)), Share)'
  <2> DEFINE c == Cardinality(Counted(g))
  <2>0. IsFiniteSet(Counted(g)) /\ c \in Nat
    BY CountedType
  <2>1. out[g] = Tally(c, Share)
    BY <1>7 DEF GatherInv
  <2>2. Tally(Cardinality(Counted(g)), Share)' = Tally(Cardinality(Counted(g)'), Share)
    BY <1>6 DEF Tally
  <2>3. CASE g # GroupOf(t)
    <3>1. Counted(g)' = Counted(g)
      <4>1. ASSUME NEW u \in Thread
            PROVE  u \in Counted(g)' <=> u \in Counted(g)
        BY <1>0, <1>1, <2>3, <4>1 DEF Counted, GroupOf
      <4>2. QED
        BY <4>1 DEF Counted
    <3>2. out'[g] = out[g]
      BY <1>0, <1>1, <2>3
    <3>3. QED
      BY <2>1, <2>2, <3>1, <3>2
  <2>4. CASE g = GroupOf(t)
    <3>1. Counted(g)' = Counted(g) \union {t}
      <4>1. ASSUME NEW u \in Thread
            PROVE  u \in Counted(g)' <=> u \in Counted(g) \/ u = t
        BY <1>0, <1>1, <2>4, <4>1 DEF Counted, GroupOf
      <4>2. QED
        BY <4>1 DEF Counted
    <3>2. t \notin Counted(g)
      BY <1>1 DEF Counted
    <3>3. Cardinality(Counted(g)') = c + 1
      BY <2>0, <3>1, <3>2, FS_AddElement
    <3>4. out'[g] = OutputAccumulate(out[g], Share)
      BY <1>0, <1>1, <1>5, <2>4 DEF GatherInv
    <3>5. OutputAccumulate(Tally(c, Share), Share) = Tally(c + 1, Share)
      BY <1>6, <2>0, AccumulateTally
    <3>6. QED
      BY <2>1, <2>2, <3>3, <3>4, <3>5
  <2>5. QED
    BY <2>3, <2>4
<1>9. QED
  BY <1>4, <1>8 DEF GatherInv

LEMMA GatherPrint ==
  ASSUME TypeInv, TypeInv', RoundInv, Stages, LogInv, GatherInv,
         NEW t \in Thread, PrintOutputs(t)
  PROVE  GatherInv'
<1>0. pc \in [Thread -> Labels]
  BY DEF TypeInv, TypeOK
<1>1. /\ pc[t] = "print" /\ pc' = [pc EXCEPT ![t] = "printed"]
      /\ out' = [g \in Group |-> IF out[g].n > 0 THEN Cleared ELSE out[g]]
      /\ lock' = lock
  BY DEF PrintOutputs, Goto
<1>2. \A u \in Thread \ {t} : pc[u] = "printed"
  BY <1>1, AtPrint
<1>3. \A u \in Thread : pc'[u] = "printed"
  BY <1>0, <1>1, <1>2
<1>4. /\ \A u \in Thread : pc'[u] \in {"load", "add"} <=> lock' = u
      /\ \A u \in Thread : pc'[u] # "add"
  BY <1>1, <1>2, <1>3 DEF GatherInv
<1>5. ~ Waiting
  BY <1>1 DEF Waiting
<1>6. ASSUME NEW g \in Group
      PROVE  out'[g] = Tally(Cardinality(Counted(g)), Share)'
  <2>1. Counted(g)' = {}
    BY <1>3 DEF Counted
  <2>2. out'[g] = Cleared
    <3>1. out[g] = Tally(Cardinality(Counted(g)), Share)
      BY <1>5 DEF GatherInv
    <3>2. CASE Cardinality(Counted(g)) = 0
      <4>1. out[g] = Cleared
        BY <3>1, <3>2, ShareType, TallyNothing
      <4>2. QED
        BY <1>1, <4>1
    <3>3. CASE Cardinality(Counted(g)) # 0
      <4>1. out[g].n > 0
        BY <3>1, <3>3, CountedType DEF Tally
      <4>2. QED
        BY <1>1, <4>1
    <3>4. QED
      BY <3>2, <3>3
  <2>3. Tally(Cardinality(Counted(g)), Share)' = Tally(Cardinality({}), Share')
    BY <2>1 DEF Tally
  <2>4. QED
    BY <2>2, <2>3, ShareType, TallyNothing
<1>7. QED
  BY <1>4, <1>6 DEF GatherInv

\* The whole team goes from one label to others, none of them in the gathering.
LEMMA GatherMove ==
  ASSUME TypeInv, TypeInv', GatherInv, ~ Waiting, UNCHANGED <<lock, seen, out>>,
         \A t \in Thread : pc[t] \notin {"load", "add", "gathered", "print", "printed"},
         \A t \in Thread : pc'[t] \notin {"load", "add", "gathered", "print", "printed"}
  PROVE  GatherInv'
<1>1. \A g \in Group : Counted(g) = {} /\ Counted(g)' = {}
  BY DEF Counted
<1>2. QED
  BY <1>1, GatherIdle

LEMMA GatherThread ==
  ASSUME TypeInv, TypeInv', RoundInv, GatherInv, NEW t \in Thread,
         \/ Round(t) \/ Check(t) \/ Run(t) \/ Decide(t) \/ PassSingle(t) \/ ReadStop(t)
         \/ Store(t) \/ CallBenchmark(t)
  PROVE  GatherInv'
<1>0. pc \in [Thread -> Labels]
  BY DEF TypeInv, TypeOK
<1>1. pc[t] \in {"round", "check", "run", "decide", "read", "store", "call"}
  BY DEF Round, Check, Run, Decide, PassSingle, ReadStop, Store, CallBenchmark
<1>2. UNCHANGED <<lock, seen, out>>
  BY DEF Round, Check, Run, Decide, PassSingle, ReadStop, Store, CallBenchmark
<1>3. /\ \A u \in Thread \ {t} : pc'[u] = pc[u]
      /\ pc'[t] \in {"round", "leave", "pre", "call", "begin", "end", "decided", "store",
                     "fork"}
  BY <1>0 DEF Round, NextRound, Check, Run, Decide, PassSingle, ReadStop, Store,
     CallBenchmark, Trial, Goto
<1>4. ~ Waiting
  BY <1>1 DEF Waiting
<1>5. \A u \in Thread : pc[u] \notin {"load", "add", "gathered", "print", "printed"}
  BY <1>1, <1>4 DEF RoundInv, Alone, Choosing, Measuring, MemoryStages, PeakStages
<1>6. \A u \in Thread : pc'[u] \notin {"load", "add", "gathered", "print", "printed"}
  BY <1>3, <1>5
<1>7. QED
  BY <1>2, <1>4, <1>5, <1>6, GatherMove

LEMMA GatherTogether ==
  ASSUME TypeInv, TypeInv', RoundInv, GatherInv, Together
  PROVE  GatherInv'
<1>0. pc \in [Thread -> Labels] /\ 0 \in Thread /\ Team \subseteq Thread
  BY ThreadZero DEF TypeInv, TypeOK, Team
<1>1. UNCHANGED <<lock, seen, out>>
  BY DEF Together, PreSingle, BeginMeasure, EndMeasure, DecideBarrier, PrintBarrier,
     EndRound, Fork, Join
<1>2. Team # {} /\ ~ Waiting
  <2>1. Team # {}
    BY DEF Together, PreSingle, BeginMeasure, EndMeasure, DecideBarrier, PrintBarrier,
       EndRound, Fork, Join, TeamAt
  <2>2. QED
    BY <2>1, WaitingTeam
<1>3. CASE PreSingle \/ BeginMeasure \/ DecideBarrier \/ Join
  <2>1. \A t \in Thread : /\ pc[t] \in {"out", "pre", "begin", "decided", "leave"}
                          /\ pc'[t] \in {"out", "check", "run", "read"}
    BY <1>0, <1>3 DEF PreSingle, BeginMeasure, DecideBarrier, Join, Move, TeamAt, Team
  <2>2. QED
    BY <1>1, <1>2, <2>1, GatherMove
<1>4. CASE EndMeasure
  <2>1. \A t \in Thread : /\ pc[t] \in {"out", "end"}
                          /\ pc'[t] \in {"out", "begin", "decide", "lock"}
    BY <1>0, <1>4 DEF EndMeasure, AfterMeasure, TeamAt, Team
  <2>2. QED
    BY <1>1, <1>2, <2>1, GatherMove
<1>5. CASE Fork
  <2>1. \A t \in Thread : pc[t] \in {"out", "fork"} /\ pc'[t] = "round"
    BY <1>0, <1>5 DEF Fork, TeamAt, Team
  <2>2. QED
    BY <1>1, <1>2, <2>1, GatherMove
<1>6. CASE EndRound
  <2>1. \A t \in Thread : /\ pc[t] \in {"out", "printed"}
                          /\ pc'[t] \in {"out", "round", "leave"}
    BY <1>0, <1>6 DEF EndRound, NextRound, TeamAt, Team
  <2>2. \A g \in Group : Counted(g) = {} /\ Counted(g)' = {}
    BY <2>1 DEF Counted
  <2>3. /\ \A t \in Thread : pc'[t] \in {"load", "add"} <=> pc[t] \in {"load", "add"}
        /\ \A t \in Thread : pc'[t] = "add" => pc[t] = "add"
    BY <2>1
  <2>4. QED
    BY <1>1, <1>2, <2>2, <2>3, GatherIdle
<1>7. CASE PrintBarrier
  <2>1. \A t \in Team : pc[t] = "gathered"
    BY <1>7 DEF PrintBarrier, TeamAt
  <2>2. PICK e \in Team : pc' = [Move("printed") EXCEPT ![e] = "print"]
    BY <1>7 DEF PrintBarrier
  <2>3. UNCHANGED <<call, idx, used>>
    BY <1>7 DEF PrintBarrier
  <2>4. /\ \A t \in Team : pc'[t] \in {"print", "printed"}
        /\ \A t \in Thread \ Team : pc[t] = "out" /\ pc'[t] = "out"
        /\ pc'[e] = "print"
    BY <1>0, <2>2 DEF Move, Team
  <2>5. ASSUME NEW g \in Group PROVE Counted(g)' = Counted(g)
    <3>1. Counted(g) = {t \in Team : GroupOf(t) = g}
      BY <1>0, <2>1, <2>2, <2>4 DEF Counted
    <3>2. Counted(g)' = {t \in Team : GroupOf(t) = g}
      BY <1>0, <2>2, <2>4 DEF Counted, GroupOf
    <3>3. QED
      BY <3>1, <3>2
  <2>6. Share' = Share
    BY <2>3 DEF Share, Program, WorkOf
  <2>7. \A g \in Group : out'[g] = Tally(Cardinality(Counted(g)), Share)'
    BY <1>1, <1>2, <2>5, <2>6 DEF GatherInv, Tally
  <2>8. \A t \in Thread : pc[t] \notin {"load", "add"} /\ pc'[t] \notin {"load", "add"}
    BY <2>1, <2>4
  <2>9. QED
    BY <1>1, <2>7, <2>8 DEF GatherInv
<1>8. QED
  BY <1>3, <1>4, <1>5, <1>6, <1>7 DEF Together

LEMMA GatherStep ==
  ASSUME TypeInv, TypeInv', RoundInv, Stages, LogInv, GatherInv, [Next]_vars
  PROVE  GatherInv'
<1>1. CASE CallMemory \/ CallFpeak
  <2>1. /\ Team = {} /\ lock' = lock /\ out' = [g \in Group |-> Cleared]
        /\ \A t \in Thread : pc'[t] \in {"out", "round", "begin"}
    BY <1>1 DEF CallMemory, CallFpeak, Trial, Goto, Team, TypeInv, TypeOK
  <2>2. \A t \in Thread : pc[t] = "out"
    BY <2>1 DEF Team
  <2>3. ASSUME NEW g \in Group
        PROVE  out'[g] = Tally(Cardinality(Counted(g)), Share)'
    <3>1. Counted(g)' = {}
      BY <2>1 DEF Counted
    <3>2. Tally(Cardinality(Counted(g)), Share)' = Tally(Cardinality({}), Share')
      BY <3>1 DEF Tally
    <3>3. QED
      BY <2>1, <3>2, ShareType, TallyNothing
  <2>4. /\ \A t \in Thread : pc'[t] \in {"load", "add"} <=> lock' = t
        /\ \A t \in Thread : pc'[t] # "add"
    BY <2>1, <2>2 DEF GatherInv
  <2>5. QED
    BY <2>3, <2>4 DEF GatherInv
<1>2. CASE UNCHANGED vars
  <2>1. UNCHANGED <<pc, call, idx, used, lock, seen, out>>
    BY <1>2 DEF vars
  <2>2. Share' = Share /\ (Waiting' <=> Waiting)
    BY <2>1 DEF Share, Program, WorkOf, Waiting
  <2>3. \A g : Counted(g)' = Counted(g)
    BY <2>1 DEF Counted, GroupOf
  <2>4. \A g : Tally(Cardinality(Counted(g)), Share)' = Tally(Cardinality(Counted(g)), Share)
    BY <2>2, <2>3 DEF Tally
  <2>5. QED
    BY <2>1, <2>2, <2>4 DEF GatherInv, GroupOf
<1>3. QED
  BY <1>1, <1>2, GatherThread, GatherEnter, GatherAdd, GatherPrint, GatherTogether
  DEF Next, Step

-----------------------------------------------------------------------------
(***************************************************************************)
(* Implementation                                                          *)
(***************************************************************************)
ImplInv ==
  TypeInv /\ RoundInv /\ Stages /\ LogInv /\ RepeatInv /\ GatherInv

LEMMA ImplInvCorrect == Spec => []ImplInv
<1>1. Init => LogInv /\ RepeatInv /\ GatherInv
  <2> SUFFICES ASSUME Init PROVE LogInv /\ RepeatInv /\ GatherInv
    OBVIOUS
  <2>1. /\ Waiting /\ Team = {} /\ lock = Nobody /\ call = 0 /\ log = <<>>
        /\ \A t \in Thread : pc[t] = "out"
    BY DEF Init, Waiting, Team
  <2>2. Upto(0, Len(Sizes)) = {}
    BY KeptType DEF Upto
  <2>3. LogInv
    BY <2>1, <2>2, FS_EmptySet DEF LogInv
  <2>4. RepeatInv /\ GatherInv
    BY <2>1 DEF RepeatInv, GatherInv, Nobody, Thread
  <2>5. QED
    BY <2>3, <2>4
<1>2. /\ LogInv /\ RepeatInv /\ GatherInv
      /\ TypeInv /\ RoundInv /\ Stages /\ TypeInv' /\ RoundInv' /\ [Next]_vars
      => (LogInv /\ RepeatInv /\ GatherInv)'
  BY LogStep, RepeatStep, GatherStep
<1>3. Spec => [](LogInv /\ RepeatInv /\ GatherInv)
  BY <1>1, <1>2, RoundCorrect, StagesCorrect, PTL DEF Spec
<1>4. QED
  BY <1>3, RoundCorrect, StagesCorrect, PTL DEF ImplInv

\* The work of a thread is that of a single repeat, as many times as it repeats.
LEMMA WorkRepeated ==
  ASSUME NEW program, NEW i \in 1 .. Len(Sizes), NEW r \in Nat
  PROVE  WorkOf(program, i, r) = WorkOf(program, i, 1) * r
<1>1. Sizes[i] \in Nat
  BY ProgramAssumption
<1>2. CASE program = "memory"
  BY <1>1, <1>2 DEF WorkOf
<1>3. CASE program # "memory"
  BY <1>3 DEF WorkOf
<1>4. QED
  BY <1>2, <1>3

Members == [g \in Group |-> Cardinality({t \in Thread : GroupOf(t) = g})]

\* What is printed is the line of the next round, with all the threads of a group.
LEMMA PrintedLine ==
  ASSUME ImplInv, NEW t \in Thread, PrintOutputs(t)
  PROVE  Service!Measure
<1>0. TypeInv /\ RoundInv /\ Stages /\ LogInv /\ RepeatInv /\ GatherInv
  BY DEF ImplInv
<1>1. pc[t] = "print" /\ log' = Append(log, out)
  BY DEF PrintOutputs
<1>2. /\ Measuring /\ Team = Thread
      /\ \A u \in Thread \ {t} : pc[u] = "printed"
      /\ \A u \in Thread : idx[u] = idx[t] /\ ~ Over(u)
      /\ call \in 1 .. Len(Calls) /\ idx[t] \in 1 .. Len(Sizes)
      /\ ~ Skipped(Calls[call], idx[t])
  BY <1>0, <1>1, AtPrint
<1> DEFINE p == <<call, idx[t]>>
           r == used[0]
           w == WorkOf(Calls[call], idx[t], 1)
<1>3. /\ Len(log) = Cardinality(Upto(call, idx[t] - 1)) /\ Len(log) \in Nat
      /\ p \in KeptRounds /\ Rank(p) = Len(log) + 1
      /\ Len(log) + 1 <= Cardinality(KeptRounds)
  <2>1. Len(log) = Cardinality(Upto(call, idx[t] - 1))
    BY <1>0, <1>2 DEF LogInv
  <2>2. /\ p \in KeptRounds /\ Rank(p) = Cardinality(Upto(call, idx[t]))
        /\ Cardinality(Upto(call, idx[t])) = Cardinality(Upto(call, idx[t] - 1)) + 1
    BY <1>2, UptoKept
  <2>3. Cardinality(Upto(call, idx[t])) <= Cardinality(KeptRounds)
    BY SomeKept DEF Upto
  <2>4. Cardinality(Upto(call, idx[t] - 1)) \in Nat
    BY SomeKept DEF Upto
  <2>5. QED
    BY <2>1, <2>2, <2>3, <2>4
<1>4. Len(Rounds) = Cardinality(KeptRounds) /\ Rounds[Len(log) + 1] = w
  <2>1. Ranked(Len(log) + 1) = p
    BY <1>3, RankedRound
  <2>2. Len(log) + 1 \in 1 .. Cardinality(KeptRounds)
    BY <1>3, KeptFinite
  <2>3. Rounds[Len(log) + 1] = WorkOf(Calls[p[1]], p[2], 1)
    BY <2>1, <2>2 DEF Rounds
  <2>4. Len(Rounds) = Cardinality(KeptRounds)
    BY KeptFinite DEF Rounds
  <2>5. QED
    BY <2>3, <2>4
<1>5. r \in Repeats
  <2>1. ~ Waiting /\ ~ Choosing
    BY <1>1 DEF Waiting, Choosing
  <2>2. Ahead(0)[3] \in Repeats
    BY <1>0, <1>2, <2>1, ThreadZero DEF RepeatInv
  <2>3. Ahead(0) = <<"bench", 0, used[0]>>
    BY <1>1, <1>2, ThreadZero DEF Ahead
  <2>4. QED
    BY <2>2, <2>3
<1>6. Share = w * r
  <2>1. r \in Nat /\ idx[0] = idx[t]
    BY <1>2, <1>5, ThreadZero DEF Repeats
  <2>2. Share = WorkOf(Calls[call], idx[t], r)
    BY <2>1 DEF Share, Program
  <2>3. QED
    BY <1>2, <2>1, <2>2, WorkRepeated
<1>7. ASSUME NEW g \in Group
      PROVE  out[g] = [n |-> Members[g], work |-> Members[g] * Rounds[Len(log) + 1] * r]
  <2>1. Counted(g) = {u \in Thread : GroupOf(u) = g}
    BY <1>1, <1>2 DEF Counted
  <2>2. out[g] = Tally(Cardinality(Counted(g)), Share)
    <3>1. ~ Waiting
      BY <1>1 DEF Waiting
    <3>2. QED
      BY <1>0, <3>1 DEF GatherInv
  <2>3. Members[g] = Cardinality(Counted(g)) /\ Members[g] \in Nat
    BY <2>1, CountedType DEF Members
  <2>4. w \in Nat /\ r \in Nat
    BY <1>2, <1>5, WorkType DEF Repeats
  <2>5. Members[g] * (w * r) = Members[g] * w * r
    BY <2>3, <2>4
  <2>6. QED
    BY <1>4, <1>6, <2>2, <2>3, <2>5 DEF Tally
<1>8. out = [g \in Group |->
               [n |-> Members[g], work |-> Members[g] * Rounds[Len(log) + 1] * r]]
  <2>1. out \in [Group -> [n : Nat, work : Nat]]
    BY <1>0 DEF TypeInv, TypeOK
  <2>2. QED
    BY <1>7, <2>1
<1>9. Len(log) < Len(Rounds)
  BY <1>3, <1>4, KeptFinite
<1>10. QED
  BY <1>1, <1>5, <1>8, <1>9 DEF Service!Measure, Service!Line, Repeats, Members

LEMMA OthersStutter ==
  ASSUME [Next]_vars, ~ \E t \in Thread : PrintOutputs(t)
  PROVE  log' = log
BY DEF Next, Step, Together, CallMemory, CallFpeak, Round, Check, Run, Decide, PassSingle,
   ReadStop, Store, CallBenchmark, EnterCritical, LoadResult, AddResult, PreSingle,
   BeginMeasure, EndMeasure, DecideBarrier, PrintBarrier, EndRound, Fork, Join, vars

\* For every team, topology, list of sizes and calls: what the program prints is
\* the plan, one line for each round in order, each with the work of all the
\* threads of a group, counted once, with one repeat that calibration can find.
THEOREM BenchmarkImplementsService == Spec => ImplementsService
<1>1. Init => Service!Init
  BY DEF Init, Service!Init
<1>2. ImplInv /\ [Next]_vars => [Service!Measure]_log
  BY PrintedLine, OthersStutter
<1>3. QED
  BY <1>1, <1>2, ImplInvCorrect, PTL DEF Spec, ImplementsService, Service!Spec

\* When the last call has returned every round of the plan was printed: no size
\* is lost between the threads or at the end of the loop (roofline.c:178, 194).
THEOREM AllPrintedCorrect == Spec => []AllPrinted
<1>1. ASSUME ImplInv PROVE AllPrinted
  <2> SUFFICES ASSUME call = Len(Calls), Team = {}
               PROVE  Len(log) = Cardinality(KeptRounds)
    BY DEF AllPrinted, Done
  <2>1. Len(log) = Cardinality(Upto(Len(Calls), Len(Sizes)))
    BY <1>1, WaitingTeam DEF ImplInv, LogInv
  <2>2. Upto(Len(Calls), Len(Sizes)) = KeptRounds
    <3>1. \A p \in KeptRounds : p[1] < Len(Calls) \/ (p[1] = Len(Calls) /\ p[2] <= Len(Sizes))
      BY KeptType, CallsType
    <3>2. QED
      BY <3>1 DEF Upto
  <2>3. QED
    BY <2>1, <2>2
<1>2. QED
  BY <1>1, ImplInvCorrect, PTL
=============================================================================
