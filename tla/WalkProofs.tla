----------------------------- MODULE WalkProofs -----------------------------
(***************************************************************************)
(* Theorems of Walk, for any machine that is a tree as hwloc gives them    *)
(* (WellFormed) and any options: the threads of roofline_set_root() have   *)
(* each a leaf of its own; the state has its types; the matrix is whole;   *)
(* and, on machines of the shapes that Walk defines, what is measured has  *)
(* sizes, the walk measures every memory, once, upwards, and the result of *)
(* each thread is printed.                                                 *)
(*                                                                         *)
(* The first sections are about the threads and about trees; then come the *)
(* types of the state, the matrix, the sizes, the walk, the results and    *)
(* the leaves.                                                             *)
(***************************************************************************)
EXTENDS Walk, FiniteSetTheorems, SequenceTheorems, WellFoundedInduction, TLAPS

\* One thread in the critical section at most, and the number that is shared is
\* its own; a thread that is through has the leaf of its number; outside of the
\* region all are through.
Region1 ==
  /\ unbound \subseteq DOMAIN pool /\ critical \subseteq unbound
  /\ \A t, u \in critical : t = u
  /\ \A t \in critical : tid = t
  /\ pc # "bind" => unbound = {}

Bound ==
  root # NULL =>
    /\ DOMAIN pool = Threads(machine, root, leaf_type)
    /\ \A t \in DOMAIN pool \ unbound :
         pool[t] = CpuBind(machine, Leaf(machine, root, leaf_type, t))

BindInv == Region1 /\ Bound

LEMMA InitBind == Init => BindInv
BY DEF Init, RootInit, BindInv, Region1, Bound

\* A new region begins when the last one is over.
LEMMA SetRootBind ==
  ASSUME NEW obj, NEW type, BindInv, unbound = {},
         SetRoot(obj, type), pc' = "bind", UNCHANGED machine
  PROVE  BindInv'
<1>1. critical = {}
  BY DEF BindInv, Region1
<1> QED
  BY <1>1 DEF SetRoot, BindInv, Region1, Bound

LEMMA RegionBind ==
  ASSUME NEW t \in DOMAIN pool, BindInv, Region(t)
  PROVE  BindInv'
<1>1. UNCHANGED <<machine, root, leaf_type, pc>>
  BY DEF Region, TakeNumber, Bind, mainVars
<1>2. CASE TakeNumber(t)
  BY <1>1, <1>2 DEF TakeNumber, BindInv, Region1, Bound
<1>3. CASE Bind(t)
  <2>1. /\ t \in critical /\ tid = t /\ critical' = {}
        /\ unbound' = unbound \ {t}
        /\ pool' = [pool EXCEPT ![t] = CpuBind(machine, Leaf(machine, root, leaf_type, t))]
    BY <1>3 DEF Bind, BindInv, Region1
  <2>2. Region1'
    BY <1>1, <2>1 DEF BindInv, Region1
  <2>3. Bound'
    BY <1>1, <2>1 DEF BindInv, Region1, Bound
  <2> QED
    BY <2>2, <2>3 DEF BindInv
<1> QED
  BY <1>2, <1>3 DEF Region

\* The rest of the program leaves the threads where they are.
LEMMA MainBind ==
  ASSUME BindInv, UNCHANGED <<machine, root, rootVars>>,
         pc' = "bind" => pc = "bind", pc = "bind" /\ pc' # "bind" => unbound = {}
  PROVE  BindInv'
<1>1. CASE pc = "bind" /\ pc' # "bind"
  BY <1>1 DEF BindInv, Region1, Bound, rootVars
<1>2. CASE pc # "bind"
  BY <1>2 DEF BindInv, Region1, Bound, rootVars
<1>3. CASE pc = "bind" /\ pc' = "bind"
  BY <1>3 DEF BindInv, Region1, Bound, rootVars
<1> QED
  BY <1>1, <1>2, <1>3

LEMMA StepBind == BindInv /\ [Next]_vars => BindInv'
<1> SUFFICES ASSUME BindInv, [Next]_vars PROVE BindInv'
  OBVIOUS
<1>1. ASSUME NEW a \in Arguments, ParseOption(a) PROVE BindInv'
  BY <1>1, MainBind DEF ParseOption
<1>2. CASE LibInit
  <2>1. CASE ParseRoot(machine, opt.src) = NULL
    BY <1>2, <2>1, MainBind DEF LibInit
  <2>2. CASE ParseRoot(machine, opt.src) # NULL
    <3>1. unbound = {}
      BY <1>2 DEF LibInit, BindInv, Region1
    <3> QED
      BY <1>2, <2>2, <3>1, SetRootBind DEF LibInit
  <2> QED
    BY <2>1, <2>2
<1>3. CASE BenchFlops
  BY <1>3, MainBind DEF BenchFlops
<1>4. ASSUME NEW t \in DOMAIN pool, Region(t) PROVE BindInv'
  BY <1>4, RegionBind
<1>5. CASE EndRegion
  <2>1. UNCHANGED <<machine, root, rootVars>> /\ unbound = {}
    BY <1>5 DEF EndRegion, Rooted
  <2> QED
    BY <1>5, <2>1, MainBind DEF EndRegion
<1>6. CASE RootCluster
  <2>1. unbound = {}
    BY <1>6 DEF RootCluster, BindInv, Region1
  <2> QED
    BY <1>6, <2>1, SetRootBind DEF RootCluster
<1>7. CASE BenchMatrix
  BY <1>7, MainBind DEF BenchMatrix
<1>8. CASE BenchItem
  BY <1>8, MainBind DEF BenchItem
<1>9. CASE BenchNext
  BY <1>9, MainBind DEF BenchNext
<1>10. CASE Finish
  BY <1>10, MainBind DEF Finish
<1>11. CASE UNCHANGED vars
  BY <1>11, MainBind DEF vars, mainVars
<1> QED
  BY <1>1, <1>2, <1>3, <1>4, <1>5, <1>6, <1>7, <1>8, <1>9, <1>10, <1>11
  DEF Next, Done

\* When no thread is in the region each has the leaf of its number.
LEMMA BoundApart == BindInv => (LeavesApart(machine, root, leaf_type) => OneLeafEach)
<1> SUFFICES ASSUME BindInv, LeavesApart(machine, root, leaf_type), Rooted, root # NULL
             PROVE  /\ \A t, u \in DOMAIN pool : t # u => pool[t] # pool[u]
                    /\ {pool[t] : t \in DOMAIN pool} = Team(machine, root, leaf_type)
  BY DEF OneLeafEach
<1>1. /\ DOMAIN pool = Threads(machine, root, leaf_type)
      /\ \A t \in DOMAIN pool :
           pool[t] = CpuBind(machine, Leaf(machine, root, leaf_type, t))
  BY DEF BindInv, Bound, Rooted
<1> QED
  BY <1>1 DEF LeavesApart

-----------------------------------------------------------------------------
(***************************************************************************)
(* Trees.  What hwloc guarantees (WellFormed) makes the recursions on the  *)
(* links of a tree well founded: they have the values their equations say. *)
(***************************************************************************)
LEMMA LeastOne ==
  ASSUME NEW B \in SUBSET Nat, B # {}
  PROVE  \E m \in B : \A k \in B : m <= k
<1>1. PICK m \in B : \A k \in B : ~ (<<k, m>> \in OpToRel(<, Nat))
  BY NatLessThanWellFounded, WFMin
<1>2. \A k \in B : ~ (k < m)
  BY <1>1 DEF OpToRel
<1> QED
  BY <1>2

\* Induction, for a set in place of a predicate.
LEMMA NatCounted ==
  ASSUME NEW G \in SUBSET Nat, 0 \in G, \A k \in G : k + 1 \in G
  PROVE  G = Nat
<1> SUFFICES ASSUME Nat \ G # {} PROVE FALSE
  OBVIOUS
<1>1. PICK k \in Nat \ G : \A j \in Nat \ G : k <= j
  BY LeastOne
<1>2. k # 0 /\ k - 1 \in Nat /\ ~(k <= k - 1) /\ (k - 1) + 1 = k
  BY <1>1
<1> QED
  BY <1>1, <1>2

\* The first of some objects is one of them, and none is before it.
LEMMA FirstIs ==
  ASSUME NEW s \in SUBSET Nat
  PROVE  /\ s = {} => First(s) = NULL
         /\ s # {} => First(s) \in s /\ \A p \in s : First(s) <= p
<1>1. CASE s = {}
  BY <1>1 DEF First
<1>2. CASE s # {}
  <2>1. \E o \in s : \A p \in s : o <= p
    BY <1>2, LeastOne
  <2> QED
    BY <1>2, <2>1 DEF First
<1> QED
  BY <1>1, <1>2

LEMMA FirstOf ==
  ASSUME NEW s \in SUBSET Nat, NEW k \in s, \A p \in s : k <= p
  PROVE  First(s) = k
<1>1. First(s) \in s /\ First(s) <= k
  BY FirstIs
<1>2. k <= First(s) /\ First(s) \in Nat /\ k \in Nat
  BY <1>1
<1> QED
  BY <1>1, <1>2

LEMMA Tree ==
  ASSUME NEW m, WellFormed(m)
  PROVE  /\ Len(m.type) \in Nat /\ Objects(m) = 1 .. Len(m.type)
         /\ \A o \in Objects(m) : /\ m.parent[o] \in {NULL} \union Objects(m)
                                  /\ m.parent[o] < o /\ m.size[o] \in Nat
                                  /\ m.type[o] \in STRING
         /\ DOMAIN m.parent = Objects(m)
         /\ 1 \in Objects(m) /\ \A type : OfType(m, type) \subseteq Objects(m)
<1>1. Len(m.type) \in Nat /\ Objects(m) = 1 .. Len(m.type)
  BY DEF WellFormed, Objects
<1>2. m.parent \in [Objects(m) -> Nat] /\ m.size \in [Objects(m) -> Nat]
  BY DEF WellFormed
<1>3. ASSUME NEW o \in Objects(m)
      PROVE  /\ m.parent[o] \in {NULL} \union Objects(m)
             /\ m.parent[o] < o /\ m.size[o] \in Nat /\ m.type[o] \in STRING
  <2>1. m.parent[o] < o /\ m.parent[o] \in Nat /\ m.size[o] \in Nat
    BY <1>2, <1>3 DEF WellFormed
  <2>2. m.type[o] \in STRING
    BY <1>1, <1>3 DEF WellFormed
  <2> QED
    BY <1>1, <2>1, <2>2 DEF NULL
<1>4. 1 \in Objects(m)
  BY DEF WellFormed, OfType
<1> QED
  BY <1>1, <1>2, <1>3, <1>4 DEF OfType

\* Links that lead to a rank below have an end: the recursion of Follow has a
\* value, at which the test holds.
Ranked(n, link, rank) ==
  /\ n \in Nat /\ link \in [1 .. n -> 0 .. n] /\ rank \in [0 .. n -> Nat]
  /\ \A p \in 1 .. n : rank[link[p]] < rank[p]

Walked(n, link, stop, f) ==
  f = [p \in {NULL} \union (1 .. n) |-> IF p = NULL \/ p \in stop THEN p ELSE f[link[p]]]

WalkedTo(n, link, rank, stop, f, k) ==
  \A p \in 0 .. n : rank[p] < k =>
    f[p] = IF p = NULL \/ p \in stop THEN p ELSE f[link[p]]

LEMMA FollowUpTo ==
  ASSUME NEW n, NEW link, NEW rank, NEW stop, Ranked(n, link, rank)
  PROVE  \A k \in Nat : \E f \in [0 .. n -> 0 .. n] : WalkedTo(n, link, rank, stop, f, k)
<1> DEFINE Has(k) == \E f \in [0 .. n -> 0 .. n] : WalkedTo(n, link, rank, stop, f, k)
<1>1. Has(0)
  <2>1. [p \in 0 .. n |-> p] \in [0 .. n -> 0 .. n]
    OBVIOUS
  <2>2. WalkedTo(n, link, rank, stop, [p \in 0 .. n |-> p], 0)
    BY DEF Ranked, WalkedTo
  <2> QED
    BY <2>1, <2>2
<1>2. ASSUME NEW k \in Nat, Has(k) PROVE Has(k + 1)
  <2>1. PICK f \in [0 .. n -> 0 .. n] : WalkedTo(n, link, rank, stop, f, k)
    BY <1>2
  <2> DEFINE g == [p \in 0 .. n |-> IF rank[p] < k THEN f[p]
                                    ELSE IF p = NULL \/ p \in stop THEN p ELSE f[link[p]]]
  <2>2. g \in [0 .. n -> 0 .. n]
    BY DEF Ranked, NULL
  <2>3. ASSUME NEW p \in 0 .. n, rank[p] < k + 1
        PROVE  g[p] = IF p = NULL \/ p \in stop THEN p ELSE g[link[p]]
    <3>1. CASE p = NULL \/ p \in stop
      <4>1. rank[p] < k => f[p] = p
        BY <2>1, <3>1 DEF WalkedTo
      <4> QED
        BY <3>1, <4>1
    <3>2. CASE p # NULL /\ p \notin stop
      <4>1. link[p] \in 0 .. n /\ rank[link[p]] < rank[p] /\ rank[p] \in Nat
            /\ rank[link[p]] \in Nat
        BY <3>2 DEF Ranked, NULL
      <4>2. rank[link[p]] < k
        BY <2>3, <4>1
      <4>3. g[link[p]] = f[link[p]]
        BY <4>1, <4>2
      <4>4. rank[p] < k => f[p] = f[link[p]]
        BY <2>1, <3>2 DEF WalkedTo
      <4>5. g[p] = f[link[p]]
        BY <3>2, <4>4
      <4> QED
        BY <3>2, <4>3, <4>5
    <3> QED
      BY <3>1, <3>2
  <2> HIDE DEF g
  <2>4. WalkedTo(n, link, rank, stop, g, k + 1)
    BY <2>3 DEF WalkedTo
  <2> QED
    BY <2>2, <2>4
<1> DEFINE G == {k \in Nat : Has(k)}
<1> HIDE DEF Has
<1>3. 0 \in G /\ \A k \in G : k + 1 \in G
  BY <1>1, <1>2
<1>4. \A k \in Nat : Has(k)
  BY <1>3, NatCounted
<1> QED
  BY <1>4 DEF Has

LEMMA Bounded ==
  ASSUME NEW n \in Nat, NEW f \in [0 .. n -> Nat]
  PROVE  \E k \in Nat : \A p \in 0 .. n : f[p] < k
<1> DEFINE Has(j) == \E k \in Nat : \A p \in 0 .. n : p <= j => f[p] < k
           G == {j \in Nat : Has(j)}
<1>1. Has(0)
  <2>1. f[0] + 1 \in Nat /\ \A p \in 0 .. n : p <= 0 => f[p] < f[0] + 1
    OBVIOUS
  <2> QED
    BY <2>1
<1>2. ASSUME NEW j \in Nat, Has(j) PROVE Has(j + 1)
  <2>1. PICK k \in Nat : \A p \in 0 .. n : p <= j => f[p] < k
    BY <1>2
  <2>2. CASE j + 1 \in 0 .. n
    <3>1. f[j + 1] \in Nat
      BY <2>2
    <3>2. PICK h \in Nat : k <= h /\ f[j + 1] < h
      <4>1. CASE f[j + 1] < k
        BY <4>1
      <4>2. CASE ~(f[j + 1] < k)
        <5>1. f[j + 1] + 1 \in Nat /\ k <= f[j + 1] + 1 /\ f[j + 1] < f[j + 1] + 1
          BY <3>1, <4>2
        <5> QED
          BY <5>1
      <4> QED
        BY <4>1, <4>2
    <3>3. ASSUME NEW p \in 0 .. n, p <= j + 1 PROVE f[p] < h
      <4>1. CASE p = j + 1
        BY <3>2, <4>1
      <4>2. CASE p # j + 1
        <5>1. p <= j
          BY <3>3, <4>2
        <5>2. f[p] < k /\ f[p] \in Nat
          BY <2>1, <5>1
        <5> QED
          BY <3>2, <5>2
      <4> QED
        BY <4>1, <4>2
    <3> QED
      BY <3>3
  <2>3. CASE j + 1 \notin 0 .. n
    <3>1. \A p \in 0 .. n : p <= j + 1 => p <= j
      BY <2>3
    <3> QED
      BY <2>1, <3>1
  <2> QED
    BY <2>2, <2>3
<1> HIDE DEF Has
<1>3. 0 \in G /\ \A k \in G : k + 1 \in G
  BY <1>1, <1>2
<1>4. Has(n)
  BY <1>3, NatCounted
<1> QED
  BY <1>4 DEF Has

LEMMA FollowExists ==
  ASSUME NEW n, NEW link, NEW rank, NEW stop, Ranked(n, link, rank)
  PROVE  \E f \in [0 .. n -> 0 .. n] : Walked(n, link, stop, f)
<1>1. PICK k \in Nat : \A p \in 0 .. n : rank[p] < k
  BY Bounded DEF Ranked
<1>2. PICK f \in [0 .. n -> 0 .. n] : WalkedTo(n, link, rank, stop, f, k)
  BY FollowUpTo
<1>3. {NULL} \union (1 .. n) = 0 .. n
  BY SMTT(20) DEF NULL, Ranked
<1>4. f = [p \in 0 .. n |-> IF p = NULL \/ p \in stop THEN p ELSE f[link[p]]]
  BY <1>1, <1>2 DEF WalkedTo
<1> QED
  BY <1>3, <1>4 DEF Walked

\* The objects on the way to the root of the tree.
LEMMA AboveExists ==
  ASSUME NEW m, WellFormed(m)
  PROVE  \E f : f = [p \in {NULL} \union Objects(m) |->
                       IF p = NULL THEN {} ELSE {p} \union f[m.parent[p]]]
<1> DEFINE n == Len(m.type)
           Up(f, p) == IF p = NULL THEN {} ELSE {p} \union f[m.parent[p]]
           Has(k) == \E f : /\ f = [p \in 0 .. n |-> f[p]]
                            /\ \A p \in 0 .. n : p <= k => f[p] = Up(f, p)
           G == {k \in Nat : Has(k)}
<1>1. n \in Nat /\ {NULL} \union Objects(m) = 0 .. n
  BY Tree DEF NULL
<1>2. ASSUME NEW p \in 0 .. n, p # NULL PROVE m.parent[p] \in 0 .. n /\ m.parent[p] < p
  <2>1. p \in Objects(m)
    BY <1>1, <1>2
  <2> QED
    BY <1>1, <2>1, Tree
<1>3. Has(0)
  <2> DEFINE f == [p \in 0 .. n |-> {}]
  <2>1. f = [p \in 0 .. n |-> f[p]]
    OBVIOUS
  <2>2. \A p \in 0 .. n : p <= 0 => f[p] = Up(f, p)
    BY <1>1 DEF NULL
  <2> HIDE DEF f
  <2> QED
    BY <2>1, <2>2
<1>4. ASSUME NEW k \in Nat, Has(k) PROVE Has(k + 1)
  <2>1. PICK f : /\ f = [p \in 0 .. n |-> f[p]]
                 /\ \A p \in 0 .. n : p <= k => f[p] = Up(f, p)
    BY <1>4
  <2> DEFINE g == [p \in 0 .. n |-> IF p <= k THEN f[p] ELSE Up(f, p)]
  <2>2. g = [p \in 0 .. n |-> g[p]]
    OBVIOUS
  <2>3. ASSUME NEW p \in 0 .. n, p <= k + 1 PROVE g[p] = Up(g, p)
    <3>1. g[p] = Up(f, p)
      BY <2>1
    <3>2. CASE p = NULL
      BY <3>1, <3>2
    <3>3. CASE p # NULL
      <4>1. m.parent[p] \in 0 .. n /\ m.parent[p] <= k
        BY <1>1, <1>2, <2>3, <3>3
      <4>2. g[m.parent[p]] = f[m.parent[p]]
        BY <4>1
      <4> QED
        BY <3>1, <4>2
    <3> QED
      BY <3>2, <3>3
  <2> HIDE DEF g
  <2> QED
    BY <2>2, <2>3
<1>5. Has(n)
  <2> HIDE DEF Has
  <2>1. 0 \in G /\ \A k \in G : k + 1 \in G
    BY <1>3, <1>4
  <2> QED
    BY <1>1, <2>1, NatCounted
<1>6. PICK f : /\ f = [p \in 0 .. n |-> f[p]]
               /\ \A p \in 0 .. n : p <= n => f[p] = Up(f, p)
  BY <1>5
<1>7. \A p \in 0 .. n : f[p] = Up(f, p)
  <2> HIDE DEF n, Up
  <2>1. \A p \in 0 .. n : p <= n
    BY <1>1
  <2> QED
    BY <1>6, <2>1
<1>8. f = [p \in 0 .. n |-> Up(f, p)]
  BY <1>6, <1>7
<1> QED
  BY <1>1, <1>8

LEMMA AboveIs ==
  ASSUME NEW m, WellFormed(m)
  PROVE  /\ Above(m, NULL) = {}
         /\ \A o \in Objects(m) : Above(m, o) = {o} \union Above(m, m.parent[o])
<1> DEFINE above == CHOOSE f : f = [p \in {NULL} \union Objects(m) |->
                       IF p = NULL THEN {} ELSE {p} \union f[m.parent[p]]]
<1>1. above = [p \in {NULL} \union Objects(m) |->
                 IF p = NULL THEN {} ELSE {p} \union above[m.parent[p]]]
  BY AboveExists
<1>2. \A o : Above(m, o) = above[o]
  BY DEF Above
<1> HIDE DEF above
<1>3. \A o \in Objects(m) : o # NULL
  BY Tree DEF NULL
<1> QED
  BY <1>1, <1>2, <1>3

\* What holds of an object when it holds of its parent holds of all.
LEMMA TreeInduction ==
  ASSUME NEW m, WellFormed(m), NEW G,
         \A o \in Objects(m) : m.parent[o] \in {NULL} \union G => o \in G
  PROVE  Objects(m) \subseteq G
<1> SUFFICES ASSUME Objects(m) \ G # {} PROVE FALSE
  OBVIOUS
<1>1. Objects(m) \ G \in SUBSET Nat
  BY Tree
<1>2. PICK k \in Objects(m) \ G : \A j \in Objects(m) \ G : k <= j
  BY <1>1, LeastOne
<1>3. m.parent[k] \in {NULL} \union Objects(m) /\ ~(k <= m.parent[k])
  <2>1. m.parent[k] \in {NULL} \union Objects(m) /\ m.parent[k] < k /\ k \in Nat
    BY <1>1, <1>2, Tree
  <2>2. m.parent[k] \in Nat
    BY <2>1, Tree DEF NULL
  <2> QED
    BY <2>1, <2>2
<1> QED
  BY <1>2, <1>3

LEMMA AboveObjects ==
  ASSUME NEW m, WellFormed(m)
  PROVE  \A o \in Objects(m) :
           o \in Above(m, o) /\ \A p \in Above(m, o) : p \in Objects(m) /\ p <= o
<1> DEFINE G == {o \in Objects(m) : \A p \in Above(m, o) : p \in Objects(m) /\ p <= o}
<1>1. ASSUME NEW o \in Objects(m), m.parent[o] \in {NULL} \union G PROVE o \in G
  <2>1. m.parent[o] < o /\ o \in Nat /\ m.parent[o] \in Nat
    BY Tree DEF NULL
  <2>2. ASSUME NEW p \in Above(m, o) PROVE p \in Objects(m) /\ p <= o
    <3>1. CASE p = o
      BY <2>1, <3>1
    <3>2. CASE p # o
      <4>1. p \in Above(m, m.parent[o])
        BY <2>2, <3>2, AboveIs
      <4>2. m.parent[o] \in G
        BY <1>1, <4>1, AboveIs
      <4>3. p \in Objects(m) /\ p <= m.parent[o]
        BY <4>1, <4>2
      <4>4. p \in Nat
        BY <4>3, Tree
      <4> QED
        BY <2>1, <4>3, <4>4
    <3> QED
      BY <3>1, <3>2
  <2> QED
    BY <2>2
<1>2. Objects(m) \subseteq G
  <2> HIDE DEF G
  <2> QED
    BY <1>1, TreeInduction
<1> QED
  BY <1>2, AboveIs

LEMMA AboveUp ==
  ASSUME NEW m, WellFormed(m), NEW o \in Objects(m), NEW p \in Above(m, o)
  PROVE  /\ Above(m, p) \subseteq Above(m, o)
         /\ p # o => p \in Above(m, m.parent[o]) /\ m.parent[o] # NULL
<1> DEFINE G == {k \in Objects(m) : \A q \in Above(m, k) : Above(m, q) \subseteq Above(m, k)}
<1>1. ASSUME NEW k \in Objects(m), m.parent[k] \in {NULL} \union G PROVE k \in G
  <2>1. ASSUME NEW q \in Above(m, k) PROVE Above(m, q) \subseteq Above(m, k)
    <3>1. CASE q # k
      <4>1. q \in Above(m, m.parent[k])
        BY <2>1, <3>1, AboveIs
      <4>2. m.parent[k] \in G
        BY <1>1, <4>1, AboveIs
      <4>3. Above(m, q) \subseteq Above(m, m.parent[k])
        BY <4>1, <4>2
      <4> QED
        BY <4>3, AboveIs
    <3> QED
      BY <3>1
  <2> QED
    BY <2>1
<1>2. Objects(m) \subseteq G
  <2> HIDE DEF G
  <2> QED
    BY <1>1, TreeInduction
<1> QED
  BY <1>2, AboveIs

\* Two objects above a third are one above the other.
LEMMA AboveOne ==
  ASSUME NEW m, WellFormed(m), NEW o \in Objects(m),
         NEW p \in Above(m, o), NEW q \in Above(m, o), q <= p
  PROVE  q \in Above(m, p)
<1> DEFINE G == {k \in Objects(m) :
                   \A a, b \in Above(m, k) : b <= a => b \in Above(m, a)}
<1>1. ASSUME NEW k \in Objects(m), m.parent[k] \in {NULL} \union G PROVE k \in G
  <2>1. ASSUME NEW a \in Above(m, k), NEW b \in Above(m, k), b <= a
        PROVE  b \in Above(m, a)
    <3>1. CASE a = k
      BY <3>1
    <3>2. CASE a # k
      <4>1. a \in Above(m, m.parent[k]) /\ m.parent[k] # NULL
        BY <3>2, AboveUp
      <4>2. m.parent[k] \in G /\ m.parent[k] \in Objects(m) /\ m.parent[k] < k
        BY <1>1, <4>1, Tree
      <4>3. a <= m.parent[k] /\ a \in Nat /\ b \in Nat /\ k \in Nat /\ m.parent[k] \in Nat
        BY <4>1, <4>2, AboveObjects, Tree, SMTT(20)
      <4>4. b # k
        BY <2>1, <4>2, <4>3
      <4>5. b \in Above(m, m.parent[k])
        BY <4>4, AboveUp
      <4> QED
        BY <2>1, <4>1, <4>2, <4>5
    <3> QED
      BY <3>1, <3>2
  <2> QED
    BY <2>1
<1>2. Objects(m) \subseteq G
  <2> HIDE DEF G
  <2> QED
    BY <1>1, TreeInduction
<1> QED
  BY <1>2

\* One more than above the parent.
LEMMA AboveCount ==
  ASSUME NEW m, WellFormed(m), NEW o \in Objects(m)
  PROVE  /\ IsFiniteSet(Above(m, o)) /\ Cardinality(Above(m, o)) \in Nat
         /\ IsFiniteSet(Above(m, m.parent[o]))
         /\ Cardinality(Above(m, o)) = Cardinality(Above(m, m.parent[o])) + 1
<1>1. IsFiniteSet(Objects(m))
  BY Tree, FS_Interval, SMTT(20)
<1>2. \A p \in Objects(m) : IsFiniteSet(Above(m, p))
  <2>1. \A p \in Objects(m) : Above(m, p) \subseteq Objects(m)
    BY AboveObjects
  <2> QED
    BY <1>1, <2>1, FS_Subset
<1>3. IsFiniteSet(Above(m, m.parent[o]))
  BY <1>2, Tree, AboveIs, FS_EmptySet
<1>4. o \notin Above(m, m.parent[o])
  <2>1. m.parent[o] < o /\ o \in Nat /\ m.parent[o] \in Nat
    BY Tree DEF NULL
  <2>2. m.parent[o] = NULL => Above(m, m.parent[o]) = {}
    BY AboveIs
  <2>3. m.parent[o] # NULL => \A p \in Above(m, m.parent[o]) : p <= m.parent[o]
    BY AboveObjects, Tree
  <2> QED
    BY <2>1, <2>2, <2>3
<1>5. Above(m, o) = Above(m, m.parent[o]) \union {o}
  BY AboveIs
<1>6. Cardinality(Above(m, o)) = Cardinality(Above(m, m.parent[o])) + 1
  BY <1>3, <1>4, <1>5, FS_AddElement
<1> QED
  BY <1>2, <1>3, <1>6, FS_CardinalityType

\* The number of objects above grows downwards.
LEMMA AboveMore ==
  ASSUME NEW m, WellFormed(m), NEW o \in Objects(m), NEW p \in Above(m, o)
  PROVE  /\ Cardinality(Above(m, p)) <= Cardinality(Above(m, o))
         /\ Cardinality(Above(m, p)) = Cardinality(Above(m, o)) => p = o
<1>1. p \in Objects(m) /\ Above(m, p) \subseteq Above(m, o)
  BY AboveObjects, AboveUp
<1>2. Cardinality(Above(m, p)) <= Cardinality(Above(m, o))
  BY <1>1, AboveCount, FS_Subset
<1>3. ASSUME Cardinality(Above(m, p)) = Cardinality(Above(m, o)) PROVE p = o
  <2>1. Above(m, p) = Above(m, o)
    BY <1>1, <1>3, AboveCount, FS_Subset
  <2>2. o \in Above(m, p)
    BY <2>1, AboveObjects
  <2>3. o <= p /\ p <= o /\ o \in Nat /\ p \in Nat
    BY <1>1, <2>2, AboveObjects, Tree
  <2> QED
    BY <2>3
<1> QED
  BY <1>2, <1>3

\* The first object on the way up that passes a test, or none on the way does.
Nearest(m, o, stop, r) ==
  \/ r = NULL /\ Above(m, o) \intersect stop = {}
  \/ /\ r \in Above(m, o) \intersect stop
     /\ \A q \in Above(m, o) \intersect stop : q \in Above(m, r)

\* Where the ways up end.
WaysUp(m, stop, f) ==
  f = [p \in {NULL} \union DOMAIN m.parent |->
         IF p = NULL \/ p \in stop THEN p ELSE f[m.parent[p]]]

LEMMA UpExists ==
  ASSUME NEW m, WellFormed(m), NEW stop
  PROVE  \E f : WaysUp(m, stop, f)
<1> DEFINE n == Len(m.type)
           rank == [p \in 0 .. n |-> p]
<1>1. n \in Nat /\ DOMAIN m.parent = 1 .. n
  BY Tree
<1>2. m.parent \in [1 .. n -> 0 .. n]
  <2>1. m.parent \in [1 .. n -> Nat]
    BY Tree DEF WellFormed
  <2>2. \A p \in 1 .. n : m.parent[p] \in 0 .. n
    BY Tree DEF NULL
  <2> HIDE DEF n
  <2> QED
    BY <2>1, <2>2
<1>3. Ranked(n, m.parent, rank)
  <2>1. rank \in [0 .. n -> Nat]
    OBVIOUS
  <2>2. \A p \in 1 .. n : m.parent[p] \in 0 .. n /\ m.parent[p] < p
    BY <1>2, Tree
  <2>3. \A p \in 1 .. n : rank[m.parent[p]] < rank[p]
    <3> HIDE DEF n
    <3> QED
      BY <1>1, <2>2
  <2> QED
    BY <1>1, <1>2, <2>1, <2>3 DEF Ranked
<1> HIDE DEF rank
<1>4. PICK f : Walked(n, m.parent, stop, f)
  BY <1>3, FollowExists
<1> QED
  BY <1>1, <1>4 DEF Walked, WaysUp

LEMMA UpIsNearest ==
  ASSUME NEW m, WellFormed(m), NEW stop, NEW f, WaysUp(m, stop, f)
  PROVE  \A o \in {NULL} \union Objects(m) : Nearest(m, o, stop, f[o])
<1> DEFINE G == {o \in Objects(m) : Nearest(m, o, stop, f[o])}
<1> USE DEF WaysUp
<1>1. Nearest(m, NULL, stop, f[NULL])
  BY AboveIs DEF Nearest
<1>2. ASSUME NEW o \in Objects(m), m.parent[o] \in {NULL} \union G PROVE o \in G
  <2>1. CASE o \in stop
    <3>1. f[o] = o
      BY <2>1, Tree
    <3>2. \A q \in Above(m, o) : q \in Above(m, o)
      OBVIOUS
    <3> QED
      BY <2>1, <3>1, AboveObjects DEF Nearest
  <2>2. CASE o \notin stop
    <3>1. f[o] = f[m.parent[o]]
      BY <2>2, Tree DEF NULL
    <3>2. Nearest(m, m.parent[o], stop, f[m.parent[o]])
      BY <1>1, <1>2
    <3>3. Above(m, o) \intersect stop = Above(m, m.parent[o]) \intersect stop
      BY <2>2, AboveIs
    <3> QED
      BY <3>1, <3>2, <3>3 DEF Nearest
  <2> QED
    BY <2>1, <2>2
<1>3. Objects(m) \subseteq G
  <2> HIDE DEF G
  <2> QED
    BY <1>2, TreeInduction
<1> QED
  BY <1>1, <1>3

MemoryObjects(m) == {p \in Objects(m) : IsMemory(m, p)}

\* Objects on which a walk upwards stops.
MemoryStops(m) ==
  {p \in Objects(m) : IsMemory(m, p) \/ MemoryFirstChild(m)[p] # NULL}

LEMMA CacheAboveIs ==
  ASSUME NEW m, WellFormed(m), NEW o \in Objects(m)
  PROVE  Nearest(m, m.parent[o], MemoryObjects(m), CacheAbove(m, o))
<1> DEFINE f == CHOOSE f : f = [p \in {NULL} \union DOMAIN m.parent |->
                  IF p = NULL \/ IsMemory(m, p) THEN p ELSE f[m.parent[p]]]
<1>1. \E g : g = [p \in {NULL} \union DOMAIN m.parent |->
                    IF p = NULL \/ IsMemory(m, p) THEN p ELSE g[m.parent[p]]]
  <2>1. PICK g : WaysUp(m, MemoryObjects(m), g)
    BY UpExists
  <2> QED
    BY <2>1, Tree DEF WaysUp, MemoryObjects
<1>2. CacheAbove(m, o) = f[m.parent[o]]
  BY DEF CacheAbove, Follow
<1>3. WaysUp(m, MemoryObjects(m), f)
  BY <1>1, Tree DEF WaysUp, MemoryObjects
<1> HIDE DEF f
<1> QED
  BY <1>2, <1>3, UpIsNearest, Tree

\* One more use of the same: the walk from a cache, and where it ends.
LEMMA MemoryAboveIs ==
  ASSUME NEW m, WellFormed(m), NEW o \in Objects(m)
  PROVE  \E r : /\ Nearest(m, m.parent[o], MemoryStops(m), r)
                /\ MemoryAbove(m, o) = IF r = NULL \/ IsMemory(m, r) THEN r
                                       ELSE MemoryFirstChild(m)[r]
<1> DEFINE Stop(p) == IsMemory(m, p) \/ MemoryFirstChild(m)[p] # NULL
           f == CHOOSE f : f = [p \in {NULL} \union DOMAIN m.parent |->
                  IF p = NULL \/ Stop(p) THEN p ELSE f[m.parent[p]]]
<1>1. \E g : g = [p \in {NULL} \union DOMAIN m.parent |->
                    IF p = NULL \/ Stop(p) THEN p ELSE g[m.parent[p]]]
  <2>1. PICK g : WaysUp(m, MemoryStops(m), g)
    BY UpExists
  <2> QED
    BY <2>1, Tree, SMTT(20) DEF WaysUp, MemoryStops
<1>2. MemoryAbove(m, o) = IF f[m.parent[o]] = NULL \/ IsMemory(m, f[m.parent[o]])
                          THEN f[m.parent[o]] ELSE MemoryFirstChild(m)[f[m.parent[o]]]
  BY DEF MemoryAbove, Follow
<1>3. WaysUp(m, MemoryStops(m), f)
  BY <1>1, Tree DEF WaysUp, MemoryStops
<1> HIDE DEF f
<1>4. Nearest(m, m.parent[o], MemoryStops(m), f[m.parent[o]])
  BY <1>3, UpIsNearest, Tree
<1> QED
  BY <1>2, <1>4

GroupObjects(m) == {p \in Objects(m) : MemoryFirstChild(m)[p] # NULL}

LEMMA FirstMemoryGroupIs ==
  ASSUME NEW m, WellFormed(m)
  PROVE  Nearest(m, First(OfType(m, "CORE")), GroupObjects(m), FirstMemoryGroup(m))
<1> DEFINE f == CHOOSE f : f = [p \in {NULL} \union DOMAIN m.parent |->
                  IF p = NULL \/ MemoryFirstChild(m)[p] # NULL THEN p ELSE f[m.parent[p]]]
<1>1. \E g : g = [p \in {NULL} \union DOMAIN m.parent |->
                    IF p = NULL \/ MemoryFirstChild(m)[p] # NULL THEN p ELSE g[m.parent[p]]]
  <2>1. PICK g : WaysUp(m, GroupObjects(m), g)
    BY UpExists
  <2> QED
    BY <2>1, Tree DEF WaysUp, GroupObjects
<1>2. FirstMemoryGroup(m) = f[First(OfType(m, "CORE"))]
  BY DEF FirstMemoryGroup, Follow
<1>3. WaysUp(m, GroupObjects(m), f)
  BY <1>1, Tree DEF WaysUp, GroupObjects
<1> HIDE DEF f
<1>4. First(OfType(m, "CORE")) \in {NULL} \union Objects(m)
  BY Tree, FirstIs
<1> QED
  BY <1>2, <1>3, <1>4, UpIsNearest

LEMMA ParseObjIs ==
  ASSUME NEW m, WellFormed(m), NEW name
  PROVE  ParseObj(m, name) \in {NULL} \union Objects(m)
<1> DEFINE named == {o \in OfType(m, name.type) : LogicalIndex(m, o) = name.index}
<1>1. named \subseteq Objects(m)
  BY Tree
<1>2. named \in SUBSET Nat
  BY <1>1, Tree
<1>3. ParseObj(m, name) = First(named)
  BY DEF ParseObj
<1> HIDE DEF named
<1> QED
  BY <1>1, <1>2, <1>3, FirstIs

ParentObjects(m) == {p \in Objects(m) : FirstChild(m)[p] # NULL}

LEMMA ParseRootIs ==
  ASSUME NEW m, WellFormed(m), NEW name
  PROVE  ParseRoot(m, name) \in {NULL} \union Objects(m)
<1> DEFINE f == CHOOSE f : f = [p \in {NULL} \union DOMAIN m.parent |->
                  IF p = NULL \/ FirstChild(m)[p] # NULL THEN p ELSE f[m.parent[p]]]
<1>1. \E g : g = [p \in {NULL} \union DOMAIN m.parent |->
                    IF p = NULL \/ FirstChild(m)[p] # NULL THEN p ELSE g[m.parent[p]]]
  <2>1. PICK g : WaysUp(m, ParentObjects(m), g)
    BY UpExists
  <2> QED
    BY <2>1, Tree DEF WaysUp, ParentObjects
<1>2. ParseRoot(m, name) = f[ParseObj(m, name)]
  BY DEF ParseRoot, Follow
<1>3. WaysUp(m, ParentObjects(m), f)
  BY <1>1, Tree DEF WaysUp, ParentObjects
<1>4. ParseObj(m, name) \in {NULL} \union Objects(m)
  BY ParseObjIs
<1> HIDE DEF f
<1>5. Nearest(m, ParseObj(m, name), ParentObjects(m), f[ParseObj(m, name)])
  BY <1>3, <1>4, UpIsNearest
<1>6. \A r : Nearest(m, ParseObj(m, name), ParentObjects(m), r) => r \in {NULL} \union Objects(m)
  BY <1>4, AboveIs, AboveObjects DEF Nearest
<1> QED
  BY <1>2, <1>5, <1>6

\* Children are after their parent; a memory child is a node.
LEMMA ChildrenAre ==
  ASSUME NEW m, WellFormed(m), NEW o \in Objects(m)
  PROVE  /\ FirstChild(m)[o] \in {NULL} \union Objects(m)
         /\ MemoryFirstChild(m)[o] \in {NULL} \union OfType(m, "NUMANODE")
         /\ MemoryFirstChild(m)[o] # NULL => m.parent[MemoryFirstChild(m)[o]] = o
<1> DEFINE c == ChildrenOf(m, o)
<1>1. c \in SUBSET Objects(m) /\ Objects(m) \subseteq Nat
  BY Tree DEF ChildrenOf
<1>2. /\ FirstChild(m)[o] = First(c \ OfType(m, "NUMANODE"))
      /\ MemoryFirstChild(m)[o] = First(c \intersect OfType(m, "NUMANODE"))
  BY DEF FirstChild, MemoryFirstChild
<1>3. First(c \ OfType(m, "NUMANODE")) \in {NULL} \union c
  BY <1>1, FirstIs
<1>4. First(c \intersect OfType(m, "NUMANODE")) \in {NULL} \union (c \intersect OfType(m, "NUMANODE"))
  BY <1>1, FirstIs
<1> QED
  BY <1>1, <1>2, <1>3, <1>4 DEF ChildrenOf

\* The next cousin is the next object of the type.
LEMMA NextCousinIs ==
  ASSUME NEW m, WellFormed(m), NEW o \in Objects(m)
  PROVE  LET next == NextCousin(m)[o]
             all  == OfType(m, m.type[o])
         IN  /\ next = NULL => \A c \in all : c <= o
             /\ next # NULL => /\ next \in all /\ o < next
                               /\ \A c \in all : c <= o \/ next <= c
<1> DEFINE after == {c \in Objects(m) : c > o /\ Depth(m, c) = Depth(m, o)}
           all == OfType(m, m.type[o])
<1>1. after = {c \in all : c > o}
  BY DEF WellFormed, OfType
<1>2. after \in SUBSET Nat /\ o \in Nat /\ all \subseteq Nat
  BY Tree
<1>3. NextCousin(m)[o] = First(after)
  BY DEF NextCousin
<1> HIDE DEF after, all
<1>4. NextCousin(m)[o] = NULL => after = {}
  BY <1>2, <1>3, <1>1, FirstIs DEF NULL
<1>5. NextCousin(m)[o] # NULL =>
        NextCousin(m)[o] \in after /\ \A c \in after : NextCousin(m)[o] <= c
  BY <1>2, <1>3, FirstIs
<1>6. \A c \in all : c \notin after => c <= o
  BY <1>1, <1>2
<1>7. NextCousin(m)[o] = NULL => \A c \in all : c <= o
  BY <1>4, <1>6
<1>8. NextCousin(m)[o] # NULL =>
        /\ NextCousin(m)[o] \in all /\ o < NextCousin(m)[o]
        /\ \A c \in all : c <= o \/ NextCousin(m)[o] <= c
  BY <1>1, <1>2, <1>5, <1>6
<1> QED
  BY <1>7, <1>8 DEF all

-----------------------------------------------------------------------------
(***************************************************************************)
(* Types                                                                   *)
(***************************************************************************)
\* The strings there are and those of the program, which the provers cannot
\* tell to be among them.
Strings == STRING \union {"MACHINE", "NUMANODE", "firsttouch"}

Names == [type : Strings, index : Nat]

Options ==
  [types : SUBSET Types, oi : Int, mem : Seq(Names), restrict : BOOLEAN,
   matrix : BOOLEAN, src : Names, ht : BOOLEAN, policy : Strings]

Entry(m) ==
  [root : Objects(m), mem : {NULL} \union Objects(m), bandwidth : SUBSET Types,
   points : SUBSET [flops : Int, bytes : Int],
   kernels : SUBSET [op : Types, unit : FlopTypes]]

LEMMA FirstNames ==
  /\ [type |-> "MACHINE", index |-> 0] \in Names
  /\ [type |-> "NUMANODE", index |-> 0] \in Names
BY DEF Names, Strings

LEMMA ArgumentNames ==
  \A a \in Arguments :
    \/ a.name \in {"help", "unknown", "validate", "ht", "CARM", "matrix"}
    \/ a.name = "oi" /\ a.value \in Int
    \/ a.name = "policy" /\ a.value \in Strings
    \/ a.name = "type" /\ a.value \subseteq STRING
    \/ a.name = "src" /\ a.value \in Names
    \/ a.name = "memory" /\ a.value \in Seq(Names)
<1>1. [type : STRING, index : Nat] \subseteq Names
  BY DEF Names, Strings
<1>2. Seq([type : STRING, index : Nat]) \subseteq Seq(Names)
  BY <1>1, SeqMonotonic
<1>3. STRING \subseteq Strings
  BY DEF Strings
<1> QED
  BY <1>1, <1>2, <1>3, ArgumentsAssumption

LEMMA ApplyOptions ==
  ASSUME NEW o \in Options, NEW a \in Arguments, a.name \notin {"help", "unknown"}
  PROVE  Apply(o, a) \in Options
<1> USE DEF Options, Apply
<1>1. CASE a.name \in {"validate", "ht", "matrix"}
  <2>1. -1 \in Int
    OBVIOUS
  <2>2. CASE a.name = "validate"
    BY <2>1, <2>2
  <2>3. CASE a.name = "ht"
    BY <2>3
  <2>4. CASE a.name = "matrix"
    BY <2>4
  <2> QED
    BY <1>1, <2>2, <2>3, <2>4
<1>7. CASE a.name = "CARM"
  <2>1. {"MAD", "2LD1ST"} \subseteq Types
    BY DEF Types, FlopTypes, CacheTypes, StreamTypes
  <2>2. [type |-> "MACHINE", index |-> 0] \in Names
    BY FirstNames
  <2>3. Apply(o, a) = [o EXCEPT !.ht = FALSE, !.types = {"MAD", "2LD1ST"},
                                !.src = [type |-> "MACHINE", index |-> 0]]
    BY <1>7
  <2> HIDE DEF Apply
  <2>4. [o EXCEPT !.ht = FALSE] \in Options
    OBVIOUS
  <2>5. [o EXCEPT !.ht = FALSE, !.types = {"MAD", "2LD1ST"}] \in Options
    BY <2>1, <2>4
  <2> QED
    BY <2>1, <2>2, <2>3, <2>5
<1>2. CASE a.name = "oi" /\ a.value \in Int
  BY <1>2
<1>3. CASE a.name = "policy" /\ a.value \in Strings
  BY <1>3
<1>4. CASE a.name = "type" /\ a.value \subseteq STRING
  <2>1. UNION {TypeFromStr(n) : n \in a.value} \subseteq Types
    BY DEF TypeFromStr
  <2> QED
    BY <1>4, <2>1
<1>5. CASE a.name = "src" /\ a.value \in Names
  BY <1>5
<1>6. CASE a.name = "memory" /\ a.value \in Seq(Names)
  BY <1>6
<1> QED
  BY <1>1, <1>7, <1>2, <1>3, <1>4, <1>5, <1>6, ArgumentNames

\* Names of memories give a list of memories.
LEMMA ParseMemoriesIs ==
  ASSUME NEW m, WellFormed(m), NEW names \in Seq(Names)
  PROVE  ParseMemories(m, names) \in Seq(MemoryObjects(m))
<1> DEFINE n == Len(names)
           objs == [i \in 1 .. n |-> ParseObj(m, names[i])]
           Part(i) == IF objs[i] # NULL /\ IsMemory(m, objs[i]) THEN <<objs[i]>> ELSE <<>>
           S == Seq(MemoryObjects(m))
           Is(f) == f = [i \in 0 .. n |-> IF i = 0 THEN <<>> ELSE f[i - 1] \o Part(i)]
           Has(k) == \E f \in [0 .. n -> S] : \A i \in 0 .. n : i <= k =>
                       f[i] = IF i = 0 THEN <<>> ELSE f[i - 1] \o Part(i)
           G == {k \in Nat : Has(k)}
<1>1. n \in Nat
  OBVIOUS
<1>2. ASSUME NEW i \in 1 .. n PROVE Part(i) \in S
  <2>1. objs[i] \in {NULL} \union Objects(m)
    BY ParseObjIs
  <2>2. objs[i] # NULL /\ IsMemory(m, objs[i]) => objs[i] \in MemoryObjects(m)
    BY <2>1 DEF MemoryObjects
  <2> HIDE DEF objs
  <2> QED
    BY <2>2
<1> HIDE DEF n, Part
<1>3. Has(0)
  <2> DEFINE f == [i \in 0 .. n |-> <<>>]
  <2>1. f \in [0 .. n -> S] /\ \A i \in 0 .. n : f[i] = <<>>
    OBVIOUS
  <2>2. \A i \in 0 .. n : i <= 0 => i = 0
    BY <1>1
  <2> HIDE DEF f
  <2> QED
    BY <2>1, <2>2
<1>4. ASSUME NEW k \in Nat, Has(k) PROVE Has(k + 1)
  <2>1. PICK f \in [0 .. n -> S] : \A i \in 0 .. n : i <= k =>
          f[i] = IF i = 0 THEN <<>> ELSE f[i - 1] \o Part(i)
    BY <1>4
  <2> DEFINE g == [i \in 0 .. n |-> IF i <= k THEN f[i]
                                    ELSE IF i = 0 THEN <<>> ELSE f[i - 1] \o Part(i)]
  <2>2. g \in [0 .. n -> S]
    <3>1. ASSUME NEW i \in 0 .. n PROVE g[i] \in S
      <4>1. i # 0 => f[i - 1] \in S /\ Part(i) \in S
        BY <1>1, <1>2
      <4>2. f[i] \in S
        OBVIOUS
      <4>3. i # 0 => f[i - 1] \o Part(i) \in S
        BY <4>1
      <4>4. <<>> \in S
        OBVIOUS
      <4> HIDE DEF S
      <4> QED
        BY <4>2, <4>3, <4>4
    <3> QED
      BY <3>1
  <2>3. ASSUME NEW i \in 0 .. n, i <= k + 1
        PROVE  g[i] = IF i = 0 THEN <<>> ELSE g[i - 1] \o Part(i)
    <3>1. g[i] = IF i = 0 THEN <<>> ELSE f[i - 1] \o Part(i)
      BY <2>1
    <3>2. i # 0 => i - 1 \in 0 .. n /\ i - 1 <= k
      BY <1>1, <2>3
    <3>3. i # 0 => g[i - 1] = f[i - 1]
      BY <3>2
    <3> HIDE DEF g
    <3> QED
      BY <3>1, <3>3
  <2> HIDE DEF g
  <2> QED
    BY <2>2, <2>3
<1>5. Has(n)
  <2> HIDE DEF Has
  <2>1. 0 \in G /\ \A k \in G : k + 1 \in G
    BY <1>3, <1>4
  <2> QED
    BY <1>1, <2>1, NatCounted
<1>6. PICK f \in [0 .. n -> S] : \A i \in 0 .. n : i <= n =>
        f[i] = IF i = 0 THEN <<>> ELSE f[i - 1] \o Part(i)
  BY <1>5
<1>7. Is(f)
  <2>1. \A i \in 0 .. n : i <= n
    BY <1>1
  <2>2. \A i \in 0 .. n : f[i] = IF i = 0 THEN <<>> ELSE f[i - 1] \o Part(i)
    BY <1>6, <2>1
  <2> QED
    BY <2>2
<1> DEFINE parsed == CHOOSE g : Is(g)
<1>8. Is(parsed)
  <2> HIDE DEF Is
  <2> QED
    BY <1>7, Zenon
<1>9. ParseMemories(m, names) = parsed[n]
  BY DEF ParseMemories, n, Part
<1> HIDE DEF parsed
<1> DEFINE T == {k \in Nat : k <= n => parsed[k] \in S}
<1>10. T = Nat
  <2>1. 0 \in T
    BY <1>1, <1>8
  <2>2. ASSUME NEW k \in T PROVE k + 1 \in T
    <3>1. ASSUME k + 1 <= n PROVE parsed[k + 1] \in S
      <4>1. k + 1 \in 1 .. n /\ k + 1 # 0 /\ (k + 1) - 1 = k /\ k <= n
        BY <1>1, <3>1
      <4>2. parsed[k + 1] = parsed[k] \o Part(k + 1)
        <5>1. k + 1 \in 0 .. n
          BY <4>1
        <5>2. parsed[k + 1] = parsed[(k + 1) - 1] \o Part(k + 1)
          BY <1>8, <4>1, <5>1
        <5> QED
          BY <4>1, <5>2
      <4>3. parsed[k] \in S /\ Part(k + 1) \in S
        BY <1>2, <4>1
      <4> QED
        BY <4>2, <4>3
    <3> QED
      BY <3>1
  <2> HIDE DEF T
  <2> QED
    <3>1. T \in SUBSET Nat
      BY DEF T
    <3> QED
      BY <2>1, <2>2, <3>1, NatCounted
<1> HIDE DEF Is
<1>11. n <= n
  BY <1>1
<1>12. n \in T
  <2> HIDE DEF T
  <2> QED
    BY <1>1, <1>10
<1> QED
  BY <1>9, <1>11, <1>12

LEMMA TypesForTypes ==
  ASSUME NEW m, NEW o, opt \in Options
  PROVE  TypesFor(m, o) \subseteq Types
<1>1. opt.types \subseteq Types
  BY DEF Options
<1>2. FilterTypes(m, o, opt.types) \subseteq Types
  BY <1>1 DEF FilterTypes
<1>3. DefaultTypes(m, o) \subseteq Types
  BY DEF DefaultTypes, Types, FlopTypes, CacheTypes, StreamTypes
<1> QED
  BY <1>2, <1>3 DEF TypesFor

LEMMA OiPointsInt ==
  ASSUME opt \in Options
  PROVE  OiPoints \subseteq [flops : Int, bytes : Int]
<1>1. opt.oi \in Int
  BY DEF Options
<1>2. CASE opt.oi = 0
  BY <1>2 DEF OiPoints
<1>3. CASE opt.oi < 0
  BY <1>1, <1>3 DEF OiPoints
<1>4. CASE opt.oi > 0
  <2> DEFINE bytes == IF opt.oi < 10 THEN 10 \div opt.oi ELSE 64
  <2>1. 10 \div opt.oi \in Int
    BY <1>1, <1>4
  <2>2. bytes \in Int
    BY <2>1
  <2>3. OiPoints = {[flops |-> Round(bytes * opt.oi, 10), bytes |-> bytes]}
    BY <1>1, <1>4 DEF OiPoints
  <2> HIDE DEF bytes
  <2>4. bytes * opt.oi \in Int
    BY <1>1, <2>2
  <2>5. \A k \in Int : Round(k, 10) \in Int
    BY DEF Round
  <2> QED
    BY <2>2, <2>3, <2>4, <2>5
<1> QED
  BY <1>1, <1>2, <1>3, <1>4

LEMMA KernelsTypes ==
  ASSUME NEW m, NEW o, opt \in Options
  PROVE  Kernels(m, o) \subseteq [op : Types, unit : FlopTypes]
<1> DEFINE asked == TypesFor(m, o) \union TypesFor(m, Core(m))
           units == {k \in DOMAIN FlopOrder : FlopOrder[k] \in FilterTypes(m, Core(m), asked)}
<1>1. asked \subseteq Types
  BY TypesForTypes
<1>2. FilterTypes(m, o, asked) \subseteq Types
  BY <1>1 DEF FilterTypes
<1>3. DOMAIN FlopOrder = 1 .. 4 /\ \A k \in 1 .. 4 : FlopOrder[k] \in FlopTypes
  BY DEF FlopOrder, FlopTypes
<1>4. First(units) # NULL => First(units) \in 1 .. 4
  <2>1. units \in SUBSET Nat /\ units \subseteq 1 .. 4
    BY <1>3
  <2> HIDE DEF units
  <2> QED
    BY <2>1, FirstIs
<1>5. Kernels(m, o) =
        IF First(units) = NULL THEN {}
        ELSE {[op |-> op, unit |-> FlopOrder[First(units)]] :
                op \in FilterTypes(m, o, asked) \ {"LATENCY_LOAD"}}
  BY DEF Kernels
<1> HIDE DEF units, asked
<1>6. First(units) # NULL => FlopOrder[First(units)] \in FlopTypes
  BY <1>3, <1>4
<1> QED
  BY <1>2, <1>5, <1>6

\* One entry or none is added to the log.
LEMMA BenchmarkIs ==
  ASSUME WellFormed(machine), opt \in Options,
         NEW r \in Objects(machine), NEW mem \in Objects(machine)
  PROVE  \/ TypesFor(machine, mem) = {} /\ Benchmark(r, mem) = <<>>
         \/ /\ TypesFor(machine, mem) # {}
            /\ \E b \in Entry(machine) :
                 /\ Benchmark(r, mem) = <<b>> /\ b.root = r /\ b.mem = mem
                 /\ b.points = OiPoints
<1>1. CASE TypesFor(machine, mem) = {}
  BY <1>1 DEF Benchmark
<1>2. CASE TypesFor(machine, mem) # {}
  <2> DEFINE kernels == IF OiPoints = {} THEN {} ELSE Kernels(machine, mem)
             b == [root |-> r, mem |-> mem, bandwidth |-> Bandwidth(machine, mem),
                   points |-> OiPoints, kernels |-> kernels]
  <2>1. Bandwidth(machine, mem) \subseteq Types
    BY TypesForTypes DEF Bandwidth, FilterTypes
  <2>2. OiPoints \subseteq [flops : Int, bytes : Int]
    BY OiPointsInt
  <2>3. kernels \subseteq [op : Types, unit : FlopTypes]
    BY KernelsTypes
  <2>4. Benchmark(r, mem) = <<b>>
    BY <1>2 DEF Benchmark
  <2> HIDE DEF kernels
  <2>5. b \in Entry(machine) /\ b.root = r /\ b.mem = mem /\ b.points = OiPoints
    BY <2>1, <2>2, <2>3 DEF Entry
  <2> HIDE DEF b
  <2> QED
    BY <1>2, <2>4, <2>5
<1> QED
  BY <1>1, <1>2

\* The first cache, node and core there are.
LEMMA FirstOfType ==
  ASSUME NEW m, WellFormed(m), NEW type \in {"L1", "NUMANODE", "CORE"}
  PROVE  /\ First(OfType(m, type)) \in OfType(m, type)
         /\ \A o \in OfType(m, type) : First(OfType(m, type)) <= o
<1>1. OfType(m, type) \subseteq Objects(m) /\ Objects(m) \subseteq Nat
  BY Tree
<1>2. OfType(m, type) # {}
  BY DEF WellFormed
<1>3. OfType(m, type) \in SUBSET Nat
  BY <1>1
<1> QED
  BY <1>2, <1>3, FirstIs

\* The memories of a machine, and where the walk goes.
LEMMA NextMemoryIs ==
  ASSUME NEW m, WellFormed(m), NEW o \in {NULL} \union Objects(m),
         NEW next \in NextMemory(m, o)
  PROVE  next \in {NULL} \union MemoryObjects(m)
<1>1. First(OfType(m, "L1")) \in OfType(m, "L1")
  BY FirstOfType
<1>2. \A type \in {"L1", "NUMANODE"} : OfType(m, type) \subseteq MemoryObjects(m)
  BY DEF OfType, MemoryObjects, IsMemory, IsCache, Caches
<1>3. CASE next = First(OfType(m, "L1"))
  BY <1>1, <1>2, <1>3
<1>4. CASE o # NULL /\ next = MemoryAbove(m, o)
  <2>1. PICK r : /\ Nearest(m, m.parent[o], MemoryStops(m), r)
                 /\ next = IF r = NULL \/ IsMemory(m, r) THEN r
                           ELSE MemoryFirstChild(m)[r]
    BY <1>4, MemoryAboveIs
  <2>2. r = NULL \/ r \in Objects(m)
    BY <2>1 DEF Nearest, MemoryStops
  <2> QED
    BY <1>2, <2>1, <2>2, ChildrenAre DEF MemoryObjects
<1>5. CASE o # NULL /\ next = CacheAbove(m, o)
  BY <1>5, CacheAboveIs DEF Nearest
<1>6. CASE o # NULL /\ m.type[o] = "NUMANODE" /\ next \in {o, NextCousin(m)[o]}
  <2>1. o \in OfType(m, "NUMANODE")
    BY <1>6 DEF OfType
  <2>2. NextCousin(m)[o] \in {NULL} \union OfType(m, "NUMANODE")
    BY <1>6, NextCousinIs
  <2> QED
    BY <1>2, <1>6, <2>1, <2>2
<1> QED
  BY <1>3, <1>4, <1>5, <1>6 DEF NextMemory

-----------------------------------------------------------------------------
(***************************************************************************)
(* Types of the state, and where the program is in it: nothing was         *)
(* measured before the peaks, and each way is taken with its option.       *)
(***************************************************************************)
PCs == {"args", "bind", "flops", "matrix", "cluster", "list", "walk", "done", "exit"}

Early == pc \in {"args", "exit", "flops"} \/ (pc = "bind" /\ resume = "flops")

InMatrix == pc \in {"matrix", "cluster"} \/ (pc = "bind" /\ resume = "cluster")

TypeInv ==
  /\ machine \in Machines /\ opt \in Options /\ given \in 0 .. MaxOptions
  /\ pc \in PCs /\ resume \in {"flops", "cluster"}
  /\ \A t \in DOMAIN pool : pool[t] \in {NULL} \union OfType(machine, "PU")
  /\ {root, memory, cluster} \subseteq {NULL} \union Objects(machine)
  /\ pc \notin {"args", "exit"} => root # NULL
  /\ items \in Seq(MemoryObjects(machine)) /\ log \in Seq(Entry(machine))

ControlInv ==
  /\ Early => log = <<>> /\ memory = NULL /\ cluster = NULL
  /\ InMatrix => /\ Mode = "matrix" /\ memory \in OfType(machine, "NUMANODE")
                 /\ cluster \in {NULL} \union OfType(machine, "GROUP")
                 /\ pc # "matrix" => cluster # NULL
  /\ pc = "list" => Mode = "list"
  /\ pc = "walk" => Mode = "walk"
  /\ pc = "done" /\ Mode = "matrix" => cluster = NULL

LEMMA InitType == Init => TypeInv /\ ControlInv
<1> SUFFICES ASSUME Init PROVE TypeInv /\ ControlInv
  OBVIOUS
<1> USE DEF Init, RootInit
<1>1. opt \in Options
  <2>1. [type |-> "NUMANODE", index |-> 0] \in Names /\ "firsttouch" \in Strings
    BY FirstNames DEF Strings
  <2>2. <<>> \in Seq(Names)
    OBVIOUS
  <2> QED
    BY <2>1, <2>2 DEF Options0, Options
<1>2. given \in 0 .. MaxOptions
  BY OptionsAssumption
<1>3. TypeInv
  BY <1>1, <1>2 DEF TypeInv, PCs, NULL
<1>4. ControlInv
  BY DEF ControlInv, Early, InMatrix
<1> QED
  BY <1>3, <1>4

\* A log with the entries of one more benchmark.
Logged(r, mem) ==
  \/ TypesFor(machine, mem) = {} /\ log' = log
  \/ /\ TypesFor(machine, mem) # {}
     /\ Len(log') = Len(log) + 1
     /\ \A i \in 1 .. Len(log) : log'[i] = log[i]
     /\ log'[Len(log) + 1].root = r /\ log'[Len(log) + 1].mem = mem
     /\ log'[Len(log) + 1].points = OiPoints

LEMMA LoggedOne ==
  ASSUME TypeInv, NEW r \in Objects(machine), NEW mem \in Objects(machine),
         log' = log \o Benchmark(r, mem)
  PROVE  Logged(r, mem) /\ log' \in Seq(Entry(machine))
<1>1. WellFormed(machine) /\ opt \in Options /\ log \in Seq(Entry(machine))
  BY MachinesAssumption DEF TypeInv
<1>2. CASE TypesFor(machine, mem) = {} /\ Benchmark(r, mem) = <<>>
  <2>1. log' = log
    BY <1>1, <1>2
  <2> QED
    BY <1>1, <1>2, <2>1 DEF Logged
<1>3. CASE /\ TypesFor(machine, mem) # {}
           /\ \E b \in Entry(machine) :
                /\ Benchmark(r, mem) = <<b>> /\ b.root = r /\ b.mem = mem
                /\ b.points = OiPoints
  <2>1. PICK b \in Entry(machine) :
          /\ Benchmark(r, mem) = <<b>> /\ b.root = r /\ b.mem = mem
          /\ b.points = OiPoints
    BY <1>3
  <2>2. log' = Append(log, b)
    BY <1>1, <2>1
  <2>3. log' \in Seq(Entry(machine)) /\ Len(log') = Len(log) + 1
        /\ \A i \in 1 .. Len(log) : log'[i] = log[i]
    BY <1>1, <2>2
  <2>4. log'[Len(log) + 1] = b
    BY <1>1, <2>2
  <2> QED
    BY <1>3, <2>1, <2>3, <2>4 DEF Logged
<1> QED
  BY <1>1, <1>2, <1>3, BenchmarkIs

LEMMA SetRootType ==
  ASSUME TypeInv, NEW obj \in Objects(machine), NEW type, SetRoot(obj, type),
         UNCHANGED machine
  PROVE  /\ \A t \in DOMAIN pool' : pool'[t] \in {NULL} \union OfType(machine, "PU")
         /\ root' = obj
BY DEF TypeInv, SetRoot

LEMMA RegionType ==
  ASSUME TypeInv, NEW t \in DOMAIN pool, Region(t)
  PROVE  TypeInv'
<1>1. WellFormed(machine)
  BY MachinesAssumption DEF TypeInv
<1>2. \A o : CpuBind(machine, o) \in {NULL} \union OfType(machine, "PU")
  <2> SUFFICES ASSUME NEW o PROVE CpuBind(machine, o) \in {NULL} \union OfType(machine, "PU")
    OBVIOUS
  <2>1. Cpuset(machine, o) \subseteq OfType(machine, "PU")
    BY DEF Cpuset
  <2>2. OfType(machine, "PU") \subseteq Nat
    BY <1>1, Tree
  <2> QED
    BY <2>1, <2>2, FirstIs DEF CpuBind
<1>3. \A u \in DOMAIN pool' : pool'[u] \in {NULL} \union OfType(machine, "PU")
  BY <1>2 DEF Region, TakeNumber, Bind, TypeInv
<1>4. UNCHANGED <<machine, root, mainVars>>
  BY DEF Region, TakeNumber, Bind
<1> QED
  BY <1>3, <1>4 DEF TypeInv, mainVars

LEMMA ParseOptionType ==
  ASSUME TypeInv, ControlInv, NEW a \in Arguments, ParseOption(a)
  PROVE  TypeInv' /\ ControlInv'
<1>1. given' \in 0 .. MaxOptions
  BY OptionsAssumption DEF TypeInv, ParseOption
<1>2. opt' \in Options /\ pc' \in {"args", "exit"}
  BY ApplyOptions DEF TypeInv, ParseOption
<1>3. UNCHANGED <<machine, root, rootVars, resume, memory, cluster, items, log>>
  BY DEF ParseOption
<1>6. pc = "args"
  BY DEF ParseOption
<1>4. TypeInv'
  BY <1>1, <1>2, <1>3 DEF TypeInv, rootVars, PCs
<1>5. ControlInv'
  BY <1>2, <1>3, <1>6 DEF ControlInv, Early, InMatrix
<1> QED
  BY <1>4, <1>5

LEMMA LibInitType ==
  ASSUME TypeInv, ControlInv, LibInit
  PROVE  TypeInv' /\ ControlInv'
<1>1. UNCHANGED <<machine, opt, given, memory, cluster, items, log>>
  BY DEF LibInit
<1>4. log = <<>> /\ memory = NULL /\ cluster = NULL
  BY DEF LibInit, Early, ControlInv
<1>2. CASE ParseRoot(machine, opt.src) = NULL
  <2>1. pc' = "exit" /\ UNCHANGED <<root, rootVars, resume>>
    BY <1>2 DEF LibInit
  <2>2. TypeInv'
    BY <1>1, <2>1 DEF TypeInv, PCs, rootVars
  <2>3. ControlInv'
    BY <1>1, <1>4, <2>1 DEF ControlInv, Early, InMatrix
  <2> QED
    BY <2>2, <2>3
<1>3. CASE ParseRoot(machine, opt.src) # NULL
  <2>1. pc' = "bind" /\ resume' = "flops" /\ SetRoot(ParseRoot(machine, opt.src), LeafType)
    BY <1>3 DEF LibInit
  <2>2. ParseRoot(machine, opt.src) \in Objects(machine)
    BY <1>3, MachinesAssumption, ParseRootIs DEF TypeInv
  <2>3. /\ \A t \in DOMAIN pool' : pool'[t] \in {NULL} \union OfType(machine, "PU")
        /\ root' = ParseRoot(machine, opt.src)
    BY <1>1, <2>1, <2>2, SetRootType
  <2>4. TypeInv'
    BY <1>1, <1>3, <2>1, <2>2, <2>3 DEF TypeInv, PCs
  <2>5. ControlInv'
    BY <1>1, <1>4, <2>1 DEF ControlInv, Early, InMatrix
  <2> QED
    BY <2>4, <2>5
<1> QED
  BY <1>2, <1>3

LEMMA BenchFlopsType ==
  ASSUME TypeInv, ControlInv, BenchFlops
  PROVE  TypeInv' /\ ControlInv'
<1>0. pc = "flops"
  BY DEF BenchFlops
<1>1. /\ WellFormed(machine) /\ opt \in Options
      /\ root \in Objects(machine) /\ root # NULL
      /\ log = <<>> /\ memory = NULL /\ cluster = NULL
  BY <1>0, MachinesAssumption DEF TypeInv, ControlInv, Early
<1>2. UNCHANGED <<machine, root, rootVars, opt, given, resume>>
  BY DEF BenchFlops
<1>3. log' \in Seq(Entry(machine))
  <2> DEFINE peaks == [root |-> root, mem |-> NULL, bandwidth |-> Flops,
                       points |-> {}, kernels |-> {}]
  <2>1. Flops \subseteq Types
    BY <1>1, TypesForTypes DEF Flops, FilterTypes
  <2>2. peaks \in Entry(machine)
    BY <1>1, <2>1 DEF Entry
  <2>3. log' = log \/ log' = <<peaks>>
    BY DEF BenchFlops
  <2> HIDE DEF peaks
  <2>4. <<peaks>> \in Seq(Entry(machine))
    BY <2>2
  <2> QED
    BY <2>3, <2>4 DEF TypeInv
<1>4. items' \in Seq(MemoryObjects(machine))
  BY <1>1, ParseMemoriesIs DEF BenchFlops, Options
<1>5. First(OfType(machine, "NUMANODE")) \in OfType(machine, "NUMANODE")
  BY <1>1, FirstOfType
<1>6. First(OfType(machine, "GROUP")) \in {NULL} \union OfType(machine, "GROUP")
  <2>1. OfType(machine, "GROUP") \subseteq Nat
    BY <1>1, Tree
  <2> QED
    BY <2>1, FirstIs
<1>7. \A type : OfType(machine, type) \subseteq Objects(machine)
  BY DEF OfType
<1>8. CASE opt.matrix
  <2>1. /\ cluster' = First(OfType(machine, "GROUP"))
        /\ memory' = First(OfType(machine, "NUMANODE")) /\ pc' = "matrix"
    BY <1>8 DEF BenchFlops
  <2>2. TypeInv'
    BY <1>1, <1>2, <1>3, <1>4, <1>5, <1>6, <1>7, <2>1 DEF TypeInv, PCs, rootVars
  <2>3. ControlInv'
    BY <1>2, <1>5, <1>6, <1>8, <2>1 DEF ControlInv, Early, InMatrix, Mode
  <2> QED
    BY <2>2, <2>3
<1>9. CASE ~opt.matrix
  <2>1. pc' = (IF opt.restrict THEN "list" ELSE "walk") /\ UNCHANGED <<cluster, memory>>
    BY <1>9 DEF BenchFlops
  <2>2. TypeInv'
    BY <1>1, <1>2, <1>3, <1>4, <2>1 DEF TypeInv, PCs, rootVars
  <2>3. ControlInv'
    BY <1>2, <1>9, <2>1 DEF ControlInv, Early, InMatrix, Mode
  <2> QED
    BY <2>2, <2>3
<1> QED
  BY <1>8, <1>9

LEMMA RegionControl ==
  ASSUME TypeInv, ControlInv, NEW t \in DOMAIN pool, Region(t)
  PROVE  ControlInv'
BY DEF Region, TakeNumber, Bind, mainVars, ControlInv, Early, InMatrix, Mode

LEMMA EndRegionType ==
  ASSUME TypeInv, ControlInv, EndRegion
  PROVE  TypeInv' /\ ControlInv'
<1>1. /\ pc = "bind" /\ pc' = resume
      /\ UNCHANGED <<machine, root, rootVars, opt, given, resume, memory, cluster, items, log>>
  BY DEF EndRegion
<1>2. resume \in {"flops", "cluster"}
  BY DEF TypeInv
<1>3. TypeInv'
  BY <1>1, <1>2 DEF TypeInv, PCs, rootVars
<1>4. ControlInv'
  BY <1>1, <1>2 DEF ControlInv, Early, InMatrix, Mode
<1> QED
  BY <1>3, <1>4

LEMMA RootClusterType ==
  ASSUME TypeInv, ControlInv, RootCluster
  PROVE  TypeInv' /\ ControlInv'
<1>1. /\ pc = "matrix" /\ cluster # NULL /\ pc' = "bind" /\ resume' = "cluster"
      /\ SetRoot(cluster, LeafType)
      /\ UNCHANGED <<machine, opt, given, memory, cluster, items, log>>
  BY DEF RootCluster
<1>2. cluster \in Objects(machine)
  BY <1>1 DEF TypeInv
<1>3. /\ \A t \in DOMAIN pool' : pool'[t] \in {NULL} \union OfType(machine, "PU")
      /\ root' = cluster
  BY <1>1, <1>2, SetRootType
<1>4. TypeInv'
  BY <1>1, <1>2, <1>3 DEF TypeInv, PCs
<1>5. ControlInv'
  BY <1>1 DEF ControlInv, Early, InMatrix, Mode
<1> QED
  BY <1>4, <1>5

LEMMA BenchMatrixType ==
  ASSUME TypeInv, ControlInv, BenchMatrix
  PROVE  TypeInv' /\ ControlInv' /\ Logged(cluster, memory)
<1>0. pc = "cluster"
  BY DEF BenchMatrix
<1>1. /\ WellFormed(machine) /\ cluster \in OfType(machine, "GROUP")
      /\ memory \in OfType(machine, "NUMANODE")
      /\ cluster \in Objects(machine) /\ memory \in Objects(machine)
  BY <1>0, MachinesAssumption DEF TypeInv, ControlInv, InMatrix, OfType
<1>2. /\ log' = log \o Benchmark(cluster, memory) /\ pc = "cluster" /\ pc' = "matrix"
      /\ UNCHANGED <<machine, root, rootVars, opt, given, resume, items>>
      /\ memory' \in {First(OfType(machine, "NUMANODE"))} \union
                     ({NextCousin(machine)[memory]} \ {NULL})
      /\ cluster' \in {cluster, NextCousin(machine)[cluster]}
  BY DEF BenchMatrix
<1>3. Logged(cluster, memory) /\ log' \in Seq(Entry(machine))
  BY <1>1, <1>2, LoggedOne
<1>4. memory' \in OfType(machine, "NUMANODE")
  <2>1. NextCousin(machine)[memory] \in {NULL} \union OfType(machine, machine.type[memory])
    BY <1>1, NextCousinIs
  <2>2. machine.type[memory] = "NUMANODE"
    BY <1>1 DEF OfType
  <2> QED
    BY <1>1, <1>2, <2>1, <2>2, FirstOfType
<1>5. cluster' \in {NULL} \union OfType(machine, "GROUP")
  <2>1. NextCousin(machine)[cluster] \in {NULL} \union OfType(machine, machine.type[cluster])
    BY <1>1, NextCousinIs
  <2>2. machine.type[cluster] = "GROUP"
    BY <1>1 DEF OfType
  <2> QED
    BY <1>1, <1>2, <2>1, <2>2
<1>6. \A type : OfType(machine, type) \subseteq Objects(machine)
  BY DEF OfType
<1>7. TypeInv'
  BY <1>2, <1>3, <1>4, <1>5, <1>6 DEF TypeInv, PCs, rootVars
<1>8. ControlInv'
  BY <1>2, <1>4, <1>5 DEF ControlInv, Early, InMatrix, Mode
<1> QED
  BY <1>3, <1>7, <1>8

LEMMA BenchItemType ==
  ASSUME TypeInv, ControlInv, BenchItem
  PROVE  TypeInv' /\ ControlInv' /\ Logged(root, Head(items))
<1>1. /\ pc = "list" /\ items # <<>> /\ log' = log \o Benchmark(root, Head(items))
      /\ items' = Tail(items)
      /\ UNCHANGED <<machine, root, rootVars, opt, given, pc, resume, memory, cluster>>
  BY DEF BenchItem
<1>2. root \in Objects(machine) /\ items \in Seq(MemoryObjects(machine))
  BY <1>1 DEF TypeInv
<1>3. Head(items) \in MemoryObjects(machine) /\ Tail(items) \in Seq(MemoryObjects(machine))
  BY <1>1, <1>2
<1>4. Logged(root, Head(items)) /\ log' \in Seq(Entry(machine))
  BY <1>1, <1>2, <1>3, LoggedOne DEF MemoryObjects
<1>5. TypeInv'
  BY <1>1, <1>3, <1>4 DEF TypeInv, PCs, rootVars
<1>6. ControlInv'
  BY <1>1 DEF ControlInv, Early, InMatrix, Mode
<1> QED
  BY <1>4, <1>5, <1>6

LEMMA BenchNextType ==
  ASSUME TypeInv, ControlInv, BenchNext
  PROVE  /\ TypeInv' /\ ControlInv'
         /\ memory' # NULL => Logged(root, memory') /\ memory' \in MemoryObjects(machine)
<1>1. /\ pc = "walk" /\ memory' \in NextMemory(machine, memory)
      /\ memory' = NULL => pc' = "done" /\ log' = log
      /\ memory' # NULL => pc' = pc /\ log' = log \o Benchmark(root, memory')
      /\ UNCHANGED <<machine, root, rootVars, opt, given, resume, cluster, items>>
  BY DEF BenchNext
<1>2. /\ WellFormed(machine) /\ root \in Objects(machine)
      /\ memory \in {NULL} \union Objects(machine)
  BY <1>1, MachinesAssumption DEF TypeInv
<1>3. memory' \in {NULL} \union MemoryObjects(machine)
  BY <1>1, <1>2, NextMemoryIs
<1>4. \A o \in MemoryObjects(machine) : o \in Objects(machine)
  BY DEF MemoryObjects
<1>5. memory' # NULL => Logged(root, memory') /\ log' \in Seq(Entry(machine))
  BY <1>1, <1>2, <1>3, <1>4, LoggedOne
<1>6. log' \in Seq(Entry(machine))
  BY <1>1, <1>5 DEF TypeInv
<1>7. TypeInv'
  BY <1>1, <1>3, <1>4, <1>6 DEF TypeInv, PCs, rootVars
<1>8. ControlInv'
  BY <1>1 DEF ControlInv, Early, InMatrix, Mode
<1> QED
  BY <1>3, <1>5, <1>7, <1>8

LEMMA FinishType ==
  ASSUME TypeInv, ControlInv, Finish
  PROVE  TypeInv' /\ ControlInv'
<1>1. /\ (pc = "matrix" /\ cluster = NULL) \/ pc = "list"
      /\ UNCHANGED <<machine, root, rootVars, opt, given, resume, memory, cluster, items, log>>
      /\ pc' = "done"
  BY DEF Finish
<1>2. TypeInv'
  BY <1>1 DEF TypeInv, PCs, rootVars
<1>3. ControlInv'
  BY <1>1 DEF ControlInv, Early, InMatrix, Mode
<1> QED
  BY <1>2, <1>3

LEMMA StepType == TypeInv /\ ControlInv /\ [Next]_vars => TypeInv' /\ ControlInv'
<1> SUFFICES ASSUME TypeInv, ControlInv, [Next]_vars PROVE TypeInv' /\ ControlInv'
  OBVIOUS
<1>1. CASE UNCHANGED vars
  BY <1>1 DEF vars, mainVars, rootVars, TypeInv, ControlInv, Early, InMatrix, Mode
<1> QED
  BY <1>1, ParseOptionType, LibInitType, BenchFlopsType, RegionType, RegionControl,
     EndRegionType, RootClusterType, BenchMatrixType, BenchItemType, BenchNextType, FinishType
  DEF Next, Done

\* The state has its types on every machine: what is parsed, walked to and logged
\* are memories, and the types of operations stay in range of the bits there are.
THEOREM TypesCorrect == Spec => []TypeOK
<1>1. TypeInv /\ BindInv => TypeOK
  <2> SUFFICES ASSUME TypeInv, BindInv PROVE TypeOK
    OBVIOUS
  <2>1. Cardinality(critical) <= 1
    <3>1. CASE critical = {}
      BY <3>1, FS_EmptySet
    <3>2. ASSUME NEW t \in critical PROVE Cardinality(critical) <= 1
      <4>1. critical = {t}
        BY <3>2 DEF BindInv, Region1
      <4> QED
        BY <4>1, FS_Singleton
    <3> QED
      BY <3>1, <3>2
  <2>2. \A i \in 1 .. Len(items) : IsMemory(machine, items[i])
    BY DEF TypeInv, MemoryObjects
  <2>3. \A i \in 1 .. Len(log) :
          /\ log[i].root \in Objects(machine)
          /\ log[i].mem \in {NULL} \union Objects(machine)
          /\ log[i].bandwidth \subseteq Types
    <3>1. \A i \in 1 .. Len(log) : log[i] \in Entry(machine)
      BY DEF TypeInv
    <3> QED
      BY <3>1 DEF Entry
  <2>4. unbound \subseteq DOMAIN pool
    BY DEF BindInv, Region1
  <2>5. opt.types \subseteq Types /\ opt.oi \in Int
    BY DEF TypeInv, Options
  <2> QED
    BY <2>1, <2>2, <2>3, <2>4, <2>5 DEF TypeInv, TypeOK, PCs
<1>2. Spec => [](TypeInv /\ ControlInv)
  BY InitType, StepType, PTL DEF Spec
<1>3. Spec => []BindInv
  BY InitBind, StepBind, PTL DEF Spec
<1> QED
  BY <1>1, <1>2, <1>3, PTL

-----------------------------------------------------------------------------
(***************************************************************************)
(* The matrix: two cursors, on clusters and on nodes, pass over all pairs  *)
(* in order.  What is before them is in the log, once, and what is in the  *)
(* log is before them.                                                     *)
(***************************************************************************)
LEMMA MeasuresGrow ==
  ASSUME TypeInv, NEW r, NEW mem, mem # NULL, Logged(r, mem)
  PROVE  /\ Measures \subseteq 1 .. Len(log)
         /\ \A i \in Measures : log'[i] = log[i]
         /\ TypesFor(machine, mem) = {} => Measures' = Measures /\ log' = log
         /\ TypesFor(machine, mem) # {} =>
              /\ Measures' = Measures \union {Len(log) + 1} /\ Len(log) + 1 \notin Measures
              /\ log'[Len(log) + 1].root = r /\ log'[Len(log) + 1].mem = mem
              /\ log'[Len(log) + 1].points = OiPoints
<1>1. Len(log) \in Nat
  BY DEF TypeInv
<1>2. CASE log' = log /\ TypesFor(machine, mem) = {}
  BY <1>2 DEF Measures
<1>3. CASE /\ TypesFor(machine, mem) # {} /\ Len(log') = Len(log) + 1
           /\ \A i \in 1 .. Len(log) : log'[i] = log[i]
           /\ log'[Len(log) + 1].root = r /\ log'[Len(log) + 1].mem = mem
           /\ log'[Len(log) + 1].points = OiPoints
  <2>1. 1 .. Len(log') = (1 .. Len(log)) \union {Len(log) + 1}
    BY <1>1, <1>3
  <2>2. Measures' = Measures \union {Len(log) + 1}
    BY <1>3, <2>1 DEF Measures
  <2>3. Len(log) + 1 \notin 1 .. Len(log)
    BY <1>1
  <2> QED
    BY <1>3, <2>2, <2>3 DEF Measures
<1> QED
  BY <1>2, <1>3 DEF Logged

LEMMA TypesKept ==
  ASSUME UNCHANGED <<machine, opt>>
  PROVE  \A n : TypesFor(machine, n)' = TypesFor(machine, n)
BY DEF TypesFor

\* The pairs the cursors have passed.
Before(c, n) == cluster = NULL \/ c < cluster \/ (c = cluster /\ n < memory)

Entered(c, n) == \E i \in Measures : log[i].root = c /\ log[i].mem = n

InOrder == InMatrix \/ (pc = "done" /\ Mode = "matrix")

Different ==
  \A i, j \in Measures : i # j => log[i].root # log[j].root \/ log[i].mem # log[j].mem

MatrixInv ==
  InOrder =>
    /\ \A c \in OfType(machine, "GROUP"), n \in OfType(machine, "NUMANODE") :
         Before(c, n) /\ TypesFor(machine, n) # {} => Entered(c, n)
    /\ \A i \in Measures :
         /\ log[i].root \in OfType(machine, "GROUP")
         /\ log[i].mem \in OfType(machine, "NUMANODE")
         /\ Before(log[i].root, log[i].mem)
    /\ Different

LEMMA PeaksOnly ==
  ASSUME TypeInv, ControlInv, BenchFlops
  PROVE  Measures' = {}
<1>1. log = <<>>
  BY DEF BenchFlops, ControlInv, Early
<1>2. log' = <<>> \/ log' = <<[root |-> root, mem |-> NULL, bandwidth |-> Flops,
                               points |-> {}, kernels |-> {}]>>
  BY <1>1 DEF BenchFlops
<1>3. CASE log' = <<>>
  BY <1>3 DEF Measures
<1>4. CASE log' # <<>>
  <2>1. Len(log') = 1 /\ log'[1].mem = NULL
    BY <1>2, <1>4
  <2> QED
    BY <2>1 DEF Measures
<1> QED
  BY <1>3, <1>4

LEMMA NothingMeasured ==
  ASSUME Early, ControlInv
  PROVE  Measures = {}
<1>1. log = <<>>
  BY DEF ControlInv
<1> QED
  BY <1>1 DEF Measures

\* The cursors pass over the pair they are at.
LEMMA CursorsPass ==
  ASSUME TypeInv, ControlInv, BenchMatrix,
         NEW c \in OfType(machine, "GROUP"), NEW n \in OfType(machine, "NUMANODE")
  PROVE  Before(c, n)' <=> Before(c, n) \/ (c = cluster /\ n = memory)
<1>0. pc = "cluster"
  BY DEF BenchMatrix
<1>1. /\ WellFormed(machine) /\ cluster \in OfType(machine, "GROUP") /\ cluster # NULL
      /\ memory \in OfType(machine, "NUMANODE")
  BY <1>0, MachinesAssumption DEF TypeInv, ControlInv, InMatrix
<1>2. /\ cluster \in Objects(machine) /\ machine.type[cluster] = "GROUP"
      /\ memory \in Objects(machine) /\ machine.type[memory] = "NUMANODE"
  BY <1>1 DEF OfType
<1>3. c \in Nat \ {0} /\ n \in Nat \ {0} /\ cluster \in Nat /\ memory \in Nat
  BY <1>1, <1>2, Tree DEF OfType
<1> DEFINE next == NextCousin(machine)[memory]
           after == NextCousin(machine)[cluster]
<1>4. CASE next = NULL
  <2>1. memory' = First(OfType(machine, "NUMANODE")) /\ cluster' = after
    BY <1>4 DEF BenchMatrix
  <2>2. memory' \in Nat /\ memory' <= n
    <3>1. memory' \in OfType(machine, "NUMANODE") /\ memory' <= n
      BY <1>1, <2>1, FirstOfType
    <3> QED
      BY <1>1, <3>1, Tree DEF OfType
  <2>3. n <= memory
    BY <1>1, <1>2, <1>4, NextCousinIs
  <2>4. CASE after = NULL
    <3>1. c <= cluster
      BY <1>1, <1>2, <2>4, NextCousinIs
    <3> QED
      BY <1>1, <1>3, <2>1, <2>3, <2>4, <3>1 DEF Before, NULL
  <2>5. CASE after # NULL
    <3>1. cluster < after /\ (c <= cluster \/ after <= c) /\ after \in OfType(machine, "GROUP")
      BY <1>1, <1>2, <2>5, NextCousinIs
    <3>2. after \in Nat
      BY <1>1, <3>1, Tree DEF OfType
    <3> HIDE DEF after, next
    <3> QED
      BY <1>1, <1>3, <2>1, <2>2, <2>3, <2>5, <3>1, <3>2 DEF Before
  <2> QED
    BY <2>4, <2>5
<1>5. CASE next # NULL
  <2>1. memory' = next /\ cluster' = cluster
    BY <1>5 DEF BenchMatrix
  <2>2. memory < next /\ (n <= memory \/ next <= n) /\ next \in OfType(machine, "NUMANODE")
    BY <1>1, <1>2, <1>5, NextCousinIs
  <2>3. next \in Nat
    BY <1>1, <2>2, Tree DEF OfType
  <2> HIDE DEF after, next
  <2> QED
    BY <1>1, <1>3, <2>1, <2>2, <2>3 DEF Before
<1> QED
  BY <1>4, <1>5

LEMMA BenchMatrixOrder ==
  ASSUME TypeInv, ControlInv, MatrixInv, BenchMatrix
  PROVE  MatrixInv'
<1>0. pc = "cluster" /\ UNCHANGED <<machine, opt>>
  BY DEF BenchMatrix
<1>1. /\ cluster \in OfType(machine, "GROUP") /\ cluster # NULL
      /\ memory \in OfType(machine, "NUMANODE") /\ memory # NULL
  <2>1. WellFormed(machine)
    BY MachinesAssumption DEF TypeInv
  <2> QED
    BY <1>0, <2>1, Tree DEF ControlInv, InMatrix, OfType, NULL
<1>2. Logged(cluster, memory)
  BY BenchMatrixType
<1>3. /\ \A d \in OfType(machine, "GROUP"), n \in OfType(machine, "NUMANODE") :
           Before(d, n) /\ TypesFor(machine, n) # {} => Entered(d, n)
      /\ \A i \in Measures :
           /\ log[i].root \in OfType(machine, "GROUP")
           /\ log[i].mem \in OfType(machine, "NUMANODE")
           /\ Before(log[i].root, log[i].mem)
      /\ Different
  BY <1>0 DEF MatrixInv, InOrder, InMatrix
<1>4. ~Before(cluster, memory)
  <2>1. cluster \in Nat /\ memory \in Nat
    BY <1>1, MachinesAssumption, Tree DEF TypeInv, OfType
  <2> QED
    BY <1>1, <2>1 DEF Before
<1>5. \A n : TypesFor(machine, n)' = TypesFor(machine, n)
  BY <1>0, TypesKept
<1>6. \A d \in OfType(machine, "GROUP"), n \in OfType(machine, "NUMANODE") :
        Before(d, n)' <=> Before(d, n) \/ (d = cluster /\ n = memory)
  BY CursorsPass
<1>7. CASE TypesFor(machine, memory) = {}
  <2>1. Measures' = Measures /\ log' = log
    BY <1>1, <1>2, <1>7, MeasuresGrow
  <2>2. ASSUME NEW d \in OfType(machine, "GROUP"), NEW n \in OfType(machine, "NUMANODE"),
               Before(d, n)', TypesFor(machine, n) # {}
        PROVE  Entered(d, n)'
    <3>1. Entered(d, n)
      BY <1>3, <1>6, <1>7, <2>2
    <3> QED
      BY <2>1, <3>1 DEF Entered
  <2>3. (\A i \in Measures :
           /\ log[i].root \in OfType(machine, "GROUP")
           /\ log[i].mem \in OfType(machine, "NUMANODE")
           /\ Before(log[i].root, log[i].mem))'
    BY <1>0, <1>3, <1>6, <2>1 DEF Before
  <2>4. Different'
    BY <1>3, <2>1 DEF Different
  <2> QED
    BY <1>0, <1>5, <2>2, <2>3, <2>4 DEF MatrixInv
<1>8. CASE TypesFor(machine, memory) # {}
  <2> DEFINE k == Len(log) + 1
  <2>1. /\ Measures' = Measures \union {k} /\ k \notin Measures
        /\ \A i \in Measures : log'[i] = log[i]
        /\ log'[k].root = cluster /\ log'[k].mem = memory
    BY <1>1, <1>2, <1>8, MeasuresGrow
  <2> HIDE DEF k
  <2>2. ASSUME NEW d \in OfType(machine, "GROUP"), NEW n \in OfType(machine, "NUMANODE"),
               Before(d, n)', TypesFor(machine, n) # {}
        PROVE  Entered(d, n)'
    <3>1. CASE d = cluster /\ n = memory
      BY <2>1, <3>1 DEF Entered
    <3>2. CASE Before(d, n)
      <4>1. PICK i \in Measures : log[i].root = d /\ log[i].mem = n
        BY <1>3, <2>2, <3>2 DEF Entered
      <4> QED
        BY <2>1, <4>1 DEF Entered
    <3> QED
      BY <1>6, <2>2, <3>1, <3>2
  <2>3. (\A i \in Measures :
           /\ log[i].root \in OfType(machine, "GROUP")
           /\ log[i].mem \in OfType(machine, "NUMANODE")
           /\ Before(log[i].root, log[i].mem))'
    BY <1>0, <1>1, <1>3, <1>6, <2>1 DEF Before
  <2>4. ASSUME NEW i \in Measures', NEW j \in Measures', i # j
        PROVE  log'[i].root # log'[j].root \/ log'[i].mem # log'[j].mem
    BY <1>3, <1>4, <2>1, <2>4 DEF Different
  <2>5. Different'
    BY <2>4 DEF Different
  <2> QED
    BY <1>0, <1>5, <2>2, <2>3, <2>5 DEF MatrixInv
<1> QED
  BY <1>7, <1>8

\* A step that leaves the log and the cursors.
LEMMA OrderKept ==
  ASSUME MatrixInv, UNCHANGED <<machine, opt, log, memory, cluster>>, InOrder' => InOrder
  PROVE  MatrixInv'
<1>1. \A n : TypesFor(machine, n)' = TypesFor(machine, n)
  BY TypesKept
<1> QED
  BY <1>1 DEF MatrixInv, Before, Entered, Different, Measures

LEMMA StepOrder ==
  TypeInv /\ ControlInv /\ MatrixInv /\ [Next]_vars => MatrixInv'
<1> SUFFICES ASSUME TypeInv, ControlInv, MatrixInv, [Next]_vars PROVE MatrixInv'
  OBVIOUS
<1> USE DEF InOrder, InMatrix, Mode
<1>1. ASSUME NEW a \in Arguments, ParseOption(a) PROVE MatrixInv'
  <2>1. pc' \in {"args", "exit"}
    BY <1>1 DEF ParseOption
  <2> QED
    BY <2>1 DEF MatrixInv
<1>2. CASE LibInit
  <2>1. pc' = "exit" \/ (pc' = "bind" /\ resume' = "flops")
    BY <1>2 DEF LibInit
  <2> QED
    BY <2>1 DEF MatrixInv
<1>3. CASE BenchFlops
  <2>1. pc = "flops" /\ UNCHANGED <<machine, opt>> /\ WellFormed(machine)
    BY <1>3, MachinesAssumption DEF BenchFlops, TypeInv
  <2>2. Measures' = {}
    BY <1>3, PeaksOnly
  <2>3. CASE opt.matrix
    <3>1. /\ cluster' = First(OfType(machine, "GROUP"))
          /\ memory' = First(OfType(machine, "NUMANODE"))
      BY <1>3, <2>3 DEF BenchFlops
    <3>2. ASSUME NEW c \in OfType(machine, "GROUP"), NEW n \in OfType(machine, "NUMANODE")
          PROVE  ~Before(c, n)'
      <4>1. OfType(machine, "GROUP") \subseteq Nat \ {0} /\ OfType(machine, "NUMANODE") \subseteq Nat
        BY <2>1, Tree DEF OfType
      <4>2. cluster' \in OfType(machine, "GROUP") /\ cluster' <= c
        BY <3>1, <4>1, FirstIs
      <4>3. memory' <= n /\ memory' \in OfType(machine, "NUMANODE")
        BY <2>1, <3>1, FirstOfType
      <4>4. cluster' \in Nat \ {0} /\ memory' \in Nat /\ c \in Nat /\ n \in Nat
        BY <4>1, <4>2, <4>3
      <4> QED
        BY <4>2, <4>3, <4>4 DEF Before, NULL
    <3> QED
      BY <2>1, <2>2, <3>2 DEF MatrixInv, Different
  <2>4. CASE ~opt.matrix
    <3>1. pc' \in {"list", "walk"}
      BY <1>3, <2>4 DEF BenchFlops
    <3> QED
      BY <3>1 DEF MatrixInv
  <2> QED
    BY <2>3, <2>4
<1>4. ASSUME NEW t \in DOMAIN pool, Region(t) PROVE MatrixInv'
  BY <1>4, OrderKept DEF Region, TakeNumber, Bind, mainVars
<1>5. CASE EndRegion
  BY <1>5, OrderKept DEF EndRegion, TypeInv
<1>6. CASE RootCluster
  BY <1>6, OrderKept DEF RootCluster
<1>7. CASE BenchMatrix
  BY <1>7, BenchMatrixOrder
<1>8. CASE BenchItem
  <2>1. pc' = "list"
    BY <1>8 DEF BenchItem
  <2> QED
    BY <2>1 DEF MatrixInv
<1>9. CASE BenchNext
  <2>1. pc = "walk" /\ Mode = "walk" /\ UNCHANGED opt /\ pc' \in {"walk", "done"}
    BY <1>9 DEF BenchNext, ControlInv
  <2>2. ~InOrder'
    BY <2>1
  <2> QED
    BY <2>2 DEF MatrixInv
<1>10. CASE Finish
  <2>1. (pc = "matrix" /\ cluster = NULL) \/ pc = "list"
    BY <1>10 DEF Finish
  <2>2. pc = "list" => Mode = "list"
    BY DEF ControlInv
  <2> QED
    BY <1>10, <2>1, <2>2, OrderKept DEF Finish
<1>11. CASE UNCHANGED vars
  BY <1>11, OrderKept DEF vars, mainVars
<1> QED
  BY <1>1, <1>2, <1>3, <1>4, <1>5, <1>6, <1>7, <1>8, <1>9, <1>10, <1>11 DEF Next, Done

LEMMA InitOrder == Init => MatrixInv
BY DEF Init, MatrixInv, InOrder, InMatrix

\* When the matrix is over no node was left out from any cluster, on machines with
\* any number of clusters and nodes.
THEOREM MatrixWholeCorrect == Spec => []MatrixWhole
<1>1. ControlInv /\ MatrixInv => MatrixWhole
  BY DEF ControlInv, MatrixInv, MatrixWhole, InOrder, Before, Entered
<1>2. Spec => [](TypeInv /\ ControlInv /\ MatrixInv)
  BY InitType, StepType, InitOrder, StepOrder, PTL DEF Spec
<1> QED
  BY <1>1, <1>2, PTL

-----------------------------------------------------------------------------
(***************************************************************************)
(* Sizes.  What is measured is a memory, and its upper bound is halved     *)
(* only while it stays above the lower one.                                *)
(***************************************************************************)
LEMMA Half ==
  ASSUME NEW u \in Nat, u > 0
  PROVE  u \div 2 \in Nat /\ u \div 2 < u /\ \A k \in Nat : u > 2 * k => k <= u \div 2
<1>1. u = 2 * (u \div 2) + (u % 2) /\ (u % 2) \in 0 .. 1 /\ u \div 2 \in Int
  OBVIOUS
<1> DEFINE h == u \div 2
           r == u % 2
<1> HIDE DEF h, r
<1>2. h \in Int /\ r \in 0 .. 1 /\ u = 2 * h + r
  BY <1>1 DEF h, r
<1>3. h \in Nat /\ h < u /\ \A k \in Nat : u > 2 * k => k <= h
  BY <1>2
<1> QED
  BY <1>3 DEF h

LEMMA ReducedIs ==
  ASSUME NEW upper \in Nat, NEW lower \in 0 .. upper
  PROVE  Reduced(lower, upper) \in Nat /\ lower <= Reduced(lower, upper)
<1> DEFINE More(u) == u > GB /\ u > 2 * lower
           Is(f) == f = [u \in 0 .. upper |-> IF More(u) THEN f[u \div 2] ELSE u]
           link == [u \in 1 .. upper |-> u \div 2]
           rank == [u \in 0 .. upper |-> u]
           stop == {u \in 0 .. upper : ~More(u)}
           down == CHOOSE f : Is(f)
<1>1. \E f : Is(f)
  <2>1. link \in [1 .. upper -> 0 .. upper]
    <3>1. ASSUME NEW u \in 1 .. upper PROVE u \div 2 \in 0 .. upper
      BY Half
    <3> QED
      BY <3>1
  <2>2. rank \in [0 .. upper -> Nat]
    OBVIOUS
  <2>3. ASSUME NEW u \in 1 .. upper PROVE rank[link[u]] < rank[u]
    <3>1. u \div 2 \in 0 .. upper /\ u \div 2 < u
      BY Half
    <3> QED
      BY <3>1
  <2>4. Ranked(upper, link, rank)
    BY <2>1, <2>2, <2>3 DEF Ranked
  <2>5. PICK f : Walked(upper, link, stop, f)
    BY <2>4, FollowExists
  <2>6. ~More(0)
    BY SizeAssumption
  <2>7. {NULL} \union (1 .. upper) = 0 .. upper
    BY DEF NULL
  <2>8. \A u \in 0 .. upper : (u = NULL \/ u \in stop) <=> ~More(u)
    BY <2>6 DEF NULL
  <2>9. \A u \in 0 .. upper : u # 0 => link[u] = u \div 2
    OBVIOUS
  <2> HIDE DEF More, stop, link
  <2>10. f = [u \in 0 .. upper |-> IF u = NULL \/ u \in stop THEN u ELSE f[link[u]]]
    BY <2>5, <2>7 DEF Walked
  <2>11. f = [u \in 0 .. upper |-> IF More(u) THEN f[u \div 2] ELSE u]
    BY <2>8, <2>9, <2>10 DEF NULL
  <2> QED
    BY <2>11
<1>2. Is(down)
  BY <1>1
<1>3. Reduced(lower, upper) = down[upper]
  BY DEF Reduced
<1> HIDE DEF down
<1> DEFINE G == {k \in Nat : \A u \in 0 .. upper :
                   u <= k /\ lower <= u => down[u] \in Nat /\ lower <= down[u]}
<1>4. 0 \in G
  <2>1. ASSUME NEW u \in 0 .. upper, u <= 0, lower <= u
        PROVE  down[u] \in Nat /\ lower <= down[u]
    <3>1. u = 0 /\ ~More(0)
      BY <2>1, SizeAssumption
    <3>2. down[u] = u
      BY <1>2, <3>1
    <3> QED
      BY <2>1, <3>2
  <2> QED
    BY <2>1
<1>5. ASSUME NEW k \in G PROVE k + 1 \in G
  <2>1. ASSUME NEW u \in 0 .. upper, u <= k + 1, lower <= u
        PROVE  down[u] \in Nat /\ lower <= down[u]
    <3>1. CASE More(u)
      <4>1. u > 0 /\ lower \in Nat /\ u \in Nat
        BY <3>1, SizeAssumption
      <4>2. u \div 2 \in Nat /\ u \div 2 < u /\ lower <= u \div 2
        BY <3>1, <4>1, Half
      <4>3. u \div 2 \in 0 .. upper /\ u \div 2 <= k
        BY <2>1, <4>2
      <4>4. down[u] = down[u \div 2]
        BY <1>2, <3>1
      <4> HIDE DEF More
      <4> QED
        BY <4>2, <4>3, <4>4
    <3>2. CASE ~More(u)
      <4>1. down[u] = u
        BY <1>2, <3>2
      <4> QED
        BY <2>1, <4>1
    <3> QED
      BY <3>1, <3>2
  <2> QED
    BY <2>1
<1>6. G = Nat
  <2>1. G \in SUBSET Nat
    OBVIOUS
  <2> HIDE DEF G
  <2> QED
    BY <1>4, <1>5, <2>1, NatCounted
<1>7. upper \in G /\ lower <= upper
  BY <1>6
<1> QED
  BY <1>3, <1>7

MemoriesOnly == \A i \in Measures : log[i].mem \in MemoryObjects(machine)

LEMMA MemoriesKept ==
  ASSUME MemoriesOnly, UNCHANGED <<machine, log>>
  PROVE  MemoriesOnly'
BY DEF MemoriesOnly, Measures

LEMMA MemoryLogged ==
  ASSUME TypeInv, MemoriesOnly, NEW r, NEW mem \in MemoryObjects(machine),
         Logged(r, mem), UNCHANGED machine
  PROVE  MemoriesOnly'
<1>1. mem # NULL
  BY MachinesAssumption, Tree DEF TypeInv, MemoryObjects, NULL
<1> QED
  BY <1>1, MeasuresGrow DEF MemoriesOnly

LEMMA StepMemories ==
  TypeInv /\ ControlInv /\ MemoriesOnly /\ [Next]_vars => MemoriesOnly'
<1> SUFFICES ASSUME TypeInv, ControlInv, MemoriesOnly, [Next]_vars PROVE MemoriesOnly'
  OBVIOUS
<1>1. ASSUME NEW a \in Arguments, ParseOption(a) PROVE MemoriesOnly'
  BY <1>1, MemoriesKept DEF ParseOption
<1>2. CASE LibInit
  BY <1>2, MemoriesKept DEF LibInit
<1>3. CASE BenchFlops
  BY <1>3, PeaksOnly DEF MemoriesOnly
<1>4. ASSUME NEW t \in DOMAIN pool, Region(t) PROVE MemoriesOnly'
  BY <1>4, MemoriesKept DEF Region, TakeNumber, Bind, mainVars
<1>5. CASE EndRegion
  BY <1>5, MemoriesKept DEF EndRegion
<1>6. CASE RootCluster
  BY <1>6, MemoriesKept DEF RootCluster
<1>7. CASE BenchMatrix
  <2>1. pc = "cluster" /\ UNCHANGED machine
    BY <1>7 DEF BenchMatrix
  <2>2. memory \in MemoryObjects(machine)
    BY <2>1 DEF ControlInv, InMatrix, MemoryObjects, OfType, IsMemory
  <2> QED
    BY <1>7, <2>1, <2>2, BenchMatrixType, MemoryLogged
<1>8. CASE BenchItem
  <2>1. Head(items) \in MemoryObjects(machine) /\ UNCHANGED machine
    BY <1>8 DEF BenchItem, TypeInv
  <2> QED
    BY <1>8, <2>1, BenchItemType, MemoryLogged
<1>9. CASE BenchNext
  <2>1. UNCHANGED machine /\ (memory' = NULL => UNCHANGED log)
    BY <1>9 DEF BenchNext
  <2> QED
    BY <1>9, <2>1, BenchNextType, MemoryLogged, MemoriesKept
<1>10. CASE Finish
  BY <1>10, MemoriesKept DEF Finish
<1>11. CASE UNCHANGED vars
  BY <1>11, MemoriesKept DEF vars, mainVars
<1> QED
  BY <1>1, <1>2, <1>3, <1>4, <1>5, <1>6, <1>7, <1>8, <1>9, <1>10, <1>11 DEF Next, Done

\* On a machine whose levels have shares in order, no memory that is benchmarked is
\* without sizes: the halving of a large upper bound stops above the lower one.
THEOREM BoundsOrderedCorrect == Spec => [](SharesOrdered(machine) => BoundsOrdered)
<1>1. ASSUME MemoriesOnly, SharesOrdered(machine) PROVE BoundsOrdered
  <2>1. ASSUME NEW i \in Measures
        PROVE  LET b == Bounds(machine, log[i].mem) IN b.lower <= b.upper
    <3> DEFINE s == Shares(machine, log[i].mem)
    <3>1. log[i].mem \in Objects(machine) /\ IsMemory(machine, log[i].mem)
      BY <1>1 DEF MemoriesOnly, MemoryObjects
    <3>2. s.upper \in Nat /\ s.lower \in 0 .. s.upper
      BY <1>1, <3>1 DEF SharesOrdered
    <3>3. Bounds(machine, log[i].mem) = [lower |-> s.lower, upper |-> Reduced(s.lower, s.upper)]
      BY DEF Bounds
    <3> HIDE DEF s
    <3>4. s.lower <= Reduced(s.lower, s.upper)
      BY <3>2, ReducedIs
    <3> QED
      BY <3>3, <3>4
  <2> QED
    BY <2>1 DEF BoundsOrdered
<1>2. Init => MemoriesOnly
  BY DEF Init, MemoriesOnly, Measures
<1>3. Spec => [](TypeInv /\ ControlInv /\ MemoriesOnly)
  BY <1>2, InitType, StepType, StepMemories, PTL DEF Spec
<1>4. TypeInv /\ ControlInv /\ MemoriesOnly => (SharesOrdered(machine) => BoundsOrdered)
  BY <1>1
<1> QED
  BY <1>3, <1>4, PTL

-----------------------------------------------------------------------------
(***************************************************************************)
(* The intensity of the user.                                              *)
(***************************************************************************)
PointsAsked == \A i \in Measures : log[i].points = OiPoints

LEMMA PointsKept ==
  ASSUME PointsAsked, UNCHANGED <<opt, log>>
  PROVE  PointsAsked'
BY DEF PointsAsked, Measures, OiPoints

LEMMA PointsLogged ==
  ASSUME TypeInv, PointsAsked, NEW r, NEW mem, mem # NULL, Logged(r, mem),
         UNCHANGED opt
  PROVE  PointsAsked'
<1>1. OiPoints' = OiPoints
  BY DEF OiPoints
<1> QED
  BY <1>1, MeasuresGrow DEF PointsAsked

LEMMA StepPoints ==
  TypeInv /\ ControlInv /\ PointsAsked /\ [Next]_vars => PointsAsked'
<1> SUFFICES ASSUME TypeInv, ControlInv, PointsAsked, [Next]_vars PROVE PointsAsked'
  OBVIOUS
<1>1. ASSUME NEW a \in Arguments, ParseOption(a) PROVE PointsAsked'
  <2>1. Measures = {} /\ UNCHANGED log
    BY <1>1, NothingMeasured DEF ParseOption, Early
  <2> QED
    BY <2>1 DEF PointsAsked, Measures
<1>2. CASE LibInit
  BY <1>2, PointsKept DEF LibInit
<1>3. CASE BenchFlops
  BY <1>3, PeaksOnly DEF PointsAsked
<1>4. ASSUME NEW t \in DOMAIN pool, Region(t) PROVE PointsAsked'
  BY <1>4, PointsKept DEF Region, mainVars
<1>5. CASE EndRegion
  BY <1>5, PointsKept DEF EndRegion
<1>6. CASE RootCluster
  BY <1>6, PointsKept DEF RootCluster
<1>7. CASE BenchMatrix
  <2>1. pc = "cluster" /\ UNCHANGED opt
    BY <1>7 DEF BenchMatrix
  <2>2. memory # NULL
    BY <2>1, MachinesAssumption, Tree DEF TypeInv, ControlInv, InMatrix, OfType, NULL
  <2> QED
    BY <1>7, <2>1, <2>2, BenchMatrixType, PointsLogged
<1>8. CASE BenchItem
  <2>1. Head(items) \in MemoryObjects(machine) /\ UNCHANGED opt
    BY <1>8 DEF BenchItem, TypeInv
  <2>2. Head(items) # NULL
    BY <2>1, MachinesAssumption, Tree DEF TypeInv, MemoryObjects, NULL
  <2> QED
    BY <1>8, <2>1, <2>2, BenchItemType, PointsLogged
<1>9. CASE BenchNext
  <2>1. UNCHANGED opt /\ (memory' = NULL => UNCHANGED log)
    BY <1>9 DEF BenchNext
  <2> QED
    BY <1>9, <2>1, BenchNextType, PointsLogged, PointsKept
<1>10. CASE Finish
  BY <1>10, PointsKept DEF Finish
<1>11. CASE UNCHANGED vars
  BY <1>11, PointsKept DEF vars, mainVars
<1> QED
  BY <1>1, <1>2, <1>3, <1>4, <1>5, <1>6, <1>7, <1>8, <1>9, <1>10, <1>11 DEF Next, Done

\* Below one, the bytes are the inverse of the intensity rounded down, and one flop
\* is done on them; above, there are bytes enough for a fine quotient.
LEMMA PointNear ==
  ASSUME opt.oi \in Int, opt.oi > 0, NEW p \in OiPoints
  PROVE  /\ p.flops > 0 /\ p.bytes > 0
         /\ 10 * p.flops < 2 * (p.bytes * opt.oi)
         /\ 2 * (p.bytes * opt.oi) <= 2 * (10 * p.flops) + 10
<1>1. CASE opt.oi < 10
  <2> DEFINE bytes == 10 \div opt.oi
  <2>1. p = [flops |-> Round(bytes * opt.oi, 10), bytes |-> bytes]
    BY <1>1 DEF OiPoints
  <2>2. bytes \in 1 .. 10 /\ bytes * opt.oi \in 6 .. 10
    <3>1. opt.oi \in 1 .. 9
      BY <1>1
    <3>2. /\ 10 \div 1 = 10 /\ 10 \div 2 = 5 /\ 10 \div 3 = 3
          /\ 10 \div 4 = 2 /\ 10 \div 5 = 2 /\ 10 \div 6 = 1
          /\ 10 \div 7 = 1 /\ 10 \div 8 = 1 /\ 10 \div 9 = 1
      OBVIOUS
    <3> QED
      BY <3>1, <3>2
  <2> HIDE DEF bytes
  <2>3. PICK work \in 6 .. 10 : work = bytes * opt.oi
    BY <2>2
  <2>4. Round(work, 10) = 1
    BY DEF Round
  <2>5. p.flops = 1 /\ p.bytes = bytes /\ p.bytes * opt.oi = work
    BY <2>1, <2>3, <2>4
  <2> QED
    BY <2>2, <2>5
<1>2. CASE opt.oi >= 10
  <2> DEFINE flops == Round(64 * opt.oi, 10)
  <2>1. p = [flops |-> flops, bytes |-> 64]
    BY <1>2 DEF OiPoints
  <2>2. /\ flops \in Int
        /\ 20 * flops <= 128 * opt.oi + 10 /\ 128 * opt.oi + 10 < 20 * flops + 20
    BY DEF Round
  <2> HIDE DEF flops
  <2>3. p.flops = flops /\ p.bytes = 64
    BY <2>1
  <2> QED
    BY <1>2, <2>2, <2>3
<1> QED
  BY <1>1, <1>2

\* Whatever intensity the user sets, on whatever machine, the kernels are asked
\* for whole flops and bytes near it.
THEOREM OiNearCorrect == Spec => []OiNear
<1>1. ASSUME TypeInv, PointsAsked PROVE OiNear
  <2> SUFFICES ASSUME opt.oi > 0, NEW i \in Measures, NEW p \in log[i].points
               PROVE  /\ p.flops > 0 /\ p.bytes > 0
                      /\ 10 * p.flops < 2 * (p.bytes * opt.oi)
                      /\ 2 * (p.bytes * opt.oi) <= 2 * (10 * p.flops) + 10
    BY DEF OiNear
  <2>1. opt.oi \in Int /\ p \in OiPoints
    BY <1>1 DEF TypeInv, Options, PointsAsked
  <2> QED
    BY <2>1, PointNear
<1>2. Init => PointsAsked
  BY DEF Init, PointsAsked, Measures
<1>3. Spec => [](TypeInv /\ ControlInv /\ PointsAsked)
  BY <1>2, InitType, StepType, StepPoints, PTL DEF Spec
<1> QED
  BY <1>1, <1>3, PTL

-----------------------------------------------------------------------------
(***************************************************************************)
(* The walk, where roofline_hwloc_get_next_memory() gives the cousin it    *)
(* computed.  It goes up the caches to the first nodes there are, along    *)
(* the nodes, then up the caches above the last one.                       *)
(***************************************************************************)
IsNode(m, o) == m.type[o] = "NUMANODE"

Up(m, o, next) ==
  IsCache(m, o) /\ IsCache(m, next) /\ Nearest(m, m.parent[o], MemoryStops(m), next)

ToNodes(m, o, next) ==
  /\ IsCache(m, o) /\ IsNode(m, next)
  /\ m.parent[next] \in GroupObjects(m) /\ next = MemoryFirstChild(m)[m.parent[next]]
  /\ Nearest(m, m.parent[o], MemoryStops(m), m.parent[next])

Along(m, o, next) == IsNode(m, o) /\ next = NextCousin(m)[o] /\ IsNode(m, next) /\ o < next

FromNodes(m, o, next) ==
  o \in LastNodes(m) /\ IsCache(m, next) /\ Nearest(m, m.parent[o], MemoryObjects(m), next)

\* Nothing is left above.
Over(m, o) ==
  \/ IsCache(m, o) /\ Nearest(m, m.parent[o], MemoryStops(m), NULL)
  \/ o \in LastNodes(m) /\ Nearest(m, m.parent[o], MemoryObjects(m), NULL)

Moves(m, o, next) ==
  \/ o = NULL /\ next = First(OfType(m, "L1")) /\ IsCache(m, next)
  \/ o # NULL /\ next # NULL /\ (Up(m, o, next) \/ ToNodes(m, o, next)
                                 \/ Along(m, o, next) \/ FromNodes(m, o, next))
  \/ o # NULL /\ next = NULL /\ Over(m, o)

LEMMA NotNull ==
  ASSUME NEW m, WellFormed(m), NEW o \in Objects(m)
  PROVE  o # NULL /\ o \in Nat /\ o \in Above(m, o)
BY Tree, AboveObjects DEF NULL

\* A node has nothing below it.
LEMMA NodesAside ==
  ASSUME NEW m, WellFormed(m), NEW o \in Objects(m), NEW p \in Above(m, m.parent[o])
  PROVE  /\ ~IsNode(m, p) /\ p \in Objects(m) /\ p \in Above(m, o) /\ p < o
         /\ m.parent[o] \in Objects(m)
<1>1. m.parent[o] \in Objects(m)
  BY Tree, AboveIs
<1>2. p \in Objects(m) /\ p <= m.parent[o] /\ m.parent[o] < o
  BY <1>1, AboveObjects, Tree
<1>3. p < o
  BY <1>1, <1>2, Tree
<1>4. p \in Above(m, o)
  BY AboveIs
<1> DEFINE G == {k \in Objects(m) :
                   \A q \in Above(m, k) : q # k => \E c \in Objects(m) : m.parent[c] = q}
<1>5. ASSUME NEW k \in Objects(m), m.parent[k] \in {NULL} \union G PROVE k \in G
  <2>1. ASSUME NEW q \in Above(m, k), q # k
        PROVE  \E c \in Objects(m) : m.parent[c] = q
    <3>1. q \in Above(m, m.parent[k]) /\ m.parent[k] # NULL
      BY <2>1, AboveUp
    <3>2. m.parent[k] \in G
      BY <1>5, <3>1
    <3> QED
      BY <3>1, <3>2
  <2> QED
    BY <2>1
<1>6. o \in G
  <2>1. Objects(m) \subseteq G
    <3> HIDE DEF G
    <3> QED
      BY <1>5, TreeInduction
  <2> QED
    BY <2>1
<1>7. p # o
  BY <1>2, <1>3, Tree
<1>8. PICK c \in Objects(m) : m.parent[c] = p
  BY <1>4, <1>6, <1>7
<1>9. ~IsNode(m, p)
  <2>1. c \in ChildrenOf(m, p)
    BY <1>8 DEF ChildrenOf
  <2> QED
    BY <1>2, <2>1 DEF WellFormed, OfType, IsNode
<1> QED
  BY <1>1, <1>2, <1>3, <1>4, <1>9

LEMMA NodesAreNoCaches ==
  ASSUME NEW m, NEW o PROVE ~(IsNode(m, o) /\ IsCache(m, o))
BY DEF IsNode, IsCache, Caches

LEMMA NextMoves ==
  ASSUME NEW m, WellFormed(m), Unreturned = {"cousin"},
         NEW o \in {NULL} \union MemoryObjects(m), NEW next \in NextMemory(m, o)
  PROVE  Moves(m, o, next)
<1> DEFINE one == First(OfType(m, "L1"))
<1>1. one \in Objects(m) /\ m.type[one] = "L1" /\ IsCache(m, one)
  BY FirstOfType DEF OfType, IsCache, Caches
<1>2. CASE o = NULL
  <2>1. next = one
    BY <1>2 DEF NextMemory
  <2> QED
    BY <1>1, <1>2, <2>1 DEF Moves
<1>3. CASE o # NULL /\ IsCache(m, o)
  <2>1. o \in Objects(m) /\ m.type[o] # "NUMANODE"
    BY <1>3, NodesAreNoCaches DEF MemoryObjects, IsNode
  <2>2. ~(Depth(m, o) > Depth(m, one))
    <3>1. Depth(m, o) <= Depth(m, one)
      BY <1>1, <1>3, <2>1 DEF WellFormed, OfType
    <3>2. Depth(m, o) \in Int /\ Depth(m, one) \in Int
      BY <1>1, <2>1, AboveCount DEF Depth, NumaDepth
    <3> HIDE DEF one
    <3> QED
      BY <3>1, <3>2
  <2>3. next = MemoryAbove(m, o)
    BY <1>3, <2>1, <2>2 DEF NextMemory
  <2>4. PICK r : /\ Nearest(m, m.parent[o], MemoryStops(m), r)
                 /\ next = IF r = NULL \/ IsMemory(m, r) THEN r ELSE MemoryFirstChild(m)[r]
    BY <2>1, <2>3, MemoryAboveIs
  <2>5. CASE r = NULL
    BY <1>3, <2>4, <2>5 DEF Moves, Over
  <2>6. CASE r # NULL
    <3>1. r \in Above(m, m.parent[o]) /\ r \in MemoryStops(m)
      BY <2>4, <2>6 DEF Nearest
    <3>2. ~IsNode(m, r) /\ r \in Objects(m)
      BY <2>1, <3>1, NodesAside
    <3>3. CASE IsCache(m, r)
      <4>1. next = r
        BY <2>4, <3>3 DEF IsMemory
      <4> QED
        BY <1>3, <2>4, <2>6, <3>3, <4>1 DEF Moves, Up
    <3>4. CASE ~IsCache(m, r)
      <4>1. MemoryFirstChild(m)[r] # NULL /\ next = MemoryFirstChild(m)[r]
        BY <2>4, <2>6, <3>1, <3>2, <3>4 DEF MemoryStops, IsMemory, IsNode
      <4>2. IsNode(m, next) /\ m.parent[next] = r
        BY <3>2, <4>1, ChildrenAre DEF OfType, IsNode
      <4>3. r \in GroupObjects(m)
        BY <3>2, <4>1 DEF GroupObjects
      <4> QED
        BY <1>3, <2>4, <4>1, <4>2, <4>3 DEF Moves, ToNodes
    <3> QED
      BY <3>3, <3>4
  <2> QED
    BY <2>5, <2>6
<1>4. CASE o # NULL /\ IsNode(m, o)
  <2>1. o \in Objects(m) /\ m.type[o] = "NUMANODE"
    BY <1>4 DEF MemoryObjects, IsNode
  <2>2. CASE NextCousin(m)[o] = NULL
    <3>1. next = CacheAbove(m, o)
      BY <1>4, <2>1, <2>2 DEF NextMemory
    <3>2. Nearest(m, m.parent[o], MemoryObjects(m), next)
      BY <2>1, <3>1, CacheAboveIs
    <3>3. o \in LastNodes(m)
      BY <2>1, <2>2 DEF LastNodes, OfType
    <3>4. next # NULL => IsCache(m, next)
      <4>1. next # NULL => next \in Above(m, m.parent[o]) /\ next \in MemoryObjects(m)
        BY <3>2 DEF Nearest
      <4> QED
        BY <2>1, <4>1, NodesAside DEF MemoryObjects, IsMemory, IsNode
    <3> QED
      BY <1>4, <3>2, <3>3, <3>4 DEF Moves, FromNodes, Over
  <2>3. CASE NextCousin(m)[o] # NULL
    <3>1. next = NextCousin(m)[o]
      BY <1>4, <2>1, <2>3 DEF NextMemory
    <3>2. next \in OfType(m, m.type[o]) /\ o < next
      BY <2>1, <2>3, <3>1, NextCousinIs
    <3>3. IsNode(m, next)
      BY <2>1, <3>2 DEF OfType, IsNode
    <3> QED
      BY <1>4, <2>3, <3>1, <3>2, <3>3 DEF Moves, Along
  <2> QED
    BY <2>2, <2>3
<1> QED
  BY <1>2, <1>3, <1>4 DEF MemoryObjects, IsMemory, IsNode

LEMMA NodesAboveUp ==
  ASSUME NEW m, WellFormed(m), NEW o \in Objects(m), NEW p \in Above(m, o)
  PROVE  /\ Above(m, m.parent[p]) \subseteq Above(m, m.parent[o])
         /\ HasNodesAbove(m, p) => HasNodesAbove(m, o)
<1>1. Above(m, m.parent[p]) \subseteq Above(m, m.parent[o])
  <2>1. CASE p = o
    BY <2>1
  <2>2. CASE p # o
    <3>1. p \in Above(m, m.parent[o]) /\ m.parent[o] \in Objects(m)
      BY <2>2, AboveUp, Tree
    <3>2. p \in Objects(m) /\ Above(m, p) \subseteq Above(m, m.parent[o])
      BY <3>1, AboveUp, AboveObjects
    <3> QED
      BY <3>2, AboveIs
  <2> QED
    BY <2>1, <2>2
<1> QED
  BY <1>1 DEF HasNodesAbove

\* The rest of the program measures nothing of a walk.
LEMMA BesideWalk ==
  ASSUME TypeInv, ControlInv, [Next]_vars
  PROVE  \/ BenchNext
         \/ Mode' # "walk" /\ pc' # "walk"
         \/ /\ UNCHANGED machine /\ Measures' = {} /\ pc' # "done"
            /\ pc' = "walk" => memory' = NULL
         \/ UNCHANGED <<machine, opt, log, memory, pc>>
<1> DEFINE Goal == \/ BenchNext
                   \/ Mode' # "walk" /\ pc' # "walk"
                   \/ /\ UNCHANGED machine /\ Measures' = {} /\ pc' # "done"
                      /\ pc' = "walk" => memory' = NULL
                   \/ UNCHANGED <<machine, opt, log, memory, pc>>
<1> SUFFICES Goal
  OBVIOUS
<1>0. Early /\ UNCHANGED log => Measures' = {}
  BY NothingMeasured DEF Measures
<1>1. ASSUME NEW a \in Arguments, ParseOption(a) PROVE Goal
  <2>1. pc = "args" /\ UNCHANGED <<machine, log>> /\ pc' \in {"args", "exit"}
    BY <1>1 DEF ParseOption
  <2> QED
    BY <1>0, <2>1 DEF Early
<1>2. CASE LibInit
  <2>1. pc = "args" /\ UNCHANGED <<machine, log>> /\ pc' \in {"bind", "exit"}
    BY <1>2 DEF LibInit
  <2> QED
    BY <1>0, <2>1 DEF Early
<1>3. CASE BenchFlops
  <2>1. pc = "flops" /\ UNCHANGED <<machine>> /\ pc' \in {"matrix", "list", "walk"}
    BY <1>3 DEF BenchFlops
  <2>2. memory = NULL
    BY <2>1 DEF ControlInv, Early
  <2>3. pc' = "walk" => memory' = NULL
    BY <1>3, <2>2 DEF BenchFlops
  <2> QED
    BY <1>3, <2>1, <2>3, PeaksOnly
<1>4. ASSUME NEW t \in DOMAIN pool, Region(t) PROVE Goal
  BY <1>4 DEF Region, TakeNumber, Bind, mainVars
<1>5. CASE EndRegion
  <2>1. pc = "bind" /\ pc' = resume /\ UNCHANGED <<machine, opt, log>>
    BY <1>5 DEF EndRegion
  <2>2. CASE resume = "flops"
    BY <1>0, <2>1, <2>2 DEF Early
  <2>3. CASE resume = "cluster"
    BY <2>1, <2>3 DEF ControlInv, InMatrix, Mode
  <2> QED
    BY <2>2, <2>3 DEF TypeInv
<1>6. CASE RootCluster
  <2>1. pc = "matrix" /\ pc' = "bind" /\ UNCHANGED opt
    BY <1>6 DEF RootCluster
  <2> QED
    BY <2>1 DEF ControlInv, InMatrix, Mode
<1>7. CASE BenchMatrix
  <2>1. pc = "cluster" /\ pc' = "matrix" /\ UNCHANGED opt
    BY <1>7 DEF BenchMatrix
  <2> QED
    BY <2>1 DEF ControlInv, InMatrix, Mode
<1>8. CASE BenchItem
  <2>1. pc = "list" /\ pc' = "list" /\ UNCHANGED opt
    BY <1>8 DEF BenchItem
  <2> QED
    BY <2>1 DEF ControlInv, Mode
<1>9. CASE BenchNext
  BY <1>9
<1>10. CASE Finish
  <2>1. pc \in {"matrix", "list"} /\ pc' = "done" /\ UNCHANGED opt
    BY <1>10 DEF Finish
  <2> QED
    BY <2>1 DEF ControlInv, InMatrix, Mode
<1>11. CASE UNCHANGED vars
  BY <1>11 DEF vars, mainVars
<1> HIDE DEF Goal
<1> QED
  BY <1>1, <1>2, <1>3, <1>4, <1>5, <1>6, <1>7, <1>8, <1>9, <1>10, <1>11 DEF Next, Done

\* The memories the walk may be at.
AtMemory ==
  pc = "walk" => /\ memory \in {NULL} \union MemoryObjects(machine)
                 /\ memory = NULL => Measures = {}

\* A step of the walk measures at most the memory it goes to, and last.
LEMMA WalkStep ==
  ASSUME TypeInv, ControlInv, AtMemory, BenchNext, Unreturned = {"cousin"}
  PROVE  /\ WellFormed(machine) /\ UNCHANGED <<machine, opt>> /\ pc = "walk" /\ Mode = "walk"
         /\ memory \in {NULL} \union Objects(machine)
         /\ memory' \in {NULL} \union Objects(machine)
         /\ Moves(machine, memory, memory')
         /\ memory' = NULL => pc' = "done" /\ log' = log /\ Measures' = Measures
         /\ memory' # NULL =>
              /\ pc' = "walk" /\ memory' \in MemoryObjects(machine)
              /\ Measures \subseteq 1 .. Len(log)
              /\ \A i \in Measures : log'[i] = log[i]
              /\ \/ TypesFor(machine, memory') = {} /\ Measures' = Measures
                 \/ /\ Measures' = Measures \union {Len(log) + 1}
                    /\ Len(log) \in Nat /\ log'[Len(log) + 1].mem = memory'
<1>1. /\ pc = "walk" /\ memory' \in NextMemory(machine, memory)
      /\ memory' = NULL => pc' = "done" /\ log' = log
      /\ memory' # NULL => pc' = pc
      /\ UNCHANGED <<machine, opt>>
  BY DEF BenchNext
<1>2. WellFormed(machine) /\ Mode = "walk" /\ Len(log) \in Nat
  BY <1>1, MachinesAssumption DEF TypeInv, ControlInv
<1>3. Moves(machine, memory, memory')
  BY <1>1, <1>2, NextMoves DEF AtMemory
<1>4. memory' # NULL => Logged(root, memory') /\ memory' \in MemoryObjects(machine)
  BY BenchNextType
<1>5. memory' = NULL => Measures' = Measures
  BY <1>1 DEF Measures
<1>6. memory' # NULL =>
        /\ Measures \subseteq 1 .. Len(log)
        /\ \A i \in Measures : log'[i] = log[i]
        /\ \/ TypesFor(machine, memory') = {} /\ Measures' = Measures
           \/ /\ Measures' = Measures \union {Len(log) + 1}
              /\ log'[Len(log) + 1].mem = memory'
  BY <1>4, MeasuresGrow
<1>7. memory' \in {NULL} \union Objects(machine)
  BY <1>4 DEF MemoryObjects
<1> QED
  BY <1>1, <1>2, <1>3, <1>4, <1>5, <1>6, <1>7 DEF TypeInv

LEMMA StepAt ==
  ASSUME TypeInv, ControlInv, AtMemory, [Next]_vars, Unreturned = {"cousin"}
  PROVE  AtMemory'
<1>1. CASE BenchNext
  <2>1. pc' = "walk" => memory' # NULL /\ memory' \in MemoryObjects(machine) /\ UNCHANGED machine
    BY <1>1, WalkStep
  <2> QED
    BY <2>1 DEF AtMemory
<1> QED
  BY <1>1, BesideWalk DEF AtMemory, Measures

-----------------------------------------------------------------------------
(***************************************************************************)
(* Once.  What was measured is below the cache the walk is at, or, when no *)
(* node is above that cache, it is a node or has nodes above itself.       *)
(***************************************************************************)
\* A measure before one of a cache, and before one of a node.
BeforeCache(m, o, mem) ==
  \/ ~IsNode(m, mem) /\ o \in Above(m, mem)
  \/ ~HasNodesAbove(m, o) /\ (IsNode(m, mem) \/ HasNodesAbove(m, mem))

BeforeNode(m, o, mem) ==
  \/ IsNode(m, mem) /\ mem <= o
  \/ ~IsNode(m, mem) /\ HasNodesAbove(m, mem)

Earlier(m, o, mem) ==
  \/ IsCache(m, o) /\ BeforeCache(m, o, mem)
  \/ IsNode(m, o) /\ BeforeNode(m, o, mem)

OnceInv ==
  /\ pc = "walk" /\ memory # NULL =>
       \A i \in Measures : log[i].mem \in Objects(machine) /\ Earlier(machine, memory, log[i].mem)
  /\ Mode = "walk" => Different

\* What was measured before a memory was before the next one too, and is another.
LEMMA MovesOn ==
  ASSUME NEW m, WellFormed(m), CachesOutermost(m),
         NEW o \in Objects(m), NEW next \in Objects(m), NEW mem \in Objects(m),
         Moves(m, o, next), Earlier(m, o, mem)
  PROVE  Earlier(m, next, mem) /\ mem # next
<1>0. o # NULL /\ next # NULL
  BY NotNull
<1>1. CASE Up(m, o, next)
  <2>1. next \in Above(m, m.parent[o])
    BY <1>0, <1>1 DEF Up, Nearest
  <2>2. next \in Above(m, o) /\ next < o
    BY <2>1, NodesAside
  <2>3. BeforeCache(m, o, mem) /\ IsCache(m, next) /\ ~IsNode(m, next)
    BY <1>1, NodesAreNoCaches DEF Up, Earlier
  <2>4. CASE ~IsNode(m, mem) /\ o \in Above(m, mem)
    <3>1. next \in Above(m, mem)
      BY <2>2, <2>4, AboveUp
    <3>2. o <= mem /\ o \in Nat /\ mem \in Nat /\ next \in Nat
      BY <2>4, AboveObjects, NotNull
    <3>3. mem # next
      BY <2>2, <3>2
    <3> QED
      BY <2>3, <2>4, <3>1, <3>3 DEF Earlier, BeforeCache
  <2>5. CASE ~HasNodesAbove(m, o) /\ (IsNode(m, mem) \/ HasNodesAbove(m, mem))
    <3>1. ~HasNodesAbove(m, next)
      BY <2>2, <2>5, NodesAboveUp
    <3> QED
      BY <2>3, <2>5, <3>1 DEF Earlier, BeforeCache
  <2> QED
    BY <2>3, <2>4, <2>5 DEF BeforeCache
<1>2. CASE ToNodes(m, o, next)
  <2> DEFINE r == m.parent[next]
  <2>1. IsCache(m, o) /\ IsNode(m, next) /\ r \in Above(m, m.parent[o]) /\ MemoryFirstChild(m)[r] # NULL
    BY <1>2, Tree DEF ToNodes, Nearest, GroupObjects, NULL
  <2>2. HasNodesAbove(m, o)
    BY <2>1 DEF HasNodesAbove
  <2>3. ~IsNode(m, mem) /\ o \in Above(m, mem)
    BY <2>1, <2>2, NodesAreNoCaches DEF Earlier, BeforeCache
  <2>4. HasNodesAbove(m, mem)
    BY <2>2, <2>3, NodesAboveUp
  <2> QED
    BY <2>1, <2>3, <2>4 DEF Earlier, BeforeNode
<1>3. CASE Along(m, o, next)
  <2>1. IsNode(m, o) /\ IsNode(m, next) /\ o < next /\ BeforeNode(m, o, mem)
    BY <1>3, NodesAreNoCaches DEF Along, Earlier
  <2>2. o \in Nat /\ next \in Nat /\ mem \in Nat
    BY NotNull
  <2>3. CASE IsNode(m, mem) /\ mem <= o
    <3>1. mem <= next /\ mem # next
      BY <2>1, <2>2, <2>3
    <3> QED
      BY <2>1, <2>3, <3>1 DEF Earlier, BeforeNode
  <2>4. CASE ~IsNode(m, mem) /\ HasNodesAbove(m, mem)
    BY <2>1, <2>4 DEF Earlier, BeforeNode
  <2> QED
    BY <2>1, <2>3, <2>4 DEF BeforeNode
<1>4. CASE FromNodes(m, o, next)
  <2>1. o \in LastNodes(m) /\ IsCache(m, next) /\ next \in Above(m, m.parent[o])
    BY <1>0, <1>4 DEF FromNodes, Nearest
  <2>2. next \in Above(m, o)
    BY <2>1, NodesAside
  <2>3. ~HasNodesAbove(m, next)
    BY <2>1, <2>2 DEF CachesOutermost
  <2>4. IsNode(m, mem) \/ HasNodesAbove(m, mem)
    BY <2>1, NodesAreNoCaches DEF Earlier, BeforeNode, LastNodes, OfType, IsNode
  <2> QED
    BY <2>1, <2>3, <2>4, NodesAreNoCaches DEF Earlier, BeforeCache
<1> QED
  BY <1>0, <1>1, <1>2, <1>3, <1>4 DEF Moves

\* And a memory is before the next one once it is measured.
LEMMA SelfEarlier ==
  ASSUME NEW m, WellFormed(m), NEW o \in MemoryObjects(m)
  PROVE  Earlier(m, o, o)
<1>1. o \in Objects(m) /\ (IsCache(m, o) \/ IsNode(m, o))
  BY DEF MemoryObjects, IsMemory, IsNode
<1>2. o \in Above(m, o) /\ o <= o
  BY <1>1, NotNull
<1> QED
  BY <1>1, <1>2, NodesAreNoCaches DEF Earlier, BeforeCache, BeforeNode

LEMMA StepOnce ==
  ASSUME TypeInv, ControlInv, AtMemory, OnceInv, [Next]_vars,
         Unreturned = {"cousin"}, CachesOutermost(machine)
  PROVE  OnceInv'
<1>1. CASE BenchNext
  <2> DEFINE k == Len(log) + 1
  <2>1. /\ WellFormed(machine) /\ UNCHANGED <<machine, opt>> /\ pc = "walk" /\ Mode = "walk"
        /\ memory \in {NULL} \union Objects(machine)
        /\ memory' \in {NULL} \union Objects(machine)
        /\ Moves(machine, memory, memory')
        /\ memory' = NULL => pc' = "done" /\ log' = log /\ Measures' = Measures
        /\ memory' # NULL =>
             /\ memory' \in MemoryObjects(machine)
             /\ \A i \in Measures : log'[i] = log[i]
             /\ \/ Measures' = Measures
                \/ Measures' = Measures \union {k} /\ log'[k].mem = memory'
    BY <1>1, WalkStep
  <2> HIDE DEF k
  <2>2. CASE memory' = NULL
    <3>1. pc' = "done" /\ log' = log /\ Measures' = Measures
      BY <2>1, <2>2
    <3> QED
      BY <2>1, <2>2, <3>1 DEF OnceInv, Different
  <2>3. CASE memory' # NULL
    <3>1. ASSUME NEW i \in Measures
          PROVE  /\ log[i].mem \in Objects(machine)
                 /\ Earlier(machine, memory', log[i].mem) /\ log[i].mem # memory'
      <4>1. memory # NULL
        BY <2>1, <3>1 DEF AtMemory
      <4> QED
        BY <2>1, <2>3, <3>1, <4>1, MovesOn DEF OnceInv
    <3>2. Earlier(machine, memory', memory') /\ memory' \in Objects(machine)
      BY <2>1, <2>3, SelfEarlier
    <3>3. ASSUME NEW i \in Measures'
          PROVE  log'[i].mem \in Objects(machine) /\ Earlier(machine, memory', log'[i].mem)
      BY <2>1, <2>3, <3>1, <3>2
    <3>4. ASSUME NEW i \in Measures', NEW j \in Measures', i # j
          PROVE  log'[i].root # log'[j].root \/ log'[i].mem # log'[j].mem
      BY <2>1, <2>3, <3>1, <3>4 DEF OnceInv, Different
    <3> QED
      BY <2>1, <3>3, <3>4 DEF OnceInv, Different
  <2> QED
    BY <2>2, <2>3
<1>2. CASE Mode' # "walk" /\ pc' # "walk"
  BY <1>2 DEF OnceInv
<1>3. CASE Measures' = {}
  BY <1>3 DEF OnceInv, Different
<1>4. CASE UNCHANGED <<machine, opt, log, memory, pc>>
  BY <1>4 DEF OnceInv, Different, Measures, Mode
<1> QED
  BY <1>1, <1>2, <1>3, <1>4, BesideWalk

LEMMA MachineStays == [Next]_vars => UNCHANGED machine
<1> SUFFICES ASSUME [Next]_vars PROVE UNCHANGED machine
  OBVIOUS
<1>1. CASE UNCHANGED vars
  BY <1>1 DEF vars
<1> QED
  BY <1>1 DEF Next, Done, vars, ParseOption, LibInit, BenchFlops, Region, TakeNumber, Bind,
     EndRegion, RootCluster, BenchMatrix, BenchItem, BenchNext, Finish

\* No memory is measured twice from the same threads: neither by the walk, where no
\* cache above the last node has another node above it and the next cousin is what
\* the caller of roofline_hwloc_get_next_memory() gets, nor by the matrix.
THEOREM OnceCorrect ==
  ASSUME Unreturned = {"cousin"}
  PROVE  Spec => []((Mode = "walk" => CachesOutermost(machine)) => Once)
<1> DEFINE Inv == TypeInv /\ ControlInv /\ MatrixInv /\ AtMemory
           Outer == CachesOutermost(machine)
           Asked == Mode = "walk" => CachesOutermost(machine)
<1>1. Init => Inv /\ OnceInv
  <2>1. Init => pc = "args" /\ Measures = {}
    BY DEF Init, Measures
  <2> QED
    BY <2>1, InitType, InitOrder DEF AtMemory, OnceInv, Different
<1>2. Inv /\ [Next]_vars => Inv'
  BY StepType, StepOrder, StepAt
<1>3. Inv /\ (Outer => OnceInv) /\ [Next]_vars => (Outer => OnceInv)'
  BY StepOnce, MachineStays
<1>4. Inv /\ (Outer => OnceInv) => (Asked => Once)
  <2> SUFFICES ASSUME Inv, Outer => OnceInv, Asked PROVE Once
    OBVIOUS
  <2>1. CASE Mode = "walk"
    BY <2>1 DEF OnceInv, Different, Once
  <2>2. CASE Mode = "matrix"
    <3>1. Early \/ InOrder
      BY <2>2 DEF ControlInv, TypeInv, PCs, Early, InOrder, InMatrix
    <3>2. Different
      BY <3>1, NothingMeasured DEF MatrixInv, Different
    <3> QED
      BY <3>2 DEF Different, Once
  <2> QED
    BY <2>1, <2>2 DEF Mode, Once
<1> HIDE DEF Inv, Outer, Asked
<1>5. Spec => [](Inv /\ (Outer => OnceInv))
  BY <1>1, <1>2, <1>3, PTL DEF Spec
<1>6. Spec => [](Asked => Once)
  BY <1>4, <1>5, PTL
<1> QED
  BY <1>6 DEF Asked

-----------------------------------------------------------------------------
(***************************************************************************)
(* The walk climbs.  Two objects of which one is a part of the other are   *)
(* on one way up, since no object is without PUs.                          *)
(***************************************************************************)
Part(m, o, p) == Cpuset(m, o) \subseteq Cpuset(m, p) /\ Cpuset(m, o) # Cpuset(m, p)

LEMMA CpusetUp ==
  ASSUME NEW m, WellFormed(m), NEW o \in Objects(m), NEW p \in Above(m, o),
         ~IsNode(m, o), ~IsNode(m, p)
  PROVE  Cpuset(m, o) \subseteq Cpuset(m, p)
<1>1. ASSUME NEW c \in OfType(m, "PU"), o \in Above(m, c) PROVE p \in Above(m, c)
  <2>1. c \in Objects(m)
    BY DEF OfType
  <2> QED
    BY <1>1, <2>1, AboveUp
<1> QED
  BY <1>1 DEF Cpuset, IsNode

LEMMA PartAbove ==
  ASSUME NEW m, WellFormed(m), NEW o \in Objects(m), NEW p \in Objects(m),
         ~IsNode(m, o), ~IsNode(m, p), Part(m, o, p)
  PROVE  p \in Above(m, m.parent[o])
<1>1. PICK c : c \in Cpuset(m, o)
  BY DEF WellFormed
<1>2. c \in Objects(m) /\ o \in Above(m, c)
  BY <1>1 DEF Cpuset, IsNode, OfType
<1>3. p \in Above(m, c)
  BY <1>1 DEF Cpuset, IsNode, Part
<1>4. o \in Nat /\ p \in Nat
  BY NotNull
<1>5. CASE p <= o
  <2>1. p \in Above(m, o)
    BY <1>2, <1>3, <1>5, AboveOne
  <2>2. p # o
    BY DEF Part
  <2> QED
    BY <2>1, <2>2, AboveUp
<1>6. CASE o <= p
  <2>1. o \in Above(m, p)
    BY <1>2, <1>3, <1>6, AboveOne
  <2>2. Cpuset(m, p) \subseteq Cpuset(m, o)
    BY <2>1, CpusetUp
  <2> QED
    BY <2>2 DEF Part
<1> QED
  BY <1>4, <1>5, <1>6

\* A node is a part of what its parent is a part of.
LEMMA NodeParent ==
  ASSUME NEW m, WellFormed(m), NEW n \in Objects(m), IsNode(m, n)
  PROVE  /\ m.parent[n] \in GroupObjects(m) /\ m.parent[n] \in Objects(m)
         /\ ~IsNode(m, m.parent[n]) /\ Cpuset(m, n) = Cpuset(m, m.parent[n])
<1> DEFINE q == m.parent[n]
<1>1. PICK c : c \in Cpuset(m, n)
  BY DEF WellFormed
<1>2. c \in Objects(m) /\ q \in Above(m, c)
  BY <1>1 DEF Cpuset, IsNode, OfType
<1>3. q \in Objects(m)
  BY <1>2, AboveObjects
<1>4. q \in Above(m, q)
  BY <1>3, NotNull
<1>5. ~IsNode(m, q)
  BY <1>4, NodesAside
<1>6. Cpuset(m, n) = Cpuset(m, q)
  BY <1>5 DEF Cpuset, IsNode
<1>7. MemoryFirstChild(m)[q] # NULL
  <2> DEFINE nodes == ChildrenOf(m, q) \intersect OfType(m, "NUMANODE")
  <2>1. n \in nodes
    BY DEF ChildrenOf, OfType, IsNode
  <2>2. nodes \in SUBSET Nat /\ nodes \subseteq Objects(m)
    BY Tree DEF ChildrenOf
  <2>3. MemoryFirstChild(m)[q] = First(nodes)
    BY <1>3 DEF MemoryFirstChild
  <2> HIDE DEF nodes
  <2>4. First(nodes) \in Objects(m)
    BY <2>1, <2>2, FirstIs
  <2> QED
    BY <2>3, <2>4, NotNull
<1> QED
  BY <1>3, <1>5, <1>6, <1>7 DEF GroupObjects

\* What has no node above it is no part of what has, or is one.
LEMMA NotAPart ==
  ASSUME NEW m, WellFormed(m), NEW o \in Objects(m), NEW mem \in Objects(m),
         ~IsNode(m, o), ~HasNodesAbove(m, o), IsNode(m, mem) \/ HasNodesAbove(m, mem)
  PROVE  ~Part(m, o, mem)
<1> SUFFICES ASSUME Part(m, o, mem) PROVE FALSE
  OBVIOUS
<1>1. CASE IsNode(m, mem)
  <2> DEFINE q == m.parent[mem]
  <2>1. q \in GroupObjects(m) /\ q \in Objects(m) /\ ~IsNode(m, q) /\ Part(m, o, q)
    BY <1>1, NodeParent DEF Part
  <2>2. q \in Above(m, m.parent[o])
    BY <2>1, PartAbove
  <2> QED
    BY <2>1, <2>2 DEF HasNodesAbove, GroupObjects
<1>2. CASE ~IsNode(m, mem) /\ HasNodesAbove(m, mem)
  <2>1. mem \in Above(m, m.parent[o])
    BY <1>2, PartAbove
  <2>2. mem \in Above(m, o)
    BY <2>1, NodesAside
  <2> QED
    BY <1>2, <2>2, NodesAboveUp
<1> QED
  BY <1>1, <1>2

\* A memory that is no node is a part of a node up to the one the walk is at.
Covered(m, o, mem) ==
  IsNode(m, o) /\ ~IsNode(m, mem) =>
    \E n \in OfType(m, "NUMANODE") : n <= o /\ Cpuset(m, mem) \subseteq Cpuset(m, n)

LEMMA MovesClimb ==
  ASSUME NEW m, WellFormed(m), CachesOutermost(m), NodesGrow(m),
         NEW o \in Objects(m), NEW next \in Objects(m), NEW mem \in Objects(m),
         Moves(m, o, next), Earlier(m, o, mem), Covered(m, o, mem)
  PROVE  Covered(m, next, mem) /\ ~Part(m, next, mem)
<1>0. o # NULL /\ next # NULL
  BY NotNull
<1>1. CASE Up(m, o, next)
  <2>1. next \in Above(m, m.parent[o])
    BY <1>0, <1>1 DEF Up, Nearest
  <2>2. next \in Above(m, o)
    BY <2>1, NodesAside
  <2>3. BeforeCache(m, o, mem) /\ IsCache(m, next) /\ ~IsNode(m, next)
    BY <1>1, NodesAreNoCaches DEF Up, Earlier
  <2>4. CASE ~IsNode(m, mem) /\ o \in Above(m, mem)
    <3>1. next \in Above(m, mem)
      BY <2>2, <2>4, AboveUp
    <3>2. Cpuset(m, mem) \subseteq Cpuset(m, next)
      BY <2>3, <2>4, <3>1, CpusetUp
    <3> QED
      BY <2>3, <3>2 DEF Covered, Part
  <2>5. CASE ~HasNodesAbove(m, o) /\ (IsNode(m, mem) \/ HasNodesAbove(m, mem))
    <3>1. ~HasNodesAbove(m, next)
      BY <2>2, <2>5, NodesAboveUp
    <3> QED
      BY <2>3, <2>5, <3>1, NotAPart DEF Covered
  <2> QED
    BY <2>3, <2>4, <2>5 DEF BeforeCache
<1>2. CASE ToNodes(m, o, next)
  <2> DEFINE r == m.parent[next]
  <2>1. /\ IsCache(m, o) /\ IsNode(m, next) /\ r \in Above(m, m.parent[o])
        /\ MemoryFirstChild(m)[r] # NULL
    BY <1>2, Tree DEF ToNodes, Nearest, GroupObjects, NULL
  <2>2. HasNodesAbove(m, o)
    BY <2>1 DEF HasNodesAbove
  <2>3. ~IsNode(m, mem) /\ o \in Above(m, mem)
    BY <2>1, <2>2, NodesAreNoCaches DEF Earlier, BeforeCache
  <2>4. r \in Above(m, o) /\ ~IsNode(m, r) /\ ~IsNode(m, o)
    BY <2>1, NodesAside, NodesAreNoCaches
  <2>5. r \in Above(m, mem)
    BY <2>3, <2>4, AboveUp
  <2>6. Cpuset(m, mem) \subseteq Cpuset(m, r)
    BY <2>3, <2>4, <2>5, CpusetUp
  <2>7. Cpuset(m, next) = Cpuset(m, r)
    BY <2>1, NodeParent
  <2>8. next \in OfType(m, "NUMANODE") /\ next <= next
    BY <2>1, NotNull DEF OfType, IsNode
  <2> QED
    BY <2>6, <2>7, <2>8 DEF Covered, Part
<1>3. CASE Along(m, o, next)
  <2>1. IsNode(m, o) /\ IsNode(m, next) /\ o < next /\ BeforeNode(m, o, mem)
    BY <1>3, NodesAreNoCaches DEF Along, Earlier
  <2>2. o \in Nat /\ next \in Nat
    BY NotNull
  <2>3. PICK n \in OfType(m, "NUMANODE") : n <= o /\ Cpuset(m, mem) \subseteq Cpuset(m, n)
    <3>1. CASE IsNode(m, mem)
      <4>1. mem \in OfType(m, "NUMANODE") /\ mem <= o
        BY <2>1, <3>1 DEF OfType, IsNode, BeforeNode
      <4> QED
        BY <4>1
    <3> QED
      BY <2>1, <3>1 DEF Covered
  <2>4. n < next /\ n <= next
    <3>1. n \in Nat
      BY NotNull DEF OfType
    <3> QED
      BY <2>1, <2>2, <2>3, <3>1
  <2>5. next \in OfType(m, "NUMANODE")
    BY <2>1 DEF OfType, IsNode
  <2>6. ~Part(m, next, n)
    BY <2>4, <2>5 DEF NodesGrow, Part
  <2>7. ~Part(m, next, mem)
    BY <2>3, <2>6 DEF Part
  <2> QED
    BY <2>3, <2>4, <2>7 DEF Covered
<1>4. CASE FromNodes(m, o, next)
  <2>1. o \in LastNodes(m) /\ IsCache(m, next) /\ next \in Above(m, m.parent[o])
    BY <1>0, <1>4 DEF FromNodes, Nearest
  <2>2. next \in Above(m, o)
    BY <2>1, NodesAside
  <2>3. ~HasNodesAbove(m, next)
    BY <2>1, <2>2 DEF CachesOutermost
  <2>4. IsNode(m, mem) \/ HasNodesAbove(m, mem)
    BY <2>1, NodesAreNoCaches DEF Earlier, BeforeNode, LastNodes, OfType, IsNode
  <2> QED
    BY <2>1, <2>3, <2>4, NodesAreNoCaches, NotAPart DEF Covered
<1> QED
  BY <1>0, <1>1, <1>2, <1>3, <1>4 DEF Moves

ClimbInv ==
  /\ pc = "walk" /\ memory # NULL =>
       \A i \in Measures : Covered(machine, memory, log[i].mem)
  /\ Mode = "walk" =>
       \A i, j \in Measures : i < j => ~Part(machine, log[j].mem, log[i].mem)

LEMMA StepClimb ==
  ASSUME TypeInv, ControlInv, AtMemory, OnceInv, ClimbInv, [Next]_vars,
         Unreturned = {"cousin"}, CachesOutermost(machine), NodesGrow(machine)
  PROVE  ClimbInv'
<1>1. CASE BenchNext
  <2> DEFINE k == Len(log) + 1
  <2>1. /\ WellFormed(machine) /\ UNCHANGED <<machine, opt>> /\ pc = "walk" /\ Mode = "walk"
        /\ memory \in {NULL} \union Objects(machine)
        /\ memory' \in {NULL} \union Objects(machine)
        /\ Moves(machine, memory, memory')
        /\ memory' = NULL => pc' = "done" /\ log' = log /\ Measures' = Measures
        /\ memory' # NULL =>
             /\ memory' \in MemoryObjects(machine)
             /\ Measures \subseteq 1 .. Len(log)
             /\ \A i \in Measures : log'[i] = log[i]
             /\ \/ Measures' = Measures
                \/ Measures' = Measures \union {k} /\ Len(log) \in Nat /\ log'[k].mem = memory'
    BY <1>1, WalkStep
  <2>2. CASE memory' = NULL
    <3>1. pc' = "done" /\ log' = log /\ Measures' = Measures
      BY <2>1, <2>2
    <3> QED
      BY <2>1, <2>2, <3>1 DEF ClimbInv
  <2>3. CASE memory' # NULL
    <3>1. ASSUME NEW i \in Measures
          PROVE  /\ Covered(machine, memory', log[i].mem)
                 /\ ~Part(machine, memory', log[i].mem)
      <4>1. memory # NULL
        BY <2>1, <3>1 DEF AtMemory
      <4>2. log[i].mem \in Objects(machine) /\ Earlier(machine, memory, log[i].mem)
        BY <2>1, <3>1, <4>1 DEF OnceInv
      <4>3. Covered(machine, memory, log[i].mem)
        BY <2>1, <3>1, <4>1 DEF ClimbInv
      <4> QED
        BY <2>1, <2>3, <4>1, <4>2, <4>3, MovesClimb
    <3>2. Covered(machine, memory', memory') /\ ~Part(machine, memory', memory')
      BY DEF Covered, Part
    <3>3. ASSUME NEW i \in Measures'
          PROVE  Covered(machine, memory', log'[i].mem)
      BY <2>1, <2>3, <3>1, <3>2
    <3>4. ASSUME NEW i \in Measures', NEW j \in Measures', i < j
          PROVE  ~Part(machine, log'[j].mem, log'[i].mem)
      <4>1. CASE i \in Measures /\ j \in Measures
        BY <2>1, <2>3, <3>4, <4>1 DEF ClimbInv
      <4>2. CASE i \in Measures /\ j \notin Measures
        <5>1. log'[j].mem = memory' /\ log'[i] = log[i]
          BY <2>1, <2>3, <4>2
        <5> QED
          BY <3>1, <4>2, <5>1
      <4>3. CASE i \notin Measures
        <5>1. i = k /\ Measures' = Measures \union {k} /\ Len(log) \in Nat
              /\ Measures \subseteq 1 .. Len(log)
          BY <2>1, <2>3, <4>3
        <5>2. FALSE
          BY <3>4, <5>1
        <5> QED
          BY <5>2
      <4> QED
        BY <4>1, <4>2, <4>3
    <3> HIDE DEF k
    <3> QED
      BY <2>1, <3>3, <3>4 DEF ClimbInv
  <2> QED
    BY <2>2, <2>3
<1>2. CASE Mode' # "walk" /\ pc' # "walk"
  BY <1>2 DEF ClimbInv
<1>3. CASE Measures' = {}
  BY <1>3 DEF ClimbInv
<1>4. CASE UNCHANGED <<machine, opt, log, memory, pc>>
  BY <1>4 DEF ClimbInv, Measures, Mode
<1> QED
  BY <1>1, <1>2, <1>3, <1>4, BesideWalk

\* The walk climbs: nothing is measured after a memory of which it is a part, where
\* nodes come in an order in which none is a part of an earlier one.
THEOREM ClimbsCorrect ==
  ASSUME Unreturned = {"cousin"}
  PROVE  Spec => [](CachesOutermost(machine) /\ NodesGrow(machine) => Climbs)
<1> DEFINE Inv == TypeInv /\ ControlInv /\ AtMemory
           Shape == CachesOutermost(machine) /\ NodesGrow(machine)
           Walks == OnceInv /\ ClimbInv
<1>1. Init => Inv /\ Walks
  <2>1. Init => pc = "args" /\ Measures = {}
    BY DEF Init, Measures
  <2> QED
    BY <2>1, InitType DEF AtMemory, OnceInv, Different, ClimbInv
<1>2. Inv /\ [Next]_vars => Inv'
  BY StepType, StepAt
<1>3. Inv /\ (Shape => Walks) /\ [Next]_vars => (Shape => Walks)'
  BY StepOnce, StepClimb, MachineStays
<1>4. (Shape => Walks) => (Shape => Climbs)
  <2>1. Walks => Climbs
    BY DEF ClimbInv, Climbs, Part
  <2> HIDE DEF Walks, Shape
  <2> QED
    BY <2>1
<1> HIDE DEF Inv, Shape, Walks
<1>5. Spec => [](Inv /\ (Shape => Walks))
  BY <1>1, <1>2, <1>3, PTL DEF Spec
<1>6. Spec => [](Shape => Climbs)
  BY <1>4, <1>5, PTL
<1> QED
  BY <1>6 DEF Shape

-----------------------------------------------------------------------------
(***************************************************************************)
(* Every memory.  At each memory of the walk there is a set of those that  *)
(* it is past, and at its end these are the nodes and the caches above the *)
(* first L1.                                                               *)
(***************************************************************************)
Way(m) == {c \in Above(m, First(OfType(m, "L1"))) : IsCache(m, c)}

Nodes(m) == OfType(m, "NUMANODE")

Visited(m, o) ==
  IF IsNode(m, o)
  THEN {n \in Nodes(m) : n <= o} \union (Way(m) \ Above(m, FirstMemoryGroup(m)))
  ELSE {c \in Way(m) : o \in Above(m, c)}
       \union (IF o \in Above(m, FirstMemoryGroup(m)) THEN Nodes(m) ELSE {})

OnWay(m, o) == o \in Nodes(m) \/ o \in Way(m)

LEMMA Mutual ==
  ASSUME NEW m, WellFormed(m), NEW o \in Objects(m), NEW p \in Above(m, o), o \in Above(m, p)
  PROVE  o = p
<1>1. p \in Objects(m) /\ p <= o /\ o <= p
  BY AboveObjects
<1> QED
  BY <1>1, NotNull

\* Of two objects on one way up, one is above the other.
LEMMA OneWay ==
  ASSUME NEW m, WellFormed(m), NEW o \in Objects(m), NEW p \in Above(m, o), NEW q \in Above(m, o)
  PROVE  p \in Above(m, q) \/ q \in Above(m, m.parent[p])
<1>1. p \in Objects(m) /\ q \in Objects(m) /\ p \in Nat /\ q \in Nat
  BY AboveObjects, NotNull
<1>2. CASE p <= q
  BY <1>2, AboveOne
<1>3. CASE q <= p /\ q # p
  <2>1. q \in Above(m, p)
    BY <1>3, AboveOne
  <2> QED
    BY <1>1, <1>3, <2>1, AboveUp
<1> QED
  BY <1>1, <1>2, <1>3

\* The nodes of the first group are found from the caches below it.
LEMMA WayShape ==
  ASSUME NEW m, WellFormed(m), AllOnTheWay(m)
  PROVE  LET one   == First(OfType(m, "L1"))
             group == FirstMemoryGroup(m)
         IN  /\ one \in Objects(m) /\ IsCache(m, one)
             /\ group \in Objects(m) /\ group \in GroupObjects(m) /\ ~IsCache(m, group)
             /\ group \in Above(m, one) /\ Above(m, group) \subseteq Above(m, one)
             /\ \A q \in Above(m, one) \intersect GroupObjects(m) : q \in Above(m, group)
             /\ Way(m) \subseteq Objects(m)
<1> DEFINE one   == First(OfType(m, "L1"))
           group == FirstMemoryGroup(m)
<1>1. one \in Objects(m) /\ IsCache(m, one)
  BY FirstOfType DEF OfType, IsCache, Caches
<1>2. one \in Above(m, Core(m)) /\ group \in Above(m, one)
      /\ MemoryFirstChild(m)[group] = First(OfType(m, "NUMANODE"))
  BY DEF AllOnTheWay
<1>3. group \in Objects(m) /\ Above(m, group) \subseteq Above(m, one)
  BY <1>1, <1>2, AboveObjects, AboveUp
<1>4. First(OfType(m, "NUMANODE")) # NULL
  <2>1. First(OfType(m, "NUMANODE")) \in Objects(m)
    BY FirstOfType DEF OfType
  <2> QED
    BY <2>1, NotNull
<1>5. group \in GroupObjects(m)
  BY <1>2, <1>3, <1>4 DEF GroupObjects
<1>6. ~IsCache(m, group)
  BY <1>2, <1>3, <1>4 DEF AllOnTheWay
<1>7. Core(m) \in Objects(m) /\ Core(m) = First(OfType(m, "CORE"))
  BY FirstOfType DEF Core, OfType
<1>8. Above(m, one) \subseteq Above(m, Core(m))
  BY <1>2, <1>7, AboveUp
<1>9. Nearest(m, Core(m), GroupObjects(m), group)
  BY <1>7, FirstMemoryGroupIs
<1>10. group # NULL
  BY <1>3, NotNull
<1>11. \A q \in Above(m, one) \intersect GroupObjects(m) : q \in Above(m, group)
  BY <1>8, <1>9, <1>10 DEF Nearest
<1>12. Way(m) \subseteq Objects(m)
  BY <1>1, AboveObjects DEF Way
<1> QED
  BY <1>1, <1>2, <1>3, <1>5, <1>6, <1>11, <1>12

\* A cache on the way is above the group or below it.
LEMMA GroupAbove ==
  ASSUME NEW m, WellFormed(m), AllOnTheWay(m), NEW o \in Way(m),
         o \notin Above(m, FirstMemoryGroup(m))
  PROVE  FirstMemoryGroup(m) \in Above(m, m.parent[o]) \intersect MemoryStops(m)
<1> DEFINE one   == First(OfType(m, "L1"))
           group == FirstMemoryGroup(m)
<1>1. one \in Objects(m) /\ group \in Above(m, one) /\ o \in Above(m, one)
  BY WayShape DEF Way
<1>2. group \in Above(m, m.parent[o])
  BY <1>1, OneWay
<1>3. group \in MemoryStops(m)
  BY WayShape DEF MemoryStops, GroupObjects
<1> QED
  BY <1>2, <1>3

LEMMA CachesStop ==
  ASSUME NEW m, NEW c \in Objects(m), IsCache(m, c)
  PROVE  c \in MemoryStops(m) /\ c \in MemoryObjects(m)
BY DEF MemoryStops, MemoryObjects, IsMemory

LEMMA VisitedFirst ==
  ASSUME NEW m, WellFormed(m), AllOnTheWay(m)
  PROVE  /\ OnWay(m, First(OfType(m, "L1")))
         /\ Visited(m, First(OfType(m, "L1"))) \subseteq {First(OfType(m, "L1"))}
<1> DEFINE one   == First(OfType(m, "L1"))
           group == FirstMemoryGroup(m)
<1>1. one \in Objects(m) /\ IsCache(m, one) /\ ~IsNode(m, one) /\ one \in Above(m, one)
  BY WayShape, NotNull, NodesAreNoCaches
<1>2. \A c \in Way(m) : one \in Above(m, c) => c = one
  BY <1>1, Mutual DEF Way
<1>3. one \notin Above(m, group)
  BY <1>1, WayShape, Mutual
<1> QED
  BY <1>1, <1>2, <1>3 DEF OnWay, Way, Visited

LEMMA VisitedUp ==
  ASSUME NEW m, WellFormed(m), AllOnTheWay(m), NEW o \in Objects(m), OnWay(m, o),
         NEW next \in Objects(m), Up(m, o, next)
  PROVE  OnWay(m, next) /\ Visited(m, next) \subseteq Visited(m, o) \union {next}
<1> DEFINE one   == First(OfType(m, "L1"))
           group == FirstMemoryGroup(m)
<1>1. /\ IsCache(m, o) /\ IsCache(m, next) /\ ~IsNode(m, o) /\ ~IsNode(m, next)
      /\ next \in Above(m, m.parent[o])
      /\ \A q \in Above(m, m.parent[o]) \intersect MemoryStops(m) : q \in Above(m, next)
  BY NotNull, NodesAreNoCaches DEF Up, Nearest
<1>2. o \in Way(m) /\ o \in Above(m, one) /\ one \in Objects(m) /\ Way(m) \subseteq Objects(m)
  BY <1>1, WayShape DEF OnWay, Nodes, OfType, IsNode, Way
<1>3. next \in Above(m, one) /\ next \in Way(m)
  BY <1>1, <1>2, NodesAside, AboveUp DEF Way
<1>4. ASSUME NEW c \in Way(m), next \in Above(m, c), o \notin Above(m, c)
      PROVE  c = next
  <2>1. c \in Above(m, m.parent[o]) /\ c \in Objects(m) /\ IsCache(m, c)
    BY <1>2, <1>4, OneWay DEF Way
  <2>2. c \in Above(m, next)
    BY <1>1, <2>1, CachesStop
  <2> QED
    BY <1>4, <2>2, Mutual
<1>5. next \in Above(m, group) => o \in Above(m, group)
  <2> SUFFICES ASSUME next \in Above(m, group), o \notin Above(m, group) PROVE FALSE
    OBVIOUS
  <2>1. group \in Above(m, next)
    BY <1>1, <1>2, GroupAbove
  <2>2. group = next
    BY <2>1, Mutual
  <2> QED
    BY <1>1, <2>2, WayShape
<1>6. OnWay(m, next)
  BY <1>3 DEF OnWay
<1> HIDE DEF group, one
<1>7. Visited(m, next) \subseteq Visited(m, o) \union {next}
  BY <1>1, <1>4, <1>5 DEF Visited, group
<1> QED
  BY <1>6, <1>7

LEMMA VisitedNodes ==
  ASSUME NEW m, WellFormed(m), AllOnTheWay(m), NEW o \in Objects(m), OnWay(m, o),
         NEW next \in Objects(m), ToNodes(m, o, next)
  PROVE  OnWay(m, next) /\ Visited(m, next) \subseteq Visited(m, o) \union {next}
<1> DEFINE one   == First(OfType(m, "L1"))
           group == FirstMemoryGroup(m)
           r     == m.parent[next]
<1>1. IsCache(m, o) /\ IsNode(m, next) /\ ~IsNode(m, o) /\ r \in GroupObjects(m)
      /\ next = MemoryFirstChild(m)[r]
  BY NodesAreNoCaches DEF ToNodes
<1>2. /\ r \in Objects(m) /\ r \in Above(m, m.parent[o])
      /\ \A q \in Above(m, m.parent[o]) \intersect MemoryStops(m) : q \in Above(m, r)
  BY <1>1, NotNull DEF ToNodes, Nearest, GroupObjects
<1>3. o \in Way(m) /\ o \in Above(m, one) /\ one \in Objects(m) /\ Way(m) \subseteq Objects(m)
  BY <1>1, WayShape DEF OnWay, Nodes, OfType, IsNode, Way
<1>4. o \notin Above(m, group)
  <2>1. HasNodesAbove(m, o)
    BY <1>1, <1>2 DEF HasNodesAbove, GroupObjects
  <2> QED
    BY <1>1, <2>1 DEF AllOnTheWay
<1>5. group \in Above(m, r)
  BY <1>2, <1>3, <1>4, GroupAbove
<1>6. r \in Above(m, one)
  BY <1>2, <1>3, NodesAside, AboveUp
<1>7. r \in Above(m, group)
  BY <1>1, <1>6, WayShape
<1>8. r = group
  BY <1>2, <1>5, <1>7, Mutual
<1>9. next = First(Nodes(m)) /\ next \in Nodes(m)
  BY <1>1, <1>8 DEF AllOnTheWay, Nodes, OfType, IsNode
<1>10. \A n \in Nodes(m) : n <= next => n = next
  <2>1. \A n \in Nodes(m) : next <= n /\ n \in Objects(m)
    BY <1>9, FirstOfType DEF Nodes, OfType
  <2>2. \A n \in Nodes(m) : n \in Nat
    BY <2>1, NotNull
  <2> QED
    BY <1>9, <2>1, <2>2
<1>11. ASSUME NEW c \in Way(m), c \notin Above(m, group)
       PROVE  o \in Above(m, c)
  <2> SUFFICES ASSUME o \notin Above(m, c) PROVE FALSE
    OBVIOUS
  <2>1. c \in Above(m, m.parent[o]) /\ c \in Objects(m) /\ IsCache(m, c)
    BY <1>3, OneWay DEF Way
  <2>2. c \in Above(m, r)
    BY <1>2, <2>1, CachesStop
  <2> QED
    BY <1>8, <1>11, <2>2
<1> HIDE DEF group, one, r
<1>12. Visited(m, next) \subseteq Visited(m, o) \union {next}
  BY <1>1, <1>10, <1>11 DEF Visited, group
<1> QED
  BY <1>9, <1>12 DEF OnWay

LEMMA VisitedAlong ==
  ASSUME NEW m, WellFormed(m), NEW o \in Objects(m),
         NEW next \in Objects(m), Along(m, o, next)
  PROVE  OnWay(m, next) /\ Visited(m, next) \subseteq Visited(m, o) \union {next}
<1>1. IsNode(m, o) /\ IsNode(m, next) /\ next = NextCousin(m)[o] /\ next # NULL
      /\ next \in Nodes(m) /\ Nodes(m) = OfType(m, m.type[o])
  BY NotNull DEF Along, Nodes, OfType, IsNode
<1>2. \A n \in Nodes(m) : n <= o \/ next <= n
  BY <1>1, NextCousinIs
<1>3. \A n \in Nodes(m) : n \in Nat /\ next \in Nat
  BY NotNull DEF Nodes, OfType
<1>4. \A n \in Nodes(m) : n <= next => n <= o \/ n = next
  BY <1>2, <1>3
<1> QED
  BY <1>1, <1>4 DEF OnWay, Visited

LEMMA VisitedFrom ==
  ASSUME NEW m, WellFormed(m), AllOnTheWay(m), NEW o \in Objects(m),
         NEW next \in Objects(m), FromNodes(m, o, next)
  PROVE  OnWay(m, next) /\ Visited(m, next) \subseteq Visited(m, o) \union {next}
<1> DEFINE group == FirstMemoryGroup(m)
<1>1. /\ o \in LastNodes(m) /\ IsCache(m, next) /\ ~IsNode(m, next)
      /\ next \in Above(m, m.parent[o])
      /\ \A q \in Above(m, m.parent[o]) \intersect MemoryObjects(m) : q \in Above(m, next)
  BY NotNull, NodesAreNoCaches DEF FromNodes, Nearest
<1>2. o \in Nodes(m) /\ IsNode(m, o) /\ NextCousin(m)[o] = NULL
  BY <1>1 DEF LastNodes, Nodes, OfType, IsNode
<1>3. next \in Above(m, group) /\ next \in Way(m) /\ Way(m) \subseteq Objects(m)
  <2>1. next \in Above(m, o)
    BY <1>1, NodesAside
  <2>2. next \in Above(m, group)
    BY <1>1, <2>1 DEF AllOnTheWay
  <2> QED
    BY <1>1, <2>2, WayShape DEF Way
<1>4. \A n \in Nodes(m) : n <= o
  BY <1>2, NextCousinIs DEF Nodes, IsNode
<1>5. ASSUME NEW c \in Way(m), next \in Above(m, c), c \in Above(m, group)
      PROVE  c = next
  <2>1. c \in Objects(m) /\ IsCache(m, c)
    BY <1>3 DEF Way
  <2>2. c \in Above(m, o) /\ c # o
    BY <1>1, <1>2, <1>5, <2>1, NodesAreNoCaches DEF AllOnTheWay
  <2>3. c \in Above(m, m.parent[o])
    BY <2>2, AboveUp
  <2>4. c \in Above(m, next)
    BY <1>1, <2>1, <2>3, CachesStop
  <2> QED
    BY <1>5, <2>1, <2>4, Mutual
<1> HIDE DEF group
<1>6. Visited(m, next) \subseteq Visited(m, o) \union {next}
  BY <1>1, <1>2, <1>4, <1>5 DEF Visited, group
<1> QED
  BY <1>3, <1>6 DEF OnWay

LEMMA VisitedEnd ==
  ASSUME NEW m, WellFormed(m), AllOnTheWay(m), NEW o \in Objects(m), OnWay(m, o), Over(m, o)
  PROVE  Nodes(m) \union Way(m) \subseteq Visited(m, o)
<1> DEFINE one   == First(OfType(m, "L1"))
           group == FirstMemoryGroup(m)
<1>1. CASE IsCache(m, o) /\ Nearest(m, m.parent[o], MemoryStops(m), NULL)
  <2>1. Above(m, m.parent[o]) \intersect MemoryStops(m) = {}
    <3>1. NULL \notin MemoryStops(m)
      BY NotNull DEF MemoryStops
    <3> QED
      BY <1>1, <3>1 DEF Nearest
  <2>2. ~IsNode(m, o) /\ o \in Way(m) /\ o \in Above(m, one) /\ one \in Objects(m)
    BY <1>1, WayShape, NodesAreNoCaches DEF OnWay, Nodes, OfType, IsNode, Way
  <2>3. o \in Above(m, group)
    BY <2>1, <2>2, GroupAbove
  <2>4. ASSUME NEW c \in Way(m) PROVE o \in Above(m, c)
    <3>1. c \in Objects(m) /\ IsCache(m, c) /\ c \in Above(m, one)
      BY WayShape DEF Way
    <3>2. c \notin Above(m, m.parent[o])
      BY <2>1, <3>1, CachesStop
    <3> QED
      BY <2>2, <3>1, <3>2, OneWay
  <2> QED
    BY <2>2, <2>3, <2>4 DEF Visited
<1>2. CASE o \in LastNodes(m) /\ Nearest(m, m.parent[o], MemoryObjects(m), NULL)
  <2>1. Above(m, m.parent[o]) \intersect MemoryObjects(m) = {}
    <3>1. NULL \notin MemoryObjects(m)
      BY NotNull DEF MemoryObjects
    <3> QED
      BY <1>2, <3>1 DEF Nearest
  <2>2. o \in Nodes(m) /\ IsNode(m, o) /\ NextCousin(m)[o] = NULL
    BY <1>2 DEF LastNodes, Nodes, OfType, IsNode
  <2>3. \A n \in Nodes(m) : n <= o
    BY <2>2, NextCousinIs DEF Nodes, IsNode
  <2>4. ASSUME NEW c \in Way(m) PROVE c \notin Above(m, group)
    <3> SUFFICES ASSUME c \in Above(m, group) PROVE FALSE
      OBVIOUS
    <3>1. c \in Objects(m) /\ IsCache(m, c)
      BY WayShape DEF Way
    <3>2. c \in Above(m, o) /\ c # o
      BY <1>2, <2>2, <3>1, NodesAreNoCaches DEF AllOnTheWay
    <3>3. c \in Above(m, m.parent[o])
      BY <3>2, AboveUp
    <3> QED
      BY <2>1, <3>1, <3>3, CachesStop
  <2> QED
    BY <2>2, <2>3, <2>4 DEF Visited
<1> QED
  BY <1>1, <1>2 DEF Over

\* Not measured only because the types asked for have no meaning for it.
Passed(o) == TypesFor(machine, o) = {} \/ \E i \in Measures : log[i].mem = o

EveryInv ==
  /\ pc = "walk" /\ memory # NULL =>
       OnWay(machine, memory) /\ \A o \in Visited(machine, memory) : Passed(o)
  /\ pc = "done" /\ Mode = "walk" => \A o \in Nodes(machine) \union Way(machine) : Passed(o)

LEMMA StepEvery ==
  ASSUME TypeInv, ControlInv, AtMemory, EveryInv, [Next]_vars,
         Unreturned = {"cousin"}, AllOnTheWay(machine)
  PROVE  EveryInv'
<1>1. CASE BenchNext
  <2> DEFINE k == Len(log) + 1
  <2>1. /\ WellFormed(machine) /\ UNCHANGED <<machine, opt>> /\ pc = "walk" /\ Mode = "walk"
        /\ memory \in {NULL} \union Objects(machine)
        /\ memory' \in {NULL} \union Objects(machine)
        /\ Moves(machine, memory, memory')
        /\ memory' = NULL => pc' = "done" /\ log' = log /\ Measures' = Measures
        /\ memory' # NULL =>
             /\ pc' = "walk"
             /\ \A i \in Measures : log'[i] = log[i]
             /\ \/ TypesFor(machine, memory') = {} /\ Measures' = Measures
                \/ Measures' = Measures \union {k} /\ log'[k].mem = memory'
    BY <1>1, WalkStep
  <2> HIDE DEF k
  <2>2. \A o : TypesFor(machine, o)' = TypesFor(machine, o)
    BY <2>1, TypesKept
  <2>3. CASE memory' = NULL
    <3>1. memory # NULL /\ Over(machine, memory)
      <4>1. First(OfType(machine, "L1")) \in Objects(machine)
        BY <2>1, FirstOfType DEF OfType
      <4> QED
        BY <2>1, <2>3, <4>1, NotNull DEF Moves
    <3>2. \A o \in Nodes(machine) \union Way(machine) : Passed(o)
      BY <2>1, <3>1, VisitedEnd DEF EveryInv
    <3>3. \A o : Passed(o)' <=> Passed(o)
      BY <2>1, <2>2, <2>3 DEF Passed
    <3> QED
      BY <2>1, <2>3, <3>2, <3>3 DEF EveryInv
  <2>4. CASE memory' # NULL
    <3>1. \A o : Passed(o) => Passed(o)'
      BY <2>1, <2>2, <2>4 DEF Passed
    <3>2. \A o : o = memory' => Passed(o)'
      BY <2>1, <2>2, <2>4 DEF Passed
    <3>3. /\ OnWay(machine, memory')
          /\ \A o \in Visited(machine, memory') : Passed(o) \/ o = memory'
      <4>1. CASE memory = NULL
        <5>1. memory' = First(OfType(machine, "L1"))
          BY <2>1, <4>1 DEF Moves
        <5>2. /\ OnWay(machine, First(OfType(machine, "L1")))
              /\ Visited(machine, First(OfType(machine, "L1")))
                   \subseteq {First(OfType(machine, "L1"))}
          BY <2>1, VisitedFirst
        <5> QED
          BY <5>1, <5>2
      <4>2. CASE memory # NULL
        <5>1. OnWay(machine, memory) /\ \A o \in Visited(machine, memory) : Passed(o)
          BY <2>1, <4>2 DEF EveryInv
        <5>2. /\ OnWay(machine, memory')
              /\ Visited(machine, memory') \subseteq Visited(machine, memory) \union {memory'}
          BY <2>1, <2>4, <4>2, <5>1, VisitedUp, VisitedNodes, VisitedAlong, VisitedFrom DEF Moves
        <5> QED
          BY <5>1, <5>2
      <4> QED
        BY <4>1, <4>2
    <3>4. pc' = "walk" /\ machine' = machine
      BY <2>1, <2>4
    <3>5. \A o \in Visited(machine, memory') : Passed(o)'
      BY <3>1, <3>2, <3>3
    <3> QED
      BY <3>3, <3>4, <3>5 DEF EveryInv
  <2> QED
    BY <2>3, <2>4
<1>2. CASE Mode' # "walk" /\ pc' # "walk"
  BY <1>2 DEF EveryInv
<1>3. CASE (pc' = "walk" => memory' = NULL) /\ pc' # "done"
  BY <1>3 DEF EveryInv
<1>4. CASE UNCHANGED <<machine, opt, log, memory, pc>>
  <2>1. \A o : TypesFor(machine, o)' = TypesFor(machine, o)
    BY <1>4, TypesKept
  <2>2. \A o : Passed(o)' <=> Passed(o)
    BY <1>4, <2>1 DEF Passed, Measures
  <2>3. Mode' = Mode
    BY <1>4 DEF Mode
  <2> QED
    BY <1>4, <2>2, <2>3 DEF EveryInv
<1> QED
  BY <1>1, <1>2, <1>3, <1>4, BesideWalk

\* When the walk is over no node and no cache above core 0 was left out, where the
\* first nodes hang above the first L1 and the last one under the same caches.
THEOREM EveryMemoryCorrect ==
  ASSUME Unreturned = {"cousin"}
  PROVE  Spec => [](AllOnTheWay(machine) => EveryMemory)
<1> DEFINE Inv == TypeInv /\ ControlInv /\ AtMemory
           Shape == AllOnTheWay(machine)
<1>1. Init => Inv /\ EveryInv
  <2>1. Init => pc = "args" /\ Measures = {}
    BY DEF Init, Measures
  <2> QED
    BY <2>1, InitType DEF AtMemory, EveryInv
<1>2. Inv /\ [Next]_vars => Inv'
  BY StepType, StepAt
<1>3. Inv /\ (Shape => EveryInv) /\ [Next]_vars => (Shape => EveryInv)'
  BY StepEvery, MachineStays
<1>4. Inv /\ (Shape => EveryInv) => (Shape => EveryMemory)
  <2>1. ASSUME Inv, EveryInv, AllOnTheWay(machine) PROVE EveryMemory
    <3>1. WellFormed(machine)
      BY <2>1, MachinesAssumption DEF TypeInv
    <3>2. Core(machine) \in Objects(machine)
      BY <3>1, FirstOfType DEF Core, OfType
    <3>3. Owed \subseteq Nodes(machine) \union Way(machine)
      BY <2>1, <3>1, <3>2, AboveObjects DEF Owed, Nodes, Way, AllOnTheWay
    <3> QED
      BY <2>1, <3>3 DEF EveryInv, Passed, EveryMemory
  <2> HIDE DEF Inv
  <2> QED
    BY <2>1
<1> HIDE DEF Inv, Shape
<1>5. Spec => [](Inv /\ (Shape => EveryInv))
  BY <1>1, <1>2, <1>3, PTL DEF Spec
<1>6. Spec => [](Shape => EveryMemory)
  BY <1>4, <1>5, PTL
<1> QED
  BY <1>6 DEF Shape

-----------------------------------------------------------------------------
(***************************************************************************)
(* Results.  On the way up from where a thread runs there is an object at  *)
(* each depth, and the one at the depth of the group is of its type.       *)
(***************************************************************************)
LEMMA DepthIs ==
  ASSUME NEW m, WellFormed(m), NEW o \in Objects(m), ~IsNode(m, o)
  PROVE  /\ Depth(m, o) \in Nat
         /\ m.parent[o] = NULL => Depth(m, o) = 0
         /\ m.parent[o] # NULL => /\ ~IsNode(m, m.parent[o]) /\ m.parent[o] \in Objects(m)
                                  /\ Depth(m, o) = Depth(m, m.parent[o]) + 1
<1>1. /\ Cardinality(Above(m, o)) \in Nat
      /\ Cardinality(Above(m, o)) = Cardinality(Above(m, m.parent[o])) + 1
  BY AboveCount
<1>2. Depth(m, o) = Cardinality(Above(m, o)) - 1
  BY DEF Depth, IsNode
<1>3. CASE m.parent[o] = NULL
  <2>1. Cardinality(Above(m, m.parent[o])) = 0
    BY <1>3, AboveIs, FS_EmptySet
  <2> QED
    BY <1>1, <1>2, <1>3, <2>1
<1>4. CASE m.parent[o] # NULL
  <2>1. m.parent[o] \in Objects(m)
    BY <1>4, Tree
  <2>2. ~IsNode(m, m.parent[o])
    BY <2>1, NotNull, NodesAside
  <2>3. /\ Cardinality(Above(m, m.parent[o])) \in Nat
        /\ Cardinality(Above(m, m.parent[o]))
             = Cardinality(Above(m, m.parent[m.parent[o]])) + 1
        /\ Cardinality(Above(m, m.parent[m.parent[o]])) \in Nat
    BY <2>1, AboveCount, FS_CardinalityType
  <2>4. Depth(m, m.parent[o]) = Cardinality(Above(m, m.parent[o])) - 1
    BY <2>2 DEF Depth, IsNode
  <2> QED
    BY <1>1, <1>2, <1>4, <2>1, <2>2, <2>3, <2>4
<1> QED
  BY <1>3, <1>4

LEMMA EachDepth ==
  ASSUME NEW m, WellFormed(m), NEW o \in Objects(m), ~IsNode(m, o),
         NEW d \in 0 .. Depth(m, o)
  PROVE  \E p \in Above(m, o) : Depth(m, p) = d /\ ~IsNode(m, p)
<1> DEFINE Has(k) == \A e \in 0 .. Depth(m, k) :
                       \E p \in Above(m, k) : Depth(m, p) = e /\ ~IsNode(m, p)
           G == {k \in Objects(m) : ~IsNode(m, k) => Has(k)}
<1>1. ASSUME NEW k \in Objects(m), m.parent[k] \in {NULL} \union G PROVE k \in G
  <2>1. ASSUME ~IsNode(m, k), NEW e \in 0 .. Depth(m, k)
        PROVE  \E p \in Above(m, k) : Depth(m, p) = e /\ ~IsNode(m, p)
    <3>1. CASE e = Depth(m, k)
      BY <2>1, <3>1, NotNull
    <3>2. CASE e # Depth(m, k)
      <4>1. Depth(m, k) \in Nat /\ Depth(m, k) # 0
        BY <2>1, <3>2, DepthIs
      <4>2. m.parent[k] # NULL
        BY <2>1, <4>1, DepthIs
      <4>3. ~IsNode(m, m.parent[k]) /\ m.parent[k] \in Objects(m)
            /\ Depth(m, k) = Depth(m, m.parent[k]) + 1
        BY <2>1, <4>2, DepthIs
      <4>4. Depth(m, m.parent[k]) \in Nat
        BY <4>3, DepthIs
      <4>5. e \in 0 .. Depth(m, m.parent[k])
        BY <2>1, <3>2, <4>1, <4>3, <4>4
      <4>6. m.parent[k] \in G
        BY <1>1, <4>2
      <4>7. PICK p \in Above(m, m.parent[k]) : Depth(m, p) = e /\ ~IsNode(m, p)
        BY <4>3, <4>5, <4>6
      <4>8. p \in Above(m, k)
        BY <4>7, AboveIs
      <4> QED
        BY <4>7, <4>8
    <3> QED
      BY <3>1, <3>2
  <2> QED
    BY <2>1
<1>2. Objects(m) \subseteq G
  <2> HIDE DEF G
  <2> QED
    BY <1>1, TreeInduction
<1>3. Has(o)
  BY <1>2
<1> QED
  BY <1>3

GroupStops(m) == {p \in Objects(m) : Depth(m, p) <= GroupDepth(m)}

LEMMA ResultGroupIs ==
  ASSUME NEW m, WellFormed(m), NEW o \in Objects(m), ~IsNode(m, o),
         Depth(m, o) >= GroupDepth(m)
  PROVE  \E r : /\ Nearest(m, o, GroupStops(m), r)
                /\ ResultGroup(m, o) = LogicalIndex(m, r)
<1> DEFINE f == CHOOSE f : f = [p \in {NULL} \union DOMAIN m.parent |->
                  IF p = NULL \/ Depth(m, p) <= GroupDepth(m) THEN p ELSE f[m.parent[p]]]
<1>1. \E g : g = [p \in {NULL} \union DOMAIN m.parent |->
                    IF p = NULL \/ Depth(m, p) <= GroupDepth(m) THEN p ELSE g[m.parent[p]]]
  <2>1. PICK g : WaysUp(m, GroupStops(m), g)
    BY UpExists
  <2> QED
    BY <2>1, Tree DEF WaysUp, GroupStops
<1>2. ResultGroup(m, o) = LogicalIndex(m, f[o])
  BY NotNull DEF ResultGroup, Follow, IsNode
<1>3. WaysUp(m, GroupStops(m), f)
  BY <1>1, Tree DEF WaysUp, GroupStops
<1> HIDE DEF f
<1>4. Nearest(m, o, GroupStops(m), f[o])
  BY <1>3, UpIsNearest
<1> QED
  BY <1>2, <1>4

\* An object of one PU alone is above this PU.
LEMMA LocationIs ==
  ASSUME NEW m, WellFormed(m), NEW pu \in OfType(m, "PU")
  PROVE  /\ Location(m, pu) \in Objects(m) /\ ~IsNode(m, Location(m, pu))
         /\ Location(m, pu) \in Above(m, pu)
<1> DEFINE alone == {o \in Objects(m) \ OfType(m, "NUMANODE") : Cpuset(m, o) \subseteq {pu}}
<1>1. pu \in Objects(m) /\ m.type[pu] = "PU" /\ ~IsNode(m, pu)
  BY DEF OfType, IsNode
<1>2. ASSUME NEW c \in Cpuset(m, pu) PROVE c = pu
  <2>1. c \in Objects(m) /\ m.type[c] = "PU" /\ pu \in Above(m, c)
    BY <1>1 DEF Cpuset, IsNode, OfType
  <2>2. Depth(m, c) = Depth(m, pu)
    BY <1>1, <2>1 DEF WellFormed
  <2>3. Cardinality(Above(m, c)) - 1 = Cardinality(Above(m, pu)) - 1
    BY <1>1, <2>1, <2>2 DEF Depth
  <2>4. Cardinality(Above(m, c)) \in Nat /\ Cardinality(Above(m, pu)) \in Nat
    BY <1>1, <2>1, AboveCount
  <2>5. Cardinality(Above(m, c)) = Cardinality(Above(m, pu))
    BY <2>3, <2>4
  <2> QED
    BY <2>1, <2>5, AboveMore
<1>3. pu \in alone
  BY <1>1, <1>2 DEF OfType, IsNode
<1>4. alone \in SUBSET Nat
  BY NotNull
<1>5. Location(m, pu) = First(alone)
  BY DEF Location, Largest
<1> HIDE DEF alone
<1>6. Location(m, pu) \in alone
  BY <1>3, <1>4, <1>5, FirstIs
<1>7. /\ Location(m, pu) \in Objects(m) /\ ~IsNode(m, Location(m, pu))
      /\ Cpuset(m, Location(m, pu)) \subseteq {pu}
  BY <1>6 DEF alone, OfType, IsNode
<1>8. pu \in Cpuset(m, Location(m, pu))
  BY <1>7 DEF WellFormed
<1>9. Location(m, pu) \in Above(m, pu)
  BY <1>7, <1>8 DEF Cpuset, IsNode
<1> QED
  BY <1>7, <1>9

\* The index of an object is below the number of those of its type.
LEMMA IndexBelow ==
  ASSUME NEW m, WellFormed(m), NEW o \in Objects(m)
  PROVE  LogicalIndex(m, o) < Cardinality(OfType(m, m.type[o]))
<1> DEFINE before == {c \in Objects(m) : c < o /\ Depth(m, c) = Depth(m, o)}
           all == OfType(m, m.type[o])
<1>1. before \subseteq all /\ o \in all
  BY DEF WellFormed, OfType
<1>2. o \notin before
  BY NotNull
<1>3. IsFiniteSet(all) /\ Cardinality(all) \in Nat
  <2>1. IsFiniteSet(Objects(m))
    BY Tree, FS_Interval, SMTT(20)
  <2>2. all \subseteq Objects(m)
    BY Tree
  <2> QED
    BY <2>1, <2>2, FS_Subset, FS_CardinalityType
<1>4. LogicalIndex(m, o) = Cardinality(before)
  BY DEF LogicalIndex
<1> HIDE DEF before, all
<1>5. Cardinality(before) <= Cardinality(all) /\ Cardinality(before) # Cardinality(all)
  BY <1>1, <1>2, <1>3, FS_Subset
<1>6. Cardinality(before) \in Nat
  BY <1>1, <1>3, FS_Subset, FS_CardinalityType
<1> QED
  BY <1>3, <1>4, <1>5, <1>6 DEF all

LEMMA PrintedIs ==
  ASSUME NEW m, WellFormed(m), GroupsLarge(m), NEW pu \in OfType(m, "PU")
  PROVE  LET g == ResultGroup(m, Location(m, pu))
         IN  /\ g < NMemoryGroup(m) /\ g < NPrinted(m)
             /\ \E o \in OfType(m, m.type[FirstMemoryGroup(m)]) :
                  LogicalIndex(m, o) = g /\ pu \in Cpuset(m, o)
<1> DEFINE group == FirstMemoryGroup(m)
           loc == Location(m, pu)
<1>1. loc \in Objects(m) /\ ~IsNode(m, loc) /\ loc \in Above(m, pu) /\ pu \in Objects(m)
  BY LocationIs DEF OfType
<1>2. group # NULL
  BY DEF GroupsLarge
<1>3. group \in GroupObjects(m)
  BY <1>2, FirstMemoryGroupIs DEF Nearest
<1>4. group \in Objects(m) /\ ~IsNode(m, group)
  <2>1. group \in Objects(m) /\ MemoryFirstChild(m)[group] # NULL
    BY <1>3 DEF GroupObjects
  <2>2. /\ MemoryFirstChild(m)[group] \in Objects(m)
        /\ m.parent[MemoryFirstChild(m)[group]] = group
    BY <2>1, ChildrenAre DEF OfType
  <2> QED
    BY <2>1, <2>2, NotNull, NodesAside
<1>5. GroupDepth(m) = Depth(m, group) /\ Depth(m, group) \in Nat
  BY <1>2, <1>4, DepthIs DEF GroupDepth
<1>6. Depth(m, loc) >= GroupDepth(m)
  BY DEF GroupsLarge
<1> HIDE DEF group, loc
<1>7. PICK r : Nearest(m, loc, GroupStops(m), r) /\ ResultGroup(m, loc) = LogicalIndex(m, r)
  BY <1>1, <1>6, ResultGroupIs
<1>8. PICK q \in Above(m, loc) : Depth(m, q) = GroupDepth(m) /\ ~IsNode(m, q)
  <2>1. GroupDepth(m) \in 0 .. Depth(m, loc)
    BY <1>1, <1>5, <1>6, DepthIs
  <2> QED
    BY <1>1, <2>1, EachDepth
<1>9. q \in Objects(m)
  BY <1>1, <1>8, AboveObjects
<1>10. q \in GroupStops(m)
  BY <1>5, <1>8, <1>9 DEF GroupStops
<1>11. r \in Above(m, loc) /\ r \in GroupStops(m) /\ q \in Above(m, r)
  BY <1>7, <1>8, <1>10 DEF Nearest
<1>12. r \in Objects(m) /\ ~IsNode(m, r)
  <2>1. r = loc \/ r \in Above(m, m.parent[loc])
    BY <1>1, <1>11, AboveUp
  <2> QED
    BY <1>1, <1>11, <2>1, NodesAside DEF GroupStops
<1>13. Depth(m, r) = GroupDepth(m)
  <2>1. Cardinality(Above(m, q)) <= Cardinality(Above(m, r))
    BY <1>11, <1>12, AboveMore
  <2>2. /\ Depth(m, q) = Cardinality(Above(m, q)) - 1
        /\ Depth(m, r) = Cardinality(Above(m, r)) - 1
    BY <1>8, <1>12 DEF Depth, IsNode
  <2>3. Cardinality(Above(m, q)) \in Nat /\ Cardinality(Above(m, r)) \in Nat
    BY <1>9, <1>12, AboveCount
  <2>4. Depth(m, r) <= GroupDepth(m)
    BY <1>11 DEF GroupStops
  <2> QED
    BY <1>5, <1>8, <2>1, <2>2, <2>3, <2>4
<1>14. m.type[r] = m.type[group]
  BY <1>4, <1>5, <1>12, <1>13 DEF WellFormed
<1>15. r \in OfType(m, m.type[group])
  BY <1>12, <1>14 DEF OfType
<1>16. pu \in Cpuset(m, r)
  <2>1. r \in Above(m, pu)
    BY <1>1, <1>11, AboveUp
  <2> QED
    BY <1>12, <2>1 DEF Cpuset, IsNode
<1>17. LogicalIndex(m, r) < Cardinality(OfType(m, m.type[group]))
  BY <1>12, <1>14, IndexBelow
<1>18. /\ NMemoryGroup(m) = Cardinality(OfType(m, m.type[group]))
       /\ NPrinted(m) = Cardinality(OfType(m, m.type[group]))
  BY <1>2 DEF NMemoryGroup, NPrinted, GroupsLarge, group
<1> QED
  BY <1>7, <1>15, <1>16, <1>17, <1>18 DEF group, loc

\* The result of every thread of a team goes to the group its PU is in, which has a
\* cell and is printed, where no PU is alone in an object larger than a group.
THEOREM ResultsPrintedCorrect == Spec => [](GroupsLarge(machine) => ResultsPrinted)
<1>1. TypeInv => (GroupsLarge(machine) => ResultsPrinted)
  <2> SUFFICES ASSUME TypeInv, GroupsLarge(machine), root # NULL,
                      NEW pu \in Team(machine, root, leaf_type)
               PROVE  LET g == ResultGroup(machine, Location(machine, pu))
                      IN  /\ g < NMemoryGroup(machine) /\ g < NPrinted(machine)
                          /\ \E o \in OfType(machine, machine.type[FirstMemoryGroup(machine)]) :
                               LogicalIndex(machine, o) = g /\ pu \in Cpuset(machine, o)
    BY DEF ResultsPrinted
  <2>1. WellFormed(machine)
    BY MachinesAssumption DEF TypeInv
  <2>2. PICK l \in Inside(machine, root, leaf_type) : pu = CpuBind(machine, l)
    BY DEF Team
  <2>3. l \in Objects(machine)
    BY DEF Inside, OfType
  <2>4. Cpuset(machine, l) # {} /\ Cpuset(machine, l) \subseteq OfType(machine, "PU")
    BY <2>1, <2>3 DEF WellFormed, Cpuset
  <2>5. Cpuset(machine, l) \in SUBSET Nat
    BY <2>1, <2>4, NotNull DEF OfType
  <2>6. pu \in OfType(machine, "PU")
    BY <2>2, <2>4, <2>5, FirstIs DEF CpuBind
  <2> QED
    BY <2>1, <2>6, PrintedIs
<1>2. Spec => [](TypeInv /\ ControlInv)
  BY InitType, StepType, PTL DEF Spec
<1> QED
  BY <1>1, <1>2, PTL

-----------------------------------------------------------------------------
(***************************************************************************)
(* Leaves.  They are numbered without a gap, and those of one type have no *)
(* PU in common.                                                           *)
(***************************************************************************)
LEMMA Numbered ==
  ASSUME NEW s \in SUBSET Nat, IsFiniteSet(s), NEW n \in 0 .. Cardinality(s) - 1
  PROVE  \E o \in s : Cardinality({p \in s : p < o}) = n
<1> DEFINE Below(o) == {p \in s : p < o}
           Has(k) == k < Cardinality(s) => \E o \in s : Cardinality(Below(o)) = k
           G == {k \in Nat : Has(k)}
<1>0. \A p \in s : p \in Nat
  OBVIOUS
<1>1. Cardinality(s) \in Nat /\ \A o : IsFiniteSet(Below(o))
  BY FS_CardinalityType, FS_Subset
<1>2. Has(0)
  <2> SUFFICES ASSUME 0 < Cardinality(s) PROVE \E o \in s : Cardinality(Below(o)) = 0
    OBVIOUS
  <2>1. s # {}
    BY FS_EmptySet
  <2>2. PICK o \in s : \A p \in s : o <= p
    BY <2>1, LeastOne
  <2>3. Below(o) = {}
    <3>1. ASSUME NEW p \in s PROVE ~(p < o)
      <4>1. o <= p /\ p \in Nat /\ o \in Nat
        BY <1>0, <2>2
      <4> QED
        BY <4>1
    <3> QED
      BY <3>1
  <2> QED
    BY <2>3, FS_EmptySet
<1>3. ASSUME NEW k \in Nat, Has(k), k + 1 < Cardinality(s)
      PROVE  \E o \in s : Cardinality(Below(o)) = k + 1
  <2>1. PICK o \in s : Cardinality(Below(o)) = k
    BY <1>1, <1>3
  <2> DEFINE after == {p \in s : o < p}
             upto == Below(o) \union {o}
  <2>2. Cardinality(upto) = k + 1 /\ IsFiniteSet(upto)
    <3>1. o \notin Below(o) /\ IsFiniteSet(Below(o))
      BY <1>0, <1>1
    <3> HIDE DEF Below
    <3> QED
      BY <2>1, <3>1, FS_AddElement
  <2>3. after # {}
    <3> SUFFICES ASSUME after = {} PROVE FALSE
      OBVIOUS
    <3>1. s = upto
      <4>1. ASSUME NEW p \in s PROVE p < o \/ p = o
        <5>1. p \in Nat /\ o \in Nat /\ ~(o < p)
          BY <1>0
        <5> QED
          BY <5>1
      <4> QED
        BY <4>1
    <3> HIDE DEF upto, after
    <3> QED
      BY <1>1, <1>3, <2>2, <3>1
  <2>4. PICK q \in after : \A p \in after : q <= p
    BY <1>0, <2>3, LeastOne
  <2>5. Below(q) = upto
    <3>1. q \in Nat /\ o \in Nat /\ o < q
      BY <1>0, <2>4
    <3>2. ASSUME NEW p \in s PROVE p < q <=> p < o \/ p = o
      BY <1>0, <2>4, <3>1, <3>2
    <3> QED
      BY <3>2
  <2> QED
    BY <2>2, <2>4, <2>5
<1> HIDE DEF Below
<1>4. 0 \in G /\ \A k \in G : k + 1 \in G
  <2>1. \A k \in G : k + 1 \in Nat /\ Has(k + 1)
    BY <1>3
  <2> QED
    BY <1>2, <2>1
<1> HIDE DEF Has
<1>5. Has(n)
  <2>1. n \in Nat /\ G \in SUBSET Nat
    BY <1>1
  <2>2. G = Nat
    BY <1>4, <2>1, NatCounted
  <2> QED
    BY <2>1, <2>2
<1>6. n < Cardinality(s)
  BY <1>1
<1> QED
  BY <1>5, <1>6 DEF Has, Below

\* And no two have the same number.
LEMMA NumberedOnce ==
  ASSUME NEW s \in SUBSET Nat, IsFiniteSet(s), NEW o \in s, NEW q \in s, o # q
  PROVE  Cardinality({p \in s : p < o}) # Cardinality({p \in s : p < q})
<1> DEFINE Below(k) == {p \in s : p < k}
<1>1. \A p \in s : p \in Nat
  OBVIOUS
<1>2. \A k : IsFiniteSet(Below(k)) /\ Cardinality(Below(k)) \in Nat
  BY FS_Subset, FS_CardinalityType
<1>3. ASSUME NEW a \in s, NEW b \in s, a < b
      PROVE  Cardinality(Below(a)) < Cardinality(Below(b))
  <2>1. a \notin Below(a)
    BY <1>1
  <2>2. Below(a) \union {a} \subseteq Below(b)
    <3>1. ASSUME NEW p \in s, p < a PROVE p < b
      <4>1. p \in Nat /\ a \in Nat /\ b \in Nat
        BY <1>1
      <4> QED
        BY <1>3, <3>1, <4>1
    <3> QED
      BY <1>3, <3>1
  <2> HIDE DEF Below
  <2>3. Cardinality(Below(a) \union {a}) = Cardinality(Below(a)) + 1
    BY <1>2, <2>1, FS_AddElement
  <2>4. Cardinality(Below(a) \union {a}) <= Cardinality(Below(b))
    BY <1>2, <2>2, FS_Subset
  <2> QED
    BY <1>2, <2>3, <2>4
<1>4. o < q \/ q < o
  BY <1>1
<1> HIDE DEF Below
<1>5. Cardinality(Below(o)) # Cardinality(Below(q))
  BY <1>2, <1>3, <1>4
<1> QED
  BY <1>5 DEF Below

\* The number of each is in range.
LEMMA NumberIn ==
  ASSUME NEW s \in SUBSET Nat, IsFiniteSet(s), NEW o \in s
  PROVE  Cardinality({p \in s : p < o}) \in 0 .. Cardinality(s) - 1
<1> DEFINE below == {p \in s : p < o}
<1>1. IsFiniteSet(below) /\ Cardinality(below) \in Nat /\ Cardinality(s) \in Nat
  BY FS_Subset, FS_CardinalityType
<1>2. o \notin below /\ below \union {o} \subseteq s
  OBVIOUS
<1>3. Cardinality(below \union {o}) = Cardinality(below) + 1
  BY <1>1, <1>2, FS_AddElement
<1>4. Cardinality(below \union {o}) <= Cardinality(s)
  BY <1>2, FS_Subset
<1> HIDE DEF below
<1>5. Cardinality(below) \in 0 .. Cardinality(s) - 1
  BY <1>1, <1>3, <1>4
<1> QED
  BY <1>5 DEF below

LEMMA LeavesAreApart ==
  ASSUME NEW m, WellFormed(m), NEW obj, NEW type \in {"CORE", "PU"}
  PROVE  LeavesApart(m, obj, type)
<1> DEFINE leaves == Inside(m, obj, type)
           Number(o) == Cardinality({p \in leaves : p < o})
           numbers == Threads(m, obj, type)
           Of(n) == CpuBind(m, Leaf(m, obj, type, n))
<1>1. leaves \subseteq Objects(m) /\ \A o \in leaves : m.type[o] = type /\ ~IsNode(m, o)
  BY DEF Inside, OfType, IsNode
<1>2. leaves \in SUBSET Nat /\ IsFiniteSet(leaves)
  <2>1. IsFiniteSet(Objects(m))
    BY Tree, FS_Interval
  <2> QED
    BY <1>1, <2>1, NotNull, FS_Subset
<1>3. numbers = 0 .. Cardinality(leaves) - 1
  BY DEF Threads
<1>4. \A o, q \in leaves : Number(o) = Number(q) => o = q
  BY <1>2, NumberedOnce
<1>5. \A o \in leaves : Number(o) \in numbers
  BY <1>2, <1>3, NumberIn
<1>6. \A n \in numbers : \E o \in leaves : Number(o) = n
  BY <1>2, <1>3, Numbered
<1>7. \A n : Leaf(m, obj, type, n) = CHOOSE o \in leaves : Number(o) = n
  BY DEF Leaf
<1> HIDE DEF leaves, Number, numbers
<1>8. \A n \in numbers :
        Leaf(m, obj, type, n) \in leaves /\ Number(Leaf(m, obj, type, n)) = n
  BY <1>6, <1>7
<1>9. \A o \in leaves : Leaf(m, obj, type, Number(o)) = o
  BY <1>4, <1>5, <1>8
<1>10. ASSUME NEW o \in leaves, NEW q \in leaves, CpuBind(m, o) = CpuBind(m, q)
       PROVE  o = q
  <2>1. o \in Objects(m) /\ q \in Objects(m) /\ m.type[o] = m.type[q]
        /\ ~IsNode(m, o) /\ ~IsNode(m, q)
    BY <1>1
  <2>2. \A l \in {o, q} : CpuBind(m, l) \in Cpuset(m, l)
    <3>1. \A l \in {o, q} : Cpuset(m, l) # {} /\ Cpuset(m, l) \subseteq Objects(m)
      <4>1. \A l : Cpuset(m, l) \subseteq Objects(m)
        BY DEF Cpuset, OfType
      <4>2. \A l \in Objects(m) : Cpuset(m, l) # {}
        BY DEF WellFormed
      <4> QED
        BY <2>1, <4>1, <4>2
    <3>2. \A l \in {o, q} : Cpuset(m, l) \in SUBSET Nat
      BY <3>1, NotNull
    <3> QED
      BY <3>1, <3>2, FirstIs DEF CpuBind
  <2> DEFINE c == CpuBind(m, o)
  <2>3. c \in Objects(m) /\ o \in Above(m, c) /\ q \in Above(m, c)
    BY <1>10, <2>1, <2>2 DEF Cpuset, IsNode, OfType
  <2>4. o \in Above(m, q) \/ q \in Above(m, o)
    BY <2>1, <2>3, NotNull, AboveOne
  <2>5. Cardinality(Above(m, o)) = Cardinality(Above(m, q))
    <3>1. Depth(m, o) = Depth(m, q)
      BY <2>1 DEF WellFormed
    <3>2. Cardinality(Above(m, o)) - 1 = Cardinality(Above(m, q)) - 1
      BY <2>1, <3>1 DEF Depth, IsNode
    <3>3. Cardinality(Above(m, o)) \in Nat /\ Cardinality(Above(m, q)) \in Nat
      BY <2>1, AboveCount
    <3> QED
      BY <3>2, <3>3
  <2> QED
    BY <2>1, <2>4, <2>5, AboveMore
<1>11. \A n, k \in numbers : n # k => Of(n) # Of(k)
  BY <1>8, <1>10
<1>12. {Of(n) : n \in numbers} = {CpuBind(m, l) : l \in leaves}
  <2>1. \A n \in numbers : Leaf(m, obj, type, n) \in leaves
    BY <1>8
  <2>2. \A l \in leaves : Number(l) \in numbers /\ Of(Number(l)) = CpuBind(m, l)
    BY <1>5, <1>9
  <2> QED
    BY <2>1, <2>2
<1> QED
  BY <1>11, <1>12 DEF LeavesApart, Team, leaves, numbers

LeafTypes == leaf_type \in {"CORE", "PU"}

LEMMA StepLeafType == LeafTypes /\ [Next]_vars => LeafTypes'
<1> SUFFICES ASSUME LeafTypes, [Next]_vars PROVE LeafTypes'
  OBVIOUS
<1>1. CASE UNCHANGED vars
  BY <1>1 DEF vars, rootVars, LeafTypes
<1> QED
  BY <1>1 DEF LeafTypes, Next, Done, vars, rootVars, ParseOption, LibInit, BenchFlops, Region,
     TakeNumber, Bind, EndRegion, RootCluster, BenchMatrix, BenchItem, BenchNext, Finish,
     SetRoot, LeafType

\* Whatever the order in which the threads pass through the critical section, each
\* has a leaf of the root of its own whenever the program is outside of the region,
\* on any machine.
THEOREM OneLeafEachCorrect == Spec => []OneLeafEach
<1>1. Init => LeafTypes
  BY DEF Init, RootInit, LeafTypes
<1>2. Spec => [](BindInv /\ LeafTypes)
  BY <1>1, InitBind, StepBind, StepLeafType, PTL DEF Spec
<1>3. Spec => [](TypeInv /\ ControlInv)
  BY InitType, StepType, PTL DEF Spec
<1>4. BindInv /\ LeafTypes /\ TypeInv => OneLeafEach
  <2>1. TypeInv /\ LeafTypes => LeavesApart(machine, root, leaf_type)
    BY MachinesAssumption, LeavesAreApart DEF TypeInv, LeafTypes
  <2> QED
    BY <2>1, BoundApart
<1> QED
  BY <1>2, <1>3, <1>4, PTL
=============================================================================
