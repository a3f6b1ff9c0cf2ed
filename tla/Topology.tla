------------------------------ MODULE Topology ------------------------------
(***************************************************************************)
(* What topology.c computes on the tree of a machine: the memories one     *)
(* after the other, the memory below another, the groups a memory is       *)
(* attached to, the sizes to measure, and where data is put.               *)
(*                                                                         *)
(* The tree is hwloc's (2.x) and a value: the objects are 1 .. n, parents  *)
(* before children, and m.type, m.parent and m.size give the type, the     *)
(* parent and the size of each.  A NUMA node is a memory child of its      *)
(* parent: it is not in the chain of first children, and its depth is a    *)
(* negative number of its own.                                             *)
(***************************************************************************)
EXTENDS Integers, Sequences, FiniteSets

CONSTANTS
  GB,            \* the size above which an upper bound is reduced
  FourChunks,    \* four chunks of a kernel, the lower bound of L1
  Unreturned     \* what a call that ends without return gives its caller

\* At -O0 (the Makefile gives no -O) the register of the result still holds
\* the next cousin; at -O1 gcc leaves the argument there.
ASSUME UnreturnedAssumption == Unreturned \subseteq {"cousin", "argument"}
ASSUME SizeAssumption == GB \in Nat \ {0} /\ FourChunks \in Nat

NULL == 0

NumaDepth == -3

Caches == {"L1", "L2", "L3", "L4", "L5"}

-----------------------------------------------------------------------------
(***************************************************************************)
(* hwloc                                                                   *)
(***************************************************************************)
Objects(m) == DOMAIN m.type

\* The first of some objects, which are numbered in logical order.
First(s) == IF s = {} THEN NULL ELSE CHOOSE o \in s : \A p \in s : o <= p

OfType(m, type) == {o \in Objects(m) : m.type[o] = type}

\* The first object that passes a test on a chain of links.
Follow(link, o, Test(_)) ==
  LET from[p \in {NULL} \union DOMAIN link] ==
        IF p = NULL \/ Test(p) THEN p ELSE from[link[p]]
  IN  from[o]

Above(m, o) ==
  LET above[p \in {NULL} \union Objects(m)] ==
        IF p = NULL THEN {} ELSE {p} \union above[m.parent[p]]
  IN  above[o]

Depth(m, o) ==
  IF m.type[o] = "NUMANODE" THEN NumaDepth ELSE Cardinality(Above(m, o)) - 1

ChildrenOf(m, o) == {c \in Objects(m) : m.parent[c] = o}

FirstChild(m) ==
  [o \in Objects(m) |-> First(ChildrenOf(m, o) \ OfType(m, "NUMANODE"))]

MemoryFirstChild(m) ==
  [o \in Objects(m) |-> First(ChildrenOf(m, o) \intersect OfType(m, "NUMANODE"))]

NextCousin(m) ==
  [o \in Objects(m) |->
     First({c \in Objects(m) : c > o /\ Depth(m, c) = Depth(m, o)})]

LogicalIndex(m, o) ==
  Cardinality({c \in Objects(m) : c < o /\ Depth(m, c) = Depth(m, o)})

Cpuset(m, o) ==
  LET of == IF m.type[o] = "NUMANODE" THEN m.parent[o] ELSE o
  IN  {c \in OfType(m, "PU") : of \in Above(m, c)}

Inside(m, o, type) ==
  {c \in OfType(m, type) : Cpuset(m, c) \subseteq Cpuset(m, o)}

\* The nodes local to an object, or of which it is a part.
Nodeset(m, o) ==
  IF m.type[o] = "NUMANODE" THEN {o}
  ELSE {n \in OfType(m, "NUMANODE") : Cpuset(m, n) \intersect Cpuset(m, o) # {}}

\* hwloc_get_first_largest_obj_inside_cpuset
Largest(m, cpus) ==
  First({o \in Objects(m) \ OfType(m, "NUMANODE") : Cpuset(m, o) \subseteq cpus})

-----------------------------------------------------------------------------
(***************************************************************************)
(* Memories and groups                                                     *)
(***************************************************************************)
IsCache(m, o) == m.type[o] \in Caches

IsMemory(m, o) == IsCache(m, o) \/ m.type[o] = "NUMANODE"

\* The first object above core 0 that has memory.
FirstMemoryGroup(m) ==
  Follow(m.parent, First(OfType(m, "CORE")),
         LAMBDA o : MemoryFirstChild(m)[o] # NULL)

GroupDepth(m) ==
  IF FirstMemoryGroup(m) = NULL THEN 0 ELSE Depth(m, FirstMemoryGroup(m))

NMemoryGroup(m) ==
  IF FirstMemoryGroup(m) = NULL THEN 0
  ELSE Cardinality(OfType(m, m.type[FirstMemoryGroup(m)]))

LLC(m) ==
  Follow(FirstChild(m), First(OfType(m, "MACHINE")), LAMBDA o : IsCache(m, o))

Overlap(m, o, p) ==
  \/ Cpuset(m, o) \subseteq Cpuset(m, p)
  \/ Cpuset(m, p) \subseteq Cpuset(m, o)

UnderMemory(m, o) ==
  CASE MemoryFirstChild(m)[o] # NULL -> MemoryFirstChild(m)[o]
    [] m.type[o] = "NUMANODE" ->
         Follow(NextCousin(m), LLC(m), LAMBDA c : Overlap(m, c, m.parent[o]))
    [] OTHER -> Follow(FirstChild(m), FirstChild(m)[o], LAMBDA c : IsMemory(m, c))

\* Without a look at the nodes on the way.
MemoryAboveCaches(m, o) == Follow(m.parent, m.parent[o], LAMBDA p : IsMemory(m, p))

\* Upwards from a cache: the next cache, or the first node on the way.
MemoryAbove(m, o) ==
  LET found == Follow(m.parent, m.parent[o],
                 LAMBDA p : IsMemory(m, p) \/ MemoryFirstChild(m)[p] # NULL)
  IN  IF found = NULL \/ IsMemory(m, found) THEN found
      ELSE MemoryFirstChild(m)[found]

\* Down instead of up.
CacheAboveDown(m, o) ==
  Follow(FirstChild(m), m.parent[o], LAMBDA p : IsMemory(m, p))

\* Upwards from the last node.
CacheAbove(m, o) == Follow(m.parent, m.parent[o], LAMBDA p : IsMemory(m, p))

\* Nodes without their cousins.
NextMemoryStuck(m, o) ==
  IF o = NULL THEN {First(OfType(m, "L1"))}
  ELSE IF m.type[o] # "NUMANODE" THEN {MemoryAbove(m, o)} ELSE {o}

\* The results the next memory may have.  With a next cousin it is computed,
\* then not returned.
NextMemory(m, o) ==
  IF o = NULL \/ (m.type[o] # "NUMANODE"
                  /\ Depth(m, o) > Depth(m, First(OfType(m, "L1"))))
  THEN {First(OfType(m, "L1"))}
  ELSE IF m.type[o] # "NUMANODE" THEN {MemoryAbove(m, o)}
  ELSE IF NextCousin(m)[o] = NULL THEN {CacheAbove(m, o)}
  ELSE {IF u = "cousin" THEN NextCousin(m)[o] ELSE o : u \in Unreturned}

-----------------------------------------------------------------------------
(***************************************************************************)
(* Sizes to measure, for one thread                                        *)
(***************************************************************************)
\* Without the lower bound.
ReducedAlways(lower, upper) ==
  LET down[u \in 0 .. upper] == IF u > GB THEN down[u \div 2] ELSE u
  IN  down[upper]

\* Halved while it is above 1GB and stays above the lower bound.
Reduced(lower, upper) ==
  LET down[u \in 0 .. upper] ==
        IF u > GB /\ u > 2 * lower THEN down[u \div 2] ELSE u
  IN  down[upper]

\* Shares of the memories of one level between the cores above it.
Shares(m, memory) ==
  LET under == UnderMemory(m, memory)
      cores == Cardinality(Inside(m, memory, "CORE"))
      all   == Cardinality(OfType(m, "CORE"))
      lower == CASE under = NULL -> FourChunks
                 [] IsCache(m, memory) ->
                      (Cardinality(Inside(m, memory, m.type[under])) * m.size[under])
                      \div cores
                 [] OTHER ->
                      (Cardinality(OfType(m, m.type[LLC(m)])) * m.size[LLC(m)])
                      \div all
      upper == CASE under = NULL -> m.size[memory]
                 [] IsCache(m, memory) -> m.size[memory] \div cores
                 [] OTHER -> m.size[memory] \div all
  IN  [lower |-> lower, upper |-> upper]

Bounds(m, memory) ==
  LET s == Shares(m, memory)
  IN  [lower |-> s.lower, upper |-> Reduced(s.lower, s.upper)]

-----------------------------------------------------------------------------
(***************************************************************************)
(* Binding                                                                 *)
(***************************************************************************)
\* roofline_hwloc_cpubind: the first PU of an object.
CpuBind(m, o) == First(Cpuset(m, o))

Location(m, pu) == Largest(m, {pu})

LocalDomain(m, pu) ==
  Follow(m.parent, Location(m, pu), LAMBDA o : Depth(m, o) <= GroupDepth(m))

\* What a policy takes of the nodes of a target that has several.
PolicyNodes(m, target, pu, policy) ==
  LET near == Nodeset(m, LocalDomain(m, pu))
      Of(nodes, hbm) == {n \in nodes : (n \in m.hbm) = hbm}
  IN  CASE policy = "firsttouch" -> {First(near)}
        [] policy = "interleave" -> Nodeset(m, target)
        [] policy = "firsttouch_HBM" ->
             IF Of(near, TRUE) = {} THEN near ELSE {First(Of(near, TRUE))}
        [] policy = "interleave_DDR" -> Of(Nodeset(m, target), FALSE)
        [] policy = "interleave_HBM" -> Of(Nodeset(m, target), TRUE)

\* Where the pages of a buffer go.
AreaNodes(m, target, pu, policy) ==
  CASE Depth(m, target) < NumaDepth -> PolicyNodes(m, target, pu, policy)
    [] Depth(m, target) > NumaDepth -> Nodeset(m, LocalDomain(m, pu))
    [] OTHER -> {target}

-----------------------------------------------------------------------------
(***************************************************************************)
(* The group a result goes to                                              *)
(***************************************************************************)
\* The index at the level of the location, without the climb.
ResultGroupFlat(m, location) ==
  LogicalIndex(m, IF location = NULL THEN FirstMemoryGroup(m) ELSE location)

ResultGroup(m, location) ==
  LET group ==
        CASE location = NULL -> FirstMemoryGroup(m)
          [] m.type[location] # "NUMANODE" /\ Depth(m, location) >= GroupDepth(m) ->
               Follow(m.parent, location, LAMBDA o : Depth(m, o) <= GroupDepth(m))
          [] OTHER -> FirstMemoryGroup(m)
  IN  LogicalIndex(m, group)

\* How many results are printed: the objects of the type above node 0.
NPrinted(m) ==
  Cardinality(OfType(m, m.type[m.parent[First(OfType(m, "NUMANODE"))]]))
=============================================================================
