-------------------------------- MODULE Walk --------------------------------
(***************************************************************************)
(* The main program (main.c): the options, the set up of the library, and  *)
(* the order in which the memories of the machine are benchmarked: one     *)
(* after the other, those the user names, or every node from every         *)
(* cluster.  A benchmark is one step here; Bench has its inside.           *)
(***************************************************************************)
EXTENDS SetRoot

CONSTANTS
  Machines,    \* the topologies the program may find
  Arguments,   \* the options the user may give
  MaxOptions,  \* bound: how many of them
  Supported    \* benchmark_types_supported(), with LATENCY_LOAD

ASSUME OptionsAssumption == MaxOptions \in Nat

\* What argp hands over: a name, and a value of the type of the option.
ASSUME ArgumentsAssumption ==
  \A a \in Arguments :
    \/ a.name \in {"help", "unknown", "validate", "ht", "CARM", "matrix"}
    \/ a.name = "oi" /\ a.value \in Int
    \/ a.name = "policy" /\ a.value \in STRING
    \/ a.name = "type" /\ a.value \subseteq STRING
    \/ a.name = "src" /\ a.value \in [type : STRING, index : Nat]
    \/ a.name = "memory" /\ a.value \in Seq([type : STRING, index : Nat])

\* What hwloc guarantees of a tree, and what lib_init requires of it.  The
\* levels are of one type each, and a type is found at one level.
WellFormed(m) ==
  /\ m.type \in Seq(STRING)
  /\ {m.parent, m.size} \subseteq [Objects(m) -> Nat]
  /\ \A o \in Objects(m) : m.parent[o] < o /\ Cpuset(m, o) # {}
  /\ \A o \in OfType(m, "NUMANODE") : ChildrenOf(m, o) = {}
  /\ OfType(m, "MACHINE") = {1}
  /\ \A o, p \in Objects(m) :
       (m.type[o] = m.type[p]) <=> (Depth(m, o) = Depth(m, p))
  /\ \A type \in {"NUMANODE", "L1", "CORE", "PU"} : OfType(m, type) # {}
  /\ \A o \in Objects(m), p \in OfType(m, "L1") :
       IsCache(m, o) => Depth(m, o) <= Depth(m, p)
  /\ m.hbm \subseteq OfType(m, "NUMANODE")

ASSUME MachinesAssumption == \A m \in Machines : WellFormed(m)

VARIABLES
  opt,       \* the options, static variables of main.c
  given,     \* how many options were parsed
  pc,        \* "args", "bind", "flops", "matrix", "cluster", "list", "walk", or
             \* the end
  resume,    \* where to go on when the threads are bound
  memory,    \* the last memory, or NULL
  cluster,   \* the cluster of the matrix
  items,     \* the memories left of those the user named
  log        \* the benchmarks, in order

mainVars == <<opt, given, pc, resume, memory, cluster, items, log>>
vars == <<machine, root, rootVars, mainVars>>

-----------------------------------------------------------------------------
(***************************************************************************)
(* Types of operations                                                     *)
(***************************************************************************)
FlopTypes == {"ADD", "MUL", "MAD", "FMA"}
CacheTypes == {"LOAD", "STORE", "2LD1ST", "LATENCY_LOAD"}
StreamTypes == {"LOAD_NT", "STORE_NT"}
Types == FlopTypes \union CacheTypes \union StreamTypes

\* An unknown name gives -1, every bit of a set of types.
TypeFromStr(name) == IF name \in Types THEN {name} ELSE Types

DefaultTypes(m, o) ==
  Supported \intersect
    CASE m.type[o] = "L1" -> {"LOAD", "STORE", "2LD1ST"}
      [] m.type[o] \in Caches \ {"L1"} -> {"LOAD", "STORE"}
      [] m.type[o] \in {"NUMANODE", "MACHINE"} -> {"STORE_NT", "STORE", "LOAD"}
      [] m.type[o] \in {"PU", "CORE"} -> FlopTypes
      [] OTHER -> {}

FilterTypes(m, o, types) ==
  types \intersect Supported \intersect
    CASE IsCache(m, o) -> CacheTypes
      [] Depth(m, o) <= NumaDepth -> CacheTypes \union StreamTypes
      [] m.type[o] \in {"PU", "CORE"} -> FlopTypes
      [] OTHER -> {}

\* The types for an object: its defaults when the user asked for none.
TypesFor(m, o) ==
  IF opt.types = {} THEN DefaultTypes(m, o) ELSE FilterTypes(m, o, opt.types)

Core(m) == First(OfType(m, "CORE"))

-----------------------------------------------------------------------------
(***************************************************************************)
(* Options.  An object is named by its type and index.  An operational     *)
(* intensity is in tenths; -1 asks for all of them.                        *)
(***************************************************************************)
Options0 ==
  [types |-> {}, oi |-> 0, mem |-> <<>>, restrict |-> FALSE, matrix |-> FALSE,
   src |-> [type |-> "NUMANODE", index |-> 0], ht |-> FALSE,
   policy |-> "firsttouch"]

\* What one option changes.
Apply(o, a) ==
  CASE a.name = "validate" -> [o EXCEPT !.oi = -1]
    [] a.name = "oi"       -> [o EXCEPT !.oi = a.value]
    [] a.name = "type"     ->
         [o EXCEPT !.types = @ \union UNION {TypeFromStr(n) : n \in a.value}]
    [] a.name = "ht"       -> [o EXCEPT !.ht = TRUE]
    [] a.name = "memory"   -> [o EXCEPT !.mem = a.value, !.restrict = TRUE]
    [] a.name = "src"      -> [o EXCEPT !.src = a.value]
    [] a.name = "CARM"     -> [o EXCEPT !.ht = FALSE, !.types = {"MAD", "2LD1ST"},
                                        !.src = [type |-> "MACHINE", index |-> 0]]
    [] a.name = "matrix"   -> [o EXCEPT !.matrix = TRUE]
    [] a.name = "policy"   -> [o EXCEPT !.policy = a.value]

ParseObj(m, name) ==
  First({o \in OfType(m, name.type) : LogicalIndex(m, o) = name.index})

\* Names of objects that are no memory are kept.
ParseMemoriesAll(m, names) ==
  LET objs == [i \in 1 .. Len(names) |-> ParseObj(m, names[i])]
      parsed[i \in 0 .. Len(names)] ==
        IF i = 0 THEN <<>>
        ELSE parsed[i - 1] \o (IF objs[i] # NULL THEN <<objs[i]>> ELSE <<>>)
  IN  parsed[Len(names)]

\* Names of no object, and of objects that are no memory, are dropped.
ParseMemories(m, names) ==
  LET objs == [i \in 1 .. Len(names) |-> ParseObj(m, names[i])]
      parsed[i \in 0 .. Len(names)] ==
        IF i = 0 THEN <<>>
        ELSE parsed[i - 1]
             \o (IF objs[i] # NULL /\ IsMemory(m, objs[i]) THEN <<objs[i]>> ELSE <<>>)
  IN  parsed[Len(names)]

\* An object that has children, from where threads are taken.
ParseRoot(m, name) ==
  Follow(m.parent, ParseObj(m, name), LAMBDA o : FirstChild(m)[o] # NULL)

LeafType == IF opt.ht THEN "PU" ELSE "CORE"

-----------------------------------------------------------------------------
(***************************************************************************)
(* One call of bench_memory                                                *)
(***************************************************************************)
\* roofline_bandwidth, with the peaks of roofline_flops.
Bandwidth(m, mem) ==
  IF opt.oi <= 0 THEN FilterTypes(m, mem, TypesFor(m, mem)) ELSE {}

Flops == FilterTypes(machine, Core(machine), TypesFor(machine, Core(machine)))

Round(num, den) == (2 * num + den) \div (2 * den)

\* Mutant: the flops are truncated, as the bytes are.
OiPointsTruncated ==
  CASE opt.oi = 0 -> {}
    [] opt.oi < 0 -> {[flops |-> 1, bytes |-> 2 * b] : b \in 1 .. 16}
                     \union {[flops |-> f, bytes |-> 1] : f \in 1 .. 13}
    [] opt.oi > 0 ->
         LET bytes == IF opt.oi < 10 THEN 10 \div opt.oi ELSE 64
         IN  {[flops |-> (bytes * opt.oi) \div 10, bytes |-> bytes]}

\* The flops and bytes of the kernels that reach an intensity.
OiPoints ==
  CASE opt.oi = 0 -> {}
    [] opt.oi < 0 -> {[flops |-> 1, bytes |-> 2 * b] : b \in 1 .. 16}
                     \union {[flops |-> f, bytes |-> 1] : f \in 1 .. 13}
    [] opt.oi > 0 ->
         LET bytes == IF opt.oi < 10 THEN 10 \div opt.oi ELSE 64
         IN  {[flops |-> Round(bytes * opt.oi, 10), bytes |-> bytes]}

\* roofline_oi: the first unit there is, for each operation of the memory.
FlopOrder == <<"FMA", "MAD", "MUL", "ADD">>

Kernels(m, mem) ==
  LET asked == TypesFor(m, mem) \union TypesFor(m, Core(m))
      unit == First({k \in DOMAIN FlopOrder :
                       FlopOrder[k] \in FilterTypes(m, Core(m), asked)})
  IN  IF unit = NULL THEN {}
      ELSE {[op |-> op, unit |-> FlopOrder[unit]] :
              op \in FilterTypes(m, mem, asked) \ {"LATENCY_LOAD"}}

Benchmark(r, mem) ==
  IF TypesFor(machine, mem) = {} THEN <<>>
  ELSE << [root |-> r, mem |-> mem, bandwidth |-> Bandwidth(machine, mem),
           points |-> OiPoints,
           kernels |-> IF OiPoints = {} THEN {} ELSE Kernels(machine, mem)] >>

-----------------------------------------------------------------------------
Init ==
  /\ machine \in Machines
  /\ opt = Options0 /\ given = 0 /\ pc = "args"
  /\ RootInit /\ resume = "flops" /\ memory = NULL /\ cluster = NULL
  /\ items = <<>> /\ log = <<>>

\* Help and an unknown option end the program.
ParseOption(a) ==
  /\ pc = "args" /\ given < MaxOptions
  /\ IF a.name \in {"help", "unknown"}
     THEN pc' = "exit" /\ UNCHANGED opt
     ELSE opt' = Apply(opt, a) /\ UNCHANGED pc
  /\ given' = given + 1
  /\ UNCHANGED <<machine, root, rootVars, resume, memory, cluster, items, log>>

\* roofline_lib_init: the root, or the end when it names nothing.
LibInit ==
  LET location == ParseRoot(machine, opt.src)
  IN  /\ pc = "args"
      /\ IF location = NULL THEN pc' = "exit" /\ UNCHANGED <<root, rootVars, resume>>
         ELSE SetRoot(location, LeafType) /\ pc' = "bind" /\ resume' = "flops"
      /\ UNCHANGED <<machine, opt, given, memory, cluster, items, log>>

\* A thread in the region of roofline_set_root.
Region(t) == (TakeNumber(t) \/ Bind(t)) /\ UNCHANGED mainVars

EndRegion ==
  /\ pc = "bind" /\ Rooted
  /\ pc' = resume
  /\ UNCHANGED <<machine, root, rootVars, opt, given, resume, memory, cluster, items, log>>

\* Peaks of the compute units, unless one intensity was asked; then the first
\* memory of the way that was chosen.
BenchFlops ==
  /\ pc = "flops"
  /\ log' = IF opt.oi > 0 THEN log
            ELSE <<[root |-> root, mem |-> NULL, bandwidth |-> Flops,
                    points |-> {}, kernels |-> {}]>>
  /\ items' = ParseMemories(machine, opt.mem)
  /\ \/ /\ opt.matrix
        /\ cluster' = First(OfType(machine, "GROUP"))
        /\ memory' = First(OfType(machine, "NUMANODE"))
        /\ pc' = "matrix"
     \/ /\ ~opt.matrix
        /\ pc' = IF opt.restrict THEN "list" ELSE "walk"
        /\ UNCHANGED <<cluster, memory>>
  /\ UNCHANGED <<machine, root, rootVars, opt, given, resume>>

RootCluster ==
  /\ pc = "matrix" /\ cluster # NULL
  /\ SetRoot(cluster, LeafType)
  /\ pc' = "bind" /\ resume' = "cluster"
  /\ UNCHANGED <<machine, opt, given, memory, cluster, items, log>>

\* The next node with the next cluster.
BenchMatrixDiagonal ==
  LET next == NextCousin(machine)
  IN  /\ pc = "cluster" /\ pc' = "matrix"
      /\ log' = log \o Benchmark(cluster, memory)
      /\ memory' = IF next[memory] = NULL THEN First(OfType(machine, "NUMANODE"))
                   ELSE next[memory]
      /\ cluster' = next[cluster]
      /\ UNCHANGED <<machine, root, rootVars, opt, given, resume, items>>

\* All the nodes from a cluster, then from the next one.
BenchMatrix ==
  LET next == NextCousin(machine)
      last == next[memory] = NULL
  IN  /\ pc = "cluster" /\ pc' = "matrix"
      /\ log' = log \o Benchmark(cluster, memory)
      /\ memory' = IF last THEN First(OfType(machine, "NUMANODE")) ELSE next[memory]
      /\ cluster' = IF last THEN next[cluster] ELSE cluster
      /\ UNCHANGED <<machine, root, rootVars, opt, given, resume, items>>

BenchItem ==
  /\ pc = "list" /\ items # <<>>
  /\ log' = log \o Benchmark(root, Head(items))
  /\ items' = Tail(items)
  /\ UNCHANGED <<machine, root, rootVars, opt, given, pc, resume, memory, cluster>>

BenchNext ==
  /\ pc = "walk"
  /\ memory' \in NextMemory(machine, memory)
  /\ IF memory' = NULL THEN pc' = "done" /\ UNCHANGED log
     ELSE log' = log \o Benchmark(root, memory') /\ UNCHANGED pc
  /\ UNCHANGED <<machine, root, rootVars, opt, given, resume, cluster, items>>

\* A matrix that has no end.
FinishList ==
  /\ pc = "list" /\ items = <<>>
  /\ pc' = "done"
  /\ UNCHANGED <<machine, root, rootVars, opt, given, resume, memory, cluster, items, log>>

Finish ==
  /\ \/ pc = "matrix" /\ cluster = NULL
     \/ pc = "list" /\ items = <<>>
  /\ pc' = "done"
  /\ UNCHANGED <<machine, root, rootVars, opt, given, resume, memory, cluster, items, log>>

\* The program has ended.
Done == pc \in {"done", "exit"} /\ UNCHANGED vars

Next ==
  \/ \E a \in Arguments : ParseOption(a)
  \/ LibInit \/ BenchFlops
  \/ \E t \in DOMAIN pool : Region(t)
  \/ EndRegion \/ RootCluster \/ BenchMatrix \/ BenchItem \/ BenchNext \/ Finish
  \/ Done

Spec == Init /\ [][Next]_vars

\* One thread of control, or the threads of the region, that run.
FairSpec == Spec /\ WF_vars(Next)

-----------------------------------------------------------------------------
(***************************************************************************)
(* Properties                                                              *)
(***************************************************************************)
\* Machines on which the walk is what its loops are written for.  A node is
\* found on the way up from the caches below it, and caches are left for after
\* the last node only where no node is above them.
HasNodesAbove(m, o) ==
  \E p \in Above(m, m.parent[o]) : MemoryFirstChild(m)[p] # NULL

LastNodes(m) == {n \in OfType(m, "NUMANODE") : NextCousin(m)[n] = NULL}

CachesOutermost(m) ==
  \A n \in LastNodes(m) : \A c \in Above(m, n) : IsCache(m, c) => ~HasNodesAbove(m, c)

\* A node that comes later is no smaller part of the machine.
NodesGrow(m) ==
  \A n, o \in OfType(m, "NUMANODE") :
    n < o => ~(Cpuset(m, o) \subseteq Cpuset(m, n) /\ Cpuset(m, o) # Cpuset(m, n))

\* The first nodes there are hang above the first L1, which is above core 0, and
\* on no cache, and the caches above them are those above the last node.
AllOnTheWay(m) ==
  LET one   == First(OfType(m, "L1"))
      group == FirstMemoryGroup(m)
  IN  /\ one \in Above(m, Core(m)) /\ group \in Above(m, one)
      /\ MemoryFirstChild(m)[group] = First(OfType(m, "NUMANODE"))
      /\ \A c \in Objects(m) : IsCache(m, c) =>
           /\ MemoryFirstChild(m)[c] = NULL
           /\ c \in Above(m, Core(m)) => c \in Above(m, one)
           /\ \A n \in LastNodes(m) : c \in Above(m, group) <=> c \in Above(m, n)
           /\ c \in Above(m, group) => ~HasNodesAbove(m, c)

\* The share of a level that a memory stands for is not above its own.
SharesOrdered(m) ==
  \A o \in Objects(m) : IsMemory(m, o) =>
    LET s == Shares(m, o) IN s.upper \in Nat /\ s.lower \in 0 .. s.upper

\* No PU is alone in an object larger than a group, and the nodes of the first
\* group are the first nodes.
GroupsLarge(m) ==
  /\ FirstMemoryGroup(m) # NULL
  /\ m.type[m.parent[First(OfType(m, "NUMANODE"))]] = m.type[FirstMemoryGroup(m)]
  /\ \A pu \in OfType(m, "PU") : Depth(m, Location(m, pu)) >= GroupDepth(m)

\* The benchmarks of memories, which are not the peaks.
Measures == {i \in 1 .. Len(log) : log[i].mem # NULL}

Mode ==
  IF opt.matrix THEN "matrix" ELSE IF opt.restrict THEN "list" ELSE "walk"

TypeOK ==
  /\ machine \in Machines
  /\ opt.types \subseteq Types /\ opt.oi \in Int
  /\ given \in 0 .. MaxOptions
  /\ pc \in {"args", "bind", "flops", "matrix", "cluster", "list", "walk", "done", "exit"}
  /\ \A t \in DOMAIN pool : pool[t] \in {NULL} \union OfType(machine, "PU")
  /\ unbound \subseteq DOMAIN pool /\ Cardinality(critical) <= 1
  /\ {root, memory, cluster} \subseteq {NULL} \union Objects(machine)
  /\ \A i \in 1 .. Len(items) : IsMemory(machine, items[i])
  /\ \A i \in 1 .. Len(log) :
       /\ log[i].root \in Objects(machine)
       /\ log[i].mem \in {NULL} \union Objects(machine)
       /\ log[i].bandwidth \subseteq Types

\* A benchmark of a machine takes hours: no memory is measured twice from the
\* same threads, whatever way topology.c goes from one to the next, unless the
\* user names it twice.
Once ==
  Mode # "list" =>
    \A i, j \in Measures :
      i # j => \/ log[i].root # log[j].root
               \/ log[i].mem # log[j].mem

\* What a run without restriction owes: the nodes, and the caches of core 0.
Owed ==
  OfType(machine, "NUMANODE")
  \union {o \in Above(machine, Core(machine)) : IsCache(machine, o)}

\* "roofline every memory obj": when the walk is over no level of the
\* hierarchy and no node is missing, unless the types asked have no meaning
\* for it.
EveryMemory ==
  (pc = "done" /\ Mode = "walk") =>
    \A o \in Owed : TypesFor(machine, o) # {}
                      => \E i \in Measures : log[i].mem = o

\* The walk climbs: nothing is measured after a memory of which it is a part.
Climbs ==
  Mode = "walk" =>
    \A i, j \in Measures :
      i < j => LET one == Cpuset(machine, log[i].mem)
                   two == Cpuset(machine, log[j].mem)
               IN  ~(two \subseteq one /\ two # one)

\* The matrix is whole when it is over: each node from each cluster.
MatrixWhole ==
  (pc = "done" /\ Mode = "matrix") =>
    \A c \in OfType(machine, "GROUP"), n \in OfType(machine, "NUMANODE") :
      TypesFor(machine, n) # {}
        => \E i \in Measures : log[i].root = c /\ log[i].mem = n

\* A memory that is benchmarked has sizes to measure: the share of the level
\* below does not exceed its own, after the upper bound was reduced too.
\* roofline_linear_sizes() gives none otherwise, and nothing is printed.
BoundsOrdered ==
  \A i \in Measures :
    LET b == Bounds(machine, log[i].mem)
    IN  b.lower <= b.upper

\* "perform roofline validation checking on set operational intensity" (main.c:26):
\* the flops and bytes asked of the kernels are whole (main.c:122-123), neither is
\* zero, which would be no kernel, and their quotient is less than twice what the
\* user set, and not below it but for the half flop that the rounding may take.
OiNear ==
  opt.oi > 0 =>
    \A i \in Measures : \A p \in log[i].points :
      /\ p.flops > 0 /\ p.bytes > 0
      /\ 10 * p.flops < 2 * (p.bytes * opt.oi)
      /\ 2 * (p.bytes * opt.oi) <= 2 * (10 * p.flops) + 10

\* The result of every thread goes to the group the thread runs under, which
\* has a cell in the results (allocated above core 0) and is printed (above
\* node 0): three functions go three ways in the tree and must agree.
ResultsPrinted ==
  root # NULL =>
    \A pu \in Team(machine, root, leaf_type) :
      LET g == ResultGroup(machine, Location(machine, pu))
      IN  /\ g < NMemoryGroup(machine) /\ g < NPrinted(machine)
          /\ \E o \in OfType(machine, machine.type[FirstMemoryGroup(machine)]) :
               LogicalIndex(machine, o) = g /\ pu \in Cpuset(machine, o)

\* Data is where the user asked: the policy holds for a target that scopes
\* several nodes.
PolicyFollowed ==
  \A i \in Measures :
    LET target == log[i].mem
    IN  \A pu \in Team(machine, log[i].root, leaf_type) :
          Cardinality(Nodeset(machine, target)) > 1
            => AreaNodes(machine, target, pu, opt.policy)
                 = PolicyNodes(machine, target, pu, opt.policy)

\* The loops over cousins, clusters and parents come to an end.
Ends == <>(pc \in {"done", "exit"})
=============================================================================
