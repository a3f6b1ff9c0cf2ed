------------------------------ MODULE SetRoot ------------------------------
(***************************************************************************)
(* How roofline_set_root() gives each thread of a team a leaf of its own:  *)
(* a parallel region in which the threads pass one at a time through a     *)
(* critical section, because the number of the thread is in a variable     *)
(* that they share.                                                        *)
(***************************************************************************)
EXTENDS Topology

VARIABLES
  machine,    \* the topology that was loaded
  root,       \* the object whose leaves the threads are bound to
  leaf_type,
  tid,        \* shared by the threads of the region
  pool,       \* where each thread of the team runs; NULL is anywhere
  unbound,    \* the threads that are not through the region
  critical    \* those in the critical section

rootVars == <<leaf_type, tid, pool, unbound, critical>>

\* The PUs of the threads under a root.
Team(m, obj, type) == {CpuBind(m, leaf) : leaf \in Inside(m, obj, type)}

Threads(m, obj, type) == 0 .. Cardinality(Inside(m, obj, type)) - 1

\* hwloc_get_obj_inside_cpuset_by_type
Leaf(m, obj, type, n) ==
  LET leaves == Inside(m, obj, type)
  IN  CHOOSE o \in leaves : Cardinality({p \in leaves : p < o}) = n

\* What the threads rely on in a tree: leaves with different numbers do not
\* start with the same PU, and no leaf is without a number.
LeavesApart(m, obj, type) ==
  LET Of(n) == CpuBind(m, Leaf(m, obj, type, n))
      numbers == Threads(m, obj, type)
  IN  /\ \A n, o \in numbers : n # o => Of(n) # Of(o)
      /\ {Of(n) : n \in numbers} = Team(m, obj, type)

RootInit ==
  /\ root = NULL /\ leaf_type = "CORE"
  /\ tid = 0 /\ pool = [t \in {0} |-> NULL]
  /\ unbound = {} /\ critical = {}

\* The call: one thread for each leaf.  Threads that were in the last team keep
\* their binding until they get another.
SetRoot(obj, type) ==
  LET threads == Threads(machine, obj, type)
  IN  /\ root' = obj /\ leaf_type' = type /\ tid' = 0
      /\ pool' = [t \in threads |-> IF t \in DOMAIN pool THEN pool[t] ELSE NULL]
      /\ unbound' = threads
      /\ UNCHANGED critical

\* Mutant: the critical section is missing.
TakeNumberAnyway(t) ==
  /\ t \in unbound \ critical
  /\ critical' = critical \union {t}
  /\ tid' = t
  /\ UNCHANGED <<machine, root, leaf_type, pool, unbound>>

TakeNumber(t) ==
  /\ t \in unbound /\ critical = {}
  /\ critical' = {t}
  /\ tid' = t
  /\ UNCHANGED <<machine, root, leaf_type, pool, unbound>>

Bind(t) ==
  /\ t \in critical
  /\ pool' = [pool EXCEPT ![t] = CpuBind(machine, Leaf(machine, root, leaf_type, tid))]
  /\ critical' = critical \ {t}
  /\ unbound' = unbound \ {t}
  /\ UNCHANGED <<machine, root, leaf_type, tid>>

\* The region ends when all the threads are through.
Rooted == unbound = {}

-----------------------------------------------------------------------------
\* Peaks add up the threads, so each must have a leaf that no other has, and
\* the leaves are those of the root the result is printed for; the threads of
\* an earlier root have moved.
OneLeafEach ==
  Rooted /\ root # NULL =>
    /\ \A t, u \in DOMAIN pool : t # u => pool[t] # pool[u]
    /\ {pool[t] : t \in DOMAIN pool} = Team(machine, root, leaf_type)
=============================================================================
