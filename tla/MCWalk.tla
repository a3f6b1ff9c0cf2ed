------------------------------- MODULE MCWalk -------------------------------
(* Small instances of Walk: the machines, as rows of a type, a parent and  *)
(* a size, and the options.                                                *)
EXTENDS Walk

Machine(rows, hbm) ==
  [type |-> [i \in 1 .. Len(rows) |-> rows[i][1]],
   parent |-> [i \in 1 .. Len(rows) |-> rows[i][2]],
   size |-> [i \in 1 .. Len(rows) |-> rows[i][3]],
   hbm |-> hbm]

\* One node for all, two cores of two PUs that share a cache.
Desktop == Machine(
  << <<"MACHINE", 0, 0>>, <<"NUMANODE", 1, 9000>>, <<"L3", 1, 80>>,
     <<"L2", 3, 16>>, <<"L1", 4, 4>>, <<"CORE", 5, 0>>, <<"PU", 6, 0>>, <<"PU", 6, 0>>,
     <<"L2", 3, 16>>, <<"L1", 9, 4>>, <<"CORE", 10, 0>>, <<"PU", 11, 0>>,
     <<"PU", 11, 0>> >>, {})

\* Two packages with a node each, no second level.
TwoSockets == Machine(
  << <<"MACHINE", 0, 0>>,
     <<"PACKAGE", 1, 0>>, <<"NUMANODE", 2, 3000>>, <<"L3", 2, 40>>,
     <<"L1", 4, 4>>, <<"CORE", 5, 0>>, <<"PU", 6, 0>>,
     <<"L1", 4, 4>>, <<"CORE", 8, 0>>, <<"PU", 9, 0>>,
     <<"PACKAGE", 1, 0>>, <<"NUMANODE", 11, 3000>>, <<"L3", 11, 40>>,
     <<"L1", 13, 4>>, <<"CORE", 14, 0>>, <<"PU", 15, 0>>,
     <<"L1", 13, 4>>, <<"CORE", 17, 0>>, <<"PU", 18, 0>> >>, {})

\* One cache over two clusters with a node each.
Clusters == Machine(
  << <<"MACHINE", 0, 0>>, <<"PACKAGE", 1, 0>>, <<"L3", 2, 40>>,
     <<"GROUP", 3, 0>>, <<"NUMANODE", 4, 600>>,
     <<"L1", 4, 4>>, <<"CORE", 6, 0>>, <<"PU", 7, 0>>,
     <<"GROUP", 3, 0>>, <<"NUMANODE", 9, 600>>,
     <<"L1", 9, 4>>, <<"CORE", 11, 0>>, <<"PU", 12, 0>> >>, {})

\* Two clusters with two kinds of memory, no third level.
TwoMemories == Machine(
  << <<"MACHINE", 0, 0>>,
     <<"GROUP", 1, 0>>, <<"NUMANODE", 2, 900>>, <<"NUMANODE", 2, 300>>,
     <<"L2", 2, 16>>, <<"L1", 5, 4>>, <<"CORE", 6, 0>>, <<"PU", 7, 0>>,
     <<"L1", 5, 4>>, <<"CORE", 9, 0>>, <<"PU", 10, 0>>,
     <<"GROUP", 1, 0>>, <<"NUMANODE", 12, 900>>, <<"NUMANODE", 12, 300>>,
     <<"L2", 12, 16>>, <<"L1", 15, 4>>, <<"CORE", 16, 0>>, <<"PU", 17, 0>> >>,
  {4, 14})

\* A node for each cache of the last level.
NodePerCache == Machine(
  << <<"MACHINE", 0, 0>>, <<"PACKAGE", 1, 0>>,
     <<"L3", 2, 40>>, <<"NUMANODE", 3, 900>>,
     <<"L1", 3, 4>>, <<"CORE", 5, 0>>, <<"PU", 6, 0>>,
     <<"L3", 2, 40>>, <<"NUMANODE", 8, 900>>,
     <<"L1", 8, 4>>, <<"CORE", 10, 0>>, <<"PU", 11, 0>> >>, {})

\* A node for each cluster, and one for the package, which comes last.
TwoLevels == Machine(
  << <<"MACHINE", 0, 0>>, <<"PACKAGE", 1, 0>>,
     <<"GROUP", 2, 0>>, <<"NUMANODE", 3, 600>>,
     <<"L2", 3, 8>>, <<"L1", 5, 4>>, <<"CORE", 6, 0>>, <<"PU", 7, 0>>,
     <<"GROUP", 2, 0>>, <<"NUMANODE", 9, 600>>,
     <<"L2", 9, 8>>, <<"L1", 11, 4>>, <<"CORE", 12, 0>>, <<"PU", 13, 0>>,
     <<"NUMANODE", 2, 5000>> >>, {})

\* The same under a cache that the package node is not a part of.
CacheBetween == Machine(
  << <<"MACHINE", 0, 0>>, <<"PACKAGE", 1, 0>>, <<"L3", 2, 40>>,
     <<"GROUP", 3, 0>>, <<"NUMANODE", 4, 600>>,
     <<"L1", 4, 4>>, <<"CORE", 6, 0>>, <<"PU", 7, 0>>,
     <<"GROUP", 3, 0>>, <<"NUMANODE", 9, 600>>,
     <<"L1", 9, 4>>, <<"CORE", 11, 0>>, <<"PU", 12, 0>>,
     <<"NUMANODE", 2, 5000>> >>, {})

FiveMachines == {Desktop, TwoSockets, Clusters, TwoMemories, TwoLevels}
OddMachines == {NodePerCache, CacheBetween}
ClusterMachine == {Clusters}

\* What the theorems ask of a machine holds of these.
ASSUME FiveMachinesAssumption ==
  \A m \in FiveMachines :
    /\ CachesOutermost(m) /\ NodesGrow(m) /\ AllOnTheWay(m)
    /\ SharesOrdered(m) /\ GroupsLarge(m)

Name(type, index) == [type |-> type, index |-> index]

SomeArguments ==
  {[name |-> n] : n \in {"help", "validate", "ht", "CARM", "matrix", "unknown"}}
  \union {[name |-> "oi", value |-> v] : v \in {3, 6, 25}}
  \union {[name |-> "type", value |-> v] :
            v \in {{"LOAD"}, {"FMA", "STORE_NT"}, {"nothing"}}}
  \union {[name |-> "memory", value |-> v] :
            v \in {<<Name("NUMANODE", 1), Name("CORE", 0), Name("L1", 1)>>,
                   <<Name("L2", 7)>>}}
  \union {[name |-> "src", value |-> v] :
            v \in {Name("PU", 1), Name("GROUP", 1), Name("L2", 9)}}

Policies ==
  {[name |-> "policy", value |-> v] : v \in {"firsttouch", "interleave"}}

AllTypes == Types
=============================================================================
