---------------------------- MODULE MCSampling ----------------------------
(* Small instances of Sampling: the machines, the masks and the calls.     *)
EXTENDS Sampling

\* Two PUs under one node (reduction on the machine), or each under its own.
OneNode == [p \in PU |-> 0]
TwoNodes == [p \in PU |-> p]

\* Masks: each thread bound to a PU of its own; all free to run anywhere; two
\* threads bound to one PU; only the first thread free to move.
Pinned == [t \in Thread |-> {t}]
Free == [t \in Thread |-> PU]
Shared == [t \in Thread |-> IF t = 0 THEN PU ELSE {1}]
MasterMoves == [t \in Thread |-> IF t = 0 THEN PU ELSE {t}]

Even == {[bytes |-> 4, flops |-> 2], [bytes |-> 8, flops |-> 6]}
OneKernel == {[bytes |-> 4, flops |-> 2]}
=============================================================================
