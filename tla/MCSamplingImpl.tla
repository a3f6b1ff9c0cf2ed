-------------------------- MODULE MCSamplingImpl --------------------------
(* An instance of SamplingImpl in which no two threads share a PU.         *)
EXTENDS SamplingImpl

\* PUs 0 and 1 under node 0, PU 2 under node 1: the second thread may move
\* between PUs of two nodes, the first one is bound.
TwoAndOne == [p \in PU |-> IF p = 2 THEN 1 ELSE 0]
OwnPUs == [t \in Thread |-> IF t = 0 THEN {0} ELSE {1, 2}]

\* One that the team divides, and one with a remainder of both.
EvenAndOdd == {[bytes |-> 4, flops |-> 2], [bytes |-> 7, flops |-> 5]}
=============================================================================
