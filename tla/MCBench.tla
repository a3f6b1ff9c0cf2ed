------------------------------ MODULE MCBench ------------------------------
(* Small instances of Bench: the calls, the sizes and the bindings.        *)
EXTENDS BenchImpl

FpeakThenMemory == <<"fpeak", "memory">>

\* Under the bound, kept, equal to the one before, kept.
FourSizes == <<1, 4, 4, 6>>

\* A thread that is not located, one under group 0, the others under group 1.
TwoGroups ==
  [t \in Thread |-> CASE t = 0 -> Elsewhere [] t = 1 -> 0 [] OTHER -> 1]
=============================================================================
