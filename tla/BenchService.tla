---------------------------- MODULE BenchService ----------------------------
(***************************************************************************)
(* What a run of the benchmark prints: for each round of each call, in     *)
(* order, each round once, a line per memory group that holds threads,     *)
(* with the number of threads in the group and what they all did with one  *)
(* and the same repeat.                                                    *)
(***************************************************************************)
EXTENDS Integers, Sequences

CONSTANTS
  Group,
  Members,   \* the number of threads of each group
  Plan,      \* the rounds: what one thread does in a round with a single repeat
  Repeat     \* the repeats calibration can choose

VARIABLE lines

Init == lines = <<>>

Line(g, r) ==
  [n |-> Members[g], work |-> Members[g] * Plan[Len(lines) + 1] * r]

Measure ==
  /\ Len(lines) < Len(Plan)
  /\ \E r \in Repeat : lines' = Append(lines, [g \in Group |-> Line(g, r)])

Spec == Init /\ [][Measure]_lines
=============================================================================
