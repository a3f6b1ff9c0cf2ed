----------------------------- MODULE BenchImpl -----------------------------
(***************************************************************************)
(* The benchmark implements BenchService: calibration, barriers, single    *)
(* and critical sections amount to one measure after the other.            *)
(***************************************************************************)
EXTENDS Bench

\* The rounds to measure, a call and a size that is kept, in their order.
KeptRounds ==
  {p \in (1 .. Len(Calls)) \X (1 .. Len(Sizes)) : ~ Skipped(Calls[p[1]], p[2])}

Before(p, q) == p[1] < q[1] \/ (p[1] = q[1] /\ p[2] < q[2])

Rank(p) == Cardinality({q \in KeptRounds : Before(q, p)}) + 1

Ranked(k) == CHOOSE p \in KeptRounds : Rank(p) = k

Rounds ==
  [k \in 1 .. Cardinality(KeptRounds) |->
     WorkOf(Calls[Ranked(k)[1]], Ranked(k)[2], 1)]

\* No odd number but 1 divides a power of two.
PowerOfTwo(r) == \A d \in 2 .. r : r % d = 0 => d % 2 = 0

Service ==
  INSTANCE BenchService
    WITH lines <- log,
         Plan <- Rounds,
         Members <- [g \in Group |-> Cardinality({t \in Thread : GroupOf(t) = g})],
         Repeat <- {r \in 1 .. 2 * LongEnough - 1 : PowerOfTwo(r)}

\* Each size within the bounds is measured and printed once, in order, with the
\* results of all the threads of a group, each counted once and none of another
\* round (roofline.c:149 and 266, output.c:133).
ImplementsService == Service!Spec

\* When the calls are over no round was lost: all the sizes that are not skipped
\* were printed, for each call.
AllPrinted == Done => Len(log) = Cardinality(KeptRounds)
=============================================================================
