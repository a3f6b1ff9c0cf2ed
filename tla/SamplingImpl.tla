---------------------------- MODULE SamplingImpl ----------------------------
(***************************************************************************)
(* The library implements SamplingService when no two threads of a team    *)
(* share a PU and thread 0 of a forced call stays where it is: the         *)
(* counters, the stamps, the shared samples and the two barriers amount to *)
(* one atomic publication per measure.                                     *)
(***************************************************************************)
EXTENDS Sampling

Unprinted == \E t \in Thread : pc[t] = "report"

\* The timer of a PU is what the abstraction sees: a thread counts from the
\* stamp of start to the moment stop reads its clock.
PhaseOf(t) ==
  CASE pc[t] \in {"join", "open", "relook", "time"} -> "counting"
    [] pc[t] \in {"dec", "estamp", "bar1", "report"} -> "stopped"
    [] pc[t] = "bar2" /\ Unprinted -> "stopped"
    [] pc[t] = "reset" \/ (pc[t] = "bar2" /\ ~ Unprinted) -> "done"
    [] OTHER -> "idle"

PlaceOf(t) == IF PhaseOf(t) = "idle" THEN NoSample ELSE Owner(t)

JobOf(t) == IF PhaseOf(t) = "idle" THEN NoKernel ELSE Share(t)

\* Ticks since the stamp: running while the thread counts, then what it read.
SpentOf(t) ==
  CASE PhaseOf(t) = "counting" -> clock[t] - samples[Owner(t)].s_nano
    [] PhaseOf(t) = "stopped" -> now[t] - samples[Owner(t)].s_nano
    [] OTHER -> 0

Gathered ==
  IF mode = "none" THEN {t \in Thread : pc[t] # "idle"} ELSE Thread

Jobs ==
  Kernels \union {[bytes |-> k.bytes \div N, flops |-> k.flops \div N] : k \in Kernels}

Service ==
  INSTANCE SamplingService
    WITH team <- Gathered,
         phase <- [t \in Thread |-> PhaseOf(t)],
         place <- [t \in Thread |-> PlaceOf(t)],
         job <- [t \in Thread |-> JobOf(t)],
         spent <- [t \in Thread |-> SpentOf(t)],
         lines <- out,
         Job <- Jobs,
         NoPU <- NoSample

\* Every behaviour of the library is one the service allows: each start, each
\* stop and each tick of CPU time of each thread is accounted for in the lines
\* the measure prints, once, and nothing of one measure leaks into the next.
ImplementsService == Service!Spec
=============================================================================
