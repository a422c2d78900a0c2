---------------------------- MODULE MCScheduler ----------------------------
(***************************************************************************)
(* Scheduler on small instances: plans of each kind, with rates that do    *)
(* not divide the clock.                                                   *)
(***************************************************************************)
EXTENDS Scheduler, TLC

CONSTANTS w1, w2, w3

Symmetry == Permutations(Workers)

Plan(openLoop, warmup, duration, requestCount, interval, division) ==
    [openLoop |-> openLoop, warmup |-> warmup, duration |-> duration,
     requestCount |-> requestCount, interval |-> interval, division |-> division]

\* Four attempts in five ticks, at 3/4 of an attempt per tick.
OpenTimed == Plan(TRUE, 1, 5, 0, 4, 3)
OpenCounted == Plan(TRUE, 1, 0, 4, 3, 2)
ClosedTimed == Plan(FALSE, 1, 3, 0, 1, 1)
ClosedCounted == Plan(FALSE, 1, 0, 3, 1, 1)

AllPlans == {OpenTimed, OpenCounted, ClosedTimed, ClosedCounted}
=============================================================================
