----------------------------- MODULE Scheduler -----------------------------
(***************************************************************************)
(* load/scheduler.py: ClosedLoopScheduler or OpenLoopScheduler, whichever  *)
(* the plan asks for, with the workers that ask it for attempts, the thread *)
(* that waits for the end of the warm-up, a thread that may stop it, and   *)
(* the clock.                                                              *)
(*                                                                         *)
(* The clock counts ticks.  1 / rate is interval / division ticks.  The    *)
(* lock is held from the first test in next_attempt to the sequence number *)
(* being taken.  stop does not take it: the event, and the clock, may      *)
(* change between any two looks at them, and a worker that has made its    *)
(* last test is handed its attempt ("leaving") whatever happens then.      *)
(***************************************************************************)
EXTENDS Integers, FiniteSets

CONSTANTS
    Workers,
    NoWorker,      \* the lock's owner when it is free
    Plans,         \* the plans a run may follow
    MaxTaken,      \* bound on the numbers taken in a closed run with a duration
    Horizon        \* bound on the clock

(***************************************************************************)
(* What a scheduler is made from: openLoop says which of the two it is;    *)
(* warmup and duration are in ticks; a duration or requestCount of 0 is    *)
(* none, and TestPlan takes exactly one of them.                           *)
(***************************************************************************)
PlanType == [openLoop : BOOLEAN, warmup : Nat, duration : Nat, requestCount : Nat,
             interval : Nat \ {0}, division : Nat \ {0}]

ASSUME SchedulerAssumption ==
    /\ Workers # {} /\ NoWorker \notin Workers
    /\ Plans \subseteq PlanType
    /\ {MaxTaken, Horizon} \subseteq Nat
    /\ \A p \in Plans :
          /\ (p.duration = 0) # (p.requestCount = 0)
          \* The bound lets the clock reach the end, and the last attempt's time.
          /\ Horizon >= p.warmup + p.duration
          /\ p.duration = 0 =>
                 Horizon >= p.warmup + (p.requestCount * p.interval) \div p.division

VARIABLES
    plan,       \* the test plan of this run
    now,        \* the monotonic clock
    started,    \* _started_ns, -1: None
    stop,       \* _stop_event
    next,       \* _next_sequence
    lock,       \* the owner of _lock
    running,    \* the workers run: wait_until_start has returned
    pc,         \* where each worker is
    sequence,   \* the number each worker has taken in next_attempt, else 0
    scheduled,  \* the time it is scheduled for, else 0
    released,   \* the attempts handed out: number, scheduled and actual time
    \* History, for the properties only.
    late,       \* the numbers taken after stop
    after       \* how many attempts each worker was handed after stop

vars == <<plan, now, started, stop, next, lock, running, pc, sequence, scheduled, released,
          late, after>>
workerVars == <<pc, sequence, scheduled>>
handedVars == <<released, after>>
doneVars == <<handedVars, late>>
clockVars == <<plan, now, started>>


Init ==
    /\ plan \in Plans
    /\ now = 0
    /\ started = -1
    /\ stop = FALSE
    /\ next = 1
    /\ lock = NoWorker
    /\ running = FALSE
    /\ pc = [w \in Workers |-> "asks"]
    /\ sequence = [w \in Workers |-> 0]
    /\ scheduled = [w \in Workers |-> 0]
    /\ released = {}
    /\ late = {}
    /\ after = [w \in Workers |-> 0]

\* The run begins at time 0.
Tick ==
    /\ now < Horizon
    /\ started # -1
    /\ now' = now + 1
    /\ UNCHANGED <<plan, started, stop, next, lock, running, workerVars, doneVars>>

Stop ==
    /\ ~stop
    /\ stop' = TRUE
    /\ UNCHANGED <<clockVars, next, lock, running, workerVars, doneVars>>

\* start, as called by run.
Start ==
    /\ started = -1
    /\ started' = now + plan.warmup
    /\ UNCHANGED <<plan, now, stop, next, lock, running, workerVars, doneVars>>

\* wait_until_start does not look at the clock.
DontWait ==
    /\ started # -1
    /\ ~running
    /\ running' = TRUE
    /\ UNCHANGED <<clockVars, stop, next, lock, workerVars, doneVars>>

\* wait_until_start returns.  That of the open loop returns at a stop too.
WarmupOver ==
    /\ started # -1
    /\ ~running
    /\ now >= started \/ (plan.openLoop /\ stop)
    /\ running' = TRUE
    /\ UNCHANGED <<clockVars, stop, next, lock, workerVars, doneVars>>

HasEnded == plan.duration > 0 /\ now >= started + plan.duration
\* The number is compared with the count after it was taken.
ExhaustedLate == plan.requestCount > 0 /\ next > plan.requestCount + 1
Exhausted == plan.requestCount > 0 /\ next > plan.requestCount

\* The time of the n-th attempt on the open loop's timeline.
Slot(n) == started + ((n - 1) * plan.interval) \div plan.division
BeyondEnd(time) == plan.duration > 0 /\ time >= started + plan.duration

\* A bound of the model, not of the code: workers of a closed loop that have
\* used it up are busy elsewhere until the end.
WithinBound == plan.openLoop \/ plan.requestCount > 0 \/ next <= MaxTaken \/ HasEnded

\* next_attempt takes the lock unless stopped; the closed loop looks at the
\* stop event before it waits for the lock, too.  A worker that was told there
\* is nothing more to do ends.
Ask(w) ==
    /\ running
    /\ pc[w] = "asks"
    /\ IF stop
       THEN /\ lock = NoWorker \/ ~plan.openLoop
            /\ pc' = [pc EXCEPT ![w] = "done"]
            /\ UNCHANGED lock
       ELSE /\ lock = NoWorker
            /\ WithinBound
            /\ pc' = [pc EXCEPT ![w] = "locked"]
            /\ lock' = w
    /\ UNCHANGED <<clockVars, stop, next, running, sequence, scheduled, doneVars>>

\* What the attempt that w takes now would be scheduled for.
TimeOfNext == IF plan.openLoop THEN Slot(next) ELSE now

NothingToTake == HasEnded \/ Exhausted \/ (plan.openLoop /\ BeyondEnd(Slot(next)))

\* The lock is not given back on the way out.
TakeNothingLocked(w) ==
    /\ pc[w] = "locked"
    /\ NothingToTake
    /\ pc' = [pc EXCEPT ![w] = "done"]
    /\ UNCHANGED <<clockVars, stop, next, lock, running, sequence, scheduled, doneVars>>

TakeNothing(w) ==
    /\ pc[w] = "locked"
    /\ NothingToTake
    /\ pc' = [pc EXCEPT ![w] = "done"]
    /\ lock' = NoWorker
    /\ UNCHANGED <<clockVars, stop, next, running, sequence, scheduled, doneVars>>

\* The number is read in the lock and counted up too late.
TakeTwice(w) ==
    /\ pc[w] = "locked"
    /\ ~NothingToTake
    /\ sequence' = [sequence EXCEPT ![w] = next]
    /\ scheduled' = [scheduled EXCEPT ![w] = TimeOfNext]
    /\ next' = IF stop THEN next + 1 ELSE next
    /\ late' = IF stop THEN late \cup {next} ELSE late
    /\ lock' = NoWorker
    /\ pc' = [pc EXCEPT ![w] = IF plan.openLoop THEN "paces" ELSE "leaving"]
    /\ UNCHANGED <<clockVars, stop, running, handedVars>>

\* A number is taken and the lock given back.  The closed loop has made all of
\* its tests; the open loop has yet to wait.
Take(w) ==
    /\ pc[w] = "locked"
    /\ ~NothingToTake
    /\ sequence' = [sequence EXCEPT ![w] = next]
    /\ scheduled' = [scheduled EXCEPT ![w] = TimeOfNext]
    /\ next' = next + 1
    /\ late' = IF stop THEN late \cup {next} ELSE late
    /\ lock' = NoWorker
    /\ pc' = [pc EXCEPT ![w] = IF plan.openLoop THEN "paces" ELSE "leaving"]
    /\ UNCHANGED <<clockVars, stop, running, handedVars>>

\* The rest of the wait is cut off to whole ticks of a coarser clock.
PaceRoughly(w) ==
    /\ pc[w] = "paces"
    /\ ~stop
    /\ now + 1 >= scheduled[w]
    /\ pc' = [pc EXCEPT ![w] = "leaving"]
    /\ UNCHANGED <<clockVars, stop, next, lock, running, sequence, scheduled, doneVars>>

\* The stop event is not looked at after the wait.
PaceAnyway(w) ==
    /\ pc[w] = "paces"
    /\ now >= scheduled[w]
    /\ pc' = [pc EXCEPT ![w] = "leaving"]
    /\ UNCHANGED <<clockVars, stop, next, lock, running, sequence, scheduled, doneVars>>

\* Open loop: the time has come, however long ago, and the scheduler was not
\* stopped at the last test.
Pace(w) ==
    /\ pc[w] = "paces"
    /\ ~stop
    /\ now >= scheduled[w]
    /\ pc' = [pc EXCEPT ![w] = "leaving"]
    /\ UNCHANGED <<clockVars, stop, next, lock, running, sequence, scheduled, doneVars>>

\* The locals of next_attempt are gone.
Returned(w) ==
    /\ sequence' = [sequence EXCEPT ![w] = 0]
    /\ scheduled' = [scheduled EXCEPT ![w] = 0]

\* next_attempt returns the attempt; nothing is tested any more.
HandOut(w) ==
    /\ pc[w] = "leaving"
    /\ released' = released \cup
           {[number |-> sequence[w], time |-> scheduled[w], at |-> now]}
    /\ after' = IF stop THEN [after EXCEPT ![w] = @ + 1] ELSE after
    /\ pc' = [pc EXCEPT ![w] = "works"]
    /\ Returned(w)
    /\ UNCHANGED <<clockVars, stop, next, lock, running, late>>

\* An attempt whose time is past is dropped.
GiveUp(w) ==
    /\ pc[w] = "paces"
    /\ stop \/ now > scheduled[w]
    /\ pc' = [pc EXCEPT ![w] = IF stop THEN "done" ELSE "asks"]
    /\ Returned(w)
    /\ UNCHANGED <<clockVars, stop, next, lock, running, doneVars>>

\* The scheduler was stopped while w waited: the number it took is lost.
Abandon(w) ==
    /\ pc[w] = "paces"
    /\ stop
    /\ pc' = [pc EXCEPT ![w] = "done"]
    /\ Returned(w)
    /\ UNCHANGED <<clockVars, stop, next, lock, running, doneVars>>

\* The worker has carried out its attempt.
Finish(w) ==
    /\ pc[w] = "works"
    /\ pc' = [pc EXCEPT ![w] = "asks"]
    /\ UNCHANGED <<clockVars, stop, next, lock, running, sequence, scheduled, doneVars>>

WorkerStep(w) == Ask(w) \/ TakeNothing(w) \/ Take(w)
                 \/ Pace(w) \/ HandOut(w) \/ Abandon(w) \/ Finish(w)

Over == running /\ (\A w \in Workers : pc[w] = "done") /\ UNCHANGED vars

Next ==
    \/ Tick \/ Stop \/ Start \/ WarmupOver
    \/ \E w \in Workers : WorkerStep(w)
    \/ Over

Spec == Init /\ [][Next]_vars

\* Time passes, and the threads run.  Nobody is bound to stop the scheduler.
FairSpec ==
    /\ Spec
    /\ WF_vars(Tick) /\ WF_vars(Start) /\ WF_vars(WarmupOver)
    /\ \A w \in Workers : WF_vars(WorkerStep(w))

-----------------------------------------------------------------------------
(* Properties *)

TypeOK ==
    /\ plan \in Plans
    /\ now \in 0..Horizon
    /\ started \in Nat \cup {-1}
    /\ stop \in BOOLEAN /\ running \in BOOLEAN
    /\ next \in Nat \ {0} /\ (plan.requestCount > 0 => next <= plan.requestCount + 1)
    /\ lock \in Workers \cup {NoWorker}
    /\ pc \in [Workers -> {"asks", "locked", "paces", "leaving", "works", "done"}]
    /\ sequence \in [Workers -> Nat]
    /\ scheduled \in [Workers -> Nat]
    /\ released \subseteq [number : Nat, time : Nat, at : Nat]
    /\ late \subseteq Nat \ {0}
    /\ after \in [Workers -> Nat]

Numbers == {r.number : r \in released}

\* The workers that have taken a number and do not have their attempt yet.
Holding(w) == pc[w] \in {"paces", "leaving"}

(***************************************************************************)
(* A number taken from the sequence is handed out, once, unless the        *)
(* scheduler was stopped while a worker waited for its time: each one is   *)
(* handed out or with exactly one worker inside next_attempt.              *)
(***************************************************************************)
NumbersKept ==
    /\ Cardinality(Numbers) = Cardinality(released)
    /\ \A n \in 1..(next - 1) :
          LET holders == {w \in Workers : Holding(w) /\ sequence[w] = n}
          IN  IF n \in Numbers THEN holders = {} ELSE stop \/ Cardinality(holders) = 1

(***************************************************************************)
(* No attempt is handed out in the warm-up, or before the time it is       *)
(* scheduled for; none is scheduled at or after the end of the duration.   *)
(***************************************************************************)
InTime ==
    \A r \in released :
        /\ started <= r.time /\ r.time <= r.at
        /\ plan.duration > 0 => r.time < started + plan.duration

(***************************************************************************)
(* However many workers there are, and however late they come, the open    *)
(* loop never has handed out more attempts than its rate allows since the  *)
(* start, up to the truncation of a time to a whole tick: workers that     *)
(* catch up do not go ahead of the timeline.                               *)
(***************************************************************************)
RateRespected ==
    plan.openLoop /\ released # {} =>
        (Cardinality(released) - 1) * plan.interval < (now - started + 1) * plan.division

(***************************************************************************)
(* When all workers have ended and nobody stopped the scheduler, a run by  *)
(* count has handed out all of its attempts, no matter how the workers     *)
(* interleaved.                                                            *)
(***************************************************************************)
CountReached ==
    running /\ (\A w \in Workers : pc[w] = "done") /\ ~stop /\ plan.duration = 0 =>
        Numbers = 1..plan.requestCount

(***************************************************************************)
(* What stop, which takes no lock, leaves possible.  However many workers  *)
(* there are, at most one more number is taken: by the worker that was     *)
(* past the test under the lock.  The open loop, which tests the event     *)
(* again after the wait, never hands that number out.  And no worker is    *)
(* handed more than the one attempt it was leaving next_attempt with.      *)
(***************************************************************************)
StopHolds ==
    /\ Cardinality(late) <= 1
    /\ plan.openLoop => late \cap Numbers = {}
    /\ \A w \in Workers : after[w] <= 1

\* Every worker is told at last that there is nothing more to do.
WorkersEnd == <>(\A w \in Workers : pc[w] = "done")
=============================================================================
