---------------------------- MODULE WorkExecutor ----------------------------
(***************************************************************************)
(* One load-test run: application/runner.py (run_plan), load/executor.py,  *)
(* the way load/scheduler.py hands out attempts, the decisions of          *)
(* load/fault_injection.py and the collector of observability/samples.py,  *)
(* on top of the connection pool.  Threads are the workers; the closers    *)
(* are the thread that called run_plan and the runtime-limit timer.        *)
(*                                                                         *)
(* Time is left out: the end of the duration, deadlines, the runtime limit *)
(* and Ctrl-C may come at any moment.  Of the timestamps of an exchange we *)
(* keep the number of the attempt they were taken in, and, for             *)
(* ResultSample's check of their order, whether by the clock they are      *)
(* before the moment the worker that reads them acquired its connection.   *)
(***************************************************************************)
EXTENDS ConnectionPool

\* The fault modes that change the control of an attempt; "none": the others.
Modes == {"none", "connection_churn", "abort_after_headers", "abort_during_response"}

CONSTANTS
    Main,       \* the thread that called run_plan
    Timer,      \* the thread of the runtime-limit threading.Timer
    Count,      \* request_count, or a bound on the attempts of a timed run
    Plans       \* the plans a run may follow, each with its load model (openLoop),
                \* whether it has a duration (timed), whether somebody calls
                \* WorkExecutor.stop (stopped), and its fault mode

ASSUME ClosersAssumption == Closers = {Main, Timer} /\ Main # Timer
ASSUME CountAssumption == Count \in Nat \ {0}
ASSUME PlanAssumption ==
    Plans \subseteq [openLoop : BOOLEAN, timed : BOOLEAN, stopped : BOOLEAN, mode : Modes]
ASSUME AllTimedAssumption == TimedThreads = Threads

VARIABLES
    wpc,         \* where each worker is in _worker_loop and _run_attempt
    attempt,     \* the sequence number of the attempt each worker has, 0: none
    decision,    \* the fault injected into that attempt, "none": no fault
    err,         \* the error it met: "none" or a class of error categories
    resp,        \* its response: "none", or what connection_reusable says
    timing,      \* the attempt whose exchange produced its timing, 0: no timing
    lastTiming,  \* the same for each session's last_timing
    past,        \* the leased session's last exchange began, by the clock, before
                 \* the worker's pool_acquire_end_ns
    seq,         \* _next_sequence of the scheduler
    stop,        \* _stop_event of the scheduler
    ended,       \* the clock is past the scheduler's _end_ns
    cancelled,   \* _cancelled of the executor
    samples,     \* _samples, by sequence number
    submitted,   \* the samples in the collector's queue
    sealed,      \* _closed of the collector
    collected,   \* the samples run_plan builds its report from
    plan,        \* the plan the run follows
    mpc,         \* where run_plan is
    ending,      \* how the run ended: "normal", "interrupted" or "failed"
    tpc          \* the timer: "armed", "fired", "closing", "off" or "gone"

workerVars == <<wpc, attempt, decision, err, resp, timing, past>>
recordVars == <<samples, submitted, sealed, collected>>
flagVars == <<seq, stop, ended, cancelled>>
mainVars == <<plan, mpc, ending, tpc>>
\* What most steps of a worker leave alone, and what all the steps of the
\* threads around the workers do.
attemptVars == <<attempt, decision, err, resp, timing, past>>
restVars == <<lastTiming, flagVars, recordVars, mainVars>>
elseVars == <<vars, workerVars, lastTiming, plan>>
ownVars == <<workerVars, restVars>>
runVars == <<vars, ownVars>>

NoSample == [outcome |-> "none", timing |-> 0]

RunInit ==
    /\ Init
    /\ wpc = [w \in Threads |-> "unstarted"]
    /\ attempt = [w \in Threads |-> 0]
    /\ decision = [w \in Threads |-> "none"]
    /\ err = [w \in Threads |-> "none"]
    /\ resp = [w \in Threads |-> "none"]
    /\ timing = [w \in Threads |-> 0]
    /\ lastTiming = [s \in Sessions |-> 0]
    /\ past = [w \in Threads |-> FALSE]
    /\ seq = 1
    /\ stop = FALSE
    /\ ended = FALSE
    /\ cancelled = FALSE
    /\ samples = [n \in 1..Count |-> NoSample]
    /\ submitted = {}
    /\ sealed = FALSE
    /\ collected = {}
    /\ plan \in Plans
    /\ mpc = "warmup"
    /\ ending = "normal"
    /\ tpc = "armed"

-----------------------------------------------------------------------------
(* A worker between attempts *)

Goes(w, from, to) == wpc[w] = from /\ wpc' = [wpc EXCEPT ![w] = to]

\* The loop's condition.
TopOfLoop(w) ==
    /\ Goes(w, "loop", IF cancelled THEN "done" ELSE "next")
    /\ UNCHANGED <<vars, attemptVars, restVars>>

\* One attempt more than the plan asks for.
NothingLeftOffByOne == stop \/ ended \/ seq > Count + 1

NothingLeft == stop \/ ended \/ seq > Count

\* next_attempt returns None and the worker ends.
NoMoreAttempts(w) ==
    /\ NothingLeft
    /\ Goes(w, "next", "done")
    /\ UNCHANGED <<vars, attemptVars, restVars>>

\* _run_attempt begins with the call of acquire.
CallsAcquire(w, from) == Goes(w, from, "acquiring") /\ BeginAcquire(w)

\* Only the open loop waits for the attempt's time first.
MayBegin(w) ==
    IF plan.openLoop THEN Goes(w, "next", "pacing") /\ UNCHANGED vars
    ELSE CallsAcquire(w, "next")

\* The sequence number is read but not advanced under the scheduler's lock.
NextAttemptTwice(w) ==
    /\ ~NothingLeft
    /\ attempt' = [attempt EXCEPT ![w] = seq]
    /\ UNCHANGED seq
    /\ \E d \in {"none", plan.mode} : decision' = [decision EXCEPT ![w] = d]
    /\ MayBegin(w)
    /\ UNCHANGED <<err, resp, timing, past, lastTiming, stop, ended, cancelled,
                   recordVars, mainVars>>

\* The scheduler takes the next sequence number; the injector's decision is
\* a function of that number, so it may as well be made here.
NextAttempt(w) ==
    /\ ~NothingLeft
    /\ attempt' = [attempt EXCEPT ![w] = seq]
    /\ seq' = seq + 1
    /\ \E d \in {"none", plan.mode} : decision' = [decision EXCEPT ![w] = d]
    /\ MayBegin(w)
    /\ UNCHANGED <<err, resp, timing, past, lastTiming, stop, ended, cancelled,
                   recordVars, mainVars>>

\* Open loop only: the last test of the stop event, once the attempt's time has
\* come, and the way to the call of acquire, where nothing is tested or shared: a
\* stop may still come before the worker gets as far as the pool's lock.
Pace(w) ==
    /\ IF stop THEN Goes(w, "pacing", "done") /\ UNCHANGED vars
       ELSE CallsAcquire(w, "pacing")
    /\ UNCHANGED <<attemptVars, restVars>>

(* _run_attempt *)

InAcquire(w) ==
    /\ wpc[w] = "acquiring"
    /\ \/ DeadlinePasses(w) \/ AcquireReserve(w) \/ AcquireWait(w) \/ WakeUp(w)
    /\ UNCHANGED ownVars

\* A new session has no timing yet.
OpenConnection(w) ==
    /\ wpc[w] = "acquiring"
    /\ CreateSession(w)
    /\ lastTiming' = [lastTiming EXCEPT ![held'[w]] = 0]
    /\ UNCHANGED <<workerVars, flagVars, recordVars, mainVars>>

\* acquire returns and pool_acquire_end_ns is read: later than the exchanges
\* the session has had, unless the clock has not moved since.
Leases(w) ==
    /\ Goes(w, "acquiring", "leased")
    /\ AcquireIdle(w) \/ AdmitSession(w)
    /\ \E moved \in BOOLEAN :
          past' = [past EXCEPT ![w] = moved /\ lastTiming[held'[w]] # 0]
    /\ UNCHANGED <<attempt, decision, err, resp, timing, restVars>>

\* acquire raised: ConnectionClosedEarly, PoolAcquireTimeout or the factory's
\* own error.
AcquireFails(w) ==
    /\ Goes(w, "acquiring", "record")
    /\ \E e \in {"closed_early", "other"} :
          /\ \/ e = "closed_early" /\ (AcquireClosed(w) \/ AdmitClosed(w) \/ AdmitUnusable(w))
             \/ e = "other" /\ (AcquireExpired(w) \/ AdmitExpired(w) \/ CreateFails(w))
          /\ err' = [err EXCEPT ![w] = e]
    /\ UNCHANGED <<attempt, decision, resp, timing, past, restVars>>

\* The body of the try statement ends with error e; the handler reads the
\* session's last timing, whoever left it there.
Raises(w, e) ==
    /\ err' = [err EXCEPT ![w] = e]
    /\ timing' = [timing EXCEPT ![w] = lastTiming'[held[w]]]

CloseSession(w) ==
    IF status[held[w]] = "closed" THEN UNCHANGED vars ELSE CloseHeld(w)

\* The handler is left without going through the finally block.
AbortAfterHeadersLeaking(w) ==
    /\ decision[w] = "abort_after_headers"
    /\ Goes(w, "leased", "record")
    /\ CloseSession(w)
    /\ UNCHANGED lastTiming
    /\ Raises(w, "other")
    /\ UNCHANGED <<attempt, decision, resp, past, flagVars, recordVars, mainVars>>

AbortAfterHeaders(w) ==
    /\ decision[w] = "abort_after_headers"
    /\ Goes(w, "leased", "release")
    /\ CloseSession(w)
    /\ UNCHANGED lastTiming
    /\ Raises(w, "other")
    /\ UNCHANGED <<attempt, decision, resp, past, flagVars, recordVars, mainVars>>

\* close_all closed the session before the worker could use it.
ExecuteRefused(w) ==
    /\ Goes(w, "leased", "release")
    /\ decision[w] # "abort_after_headers"
    /\ ~Usable(held[w])
    /\ UNCHANGED <<vars, lastTiming>>
    /\ Raises(w, "closed_early")
    /\ UNCHANGED <<attempt, decision, resp, past, flagVars, recordVars, mainVars>>

ExecuteBegins(w) ==
    /\ decision[w] # "abort_after_headers"
    /\ Goes(w, "leased", "executing")
    /\ BeginExecute(w)
    /\ UNCHANGED <<attemptVars, restVars>>

\* execute leaves its timing in the session, however it ends: that of an
\* exchange that began after the connection was acquired.
Timed(w) ==
    /\ lastTiming' = [lastTiming EXCEPT ![held[w]] = attempt[w]]
    /\ past' = [past EXCEPT ![w] = FALSE]

\* A response came.  One to a request with Connection: close ends the
\* session's use, as other responses may.
ExecuteAnswers(w) ==
    /\ Goes(w, "executing",
            IF decision[w] = "abort_during_response" THEN "executed" ELSE "release")
    /\ \E outcome \in {"open", "spent"} :
          /\ decision[w] = "connection_churn" => outcome = "spent"
          /\ EndExecute(w, outcome)
          /\ resp' = [resp EXCEPT ![w] = IF outcome = "open" THEN "keep" ELSE "close"]
    /\ Timed(w)
    /\ timing' = [timing EXCEPT ![w] = attempt[w]]
    /\ UNCHANGED <<attempt, decision, err, flagVars, recordVars, mainVars>>

\* The timing is left in the session by an exchange that succeeds only.
ExecuteFailsUntimed(w) ==
    /\ Goes(w, "executing", "release")
    /\ EndExecute(w, "spent")
    /\ UNCHANGED <<lastTiming, past>>
    /\ \E e \in {"closed_early", "other"} : Raises(w, e)
    /\ UNCHANGED <<attempt, decision, resp, flagVars, recordVars, mainVars>>

ExecuteFails(w) ==
    /\ Goes(w, "executing", "release")
    /\ EndExecute(w, "spent")
    /\ Timed(w)
    /\ \E e \in {"closed_early", "other"} : Raises(w, e)
    /\ UNCHANGED <<attempt, decision, resp, flagVars, recordVars, mainVars>>

AbortDuringResponse(w) ==
    /\ Goes(w, "executed", "release")
    /\ CloseSession(w)
    /\ UNCHANGED <<attemptVars, restVars>>

\* What the finally block tells release about the session.
SaysReusable(w) ==
    /\ decision[w] # "connection_churn"
    /\ IF resp[w] # "none" THEN resp[w] = "keep" ELSE Usable(held[w])

GiveLeaseBack(w) ==
    /\ Goes(w, "release", "record")
    /\ Release(w, SaysReusable(w))
    /\ UNCHANGED <<attemptVars, restVars>>

\* A response is an outcome of its own ("answered": SUCCESS or HTTP_ERROR);
\* an error of the classes that a cancelled run explains is CANCELLED then;
\* what else fails is a TIMEOUT or a TRANSPORT_ERROR, which Attempt tells apart.
OutcomeOf(w) ==
    IF resp[w] # "none" THEN "answered"
    ELSE IF err[w] = "closed_early" /\ cancelled THEN "CANCELLED"
    ELSE "failed"

(***************************************************************************)
(* The sample is built and appended to _samples.  ResultSample refuses a   *)
(* write that started before the connection was acquired; it has no other  *)
(* way to know whose timestamps it is given.  The ConfigurationError it    *)
(* raises ends the worker's loop, and _worker swallows it.                 *)
(***************************************************************************)
OutOfOrder(w) == timing[w] # 0 /\ past[w]

Record(w) ==
    /\ wpc[w] = "record"
    /\ IF OutOfOrder(w)
       THEN /\ wpc' = [wpc EXCEPT ![w] = "crashed"]
            /\ UNCHANGED samples
       ELSE /\ samples' = [samples EXCEPT ![attempt[w]] =
                             [outcome |-> OutcomeOf(w), timing |-> timing[w]]]
            /\ wpc' = [wpc EXCEPT ![w] = "publish"]
    /\ UNCHANGED <<vars, attemptVars, lastTiming, flagVars, submitted, sealed, collected,
                   mainVars>>

\* The sink hands the sample to the collector, whose refusal is swallowed.
Publish(w) ==
    /\ Goes(w, "publish", "loop")
    /\ submitted' = IF sealed THEN submitted ELSE submitted \cup {attempt[w]}
    /\ attempt' = [attempt EXCEPT ![w] = 0]
    /\ decision' = [decision EXCEPT ![w] = "none"]
    /\ err' = [err EXCEPT ![w] = "none"]
    /\ resp' = [resp EXCEPT ![w] = "none"]
    /\ timing' = [timing EXCEPT ![w] = 0]
    /\ past' = [past EXCEPT ![w] = FALSE]
    /\ UNCHANGED <<vars, lastTiming, flagVars, samples, sealed, collected, mainVars>>

-----------------------------------------------------------------------------
(* run_plan and WorkExecutor.run *)

MainGoes(from, to) == mpc = from /\ mpc' = to

WarmupEnds ==
    /\ MainGoes("warmup", "starting")
    /\ UNCHANGED <<elseVars, flagVars, recordVars, ending, tpc>>

StartThread(w) ==
    /\ mpc = "starting"
    /\ Goes(w, "unstarted", "loop")
    /\ UNCHANGED <<vars, attemptVars, restVars>>

\* The system refuses another thread.
StartFails ==
    /\ \E w \in Threads : wpc[w] = "unstarted"
    /\ MainGoes("starting", "finally")
    /\ ending' = "failed"
    /\ UNCHANGED <<elseVars, flagVars, recordVars, tpc>>

AllStarted ==
    /\ \A w \in Threads : wpc[w] # "unstarted"
    /\ MainGoes("starting", "joining")
    /\ UNCHANGED <<elseVars, flagVars, recordVars, ending, tpc>>

WorkerEnded(w) == wpc[w] \in {"done", "crashed"}

\* Only the first thread is waited for.
JoinOne ==
    /\ \E w \in Threads : WorkerEnded(w)
    /\ MainGoes("joining", "finally")
    /\ UNCHANGED <<elseVars, flagVars, recordVars, ending, tpc>>

JoinAll ==
    /\ \A w \in Threads : WorkerEnded(w)
    /\ MainGoes("joining", "finally")
    /\ UNCHANGED <<elseVars, flagVars, recordVars, ending, tpc>>

\* Ctrl-C.  The warm-up wait is outside run's try statement: an interrupt
\* there goes straight to run_plan's handler.
Interrupt ==
    /\ mpc \in {"warmup", "starting", "joining"}
    /\ mpc' = IF mpc = "warmup" THEN "cancel" ELSE "finally"
    /\ ending' = "interrupted"
    /\ UNCHANGED <<elseVars, flagVars, recordVars, tpc>>

\* run's finally block first cancels the timer, if it has not gone off.
StopTimer ==
    /\ MainGoes("finally", "closing")
    /\ tpc' = IF tpc = "armed" THEN "off" ELSE tpc
    /\ UNCHANGED <<elseVars, flagVars, recordVars, ending>>

\* close_all called by run's finally block, or by cancel.
MainCloses ==
    /\ mpc \in {"closing", "cancelClose"}
    /\ CloserStep(Main)
    /\ UNCHANGED ownVars

RunReturns ==
    /\ cpc[Main] = "done"
    /\ MainGoes("closing", IF ending = "interrupted" THEN "cancel" ELSE "finish")
    /\ UNCHANGED <<elseVars, flagVars, recordVars, ending, tpc>>

\* The handler of KeyboardInterrupt: executor.cancel, in its three steps.
CancelFlags ==
    /\ MainGoes("cancel", "cancelStop")
    /\ cancelled' = TRUE
    /\ UNCHANGED <<elseVars, seq, stop, ended, recordVars, ending, tpc>>

CancelStops ==
    /\ MainGoes("cancelStop", "cancelClose")
    /\ stop' = TRUE
    /\ UNCHANGED <<elseVars, seq, ended, cancelled, recordVars, ending, tpc>>

CancelReturns ==
    /\ cpc[Main] = "done"
    /\ MainGoes("cancelClose", "finish")
    /\ UNCHANGED <<elseVars, flagVars, recordVars, ending, tpc>>

\* run_plan closes the collector; a failed run ends there, without a report.
SealCollector ==
    /\ MainGoes("finish", IF ending = "failed" THEN "exited" ELSE "collect")
    /\ sealed' = TRUE
    /\ UNCHANGED <<elseVars, flagVars, samples, submitted, collected, ending, tpc>>

Report ==
    /\ MainGoes("collect", "exited")
    /\ collected' = submitted
    /\ UNCHANGED <<elseVars, flagVars, samples, submitted, sealed, ending, tpc>>

(* The runtime limit: the timer thread runs cancel. *)

TimerFires ==
    /\ tpc = "armed"
    /\ tpc' = "fired"
    /\ cancelled' = TRUE
    /\ UNCHANGED <<elseVars, seq, stop, ended, recordVars, mpc, ending>>

TimerStops ==
    /\ tpc = "fired"
    /\ tpc' = "closing"
    /\ stop' = TRUE
    /\ UNCHANGED <<elseVars, seq, ended, cancelled, recordVars, mpc, ending>>

TimerCloses ==
    /\ tpc = "closing"
    /\ CloserStep(Timer)
    /\ UNCHANGED ownVars

TimerEnds ==
    /\ tpc = "closing"
    /\ cpc[Timer] = "done"
    /\ tpc' = "gone"
    /\ UNCHANGED <<elseVars, flagVars, recordVars, mpc, ending>>

\* The planned duration is over; that makes no difference when there was
\* nothing left to hand out.
DurationEnds ==
    /\ plan.timed
    /\ ~NothingLeft
    /\ mpc # "warmup"
    /\ ended' = TRUE
    /\ UNCHANGED <<elseVars, seq, stop, cancelled, recordVars, mainVars>>

\* WorkExecutor.stop, for a caller that wants active attempts to finish.
Stop ==
    /\ plan.stopped
    /\ ~stop
    /\ stop' = TRUE
    /\ UNCHANGED <<elseVars, seq, ended, cancelled, recordVars, mainVars>>

-----------------------------------------------------------------------------
WorkerStep(w) ==
    \/ TopOfLoop(w) \/ NoMoreAttempts(w) \/ NextAttempt(w) \/ Pace(w)
    \/ InAcquire(w) \/ OpenConnection(w) \/ Leases(w) \/ AcquireFails(w)
    \/ AbortAfterHeaders(w) \/ ExecuteRefused(w) \/ ExecuteBegins(w)
    \/ ExecuteAnswers(w) \/ ExecuteFails(w) \/ AbortDuringResponse(w)
    \/ GiveLeaseBack(w) \/ Record(w) \/ Publish(w)

MainStep ==
    \/ WarmupEnds \/ (\E w \in Threads : StartThread(w)) \/ AllStarted \/ JoinAll
    \/ StopTimer \/ MainCloses \/ RunReturns
    \/ CancelFlags \/ CancelStops \/ CancelReturns \/ SealCollector \/ Report

TimerStep == TimerStops \/ TimerCloses \/ TimerEnds

\* Every thread has ended; a daemon timer left armed dies with the process.
Terminated ==
    /\ mpc = "exited"
    /\ \A w \in Threads : WorkerEnded(w) \/ wpc[w] = "unstarted"
    /\ tpc \in {"armed", "off", "gone"}
    /\ UNCHANGED runVars

RunNext ==
    \/ \E w \in Threads : WorkerStep(w)
    \/ MainStep \/ TimerStep
    \/ StartFails \/ Interrupt \/ TimerFires \/ DurationEnds \/ Stop
    \/ Terminated

RunSpec == RunInit /\ [][RunNext]_runVars

(***************************************************************************)
(* Threads that can run do run: an attempt's waits are all bounded, by the *)
(* acquire deadline, the connect timeout and the request deadline.  Nobody *)
(* is obliged to interrupt, and the limit and the end of the duration may  *)
(* never come into play.                                                   *)
(***************************************************************************)
RunFairness ==
    /\ \A w \in Threads : WF_runVars(WorkerStep(w))
    /\ WF_runVars(MainStep)
    /\ WF_runVars(TimerStep)

FairRunSpec == RunSpec /\ RunFairness

-----------------------------------------------------------------------------
(* Properties *)

RunTypeOK ==
    /\ TypeOK
    /\ wpc \in [Threads -> {"unstarted", "loop", "next", "pacing", "acquiring",
                            "leased", "executing", "executed", "release", "record",
                            "publish", "done", "crashed"}]
    /\ attempt \in [Threads -> 0..Count]
    /\ decision \in [Threads -> Modes]
    /\ err \in [Threads -> {"none", "closed_early", "other"}]
    /\ resp \in [Threads -> {"none", "keep", "close"}]
    /\ timing \in [Threads -> 0..Count]
    /\ lastTiming \in [Sessions -> 0..Count]
    /\ past \in [Threads -> BOOLEAN]
    /\ seq \in 1..(Count + 1)
    /\ {stop, ended, cancelled, sealed} \subseteq BOOLEAN
    /\ samples \in [1..Count -> [outcome : {"none", "answered", "CANCELLED", "failed"},
                                 timing : 0..Count]]
    /\ submitted \subseteq 1..Count
    /\ collected \subseteq 1..Count
    /\ plan \in Plans
    /\ mpc \in {"warmup", "starting", "joining", "finally", "closing", "cancel",
                "cancelStop", "cancelClose", "finish", "collect", "exited"}
    /\ ending \in {"normal", "interrupted", "failed"}
    /\ tpc \in {"armed", "fired", "closing", "off", "gone"}

Issued == 1..(seq - 1)
Recorded == {n \in 1..Count : samples[n] # NoSample}
AtWork(n) == {w \in Threads : attempt[w] = n /\ wpc[w] # "publish"}

(***************************************************************************)
(* Each attempt the scheduler issued is with exactly one worker until its  *)
(* sample is appended, and has a sample from then on: none is handed out   *)
(* twice, none is recorded twice, and the only ones that end without a     *)
(* sample are those a worker still had when it ended.                      *)
(***************************************************************************)
AttemptConservation ==
    /\ \A n \in Issued : Cardinality(AtWork(n)) = IF n \in Recorded THEN 0 ELSE 1
    /\ Recorded \subseteq Issued
    /\ \A w \in Threads : attempt[w] \in Issued \cup {0}

\* A sample with the timestamps of another attempt's exchange.
ForeignTiming(n) == samples[n].timing \notin {0, n}

(***************************************************************************)
(* A reused session still carries the timestamps of an earlier attempt     *)
(* when an attempt ends before its own exchange, and the error handler     *)
(* reads them.  They cost a worker its life, or get into the sample when   *)
(* the clock is too coarse to tell, in two cases only: the attempt was     *)
(* given the fault abort_after_headers, or the pool was closed under it.   *)
(* A sample with a response has the timestamps of its own exchange.        *)
(***************************************************************************)
TimingMixesOnlyUnsent ==
    /\ \A w \in Threads :
          wpc[w] = "crashed" => closed \/ decision[w] = "abort_after_headers"
    /\ \A n \in Recorded :
          /\ ForeignTiming(n) => closed \/ plan.mode = "abort_after_headers"
          /\ samples[n].outcome = "answered" => samples[n].timing = n

(***************************************************************************)
(* No worker leaves an attempt with its lease: one that is recording, is   *)
(* between attempts, ended or died has no session, so that a crash never   *)
(* costs the pool a slot.                                                  *)
(***************************************************************************)
NoLeaseOutlivesAttempt ==
    \A w \in Threads :
        held[w] # NoSession =>
            wpc[w] \in {"acquiring", "leased", "executing", "executed", "release"}

(***************************************************************************)
(* The report of a run that was not interrupted has every sample that was  *)
(* recorded, also when the runtime limit cancelled the run: the collector  *)
(* is closed only after the last worker handed in its last sample.         *)
(***************************************************************************)
ReportComplete ==
    mpc = "exited" /\ ending = "normal" =>
        /\ collected = Recorded
        /\ \A w \in Threads : WorkerEnded(w)

(***************************************************************************)
(* Every run ends, however it is cut short: the report is made, the        *)
(* workers end, and no socket stays open.                                  *)
(***************************************************************************)
RunTerminates ==
    <>(/\ mpc = "exited"
       /\ \A w \in Threads : WorkerEnded(w) \/ wpc[w] = "unstarted"
       /\ OpenSessions = {})

\* A worker never dies in an attempt that had a fault applied to it: faults
\* are recorded per attempt.
FaultsRecorded == \A w \in Threads : wpc[w] = "crashed" => decision[w] = "none"
=============================================================================
