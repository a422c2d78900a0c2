------------------------- MODULE WorkExecutorProofs -------------------------
(***************************************************************************)
(* Proofs about WorkExecutor, for any number of workers, sessions,         *)
(* attempts and any plans.  First, what a run does to the pool is what the *)
(* pool's own specification allows, so that the pool's theorems hold in    *)
(* every run.  Then the run's own properties, in layers:                   *)
(*                                                                         *)
(*   Placed     where in the pool a worker is, at each of its points;      *)
(*   Numbered   whose attempt is whose, and which have a sample;           *)
(*   Sent       whose timestamps a worker has, and why they may be old;    *)
(*   Reported   which samples the collector has.                           *)
(***************************************************************************)
EXTENDS WorkExecutor, ConnectionPoolProofs

-----------------------------------------------------------------------------
(* The pool inside a run. *)

\* What one thread does in the pool.
PoolStepOf(w) ==
    \/ BeginAcquire(w) \/ DeadlinePasses(w) \/ AcquireStep(w)
    \/ BeginExecute(w) \/ EndExchange(w) \/ CloseHeld(w) \/ GiveBack(w)

LEMMA WorkerUsesPool ==
    ASSUME NEW w \in Threads, WorkerStep(w)
    PROVE  PoolStepOf(w) \/ UNCHANGED vars
<1>1. CASE TopOfLoop(w) \/ NoMoreAttempts(w) \/ ExecuteRefused(w) \/ Record(w) \/ Publish(w)
  BY <1>1 DEF TopOfLoop, NoMoreAttempts, ExecuteRefused, Record, Publish
<1>2. CASE NextAttempt(w) \/ Pace(w)
  BY <1>2 DEF NextAttempt, MayBegin, Pace, CallsAcquire, PoolStepOf
<1>3. CASE InAcquire(w) \/ OpenConnection(w) \/ Leases(w)
  BY <1>3 DEF InAcquire, OpenConnection, Leases, PoolStepOf, AcquireStep
<1>4. CASE AcquireFails(w)
  BY <1>4 DEF AcquireFails, PoolStepOf, AcquireStep
<1>5. CASE AbortAfterHeaders(w) \/ AbortDuringResponse(w)
  BY <1>5 DEF AbortAfterHeaders, AbortDuringResponse, CloseSession, PoolStepOf
<1>6. CASE ExecuteBegins(w)
  BY <1>6 DEF ExecuteBegins, PoolStepOf
<1>7. CASE ExecuteAnswers(w) \/ ExecuteFails(w)
  <2>1. EndExchange(w)
    BY <1>7 DEF ExecuteAnswers, ExecuteFails, EndExchange
  <2> QED BY <2>1 DEF PoolStepOf
<1>8. CASE GiveLeaseBack(w)
  <2>1. SaysReusable(w) \in BOOLEAN /\ Release(w, SaysReusable(w))
    BY <1>8 DEF GiveLeaseBack, SaysReusable, Usable
  <2>2. GiveBack(w)
    BY <2>1 DEF GiveBack
  <2> QED BY <2>2 DEF PoolStepOf
<1> QED BY <1>1, <1>2, <1>3, <1>4, <1>5, <1>6, <1>7, <1>8 DEF WorkerStep

LEMMA RunStepUsesPool == [RunNext]_runVars => [Next]_vars
<1> SUFFICES ASSUME [RunNext]_runVars PROVE Next \/ UNCHANGED vars
  OBVIOUS
<1>1. CASE \E w \in Threads : WorkerStep(w)
  BY <1>1, WorkerUsesPool DEF PoolStepOf, Next
<1>2. CASE MainCloses \/ TimerCloses
  BY <1>2, ClosersAssumption DEF MainCloses, TimerCloses, Next
<1>3. CASE \/ WarmupEnds \/ AllStarted \/ JoinAll \/ StopTimer \/ RunReturns \/ CancelFlags
           \/ CancelStops \/ CancelReturns \/ SealCollector \/ Report
  BY <1>3 DEF WarmupEnds, AllStarted, JoinAll, StopTimer, RunReturns, CancelFlags,
     CancelStops, CancelReturns, SealCollector, Report, elseVars
<1>4. CASE \E w \in Threads : StartThread(w)
  BY <1>4 DEF StartThread
<1>5. CASE \/ StartFails \/ Interrupt \/ TimerFires \/ TimerStops \/ TimerEnds
           \/ DurationEnds \/ Stop
  BY <1>5 DEF StartFails, Interrupt, TimerFires, TimerStops, TimerEnds, DurationEnds, Stop,
     elseVars
<1>6. CASE Terminated \/ UNCHANGED runVars
  BY <1>6 DEF Terminated, runVars
<1> QED BY <1>1, <1>2, <1>3, <1>4, <1>5, <1>6 DEF RunNext, MainStep, TimerStep

(***************************************************************************)
(* A run uses the pool as the pool expects: every step of a worker, of     *)
(* run_plan's thread and of the timer is one of the pool's or does not     *)
(* touch it.  All theorems about the pool hold in runs.                    *)
(***************************************************************************)
THEOREM RunUsesPool == RunSpec => Spec
<1>1. RunInit => Init
  BY DEF RunInit
<1> QED BY <1>1, RunStepUsesPool, PTL DEF RunSpec, Spec

LEMMA PoolInRun == RunSpec => [](TypeInv /\ Ownership)
<1>1. Init => TypeInv /\ Ownership
  BY TypeInit, OwnershipInit
<1>2. TypeInv /\ Ownership /\ [Next]_vars => (TypeInv /\ Ownership)'
  BY TypeStep, OwnershipStep
<1> QED BY <1>1, <1>2, RunUsesPool, PTL DEF Spec

-----------------------------------------------------------------------------
(* Where in the pool a worker is. *)

InPool == {"acquiring", "leased", "executing", "executed", "release"}

Fits(place, point) ==
    /\ place = "acquiring" => point \in Acquiring
    /\ place = "leased" => point = "leased"
    /\ place = "executing" => point = "executing"
    /\ place = "executed" => point = "used"
    /\ place = "release" => point \in HasLease
    /\ place \notin InPool => point = "out"

Placed ==
    /\ pc \in [Threads -> PcStates]
    /\ wpc \in [Threads -> InPool \cup {"unstarted", "loop", "next", "pacing", "record",
                                        "publish", "done", "crashed"}]
    /\ \A w \in Threads : Fits(wpc[w], pc[w])

LEMMA PlacedInit == RunInit => Placed
BY DEF RunInit, Init, Placed, Fits, InPool, PcStates

\* What a worker does moves itself only.
LEMMA WorkerPlaced ==
    ASSUME Placed, NEW w \in Threads, WorkerStep(w)
    PROVE  Placed'
<1> DEFINE Moves(place, point) ==
        wpc' = [wpc EXCEPT ![w] = place] /\ pc' = [pc EXCEPT ![w] = point]
<1>0. ASSUME NEW place \in InPool \cup {"loop", "next", "pacing", "record", "publish",
                                        "done", "crashed"},
             NEW point \in PcStates, Moves(place, point), Fits(place, point)
      PROVE  Placed'
  BY <1>0 DEF Placed
<1> USE DEF Fits, InPool, PcStates, HasLease, Acquiring
<1>1. pc = [pc EXCEPT ![w] = pc[w]] /\ wpc = [wpc EXCEPT ![w] = wpc[w]]
      /\ Fits(wpc[w], pc[w]) /\ pc[w] \in PcStates
  BY DEF Placed
<1> HIDE DEF Moves
<1>2. CASE TopOfLoop(w) \/ NoMoreAttempts(w) \/ Record(w) \/ Publish(w)
  <2>1. pc' = pc /\ pc[w] = "out"
    BY <1>1, <1>2 DEF TopOfLoop, NoMoreAttempts, Record, Publish, Goes, vars
  <2>2. \E place \in {"loop", "next", "publish", "done", "crashed"} : Moves(place, "out")
    BY <1>1, <1>2, <2>1 DEF TopOfLoop, NoMoreAttempts, Record, Publish, Goes, Moves
  <2> QED BY <1>0, <2>2
<1>3. CASE NextAttempt(w) \/ Pace(w)
  <2>1. CASE UNCHANGED vars
    <3>1. pc' = pc /\ pc[w] = "out"
      BY <1>1, <1>3, <2>1 DEF NextAttempt, MayBegin, Pace, Goes, CallsAcquire, vars
    <3>2. Moves("pacing", "out") \/ Moves("done", "out") \/ BeginAcquire(w)
      BY <1>1, <1>3, <3>1 DEF NextAttempt, MayBegin, Pace, Goes, CallsAcquire, Moves
    <3>3. ~BeginAcquire(w)
      BY <3>1 DEF BeginAcquire, Placed
    <3> QED BY <1>0, <3>2, <3>3
  <2>2. CASE BeginAcquire(w) /\ wpc' = [wpc EXCEPT ![w] = "acquiring"]
    BY <1>0, <2>2 DEF BeginAcquire, Moves
  <2> QED BY <1>3, <2>1, <2>2 DEF NextAttempt, MayBegin, Pace, Goes, CallsAcquire
<1>4. CASE InAcquire(w) \/ OpenConnection(w)
  <2>1. wpc[w] = "acquiring" /\ wpc' = wpc
    BY <1>4 DEF InAcquire, OpenConnection, ownVars, workerVars
  <2>2. \E point \in Acquiring : Moves("acquiring", point)
    BY <1>1, <1>4, <2>1 DEF InAcquire, OpenConnection, DeadlinePasses, AcquireReserve,
       AcquireWait, WakeUp, CreateSession, Moves
  <2> QED BY <1>0, <2>2
<1>5. CASE Leases(w)
  <2>1. Moves("leased", "leased")
    BY <1>5 DEF Leases, Goes, AcquireIdle, AdmitSession, Moves
  <2> QED BY <1>0, <2>1
<1>6. CASE AcquireFails(w)
  <2>1. Moves("record", "out")
    BY <1>6 DEF AcquireFails, Goes, AcquireClosed, AdmitClosed, AdmitUnusable, AcquireExpired,
       AdmitExpired, CreateFails, Reject, Raise, Moves
  <2> QED BY <1>0, <2>1
<1>7. CASE AbortAfterHeaders(w) \/ AbortDuringResponse(w) \/ ExecuteRefused(w)
  <2>1. pc' = pc /\ pc[w] \in HasLease
    BY <1>1, <1>7 DEF AbortAfterHeaders, AbortDuringResponse, ExecuteRefused, CloseSession,
       CloseHeld, Goes, vars
  <2>2. Moves("release", pc[w])
    BY <1>1, <1>7, <2>1 DEF AbortAfterHeaders, AbortDuringResponse, ExecuteRefused, Goes, Moves
  <2> QED BY <1>0, <1>1, <2>1, <2>2
<1>8. CASE ExecuteBegins(w)
  <2>1. Moves("executing", "executing")
    BY <1>8 DEF ExecuteBegins, BeginExecute, Goes, Moves
  <2> QED BY <1>0, <2>1
<1>9. CASE ExecuteAnswers(w) \/ ExecuteFails(w)
  <2>1. \E place \in {"executed", "release"} : Moves(place, "used")
    BY <1>9 DEF ExecuteAnswers, ExecuteFails, EndExecute, Goes, Moves
  <2> QED BY <1>0, <2>1
<1>10. CASE GiveLeaseBack(w)
  <2>1. Moves("record", "out")
    BY <1>10 DEF GiveLeaseBack, Release, Drop, Goes, Moves
  <2> QED BY <1>0, <2>1
<1> QED BY <1>2, <1>3, <1>4, <1>5, <1>6, <1>7, <1>8, <1>9, <1>10 DEF WorkerStep

LEMMA PlacedStep == Placed /\ [RunNext]_runVars => Placed'
<1> SUFFICES ASSUME Placed, [RunNext]_runVars PROVE Placed'
  OBVIOUS
<1>1. CASE \E w \in Threads : WorkerStep(w)
  BY <1>1, WorkerPlaced
<1>2. CASE \E w \in Threads : StartThread(w)
  <2>1. PICK w \in Threads : StartThread(w)
    BY <1>2
  <2> QED BY <2>1 DEF StartThread, Goes, vars, Placed, Fits, InPool
<1>3. CASE UNCHANGED <<pc, wpc>>
  BY <1>3 DEF Placed
<1>4. CASE MainCloses \/ TimerCloses
  <2>1. UNCHANGED <<pc, wpc>>
    BY <1>4 DEF MainCloses, TimerCloses, CloserStep, CloseAll, CloseAgain, CloseNext,
       CloseDone, ownVars, workerVars
  <2> QED BY <2>1, <1>3
<1>5. CASE \/ WarmupEnds \/ AllStarted \/ JoinAll \/ StopTimer \/ RunReturns \/ CancelFlags
           \/ CancelStops \/ CancelReturns \/ SealCollector \/ Report
           \/ StartFails \/ Interrupt \/ TimerFires \/ TimerStops \/ TimerEnds
           \/ DurationEnds \/ Stop
  <2>1. UNCHANGED elseVars
    BY <1>5 DEF WarmupEnds, AllStarted, JoinAll, StopTimer, RunReturns, CancelFlags,
       CancelStops, CancelReturns, SealCollector, Report, StartFails, Interrupt, TimerFires,
       TimerStops, TimerEnds, DurationEnds, Stop
  <2> QED BY <2>1, <1>3 DEF elseVars, vars, workerVars
<1>6. CASE Terminated \/ UNCHANGED runVars
  BY <1>6, <1>3 DEF Terminated, runVars, ownVars, vars, workerVars
<1> QED BY <1>1, <1>2, <1>4, <1>5, <1>6 DEF RunNext, MainStep, TimerStep

(***************************************************************************)
(* Every attempt gives its lease back, however it ends, the death of its   *)
(* worker included.                                                        *)
(***************************************************************************)
THEOREM LeasesEndWithAttempts == RunSpec => []NoLeaseOutlivesAttempt
<1>1. Placed /\ Ownership => NoLeaseOutlivesAttempt
  BY DEF Placed, Ownership, NoLeaseOutlivesAttempt, Fits, InPool, Holding
<1> QED BY <1>1, PlacedInit, PlacedStep, PoolInRun, PTL DEF RunSpec

-----------------------------------------------------------------------------
(* Types. *)

\* What the threads around the workers do, but for closing the pool.
ElseSteps ==
    \/ WarmupEnds \/ AllStarted \/ JoinAll \/ StopTimer \/ RunReturns \/ CancelFlags
    \/ CancelStops \/ CancelReturns \/ SealCollector \/ Report \/ StartFails \/ Interrupt
    \/ TimerFires \/ TimerStops \/ TimerEnds \/ DurationEnds \/ Stop

CloseSteps == MainCloses \/ TimerCloses

LEMMA StepCases ==
    ASSUME [RunNext]_runVars
    PROVE  \/ \E w \in Threads : WorkerStep(w) \/ StartThread(w)
           \/ ElseSteps \/ CloseSteps \/ UNCHANGED runVars
BY DEF RunNext, MainStep, TimerStep, ElseSteps, CloseSteps, Terminated

LEMMA RunTypeInit == RunInit => RunTypeOK
<1> SUFFICES ASSUME RunInit PROVE RunTypeOK
  OBVIOUS
<1>1. TypeOK
  BY TypeInit DEF RunInit, TypeInv
<1>2. 1 \in 1..(Count + 1) /\ 0 \in 0..Count
  BY CountAssumption
<1>3. /\ wpc \in [Threads -> {"unstarted", "loop", "next", "pacing", "acquiring",
                              "leased", "executing", "executed", "release", "record",
                              "publish", "done", "crashed"}]
      /\ attempt \in [Threads -> 0..Count]
      /\ decision \in [Threads -> Modes]
      /\ err \in [Threads -> {"none", "closed_early", "other"}]
      /\ resp \in [Threads -> {"none", "keep", "close"}]
      /\ timing \in [Threads -> 0..Count]
      /\ lastTiming \in [Sessions -> 0..Count]
      /\ past \in [Threads -> BOOLEAN]
  BY <1>2 DEF RunInit, Modes
<1>4. samples \in [1..Count -> [outcome : {"none", "answered", "CANCELLED", "failed"},
                                timing : 0..Count]]
  BY <1>2 DEF RunInit, NoSample
<1>5. /\ seq \in 1..(Count + 1) /\ {stop, ended, cancelled, sealed} \subseteq BOOLEAN
      /\ submitted \subseteq 1..Count /\ collected \subseteq 1..Count
      /\ plan \in Plans /\ mpc = "warmup" /\ ending = "normal" /\ tpc = "armed"
  BY <1>2 DEF RunInit
<1> QED BY <1>1, <1>3, <1>4, <1>5 DEF RunTypeOK

\* What has the same type wherever it is kept: the parts of a worker's state.
WorkerTypes ==
    /\ attempt \in [Threads -> 0..Count]
    /\ decision \in [Threads -> Modes]
    /\ err \in [Threads -> {"none", "closed_early", "other"}]
    /\ resp \in [Threads -> {"none", "keep", "close"}]
    /\ timing \in [Threads -> 0..Count]
    /\ lastTiming \in [Sessions -> 0..Count]
    /\ past \in [Threads -> BOOLEAN]

\* And the parts of the run's.
SharedTypes ==
    /\ seq \in 1..(Count + 1)
    /\ stop \in BOOLEAN /\ ended \in BOOLEAN /\ cancelled \in BOOLEAN /\ sealed \in BOOLEAN
    /\ samples \in [1..Count -> [outcome : {"none", "answered", "CANCELLED", "failed"},
                                 timing : 0..Count]]
    /\ submitted \subseteq 1..Count
    /\ collected \subseteq 1..Count

MainTypes ==
    /\ plan \in Plans
    /\ mpc \in {"warmup", "starting", "joining", "finally", "closing", "cancel",
                "cancelStop", "cancelClose", "finish", "collect", "exited"}
    /\ ending \in {"normal", "interrupted", "failed"}
    /\ tpc \in {"armed", "fired", "closing", "off", "gone"}

LEMMA TypesInParts ==
    RunTypeOK <=> /\ TypeOK /\ WorkerTypes /\ SharedTypes /\ MainTypes
                  /\ wpc \in [Threads -> {"unstarted", "loop", "next", "pacing", "acquiring",
                                          "leased", "executing", "executed", "release",
                                          "record", "publish", "done", "crashed"}]
<1>1. {stop, ended, cancelled, sealed} \subseteq BOOLEAN
      <=> stop \in BOOLEAN /\ ended \in BOOLEAN /\ cancelled \in BOOLEAN /\ sealed \in BOOLEAN
  OBVIOUS
<1> QED BY <1>1 DEF RunTypeOK, WorkerTypes, SharedTypes, MainTypes

WithAttempt == {"pacing", "acquiring", "leased", "executing", "executed", "release",
                "record", "publish", "crashed"}

(***************************************************************************)
(* Whose attempt is whose: a number is with one worker at most; it has a   *)
(* sample if and only if it was taken and no worker is still at it.        *)
(***************************************************************************)
Numbered ==
    /\ \A w \in Threads :
          /\ attempt[w] < seq
          /\ wpc[w] \in {"unstarted", "loop", "next"} => attempt[w] = 0
          /\ wpc[w] \in WithAttempt => attempt[w] # 0
    /\ \A w, v \in Threads : attempt[w] # 0 /\ attempt[w] = attempt[v] => w = v
    /\ \A n \in 1..Count :
          samples[n] # NoSample <=>
              n < seq /\ \A w \in Threads : attempt[w] = n => wpc[w] = "publish"

LEMMA NumberedInit == RunInit => Numbered
<1> SUFFICES ASSUME RunInit PROVE Numbered
  OBVIOUS
<1>1. seq = 1 /\ Count \in Nat /\ \A w \in Threads : attempt[w] = 0 /\ wpc[w] = "unstarted"
  BY CountAssumption DEF RunInit
<1>2. \A n \in 1..Count : samples[n] = NoSample /\ ~(n < seq)
  BY <1>1 DEF RunInit
<1> QED BY <1>1, <1>2 DEF Numbered, WithAttempt

LEMMA WorkerTyped ==
    ASSUME RunTypeOK, TypeInv, Placed, Numbered, NEW w \in Threads, WorkerStep(w)
    PROVE  WorkerTypes' /\ SharedTypes' /\ MainTypes'
<1>0. WorkerTypes /\ SharedTypes /\ MainTypes /\ Count \in Nat
  BY TypesInParts, CountAssumption
<1>1. MainTypes'
  <2>1. UNCHANGED mainVars
    BY DEF WorkerStep, TopOfLoop, NoMoreAttempts, NextAttempt, Pace, InAcquire, OpenConnection,
       Leases, AcquireFails, AbortAfterHeaders, ExecuteRefused, ExecuteBegins, ExecuteAnswers,
       ExecuteFails, AbortDuringResponse, GiveLeaseBack, Record, Publish, ownVars, restVars
  <2> QED BY <1>0, <2>1 DEF MainTypes, mainVars
<1>2. CASE \/ TopOfLoop(w) \/ NoMoreAttempts(w) \/ Pace(w) \/ InAcquire(w)
           \/ ExecuteBegins(w) \/ AbortDuringResponse(w) \/ GiveLeaseBack(w)
  <2>1. UNCHANGED <<attemptVars, restVars>>
    BY <1>2 DEF TopOfLoop, NoMoreAttempts, Pace, InAcquire, ExecuteBegins,
       AbortDuringResponse, GiveLeaseBack, ownVars, workerVars, attemptVars
  <2> QED BY <1>0, <1>1, <2>1 DEF WorkerTypes, SharedTypes, attemptVars, restVars, flagVars,
             recordVars
<1>10. CASE Leases(w)
  <2>1. past' \in [Threads -> BOOLEAN]
    BY <1>0, <1>10 DEF Leases, WorkerTypes
  <2> QED BY <1>0, <1>1, <1>10, <2>1 DEF Leases, WorkerTypes, SharedTypes, restVars, flagVars,
             recordVars
<1>3. CASE NextAttempt(w)
  <2>1. seq \in 1..Count /\ seq' = seq + 1
    BY <1>0, <1>3 DEF NextAttempt, NothingLeft, SharedTypes
  <2>2. plan.mode \in Modes /\ "none" \in Modes
    BY <1>0, PlanAssumption DEF Modes, MainTypes
  <2>3. attempt' \in [Threads -> 0..Count] /\ decision' \in [Threads -> Modes]
    BY <1>0, <1>3, <2>1, <2>2 DEF NextAttempt, WorkerTypes
  <2>4. seq' \in 1..(Count + 1)
    BY <1>0, <2>1
  <2> QED BY <1>0, <1>1, <1>3, <2>3, <2>4 DEF NextAttempt, WorkerTypes, SharedTypes, recordVars
<1>4. CASE OpenConnection(w)
  <2>1. PICK s \in Sessions : held' = [held EXCEPT ![w] = s]
    BY <1>4 DEF OpenConnection, CreateSession
  <2>2. held'[w] = s
    BY <2>1 DEF TypeInv, TypeOK
  <2>3. lastTiming' = [lastTiming EXCEPT ![s] = 0]
    BY <1>4, <2>2 DEF OpenConnection
  <2>4. lastTiming' \in [Sessions -> 0..Count]
    BY <1>0, <2>3 DEF WorkerTypes
  <2> QED BY <1>0, <1>1, <1>4, <2>4 DEF OpenConnection, WorkerTypes, SharedTypes, workerVars,
             flagVars, recordVars
<1>5. CASE AcquireFails(w)
  <2>1. err' \in [Threads -> {"none", "closed_early", "other"}]
    BY <1>0, <1>5 DEF AcquireFails, WorkerTypes
  <2> QED BY <1>0, <1>1, <1>5, <2>1 DEF AcquireFails, WorkerTypes, SharedTypes, restVars,
             flagVars, recordVars
<1>6. CASE AbortAfterHeaders(w) \/ ExecuteRefused(w) \/ ExecuteFails(w)
  <2>1. held[w] \in Sessions
    BY <1>6 DEF AbortAfterHeaders, ExecuteRefused, ExecuteFails, Goes, TypeInv, Placed, Fits,
       Holding
  <2>2. lastTiming' \in [Sessions -> 0..Count]
    BY <1>0, <1>6 DEF AbortAfterHeaders, ExecuteRefused, ExecuteFails, Timed, WorkerTypes
  <2>3. lastTiming'[held[w]] \in 0..Count
    BY <2>1, <2>2
  <2>4. \E e \in {"closed_early", "other"} : Raises(w, e)
    BY <1>6 DEF AbortAfterHeaders, ExecuteRefused, ExecuteFails
  <2>5. /\ timing' \in [Threads -> 0..Count]
        /\ err' \in [Threads -> {"none", "closed_early", "other"}]
    BY <1>0, <2>3, <2>4 DEF Raises, WorkerTypes
  <2>6. UNCHANGED <<attempt, decision, resp, flagVars, recordVars>>
        /\ past' \in [Threads -> BOOLEAN]
    BY <1>0, <1>6 DEF AbortAfterHeaders, ExecuteRefused, ExecuteFails, Timed, WorkerTypes
  <2> QED BY <1>0, <1>1, <2>2, <2>5, <2>6 DEF WorkerTypes, SharedTypes, flagVars, recordVars
<1>7. CASE ExecuteAnswers(w)
  <2>1. /\ timing' \in [Threads -> 0..Count] /\ lastTiming' \in [Sessions -> 0..Count]
        /\ resp' \in [Threads -> {"none", "keep", "close"}] /\ past' \in [Threads -> BOOLEAN]
    BY <1>0, <1>7 DEF ExecuteAnswers, Timed, WorkerTypes
  <2> QED BY <1>0, <1>1, <1>7, <2>1 DEF ExecuteAnswers, WorkerTypes, SharedTypes, flagVars,
             recordVars
<1>8. CASE Record(w)
  <2>1. OutcomeOf(w) \in {"answered", "CANCELLED", "failed"} /\ timing[w] \in 0..Count
    BY <1>0 DEF OutcomeOf, WorkerTypes
  <2>2. samples' \in [1..Count -> [outcome : {"none", "answered", "CANCELLED", "failed"},
                                   timing : 0..Count]]
    BY <1>0, <1>8, <2>1 DEF Record, SharedTypes
  <2> QED BY <1>0, <1>1, <1>8, <2>2 DEF Record, WorkerTypes, SharedTypes, attemptVars, flagVars
<1>9. CASE Publish(w)
  <2>1. attempt[w] \in 1..Count
    BY <1>0, <1>9 DEF Publish, Goes, Numbered, WithAttempt, WorkerTypes
  <2>2. submitted' \subseteq 1..Count
    BY <1>0, <1>9, <2>1 DEF Publish, SharedTypes
  <2>3. 0 \in 0..Count /\ "none" \in Modes
    BY <1>0 DEF Modes
  <2>4. WorkerTypes'
    BY <1>0, <1>9, <2>3 DEF Publish, WorkerTypes
  <2> QED BY <1>0, <1>1, <1>9, <2>2, <2>4 DEF Publish, SharedTypes, flagVars
<1> QED BY <1>2, <1>3, <1>4, <1>5, <1>6, <1>7, <1>8, <1>9, <1>10 DEF WorkerStep

LEMMA ElseTyped ==
    ASSUME RunTypeOK, ElseSteps
    PROVE  WorkerTypes' /\ SharedTypes' /\ MainTypes' /\ wpc' = wpc
<1>0. WorkerTypes /\ SharedTypes /\ MainTypes
  BY TypesInParts
<1>1. UNCHANGED elseVars
  BY DEF ElseSteps, WarmupEnds, AllStarted, JoinAll, StopTimer, RunReturns, CancelFlags,
     CancelStops, CancelReturns, SealCollector, Report, StartFails, Interrupt, TimerFires,
     TimerStops, TimerEnds, DurationEnds, Stop
<1>2. WorkerTypes' /\ wpc' = wpc /\ plan' = plan
  BY <1>0, <1>1 DEF WorkerTypes, elseVars, workerVars
<1>3. /\ seq' = seq /\ samples' = samples /\ submitted' = submitted
      /\ stop' \in BOOLEAN /\ ended' \in BOOLEAN /\ cancelled' \in BOOLEAN /\ sealed' \in BOOLEAN
      /\ collected' \in {collected, submitted}
  BY <1>0 DEF ElseSteps, WarmupEnds, AllStarted, JoinAll, StopTimer, RunReturns, CancelFlags,
     CancelStops, CancelReturns, SealCollector, Report, StartFails, Interrupt, TimerFires,
     TimerStops, TimerEnds, DurationEnds, Stop, SharedTypes, flagVars, recordVars
<1>4. MainTypes'
  BY <1>0, <1>2 DEF ElseSteps, WarmupEnds, AllStarted, JoinAll, StopTimer, RunReturns,
     CancelFlags, CancelStops, CancelReturns, SealCollector, Report, StartFails, Interrupt,
     TimerFires, TimerStops, TimerEnds, DurationEnds, Stop, MainTypes, MainGoes, mainVars
<1> QED BY <1>0, <1>2, <1>3, <1>4 DEF SharedTypes

LEMMA RunTypeStep ==
    ASSUME RunTypeOK, TypeInv, TypeInv', Placed, Placed', Numbered, [RunNext]_runVars
    PROVE  RunTypeOK'
<1>0. WorkerTypes /\ SharedTypes /\ MainTypes
  BY TypesInParts
<1>1. WorkerTypes' /\ SharedTypes' /\ MainTypes'
  <2>1. CASE \E w \in Threads : WorkerStep(w)
    BY <2>1, WorkerTyped
  <2>2. CASE ElseSteps
    BY <2>2, ElseTyped
  <2>3. CASE CloseSteps \/ UNCHANGED runVars \/ \E w \in Threads : StartThread(w)
    <3>1. UNCHANGED <<attemptVars, restVars>>
      BY <2>3 DEF CloseSteps, MainCloses, TimerCloses, StartThread, runVars, ownVars,
         workerVars, attemptVars
    <3> QED BY <1>0, <3>1 DEF WorkerTypes, SharedTypes, MainTypes, attemptVars, restVars,
               flagVars, recordVars, mainVars
  <2> QED BY <2>1, <2>2, <2>3, StepCases
<1>2. TypeOK' /\ wpc' \in [Threads -> {"unstarted", "loop", "next", "pacing", "acquiring",
                                       "leased", "executing", "executed", "release",
                                       "record", "publish", "done", "crashed"}]
  BY DEF TypeInv, Placed, InPool
<1>3. {stop', ended', cancelled', sealed'} \subseteq BOOLEAN
  BY <1>1 DEF SharedTypes
<1> QED BY <1>1, <1>2, <1>3 DEF RunTypeOK, WorkerTypes, SharedTypes, MainTypes

-----------------------------------------------------------------------------
(* Whose attempt is whose. *)

LEMMA WorkerNumbered ==
    ASSUME RunTypeOK, Placed, Numbered, NEW w \in Threads, WorkerStep(w)
    PROVE  Numbered'
<1>0. WorkerTypes /\ SharedTypes /\ MainTypes /\ Count \in Nat
  BY TypesInParts, CountAssumption
<1>1. wpc[w] = wpc[w] /\ seq \in Nat /\ \A v \in Threads : attempt[v] \in Nat
  BY <1>0 DEF SharedTypes, WorkerTypes
<1>2. ASSUME NEW place \in {"done", "next", "acquiring", "leased", "executing", "executed",
                            "release", "record", "crashed"},
             wpc' = [wpc EXCEPT ![w] = place], wpc[w] # "publish",
             place = "next" => wpc[w] = "loop",
             place \notin {"next", "done"} => wpc[w] \in WithAttempt,
             UNCHANGED <<attempt, seq, samples>>
      PROVE  Numbered'
  <2>1. \A v \in Threads : wpc'[v] = IF v = w THEN place ELSE wpc[v]
    BY <1>2 DEF Placed
  <2>2. \A n \in 1..Count :
            (\A v \in Threads : attempt[v] = n => wpc'[v] = "publish")
            <=> \A v \in Threads : attempt[v] = n => wpc[v] = "publish"
    BY <1>2, <2>1
  <2> QED BY <1>2, <2>1, <2>2 DEF Numbered, WithAttempt
<1>3. CASE TopOfLoop(w) \/ NoMoreAttempts(w)
  BY <1>2, <1>3 DEF TopOfLoop, NoMoreAttempts, Goes, attemptVars, restVars, flagVars, recordVars
<1>4. CASE Pace(w)
  BY <1>2, <1>4 DEF Pace, CallsAcquire, Goes, attemptVars, restVars, flagVars, recordVars,
     WithAttempt
<1>5. CASE InAcquire(w) \/ OpenConnection(w)
  BY <1>5 DEF InAcquire, OpenConnection, ownVars, workerVars, restVars, flagVars, recordVars,
     Numbered
<1>6. CASE \/ Leases(w) \/ AcquireFails(w) \/ ExecuteBegins(w) \/ AbortDuringResponse(w)
           \/ GiveLeaseBack(w) \/ AbortAfterHeaders(w) \/ ExecuteRefused(w)
           \/ ExecuteAnswers(w) \/ ExecuteFails(w)
  BY <1>2, <1>6 DEF Leases, AcquireFails, ExecuteBegins, AbortDuringResponse, GiveLeaseBack,
     AbortAfterHeaders, ExecuteRefused, ExecuteAnswers, ExecuteFails, Goes, attemptVars,
     restVars, flagVars, recordVars, WithAttempt
<1>7. CASE NextAttempt(w)
  <2>1. seq' = seq + 1 /\ attempt' = [attempt EXCEPT ![w] = seq] /\ samples' = samples
    BY <1>7 DEF NextAttempt, recordVars
  <2>2. wpc[w] = "next" /\ \E place \in {"pacing", "acquiring"} : wpc' = [wpc EXCEPT ![w] = place]
    BY <1>7 DEF NextAttempt, MayBegin, CallsAcquire, Goes
  <2>3. /\ \A v \in Threads : attempt'[v] = IF v = w THEN seq ELSE attempt[v]
        /\ \A v \in Threads : v # w => wpc'[v] = wpc[v]
        /\ wpc'[w] \in {"pacing", "acquiring"} /\ attempt[w] = 0 /\ seq # 0
    BY <1>0, <2>1, <2>2 DEF WorkerTypes, SharedTypes, Placed, Numbered
  <2>4. ASSUME NEW n \in 1..Count
        PROVE  samples'[n] # NoSample' <=>
                  n < seq' /\ \A v \in Threads : attempt'[v] = n => wpc'[v] = "publish"
    <3>1. CASE n = seq
      BY <1>1, <2>1, <2>3, <3>1 DEF Numbered, NoSample
    <3>2. CASE n # seq
      BY <1>1, <2>1, <2>3, <3>2 DEF Numbered, NoSample
    <3> QED BY <3>1, <3>2
  <2>5. \A v \in Threads :
          /\ attempt'[v] < seq'
          /\ wpc'[v] \in {"unstarted", "loop", "next"} => attempt'[v] = 0
          /\ wpc'[v] \in WithAttempt => attempt'[v] # 0
    BY <1>1, <2>1, <2>3 DEF Numbered
  <2>6. \A u, v \in Threads : attempt'[u] # 0 /\ attempt'[u] = attempt'[v] => u = v
    BY <1>1, <2>3 DEF Numbered
  <2> QED BY <2>4, <2>5, <2>6 DEF Numbered
<1>8. CASE Record(w)
  <2>1. CASE wpc' = [wpc EXCEPT ![w] = "crashed"] /\ UNCHANGED samples
    BY <1>2, <1>8, <2>1 DEF Record, attemptVars, flagVars, WithAttempt
  <2>2. CASE wpc' = [wpc EXCEPT ![w] = "publish"]
    <3>1. /\ samples' = [samples EXCEPT ![attempt[w]] =
                           [outcome |-> OutcomeOf(w), timing |-> timing[w]]]
          /\ UNCHANGED <<attempt, seq>> /\ wpc[w] = "record"
      BY <1>8, <2>2 DEF Record, Placed, attemptVars, flagVars
    <3>2. OutcomeOf(w) # "none"
      BY DEF OutcomeOf
    <3>3. [outcome |-> OutcomeOf(w), timing |-> timing[w]] # NoSample
      BY <3>2 DEF NoSample
    <3>4. attempt[w] \in 1..Count /\ attempt[w] < seq
      BY <1>0, <3>1 DEF Numbered, WithAttempt, WorkerTypes
    <3>5. /\ \A n \in 1..Count : n # attempt[w] => samples'[n] = samples[n]
          /\ samples'[attempt[w]] # NoSample
      BY <1>0, <3>1, <3>3, <3>4 DEF SharedTypes
    <3>6. \A v \in Threads : wpc'[v] = IF v = w THEN "publish" ELSE wpc[v]
      BY <2>2 DEF Placed
    <3>7. \A v \in Threads : attempt[v] = attempt[w] => v = w
      BY <1>1, <3>4 DEF Numbered
    <3>8. ASSUME NEW n \in 1..Count
          PROVE  samples'[n] # NoSample <=>
                    n < seq /\ \A v \in Threads : attempt[v] = n => wpc'[v] = "publish"
      <4>1. CASE n = attempt[w]
        BY <3>4, <3>5, <3>6, <3>7, <4>1
      <4>2. CASE n # attempt[w]
        BY <3>5, <3>6, <4>2 DEF Numbered
      <4> QED BY <4>1, <4>2
    <3> QED BY <3>1, <3>6, <3>8 DEF Numbered, NoSample, WithAttempt
  <2> QED BY <1>8, <2>1, <2>2 DEF Record
<1>9. CASE Publish(w)
  <2>1. /\ UNCHANGED <<seq, samples>> /\ wpc[w] = "publish"
        /\ \A v \in Threads : attempt'[v] = IF v = w THEN 0 ELSE attempt[v]
        /\ \A v \in Threads : wpc'[v] = IF v = w THEN "loop" ELSE wpc[v]
    BY <1>0, <1>9 DEF Publish, Goes, WorkerTypes, Placed, flagVars
  <2>2. ASSUME NEW n \in 1..Count
        PROVE  (\A v \in Threads : attempt'[v] = n => wpc'[v] = "publish")
               <=> \A v \in Threads : attempt[v] = n => wpc[v] = "publish"
    BY <2>1
  <2>3. 0 < seq
    BY <1>0 DEF SharedTypes
  <2> QED BY <2>1, <2>2, <2>3 DEF Numbered, NoSample, WithAttempt
<1> QED BY <1>3, <1>4, <1>5, <1>6, <1>7, <1>8, <1>9 DEF WorkerStep

LEMMA NumberedStep ==
    ASSUME RunTypeOK, Placed, Numbered, [RunNext]_runVars
    PROVE  Numbered'
<1>1. CASE \E w \in Threads : WorkerStep(w)
  BY <1>1, WorkerNumbered
<1>2. CASE \E w \in Threads : StartThread(w)
  <2>1. PICK w \in Threads : StartThread(w)
    BY <1>2
  <2>2. /\ UNCHANGED <<attempt, seq, samples>> /\ wpc[w] = "unstarted"
        /\ \A v \in Threads : wpc'[v] = IF v = w THEN "loop" ELSE wpc[v]
    BY <2>1 DEF StartThread, Goes, Placed, attemptVars, restVars, flagVars, recordVars
  <2>3. ASSUME NEW n \in 1..Count
        PROVE  (\A v \in Threads : attempt[v] = n => wpc'[v] = "publish")
               <=> \A v \in Threads : attempt[v] = n => wpc[v] = "publish"
    BY <2>2
  <2> QED BY <2>2, <2>3 DEF Numbered, NoSample, WithAttempt
<1>3. CASE UNCHANGED <<attempt, wpc, seq, samples>>
  BY <1>3 DEF Numbered, NoSample
<1>4. CASE ElseSteps
  <2>1. UNCHANGED elseVars /\ UNCHANGED <<seq, samples>>
    BY <1>4 DEF ElseSteps, WarmupEnds, AllStarted, JoinAll, StopTimer, RunReturns, CancelFlags,
       CancelStops, CancelReturns, SealCollector, Report, StartFails, Interrupt, TimerFires,
       TimerStops, TimerEnds, DurationEnds, Stop, flagVars, recordVars
  <2> QED BY <2>1, <1>3 DEF elseVars, workerVars
<1>5. CASE CloseSteps \/ UNCHANGED runVars
  BY <1>3, <1>5 DEF CloseSteps, MainCloses, TimerCloses, runVars, ownVars, workerVars, restVars,
     flagVars, recordVars
<1> QED BY <1>1, <1>2, <1>4, <1>5, StepCases

-----------------------------------------------------------------------------
(* Whose timestamps a worker has. *)

\* The attempt ends without an exchange of its own.
Unsent(w) == closed \/ decision[w] = "abort_after_headers"

\* A leased session is usable until the pool is closed; what an exchange of its
\* own does not bring a worker, it has from an attempt that was not sent.
Own(w) ==
    /\ decision[w] \in {"none", plan.mode}
    /\ wpc[w] = "leased" => closed \/ Usable(held[w])
    /\ timing[w] # 0 => wpc[w] \in {"executed", "release", "record", "publish", "crashed"}
    /\ resp[w] # "none" =>
          /\ wpc[w] \in {"executed", "release", "record", "publish"}
          /\ timing[w] = attempt[w] /\ ~past[w]
    /\ timing[w] \notin {0, attempt[w]} => Unsent(w)
    /\ timing[w] # 0 /\ past[w] => Unsent(w)
    /\ wpc[w] = "crashed" => Unsent(w)

OwnSample(n) ==
    samples[n] # NoSample =>
        /\ ForeignTiming(n) => closed \/ plan.mode = "abort_after_headers"
        /\ samples[n].outcome = "answered" => samples[n].timing = n

Sent == (\A w \in Threads : Own(w)) /\ (\A n \in 1..Count : OwnSample(n))

LEMMA SentInit == RunInit => Sent
BY DEF RunInit, Sent, Own, OwnSample

LEMMA ClosedStays == [Next]_vars => (closed => closed')
<1> SUFFICES ASSUME [Next]_vars, closed PROVE closed'
  OBVIOUS
<1>1. CASE UNCHANGED vars
  BY <1>1 DEF vars, poolVars
<1>2. CASE \E c \in Closers : CloserStep(c)
  BY <1>2 DEF CloserStep, CloseAll, CloseAgain, CloseNext, CloseDone, poolVars
<1>3. ASSUME NEW t \in Threads, PoolStepOf(t) PROVE closed' = closed
  BY <1>3 DEF PoolStepOf, BeginAcquire, DeadlinePasses, AcquireStep, AcquireClosed,
     AcquireExpired, AcquireIdle, AcquireReserve, AcquireWait, WakeUp, CreateSession, CreateFails,
     AdmitClosed, AdmitExpired, AdmitUnusable, AdmitSession, Reject, Raise, BeginExecute,
     EndExchange, EndExecute, CloseHeld, GiveBack, Release, ReleaseForgotten, ReleaseLeased,
     poolVars
<1> QED BY <1>1, <1>2, <1>3 DEF Next, PoolStepOf

\* While the pool is open, nobody but its holder ends the use of a leased session.
LEMMA LeasedStaysUsable ==
    ASSUME TypeInv, Ownership, NEW w \in Threads, NEW v \in Threads, v # w,
           PoolStepOf(w) \/ UNCHANGED vars, pc[v] = "leased", Usable(held[v])
    PROVE  held'[v] = held[v] /\ Usable(held[v])'
<1>0. held[v] \in Sessions /\ held \in [Threads -> Sessions \cup {NoSession}]
      /\ status \in [Sessions -> {"open", "spent", "closed"}] /\ TypeOK /\ IdleHealthy
  BY DEF TypeInv, TypeOK, Holding, Ownership
<1>1. held[w] # held[v]
  BY <1>0, NoSessionAssumption DEF Ownership, ExclusiveLease
<1>2. ASSUME held'[v] = held[v], status'[held[v]] = status[held[v]]
      PROVE  held'[v] = held[v] /\ Usable(held[v])'
  BY <1>2 DEF Usable
<1>3. CASE \/ UNCHANGED vars \/ BeginAcquire(w) \/ DeadlinePasses(w) \/ AcquireClosed(w)
           \/ AcquireExpired(w) \/ WakeUp(w) \/ CreateFails(w) \/ BeginExecute(w)
           \/ AdmitSession(w)
  BY <1>2, <1>3 DEF vars, BeginAcquire, DeadlinePasses, AcquireClosed, AcquireExpired, WakeUp,
     CreateFails, BeginExecute, AdmitSession
<1>4. CASE AcquireIdle(w)
  <2>1. PICK k \in 1..Len(idle) :
           PopsTo(k) /\ CloseAbove(k) /\ held' = [held EXCEPT ![w] = idle[k]]
    BY <1>4 DEF AcquireIdle
  <2>2. status' = status
    BY <1>0, <2>1, NothingDiscarded
  <2> QED BY <1>0, <1>2, <2>1, <2>2
<1>5. CASE AcquireReserve(w) \/ AcquireWait(w)
  <2>1. PopsTo(0) /\ CloseAbove(0) /\ held' = held
    BY <1>5 DEF AcquireReserve, AcquireWait
  <2>2. status' = status
    BY <1>0, <2>1, NothingDiscarded
  <2> QED BY <1>2, <2>1, <2>2
<1>6. CASE CreateSession(w)
  <2>1. PICK s \in Sessions, product \in FactoryProducts :
           /\ Fresh(s) /\ status' = [status EXCEPT ![s] = product]
           /\ held' = [held EXCEPT ![w] = s]
    BY <1>6 DEF CreateSession
  <2>2. held[v] # s
    BY <2>1 DEF Fresh
  <2> QED BY <1>0, <1>2, <2>1, <2>2
<1>7. CASE AdmitClosed(w) \/ AdmitExpired(w) \/ AdmitUnusable(w)
  <2>1. Reject(w)
    BY <1>7 DEF AdmitClosed, AdmitExpired, AdmitUnusable
  <2> QED BY <1>0, <1>1, <1>2, <2>1 DEF Reject
<1>8. CASE EndExchange(w) \/ CloseHeld(w)
  BY <1>0, <1>1, <1>2, <1>8 DEF EndExchange, EndExecute, CloseHeld
<1>9. CASE GiveBack(w)
  <2>1. PICK reusable \in BOOLEAN : Release(w, reusable)
    BY <1>9 DEF GiveBack
  <2>2. held'[v] = held[v]
    BY <1>0, <2>1 DEF Release, Drop
  <2>3. status' = status \/ status' = [status EXCEPT ![held[w]] = "closed"]
    BY <2>1 DEF Release, ReleaseForgotten, ReleaseLeased
  <2> QED BY <1>0, <1>1, <1>2, <2>2, <2>3
<1> QED BY <1>3, <1>4, <1>5, <1>6, <1>7, <1>8, <1>9 DEF PoolStepOf, AcquireStep

\* What w leases is usable.
LEMMA LeasedIsUsable ==
    ASSUME TypeInv, Ownership, NEW w \in Threads, AcquireIdle(w) \/ AdmitSession(w)
    PROVE  Usable(held[w])'
<1>0. held \in [Threads -> Sessions \cup {NoSession}] /\ TypeOK /\ IdleHealthy
  BY DEF TypeInv, TypeOK, Ownership
<1>1. CASE AdmitSession(w)
  BY <1>1 DEF AdmitSession, Usable
<1>2. CASE AcquireIdle(w)
  <2>1. PICK k \in 1..Len(idle) :
           PopsTo(k) /\ CloseAbove(k) /\ held' = [held EXCEPT ![w] = idle[k]]
    BY <1>2 DEF AcquireIdle
  <2>2. status' = status /\ Usable(idle[k])
    BY <1>0, <2>1, NothingDiscarded DEF IdleHealthy
  <2> QED BY <1>0, <2>1, <2>2 DEF Usable
<1> QED BY <1>1, <1>2

\* The state of a worker and its session are not another worker's to change.
LEMMA OthersKeepTheirs ==
    ASSUME RunTypeOK, TypeInv, Ownership, Placed, NEW w \in Threads, WorkerStep(w),
           NEW v \in Threads, v # w, Own(v)
    PROVE  Own(v)'
<1>0. WorkerTypes /\ (PoolStepOf(w) \/ UNCHANGED vars)
  BY TypesInParts, WorkerUsesPool
<1>1. plan' = plan /\ (closed => closed')
  <2>1. plan' = plan
    BY DEF WorkerStep, TopOfLoop, NoMoreAttempts, NextAttempt, Pace, InAcquire, OpenConnection,
       Leases, AcquireFails, AbortAfterHeaders, ExecuteRefused, ExecuteBegins, ExecuteAnswers,
       ExecuteFails, AbortDuringResponse, GiveLeaseBack, Record, Publish, ownVars, restVars,
       mainVars
  <2>2. [Next]_vars
    BY <1>0 DEF PoolStepOf, Next
  <2> QED BY <2>1, <2>2, ClosedStays
<1>2. \/ UNCHANGED wpc \/ \E place : wpc' = [wpc EXCEPT ![w] = place]
  BY DEF WorkerStep, TopOfLoop, NoMoreAttempts, NextAttempt, MayBegin, Pace, CallsAcquire,
     InAcquire, OpenConnection, Leases, AcquireFails, AbortAfterHeaders, ExecuteRefused,
     ExecuteBegins, ExecuteAnswers, ExecuteFails, AbortDuringResponse, GiveLeaseBack, Record,
     Publish, Goes, ownVars, workerVars
<1>3. /\ \E n : attempt' = [attempt EXCEPT ![w] = n]
      /\ \E d : decision' = [decision EXCEPT ![w] = d]
  <2>1. attempt = [attempt EXCEPT ![w] = attempt[w]]
        /\ decision = [decision EXCEPT ![w] = decision[w]]
    BY <1>0 DEF WorkerTypes
  <2>2. CASE NextAttempt(w) \/ Publish(w)
    BY <2>2 DEF NextAttempt, Publish
  <2>3. CASE ~(NextAttempt(w) \/ Publish(w))
    <3>1. UNCHANGED <<attempt, decision>>
      BY <2>3 DEF WorkerStep, TopOfLoop, NoMoreAttempts, Pace, InAcquire, OpenConnection,
         Leases, AcquireFails, AbortAfterHeaders, ExecuteRefused, ExecuteBegins, ExecuteAnswers,
         ExecuteFails, AbortDuringResponse, GiveLeaseBack, Record, ownVars, workerVars,
         attemptVars
    <3> QED BY <2>1, <3>1
  <2> QED BY <2>2, <2>3
<1>4. /\ \E r : resp' = [resp EXCEPT ![w] = r]
      /\ \E n : timing' = [timing EXCEPT ![w] = n]
      /\ \E b : past' = [past EXCEPT ![w] = b]
  <2>1. /\ resp = [resp EXCEPT ![w] = resp[w]]
        /\ timing = [timing EXCEPT ![w] = timing[w]]
        /\ past = [past EXCEPT ![w] = past[w]]
    BY <1>0 DEF WorkerTypes
  <2>2. CASE ExecuteAnswers(w) \/ Publish(w)
    BY <2>2 DEF ExecuteAnswers, Timed, Publish
  <2>3. CASE Leases(w)
    BY <2>1, <2>3 DEF Leases
  <2>4. CASE AbortAfterHeaders(w) \/ ExecuteRefused(w) \/ ExecuteFails(w)
    BY <2>1, <2>4 DEF AbortAfterHeaders, ExecuteRefused, ExecuteFails, Raises, Timed
  <2>5. CASE \/ TopOfLoop(w) \/ NoMoreAttempts(w) \/ NextAttempt(w) \/ Pace(w) \/ InAcquire(w)
             \/ OpenConnection(w) \/ AcquireFails(w) \/ ExecuteBegins(w)
             \/ AbortDuringResponse(w) \/ GiveLeaseBack(w) \/ Record(w)
    <3>1. UNCHANGED <<resp, timing, past>>
      BY <2>5 DEF TopOfLoop, NoMoreAttempts, NextAttempt, Pace, InAcquire, OpenConnection,
         AcquireFails, ExecuteBegins, AbortDuringResponse, GiveLeaseBack, Record, ownVars,
         workerVars, attemptVars
    <3> QED BY <2>1, <3>1
  <2> QED BY <2>2, <2>3, <2>4, <2>5 DEF WorkerStep
<1>5. /\ wpc'[v] = wpc[v] /\ attempt'[v] = attempt[v] /\ decision'[v] = decision[v]
      /\ resp'[v] = resp[v] /\ timing'[v] = timing[v] /\ past'[v] = past[v]
  BY <1>0, <1>2, <1>3, <1>4 DEF WorkerTypes, Placed
<1>6. wpc[v] = "leased" => closed' \/ Usable(held[v])'
  <2>1. ASSUME wpc[v] = "leased", ~closed PROVE Usable(held[v])'
    <3>1. pc[v] = "leased" /\ Usable(held[v])
      BY <2>1 DEF Placed, Fits, Own
    <3> QED BY <1>0, <3>1, LeasedStaysUsable
  <2> QED BY <1>1, <2>1
<1> QED BY <1>1, <1>5, <1>6 DEF Own, Unsent

LEMMA WorkerOwn ==
    ASSUME RunTypeOK, TypeInv, TypeInv', Ownership, Placed, Placed', Numbered,
           NEW w \in Threads, WorkerStep(w), Own(w)
    PROVE  Own(w)'
<1>0. WorkerTypes /\ MainTypes /\ (PoolStepOf(w) \/ UNCHANGED vars)
  BY TypesInParts, WorkerUsesPool
<1>1. plan' = plan /\ (closed => closed')
  <2>1. plan' = plan
    BY DEF WorkerStep, TopOfLoop, NoMoreAttempts, NextAttempt, Pace, InAcquire, OpenConnection,
       Leases, AcquireFails, AbortAfterHeaders, ExecuteRefused, ExecuteBegins, ExecuteAnswers,
       ExecuteFails, AbortDuringResponse, GiveLeaseBack, Record, Publish, ownVars, restVars,
       mainVars
  <2>2. [Next]_vars
    BY <1>0 DEF PoolStepOf, Next
  <2> QED BY <2>1, <2>2, ClosedStays
\* A worker that goes on with what it has.
<1>2. ASSUME NEW place, wpc' = [wpc EXCEPT ![w] = place], place \notin {"leased", "crashed"},
             timing[w] # 0 => place \in {"executed", "release", "record", "publish", "crashed"},
             resp[w] # "none" => place \in {"executed", "release", "record", "publish"},
             UNCHANGED <<attempt, decision, resp, timing, past>>
      PROVE  Own(w)'
  <2>1. wpc'[w] = place
    BY <1>2 DEF Placed
  <2> QED BY <1>1, <1>2, <2>1 DEF Own, Unsent
<1>3. CASE TopOfLoop(w) \/ NoMoreAttempts(w) \/ Pace(w) \/ AcquireFails(w) \/ ExecuteBegins(w)
  <2>1. /\ \E place \in {"done", "next", "acquiring", "record", "executing"} :
              wpc' = [wpc EXCEPT ![w] = place]
        /\ wpc[w] \in {"loop", "next", "pacing", "acquiring", "leased"}
        /\ UNCHANGED <<attempt, decision, resp, timing, past>>
    BY <1>3 DEF TopOfLoop, NoMoreAttempts, Pace, CallsAcquire, AcquireFails, ExecuteBegins,
       Goes, attemptVars
  <2>2. timing[w] = 0 /\ resp[w] = "none"
    BY <2>1 DEF Own
  <2> QED BY <1>2, <2>1, <2>2
<1>4. CASE AbortDuringResponse(w) \/ GiveLeaseBack(w)
  <2>1. /\ \E place \in {"release", "record"} : wpc' = [wpc EXCEPT ![w] = place]
        /\ UNCHANGED <<attempt, decision, resp, timing, past>>
    BY <1>4 DEF AbortDuringResponse, GiveLeaseBack, Goes, attemptVars
  <2> QED BY <1>2, <2>1
<1>5. CASE InAcquire(w) \/ OpenConnection(w)
  <2>1. wpc[w] = "acquiring" /\ UNCHANGED workerVars
    BY <1>5 DEF InAcquire, OpenConnection, ownVars
  <2> QED BY <1>1, <2>1 DEF Own, Unsent, workerVars
<1>6. CASE Leases(w)
  <2>1. /\ wpc[w] = "acquiring" /\ wpc'[w] = "leased"
        /\ UNCHANGED <<attempt, decision, resp, timing>>
    BY <1>6 DEF Leases, Goes, Placed
  <2>2. timing[w] = 0 /\ resp[w] = "none"
    BY <2>1 DEF Own
  <2>3. Usable(held[w])'
    BY <1>6, LeasedIsUsable DEF Leases
  <2> QED BY <1>1, <2>1, <2>2, <2>3 DEF Own
<1>7. CASE AbortAfterHeaders(w) \/ ExecuteRefused(w)
  <2>1. /\ wpc[w] = "leased" /\ wpc'[w] = "release"
        /\ UNCHANGED <<attempt, decision, resp>>
    BY <1>7 DEF AbortAfterHeaders, ExecuteRefused, Goes, Placed
  <2>2. resp[w] = "none"
    BY <2>1 DEF Own
  <2>3. Unsent(w)
    BY <1>7, <2>1 DEF AbortAfterHeaders, ExecuteRefused, Own, Unsent
  <2> QED BY <1>1, <2>1, <2>2, <2>3 DEF Own, Unsent
<1>8. CASE ExecuteAnswers(w) \/ ExecuteFails(w)
  <2>1. held[w] \in Sessions
    BY <1>8 DEF ExecuteAnswers, ExecuteFails, Goes, TypeInv, Placed, Fits, Holding
  <2>2. /\ wpc'[w] \in {"executed", "release"} /\ ~past'[w]
        /\ UNCHANGED <<attempt, decision>>
    BY <1>0, <1>8 DEF ExecuteAnswers, ExecuteFails, Timed, Goes, Placed, WorkerTypes
  <2>3. lastTiming'[held[w]] = attempt[w]
    BY <1>0, <1>8, <2>1 DEF ExecuteAnswers, ExecuteFails, Timed, WorkerTypes
  <2>4. timing'[w] = attempt[w]
    <3>1. CASE ExecuteAnswers(w)
      BY <1>0, <3>1 DEF ExecuteAnswers, WorkerTypes
    <3>2. CASE ExecuteFails(w)
      <4>1. timing' = [timing EXCEPT ![w] = lastTiming'[held[w]]]
        BY <3>2 DEF ExecuteFails, Raises
      <4> QED BY <1>0, <2>3, <4>1 DEF WorkerTypes
    <3> QED BY <1>8, <3>1, <3>2
  <2>5. decision[w] \in {"none", plan.mode}
    BY DEF Own
  <2> QED BY <1>1, <2>2, <2>4, <2>5 DEF Own
<1>9. CASE Record(w)
  <2>1. /\ wpc[w] = "record" /\ UNCHANGED <<attempt, decision, resp, timing, past>>
        /\ wpc'[w] = IF OutOfOrder(w) THEN "crashed" ELSE "publish"
    BY <1>9 DEF Record, attemptVars, Placed
  <2>2. OutOfOrder(w) => Unsent(w) /\ resp[w] = "none"
    BY DEF Own, OutOfOrder
  <2> QED BY <1>1, <2>1, <2>2 DEF Own, Unsent
<1>10. CASE Publish(w)
  <2>1. /\ wpc'[w] = "loop" /\ timing'[w] = 0 /\ resp'[w] = "none" /\ decision'[w] = "none"
    BY <1>0, <1>10 DEF Publish, Goes, Placed, WorkerTypes
  <2> QED BY <2>1 DEF Own
<1>11. CASE NextAttempt(w)
  <2>1. /\ wpc[w] = "next" /\ wpc'[w] \in {"pacing", "acquiring"}
        /\ UNCHANGED <<resp, timing, past>> /\ decision'[w] \in {"none", plan.mode}
    BY <1>0, <1>11 DEF NextAttempt, MayBegin, CallsAcquire, Goes, Placed, WorkerTypes
  <2>2. timing[w] = 0 /\ resp[w] = "none"
    BY <2>1 DEF Own
  <2> QED BY <1>1, <2>1, <2>2 DEF Own
<1> QED BY <1>3, <1>4, <1>5, <1>6, <1>7, <1>8, <1>9, <1>10, <1>11 DEF WorkerStep

\* A sample that is not touched stays as good as it was.
LEMMA SampleStays ==
    ASSUME [RunNext]_runVars, NEW n \in 1..Count, OwnSample(n), samples'[n] = samples[n]
    PROVE  OwnSample(n)'
<1>1. plan' = plan
  BY DEF RunNext, MainStep, TimerStep, WorkerStep, TopOfLoop, NoMoreAttempts, NextAttempt, Pace,
     InAcquire, OpenConnection, Leases, AcquireFails, AbortAfterHeaders, ExecuteRefused,
     ExecuteBegins, ExecuteAnswers, ExecuteFails, AbortDuringResponse, GiveLeaseBack, Record,
     Publish, WarmupEnds, StartThread, AllStarted, JoinAll, StopTimer, MainCloses, RunReturns,
     CancelFlags, CancelStops, CancelReturns, SealCollector, Report, TimerStops, TimerCloses,
     TimerEnds, StartFails, Interrupt, TimerFires, DurationEnds, Stop, Terminated, elseVars,
     runVars, ownVars, restVars, mainVars
<1>2. closed => closed'
  BY RunStepUsesPool, ClosedStays
<1> QED BY <1>1, <1>2 DEF OwnSample, ForeignTiming, NoSample

LEMMA SamplesOwn ==
    ASSUME RunTypeOK, Placed, Numbered, Sent, NEW w \in Threads, WorkerStep(w),
           NEW n \in 1..Count
    PROVE  OwnSample(n)'
<1>0. WorkerTypes /\ SharedTypes /\ [RunNext]_runVars /\ OwnSample(n) /\ Own(w)
  BY TypesInParts DEF RunNext, Sent
<1>1. CASE samples' = samples
  BY <1>0, <1>1, SampleStays
<1>2. CASE Record(w) /\ samples' # samples
  <2>1. /\ samples' = [samples EXCEPT ![attempt[w]] =
                         [outcome |-> OutcomeOf(w), timing |-> timing[w]]]
        /\ wpc[w] = "record"
    BY <1>2 DEF Record
  <2>2. CASE n # attempt[w]
    BY <1>0, <2>1, <2>2, SampleStays DEF SharedTypes
  <2>3. CASE n = attempt[w]
    <3>1. samples'[n] = [outcome |-> OutcomeOf(w), timing |-> timing[w]]
      BY <1>0, <2>1, <2>3 DEF SharedTypes
    <3>2. samples'[n].outcome = "answered" => samples'[n].timing = n
      BY <1>0, <2>3, <3>1 DEF OutcomeOf, Own
    <3>3. plan' = plan /\ closed' = closed
      BY <1>2 DEF Record, mainVars, vars, poolVars
    <3>4. samples'[n].timing \notin {0, n} => closed' \/ plan'.mode = "abort_after_headers"
      <4>1. samples'[n].timing = timing[w]
        BY <3>1
      <4>2. timing[w] \notin {0, n} => closed \/ plan.mode = "abort_after_headers"
        BY <1>0, <2>3 DEF Own, Unsent
      <4> QED BY <3>3, <4>1, <4>2
    <3> QED BY <3>2, <3>4 DEF OwnSample, ForeignTiming
  <2> QED BY <2>2, <2>3
<1>3. CASE ~Record(w)
  <2>1. samples' = samples
    BY <1>3 DEF WorkerStep, TopOfLoop, NoMoreAttempts, NextAttempt, Pace, InAcquire,
       OpenConnection, Leases, AcquireFails, AbortAfterHeaders, ExecuteRefused, ExecuteBegins,
       ExecuteAnswers, ExecuteFails, AbortDuringResponse, GiveLeaseBack, Publish, ownVars,
       restVars, recordVars
  <2> QED BY <1>1, <2>1
<1> QED BY <1>1, <1>2, <1>3

\* The threads around the workers change nothing of theirs, but for closing
\* the pool.
LEMMA ElseOwn ==
    ASSUME TypeInv, Ownership, Placed, UNCHANGED <<attemptVars, plan>>,
           \/ UNCHANGED vars \/ CloserStep(Main) \/ CloserStep(Timer),
           NEW w \in Threads, Own(w), wpc' = wpc \/ (wpc'[w] = "loop" /\ wpc[w] = "unstarted")
                                      \/ wpc'[w] = wpc[w]
    PROVE  Own(w)'
<1>1. CASE UNCHANGED vars
  BY <1>1 DEF Own, Unsent, Usable, attemptVars, vars, poolVars
<1>2. CASE CloserStep(Main) \/ CloserStep(Timer)
  <2>1. PICK c \in Closers : CloserStep(c)
    BY <1>2, ClosersAssumption
  <2>2. closed' \/ (held' = held /\ status' = status /\ closed' = closed)
    BY <2>1 DEF CloserStep, CloseAll, CloseAgain, CloseNext, CloseDone, Ownership, poolVars
  <2>3. closed => closed'
    BY <2>1, ClosedStays DEF Next
  <2> QED BY <2>2, <2>3 DEF Own, Unsent, Usable, attemptVars
<1> QED BY <1>1, <1>2

LEMMA SentStep ==
    ASSUME RunTypeOK, TypeInv, TypeInv', Ownership, Placed, Placed', Numbered, Sent,
           [RunNext]_runVars
    PROVE  Sent'
<1>1. CASE \E w \in Threads : WorkerStep(w)
  <2>1. PICK w \in Threads : WorkerStep(w)
    BY <1>1
  <2>2. ASSUME NEW v \in Threads PROVE Own(v)'
    <3>1. CASE v = w
      BY <2>1, <3>1, WorkerOwn DEF Sent
    <3>2. CASE v # w
      BY <2>1, <3>2, OthersKeepTheirs DEF Sent
    <3> QED BY <3>1, <3>2
  <2>3. ASSUME NEW n \in 1..Count PROVE OwnSample(n)'
    BY <2>1, SamplesOwn
  <2> QED BY <2>2, <2>3 DEF Sent
<1>2. CASE ~\E w \in Threads : WorkerStep(w)
  <2>1. UNCHANGED <<attemptVars, plan, samples>>
    BY <1>2, StepCases DEF StartThread, ElseSteps, WarmupEnds, AllStarted, JoinAll, StopTimer,
       RunReturns, CancelFlags, CancelStops, CancelReturns, SealCollector, Report, StartFails,
       Interrupt, TimerFires, TimerStops, TimerEnds, DurationEnds, Stop, CloseSteps, MainCloses,
       TimerCloses, elseVars, runVars, ownVars, workerVars, attemptVars, restVars, recordVars,
       mainVars
  <2>2. UNCHANGED vars \/ CloserStep(Main) \/ CloserStep(Timer)
    BY <1>2, StepCases DEF StartThread, ElseSteps, WarmupEnds, AllStarted, JoinAll, StopTimer,
       RunReturns, CancelFlags, CancelStops, CancelReturns, SealCollector, Report, StartFails,
       Interrupt, TimerFires, TimerStops, TimerEnds, DurationEnds, Stop, CloseSteps, MainCloses,
       TimerCloses, elseVars, runVars
  <2>3. wpc' = wpc \/ \E w \in Threads : wpc[w] = "unstarted" /\ wpc' = [wpc EXCEPT ![w] = "loop"]
    BY <1>2, StepCases DEF StartThread, Goes, ElseSteps, WarmupEnds, AllStarted, JoinAll,
       StopTimer, RunReturns, CancelFlags, CancelStops, CancelReturns, SealCollector, Report,
       StartFails, Interrupt, TimerFires, TimerStops, TimerEnds, DurationEnds, Stop, CloseSteps,
       MainCloses, TimerCloses, elseVars, runVars, ownVars, workerVars
  <2>4. ASSUME NEW v \in Threads PROVE Own(v)'
    <3>1. wpc' = wpc \/ (wpc'[v] = "loop" /\ wpc[v] = "unstarted") \/ wpc'[v] = wpc[v]
      BY <2>3 DEF Placed
    <3> QED BY <2>1, <2>2, <3>1, ElseOwn DEF Sent
  <2>5. ASSUME NEW n \in 1..Count PROVE OwnSample(n)'
    BY <2>1, SampleStays DEF Sent
  <2> QED BY <2>4, <2>5 DEF Sent
<1> QED BY <1>1, <1>2

-----------------------------------------------------------------------------
(* What the collector has. *)

Sampled(n) == samples[n] # NoSample

Reported ==
    /\ \A n \in submitted : n \in 1..Count /\ Sampled(n)
    /\ \A n \in 1..Count : Sampled(n) /\ n \notin submitted =>
          sealed \/ \E w \in Threads : wpc[w] = "publish" /\ attempt[w] = n
    /\ sealed => mpc \in {"collect", "exited"}
    /\ mpc \in {"cancel", "cancelStop", "cancelClose"} => ending = "interrupted"
    /\ ending = "normal" /\ mpc \in {"finally", "closing", "finish", "collect", "exited"} =>
          \A w \in Threads : WorkerEnded(w)
    /\ ending = "normal" /\ mpc \in {"collect", "exited"} =>
          \A n \in 1..Count : Sampled(n) => n \in submitted
    /\ ending = "normal" /\ mpc = "exited" => collected = submitted

LEMMA ReportedInit == RunInit => Reported
BY DEF RunInit, Reported, Sampled

LEMMA WorkerReported ==
    ASSUME RunTypeOK, Placed, Numbered, Reported, NEW w \in Threads, WorkerStep(w)
    PROVE  Reported'
<1>0. WorkerTypes /\ SharedTypes /\ MainTypes /\ Count \in Nat
  BY TypesInParts, CountAssumption
<1>1. UNCHANGED <<mpc, ending, sealed, collected>>
  BY DEF WorkerStep, TopOfLoop, NoMoreAttempts, NextAttempt, Pace, InAcquire, OpenConnection,
     Leases, AcquireFails, AbortAfterHeaders, ExecuteRefused, ExecuteBegins, ExecuteAnswers,
     ExecuteFails, AbortDuringResponse, GiveLeaseBack, Record, Publish, ownVars, restVars,
     mainVars, recordVars
<1>2. ~WorkerEnded(w)
  BY DEF WorkerEnded, WorkerStep, TopOfLoop, NoMoreAttempts, NextAttempt, MayBegin, Pace,
     CallsAcquire, InAcquire, OpenConnection, Leases, AcquireFails, AbortAfterHeaders,
     ExecuteRefused, ExecuteBegins, ExecuteAnswers, ExecuteFails, AbortDuringResponse,
     GiveLeaseBack, Record, Publish, Goes
<1>3. ~(ending = "normal" /\ mpc \in {"finally", "closing", "finish", "collect", "exited"})
  BY <1>2 DEF Reported
<1>4. SUFFICES /\ \A n \in submitted' : n \in 1..Count /\ Sampled(n)'
               /\ \A n \in 1..Count : Sampled(n)' /\ n \notin submitted' =>
                     sealed \/ \E v \in Threads : wpc'[v] = "publish" /\ attempt'[v] = n
  BY <1>1, <1>3 DEF Reported
<1>5. ASSUME UNCHANGED <<samples, submitted>>, wpc[w] # "publish",
             \A v \in Threads : v # w => wpc'[v] = wpc[v] /\ attempt'[v] = attempt[v]
      PROVE  /\ \A n \in submitted' : n \in 1..Count /\ Sampled(n)'
             /\ \A n \in 1..Count : Sampled(n)' /\ n \notin submitted' =>
                   sealed \/ \E v \in Threads : wpc'[v] = "publish" /\ attempt'[v] = n
  BY <1>5 DEF Reported, Sampled, NoSample
<1>6. CASE \/ TopOfLoop(w) \/ NoMoreAttempts(w) \/ Pace(w) \/ Leases(w) \/ AcquireFails(w)
           \/ ExecuteBegins(w) \/ AbortDuringResponse(w) \/ GiveLeaseBack(w)
           \/ AbortAfterHeaders(w) \/ ExecuteRefused(w) \/ ExecuteFails(w) \/ ExecuteAnswers(w)
  <2>1. /\ \E place : wpc' = [wpc EXCEPT ![w] = place]
        /\ wpc[w] # "publish" /\ UNCHANGED <<attempt, samples, submitted>>
    BY <1>6 DEF TopOfLoop, NoMoreAttempts, Pace, CallsAcquire, Leases, AcquireFails,
       ExecuteBegins, AbortDuringResponse, GiveLeaseBack, AbortAfterHeaders, ExecuteRefused,
       ExecuteFails, ExecuteAnswers, Goes, attemptVars, restVars, recordVars
  <2> QED BY <1>5, <2>1 DEF Placed
<1>7. CASE InAcquire(w) \/ OpenConnection(w)
  BY <1>5, <1>7 DEF InAcquire, OpenConnection, ownVars, workerVars, restVars, recordVars
<1>8. CASE NextAttempt(w)
  <2>1. /\ \E place : wpc' = [wpc EXCEPT ![w] = place]
        /\ attempt' = [attempt EXCEPT ![w] = seq]
        /\ wpc[w] # "publish" /\ UNCHANGED <<samples, submitted>>
    BY <1>8 DEF NextAttempt, MayBegin, CallsAcquire, Goes, recordVars
  <2> QED BY <1>0, <1>5, <2>1 DEF Placed, WorkerTypes
<1>9. CASE Record(w)
  <2>1. CASE UNCHANGED samples
    <3>1. wpc[w] # "publish" /\ UNCHANGED <<attempt, submitted>>
          /\ \E place : wpc' = [wpc EXCEPT ![w] = place]
      BY <1>9 DEF Record, attemptVars
    <3> QED BY <1>5, <2>1, <3>1 DEF Placed
  <2>2. CASE /\ samples' = [samples EXCEPT ![attempt[w]] =
                              [outcome |-> OutcomeOf(w), timing |-> timing[w]]]
             /\ wpc' = [wpc EXCEPT ![w] = "publish"]
    <3>1. wpc[w] = "record" /\ UNCHANGED <<attempt, submitted>>
      BY <1>9 DEF Record, attemptVars
    <3>2. attempt[w] \in 1..Count
      BY <1>0, <3>1 DEF Numbered, WithAttempt, WorkerTypes
    <3>3. OutcomeOf(w) # "none"
      BY DEF OutcomeOf
    <3>4. /\ \A n \in 1..Count : n # attempt[w] => samples'[n] = samples[n]
          /\ samples'[attempt[w]] # NoSample
      BY <1>0, <2>2, <3>2, <3>3 DEF SharedTypes, NoSample
    <3>5. wpc'[w] = "publish" /\ \A v \in Threads : v # w => wpc'[v] = wpc[v]
      BY <2>2 DEF Placed
    <3> QED BY <3>1, <3>4, <3>5 DEF Reported, Sampled, NoSample
  <2> QED BY <1>9, <2>1, <2>2 DEF Record
<1>10. CASE Publish(w)
  <2>1. /\ wpc[w] = "publish" /\ UNCHANGED samples
        /\ submitted' = IF sealed THEN submitted ELSE submitted \cup {attempt[w]}
        /\ \A v \in Threads : v # w => wpc'[v] = wpc[v] /\ attempt'[v] = attempt[v]
    BY <1>0, <1>10 DEF Publish, Goes, WorkerTypes, Placed
  <2>2. attempt[w] \in 1..Count /\ attempt[w] < seq
    BY <1>0, <2>1 DEF Numbered, WithAttempt, WorkerTypes
  <2>3. \A v \in Threads : attempt[v] = attempt[w] => v = w
    BY <2>2 DEF Numbered
  <2>4. Sampled(attempt[w])
    BY <2>1, <2>2, <2>3 DEF Numbered, Sampled
  <2> QED BY <2>1, <2>2, <2>4 DEF Reported, Sampled, NoSample
<1> QED BY <1>6, <1>7, <1>8, <1>9, <1>10 DEF WorkerStep

LEMMA ReportedStep ==
    ASSUME RunTypeOK, Placed, Numbered, Reported, [RunNext]_runVars
    PROVE  Reported'
<1>0. WorkerTypes /\ SharedTypes /\ MainTypes
  BY TypesInParts
<1>1. CASE \E w \in Threads : WorkerStep(w)
  BY <1>1, WorkerReported
<1>2. CASE \E w \in Threads : StartThread(w)
  <2>1. PICK w \in Threads : StartThread(w)
    BY <1>2
  <2>2. /\ wpc[w] = "unstarted" /\ mpc = "starting"
        /\ UNCHANGED <<attempt, samples, submitted, sealed, collected, mpc, ending>>
        /\ \A v \in Threads : v # w => wpc'[v] = wpc[v]
    BY <2>1 DEF StartThread, Goes, Placed, attemptVars, restVars, recordVars, mainVars
  <2> QED BY <2>2 DEF Reported, Sampled, NoSample
<1>3. CASE UNCHANGED <<attempt, wpc, samples, submitted, sealed, collected, mpc, ending>>
  BY <1>3 DEF Reported, Sampled, NoSample, WorkerEnded
<1>4. CASE CloseSteps \/ UNCHANGED runVars
  BY <1>3, <1>4 DEF CloseSteps, MainCloses, TimerCloses, runVars, ownVars, workerVars, restVars,
     recordVars, mainVars
<1>5. CASE ElseSteps
  <2>1. UNCHANGED <<attempt, wpc, samples, submitted>>
    BY <1>5 DEF ElseSteps, WarmupEnds, AllStarted, JoinAll, StopTimer, RunReturns, CancelFlags,
       CancelStops, CancelReturns, SealCollector, Report, StartFails, Interrupt, TimerFires,
       TimerStops, TimerEnds, DurationEnds, Stop, elseVars, workerVars, recordVars
  <2> USE <2>1 DEF Reported, Sampled, NoSample, WorkerEnded
  <2>2. CASE WarmupEnds \/ AllStarted
    BY <2>2 DEF WarmupEnds, AllStarted, MainGoes, recordVars
  <2>3. CASE JoinAll \/ StopTimer
    BY <2>3 DEF JoinAll, StopTimer, MainGoes, recordVars
  <2>4. CASE RunReturns \/ CancelFlags \/ CancelStops \/ CancelReturns
    BY <2>4 DEF RunReturns, CancelFlags, CancelStops, CancelReturns, MainGoes, recordVars
  <2>5. CASE StartFails \/ Interrupt
    BY <2>5 DEF StartFails, Interrupt, MainGoes, recordVars
  <2>6. CASE TimerFires \/ TimerStops \/ TimerEnds \/ DurationEnds \/ Stop
    <3>1. UNCHANGED <<sealed, collected, mpc, ending>>
      BY <2>6 DEF TimerFires, TimerStops, TimerEnds, DurationEnds, Stop, recordVars, mainVars
    <3> QED BY <1>3, <3>1
  <2>7. CASE SealCollector
    <3>1. /\ mpc = "finish" /\ sealed' = TRUE /\ UNCHANGED <<collected, ending>>
          /\ mpc' = IF ending = "failed" THEN "exited" ELSE "collect"
      BY <2>7 DEF SealCollector, MainGoes
    <3>2. ASSUME ending = "normal", NEW n \in 1..Count, Sampled(n) PROVE n \in submitted
      BY <3>1, <3>2
    <3> QED BY <3>1, <3>2
  <2>8. CASE Report
    <3>1. /\ mpc = "collect" /\ mpc' = "exited" /\ collected' = submitted
          /\ UNCHANGED <<sealed, ending>>
      BY <2>8 DEF Report, MainGoes
    <3> QED BY <3>1
  <2> QED BY <1>5, <2>2, <2>3, <2>4, <2>5, <2>6, <2>7, <2>8 DEF ElseSteps
<1> QED BY <1>1, <1>2, <1>4, <1>5, StepCases

-----------------------------------------------------------------------------
(* The theorems. *)

RunInv == RunTypeOK /\ Placed /\ Numbered /\ Sent /\ Reported

LEMMA RunInductive == RunSpec => []RunInv
<1>1. RunInit => RunInv
  BY RunTypeInit, PlacedInit, NumberedInit, SentInit, ReportedInit DEF RunInv
<1>2. RunInv /\ TypeInv /\ TypeInv' /\ Ownership /\ [RunNext]_runVars => RunInv'
  <2> SUFFICES ASSUME RunInv, TypeInv, TypeInv', Ownership, [RunNext]_runVars PROVE RunInv'
    OBVIOUS
  <2>1. Placed'
    BY PlacedStep DEF RunInv
  <2>2. RunTypeOK'
    BY <2>1, RunTypeStep DEF RunInv
  <2>3. Numbered' /\ Sent' /\ Reported'
    BY <2>1, NumberedStep, SentStep, ReportedStep DEF RunInv
  <2> QED BY <2>1, <2>2, <2>3 DEF RunInv
<1> QED BY <1>1, <1>2, PoolInRun, PTL DEF RunSpec

\* The variables of a run have their types.
THEOREM RunTyped == RunSpec => []RunTypeOK
<1>1. RunInv => RunTypeOK
  BY DEF RunInv
<1> QED BY <1>1, RunInductive, PTL

(***************************************************************************)
(* However many workers take attempts at once, and wherever a worker is    *)
(* stopped, interrupted or dies, no attempt is handed out or recorded      *)
(* twice, and none vanishes but with the worker that had it.               *)
(***************************************************************************)
THEOREM AttemptsAreConserved == RunSpec => []AttemptConservation
<1>1. RunInv => AttemptConservation
  <2> SUFFICES ASSUME RunInv PROVE AttemptConservation
    OBVIOUS
  <2>0. WorkerTypes /\ SharedTypes /\ Count \in Nat
    BY TypesInParts, CountAssumption DEF RunInv
  <2>1. ASSUME NEW n \in Issued
        PROVE  Cardinality(AtWork(n)) = IF n \in Recorded THEN 0 ELSE 1
    <3>1. n \in 1..Count /\ n < seq
      BY <2>0 DEF Issued, SharedTypes
    <3>2. CASE n \in Recorded
      <4>1. AtWork(n) = {}
        BY <3>1, <3>2 DEF AtWork, Recorded, RunInv, Numbered
      <4> QED BY <3>2, <4>1, FS_EmptySet
    <3>3. CASE n \notin Recorded
      <4>1. PICK w \in Threads : attempt[w] = n /\ wpc[w] # "publish"
        BY <3>1, <3>3 DEF Recorded, RunInv, Numbered
      <4>2. AtWork(n) = {w}
        BY <3>1, <4>1 DEF AtWork, RunInv, Numbered
      <4> QED BY <3>3, <4>2, FS_Singleton
    <3> QED BY <3>2, <3>3
  <2>2. Recorded \subseteq Issued
    BY <2>0 DEF Recorded, Issued, RunInv, Numbered, SharedTypes
  <2>3. \A w \in Threads : attempt[w] \in Issued \cup {0}
    BY <2>0 DEF Issued, RunInv, Numbered, WorkerTypes, SharedTypes
  <2> QED BY <2>1, <2>2, <2>3 DEF AttemptConservation
<1> QED BY <1>1, RunInductive, PTL

(***************************************************************************)
(* Whatever sessions are reused, and whenever the pool is closed, old      *)
(* timestamps kill a worker or get into a sample only where the attempt    *)
(* was never sent: by the fault abort_after_headers or by the closed pool. *)
(***************************************************************************)
THEOREM OldTimingMeansUnsent == RunSpec => []TimingMixesOnlyUnsent
<1>1. RunInv => TimingMixesOnlyUnsent
  BY DEF RunInv, Sent, Own, Unsent, OwnSample, TimingMixesOnlyUnsent, Recorded
<1> QED BY <1>1, RunInductive, PTL

\* No sample is missing in the report of a run that was not interrupted.
THEOREM ReportsAreComplete == RunSpec => []ReportComplete
<1>1. RunInv => ReportComplete
  <2> SUFFICES ASSUME RunInv, mpc = "exited", ending = "normal" PROVE
        collected = Recorded /\ \A w \in Threads : WorkerEnded(w)
    BY DEF ReportComplete
  <2>1. Reported
    BY DEF RunInv
  <2>2. collected = submitted /\ \A w \in Threads : WorkerEnded(w)
    BY <2>1 DEF Reported
  <2>3. submitted = Recorded
    BY <2>1 DEF Reported, Sampled, Recorded
  <2> QED BY <2>2, <2>3
<1> QED BY <1>1, RunInductive, PTL
=============================================================================
