--------------------------- MODULE ConnectionPool ---------------------------
(***************************************************************************)
(* The bounded connection pool of one HTTP origin:                         *)
(* pool/connection_pool.py, the leases it hands out (pool/lease.py) and    *)
(* the part of a session's life the pool depends on (http/session.py).     *)
(*                                                                         *)
(* One action is one critical section of the pool's condition variable, or *)
(* one step taken outside it: the session factory, an exchange on a leased *)
(* session, and each Http1Session.close of close_all, which runs after the *)
(* lock is given back.  Everything between two actions is a point where    *)
(* the other threads may run.                                              *)
(***************************************************************************)
EXTENDS Integers, Sequences, FiniteSets

CONSTANTS
    Threads,          \* the threads that call ConnectionPool.acquire
    Closers,          \* the threads that call ConnectionPool.close_all
    Sessions,         \* identities of Http1Session objects
    NoSession,        \* the held value of a thread without a session
    Max,              \* max_connections
    TimedThreads,     \* the threads that pass a deadline to acquire
    FactoryProducts   \* the states a session may be in when the factory returns it

ASSUME MaxAssumption == Max \in Nat \ {0}
ASSUME NoSessionAssumption == NoSession \notin Sessions
ASSUME TimedAssumption == TimedThreads \subseteq Threads
ASSUME ProductsAssumption == FactoryProducts \subseteq {"open", "spent"}
ASSUME FiniteAssumption == IsFiniteSet(Threads)

VARIABLES
    idle,     \* _idle: the stack of sessions no thread uses, its top at the end
    leased,   \* _leased: the sessions handed out
    live,     \* _live: connections counted against Max, those being opened included
    closed,   \* _closed
    waiters,  \* the threads queued in the condition variable
    pc,       \* where each thread is in acquire, or with its lease
    held,     \* the session each thread has a reference to
    expired,  \* the threads in acquire whose deadline has passed
    status,   \* "open": reusable; "spent": socket open, not reusable; "closed"
    cpc,      \* where each closer is in close_all
    pending   \* the sessions each closer has still to close, in order

poolVars == <<idle, leased, live, closed, waiters>>
vars == <<idle, leased, live, closed, waiters, pc, held, expired, status, cpc, pending>>

PcStates == {"out", "enter", "wait", "create", "created", "leased", "executing", "used"}

\* The program points inside acquire.
Acquiring == {"enter", "wait", "create", "created"}
\* A thread at these points has a session in hand, and at these a connection
\* is counted in live on its account.
Holding == {"created", "leased", "executing", "used"}
Busy == {"create"} \cup Holding
\* A lease holder outside Http1Session.execute, before or after its exchange.
HasLease == {"leased", "used"}

InSeq(s, q) == \E i \in 1..Len(q) : q[i] = s

\* Http1Session.reusable.
Usable(s) == status[s] = "open"

\* Nobody has a reference to s, so it can stand for a session yet to be made.
Fresh(s) ==
    /\ status[s] = "closed"
    /\ s \notin leased /\ ~InSeq(s, idle)
    /\ \A t \in Threads : held[t] # s
    /\ \A c \in Closers : ~InSeq(s, pending[c])

\* The orders in which iterating over the set S may list its elements.
Orders(S) ==
    {q \in [1..Cardinality(S) -> S] : \A s \in S : \E i \in 1..Cardinality(S) : q[i] = s}

NotifyNobody == UNCHANGED waiters

(***************************************************************************)
(* threading.Condition.notify: takes one thread off the wait set, if there *)
(* is one.  Which one is not part of its contract.                         *)
(***************************************************************************)
Notify ==
    \/ waiters = {} /\ UNCHANGED waiters
    \/ \E w \in waiters : waiters' = waiters \ {w}

NotifyAll == waiters' = {}

Init ==
    /\ idle = <<>>
    /\ leased = {}
    /\ live = 0
    /\ closed = FALSE
    /\ waiters = {}
    /\ pc = [t \in Threads |-> "out"]
    /\ held = [t \in Threads |-> NoSession]
    /\ expired = {}
    /\ status = [s \in Sessions |-> "closed"]
    /\ cpc = [c \in Closers |-> "out"]
    /\ pending = [c \in Closers |-> <<>>]

-----------------------------------------------------------------------------
(* acquire *)

\* A thread calls acquire; a thread has at most one lease in this program.
BeginAcquire(t) ==
    /\ pc[t] = "out"
    /\ pc' = [pc EXCEPT ![t] = "enter"]
    /\ UNCHANGED <<poolVars, held, expired, status, cpc, pending>>

\* The clock goes past the deadline t gave to acquire.
DeadlinePasses(t) ==
    /\ t \in TimedThreads \ expired
    /\ pc[t] \in Acquiring
    /\ expired' = expired \cup {t}
    /\ UNCHANGED <<poolVars, pc, held, status, cpc, pending>>

\* t leaves acquire with an exception and no lease.
Raise(t) ==
    /\ pc' = [pc EXCEPT ![t] = "out"]
    /\ expired' = expired \ {t}

AcquireClosed(t) ==
    /\ pc[t] = "enter"
    /\ closed
    /\ Raise(t)
    /\ UNCHANGED <<poolVars, held, status, cpc, pending>>

AcquireExpired(t) ==
    /\ pc[t] = "enter"
    /\ ~closed
    /\ t \in expired
    /\ Raise(t)
    /\ UNCHANGED <<poolVars, held, status, cpc, pending>>

\* t is past the checks at the head of the critical section.
MayTake(t) == pc[t] = "enter" /\ ~closed /\ t \notin expired

(***************************************************************************)
(* The loop that pops idle sessions ends at the topmost reusable one, at   *)
(* height k, or with an empty stack, k = 0; it has closed those above k.   *)
(***************************************************************************)
PopsTo(k) ==
    /\ k \in 0..Len(idle)
    /\ k > 0 => Usable(idle[k])
    /\ \A j \in (k + 1)..Len(idle) : ~Usable(idle[j])

CloseAbove(k) ==
    status' = [s \in Sessions |->
                 IF \E j \in (k + 1)..Len(idle) : idle[j] = s THEN "closed" ELSE status[s]]

\* The idle stack is a queue: the session idle longest is handed out.
AcquireIdleAndKeepIt(t) ==
    /\ MayTake(t)
    /\ \E k \in 1..Len(idle) :
          /\ PopsTo(k)
          /\ CloseAbove(k)
          /\ leased' = leased \cup {idle[k]}
          /\ held' = [held EXCEPT ![t] = idle[k]]
          /\ idle' = SubSeq(idle, 1, k)
          /\ live' = live - (Len(idle) - k)
    /\ pc' = [pc EXCEPT ![t] = "leased"]
    /\ expired' = expired \ {t}
    /\ UNCHANGED <<closed, waiters, cpc, pending>>

AcquireIdle(t) ==
    /\ MayTake(t)
    /\ \E k \in 1..Len(idle) :
          /\ PopsTo(k)
          /\ CloseAbove(k)
          /\ leased' = leased \cup {idle[k]}
          /\ held' = [held EXCEPT ![t] = idle[k]]
          /\ idle' = SubSeq(idle, 1, k - 1)
          /\ live' = live - (Len(idle) - k)
    /\ pc' = [pc EXCEPT ![t] = "leased"]
    /\ expired' = expired \ {t}
    /\ UNCHANGED <<closed, waiters, cpc, pending>>

\* Nothing idle and room left: t counts its connection and will open it.
AcquireReserve(t) ==
    /\ MayTake(t)
    /\ PopsTo(0)
    /\ CloseAbove(0)
    /\ live - Len(idle) < Max
    /\ idle' = <<>>
    /\ live' = live - Len(idle) + 1
    /\ pc' = [pc EXCEPT ![t] = "create"]
    /\ UNCHANGED <<leased, closed, waiters, held, expired, cpc, pending>>

AcquireWait(t) ==
    /\ MayTake(t)
    /\ PopsTo(0)
    /\ CloseAbove(0)
    /\ live - Len(idle) >= Max
    /\ idle' = <<>>
    /\ live' = live - Len(idle)
    /\ waiters' = waiters \cup {t}
    /\ pc' = [pc EXCEPT ![t] = "wait"]
    /\ UNCHANGED <<leased, closed, held, expired, cpc, pending>>

\* Condition.wait is called without a timeout.
WakeUpNotified(t) ==
    /\ pc[t] = "wait"
    /\ t \notin waiters
    /\ pc' = [pc EXCEPT ![t] = "enter"]
    /\ UNCHANGED <<poolVars, held, expired, status, cpc, pending>>

(***************************************************************************)
(* Condition.wait returns once t was notified or its timeout elapsed.  A   *)
(* thread that timed out stays in the wait set until it has the lock       *)
(* again: until then a notify may still be spent on it.                    *)
(***************************************************************************)
WakeUp(t) ==
    /\ pc[t] = "wait"
    /\ t \notin waiters \/ t \in expired
    /\ waiters' = waiters \ {t}
    /\ pc' = [pc EXCEPT ![t] = "enter"]
    /\ UNCHANGED <<idle, leased, live, closed, held, expired, status, cpc, pending>>

(* The factory runs without the lock. *)

CreateSession(t) ==
    /\ pc[t] = "create"
    /\ \E s \in Sessions, product \in FactoryProducts :
          /\ Fresh(s)
          /\ status' = [status EXCEPT ![s] = product]
          /\ held' = [held EXCEPT ![t] = s]
    /\ pc' = [pc EXCEPT ![t] = "created"]
    /\ UNCHANGED <<poolVars, expired, cpc, pending>>

\* A failed connect frees the slot but tells nobody.
CreateFailsSilently(t) ==
    /\ pc[t] = "create"
    /\ live' = live - 1
    /\ NotifyNobody
    /\ Raise(t)
    /\ UNCHANGED <<idle, leased, closed, held, status, cpc, pending>>

\* A failed connect does not free the slot.
CreateFailsAndLeaks(t) ==
    /\ pc[t] = "create"
    /\ Notify
    /\ Raise(t)
    /\ UNCHANGED <<idle, leased, live, closed, held, status, cpc, pending>>

CreateFails(t) ==
    /\ pc[t] = "create"
    /\ live' = live - 1
    /\ Notify
    /\ Raise(t)
    /\ UNCHANGED <<idle, leased, closed, held, status, cpc, pending>>

\* The slot is freed but the socket left open.
RejectUnclosed(t) ==
    /\ live' = live - 1
    /\ held' = [held EXCEPT ![t] = NoSession]
    /\ Raise(t)
    /\ UNCHANGED <<idle, leased, closed, status, cpc, pending>>

\* The created session is given up: its slot freed, its socket closed.
Reject(t) ==
    /\ live' = live - 1
    /\ status' = [status EXCEPT ![held[t]] = "closed"]
    /\ held' = [held EXCEPT ![t] = NoSession]
    /\ Raise(t)
    /\ UNCHANGED <<idle, leased, closed, cpc, pending>>

AdmitClosed(t) ==
    /\ pc[t] = "created"
    /\ closed
    /\ NotifyAll
    /\ Reject(t)

AdmitExpired(t) ==
    /\ pc[t] = "created"
    /\ ~closed
    /\ t \in expired
    /\ Notify
    /\ Reject(t)

AdmitUnusable(t) ==
    /\ pc[t] = "created"
    /\ ~closed
    /\ t \notin expired
    /\ ~Usable(held[t])
    /\ Notify
    /\ Reject(t)

AdmitSession(t) ==
    /\ pc[t] = "created"
    /\ ~closed
    /\ t \notin expired
    /\ Usable(held[t])
    /\ leased' = leased \cup {held[t]}
    /\ pc' = [pc EXCEPT ![t] = "leased"]
    /\ UNCHANGED <<idle, live, closed, waiters, held, expired, status, cpc, pending>>

-----------------------------------------------------------------------------
(* A leased session. *)

\* Http1Session.execute passed its test and holds the session's lock; the
\* executor runs one exchange per lease.
BeginExecute(t) ==
    /\ pc[t] = "leased"
    /\ Usable(held[t])
    /\ pc' = [pc EXCEPT ![t] = "executing"]
    /\ UNCHANGED <<poolVars, held, expired, status, cpc, pending>>

\* The exchange is over; outcome is "spent" when it failed or the connection
\* is not to be reused.
EndExecute(t, outcome) ==
    /\ pc[t] = "executing"
    /\ status' = [status EXCEPT ![held[t]] = outcome]
    /\ pc' = [pc EXCEPT ![t] = "used"]
    /\ UNCHANGED <<poolVars, held, expired, cpc, pending>>

\* The holder closes the session itself (the abort faults of the executor).
CloseHeld(t) ==
    /\ pc[t] \in HasLease
    /\ status[held[t]] # "closed"
    /\ status' = [status EXCEPT ![held[t]] = "closed"]
    /\ UNCHANGED <<poolVars, pc, held, expired, cpc, pending>>

\* t drops its lease.
Drop(t) ==
    /\ held' = [held EXCEPT ![t] = NoSession]
    /\ pc' = [pc EXCEPT ![t] = "out"]

(***************************************************************************)
(* ConnectionLease.release and ConnectionPool._release.  A session that    *)
(* close_all took out of _leased is left to it.                            *)
(***************************************************************************)
ReleaseForgotten(t) ==
    /\ held[t] \notin leased
    /\ UNCHANGED <<poolVars, status>>

\* The lease's word that the session is reusable is taken for true.
ReleaseTrusting(t, reusable) ==
    /\ held[t] \in leased
    /\ leased' = leased \ {held[t]}
    /\ IF ~closed /\ reusable
       THEN idle' = Append(idle, held[t]) /\ UNCHANGED <<live, status>>
       ELSE /\ live' = live - 1
            /\ status' = [status EXCEPT ![held[t]] = "closed"]
            /\ UNCHANGED idle
    /\ Notify
    /\ UNCHANGED closed

\* The lease forgets its session before it puts it back.
ReleaseForgetting(t, reusable) ==
    /\ held[t] \in leased
    /\ leased' = leased \ {held[t]}
    /\ idle' = Append(idle, NoSession)
    /\ Notify
    /\ UNCHANGED <<live, status, closed>>

ReleaseLeased(t, reusable) ==
    /\ held[t] \in leased
    /\ leased' = leased \ {held[t]}
    /\ IF ~closed /\ reusable /\ Usable(held[t])
       THEN idle' = Append(idle, held[t]) /\ UNCHANGED <<live, status>>
       ELSE /\ live' = live - 1
            /\ status' = [status EXCEPT ![held[t]] = "closed"]
            /\ UNCHANGED idle
    /\ Notify
    /\ UNCHANGED closed

Release(t, reusable) ==
    /\ pc[t] \in HasLease
    /\ ReleaseForgotten(t) \/ ReleaseLeased(t, reusable)
    /\ Drop(t)
    /\ UNCHANGED <<expired, cpc, pending>>

-----------------------------------------------------------------------------
(* close_all *)

\* Only the idle sessions are listed for closing.
CloseAllIdleOnly(c) ==
    /\ cpc[c] = "out"
    /\ ~closed
    /\ closed' = TRUE
    /\ pending' = [pending EXCEPT ![c] = idle]
    /\ idle' = <<>>
    /\ leased' = {}
    /\ live' = 0
    /\ NotifyAll
    /\ cpc' = [cpc EXCEPT ![c] = "closing"]
    /\ UNCHANGED <<pc, held, expired, status>>

\* The waiting threads are not told that the pool closed.
CloseAllSilently(c) ==
    /\ cpc[c] = "out"
    /\ ~closed
    /\ closed' = TRUE
    /\ \E order \in Orders(leased) : pending' = [pending EXCEPT ![c] = idle \o order]
    /\ idle' = <<>>
    /\ leased' = {}
    /\ live' = 0
    /\ NotifyNobody
    /\ cpc' = [cpc EXCEPT ![c] = "closing"]
    /\ UNCHANGED <<pc, held, expired, status>>

CloseAll(c) ==
    /\ cpc[c] = "out"
    /\ ~closed
    /\ closed' = TRUE
    /\ \E order \in Orders(leased) : pending' = [pending EXCEPT ![c] = idle \o order]
    /\ idle' = <<>>
    /\ leased' = {}
    /\ live' = 0
    /\ NotifyAll
    /\ cpc' = [cpc EXCEPT ![c] = "closing"]
    /\ UNCHANGED <<pc, held, expired, status>>

\* The pool is closed already: close_all returns, whatever the first call
\* has still to do.
CloseAgain(c) ==
    /\ cpc[c] = "out"
    /\ closed
    /\ cpc' = [cpc EXCEPT ![c] = "done"]
    /\ UNCHANGED <<poolVars, pc, held, expired, status, pending>>

\* Http1Session.close does not take the session's lock.
CloseNextUnlocked(c) ==
    /\ cpc[c] = "closing"
    /\ pending[c] # <<>>
    /\ status' = [status EXCEPT ![Head(pending[c])] = "closed"]
    /\ pending' = [pending EXCEPT ![c] = Tail(@)]
    /\ UNCHANGED <<poolVars, pc, held, expired, cpc>>

\* Http1Session.close waits for the session's lock, which execute holds.
CloseNext(c) ==
    /\ cpc[c] = "closing"
    /\ pending[c] # <<>>
    /\ \A t \in Threads : pc[t] = "executing" => held[t] # Head(pending[c])
    /\ status' = [status EXCEPT ![Head(pending[c])] = "closed"]
    /\ pending' = [pending EXCEPT ![c] = Tail(@)]
    /\ UNCHANGED <<poolVars, pc, held, expired, cpc>>

CloseDone(c) ==
    /\ cpc[c] = "closing"
    /\ pending[c] = <<>>
    /\ cpc' = [cpc EXCEPT ![c] = "done"]
    /\ UNCHANGED <<poolVars, pc, held, expired, status, pending>>

-----------------------------------------------------------------------------
\* The steps of acquire that its caller waits for.
AcquireStep(t) ==
    \/ AcquireClosed(t) \/ AcquireExpired(t)
    \/ AcquireIdle(t) \/ AcquireReserve(t) \/ AcquireWait(t)
    \/ WakeUp(t)
    \/ CreateSession(t) \/ CreateFails(t)
    \/ AdmitClosed(t) \/ AdmitExpired(t) \/ AdmitUnusable(t) \/ AdmitSession(t)

EndExchange(t) == \E outcome \in {"open", "spent"} : EndExecute(t, outcome)
GiveBack(t) == \E reusable \in BOOLEAN : Release(t, reusable)
LeaseStep(t) == BeginExecute(t) \/ EndExchange(t) \/ CloseHeld(t) \/ GiveBack(t)

CloserStep(c) == CloseAll(c) \/ CloseAgain(c) \/ CloseNext(c) \/ CloseDone(c)

Next ==
    \/ \E t \in Threads :
          \/ BeginAcquire(t) \/ DeadlinePasses(t) \/ AcquireStep(t)
          \/ BeginExecute(t) \/ EndExchange(t) \/ CloseHeld(t) \/ GiveBack(t)
    \/ \E c \in Closers : CloserStep(c)

Spec == Init /\ [][Next]_vars

(***************************************************************************)
(* The operating system runs every thread that can run.  Deadlines pass;   *)
(* the factory returns (connect is under a timeout), an exchange ends (it  *)
(* is under the request deadline) and the executor's finally block gives   *)
(* every lease back.  Nothing makes a thread call acquire or close_all.    *)
(***************************************************************************)
Fairness ==
    /\ \A t \in Threads :
          /\ WF_vars(DeadlinePasses(t))
          /\ WF_vars(AcquireStep(t))
          /\ WF_vars(EndExchange(t))
          /\ WF_vars(GiveBack(t))
    /\ \A c \in Closers : WF_vars(CloseNext(c)) /\ WF_vars(CloseDone(c))

FairSpec == Spec /\ Fairness

-----------------------------------------------------------------------------
(* Properties *)

\* Every variable stays within its type.
TypeOK ==
    /\ idle \in Seq(Sessions)
    /\ leased \subseteq Sessions
    /\ live \in Int
    /\ closed \in BOOLEAN
    /\ waiters \subseteq Threads
    /\ pc \in [Threads -> PcStates]
    /\ held \in [Threads -> Sessions \cup {NoSession}]
    /\ expired \subseteq TimedThreads
    /\ status \in [Sessions -> {"open", "spent", "closed"}]
    /\ cpc \in [Closers -> {"out", "closing", "done"}]
    /\ pending \in [Closers -> Seq(Sessions)]

BusyThreads == {t \in Threads : pc[t] \in Busy}
Creating == {t \in Threads : pc[t] = "create"}
OpenSessions == {s \in Sessions : status[s] # "closed"}

(***************************************************************************)
(* Until the pool closes, live counts exactly the idle sessions and the    *)
(* threads that are opening, have or use one: no path of acquire, of a     *)
(* failed creation or of a release loses or duplicates a slot.             *)
(***************************************************************************)
Accounting == ~closed => live = Len(idle) + Cardinality(BusyThreads)

(***************************************************************************)
(* max_connections bounds the sockets that exist or are being opened, at   *)
(* every moment and also after close_all has reset the counter to zero     *)
(* with connections still in use.                                          *)
(***************************************************************************)
SocketBound == Cardinality(OpenSessions) + Cardinality(Creating) <= Max

(***************************************************************************)
(* A session is handed to one thread at a time, is not in the idle stack   *)
(* while a thread has it, and is in the stack at most once.                *)
(***************************************************************************)
ExclusiveLease ==
    /\ \A t, u \in Threads : t # u /\ held[t] # NoSession => held[t] # held[u]
    /\ \A t \in Threads : ~InSeq(held[t], idle)
    /\ \A i, j \in 1..Len(idle) : i # j => idle[i] # idle[j]

(***************************************************************************)
(* Whatever lies in the idle stack can serve the next request: releasing a *)
(* spent or aborted session never puts it back, although the caller may    *)
(* say it is reusable.                                                     *)
(***************************************************************************)
IdleHealthy == \A i \in 1..Len(idle) : Usable(idle[i])

(***************************************************************************)
(* Every open socket has someone who will close or reuse it: the idle      *)
(* stack, a thread, or a closer's list.  In particular a session released  *)
(* after close_all, which release ignores, is on the closer's list.        *)
(***************************************************************************)
NoOrphanSocket ==
    \A s \in OpenSessions :
        \/ InSeq(s, idle)
        \/ \E t \in Threads : held[t] = s
        \/ \E c \in Closers : InSeq(s, pending[c])

\* The threads on their way to look at the pool's state.
Awake == {t \in Threads : pc[t] = "enter" \/ (pc[t] = "wait" /\ t \notin waiters)}

(***************************************************************************)
(* As long as threads wait, there are at least as many threads on their    *)
(* way to the pool as idle sessions and free slots: no thread sleeps       *)
(* beside a connection it could have.  Each release and each failed        *)
(* creation wakes one thread for the one unit of capacity it frees.        *)
(***************************************************************************)
NoStrandedWaiter ==
    ~closed /\ waiters # {} => Len(idle) + (Max - live) <= Cardinality(Awake)

(***************************************************************************)
(* A closed pool winds down: every waiting thread is woken and every       *)
(* socket is closed, those still being opened or used at the time included.*)
(***************************************************************************)
CloseDrains == closed ~> (waiters = {} /\ OpenSessions = {})

(***************************************************************************)
(* acquire returns to a caller that gave a deadline: with a lease or with  *)
(* an exception.                                                           *)
(***************************************************************************)
TimedAcquireReturns ==
    \A t \in TimedThreads : pc[t] \in Acquiring ~> pc[t] \notin Acquiring

(***************************************************************************)
(* The pool as its users see it.  A session is lent from the moment        *)
(* acquire returns it until the lease is released.                         *)
(***************************************************************************)
Lent == {"leased", "executing", "used"}
Lease == [t \in Threads |-> IF pc[t] \in Lent THEN held[t] ELSE NoSession]
Using == {t \in Threads : pc[t] = "executing"}

Promise == INSTANCE PoolPromise WITH lease <- Lease, using <- Using, health <- status

(***************************************************************************)
(* With its stack, its counter, the factory that runs without the lock,    *)
(* the deadlines and the closes of close_all behind everybody's back, the  *)
(* pool keeps the promise: every step is one of the promise's or invisible *)
(* to its users.                                                           *)
(***************************************************************************)
KeepsPromise == Promise!PromiseSpec
=============================================================================
