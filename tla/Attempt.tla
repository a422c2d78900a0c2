------------------------------ MODULE Attempt ------------------------------
(***************************************************************************)
(* One attempt of a worker on the clock: WorkExecutor._run_attempt with    *)
(* the deadlines it sets, ConnectionPool.acquire as one caller sees it,    *)
(* TcpTransport._connect_socket over several addresses, the handshake of   *)
(* TlsTransport.connect, and the sends and receives of the exchange.       *)
(*                                                                         *)
(* What WorkExecutor leaves out is here: when things happen.  What it has, *)
(* other workers, close_all and cancellation, is left out here: whether    *)
(* the pool has an idle session, has room or makes the caller wait is open *)
(* each time.                                                              *)
(***************************************************************************)
EXTENDS Integers, FiniteSets

CONSTANTS
    Configs,        \* the plans: scheme, fault mode and budgets in ticks
    MaxAddresses,   \* bound on the addresses a name resolves to
    MaxLag,         \* bound on the ticks that pass while the thread could run
    Horizon         \* bound on the clock

Modes == {"none", "slow_request_body", "short_read_timeout", "connection_churn",
          "abort_after_headers", "abort_during_response"}

ASSUME BoundsAssumption == {MaxAddresses, MaxLag, Horizon} \subseteq Nat
ASSUME ConfigAssumption ==
    \A c \in Configs :
        /\ c.scheme \in {"http", "https"} /\ c.mode \in Modes /\ c.delay \in Nat
        /\ {c.request, c.acquire, c.dns, c.connect, c.tls} \subseteq Nat \ {0}

VARIABLES
    now,        \* the clock: all the clocks the code reads
    lag,        \* the ticks that passed while the thread could run
    cfg,        \* the plan, with the fault of this attempt
    pc,         \* where the attempt is
    stamps,     \* the timestamps _run_attempt takes itself
    session,    \* of the leased session: whether it was used before, its last_timing
    net,        \* connecting: when the lookup, connect, handshake or sleep is due (by),
                \* the addresses left, the error of the last one, the open sockets by
                \* number, the current one (0: a reused session's); and, for the
                \* properties, when the factory was called (opened) and whether it
                \* was the system that gave up on the last call (gaveUp)
    result      \* the error, what the response says, and the sample's outcome,
                \* "refused" if ResultSample does not accept it

clockVars == <<now, lag, cfg>>
attemptVars == <<stamps, session, net, result>>
vars == <<clockVars, pc, attemptVars>>

NoTime == -1
NoTiming == [writeStart |-> NoTime, writeEnd |-> NoTime, firstByte |-> NoTime]
\* What an earlier exchange, before the clock's first tick, left in a session.
OldTiming == [writeStart |-> 0, writeEnd |-> 0, firstByte |-> 0]

Init ==
    /\ now = 1
    /\ lag = 0
    /\ cfg \in Configs
    /\ pc = "start"
    /\ stamps = [workerStart |-> NoTime, acquireStart |-> NoTime, acquireEnd |-> NoTime,
                 completion |-> NoTime]
    /\ session = [reused |-> FALSE, timing |-> NoTiming]
    /\ net = [by |-> NoTime, opened |-> NoTime, left |-> 0, lastError |-> "none",
              sockets |-> {}, sock |-> 0, gaveUp |-> FALSE]
    /\ result = [err |-> "none", resp |-> "none", outcome |-> "none"]

-----------------------------------------------------------------------------
(* Time *)

Budget == IF cfg.mode = "short_read_timeout" THEN cfg.delay ELSE cfg.request

\* Every fault with a delay shortens the deadline.
RequestByAnyDelay ==
    stamps.workerStart + (IF cfg.mode = "slow_request_body" THEN cfg.delay ELSE cfg.request)

\* The deadline is counted from the lease on.
RequestByFromLease == stamps.acquireEnd + Budget

RequestBy == stamps.workerStart + Budget

AcquireBy == stamps.acquireStart + cfg.acquire

\* Until when a blocked thread may stay blocked; a lookup has no limit.
MayBlockUntil ==
    CASE pc = "waiting" -> AcquireBy
      [] pc = "resolving" -> Horizon
      [] pc \in {"connecting", "handshake", "sleeping"} -> net.by
      [] pc \in {"sending", "receiving"} -> RequestBy
      [] OTHER -> 0

\* Time passes for a blocked thread, and to a limit for one that could run.
Tick ==
    /\ pc # "done"
    /\ now < Horizon
    /\ now' = now + 1
    /\ lag' = IF now < MayBlockUntil THEN lag ELSE lag + 1
    /\ lag' <= MaxLag
    /\ UNCHANGED <<cfg, pc, attemptVars>>

-----------------------------------------------------------------------------
Goes(from, to) == pc = from /\ pc' = to /\ UNCHANGED clockVars
Moves(from, to) == Goes(from, to) /\ UNCHANGED attemptVars

(* _run_attempt up to the acquire *)

Start ==
    /\ Goes("start", "apply")
    /\ stamps' = [stamps EXCEPT !.workerStart = now]
    /\ UNCHANGED <<session, net, result>>

Apply ==
    /\ Goes("apply", "acquire")
    /\ stamps' = [stamps EXCEPT !.acquireStart = now]
    /\ UNCHANGED <<session, net, result>>

(* ConnectionPool.acquire *)

\* acquire raises e, with these sockets left open: the attempt has no lease.
NoLease(from, e, open) ==
    /\ Goes(from, "record")
    /\ result' = [result EXCEPT !.err = e]
    /\ net' = [net EXCEPT !.sockets = open]
    /\ UNCHANGED <<stamps, session>>

Expired == now >= AcquireBy

AcquireExpired == Expired /\ NoLease("acquire", "pool_acquire_timeout", net.sockets)

MayTake == ~Expired

AcquireIdle ==
    /\ MayTake
    /\ Goes("acquire", "leased")
    /\ session' = [reused |-> TRUE, timing |-> OldTiming]
    /\ net' = [net EXCEPT !.sockets = {0}]
    /\ UNCHANGED <<stamps, result>>

AcquireWait == MayTake /\ Moves("acquire", "waiting")

\* Notified, or the wait timed out.
WakeUp == Moves("waiting", "acquire")

AcquireReserve ==
    /\ MayTake
    /\ Goes("acquire", "resolving")
    /\ net' = [net EXCEPT !.opened = now, !.by = now + cfg.dns]
    /\ UNCHANGED <<stamps, session, result>>

(* TcpTransport._connect_socket *)

\* No addresses, or a lookup that took too long: DnsFailure.
Resolves(n) ==
    IF now > net.by \/ n = 0 THEN NoLease("resolving", "dns_failure", net.sockets)
    ELSE /\ Goes("resolving", "trying")
         /\ net' = [net EXCEPT !.left = n, !.by = now + cfg.connect]
         /\ UNCHANGED <<stamps, session, result>>

\* A socket for the next address; when the time is over already, ConnectTimeout
\* passes through the loop, which closes the socket on the way.
TryBefore(deadline) ==
    /\ net.left > 0
    /\ IF now >= deadline THEN NoLease("trying", "connect_timeout", net.sockets)
       ELSE /\ Goes("trying", "connecting")
            /\ net' = [net EXCEPT !.sock = @ + 1, !.sockets = @ \cup {net.sock + 1},
                                  !.by = deadline]
            /\ UNCHANGED <<stamps, session, result>>

\* Each address gets the whole time.
TryNextAfresh == TryBefore(now + cfg.connect)

TryNext == TryBefore(net.by)

\* The system has no socket left, which nothing in the loop catches.
NoSocket == net.left > 0 /\ NoLease("trying", "transport_failure", net.sockets)

NoMoreAddresses == net.left = 0 /\ NoLease("trying", net.lastError, net.sockets)

Connects ==
    /\ Goes("connecting", IF cfg.scheme = "https" THEN "wrap" ELSE "admit")
    /\ net' = [net EXCEPT !.gaveUp = FALSE]
    /\ UNCHANGED <<stamps, session, result>>

TryEnds(e, gaveUp, closed) ==
    /\ Goes("connecting", "trying")
    /\ net' = [net EXCEPT !.lastError = e, !.left = @ - 1, !.sockets = @ \ closed,
                          !.gaveUp = gaveUp]
    /\ UNCHANGED <<stamps, session, result>>

\* The connect times out, is refused, or fails in another way.
TryFailing(closed) ==
    \E e \in {"connect_timeout", "connection_refused", "transport_failure"} :
        /\ e = "connect_timeout" => now >= net.by
        /\ TryEnds(e, FALSE, closed)

\* A failed try leaves its socket open.
TryFailsUnclosed == TryFailing({})

TryFails == TryFailing({net.sock})

\* The system has a limit of its own; its ETIMEDOUT is a socket.timeout as well.
TryGivenUp == TryEnds("connect_timeout", TRUE, {net.sock})

(* TlsTransport.connect *)

Wrap ==
    /\ Goes("wrap", "handshake")
    /\ net' = [net EXCEPT !.by = now + cfg.tls]
    /\ UNCHANGED <<stamps, session, result>>

Handshakes == Moves("handshake", "admit")

\* The socket cannot be wrapped, or the handshake fails or times out.
TlsFails ==
    \E at \in {"wrap", "handshake"} : NoLease(at, "tls_failure", net.sockets \ {net.sock})

(* acquire again, with the new session *)

Admit ==
    IF Expired THEN NoLease("admit", "pool_acquire_timeout", net.sockets \ {net.sock})
    ELSE Moves("admit", "leased")

-----------------------------------------------------------------------------
(* _run_attempt with a lease *)

\* The lease is noted; the delay of the fault begins.
Leased ==
    /\ Goes("leased", IF cfg.mode = "slow_request_body" THEN "sleeping" ELSE "execute")
    /\ stamps' = [stamps EXCEPT !.acquireEnd = now]
    /\ net' = [net EXCEPT !.by = now + cfg.delay]
    /\ UNCHANGED <<session, result>>

SleepEnds == now >= net.by /\ Moves("sleeping", "execute")

\* The exchange is over with error e and leaves these times in the session.
ExchangeEnds(from, e, times) ==
    /\ Goes(from, "release")
    /\ result' = [result EXCEPT !.err = e]
    /\ session' = [session EXCEPT !.timing = times]
    /\ UNCHANGED stamps

\* The fault closes the session and raises.
AbortAfterHeaders ==
    /\ cfg.mode = "abort_after_headers"
    /\ ExchangeEnds("execute", "transport_failure", session.timing)
    /\ net' = [net EXCEPT !.sockets = {}]

(* Http1Session.execute *)

Execute ==
    /\ cfg.mode # "abort_after_headers"
    /\ Goes("execute", "send")
    /\ session' = [session EXCEPT !.timing = [NoTiming EXCEPT !.writeStart = now]]
    /\ UNCHANGED <<stamps, net, result>>

\* Only a response leaves its timing in the session.
ExchangeFailsUntimed(from, e) ==
    /\ ExchangeEnds(from, e, IF session.reused THEN OldTiming ELSE NoTiming)
    /\ UNCHANGED net

ExchangeFails(from, e) == ExchangeEnds(from, e, session.timing) /\ UNCHANGED net

\* Before each send and receive _set_timeout looks at the deadline.
Call(from, to, e) ==
    IF now >= RequestBy THEN ExchangeFails(from, e) ELSE Moves(from, to)

Sends == Call("send", "sending", "write_timeout")
Receives == Call("receive", "receiving", "read_timeout")

\* Some or all of the request is sent.
SentPart == Moves("sending", "send")

Sent ==
    /\ Goes("sending", "receive")
    /\ session' = [session EXCEPT !.timing.writeEnd = now]
    /\ UNCHANGED <<stamps, net, result>>

Receiving(to) ==
    /\ Goes("receiving", to)
    /\ session' = [session EXCEPT !.timing.firstByte = IF @ = NoTime THEN now ELSE @]
    /\ UNCHANGED stamps

\* Some of a response comes.
ReceivedPart == Receiving("receive") /\ UNCHANGED <<net, result>>

\* All of it has come.  It ends the session's use or not; the fault closes it.
Received ==
    /\ Receiving("release")
    /\ \E resp \in {"keep", "close"} : result' = [result EXCEPT !.resp = resp]
    /\ net' = [net EXCEPT !.sockets = IF cfg.mode = "abort_during_response" THEN {} ELSE @]

\* A send or receive times out, or the connection or the response is broken.
Breaks ==
    \/ now >= RequestBy /\ ExchangeFails("sending", "write_timeout")
    \/ now >= RequestBy /\ ExchangeFails("receiving", "read_timeout")
    \/ ExchangeFails("sending", "transport_failure")
    \/ ExchangeFails("receiving", "transport_failure")

\* The system gives up on a peer that acknowledges nothing: ETIMEDOUT again.
GivenUp ==
    /\ \/ ExchangeEnds("sending", "write_timeout", session.timing)
       \/ ExchangeEnds("receiving", "read_timeout", session.timing)
    /\ net' = [net EXCEPT !.gaveUp = TRUE]

\* The finally block: the session returns to the pool or is closed.
GiveBack ==
    /\ Goes("release", "record")
    /\ LET reusable == result.resp = "keep" /\ cfg.mode # "connection_churn"
       IN  net' = [net EXCEPT !.sockets = IF reusable THEN @ ELSE {}]
    /\ UNCHANGED <<stamps, session, result>>

(* The sample *)

\* The checks of ResultSample: a time that is there is not before another.
Ordered(a, b) == a = NoTime \/ b = NoTime \/ a <= b

Accepted(s, t, end) ==
    /\ Ordered(s.workerStart, s.acquireStart) /\ Ordered(s.acquireStart, s.acquireEnd)
    /\ Ordered(s.acquireEnd, t.writeStart)
    /\ Ordered(t.writeStart, t.writeEnd) /\ Ordered(t.writeEnd, t.firstByte)
    /\ \A time \in {s.acquireEnd, t.writeStart, t.writeEnd, t.firstByte} : time <= end

Classified ==
    IF result.resp # "none" THEN "answered"
    ELSE IF result.err \in {"connect_timeout", "write_timeout", "read_timeout"} THEN "TIMEOUT"
    ELSE "TRANSPORT_ERROR"

Record ==
    /\ Goes("record", "done")
    /\ stamps' = [stamps EXCEPT !.completion = now]
    /\ result' = [result EXCEPT !.outcome =
                    IF Accepted(stamps, session.timing, now) THEN Classified ELSE "refused"]
    /\ UNCHANGED <<session, net>>

Over == Moves("done", "done")

Next ==
    \/ Tick \/ Start \/ Apply
    \/ AcquireExpired \/ AcquireIdle \/ AcquireWait \/ WakeUp \/ AcquireReserve
    \/ \E n \in 0..MaxAddresses : Resolves(n)
    \/ TryNext \/ NoSocket \/ NoMoreAddresses \/ Connects \/ TryFails \/ TryGivenUp
    \/ Wrap \/ Handshakes \/ TlsFails \/ Admit
    \/ Leased \/ SleepEnds \/ AbortAfterHeaders
    \/ Execute \/ Sends \/ SentPart \/ Sent \/ Receives \/ ReceivedPart \/ Received
    \/ Breaks \/ GivenUp \/ GiveBack \/ Record \/ Over

Spec == Init /\ [][Next]_vars

-----------------------------------------------------------------------------
(* Properties *)

(***************************************************************************)
(* At most one socket is open at a time while addresses are tried, and an  *)
(* attempt keeps one open beyond its end only in the pool, after a         *)
(* complete response that allows it; every way to fail closes it, in the   *)
(* address loop, the handshake, the pool's second look or the exchange.    *)
(***************************************************************************)
NoSocketLost ==
    /\ Cardinality(net.sockets) <= 1
    /\ pc = "trying" => net.sockets = {}
    /\ pc \in {"record", "done"} /\ net.sockets # {} =>
          result.resp = "keep" /\ result.err = "none"

(***************************************************************************)
(* No lease comes after the acquire deadline, although the factory that    *)
(* opens a session knows nothing of it.  What the factory takes has a      *)
(* bound of its own: the name, all its addresses and the handshake never   *)
(* take longer than one lookup's, one connect's and one handshake's        *)
(* budget, since all the addresses share one deadline.  A lookup that took *)
(* longer fails the attempt when it returns; how long it takes has no      *)
(* bound, in the code or here.                                             *)
(***************************************************************************)
LeaseInTime ==
    /\ stamps.acquireEnd # NoTime =>
          stamps.acquireEnd < stamps.acquireStart + cfg.acquire + lag
    /\ pc \in {"trying", "connecting", "wrap"} =>
          now <= net.opened + cfg.dns + cfg.connect + lag
    /\ pc \in {"handshake", "admit"} =>
          now <= net.opened + cfg.dns + cfg.connect + cfg.tls + lag

(***************************************************************************)
(* From the lease on, the attempt is over by its request deadline, or by   *)
(* the end of the injected delay if that is later: the wait for the lease  *)
(* is taken out of the request's time, and no send or receive outlives it. *)
(* With an acquire budget that is not larger than the request's, as in the *)
(* defaults, an attempt without a fault begins its exchange in time.       *)
(***************************************************************************)
EndsInTime ==
    LET slept == stamps.acquireEnd + (IF cfg.mode = "slow_request_body" THEN cfg.delay ELSE 0)
    IN  /\ pc = "done" /\ stamps.acquireEnd # NoTime =>
              stamps.completion <= lag + (IF slept > stamps.workerStart + Budget THEN slept
                                          ELSE stamps.workerStart + Budget)
        /\ /\ cfg.mode = "none" /\ cfg.acquire <= cfg.request
           /\ session.timing.writeStart > 0
           => session.timing.writeStart < stamps.workerStart + cfg.request + lag

(***************************************************************************)
(* An attempt is reported as a TIMEOUT only after the budget the error     *)
(* names was used up, unless the operating system gave up on its last call *)
(* before, and as a pool timeout only after the acquire budget was.        *)
(***************************************************************************)
TimeoutsEarned ==
    pc = "done" =>
        /\ result.outcome = "TIMEOUT" /\ ~net.gaveUp =>
              stamps.completion >= IF result.err = "connect_timeout"
                                   THEN net.opened + cfg.connect
                                   ELSE stamps.workerStart +
                                        (IF cfg.mode = "short_read_timeout" THEN cfg.delay
                                         ELSE cfg.request)
        /\ result.err = "pool_acquire_timeout" =>
              stamps.completion >= stamps.acquireStart + cfg.acquire

(***************************************************************************)
(* ResultSample accepts the timestamps of every attempt that got as far as *)
(* its own exchange, or had none to show: only an abort on a reused        *)
(* session, which carries an earlier exchange's times, is refused.         *)
(***************************************************************************)
OwnTimesAccepted ==
    result.outcome = "refused" => session.reused /\ cfg.mode = "abort_after_headers"
=============================================================================
