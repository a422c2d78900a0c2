--------------------------- MODULE AttemptProofs ---------------------------
(***************************************************************************)
(* Proofs about Attempt, for any plans and budgets, any number of          *)
(* addresses, any lateness and any bound on the clock.  Beside the types,  *)
(* one invariant for each question:                                        *)
(*                                                                         *)
(*   Sockets  which socket is open at each point;                          *)
(*   Timely   how late each point can be reached, and how long a blocked   *)
(*            thread can stay there;                                       *)
(*   Earned   whose time is over when a timeout is on its way;             *)
(*   Stamped  the order of the timestamps, and whose timing the session    *)
(*            has.                                                         *)
(***************************************************************************)
EXTENDS Attempt, FiniteSetTheorems, TLAPS

Errors == {"none", "pool_acquire_timeout", "dns_failure", "connect_timeout",
           "connection_refused", "tls_failure", "write_timeout", "read_timeout",
           "transport_failure"}
Times == Nat \cup {NoTime}

BeforeLease == {"acquire", "waiting", "resolving", "trying", "connecting", "wrap",
                "handshake", "admit"}
InExchange == {"send", "sending", "receive", "receiving"}
WithLease == {"leased", "sleeping", "execute"} \cup InExchange
Points == {"start", "apply", "release", "record", "done"} \cup BeforeLease \cup WithLease

StampsType == [workerStart : Times, acquireStart : Times, acquireEnd : Times,
               completion : Times]
SessionType == [reused : BOOLEAN,
                timing : [writeStart : Times, writeEnd : Times, firstByte : Times]]
NetType == [by : Int, opened : Times, left : Int, lastError : Errors,
            sockets : SUBSET Nat, sock : Nat, gaveUp : BOOLEAN]
ResultType == [err : Errors, resp : {"none", "keep", "close"},
               outcome : {"none", "refused", "answered", "TIMEOUT", "TRANSPORT_ERROR"}]

Typed ==
    /\ now \in Nat /\ lag \in Nat
    /\ cfg \in Configs
    /\ pc \in Points
    /\ stamps \in StampsType
    /\ session \in SessionType
    /\ net \in NetType
    /\ result \in ResultType

LEMMA PlanType ==
    ASSUME Typed
    PROVE  /\ cfg.scheme \in {"http", "https"} /\ cfg.mode \in Modes /\ cfg.delay \in Nat
           /\ cfg.request \in Nat \ {0} /\ cfg.acquire \in Nat \ {0} /\ cfg.dns \in Nat \ {0}
           /\ cfg.connect \in Nat \ {0} /\ cfg.tls \in Nat \ {0}
           /\ Budget \in Nat
           /\ MaxAddresses \in Nat /\ MaxLag \in Nat /\ Horizon \in Nat
<1>1. cfg \in Configs
  BY DEF Typed
<1>2. /\ cfg.scheme \in {"http", "https"} /\ cfg.mode \in Modes /\ cfg.delay \in Nat
      /\ {cfg.request, cfg.acquire, cfg.dns, cfg.connect, cfg.tls} \subseteq Nat \ {0}
  BY <1>1, ConfigAssumption, Zenon
<1>3. Budget \in Nat
  BY <1>2 DEF Budget
<1> QED BY <1>2, <1>3, BoundsAssumption

LEMMA TypedInit == Init => Typed
BY DEF Init, Typed, Points, BeforeLease, WithLease, InExchange, Times, NoTime, NoTiming,
   StampsType, SessionType, NetType, ResultType, Errors

\* Several fields at once.
LEMMA NetUpdates ==
    /\ \A n \in NetType, b \in Int, t \in Times : [n EXCEPT !.opened = t, !.by = b] \in NetType
    /\ \A n \in NetType, b \in Int, k \in Int : [n EXCEPT !.left = k, !.by = b] \in NetType
    /\ \A n \in NetType, k \in Int, set \in SUBSET Nat, e \in Errors, g \in BOOLEAN :
          [n EXCEPT !.lastError = e, !.left = k, !.sockets = set, !.gaveUp = g] \in NetType
    /\ \A n \in NetType, b \in Int, set \in SUBSET Nat, s \in Nat :
          [n EXCEPT !.sock = s, !.sockets = set, !.by = b] \in NetType
<1>1. ASSUME NEW n \in NetType, NEW b \in Int, NEW t \in Times
      PROVE  [n EXCEPT !.opened = t, !.by = b] \in NetType
  BY DEF NetType
<1>2. ASSUME NEW n \in NetType, NEW b \in Int, NEW k \in Int
      PROVE  [n EXCEPT !.left = k, !.by = b] \in NetType
  BY DEF NetType
<1>3. ASSUME NEW n \in NetType, NEW k \in Int, NEW set \in SUBSET Nat, NEW e \in Errors,
             NEW g \in BOOLEAN
      PROVE  [n EXCEPT !.lastError = e, !.left = k, !.sockets = set, !.gaveUp = g] \in NetType
  BY DEF NetType
<1>4. ASSUME NEW n \in NetType, NEW b \in Int, NEW set \in SUBSET Nat, NEW s \in Nat
      PROVE  [n EXCEPT !.sock = s, !.sockets = set, !.by = b] \in NetType
  BY DEF NetType
<1> QED BY <1>1, <1>2, <1>3, <1>4

LEMMA NetTyped ==
    ASSUME Typed
    PROVE  /\ AcquireReserve => net' \in NetType
           /\ (\E n \in 0..MaxAddresses : Resolves(n)) => net' \in NetType
           /\ TryNext => net' \in NetType
           /\ TryFails \/ TryGivenUp => net' \in NetType
           /\ Connects => net' \in NetType
<1>0. /\ net \in NetType /\ now \in Nat /\ now \in Times
      /\ net.by \in Int /\ net.left \in Int /\ net.sock \in Nat /\ net.sockets \in SUBSET Nat
      /\ cfg.dns \in Nat /\ cfg.connect \in Nat /\ MaxAddresses \in Nat
      /\ [net EXCEPT !.sockets = net.sockets] \in NetType
  BY PlanType DEF Typed, NetType, Times
<1>1. AcquireReserve => net' \in NetType
  <2>1. now + cfg.dns \in Int
    BY <1>0
  <2>2. [net EXCEPT !.opened = now, !.by = now + cfg.dns] \in NetType
    BY <1>0, <2>1, NetUpdates
  <2> QED BY <2>2 DEF AcquireReserve
<1>2. ASSUME NEW n \in 0..MaxAddresses, Resolves(n) PROVE net' \in NetType
  <2>1. n \in Int /\ now + cfg.connect \in Int
    BY <1>0
  <2>2. [net EXCEPT !.left = n, !.by = now + cfg.connect] \in NetType
    BY <1>0, <2>1, NetUpdates
  <2> QED BY <1>0, <1>2, <2>2 DEF Resolves, NoLease
<1>3. TryNext => net' \in NetType
  <2>1. net.sock + 1 \in Nat /\ net.sockets \cup {net.sock + 1} \in SUBSET Nat
    BY <1>0
  <2>2. [net EXCEPT !.sock = net.sock + 1, !.sockets = net.sockets \cup {net.sock + 1},
                    !.by = net.by] \in NetType
    BY <1>0, <2>1, NetUpdates
  <2> QED BY <1>0, <2>2 DEF TryNext, TryBefore, NoLease
<1>4. TryFails \/ TryGivenUp => net' \in NetType
  <2>1. /\ net.left - 1 \in Int /\ net.sockets \ {net.sock} \in SUBSET Nat
        /\ {"connect_timeout", "connection_refused", "transport_failure"} \subseteq Errors
    BY <1>0 DEF Errors
  <2>2. \A e \in Errors, g \in BOOLEAN :
            [net EXCEPT !.lastError = e, !.left = net.left - 1,
                        !.sockets = net.sockets \ {net.sock}, !.gaveUp = g] \in NetType
    BY <1>0, <2>1, NetUpdates
  <2>3. ASSUME NEW e \in Errors, NEW g \in BOOLEAN, TryEnds(e, g, {net.sock})
        PROVE  net' \in NetType
    <3>1. net' = [net EXCEPT !.lastError = e, !.left = net.left - 1,
                             !.sockets = net.sockets \ {net.sock}, !.gaveUp = g]
      BY <2>3 DEF TryEnds
    <3> QED BY <2>2, <3>1
  <2>4. TryFails \/ TryGivenUp =>
            \E e \in Errors, g \in BOOLEAN : TryEnds(e, g, {net.sock})
    BY <2>1 DEF TryFails, TryFailing, TryGivenUp
  <2> QED BY <2>3, <2>4
<1>5. Connects => net' \in NetType
  <2>1. [net EXCEPT !.gaveUp = FALSE] \in NetType
    BY <1>0 DEF NetType
  <2> QED BY <2>1 DEF Connects
<1> QED BY <1>1, <1>2, <1>3, <1>4, <1>5

LEMMA TypedStep == Typed /\ [Next]_vars => Typed'
<1> SUFFICES ASSUME Typed, [Next]_vars PROVE Typed'
  OBVIOUS
<1>0. /\ cfg.delay \in Nat /\ cfg.dns \in Nat /\ cfg.connect \in Nat /\ cfg.tls \in Nat
      /\ MaxAddresses \in Nat
  BY PlanType
<1> USE <1>0 DEF Typed, Errors, Points, BeforeLease, WithLease, InExchange, Times, NoTime, NoTiming,
     OldTiming, clockVars, attemptVars, Goes, Moves, StampsType, SessionType, NetType, ResultType
<1>1. CASE Tick
  BY <1>1 DEF Tick
<1>2. CASE Start
  BY <1>2 DEF Start
<1>3. CASE Apply
  BY <1>3 DEF Apply
<1>4. CASE AcquireExpired
  BY <1>4 DEF AcquireExpired, NoLease
<1>5. CASE AcquireIdle
  BY <1>5 DEF AcquireIdle
<1>6. CASE AcquireWait
  BY <1>6 DEF AcquireWait
<1>7. CASE WakeUp
  BY <1>7 DEF WakeUp
<1>8. CASE AcquireReserve
  BY <1>8, NetTyped DEF AcquireReserve
<1>9. CASE \E n \in 0..MaxAddresses : Resolves(n)
  BY <1>9, NetTyped DEF Resolves, NoLease
<1>10. CASE TryNext
  BY <1>10, NetTyped DEF TryNext, TryBefore, NoLease
<1>11. CASE NoSocket
  BY <1>11 DEF NoSocket, NoLease
<1>12. CASE NoMoreAddresses
  BY <1>12 DEF NoMoreAddresses, NoLease
<1>13. CASE Connects
  <2>1. net' \in NetType
    BY <1>13, NetTyped
  <2>2. /\ pc' = "wrap" \/ pc' = "admit"
        /\ UNCHANGED <<now, lag, cfg, stamps, session, result>>
    BY <1>13 DEF Connects
  <2> QED BY <2>1, <2>2
<1>14. CASE TryFails
  <2>1. net' \in NetType
    BY <1>14, NetTyped
  <2>2. pc' = "trying" /\ UNCHANGED <<now, lag, cfg, stamps, session, result>>
    BY <1>14 DEF TryFails, TryFailing, TryEnds
  <2> QED BY <2>1, <2>2
<1>15. CASE Wrap
  BY <1>15 DEF Wrap
<1>16. CASE Handshakes
  BY <1>16 DEF Handshakes
<1>17. CASE TlsFails
  BY <1>17 DEF TlsFails, NoLease
<1>18. CASE Admit
  BY <1>18 DEF Admit, NoLease
<1>19. CASE Leased
  BY <1>19 DEF Leased
<1>20. CASE SleepEnds
  BY <1>20 DEF SleepEnds
<1>21. CASE AbortAfterHeaders
  BY <1>21 DEF AbortAfterHeaders, ExchangeEnds
<1>22. CASE Execute
  BY <1>22 DEF Execute
<1>23. CASE Sends
  BY <1>23 DEF Sends, Call, ExchangeFails, ExchangeEnds
<1>24. CASE SentPart
  BY <1>24 DEF SentPart
<1>25. CASE Sent
  BY <1>25 DEF Sent
<1>26. CASE Receives
  BY <1>26 DEF Receives, Call, ExchangeFails, ExchangeEnds
<1>27. CASE ReceivedPart
  BY <1>27 DEF ReceivedPart, Receiving
<1>28. CASE Received
  BY <1>28 DEF Received, Receiving
<1>29. CASE Breaks
  BY <1>29 DEF Breaks, ExchangeFails, ExchangeEnds
<1>30. CASE GiveBack
  BY <1>30 DEF GiveBack
<1>31. CASE Record
  BY <1>31 DEF Record, Classified
<1>32. CASE Over
  BY <1>32 DEF Over
<1>33. CASE UNCHANGED vars
  BY <1>33 DEF vars
<1>34. CASE TryGivenUp
  <2>1. net' \in NetType
    BY <1>34, NetTyped
  <2>2. pc' = "trying" /\ UNCHANGED <<now, lag, cfg, stamps, session, result>>
    BY <1>34 DEF TryGivenUp, TryEnds
  <2> QED BY <2>1, <2>2
<1>35. CASE GivenUp
  BY <1>35 DEF GivenUp, ExchangeEnds
<1> QED BY <1>1, <1>2, <1>3, <1>4, <1>5, <1>6, <1>7, <1>8, <1>9, <1>10, <1>11, <1>12, <1>13, <1>14, <1>15, <1>16, <1>17, <1>18, <1>19, <1>20, <1>21, <1>22, <1>23, <1>24, <1>25, <1>26, <1>27, <1>28, <1>29, <1>30, <1>31, <1>32, <1>33, <1>34, <1>35 DEF Next

LEMMA Typing == Spec => []Typed
BY TypedInit, TypedStep, PTL DEF Spec

-----------------------------------------------------------------------------
(* Sockets *)

\* Which socket is open at each point, and what the exchange has said by then.
Sockets ==
    /\ pc \in {"start", "apply", "acquire", "waiting", "resolving"} =>
          net.sockets = {} /\ net.sock = 0
    /\ pc = "trying" => net.sockets = {}
    /\ pc \in {"connecting", "wrap", "handshake", "admit"} \cup WithLease =>
          net.sockets = {net.sock}
    /\ pc = "release" => /\ net.sockets \in {{}, {net.sock}}
                         /\ result.err = "none" \/ result.resp = "none"
    /\ pc \in {"record", "done"} =>
          \/ net.sockets = {}
          \/ net.sockets = {net.sock} /\ result.resp = "keep" /\ result.err = "none"
    /\ pc \notin {"release", "record", "done"} => result.err = "none" /\ result.resp = "none"

LEMMA SocketsInit == Init => Sockets
BY DEF Init, Sockets, WithLease, InExchange

LEMMA SocketsStep == Typed /\ Sockets /\ [Next]_vars => Sockets'
<1> SUFFICES ASSUME Typed, Sockets, [Next]_vars PROVE Sockets'
  OBVIOUS
<1>0. net \in NetType /\ result \in ResultType
  BY DEF Typed
<1> USE <1>0 DEF Sockets, WithLease, InExchange, clockVars, attemptVars, Goes, Moves, NetType,
     ResultType
<1>1. CASE Tick
  BY <1>1 DEF Tick
<1>2. CASE Start
  BY <1>2 DEF Start
<1>3. CASE Apply
  BY <1>3 DEF Apply
<1>4. CASE AcquireExpired
  BY <1>4 DEF AcquireExpired, NoLease
<1>5. CASE AcquireIdle
  BY <1>5 DEF AcquireIdle
<1>6. CASE AcquireWait
  BY <1>6 DEF AcquireWait
<1>7. CASE WakeUp
  BY <1>7 DEF WakeUp
<1>8. CASE AcquireReserve
  BY <1>8 DEF AcquireReserve
<1>9. CASE \E n \in 0..MaxAddresses : Resolves(n)
  BY <1>9 DEF Resolves, NoLease
<1>10. CASE TryNext
  <2>1. CASE now >= net.by
    BY <1>10, <2>1 DEF TryNext, TryBefore, NoLease
  <2>2. CASE ~(now >= net.by)
    <3>1. /\ pc = "trying" /\ pc' = "connecting" /\ UNCHANGED result
          /\ net' = [net EXCEPT !.sock = @ + 1, !.sockets = @ \cup {net.sock + 1},
                                !.by = net.by]
      BY <1>10, <2>2 DEF TryNext, TryBefore
    <3>2. net'.sockets = {} \cup {net.sock + 1} /\ net'.sock = net.sock + 1
      BY <3>1
    <3> QED BY <3>1, <3>2
  <2> QED BY <2>1, <2>2
<1>11. CASE NoSocket
  BY <1>11 DEF NoSocket, NoLease
<1>12. CASE NoMoreAddresses
  BY <1>12 DEF NoMoreAddresses, NoLease
<1>13. CASE Connects
  BY <1>13 DEF Connects
<1>14. CASE TryFails
  BY <1>14 DEF TryFails, TryFailing, TryEnds
<1>15. CASE Wrap
  BY <1>15 DEF Wrap
<1>16. CASE Handshakes
  BY <1>16 DEF Handshakes
<1>17. CASE TlsFails
  BY <1>17 DEF TlsFails, NoLease
<1>18. CASE Admit
  BY <1>18 DEF Admit, NoLease
<1>19. CASE Leased
  BY <1>19 DEF Leased
<1>20. CASE SleepEnds
  BY <1>20 DEF SleepEnds
<1>21. CASE AbortAfterHeaders
  BY <1>21 DEF AbortAfterHeaders, ExchangeEnds
<1>22. CASE Execute
  BY <1>22 DEF Execute
<1>23. CASE Sends
  BY <1>23 DEF Sends, Call, ExchangeFails, ExchangeEnds
<1>24. CASE SentPart
  BY <1>24 DEF SentPart
<1>25. CASE Sent
  BY <1>25 DEF Sent
<1>26. CASE Receives
  BY <1>26 DEF Receives, Call, ExchangeFails, ExchangeEnds
<1>27. CASE ReceivedPart
  BY <1>27 DEF ReceivedPart, Receiving
<1>28. CASE Received
  BY <1>28 DEF Received, Receiving
<1>29. CASE Breaks
  BY <1>29 DEF Breaks, ExchangeFails, ExchangeEnds
<1>30. CASE GiveBack
  BY <1>30 DEF GiveBack
<1>31. CASE Record
  BY <1>31 DEF Record, Classified
<1>32. CASE Over
  BY <1>32 DEF Over
<1>33. CASE UNCHANGED vars
  BY <1>33 DEF vars
<1>34. CASE TryGivenUp
  BY <1>34 DEF TryGivenUp, TryEnds
<1>35. CASE GivenUp
  BY <1>35 DEF GivenUp, ExchangeEnds
<1> QED BY <1>1, <1>2, <1>3, <1>4, <1>5, <1>6, <1>7, <1>8, <1>9, <1>10, <1>11, <1>12, <1>13, <1>14, <1>15, <1>16, <1>17, <1>18, <1>19, <1>20, <1>21, <1>22, <1>23, <1>24, <1>25, <1>26, <1>27, <1>28, <1>29, <1>30, <1>31, <1>32, <1>33, <1>34, <1>35 DEF Next

(***************************************************************************)
(* No attempt leaves a socket open, and addresses are tried one socket at  *)
(* a time, for any number of addresses, plan and moment of failure.        *)
(***************************************************************************)
THEOREM AttemptLosesNoSocket == Spec => []NoSocketLost
<1>1. Typed /\ Sockets => NoSocketLost
  <2> SUFFICES ASSUME Typed, Sockets PROVE NoSocketLost
    OBVIOUS
  <2>1. net.sockets = {} \/ net.sockets = {net.sock}
    BY DEF Typed, Sockets, Points, BeforeLease, WithLease
  <2>2. Cardinality({}) = 0 /\ Cardinality({net.sock}) = 1
    BY FS_EmptySet, FS_Singleton
  <2> QED BY <2>1, <2>2 DEF Sockets, NoSocketLost
<1> QED BY <1>1, Typing, SocketsInit, SocketsStep, PTL DEF Spec

-----------------------------------------------------------------------------
(* Deadlines *)

SleptUntil ==
    stamps.acquireEnd + (IF cfg.mode = "slow_request_body" THEN cfg.delay ELSE 0)

LatestEnd == IF SleptUntil > RequestBy THEN SleptUntil ELSE RequestBy

\* How far each point is reached, and up to when a blocked thread may stay.
Timely ==
    /\ pc # "start" => stamps.workerStart \in Nat
    /\ pc = "start" => session.timing.writeStart = NoTime
    /\ pc = "apply" => now <= stamps.workerStart + lag
    /\ pc \notin {"start", "apply"} =>
          stamps.acquireStart \in Nat /\ stamps.acquireStart <= stamps.workerStart + lag
    /\ pc = "resolving" => net.opened \in Nat /\ net.by = net.opened + cfg.dns
    /\ pc \in {"trying", "connecting", "wrap"} =>
          net.opened \in Nat /\ net.by <= net.opened + cfg.dns + cfg.connect
          /\ now <= net.by + lag
    /\ pc = "handshake" => net.by <= net.opened + cfg.dns + cfg.connect + cfg.tls + lag
    /\ pc \in {"handshake", "admit"} =>
          net.opened \in Nat /\ now <= net.opened + cfg.dns + cfg.connect + cfg.tls + lag
    /\ pc \in {"start", "apply", "leased"} \cup BeforeLease => stamps.acquireEnd = NoTime
    /\ pc = "leased" => /\ now < stamps.acquireStart + cfg.acquire + lag
                        /\ now < stamps.workerStart + cfg.acquire + lag
    /\ pc \in {"sleeping", "execute", "release"} \cup InExchange => stamps.acquireEnd \in Nat
    /\ pc = "sleeping" => cfg.mode = "slow_request_body" /\ net.by = SleptUntil
    /\ pc = "execute" /\ cfg.mode = "none" => now < stamps.workerStart + cfg.acquire + lag
    /\ stamps.acquireEnd # NoTime =>
          /\ stamps.acquireEnd < stamps.acquireStart + cfg.acquire + lag
          /\ (IF pc = "done" THEN stamps.completion ELSE now) <= LatestEnd + lag
    /\ cfg.mode = "none" /\ session.timing.writeStart > 0 =>
          session.timing.writeStart < stamps.workerStart + cfg.acquire + lag

LEMMA TimelyInit == Init => Timely
BY DEF Init, Timely, BeforeLease, InExchange, NoTiming, NoTime

LEMMA TimelyStep == Typed /\ Timely /\ [Next]_vars => Timely'
<1> SUFFICES ASSUME Typed, Timely, [Next]_vars PROVE Timely'
  OBVIOUS
<1>0. /\ now \in Nat /\ lag \in Nat /\ stamps \in StampsType /\ session \in SessionType
      /\ net \in NetType
      /\ cfg.delay \in Nat /\ cfg.request \in Nat /\ cfg.acquire \in Nat /\ cfg.dns \in Nat
      /\ cfg.connect \in Nat /\ cfg.tls \in Nat
  BY PlanType DEF Typed
<1> USE <1>0 DEF Timely, BeforeLease, InExchange, clockVars, attemptVars, Goes, Moves,
     StampsType, SessionType, NetType, Times, NoTime, NoTiming, OldTiming, SleptUntil,
     LatestEnd, RequestBy, Budget, AcquireBy, Expired, MayTake
<1>1. CASE Tick
  BY <1>1 DEF Tick, MayBlockUntil
<1>2. CASE Start
  BY <1>2 DEF Start
<1>3. CASE Apply
  BY <1>3 DEF Apply
<1>4. CASE AcquireExpired
  BY <1>4 DEF AcquireExpired, NoLease
<1>5. CASE AcquireIdle
  BY <1>5 DEF AcquireIdle
<1>6. CASE AcquireWait
  BY <1>6 DEF AcquireWait
<1>7. CASE WakeUp
  BY <1>7 DEF WakeUp
<1>8. CASE AcquireReserve
  BY <1>8 DEF AcquireReserve
<1>9. CASE \E n \in 0..MaxAddresses : Resolves(n)
  <2>1. PICK n \in 0..MaxAddresses : Resolves(n)
    BY <1>9
  <2>2. CASE now > net.by \/ n = 0
    BY <2>1, <2>2 DEF Resolves, NoLease
  <2>3. CASE ~(now > net.by \/ n = 0)
    <3>1. net' = [net EXCEPT !.left = n, !.by = now + cfg.connect]
      BY <2>1, <2>3 DEF Resolves
    <3>2. net'.by = now + cfg.connect /\ net'.opened = net.opened
      BY <3>1
    <3> QED BY <2>1, <2>3, <3>2 DEF Resolves
  <2> QED BY <2>2, <2>3
<1>10. CASE TryNext
  BY <1>10 DEF TryNext, TryBefore, NoLease
<1>11. CASE NoSocket
  BY <1>11 DEF NoSocket, NoLease
<1>12. CASE NoMoreAddresses
  BY <1>12 DEF NoMoreAddresses, NoLease
<1>13. CASE Connects
  BY <1>13 DEF Connects
<1>14. CASE TryFails
  BY <1>14 DEF TryFails, TryFailing, TryEnds
<1>15. CASE Wrap
  BY <1>15 DEF Wrap
<1>16. CASE Handshakes
  BY <1>16 DEF Handshakes
<1>17. CASE TlsFails
  BY <1>17 DEF TlsFails, NoLease
<1>18. CASE Admit
  BY <1>18 DEF Admit, NoLease
<1>19. CASE Leased
  BY <1>19 DEF Leased
<1>20. CASE SleepEnds
  BY <1>20 DEF SleepEnds
<1>21. CASE AbortAfterHeaders
  BY <1>21 DEF AbortAfterHeaders, ExchangeEnds
<1>22. CASE Execute
  BY <1>22 DEF Execute
<1>23. CASE Sends
  BY <1>23 DEF Sends, Call, ExchangeFails, ExchangeEnds
<1>24. CASE SentPart
  BY <1>24 DEF SentPart
<1>25. CASE Sent
  BY <1>25 DEF Sent
<1>26. CASE Receives
  BY <1>26 DEF Receives, Call, ExchangeFails, ExchangeEnds
<1>27. CASE ReceivedPart
  BY <1>27 DEF ReceivedPart, Receiving
<1>28. CASE Received
  BY <1>28 DEF Received, Receiving
<1>29. CASE Breaks
  BY <1>29 DEF Breaks, ExchangeFails, ExchangeEnds
<1>30. CASE GiveBack
  BY <1>30 DEF GiveBack
<1>31. CASE Record
  BY <1>31 DEF Record, Classified
<1>32. CASE Over
  BY <1>32 DEF Over
<1>33. CASE UNCHANGED vars
  BY <1>33 DEF vars
<1>34. CASE TryGivenUp
  BY <1>34 DEF TryGivenUp, TryEnds
<1>35. CASE GivenUp
  BY <1>35 DEF GivenUp, ExchangeEnds
<1> QED BY <1>1, <1>2, <1>3, <1>4, <1>5, <1>6, <1>7, <1>8, <1>9, <1>10, <1>11, <1>12, <1>13, <1>14, <1>15, <1>16, <1>17, <1>18, <1>19, <1>20, <1>21, <1>22, <1>23, <1>24, <1>25, <1>26, <1>27, <1>28, <1>29, <1>30, <1>31, <1>32, <1>33, <1>34, <1>35 DEF Next

LEMMA TimelyAlways == Spec => [](Typed /\ Timely)
BY TypedInit, TypedStep, TimelyInit, TimelyStep, PTL DEF Spec

(***************************************************************************)
(* Leases come before the acquire deadline and factories take no longer    *)
(* than the budgets of their parts, but for the thread's own lateness,     *)
(* whatever the budgets and however many addresses.                        *)
(***************************************************************************)
THEOREM LeasesComeInTime == Spec => []LeaseInTime
<1>1. Typed /\ Timely => LeaseInTime
  <2> SUFFICES ASSUME Typed, Timely PROVE LeaseInTime
    OBVIOUS
  <2>1. /\ now \in Nat /\ lag \in Nat /\ net.by \in Int /\ net.opened \in Times
        /\ cfg.dns \in Nat /\ cfg.connect \in Nat /\ cfg.tls \in Nat
    BY PlanType DEF Typed, NetType
  <2> QED BY <2>1 DEF Timely, LeaseInTime, Times, NoTime
<1> QED BY <1>1, TimelyAlways, PTL

(***************************************************************************)
(* From its lease on an attempt is over by its request deadline or the end *)
(* of the injected delay, and one without a fault begins its exchange in   *)
(* time, whatever the budgets.                                             *)
(***************************************************************************)
THEOREM AttemptsEndInTime == Spec => []EndsInTime
<1>1. Typed /\ Timely => EndsInTime
  <2> SUFFICES ASSUME Typed, Timely PROVE EndsInTime
    OBVIOUS
  <2>1. /\ lag \in Nat /\ cfg.acquire \in Nat /\ cfg.request \in Nat
        /\ stamps \in StampsType /\ session \in SessionType
    BY PlanType DEF Typed
  <2>2. pc = "done" /\ stamps.acquireEnd # NoTime =>
           stamps.completion <= LatestEnd + lag
    BY DEF Timely
  <2>3. cfg.mode = "none" /\ cfg.acquire <= cfg.request /\ session.timing.writeStart > 0 =>
           session.timing.writeStart < stamps.workerStart + cfg.request + lag
    <3>1. pc = "start" => session.timing.writeStart = NoTime
      BY DEF Timely
    <3>2. stamps.workerStart \in Int /\ session.timing.writeStart \in Int
      BY <2>1 DEF StampsType, SessionType, Times, NoTime
    <3> QED BY <2>1, <3>1, <3>2 DEF Timely
  <2>4. stamps.completion <= LatestEnd + lag => stamps.completion <= lag + LatestEnd
    BY <2>1, PlanType DEF LatestEnd, SleptUntil, RequestBy, StampsType, Times, NoTime
  <2> QED BY <2>2, <2>3, <2>4 DEF EndsInTime, LatestEnd, SleptUntil, RequestBy
<1> QED BY <1>1, TimelyAlways, PTL

-----------------------------------------------------------------------------
(* Errors and the time they come at *)

ErrorsEarned(time) ==
    /\ result.err \in {"write_timeout", "read_timeout"} => net.gaveUp \/ time >= RequestBy
    /\ result.err = "connect_timeout" => net.gaveUp \/ time >= net.opened + cfg.connect
    /\ result.err = "pool_acquire_timeout" => time >= AcquireBy

\* Whose time is over when a timeout is on its way.
Earned ==
    /\ pc \in {"start", "apply", "acquire", "waiting", "resolving"} => net.lastError = "none"
    /\ pc = "resolving" => net.opened \in Nat /\ net.opened <= now
    /\ pc \in {"trying", "connecting"} =>
          /\ net.opened \in Nat /\ net.by >= net.opened + cfg.connect
          /\ net.lastError = "connect_timeout" => net.gaveUp \/ now >= net.by
          /\ net.lastError \in {"none", "connect_timeout", "connection_refused",
                                "transport_failure"}
    /\ pc \notin {"release", "record", "done"} => result.err = "none"
    /\ pc \in {"release", "record"} => ErrorsEarned(now)
    /\ pc = "done" =>
          /\ ErrorsEarned(stamps.completion)
          /\ result.outcome = "TIMEOUT" =>
                result.err \in {"connect_timeout", "write_timeout", "read_timeout"}

LEMMA EarnedInit == Init => Earned
BY DEF Init, Earned

LEMMA EarnedStep == Typed /\ Earned /\ [Next]_vars => Earned'
<1> SUFFICES ASSUME Typed, Earned, [Next]_vars PROVE Earned'
  OBVIOUS
<1>0. /\ now \in Nat /\ stamps \in StampsType /\ net \in NetType /\ result \in ResultType
      /\ cfg.delay \in Nat /\ cfg.request \in Nat /\ cfg.acquire \in Nat /\ cfg.dns \in Nat
      /\ cfg.connect \in Nat
  BY PlanType DEF Typed
<1> USE <1>0 DEF Earned, ErrorsEarned, clockVars, attemptVars, Goes, Moves, StampsType,
     NetType, ResultType, Times, NoTime, RequestBy, Budget, AcquireBy, Expired, MayTake
<1>1. CASE Tick
  BY <1>1 DEF Tick
<1>2. CASE Start
  BY <1>2 DEF Start
<1>3. CASE Apply
  BY <1>3 DEF Apply
<1>4. CASE AcquireExpired
  BY <1>4 DEF AcquireExpired, NoLease
<1>5. CASE AcquireIdle
  BY <1>5 DEF AcquireIdle
<1>6. CASE AcquireWait
  BY <1>6 DEF AcquireWait
<1>7. CASE WakeUp
  BY <1>7 DEF WakeUp
<1>8. CASE AcquireReserve
  BY <1>8 DEF AcquireReserve
<1>9. CASE \E n \in 0..MaxAddresses : Resolves(n)
  <2>1. PICK n \in 0..MaxAddresses : Resolves(n)
    BY <1>9
  <2>2. CASE now > net.by \/ n = 0
    BY <2>1, <2>2 DEF Resolves, NoLease
  <2>3. CASE ~(now > net.by \/ n = 0)
    <3>1. net' = [net EXCEPT !.left = n, !.by = now + cfg.connect]
      BY <2>1, <2>3 DEF Resolves
    <3>2. /\ net'.by = now + cfg.connect /\ net'.opened = net.opened
          /\ net'.lastError = net.lastError
      BY <3>1
    <3> QED BY <2>1, <2>3, <3>2 DEF Resolves
  <2> QED BY <2>2, <2>3
<1>10. CASE TryNext
  <2>1. CASE now >= net.by
    BY <1>10, <2>1 DEF TryNext, TryBefore, NoLease
  <2>2. CASE ~(now >= net.by)
    <3>1. /\ pc = "trying" /\ pc' = "connecting" /\ UNCHANGED <<now, cfg, stamps, result>>
          /\ net' = [net EXCEPT !.sock = @ + 1, !.sockets = @ \cup {net.sock + 1},
                                !.by = net.by]
      BY <1>10, <2>2 DEF TryNext, TryBefore
    <3>2. net'.by = net.by /\ net'.opened = net.opened /\ net'.lastError = net.lastError
      BY <3>1
    <3> QED BY <3>1, <3>2
  <2> QED BY <2>1, <2>2
<1>11. CASE NoSocket
  BY <1>11 DEF NoSocket, NoLease
<1>12. CASE NoMoreAddresses
  BY <1>12 DEF NoMoreAddresses, NoLease
<1>13. CASE Connects
  BY <1>13 DEF Connects
<1>14. CASE TryFails
  BY <1>14 DEF TryFails, TryFailing, TryEnds
<1>15. CASE Wrap
  BY <1>15 DEF Wrap
<1>16. CASE Handshakes
  BY <1>16 DEF Handshakes
<1>17. CASE TlsFails
  BY <1>17 DEF TlsFails, NoLease
<1>18. CASE Admit
  BY <1>18 DEF Admit, NoLease
<1>19. CASE Leased
  BY <1>19 DEF Leased
<1>20. CASE SleepEnds
  BY <1>20 DEF SleepEnds
<1>21. CASE AbortAfterHeaders
  BY <1>21 DEF AbortAfterHeaders, ExchangeEnds
<1>22. CASE Execute
  BY <1>22 DEF Execute
<1>23. CASE Sends
  BY <1>23 DEF Sends, Call, ExchangeFails, ExchangeEnds
<1>24. CASE SentPart
  BY <1>24 DEF SentPart
<1>25. CASE Sent
  BY <1>25 DEF Sent
<1>26. CASE Receives
  BY <1>26 DEF Receives, Call, ExchangeFails, ExchangeEnds
<1>27. CASE ReceivedPart
  BY <1>27 DEF ReceivedPart, Receiving
<1>28. CASE Received
  BY <1>28 DEF Received, Receiving
<1>29. CASE Breaks
  BY <1>29 DEF Breaks, ExchangeFails, ExchangeEnds
<1>30. CASE GiveBack
  BY <1>30 DEF GiveBack
<1>31. CASE Record
  BY <1>31 DEF Record, Classified
<1>32. CASE Over
  BY <1>32 DEF Over
<1>33. CASE UNCHANGED vars
  BY <1>33 DEF vars
<1>34. CASE TryGivenUp
  BY <1>34 DEF TryGivenUp, TryEnds
<1>35. CASE GivenUp
  BY <1>35 DEF GivenUp, ExchangeEnds
<1> QED BY <1>1, <1>2, <1>3, <1>4, <1>5, <1>6, <1>7, <1>8, <1>9, <1>10, <1>11, <1>12, <1>13, <1>14, <1>15, <1>16, <1>17, <1>18, <1>19, <1>20, <1>21, <1>22, <1>23, <1>24, <1>25, <1>26, <1>27, <1>28, <1>29, <1>30, <1>31, <1>32, <1>33, <1>34, <1>35 DEF Next

(***************************************************************************)
(* Whatever the plan and the lateness, no attempt is reported as timed out *)
(* before the budget its error names was used up, unless the system gave   *)
(* up on its socket before.                                                *)
(***************************************************************************)
THEOREM TimeoutsAreEarned == Spec => []TimeoutsEarned
<1>1. Earned => TimeoutsEarned
  BY DEF Earned, ErrorsEarned, TimeoutsEarned, RequestBy, Budget, AcquireBy
<1> QED BY <1>1, Typing, EarnedInit, EarnedStep, PTL DEF Spec

-----------------------------------------------------------------------------
(* Timestamps *)

OwnTiming ==
    LET t == session.timing
    IN  /\ stamps.acquireEnd # NoTime /\ t.writeStart # NoTime
        /\ stamps.acquireEnd <= t.writeStart /\ t.writeStart <= now
        /\ t.writeEnd = NoTime => t.firstByte = NoTime
        /\ t.writeEnd # NoTime => t.writeStart <= t.writeEnd /\ t.writeEnd <= now
        /\ t.firstByte # NoTime => t.writeEnd <= t.firstByte /\ t.firstByte <= now

Stale == session.timing = OldTiming /\ session.reused

\* The timestamps in their order, and whose timing the session has.
Stamped ==
    /\ pc # "start" => stamps.workerStart \in Nat /\ stamps.workerStart <= now
    /\ pc \notin {"start", "apply"} =>
          /\ stamps.acquireStart \in Nat
          /\ stamps.workerStart <= stamps.acquireStart /\ stamps.acquireStart <= now
    /\ pc \in {"start", "apply", "leased"} \cup BeforeLease => stamps.acquireEnd = NoTime
    /\ stamps.acquireEnd # NoTime =>
          stamps.acquireStart <= stamps.acquireEnd /\ stamps.acquireEnd <= now
    /\ pc \in {"start", "apply"} \cup BeforeLease => session.timing = NoTiming
    /\ pc \in {"sleeping", "execute"} => stamps.acquireEnd # NoTime
    /\ pc \in {"leased", "sleeping", "execute"} => session.timing = NoTiming \/ Stale
    /\ pc \in InExchange => OwnTiming
    /\ pc \in {"receive", "receiving"} => session.timing.writeEnd # NoTime
    /\ pc \in {"send", "sending"} => session.timing.writeEnd = NoTime
    /\ pc \in {"release", "record"} =>
          \/ session.timing = NoTiming
          \/ OwnTiming
          \/ Stale /\ cfg.mode = "abort_after_headers"
    /\ pc # "done" => result.outcome = "none"
    /\ result.outcome = "refused" => session.reused /\ cfg.mode = "abort_after_headers"

LEMMA StampedInit == Init => Stamped
BY DEF Init, Stamped, BeforeLease, InExchange, NoTiming, NoTime

LEMMA OutcomeLater ==
    ASSUME Typed, NEW from, NEW e, NEW open
    PROVE  /\ NoLease(from, e, open) => result'.outcome = result.outcome
           /\ ExchangeFails(from, e) => result'.outcome = result.outcome
           /\ Received => result'.outcome = result.outcome
BY DEF Typed, ResultType, NoLease, ExchangeFails, ExchangeEnds, Received

LEMMA StampedStep == Typed /\ Stamped /\ [Next]_vars => Stamped'
<1> SUFFICES ASSUME Typed, Stamped, [Next]_vars PROVE Stamped'
  OBVIOUS
<1>0. /\ now \in Nat /\ stamps \in StampsType /\ session \in SessionType
      /\ result \in ResultType
  BY DEF Typed
<1> USE <1>0 DEF Stamped, Stale, OwnTiming, BeforeLease, InExchange, clockVars, attemptVars,
     Goes, Moves, StampsType, SessionType, ResultType, Times, NoTime, NoTiming, OldTiming
<1>a. ASSUME NEW from \in BeforeLease, NEW e, NEW open, NoLease(from, e, open)
      PROVE  Stamped'
  <2>1. result'.outcome = result.outcome
    BY <1>a, OutcomeLater
  <2>2. pc = from /\ pc' = "record" /\ UNCHANGED <<now, cfg, stamps, session>>
    BY <1>a DEF NoLease
  <2> QED BY <2>1, <2>2
<1>b. ASSUME NEW from \in InExchange, NEW e, ExchangeFails(from, e)
      PROVE  Stamped'
  <2>1. result'.outcome = result.outcome
    BY <1>b, OutcomeLater
  <2>2. pc = from /\ pc' = "release" /\ UNCHANGED <<now, cfg, stamps>> /\ session' = session
    BY <1>b DEF ExchangeFails, ExchangeEnds
  <2> QED BY <2>1, <2>2
<1>1. CASE Tick
  BY <1>1 DEF Tick
<1>2. CASE Start
  BY <1>2 DEF Start
<1>3. CASE Apply
  BY <1>3 DEF Apply
<1>4. CASE AcquireExpired
  BY <1>4, <1>a DEF AcquireExpired
<1>5. CASE AcquireIdle
  BY <1>5 DEF AcquireIdle
<1>6. CASE AcquireWait
  BY <1>6 DEF AcquireWait
<1>7. CASE WakeUp
  BY <1>7 DEF WakeUp
<1>8. CASE AcquireReserve
  BY <1>8 DEF AcquireReserve
<1>9. CASE \E n \in 0..MaxAddresses : Resolves(n)
  BY <1>9, <1>a DEF Resolves
<1>10. CASE TryNext
  BY <1>10, <1>a DEF TryNext, TryBefore
<1>11. CASE NoSocket
  BY <1>11, <1>a DEF NoSocket
<1>12. CASE NoMoreAddresses
  BY <1>12, <1>a DEF NoMoreAddresses
<1>13. CASE Connects
  BY <1>13 DEF Connects
<1>14. CASE TryFails
  BY <1>14 DEF TryFails, TryFailing, TryEnds
<1>15. CASE Wrap
  BY <1>15 DEF Wrap
<1>16. CASE Handshakes
  BY <1>16 DEF Handshakes
<1>17. CASE TlsFails
  BY <1>17, <1>a DEF TlsFails
<1>18. CASE Admit
  BY <1>18, <1>a DEF Admit
<1>19. CASE Leased
  BY <1>19 DEF Leased
<1>20. CASE SleepEnds
  BY <1>20 DEF SleepEnds
<1>21. CASE AbortAfterHeaders
  BY <1>21 DEF AbortAfterHeaders, ExchangeEnds
<1>22. CASE Execute
  BY <1>22 DEF Execute
<1>23. CASE Sends
  BY <1>23, <1>b DEF Sends, Call
<1>24. CASE SentPart
  BY <1>24 DEF SentPart
<1>25. CASE Sent
  BY <1>25 DEF Sent
<1>26. CASE Receives
  BY <1>26, <1>b DEF Receives, Call
<1>27. CASE ReceivedPart
  BY <1>27 DEF ReceivedPart, Receiving
<1>28. CASE Received
  <2>1. result'.outcome = result.outcome
    BY <1>28, OutcomeLater
  <2>2. /\ pc = "receiving" /\ pc' = "release" /\ UNCHANGED <<now, cfg, stamps>>
        /\ session' = [session EXCEPT !.timing.firstByte = IF @ = NoTime THEN now ELSE @]
    BY <1>28 DEF Received, Receiving
  <2> QED BY <2>1, <2>2
<1>29. CASE Breaks
  BY <1>29, <1>b DEF Breaks
<1>30. CASE GiveBack
  BY <1>30 DEF GiveBack
<1>31. CASE Record
  BY <1>31 DEF Record, Classified, Accepted, Ordered
<1>32. CASE Over
  BY <1>32 DEF Over
<1>33. CASE UNCHANGED vars
  BY <1>33 DEF vars
<1>34. CASE TryGivenUp
  BY <1>34 DEF TryGivenUp, TryEnds
<1>35. CASE GivenUp
  BY <1>35 DEF GivenUp, ExchangeEnds
<1> QED BY <1>1, <1>2, <1>3, <1>4, <1>5, <1>6, <1>7, <1>8, <1>9, <1>10, <1>11, <1>12, <1>13, <1>14, <1>15, <1>16, <1>17, <1>18, <1>19, <1>20, <1>21, <1>22, <1>23, <1>24, <1>25, <1>26, <1>27, <1>28, <1>29, <1>30, <1>31, <1>32, <1>33, <1>34, <1>35 DEF Next

(***************************************************************************)
(* For every plan, budget and lateness, ResultSample accepts the sample of *)
(* every attempt but an abort before headers on a reused session.          *)
(***************************************************************************)
THEOREM OwnTimesAreAccepted == Spec => []OwnTimesAccepted
<1>1. Stamped => OwnTimesAccepted
  BY DEF Stamped, OwnTimesAccepted
<1> QED BY <1>1, Typing, StampedInit, StampedStep, PTL DEF Spec
=============================================================================
