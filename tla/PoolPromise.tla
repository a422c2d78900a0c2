---------------------------- MODULE PoolPromise ----------------------------
(***************************************************************************)
(* What a pool of connections promises to the threads that use it, without *)
(* saying how: no stack, no counter, no waiting and no lock.               *)
(*                                                                         *)
(* A session is lent to one thread at a time, able to serve a request at   *)
(* the moment it is lent; it is not closed under an exchange; one that is  *)
(* given back and cannot serve another request is closed, unless the pool  *)
(* is being closed anyway; nothing is lent from a closed pool; and there   *)
(* are never more than Max connections.                                    *)
(***************************************************************************)
EXTENDS Naturals, FiniteSets

CONSTANTS Threads, Sessions, NoSession, Max

VARIABLES
    lease,   \* the session lent to each thread
    using,   \* the threads in an exchange
    health,  \* "open": able to serve a request; "spent"; "closed"
    closed   \* the pool is closed, or closing

promiseVars == <<lease, using, health, closed>>

Free(s) == \A t \in Threads : lease[t] # s
Connections == {s \in Sessions : health[s] # "closed"}

PromiseInit ==
    /\ lease = [t \in Threads |-> NoSession]
    /\ using = {}
    /\ health = [s \in Sessions |-> "closed"]
    /\ closed = FALSE

\* A connection that nobody has is opened; it may be spent from the start.
Open(s) ==
    /\ health[s] = "closed"
    /\ Free(s)
    /\ Cardinality(Connections) < Max
    /\ \E product \in {"open", "spent"} : health' = [health EXCEPT ![s] = product]
    /\ UNCHANGED <<lease, using, closed>>

Lend(t, s) ==
    /\ ~closed
    /\ lease[t] = NoSession
    /\ Free(s)
    /\ health[s] = "open"
    /\ lease' = [lease EXCEPT ![t] = s]
    /\ UNCHANGED <<using, health, closed>>

Begin(t) ==
    /\ lease[t] # NoSession
    /\ t \notin using
    /\ health[lease[t]] = "open"
    /\ using' = using \cup {t}
    /\ UNCHANGED <<lease, health, closed>>

End(t) ==
    /\ t \in using
    /\ using' = using \ {t}
    /\ \E outcome \in {"open", "spent"} : health' = [health EXCEPT ![lease[t]] = outcome]
    /\ UNCHANGED <<lease, closed>>

\* t gives its session back; the session may be closed, and is if it is spent
\* and nobody else is about to close it.
Return(t) ==
    /\ lease[t] # NoSession
    /\ t \notin using
    /\ lease' = [lease EXCEPT ![t] = NoSession]
    /\ health' \in {health, [health EXCEPT ![lease[t]] = "closed"]}
    /\ ~closed => health'[lease[t]] # "spent"
    /\ UNCHANGED <<using, closed>>

Shut(s) ==
    /\ \A t \in using : lease[t] # s
    /\ health' = [health EXCEPT ![s] = "closed"]
    /\ UNCHANGED <<lease, using, closed>>

Close ==
    /\ closed' = TRUE
    /\ UNCHANGED <<lease, using, health>>

PromiseNext ==
    \/ \E t \in Threads : Begin(t) \/ End(t) \/ Return(t) \/ \E s \in Sessions : Lend(t, s)
    \/ \E s \in Sessions : Open(s) \/ Shut(s)
    \/ Close

PromiseSpec == PromiseInit /\ [][PromiseNext]_promiseVars
=============================================================================
