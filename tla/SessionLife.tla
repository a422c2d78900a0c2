---------------------------- MODULE SessionLife ----------------------------
(***************************************************************************)
(* What the pool and the executor rely on of an Http1Session: one exchange *)
(* at a time, none on a session that is not reusable, a session that was   *)
(* spent is never reusable again, and it is not closed under an exchange.  *)
(***************************************************************************)
VARIABLES
    status,  \* "open": reusable; "spent": not reusable; "closed"
    busy     \* an exchange holds the session's lock

lifeVars == <<status, busy>>

LifeInit == status = "open" /\ busy = FALSE

Begin ==
    /\ ~busy
    /\ status = "open"
    /\ busy' = TRUE
    /\ UNCHANGED status

End ==
    /\ busy
    /\ busy' = FALSE
    /\ status' \in {"open", "spent"}

Close ==
    /\ ~busy
    /\ status' = "closed"
    /\ UNCHANGED busy

LifeNext == Begin \/ End \/ Close

LifeSpec == LifeInit /\ [][LifeNext]_lifeVars
=============================================================================
