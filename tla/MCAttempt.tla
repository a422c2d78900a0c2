------------------------------ MODULE MCAttempt ------------------------------
(***************************************************************************)
(* Attempt with each fault mode over TCP and TLS, and with budgets that    *)
(* run out in different orders: the request's before, with and after the   *)
(* acquire's, each shorter than what opening a connection may take.        *)
(***************************************************************************)
EXTENDS Attempt

Config(scheme, mode, request, acquire, delay) ==
    [scheme |-> scheme, mode |-> mode, request |-> request, acquire |-> acquire,
     dns |-> 1, connect |-> 2, tls |-> 1, delay |-> delay]

AllConfigs ==
    {Config(scheme, "none", 3, acquire, 1) : scheme \in {"http", "https"}, acquire \in 2..4}
        \cup {Config("http", mode, 3, 3, delay) : mode \in Modes \ {"none"}, delay \in {1, 4}}
=============================================================================
