------------------------------ MODULE MCProgram ------------------------------
(***************************************************************************)
(* Program with two families of command lines: a plain workload with every *)
(* request of up to two notable headers under the faults that change it,   *)
(* and a plain request with every combination of the workload's options.   *)
(* Numbers are small: 2 is a limit, 3 beyond it.                           *)
(***************************************************************************)
EXTENDS Program

SmallLimits == [workers |-> 2, connections |-> 2, requests |-> 2, duration |-> 2,
                runtime |-> 3, body |-> 2, reservoir |-> 2]

Request(method, target, headers, body) ==
    [method |-> method, target |-> target, headers |-> headers, body |-> body]

Plain == [url |-> [scheme |-> "http", host |-> "name", port |-> None],
          count |-> 1, duration |-> None, warmup |-> 0, workers |-> 1, connections |-> 1,
          rate |-> None, openLoop |-> FALSE, runtime |-> None,
          fault |-> [mode |-> "none", probability |-> 1, bytes |-> None],
          reservoir |-> 2, request |-> Request("token", "ascii", <<>>, 1), output |-> FALSE]

NotableHeaders ==
    {Header("host", "given"), Header("host", ""), Header("connection", "keep-alive"),
     Header("content-length", "1"), Header("content-length", "not a number"),
     Header("transfer-encoding", "chunked"), Header("other", "control"),
     Header("other", "wide"), Header("not a token", "given")}

ByRequest ==
    {[Plain EXCEPT !.request = Request("token", "ascii", headers, body),
                   !.fault = [mode |-> mode, probability |-> 1, bytes |-> bytes]] :
        headers \in SeqOf(NotableHeaders, 2), body \in {0, 1, 3}, bytes \in {None, 2},
        mode \in {"none", "connection_churn", "randomized_body"}}
    \cup {[Plain EXCEPT !.request = Request(method, target, <<>>, 1)] :
            method \in {"token", "not a token"}, target \in {"ascii", "wide"}}

ByWorkload ==
    {[Plain EXCEPT !.count = count, !.duration = duration, !.warmup = warmup, !.rate = rate,
                   !.openLoop = openLoop, !.runtime = runtime, !.output = output] :
        count \in {None, 0, 1, 3}, duration \in {None, 0, 1, 2}, warmup \in {0, 2, 4},
        rate \in {None, 1}, openLoop \in BOOLEAN, runtime \in {None, 1, 5}, output \in BOOLEAN}
    \cup {[Plain EXCEPT !.workers = workers, !.connections = connections,
                       !.reservoir = reservoir] :
            workers \in {0, 2, 3}, connections \in {0, 2, 3}, reservoir \in {0, 2, 3}}
    \cup {[Plain EXCEPT !.url = [scheme |-> scheme, host |-> host, port |-> port],
                       !.fault.mode = mode, !.fault.probability = probability] :
            scheme \in {"http", "https", "ftp"}, host \in {"name", "none", "user"},
            port \in {None, 0, 8080, 65536}, mode \in {"none", "slow_request_body"},
            probability \in 1..2}

CommandLines == ByRequest \cup ByWorkload
=============================================================================
