----------------------------- MODULE MCMetrics -----------------------------
(***************************************************************************)
(* Metrics with samples of every outcome the executor assigns.             *)
(***************************************************************************)
EXTENDS Metrics

AllStreams == {"request", "firstByte"}
Asked == {0, 50, 90, 95, 99, 100}

Latency(request, firstByte) ==
    [stream \in AllStreams |-> IF stream = "request" THEN request ELSE firstByte]

Base ==
    [status |-> None, outcome |-> "SUCCESS", error |-> "none", sent |-> 2, received |-> 0,
     acquired |-> TRUE, reused |-> FALSE, applied |-> FALSE, mode |-> "none",
     scheduled |-> 2, completion |-> 5, latency |-> Latency(None, None)]

AllSamples ==
    {[Base EXCEPT !.status = 200, !.received = 3, !.latency = Latency(3, 1)],
     [Base EXCEPT !.status = 200, !.received = 1, !.reused = TRUE, !.scheduled = 1,
                  !.completion = 9, !.latency = Latency(8, 2), !.applied = TRUE,
                  !.mode = "randomized_body"],
     [Base EXCEPT !.status = 500, !.outcome = "HTTP_ERROR", !.reused = TRUE,
                  !.latency = Latency(1, 0)],
     [Base EXCEPT !.outcome = "TIMEOUT", !.error = "read_timeout", !.completion = 12,
                  !.latency = Latency(10, None)],
     \* No connection was acquired.
     [Base EXCEPT !.outcome = "TRANSPORT_ERROR", !.error = "pool_acquire_timeout",
                  !.sent = 0, !.acquired = FALSE, !.scheduled = 3],
     [Base EXCEPT !.outcome = "CANCELLED", !.error = "cancelled", !.sent = 0,
                  !.acquired = FALSE, !.scheduled = 7, !.completion = 7]}
=============================================================================
