--------------------------- MODULE ScenarioServer ---------------------------
(***************************************************************************)
(* What the scenario server of the tests and demonstrations                *)
(* (test_server/server.py and scenarios.py) sends for one request, in the  *)
(* units of HttpSession.  Its delays are the network's here, and a reset   *)
(* or a close may follow whatever it sent.                                 *)
(***************************************************************************)
EXTENDS HttpSession

Scenarios == {"fixed", "chunked", "delayed_headers", "delayed_body", "forced_close",
              "truncated", "large_response", "intermittent_500", "abrupt_reset"}

Data(n) == [i \in 1..n |-> Plain("data")]

\* response_headers: always a Content-Length, and a word on the connection.
ResponseHeaders(length, closes) == <<HeadUnit("length", length, ~closes)>>

\* chunked_response: chunks of at most size units, the last one shorter.
ChunkedResponse(body, size) ==
    LET count == (body + size - 1) \div size
        length(i) == IF i < count THEN size ELSE body - (count - 1) * size
        chunks[i \in 0..count] ==
            IF i = 0 THEN <<HeadUnit("chunked", 0, TRUE)>>
            ELSE chunks[i - 1] \o <<SizeUnit(length(i))>> \o Data(length(i)) \o <<Plain("crlf")>>
    IN  chunks[count] \o <<SizeUnit(0), Plain("crlf")>>

\* _write_response, for the request of that number; config is the body's
\* length, the chunks', that of the large body, and what an abrupt reset
\* declares beyond the body.
WriteResponse(scenario, number, config) ==
    CASE scenario = "abrupt_reset" ->
           ResponseHeaders(config.body + config.overhead, FALSE) \o Data(config.body \div 2)
      [] scenario = "intermittent_500" /\ number % 2 = 0 -> ResponseHeaders(0, FALSE)
      [] scenario = "chunked" -> ChunkedResponse(config.body, config.chunk)
      [] scenario = "truncated" -> ResponseHeaders(config.body + 1, TRUE) \o Data(config.body)
      [] scenario = "large_response" ->
           ResponseHeaders(config.large, FALSE) \o Data(config.large)
      [] OTHER -> ResponseHeaders(config.body, scenario = "forced_close") \o Data(config.body)
=============================================================================
