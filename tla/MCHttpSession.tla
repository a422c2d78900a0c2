---------------------------- MODULE MCHttpSession ----------------------------
(***************************************************************************)
(* HttpSession with the scenario server, and with servers that send other  *)
(* well-formed, malformed, oversized and interim responses.                *)
(***************************************************************************)
EXTENDS ScenarioServer, Responses

Part == Plain("part")
Crlf == Plain("crlf")
Chunk == <<SizeUnit(1), Plain("data"), Crlf>>

ServerReplies ==
    {WriteResponse(scenario, number, [body |-> 2, chunk |-> 1, large |-> 3, overhead |-> 1]) :
        scenario \in Scenarios \ {"truncated", "abrupt_reset"}, number \in 1..2}
    \cup {WriteResponse(scenario, 1, [body |-> 1, chunk |-> 1, large |-> 3, overhead |-> 1]) :
            scenario \in {"truncated", "abrupt_reset"}}

NoBody == <<HeadUnit("none", 0, TRUE)>>
\* The answer to HEAD: a length, and no body to come.
HeadReply == <<HeadUnit("length", 2, TRUE)>>
LengthReply == <<Part>> \o ResponseHeaders(2, FALSE) \o Data(2)
ChunkedReply ==
    <<HeadUnit("chunked", 0, TRUE)>> \o Chunk \o <<Part>> \o Chunk
        \o <<SizeUnit(0), Plain("trailer"), Crlf>>
CloseReply == <<HeadUnit("close", 0, TRUE)>> \o Data(1)

WellFormed == ServerReplies \cup {NoBody, HeadReply, LengthReply, ChunkedReply, CloseReply}

Malformed ==
    {<<HeadUnit("bad", 0, TRUE)>>,
     <<Part, Part, Part, HeadUnit("none", 0, TRUE)>>,
     <<HeadUnit("close", 0, TRUE)>> \o Data(3),
     <<HeadUnit("chunked", 0, TRUE), SizeUnit(-1)>>,
     <<HeadUnit("chunked", 0, TRUE), SizeUnit(1)>> \o Data(2),
     <<HeadUnit("chunked", 0, TRUE)>> \o Chunk \o <<SizeUnit(2)>> \o Data(2) \o <<Crlf>>,
     <<HeadUnit("chunked", 0, TRUE), SizeUnit(0), Plain("trailer"), Plain("trailer"), Crlf>>,
     <<HeadUnit("chunked", 0, TRUE), SizeUnit(0), Plain("badtrailer"), Crlf>>,
     <<HeadUnit("chunked", 0, TRUE), Part, Part, Part, Part, SizeUnit(0), Crlf>>}

AllReplies == WellFormed \cup Malformed

\* What the theorems suppose of a server: one response to each request.
ASSUME OneResponseEach == \A reply \in AllReplies : OneResponse(reply)

\* An informational response before the final one.
InterimReplies == {NoBody \o LengthReply, LengthReply}
=============================================================================
