----------------------------- MODULE Responses -----------------------------
(***************************************************************************)
(* What one response is, unit by unit: where a reader of the units so far  *)
(* stands, by the grammar of the messages alone, without limits, pieces or *)
(* a buffer.                                                               *)
(***************************************************************************)
EXTENDS HttpSession

State(at, due, framing, body) ==
    [at |-> at, due |-> due, framing |-> framing, body |-> body]

Start == State("head", 0, "none", 0)
Broken == State("broken", 0, "none", 0)

\* With so much of a length or of a chunk still to come.
AtData(due, framing, body) ==
    State(IF due > 0 THEN "discard" ELSE IF framing = "chunked" THEN "crlf" ELSE "finish",
          due, framing, body)

AfterHead(h) ==
    CASE h.framing = "none" -> State("finish", 0, "none", 0)
      [] h.framing = "length" -> AtData(h.size, "length", 0)
      [] h.framing = "chunked" -> State("size", 0, "chunked", 0)
      [] h.framing = "close" -> State("rest", 0, "close", 0)
      [] h.framing = "bad" -> Broken

AfterSize(size, body) ==
    IF size < 0 THEN Broken
    ELSE IF size = 0 THEN State("trailers", 0, "chunked", body)
    ELSE AtData(size, "chunked", body)

After(state, unit) ==
    CASE state.at = "head" /\ unit.kind = "head" -> AfterHead(unit)
      [] state.at = "discard" -> AtData(state.due - 1, state.framing, state.body + 1)
      [] state.at = "size" /\ unit.kind \in LineEnds ->
           IF unit.kind = "size" THEN AfterSize(unit.size, state.body) ELSE Broken
      [] state.at = "crlf" ->
           IF unit.kind = "crlf" THEN State("size", 0, "chunked", state.body) ELSE Broken
      [] state.at = "trailers" /\ unit.kind \in LineEnds ->
           IF unit.kind = "crlf" THEN State("finish", 0, "chunked", state.body)
           ELSE IF unit.kind = "trailer" THEN state ELSE Broken
      [] OTHER -> state

Reading(reply) ==
    LET state[k \in 0..Len(reply)] == IF k = 0 THEN Start ELSE After(state[k - 1], reply[k])
    IN  state

\* A reply has no response before its end, and if it is a whole response then
\* its data are what stands in its body.
OneResponse(reply) ==
    /\ \A k \in 0..(Len(reply) - 1) : Reading(reply)[k].at # "finish"
    /\ Reading(reply)[Len(reply)].at = "finish" =>
           \A k \in 1..Len(reply) :
              reply[k].kind = "data" <=> Reading(reply)[k - 1].at = "discard"
=============================================================================
