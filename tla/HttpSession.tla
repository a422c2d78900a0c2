---------------------------- MODULE HttpSession ----------------------------
(***************************************************************************)
(* One Http1Session (http/session.py) with its ResponseParser              *)
(* (http/response_parser.py), talking over one connection to a server.     *)
(*                                                                         *)
(* The bytes of a response are abstracted to units.  A header block, a     *)
(* chunk-size line or a trailer line is a run of "part" units closed by    *)
(* the unit that says what it was; body data are "data" units; sizes and   *)
(* limits count units.  Units travel in the order sent and arrive in       *)
(* pieces of any size, so a piece may end in the middle of a line and may  *)
(* hold the start of what follows.                                         *)
(***************************************************************************)
EXTENDS Integers, Sequences, FiniteSets

CONSTANTS
    Replies,       \* what the server may send to one request: sequences of units
    MaxExchanges,  \* bound on the calls of execute
    MaxHeader,     \* max_header_bytes, in units
    MaxBody,       \* max_response_body_bytes, in units
    MaxFields,     \* max_header_count, as it limits trailers
    MaxPiece       \* the 4096 bytes one recv_some may return, in units

ASSUME LimitAssumption ==
    /\ {MaxExchanges, MaxHeader, MaxBody, MaxPiece} \subseteq Nat \ {0}
    /\ MaxFields \in Nat

VARIABLES
    pc,        \* "idle", or where execute and the parser are
    reusable,  \* _reusable
    closed,    \* _closed
    closing,   \* a thread waits in close for the session's lock
    late,      \* the clock is past the deadline of the exchange
    buffer,    \* _buffer of the parser
    wire,      \* the units sent by the server and not yet received
    eof,       \* the server has closed its side
    done,      \* the number of exchanges begun
    close,     \* the request asks for Connection: close or an upgrade
    head,      \* the header block of the response being read
    left,      \* remaining of _discard_exact
    total,     \* the body bytes counted so far
    fields,    \* trailer_count
    results,   \* what execute returned or raised, by exchange
    replies    \* what the server answered, by exchange, whole

parseVars == <<buffer, head, left, total, fields>>
netVars == <<wire, eof, replies>>
lifeVars == <<reusable, closed, closing>>
vars == <<pc, lifeVars, late, netVars, done, close, parseVars, results>>

(* Units. *)

Unit(kind, size, framing, keep) ==
    [kind |-> kind, size |-> size, framing |-> framing, keep |-> keep]
Plain(kind) == Unit(kind, 0, "none", FALSE)

\* A header block, by what _validate_framing_headers and the parser's choice
\* of a body make of it: "none" (1xx, 204, 304), "length", "chunked", "close"
\* or "bad"; keep is _can_reuse and the absence of an upgrade.
HeadUnit(framing, size, keep) == Unit("head", size, framing, keep)
\* A chunk-size line, of size -1 if it is malformed.
SizeUnit(size) == Unit("size", size, "none", FALSE)

UnitKinds == {"part", "head", "data", "size", "crlf", "trailer", "badtrailer"}
Framings == {"none", "length", "chunked", "close", "bad"}
\* A Content-Length is a row of digits.
Units == {unit \in [kind : UnitKinds, size : Int, framing : Framings, keep : BOOLEAN] :
            unit.kind = "head" => unit.size >= 0}

ASSUME RepliesAssumption == Replies \subseteq Seq(Units)

\* The units that end with CRLF; "crlf" is one by itself: the end of a chunk or
\* an empty line.
LineEnds == {"head", "size", "crlf", "trailer", "badtrailer"}

Error == [kind |-> "error", bytes |-> 0, of |-> 0]

NoHead == Unit("none", 0, "none", FALSE)

Init ==
    /\ pc = "idle"
    /\ reusable = TRUE
    /\ closed = FALSE
    /\ closing = FALSE
    /\ late = FALSE
    /\ buffer = <<>>
    /\ wire = <<>>
    /\ eof = FALSE
    /\ done = 0
    /\ close = FALSE
    /\ head = [unit |-> NoHead, of |-> 0]
    /\ left = 0
    /\ total = 0
    /\ fields = 0
    /\ results = <<>>
    /\ replies = <<>>

Usable == reusable /\ ~closed

-----------------------------------------------------------------------------
(* execute *)

ExecuteRefused ==
    /\ pc = "idle"
    /\ done < MaxExchanges
    /\ ~Usable
    /\ done' = done + 1
    /\ results' = Append(results, Error)
    /\ replies' = Append(replies, <<>>)
    /\ UNCHANGED <<pc, lifeVars, late, wire, eof, close, parseVars>>

BeginExecute ==
    /\ pc = "idle"
    /\ done < MaxExchanges
    /\ Usable
    /\ pc' = "send"
    /\ done' = done + 1
    /\ close' \in BOOLEAN
    /\ late' = FALSE
    /\ UNCHANGED <<lifeVars, netVars, parseVars, results>>

\* The exchange ends with an exception, but the session stays in use.
FailKeeping ==
    /\ pc' = "idle"
    /\ UNCHANGED reusable
    /\ results' = Append(results, Error)

\* The exchange ends with an exception, and with it the session's use.  What
\* the parser still has is not read again, and is left as it is.
Fail ==
    /\ pc' = "idle"
    /\ reusable' = FALSE
    /\ results' = Append(results, Error)

\* The deadline may pass at any time while the exchange runs.
DeadlinePasses ==
    /\ pc # "idle"
    /\ ~late
    /\ late' = TRUE
    /\ UNCHANGED <<pc, lifeVars, netVars, done, close, parseVars, results>>

OfExchange(q, n) == [i \in 1..Len(q) |-> [unit |-> q[i], of |-> n]]

(***************************************************************************)
(* The request is sent.  The server answers with one of its replies, sends *)
(* all of it or breaks off and closes; it may close after a whole reply    *)
(* too.  After it has closed, a request may still be sent, into the void.  *)
(***************************************************************************)
SendRequest ==
    /\ pc = "send"
    /\ ~late
    /\ pc' = "head"
    /\ IF eof
       THEN UNCHANGED <<wire, eof>> /\ replies' = Append(replies, <<>>)
       ELSE \E reply \in Replies :
              \E sent \in 0..Len(reply) :
                 /\ replies' = Append(replies, reply)
                 /\ wire' = wire \o OfExchange(SubSeq(reply, 1, sent), done)
                 /\ eof' \in {TRUE, sent < Len(reply)}
    /\ UNCHANGED <<lifeVars, late, done, close, parseVars, results>>

SendFails ==
    /\ pc = "send"
    /\ Fail
    /\ replies' = Append(replies, <<>>)
    /\ UNCHANGED <<closed, closing, late, wire, eof, done, close, parseVars>>

(* recv_some, under _read_more and the close-delimited body *)

\* The first position in the buffer that ends a block of one of these kinds.
Ends(kinds) == {i \in 1..Len(buffer) : buffer[i].unit.kind \in kinds}
FirstEnd(kinds) ==
    CHOOSE i \in Ends(kinds) : \A j \in Ends(kinds) : i <= j

\* Lines are looked for without a limit.
StarvedUnlimited ==
    \/ pc = "head" /\ Ends({"head"}) = {}
    \/ pc \in {"size", "trailers"} /\ Ends(LineEnds) = {}
    \/ pc = "discard" /\ left > 0 /\ buffer = <<>>
    \/ pc = "crlf" /\ buffer = <<>>
    \/ pc = "rest" /\ total <= MaxBody

\* Where the parser cannot go on with what it has in its buffer.
Starved ==
    \/ pc = "head" /\ Ends({"head"}) = {} /\ Len(buffer) < MaxHeader
    \/ pc \in {"size", "trailers"} /\ Ends(LineEnds) = {} /\ Len(buffer) < MaxHeader
    \/ pc = "discard" /\ left > 0 /\ buffer = <<>>
    \/ pc = "crlf" /\ buffer = <<>>
    \/ pc = "rest" /\ total <= MaxBody

Receive ==
    /\ Starved
    /\ ~late
    /\ \E k \in 1..MaxPiece :
          /\ k <= Len(wire)
          /\ IF pc = "rest"
             THEN total' = total + k /\ UNCHANGED buffer
             ELSE buffer' = buffer \o SubSeq(wire, 1, k) /\ UNCHANGED total
          /\ wire' = SubSeq(wire, k + 1, Len(wire))
    /\ UNCHANGED <<pc, lifeVars, late, eof, replies, done, close, head, left, fields, results>>

\* The deadline does not wake a thread that waits for data.
ReceiveHangs ==
    /\ Starved
    /\ late /\ eof
    /\ Fail
    /\ UNCHANGED <<closed, closing, late, netVars, done, close, parseVars>>

\* A connection that ends early is taken for the end of the body.
ClosedEarlyAccepted ==
    /\ Starved
    /\ pc # "rest"
    /\ ~late /\ eof /\ wire = <<>>
    /\ pc' = IF pc = "discard" THEN "finish" ELSE "idle"
    /\ UNCHANGED <<lifeVars, late, netVars, done, close, parseVars, results>>

\* The deadline passed; the connection ended where more was expected; it was
\* reset.
ReceiveTimesOut ==
    /\ Starved
    /\ late
    /\ Fail
    /\ UNCHANGED <<closed, closing, late, netVars, done, close, parseVars>>

ClosedEarly ==
    /\ Starved
    /\ pc # "rest"
    /\ ~late /\ eof /\ wire = <<>>
    /\ Fail
    /\ UNCHANGED <<closed, closing, late, netVars, done, close, parseVars>>

Reset ==
    /\ Starved
    /\ ~late
    /\ Fail
    /\ UNCHANGED <<closed, closing, late, netVars, done, close, parseVars>>

(* parse_response *)

Consume(k) == buffer' = SubSeq(buffer, k + 1, Len(buffer))

\* Where the parser goes to read a body.
BodyAt(h) ==
    CASE h.framing = "none" -> "finish"
      [] h.framing = "length" -> "discard"
      [] h.framing = "chunked" -> "size"
      [] h.framing = "close" -> "rest"

ReadHead ==
    /\ pc = "head"
    /\ Ends({"head"}) # {}
    /\ LET end == FirstEnd({"head"})
           h == buffer[end].unit
       IN  /\ end <= MaxHeader
           /\ h.framing # "bad"
           /\ h.framing = "length" => h.size <= MaxBody
           /\ pc' = BodyAt(h)
           /\ head' = buffer[end]
           \* A close-delimited body begins with all that is buffered.
           /\ IF h.framing = "close"
              THEN buffer' = <<>> /\ total' = Len(buffer) - end
              ELSE Consume(end) /\ total' = IF h.framing = "length" THEN h.size ELSE 0
           /\ left' = IF h.framing = "length" THEN h.size ELSE 0
    /\ fields' = 0
    /\ UNCHANGED <<lifeVars, late, netVars, done, close, results>>

\* Too large, malformed, or with a body declared too large.
HeadRefused ==
    /\ pc = "head"
    /\ IF Ends({"head"}) = {} THEN Len(buffer) >= MaxHeader
       ELSE LET end == FirstEnd({"head"})
                h == buffer[end].unit
            IN  \/ end > MaxHeader
                \/ h.framing = "bad"
                \/ h.framing = "length" /\ h.size > MaxBody
    /\ Fail
    /\ UNCHANGED <<closed, closing, late, netVars, done, close, parseVars>>

\* _discard_exact, and what follows the data: the end of the response or the
\* CRLF behind a chunk.
AfterDiscard == IF head.unit.framing = "chunked" THEN "crlf" ELSE "finish"

DiscardLess == IF left < Len(buffer) THEN left ELSE Len(buffer)

Discard ==
    /\ pc = "discard"
    /\ left = 0 \/ buffer # <<>>
    /\ Consume(DiscardLess)
    /\ left' = left - DiscardLess
    /\ pc' = IF left = DiscardLess THEN AfterDiscard ELSE pc
    /\ UNCHANGED <<lifeVars, late, netVars, done, close, head, total, fields, results>>

\* The last chunk ends the response.
ReadSizeNoTrailers ==
    /\ pc = "size"
    /\ Ends(LineEnds) # {}
    /\ LET end == FirstEnd(LineEnds)
           line == buffer[end].unit
       IN  /\ line.kind = "size"
           /\ line.size \in 0..(MaxBody - total)
           /\ Consume(end)
           /\ left' = line.size
           /\ total' = total + line.size
           /\ pc' = IF line.size = 0 THEN "finish" ELSE "discard"
    /\ UNCHANGED <<lifeVars, late, netVars, done, close, head, fields, results>>

ReadSize ==
    /\ pc = "size"
    /\ Ends(LineEnds) # {}
    /\ LET end == FirstEnd(LineEnds)
           line == buffer[end].unit
       IN  /\ line.kind = "size"
           /\ line.size \in 0..(MaxBody - total)
           /\ Consume(end)
           /\ left' = line.size
           /\ total' = total + line.size
           /\ pc' = IF line.size = 0 THEN "trailers" ELSE "discard"
    /\ UNCHANGED <<lifeVars, late, netVars, done, close, head, fields, results>>

SizeRefused ==
    /\ pc = "size"
    /\ IF Ends(LineEnds) = {} THEN Len(buffer) >= MaxHeader
       ELSE LET line == buffer[FirstEnd(LineEnds)].unit
            IN  line.kind # "size" \/ line.size \notin 0..(MaxBody - total)
    /\ Fail
    /\ UNCHANGED <<closed, closing, late, netVars, done, close, parseVars>>

ReadCrlf ==
    /\ pc = "crlf"
    /\ buffer # <<>>
    /\ buffer[1].unit.kind = "crlf"
    /\ Consume(1)
    /\ pc' = "size"
    /\ UNCHANGED <<lifeVars, late, netVars, done, close, head, left, total, fields, results>>

CrlfRefused ==
    /\ pc = "crlf"
    /\ buffer # <<>>
    /\ buffer[1].unit.kind # "crlf"
    /\ Fail
    /\ UNCHANGED <<closed, closing, late, netVars, done, close, parseVars>>

ReadTrailer ==
    /\ pc = "trailers"
    /\ Ends(LineEnds) # {}
    /\ LET end == FirstEnd(LineEnds)
           line == buffer[end].unit
       IN  /\ \/ line.kind = "crlf" /\ pc' = "finish" /\ UNCHANGED fields
              \/ /\ line.kind = "trailer"
                 /\ fields < MaxFields
                 /\ fields' = fields + 1
                 /\ UNCHANGED pc
           /\ Consume(end)
    /\ UNCHANGED <<lifeVars, late, netVars, done, close, head, left, total, results>>

TrailerRefused ==
    /\ pc = "trailers"
    /\ IF Ends(LineEnds) = {} THEN Len(buffer) >= MaxHeader
       ELSE LET line == buffer[FirstEnd(LineEnds)].unit
            IN  line.kind # "crlf" /\ (line.kind # "trailer" \/ fields = MaxFields)
    /\ Fail
    /\ UNCHANGED <<closed, closing, late, netVars, done, close, parseVars>>

\* The body that ends with the connection: too large, or over.
RestRefused ==
    /\ pc = "rest"
    /\ total > MaxBody
    /\ Fail
    /\ UNCHANGED <<closed, closing, late, netVars, done, close, parseVars>>

RestEnds ==
    /\ pc = "rest"
    /\ total <= MaxBody
    /\ ~late /\ eof /\ wire = <<>>
    /\ pc' = "finish"
    /\ UNCHANGED <<lifeVars, late, netVars, done, close, parseVars, results>>

Response == [kind |-> "response", bytes |-> total, of |-> head.of]

\* The response is returned; its framing, its headers and those of the
\* request decide whether the session stays in use.
Finish ==
    /\ pc = "finish"
    /\ pc' = "idle"
    /\ reusable' = (reusable /\ head.unit.keep /\ head.unit.framing # "close" /\ ~close)
    /\ results' = Append(results, Response)
    /\ UNCHANGED <<closed, closing, late, netVars, done, close, parseVars>>

-----------------------------------------------------------------------------
(* close, by another thread *)

CallClose ==
    /\ ~closed /\ ~closing
    /\ closing' = TRUE
    /\ UNCHANGED <<pc, reusable, closed, late, netVars, done, close, parseVars, results>>

\* close does not wait for the exchange that holds the lock.
CloseAnyway ==
    /\ closing
    /\ closing' = FALSE
    /\ closed' = TRUE
    /\ reusable' = FALSE
    /\ UNCHANGED <<pc, late, netVars, done, close, parseVars, results>>

Close ==
    /\ closing
    /\ pc = "idle"
    /\ closing' = FALSE
    /\ closed' = TRUE
    /\ reusable' = FALSE
    /\ UNCHANGED <<pc, late, netVars, done, close, parseVars, results>>

-----------------------------------------------------------------------------
ExchangeStep ==
    \/ SendRequest \/ SendFails \/ Receive \/ ReceiveTimesOut \/ ClosedEarly
    \/ ReadHead \/ HeadRefused \/ Discard \/ ReadSize \/ SizeRefused
    \/ ReadCrlf \/ CrlfRefused \/ ReadTrailer \/ TrailerRefused
    \/ RestRefused \/ RestEnds \/ Finish

\* All the calls of execute that the bound allows have been made.
Exhausted == pc = "idle" /\ done = MaxExchanges /\ closed /\ UNCHANGED vars

Next ==
    \/ ExecuteRefused \/ BeginExecute \/ DeadlinePasses \/ ExchangeStep \/ Reset
    \/ CallClose \/ Close \/ Exhausted

Spec == Init /\ [][Next]_vars

(***************************************************************************)
(* The thread in execute runs, and the executor gives every exchange a     *)
(* deadline, which passes.  Neither a reset nor the server's closing its   *)
(* side is bound to happen.                                                *)
(***************************************************************************)
FairSpec == Spec /\ WF_vars(ExchangeStep) /\ WF_vars(DeadlinePasses)

-----------------------------------------------------------------------------
(* Properties *)

Answered == {n \in 1..Len(results) : results[n].kind = "response"}

(***************************************************************************)
(* A response is the server's answer to the request it is returned for,    *)
(* not to an earlier one on the same connection: every exchange that does  *)
(* not read its response to the last unit takes the session out of use.    *)
(***************************************************************************)
AnswersOwnRequest == \A n \in Answered : results[n].of = n

(***************************************************************************)
(* A session that may be reused has nothing of an earlier response before  *)
(* it, neither in the parser's buffer nor on its way.                      *)
(***************************************************************************)
ReusableMeansConsumed == pc = "idle" /\ Usable => buffer = <<>> /\ wire = <<>>

SelfDelimiting(reply) ==
    \A i \in 1..Len(reply) : reply[i].kind = "head" => reply[i].framing # "close"
DataUnits(reply) == Cardinality({i \in 1..Len(reply) : reply[i].kind = "data"})

(***************************************************************************)
(* A response with a length or in chunks is returned only if all of its    *)
(* body was received, in whatever pieces it came: a connection that ends   *)
(* early is an error.  No body larger than the limit is ever accepted.     *)
(***************************************************************************)
WholeBody ==
    \A n \in Answered :
        /\ SelfDelimiting(replies[n]) => results[n].bytes = DataUnits(replies[n])
        /\ results[n].bytes <= MaxBody

(***************************************************************************)
(* However the server cuts up what it sends, the parser holds less than    *)
(* one header limit and one piece.                                         *)
(***************************************************************************)
BufferBounded == Len(buffer) < MaxHeader + MaxPiece

\* A call of execute returns, whatever the server does.
ExecuteReturns == pc # "idle" ~> pc = "idle"

(***************************************************************************)
(* The session as the pool sees it: exchanges one at a time, none after    *)
(* the session was spent, no close under an exchange.                      *)
(***************************************************************************)
Life == INSTANCE SessionLife
          WITH status <- IF closed THEN "closed" ELSE IF reusable THEN "open" ELSE "spent",
               busy <- pc # "idle"

ImplementsLife == Life!LifeSpec
=============================================================================
