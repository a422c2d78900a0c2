------------------------------ MODULE Requests ------------------------------
(***************************************************************************)
(* A request from the command line to the wire: the checks of HttpRequest  *)
(* (domain/models.py), what load/fault_injection.py makes of it, and what  *)
(* http/request_encoder.py accepts and sends.                              *)
(*                                                                         *)
(* A header is a name, up to case, and one of a few values; a body is its  *)
(* length; a target is "ascii" or "wide".                                  *)
(***************************************************************************)
EXTENDS SequencesExt, SeqRecursion

FaultModes == {"none", "ramp_up", "traffic_spike", "connection_churn", "slow_request_body",
               "abort_after_headers", "abort_during_response", "short_read_timeout",
               "randomized_body"}

None == -1      \* an option that is not given
Given(n) == n # None

Header(name, value) == [name |-> name, value |-> value]

\* The positions of the headers of the given names.
Places(headers, names) == {i \in 1..Len(headers) : headers[i].name \in names}

Named(headers, name) == Selected(headers, Places(headers, {name}))
Without(headers, names) == Selected(headers, 1..Len(headers) \ Places(headers, names))

-----------------------------------------------------------------------------
(* HttpRequest: a method and header names that are tokens, values without  *)
(* control characters.                                                     *)

ValidRequest(r) ==
    /\ r.method # "not a token"
    /\ \A h \in Range(r.headers) : h.name # "not a token" /\ h.value # "control"

-----------------------------------------------------------------------------
(* FaultInjector.apply *)

\* Another Connection header stays where it was.
WithConnectionCloseToo(r) ==
    [r EXCEPT !.headers = Append(@, Header("connection", "close"))]

WithConnectionClose(r) ==
    [r EXCEPT !.headers =
        Append(Without(@, {"connection"}), Header("connection", "close"))]

WithBody(r, length) ==
    [r EXCEPT !.body = length,
              !.headers = Without(@, {"content-length", "transfer-encoding"})]

\* The request of an attempt the fault applies to.
Faulted(r, mode, bytes) ==
    CASE mode = "connection_churn" -> WithConnectionClose(r)
      [] mode = "randomized_body" -> WithBody(r, IF Given(bytes) THEN bytes ELSE r.body)
      [] OTHER -> r

\* What the attempts of a run may send: the plan's request and the faulted one.
EffectiveRequests(r, mode, bytes) == {r, Faulted(r, mode, bytes)}

-----------------------------------------------------------------------------
(* encode_request *)

\* The values _parse_content_length reads as a number; 9 is in no body here.
Declares(value) == CASE value = "0" -> 0 [] value = "1" -> 1 [] value = "2" -> 2 [] OTHER -> 9

Encodable(r) ==
    /\ r.target = "ascii"
    /\ Len(Named(r.headers, "host")) <= 1
    /\ \A h \in Range(Named(r.headers, "host")) : h.value # ""
    /\ Named(r.headers, "transfer-encoding") = <<>>
    /\ Len(Named(r.headers, "content-length")) <= 1
    /\ \A h \in Range(Named(r.headers, "content-length")) : Declares(h.value) = r.body
    /\ \A h \in Range(r.headers) : h.value # "wide"

Missing(headers, name) == IF Named(headers, name) = <<>> THEN <<Header(name, "added")>> ELSE <<>>

\* The headers as they are sent; an added Content-Length is the body's.
Encode(r) ==
    Missing(r.headers, "host") \o r.headers
        \o Missing(r.headers, "accept-encoding") \o Missing(r.headers, "content-length")

\* What the session reads from the request, to know that it will end.
WantsClose(r) ==
    \E h \in Range(r.headers) : h.name = "connection" /\ h.value = "close"
=============================================================================
