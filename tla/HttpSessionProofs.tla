------------------------- MODULE HttpSessionProofs -------------------------
(***************************************************************************)
(* Proofs about HttpSession, for any replies, limits and pieces.           *)
(*                                                                         *)
(* First what holds whatever a server sends: the session lives the life    *)
(* the pool relies on, and the parser's buffer is bounded.  Of the units   *)
(* that come only the form is known (Formed); that is enough to tell where *)
(* the parser goes from each of them, never back to "idle" without an end  *)
(* of the exchange.                                                        *)
(*                                                                         *)
(* Then what holds with a server that gives one response to a request      *)
(* (OneResponse): each response is the answer to its own request, whole,   *)
(* and nothing of it is left in front of the next.  The parser is compared *)
(* with a reader of the same units who knows the grammar only (Responses): *)
(* wherever the parser stands, so does that reader, after the units that   *)
(* are neither in the buffer nor still to come (Located).                  *)
(*                                                                         *)
(* Last, the scenario server of the tests is such a server.                *)
(***************************************************************************)
EXTENDS Responses, ScenarioServer, SeqRecursionProofs, FiniteSetTheorems

-----------------------------------------------------------------------------
(* The buffer and what the parser makes of it. *)

Items == [unit : Units, of : Nat]

Formed ==
    /\ buffer \in Seq(Items)
    /\ wire \in Seq(Items)
    /\ left \in Nat
    /\ done \in Nat

LEMMA Limits ==
    /\ MaxHeader \in Nat \ {0} /\ MaxBody \in Nat \ {0} /\ MaxPiece \in Nat \ {0}
    /\ Replies \subseteq Seq(Units)
BY LimitAssumption, RepliesAssumption

\* The block the parser looks at is the first one that has ended.
LEMMA FirstEndProperty ==
    ASSUME Formed, NEW kinds, Ends(kinds) # {}
    PROVE  /\ FirstEnd(kinds) \in 1..Len(buffer)
           /\ buffer[FirstEnd(kinds)] \in Items
           /\ buffer[FirstEnd(kinds)].unit.kind \in kinds
           /\ \A j \in 1..(FirstEnd(kinds) - 1) : buffer[j].unit.kind \notin kinds
<1>1. Len(buffer) \in Nat
  BY LenProperties DEF Formed
<1>2. Ends(kinds) \subseteq Nat
  BY <1>1 DEF Ends
<1>3. \E i \in Ends(kinds) : \A j \in Ends(kinds) : i <= j
  BY <1>2, LeastElement
<1>4. FirstEnd(kinds) \in Ends(kinds) /\ \A j \in Ends(kinds) : FirstEnd(kinds) <= j
  BY <1>3 DEF FirstEnd
<1>5. FirstEnd(kinds) \in 1..Len(buffer)
  BY <1>4 DEF Ends
<1>6. buffer[FirstEnd(kinds)] \in Items
  BY <1>5, ElementOfSeq DEF Formed
<1>7. ASSUME NEW j \in 1..(FirstEnd(kinds) - 1) PROVE buffer[j].unit.kind \notin kinds
  <2>1. j \in 1..Len(buffer) /\ ~(FirstEnd(kinds) <= j)
    BY <1>1, <1>5
  <2> QED BY <1>4, <2>1 DEF Ends
<1> QED BY <1>4, <1>5, <1>6, <1>7 DEF Ends

\* Cutting the front off a sequence leaves a sequence that is no longer.
LEMMA CutFront ==
    ASSUME NEW S, NEW q \in Seq(S), NEW k \in Nat
    PROVE  SubSeq(q, k + 1, Len(q)) \in Seq(S) /\ Len(SubSeq(q, k + 1, Len(q))) <= Len(q)
<1>1. Len(q) \in Nat /\ \A i \in (k + 1)..Len(q) : q[i] \in S
  BY LenProperties, ElementOfSeq
<1> QED BY <1>1, SubSeqProperties

\* What the server sends in an exchange has the form of items.
LEMMA ExchangeTyped ==
    ASSUME NEW r \in Seq(Units), NEW sent \in 0..Len(r), NEW n \in Nat
    PROVE  OfExchange(SubSeq(r, 1, sent), n) \in Seq(Items)
<1> DEFINE q == SubSeq(r, 1, sent)
<1>1. \A i \in 1..sent : r[i] \in Units
  BY LenProperties, ElementOfSeq
<1>2. q \in Seq(Units)
  BY <1>1, LenProperties, SubSeqProperties
<1>3. Len(q) \in Nat /\ \A i \in 1..Len(q) : q[i] \in Units
  BY <1>2, LenProperties, ElementOfSeq
<1> HIDE DEF q
<1>4. \A i \in 1..Len(q) : [unit |-> q[i], of |-> n] \in Items
  BY <1>3 DEF Items
<1>5. OfExchange(q, n) \in [1..Len(q) -> Items]
  BY <1>4 DEF OfExchange
<1>6. OfExchange(q, n) \in Seq(Items)
  BY <1>3, <1>5
<1> QED BY <1>6 DEF q

LEMMA ConsumeForms ==
    ASSUME Formed, NEW k \in Nat, Consume(k)
    PROVE  buffer' \in Seq(Items) /\ Len(buffer') <= Len(buffer)
BY CutFront DEF Formed, Consume

-----------------------------------------------------------------------------
SessionInv ==
    /\ Formed
    /\ pc # "idle" => ~closed
    /\ Len(buffer) < MaxHeader + MaxPiece

LEMMA InitOK == Init => SessionInv
<1>1. <<>> \in Seq(Items) /\ Len(<<>>) = 0
  BY EmptySeq
<1> QED BY <1>1, Limits DEF Init, SessionInv, Formed

\* An exchange that fails leaves the parser as it is.
Fails ==
    \/ SendFails \/ ReceiveTimesOut \/ ClosedEarly \/ Reset \/ HeadRefused \/ SizeRefused
    \/ CrlfRefused \/ TrailerRefused \/ RestRefused

LEMMA FailsEnd ==
    ASSUME Fails
    PROVE  pc # "idle" /\ pc' = "idle" /\ UNCHANGED <<closed, buffer, wire, left, done>>
BY DEF Fails, SendFails, ReceiveTimesOut, ClosedEarly, Reset, HeadRefused, SizeRefused,
   CrlfRefused, TrailerRefused, RestRefused, Fail, Starved, netVars, parseVars

\* One that goes on is not over.
Continues ==
    \/ SendRequest \/ Receive \/ ReadHead \/ Discard \/ ReadSize \/ ReadCrlf \/ ReadTrailer
    \/ RestEnds \/ DeadlinePasses

LEMMA ContinuesBusy ==
    ASSUME Formed, Continues
    PROVE  pc # "idle" /\ pc' # "idle" /\ UNCHANGED <<reusable, closed, done>>
<1>1. UNCHANGED <<reusable, closed, done>>
  BY DEF Continues, SendRequest, Receive, ReadHead, Discard, ReadSize, ReadCrlf, ReadTrailer,
     RestEnds, DeadlinePasses, lifeVars
<1>2. CASE SendRequest \/ ReadSize \/ ReadCrlf \/ ReadTrailer \/ RestEnds \/ DeadlinePasses
  BY <1>1, <1>2 DEF SendRequest, ReadSize, ReadCrlf, ReadTrailer, RestEnds, DeadlinePasses
<1>3. CASE Receive
  BY <1>1, <1>3 DEF Receive, Starved
<1>4. CASE Discard
  BY <1>1, <1>4 DEF Discard, AfterDiscard
<1>5. CASE ReadHead
  <2> DEFINE end == FirstEnd({"head"})
  <2>1. /\ pc = "head" /\ Ends({"head"}) # {}
        /\ pc' = BodyAt(buffer[end].unit) /\ buffer[end].unit.framing # "bad"
    BY <1>5 DEF ReadHead
  <2>2. buffer[end] \in Items
    BY <2>1, FirstEndProperty
  <2>3. buffer[end].unit.framing \in {"none", "length", "chunked", "close"}
    BY <2>1, <2>2 DEF Items, Units, Framings
  <2>4. BodyAt(buffer[end].unit) # "idle"
    BY <2>3 DEF BodyAt
  <2> QED BY <1>1, <2>1, <2>4
<1> QED BY <1>2, <1>3, <1>4, <1>5 DEF Continues

LEMMA ContinuesFormed ==
    ASSUME SessionInv, Continues
    PROVE  /\ buffer' \in Seq(Items) /\ wire' \in Seq(Items) /\ left' \in Nat
           /\ Len(buffer') < MaxHeader + MaxPiece
<1> USE DEF SessionInv, Formed
<1>0. Len(buffer) \in Nat /\ Len(wire) \in Nat
  BY LenProperties
<1>1. CASE SendRequest
  <2>1. UNCHANGED <<buffer, left>>
    BY <1>1 DEF SendRequest, parseVars
  <2>2. CASE eof
    BY <1>1, <2>1, <2>2 DEF SendRequest
  <2>3. CASE ~eof
    <3>0. PICK reply \in Replies : \E sent \in 0..Len(reply) :
             wire' = wire \o OfExchange(SubSeq(reply, 1, sent), done)
      BY <1>1, <2>3 DEF SendRequest
    <3>1. PICK sent \in 0..Len(reply) :
             wire' = wire \o OfExchange(SubSeq(reply, 1, sent), done)
      BY <3>0
    <3>2. reply \in Seq(Units) /\ Len(reply) \in Nat
      BY Limits, LenProperties
    <3>3. OfExchange(SubSeq(reply, 1, sent), done) \in Seq(Items)
      BY <3>2, ExchangeTyped
    <3> QED BY <2>1, <3>1, <3>3, ConcatProperties
  <2> QED BY <2>2, <2>3
<1>2. CASE Receive
  <2>1. PICK k \in 1..MaxPiece :
           /\ k <= Len(wire)
           /\ IF pc = "rest" THEN UNCHANGED buffer
              ELSE buffer' = buffer \o SubSeq(wire, 1, k)
           /\ wire' = SubSeq(wire, k + 1, Len(wire))
    BY <1>2 DEF Receive
  <2>2. k \in Nat /\ wire' \in Seq(Items) /\ left' = left
    BY <1>2, <2>1, Limits, CutFront DEF Receive
  <2>3. CASE pc = "rest"
    BY <2>1, <2>2, <2>3
  <2>4. CASE pc # "rest"
    <3>1. \A i \in 1..k : wire[i] \in Items
      BY <1>0, <2>1, <2>2, ElementOfSeq
    <3>2. SubSeq(wire, 1, k) \in Seq(Items) /\ Len(SubSeq(wire, 1, k)) = k
      BY <2>1, <2>2, <3>1, SubSeqProperties
    <3>3. buffer' \in Seq(Items) /\ Len(buffer') = Len(buffer) + k
      <4> DEFINE piece == SubSeq(wire, 1, k)
      <4>1. buffer' = buffer \o piece /\ piece \in Seq(Items) /\ Len(piece) = k
        BY <2>1, <2>4, <3>2
      <4> HIDE DEF piece
      <4>2. buffer \o piece \in Seq(Items) /\ Len(buffer \o piece) = Len(buffer) + Len(piece)
        BY <4>1, ConcatProperties
      <4> QED BY <4>1, <4>2
    <3>4. Len(buffer) < MaxHeader
      <4>1. Len(buffer) < MaxHeader \/ buffer = <<>>
        BY <1>2, <2>4 DEF Receive, Starved
      <4>2. buffer = <<>> => Len(buffer) = 0
        BY EmptySeq
      <4> QED BY <4>1, <4>2, Limits
    <3> QED BY <1>0, <2>1, <2>2, <3>3, <3>4, Limits
  <2> QED BY <2>3, <2>4
<1>3. CASE ReadHead
  <2> DEFINE end == FirstEnd({"head"})
  <2>1. /\ Ends({"head"}) # {} /\ wire' = wire
        /\ buffer' = <<>> \/ Consume(end)
        /\ left' \in {0, buffer[end].unit.size}
    BY <1>3 DEF ReadHead, netVars
  <2>2. end \in 1..Len(buffer) /\ buffer[end] \in Items /\ buffer[end].unit.kind = "head"
    BY <2>1, FirstEndProperty
  <2>3. buffer[end].unit.size \in Nat /\ end \in Nat
    BY <1>0, <2>2 DEF Items, Units
  <2>4. <<>> \in Seq(Items) /\ Len(<<>>) = 0
    BY EmptySeq
  <2>5. buffer' \in Seq(Items) /\ Len(buffer') \in Nat /\ Len(buffer') <= Len(buffer)
    <3>1. CASE buffer' = <<>>
      BY <1>0, <2>4, <3>1
    <3>2. CASE Consume(end)
      BY <2>3, <3>2, ConsumeForms, LenProperties
    <3> QED BY <2>1, <3>1, <3>2
  <2>6. left' \in Nat
    BY <2>1, <2>3
  <2> QED BY <1>0, <2>1, <2>5, <2>6, Limits
<1>4. CASE Discard
  <2>1. DiscardLess \in Nat /\ DiscardLess <= left
    BY <1>0 DEF DiscardLess
  <2>2. Consume(DiscardLess) /\ left' = left - DiscardLess /\ wire' = wire
    BY <1>4 DEF Discard, netVars
  <2>3. buffer' \in Seq(Items) /\ Len(buffer') \in Nat /\ Len(buffer') <= Len(buffer)
    BY <2>1, <2>2, ConsumeForms, LenProperties
  <2> QED BY <1>0, <2>1, <2>2, <2>3, Limits
<1>5. CASE ReadSize \/ ReadTrailer
  <2>1. /\ Ends(LineEnds) # {} /\ wire' = wire /\ Consume(FirstEnd(LineEnds))
        /\ left' = left \/ (left' = buffer[FirstEnd(LineEnds)].unit.size /\ left' >= 0)
    BY <1>5 DEF ReadSize, ReadTrailer, netVars
  <2>2. FirstEnd(LineEnds) \in Nat /\ buffer[FirstEnd(LineEnds)] \in Items
    BY <1>0, <2>1, FirstEndProperty
  <2>3. left' \in Nat
    BY <2>1, <2>2 DEF Items, Units
  <2>4. buffer' \in Seq(Items) /\ Len(buffer') \in Nat /\ Len(buffer') <= Len(buffer)
    BY <2>1, <2>2, ConsumeForms, LenProperties
  <2> QED BY <1>0, <2>1, <2>3, <2>4, Limits
<1>6. CASE ReadCrlf
  <2>1. Consume(1) /\ UNCHANGED <<wire, left>>
    BY <1>6 DEF ReadCrlf, netVars
  <2>2. buffer' \in Seq(Items) /\ Len(buffer') \in Nat /\ Len(buffer') <= Len(buffer)
    BY <2>1, ConsumeForms, LenProperties
  <2> QED BY <1>0, <2>1, <2>2, Limits
<1>7. CASE RestEnds \/ DeadlinePasses
  BY <1>7 DEF RestEnds, DeadlinePasses, netVars, parseVars
<1> QED BY <1>1, <1>2, <1>3, <1>4, <1>5, <1>6, <1>7 DEF Continues

-----------------------------------------------------------------------------
(* The steps of the specification. *)

LEMMA StepCases ==
    ASSUME [Next]_vars
    PROVE  \/ Fails \/ Continues \/ BeginExecute \/ Finish \/ Close
           \/ ExecuteRefused \/ CallClose \/ UNCHANGED vars
BY DEF Next, ExchangeStep, Fails, Continues, Exhausted

LEMMA StepKeeps == SessionInv /\ [Next]_vars => SessionInv'
<1> SUFFICES ASSUME SessionInv, [Next]_vars PROVE SessionInv'
  OBVIOUS
<1>1. CASE Fails
  <2>1. wire' = wire
    BY <1>1 DEF Fails, SendFails, ReceiveTimesOut, ClosedEarly, Reset, HeadRefused,
       SizeRefused, CrlfRefused, TrailerRefused, RestRefused, netVars
  <2> QED BY <1>1, <2>1, FailsEnd DEF SessionInv, Formed
<1>2. CASE Continues
  BY <1>2, ContinuesBusy, ContinuesFormed DEF SessionInv, Formed
<1>3. CASE BeginExecute \/ ExecuteRefused
  <2>1. UNCHANGED <<buffer, wire, left, closed>> /\ done' = done + 1
        /\ (pc' = pc \/ ~closed)
    BY <1>3 DEF BeginExecute, ExecuteRefused, lifeVars, netVars, parseVars, Usable
  <2> QED BY <2>1 DEF SessionInv, Formed
<1>4. CASE Finish \/ Close
  <2>1. UNCHANGED <<buffer, wire, left, done>> /\ pc' = "idle"
    BY <1>4 DEF Finish, Close, netVars, parseVars
  <2> QED BY <2>1 DEF SessionInv, Formed
<1>5. CASE CallClose \/ UNCHANGED vars
  BY <1>5 DEF CallClose, vars, lifeVars, netVars, parseVars, SessionInv, Formed
<1> QED BY <1>1, <1>2, <1>3, <1>4, <1>5, StepCases

LEMMA Inductive == Spec => []SessionInv
BY InitOK, StepKeeps, PTL DEF Spec

-----------------------------------------------------------------------------
(***************************************************************************)
(* However a server cuts up and pads what it sends, the parser never holds *)
(* more than a header limit and a piece.                                   *)
(***************************************************************************)
THEOREM BufferIsBounded == Spec => []BufferBounded
<1>1. SessionInv => BufferBounded
  BY DEF SessionInv, BufferBounded
<1> QED BY <1>1, Inductive, PTL

(***************************************************************************)
(* Whatever the server sends, and whenever it closes, times out or the     *)
(* session is closed: the session is used for one exchange at a time, never *)
(* again once it was spent, and is not closed under an exchange.           *)
(***************************************************************************)
THEOREM SessionLivesItsLife == Spec => ImplementsLife
<1>1. Init => Life!LifeInit
  BY DEF Init, Life!LifeInit
<1>2. SessionInv /\ [Next]_vars => [Life!LifeNext]_Life!lifeVars
  <2> SUFFICES ASSUME SessionInv, [Next]_vars PROVE Life!LifeNext \/ UNCHANGED Life!lifeVars
    OBVIOUS
  <2>1. CASE Fails \/ Finish
    <3>1. /\ pc # "idle" /\ pc' = "idle" /\ closed' = closed
      BY <2>1, FailsEnd DEF Finish
    <3>2. ~closed
      BY <3>1 DEF SessionInv
    <3>3. Life!End
      BY <3>1, <3>2 DEF Life!End
    <3> QED BY <3>3 DEF Life!LifeNext
  <2>2. CASE Continues
    <3>1. pc # "idle" /\ pc' # "idle" /\ UNCHANGED <<reusable, closed>>
      BY <2>2, ContinuesBusy DEF SessionInv
    <3> QED BY <3>1 DEF Life!lifeVars
  <2>3. CASE BeginExecute
    <3>1. Life!Begin
      BY <2>3 DEF BeginExecute, Usable, lifeVars, Life!Begin
    <3> QED BY <3>1 DEF Life!LifeNext
  <2>4. CASE Close
    <3>1. Life!Close
      BY <2>4 DEF Close, Life!Close
    <3> QED BY <3>1 DEF Life!LifeNext
  <2>5. CASE ExecuteRefused \/ CallClose \/ UNCHANGED vars
    BY <2>5 DEF ExecuteRefused, CallClose, vars, lifeVars, Life!lifeVars
  <2> QED BY <2>1, <2>2, <2>3, <2>4, <2>5, StepCases
<1> QED BY <1>1, <1>2, Inductive, PTL DEF Spec, ImplementsLife, Life!LifeSpec

-----------------------------------------------------------------------------
(* The grammar of a response: what a reader of its units goes through. *)

At == {"head", "discard", "size", "crlf", "trailers", "rest", "finish", "broken"}
States == [at : At, due : Int, framing : Framings, body : Int]

LEMMA StateTyped ==
    ASSUME NEW at \in At, NEW due \in Int, NEW framing \in Framings, NEW body \in Int
    PROVE  State(at, due, framing, body) \in States
BY DEF State, States

LEMMA Literals ==
    /\ {"head", "discard", "size", "crlf", "trailers", "rest", "finish", "broken"} \subseteq At
    /\ {"none", "length", "chunked", "close", "bad"} \subseteq Framings
BY DEF At, Framings

LEMMA AtDataTyped ==
    ASSUME NEW due \in Int, NEW framing \in Framings, NEW body \in Int
    PROVE  /\ AtData(due, framing, body) \in States
           /\ AtData(due, framing, body).at \notin {"head", "broken"}
           /\ AtData(due, framing, body).body = body
BY DEF AtData, State, States, At

LEMMA AfterTyped ==
    ASSUME NEW s \in States, NEW unit \in Units
    PROVE  After(s, unit) \in States
<1>1. /\ s.at \in At /\ s.due \in Int /\ s.framing \in Framings /\ s.body \in Int
      /\ unit.size \in Int /\ unit.framing \in Framings
  BY DEF States, Units
<1>0. 0 \in Int /\ "chunked" \in Framings /\ "none" \in Framings /\ "length" \in Framings
      /\ "close" \in Framings
  BY Literals
<1>2. Broken \in States
  BY <1>0, Literals, StateTyped DEF Broken
<1>6. AfterSize(unit.size, s.body) \in States
  <2>1. State("trailers", 0, "chunked", s.body) \in States
    BY <1>0, <1>1, Literals, StateTyped
  <2>2. AtData(unit.size, "chunked", s.body) \in States
    BY <1>0, <1>1, AtDataTyped
  <2> HIDE DEF States
  <2> QED BY <1>2, <2>1, <2>2 DEF AfterSize
<1>3. AfterHead(unit) \in States
  <2>1. /\ State("finish", 0, "none", 0) \in States
        /\ State("size", 0, "chunked", 0) \in States
        /\ State("rest", 0, "close", 0) \in States
    BY <1>0, Literals, StateTyped
  <2>2. AtData(unit.size, "length", 0) \in States
    BY <1>0, <1>1, AtDataTyped
  <2>3. unit.framing \in {"none", "length", "chunked", "close", "bad"}
    BY <1>1 DEF Framings
  <2> HIDE DEF States
  <2> QED BY <1>2, <2>1, <2>2, <2>3 DEF AfterHead
<1>4. AtData(s.due - 1, s.framing, s.body + 1) \in States
  BY <1>1, AtDataTyped
<1>5. /\ State("size", 0, "chunked", s.body) \in States
      /\ State("finish", 0, "chunked", s.body) \in States
  BY <1>0, <1>1, Literals, StateTyped
<1> QED BY <1>2, <1>3, <1>4, <1>5, <1>6 DEF After

IsReading(f, reply) ==
    /\ f[0] = Start
    /\ \A k \in 1..Len(reply) : f[k] = After(f[k - 1], reply[k])
    /\ \A k \in 0..Len(reply) : f[k] \in States

LEMMA ReadingIs ==
    ASSUME NEW reply \in Seq(Units) PROVE IsReading(Reading(reply), reply)
<1>1. PICK L \in Nat : L = Len(reply)
  BY LenProperties
<1>2. \A k \in 1..L : reply[k] \in Units
  BY <1>1, ElementOfSeq
<1> DEFINE g == [k \in 1..L |-> [s \in States |-> After(s, reply[k])]]
<1>3. g \in [1..L -> [States -> States]]
  BY <1>2, AfterTyped
<1>4. \A k \in 1..L, s \in States : g[k][s] = After(s, reply[k])
  OBVIOUS
<1> HIDE DEF g
<1>5. Start \in States
  BY Literals, StateTyped DEF Start
<1>6. \E f : Recursion(f, L, States, Start, g)
  BY <1>3, <1>5, RecursiveFunction
<1>7. PICK f \in [0..L -> States] : f[0] = Start /\ \A k \in 1..L : f[k] = g[k][f[k - 1]]
  BY <1>6 DEF Recursion
<1>8. \A k \in 1..L : f[k] = After(f[k - 1], reply[k])
  <2>1. \A k \in 1..L : f[k - 1] \in States
    BY <1>7
  <2> QED BY <1>4, <1>7, <2>1
<1> DEFINE Equation(h) == h = [k \in 0..Len(reply) |->
                          IF k = 0 THEN Start ELSE After(h[k - 1], reply[k])]
<1>9. Equation(f)
  <2>1. ASSUME NEW k \in 0..L
        PROVE  f[k] = IF k = 0 THEN Start ELSE After(f[k - 1], reply[k])
    <3>1. k = 0 \/ k \in 1..L
      OBVIOUS
    <3> QED BY <1>7, <1>8, <3>1
  <2> QED BY <1>1, <2>1
<1>10. Equation(CHOOSE h : Equation(h))
  BY <1>9
<1>11. Reading(reply) = (CHOOSE h : Equation(h))
  BY DEF Reading
<1>12. ASSUME NEW h, Equation(h) PROVE IsReading(h, reply)
  <2>1. h[0] = Start
    BY <1>1, <1>12
  <2>2. ASSUME NEW k \in 1..L PROVE h[k] = After(h[k - 1], reply[k])
    <3>1. k \in 0..L /\ k # 0
      OBVIOUS
    <3> QED BY <1>1, <1>12, <3>1
  <2>3. Same(f, h, L)
    BY <1>7, <1>8, <2>1, <2>2, Alike
  <2>4. \A k \in 0..L : h[k] \in States
    BY <2>3 DEF Same
  <2> QED BY <1>1, <2>1, <2>2, <2>4 DEF IsReading
<1> HIDE DEF Equation
<1> QED BY <1>10, <1>11, <1>12

\* The m units from p on change nothing.
Ignored(f, reply, p, m) == \A k \in 1..m : After(f[p], reply[p + k]) = f[p]

LEMMA ReadingStays ==
    ASSUME NEW reply, NEW f, IsReading(f, reply), NEW p \in Nat, NEW m \in Nat,
           Len(reply) \in Nat, p + m <= Len(reply),
           Ignored(f, reply, p, m)
    PROVE  f[p + m] = f[p]
<1> DEFINE P == {n \in 0..m : f[p + n] = f[p]}
<1>1. 0 \in P
  OBVIOUS
<1>2. ASSUME NEW n \in 1..m, n - 1 \in P PROVE n \in P
  <2>1. f[p + (n - 1)] = f[p]
    BY <1>2
  <2>2. p + n \in 1..Len(reply) /\ (p + n) - 1 = p + (n - 1)
    OBVIOUS
  <2>3. f[p + n] = After(f[p + (n - 1)], reply[p + n])
    BY <2>2 DEF IsReading
  <2> QED BY <2>1, <2>3 DEF Ignored
<1> HIDE DEF P
<1>3. \A n \in 0..m : n \in P
  BY <1>1, <1>2, Induction
<1>4. m \in P
  BY <1>3
<1> QED BY <1>4 DEF P

\* Looking for the end of a line.
LEMMA ReadingScans ==
    ASSUME NEW reply, NEW f, IsReading(f, reply), NEW p \in Nat, NEW end \in Nat \ {0},
           Len(reply) \in Nat, p + end <= Len(reply),
           Ignored(f, reply, p, end - 1)
    PROVE  f[p + end] = After(f[p], reply[p + end])
<1>1. PICK m \in Nat : m = end - 1
  OBVIOUS
<1>2. p + m <= Len(reply) /\ Ignored(f, reply, p, m)
  BY <1>1
<1>3. f[p + m] = f[p]
  BY <1>2, ReadingStays
<1>4. p + end \in 1..Len(reply) /\ (p + end) - 1 = p + m
  BY <1>1
<1> QED BY <1>3, <1>4 DEF IsReading

\* As much of a body as is there.
LEMMA ReadingData ==
    ASSUME NEW reply, NEW f, IsReading(f, reply), NEW p \in Nat, Len(reply) \in Nat,
           NEW due \in Nat, NEW framing \in Framings, NEW body \in Int,
           f[p] = AtData(due, framing, body),
           NEW m \in 0..due, p + m <= Len(reply)
    PROVE  f[p + m] = AtData(due - m, framing, body + m)
<1> DEFINE P == {n \in 0..m : f[p + n] = AtData(due - n, framing, body + n)}
<1>1. 0 \in P
  OBVIOUS
<1>2. ASSUME NEW n \in 1..m, n - 1 \in P PROVE n \in P
  <2> DEFINE s == f[p + (n - 1)]
  <2>1. s = AtData(due - (n - 1), framing, body + (n - 1))
    BY <1>2
  <2>2. due - (n - 1) > 0 /\ due - (n - 1) \in Int /\ body + (n - 1) \in Int
    OBVIOUS
  <2> HIDE DEF s
  <2>3. /\ s.at = "discard" /\ s.due = due - (n - 1)
        /\ s.framing = framing /\ s.body = body + (n - 1)
    BY <2>1, <2>2 DEF AtData, State
  <2>4. p + n \in 1..Len(reply) /\ (p + n) - 1 = p + (n - 1)
    OBVIOUS
  <2>5. f[p + n] = After(s, reply[p + n])
    BY <2>4 DEF IsReading, s
  <2>6. After(s, reply[p + n]) = AtData(s.due - 1, s.framing, s.body + 1)
    BY <2>3 DEF After
  <2>7. s.due - 1 = due - n /\ s.body + 1 = body + n
    BY <2>3
  <2> QED BY <2>3, <2>5, <2>6, <2>7
<1> HIDE DEF P
<1>3. \A n \in 0..m : n \in P
  BY <1>1, <1>2, Induction
<1>4. m \in P
  BY <1>3
<1> QED BY <1>4 DEF P

\* Only data that are due are counted, and only a reader of nothing is at the head.
LEMMA AfterCounts ==
    ASSUME NEW s \in States, NEW unit \in Units, After(s, unit).at # "broken"
    PROVE  /\ s.at # "broken"
           /\ After(s, unit).at = "head" => s.at = "head" /\ After(s, unit) = s
           /\ s.at = "head" => After(s, unit).body \in {0, s.body}
           /\ s.at = "discard" => After(s, unit).body = s.body + 1
           /\ s.at \notin {"head", "discard"} => After(s, unit).body = s.body
<1>0. /\ s.at \in At /\ s.due \in Int /\ s.framing \in Framings /\ s.body \in Int
      /\ unit.size \in Int /\ unit.framing \in {"none", "length", "chunked", "close", "bad"}
  BY DEF States, Units, Framings
<1>1. CASE s.at = "head" /\ unit.kind = "head"
  <2>1. After(s, unit) = AfterHead(unit)
    BY <1>1 DEF After
  <2>2. CASE unit.framing = "length"
    <3>1. After(s, unit) = AtData(unit.size, "length", 0)
      BY <2>1, <2>2 DEF AfterHead
    <3> QED BY <1>0, <1>1, <3>1, Literals, AtDataTyped
  <2>3. CASE unit.framing # "length"
    <3>1. AfterHead(unit).body = 0 /\ AfterHead(unit).at # "head"
      BY <1>0, <2>3 DEF AfterHead, State, Broken
    <3> QED BY <1>1, <2>1, <3>1
  <2> QED BY <2>2, <2>3
<1>2. CASE s.at = "discard"
  <2>1. After(s, unit) = AtData(s.due - 1, s.framing, s.body + 1)
    BY <1>2 DEF After
  <2> QED BY <1>0, <1>2, <2>1, AtDataTyped
<1>3. CASE s.at = "size" /\ unit.kind \in LineEnds
  <2>1. After(s, unit) = IF unit.kind = "size" THEN AfterSize(unit.size, s.body) ELSE Broken
    BY <1>3 DEF After
  <2>2. Broken.at = "broken"
    BY DEF Broken, State
  <2>3. After(s, unit) = AfterSize(unit.size, s.body)
    BY <2>1, <2>2
  <2>4. CASE unit.size > 0
    <3>1. After(s, unit) = AtData(unit.size, "chunked", s.body)
      BY <1>0, <2>3, <2>4 DEF AfterSize
    <3> QED BY <1>0, <1>3, <3>1, Literals, AtDataTyped
  <2>5. CASE ~(unit.size > 0)
    <3>1. /\ AfterSize(unit.size, s.body).at # "broken" => AfterSize(unit.size, s.body).body = s.body
          /\ AfterSize(unit.size, s.body).at # "head"
      BY <1>0, <2>2, <2>5 DEF AfterSize, State
    <3> QED BY <1>3, <2>3, <3>1
  <2> QED BY <2>4, <2>5
<1>4. CASE s.at \notin {"head", "discard", "size"}
  <2>1. /\ s.at = "crlf" => After(s, unit) = IF unit.kind = "crlf"
                                            THEN State("size", 0, "chunked", s.body) ELSE Broken
        /\ s.at = "trailers" /\ unit.kind \in LineEnds =>
              After(s, unit) = IF unit.kind = "crlf" THEN State("finish", 0, "chunked", s.body)
                               ELSE IF unit.kind = "trailer" THEN s ELSE Broken
        /\ s.at # "crlf" /\ ~(s.at = "trailers" /\ unit.kind \in LineEnds) => After(s, unit) = s
    BY <1>4 DEF After
  <2>2. /\ State("size", 0, "chunked", s.body).body = s.body
        /\ State("size", 0, "chunked", s.body).at = "size"
        /\ State("finish", 0, "chunked", s.body).body = s.body
        /\ State("finish", 0, "chunked", s.body).at = "finish"
        /\ Broken.at = "broken"
    BY DEF State, Broken
  <2> QED BY <1>4, <2>1, <2>2
<1>5. CASE s.at = "head" /\ unit.kind # "head"
  <2>1. After(s, unit) = s
    BY <1>5 DEF After
  <2> QED BY <1>5, <2>1
<1>6. CASE s.at = "size" /\ unit.kind \notin LineEnds
  <2>1. After(s, unit) = s
    BY <1>6 DEF After
  <2> QED BY <1>6, <2>1
<1>7. CASE s.at = "size"
  <2>1. unit.kind \in LineEnds \/ unit.kind \notin LineEnds
    OBVIOUS
  <2> QED BY ONLY <1>3, <1>6, <1>7, <2>1
<1>8. s.at = "head" \/ s.at = "discard" \/ s.at = "size" \/ s.at \notin {"head", "discard", "size"}
  OBVIOUS
<1> QED BY ONLY <1>1, <1>2, <1>4, <1>5, <1>7, <1>8

\* The body of a whole response is its data.
LEMMA DataCount ==
    ASSUME NEW reply \in Seq(Units), OneResponse(reply),
           Reading(reply)[Len(reply)].at = "finish"
    PROVE  Reading(reply)[Len(reply)].body = DataUnits(reply)
<1>1. PICK L \in Nat : L = Len(reply)
  BY LenProperties
<1>2. PICK f : f = Reading(reply)
  OBVIOUS
<1>3. IsReading(f, reply)
  BY <1>2, ReadingIs
<1>4. \A k \in 1..L : reply[k] \in Units
  BY <1>1, ElementOfSeq
<1> DEFINE D(n) == {i \in 1..n : f[i - 1].at = "discard"}
           Counts(n) == /\ IsFiniteSet(D(n))
                        /\ f[n].at # "broken" => /\ f[n].body = Cardinality(D(n))
                                                 /\ f[n].at = "head" => f[n] = Start
           P == {n \in 0..L : Counts(n)}
<1>5. 0 \in P
  <2>1. D(0) = {}
    OBVIOUS
  <2>2. f[0] = Start /\ Start.body = 0
    BY <1>3 DEF IsReading, Start, State
  <2> QED BY <2>1, <2>2, FS_EmptySet
<1>6. ASSUME NEW n \in 1..L, n - 1 \in P PROVE n \in P
  <2>1. Counts(n - 1)
    BY <1>6
  <2>2. f[n] = After(f[n - 1], reply[n]) /\ f[n - 1] \in States /\ reply[n] \in Units
    <3>1. n \in 1..Len(reply) /\ n - 1 \in 0..Len(reply)
      BY <1>1
    <3> QED BY <1>3, <1>4, <3>1 DEF IsReading
  <2>3. IF f[n - 1].at = "discard" THEN D(n) = D(n - 1) \cup {n} ELSE D(n) = D(n - 1)
    OBVIOUS
  <2>4. n \notin D(n - 1)
    OBVIOUS
  <2> HIDE DEF D
  <2>5. IsFiniteSet(D(n))
    <3>1. IsFiniteSet(D(n - 1))
      BY <2>1
    <3>2. D(n) = D(n - 1) \/ D(n) = D(n - 1) \cup {n}
      BY <2>3
    <3>3. IsFiniteSet(D(n - 1) \cup {n})
      BY <3>1, FS_AddElement
    <3> QED BY <3>1, <3>2, <3>3
  <2>6. Cardinality(D(n)) = Cardinality(D(n - 1)) + (IF f[n - 1].at = "discard" THEN 1 ELSE 0)
    <3>1. Cardinality(D(n - 1)) \in Nat
      BY <2>1, FS_CardinalityType
    <3> QED BY <2>1, <2>3, <2>4, <3>1, FS_AddElement
  <2>7. ASSUME f[n].at # "broken"
        PROVE  f[n].body = Cardinality(D(n)) /\ (f[n].at = "head" => f[n] = Start)
    <3> DEFINE s == f[n - 1]
               t == f[n]
    <3>1. t = After(s, reply[n]) /\ s \in States /\ t.at # "broken"
      BY <2>2, <2>7
    <3>2. s.body = Cardinality(D(n - 1)) /\ (s.at = "head" => s = Start)
      BY <2>1, <2>2, <2>7, AfterCounts
    <3>3. Start.body = 0
      BY DEF Start, State
    <3>4. Cardinality(D(n - 1)) \in Nat
      BY <2>1, FS_CardinalityType
    <3>5. Cardinality(D(n)) = Cardinality(D(n - 1)) + (IF s.at = "discard" THEN 1 ELSE 0)
      BY <2>6
    <3> HIDE DEF s, t
    <3>6. t.body = s.body + (IF s.at = "discard" THEN 1 ELSE 0)
      BY <2>2, <3>1, <3>2, <3>3, <3>4, AfterCounts
    <3>7. t.at = "head" => t = Start
      BY <2>2, <3>1, <3>2, AfterCounts
    <3>8. t.body = Cardinality(D(n))
      BY <3>2, <3>5, <3>6
    <3> QED BY <3>7, <3>8 DEF t
  <2> QED BY <2>5, <2>7
<1> HIDE DEF P
<1>7. \A n \in 0..L : n \in P
  BY <1>5, <1>6, Induction
<1>8. Counts(L)
  <2>1. L \in 0..L
    OBVIOUS
  <2>2. L \in P
    BY <1>7, <2>1
  <2> QED BY <2>2 DEF P
<1>9. \A k \in 1..L : reply[k].kind = "data" <=> f[k - 1].at = "discard"
  BY <1>1, <1>2 DEF OneResponse
<1>10. D(L) = {i \in 1..Len(reply) : reply[i].kind = "data"}
  BY <1>1, <1>9
<1> QED BY <1>1, <1>2, <1>8, <1>10 DEF DataUnits

-----------------------------------------------------------------------------
(* Units of an answer in the parser's buffer and on the wire. *)

ItemOf(unit, n) == [unit |-> unit, of |-> n]

\* The buffer b and the wire w hold the units of r from p to e.
Laid(b, w, r, n, p, e) ==
    /\ e <= Len(r)
    /\ Len(b) + Len(w) = e - p
    /\ \A i \in 1..Len(b) : b[i] = ItemOf(r[p + i], n)
    /\ \A i \in 1..Len(w) : w[i] = ItemOf(r[p + Len(b) + i], n)

LEMMA LaidMoves ==
    ASSUME NEW b \in Seq(Items), NEW w \in Seq(Items), NEW r, NEW n, NEW p \in Nat, NEW e \in Nat,
           Laid(b, w, r, n, p, e), NEW k \in 1..Len(w)
    PROVE  Laid(b \o SubSeq(w, 1, k), SubSeq(w, k + 1, Len(w)), r, n, p, e)
<1>1. PICK lb \in Nat : lb = Len(b)
  BY LenProperties
<1>2. PICK lw \in Nat : lw = Len(w)
  BY LenProperties
<1>3. k \in Nat /\ k \in 1..lw
  BY <1>2
<1> DEFINE front == SubSeq(w, 1, k)
           back == SubSeq(w, k + 1, Len(w))
<1>4. \A i \in 1..lw : w[i] \in Items
  BY <1>2, ElementOfSeq
<1>5. front \in Seq(Items) /\ Len(front) = k /\ \A i \in 1..k : front[i] = w[i]
  BY <1>2, <1>3, <1>4, SubSeqProperties
<1>6. Len(back) = lw - k /\ \A i \in 1..(lw - k) : back[i] = w[k + i]
  BY <1>2, <1>3, <1>4, SubSeqProperties
<1> HIDE DEF front, back
<1>7. /\ Len(b \o front) = lb + k
      /\ \A i \in 1..(lb + k) : (b \o front)[i] = IF i <= lb THEN b[i] ELSE front[i - lb]
  BY <1>1, <1>5, ConcatProperties
<1>8. /\ \A i \in 1..lb : b[i] = ItemOf(r[p + i], n)
      /\ \A i \in 1..lw : w[i] = ItemOf(r[p + lb + i], n)
      /\ lb + lw = e - p /\ e <= Len(r)
  BY <1>1, <1>2 DEF Laid
<1>9. ASSUME NEW i \in 1..(lb + k) PROVE (b \o front)[i] = ItemOf(r[p + i], n)
  <2>1. CASE i <= lb
    BY <1>7, <1>8, <2>1
  <2>2. CASE i > lb
    <3>0. PICK j \in 1..k : j = i - lb
      BY <1>3, <2>2
    <3>1. j \in 1..lw /\ p + lb + j = p + i
      BY <1>3, <2>2, <3>0
    <3>2. (b \o front)[i] = w[j]
      BY <1>5, <1>7, <2>2, <3>0
    <3>3. w[j] = ItemOf(r[p + lb + j], n)
      BY <1>8, <3>1
    <3> QED BY <3>1, <3>2, <3>3
  <2>3. i <= lb \/ i > lb
    BY <1>1, <1>3
  <2> QED BY <2>1, <2>2, <2>3
<1>10. ASSUME NEW i \in 1..(lw - k) PROVE back[i] = ItemOf(r[p + (lb + k) + i], n)
  <2>1. k + i \in 1..lw /\ p + lb + (k + i) = p + (lb + k) + i
    BY <1>3
  <2> QED BY <1>6, <1>8, <2>1
<1>11. (lb + k) + (lw - k) = e - p
  BY <1>3, <1>8
<1> QED BY <1>6, <1>7, <1>8, <1>9, <1>10, <1>11 DEF Laid, front, back

LEMMA LaidDrops ==
    ASSUME NEW b \in Seq(Items), NEW w \in Seq(Items), NEW r, NEW n, NEW p \in Nat, NEW e \in Nat,
           Laid(b, w, r, n, p, e), NEW k \in 0..Len(b)
    PROVE  Laid(SubSeq(b, k + 1, Len(b)), w, r, n, p + k, e)
<1>1. PICK lb \in Nat : lb = Len(b)
  BY LenProperties
<1>2. PICK lw \in Nat : lw = Len(w)
  BY LenProperties
<1>3. k \in Nat /\ k \in 0..lb
  BY <1>1
<1> DEFINE back == SubSeq(b, k + 1, Len(b))
<1>4. \A i \in 1..lb : b[i] \in Items
  BY <1>1, ElementOfSeq
<1>6. Len(back) = lb - k /\ \A i \in 1..(lb - k) : back[i] = b[k + i]
  BY <1>1, <1>3, <1>4, SubSeqProperties
<1> HIDE DEF back
<1>8. /\ \A i \in 1..lb : b[i] = ItemOf(r[p + i], n)
      /\ \A i \in 1..lw : w[i] = ItemOf(r[p + lb + i], n)
      /\ lb + lw = e - p /\ e <= Len(r)
  BY <1>1, <1>2 DEF Laid
<1>9. ASSUME NEW i \in 1..(lb - k) PROVE back[i] = ItemOf(r[(p + k) + i], n)
  <2>1. k + i \in 1..lb /\ p + (k + i) = (p + k) + i
    BY <1>3
  <2> QED BY <1>6, <1>8, <2>1
<1>10. ASSUME NEW i \in 1..lw PROVE w[i] = ItemOf(r[(p + k) + (lb - k) + i], n)
  <2>1. p + lb + i = (p + k) + (lb - k) + i
    BY <1>3
  <2> QED BY <1>8, <2>1
<1>11. (lb - k) + lw = e - (p + k)
  BY <1>3, <1>8
<1> QED BY <1>2, <1>6, <1>8, <1>9, <1>10, <1>11 DEF Laid, back

-----------------------------------------------------------------------------
(* The invariant of sessions with servers that give one response each. *)

\* What the server sends in answer to the request of the exchange.
Answer == replies[done]

Parsing == pc \notin {"idle", "send"}

\* Where the parser stands and where a reader of the units before stands are the same.
Stands(at, framing, due, count, s) ==
    /\ at = "head" => s = Start
    /\ at \in {"size", "crlf", "trailers"} =>
          framing = "chunked" /\ due = 0 /\ s = State(at, 0, "chunked", count)
    /\ at = "discard" =>
          /\ framing \in {"length", "chunked"}
          /\ due = 0 => framing = "length"
          /\ s = AtData(due, framing, count - due)
    /\ at = "finish" => s.at = "finish" /\ s.body = count

\* The buffer and the wire hold the answer from p to e, and a reader of what
\* comes before p stands where the parser does.
Located ==
    \E p, e \in 0..Len(Answer) :
        /\ Laid(buffer, wire, Answer, done, p, e)
        /\ Stands(pc, head.unit.framing, left, total, Reading(Answer)[p])

\* The response being read is the answer to this request; one that ends with
\* the connection has no end to keep track of.
InPlace ==
    /\ Answer \in Replies \cup {<<>>}
    /\ pc # "head" =>
          /\ head.of = done
          /\ total \in Nat
          /\ pc # "rest" => total <= MaxBody
    /\ IF pc # "head" /\ head.unit.framing = "close"
       THEN pc \in {"rest", "finish"} /\ ~SelfDelimiting(Answer)
       ELSE pc # "rest" /\ Located

Results == [kind : {"error", "response"}, bytes : Nat, of : Nat]

\* As many answers and results as exchanges have come so far.
Recorded ==
    /\ results \in Seq(Results)
    /\ replies \in Seq(Seq(Units))
    /\ done \in Nat
    /\ Len(results) = IF pc = "idle" THEN done ELSE done - 1
    /\ Len(replies) = IF pc = "send" THEN done - 1 ELSE done

\* The response to request n, which was answered with this reply.
Right(result, n, reply) ==
    /\ result.of = n
    /\ SelfDelimiting(reply) => result.bytes = DataUnits(reply)
    /\ result.bytes <= MaxBody

Kept == \A n \in Answered : Right(results[n], n, replies[n])

\* Nothing is left of what was sent before.
Clean == (pc = "idle" /\ Usable) \/ pc = "send" => buffer = <<>> /\ wire = <<>>

ReadInv == Recorded /\ Kept /\ Clean /\ (Parsing => InPlace)

-----------------------------------------------------------------------------
(* Results and replies are added to those there are. *)

LEMMA Appended ==
    ASSUME NEW S, NEW s \in Seq(S), NEW x \in S
    PROVE  /\ Append(s, x) \in Seq(S)
           /\ Len(Append(s, x)) = Len(s) + 1
           /\ \A n \in 1..Len(s) : Append(s, x)[n] = s[n]
           /\ Append(s, x)[Len(s) + 1] = x
BY AppendProperties

\* While a response is read nothing is recorded.
LEMMA StillReading ==
    ASSUME ReadInv, Parsing, Parsing', UNCHANGED <<results, replies, done>>, InPlace'
    PROVE  ReadInv'
<1>1. Recorded'
  BY DEF ReadInv, Recorded, Parsing
<1>2. Kept'
  BY DEF ReadInv, Kept, Answered
<1>3. Clean'
  BY DEF Clean, Parsing
<1> QED BY <1>1, <1>2, <1>3 DEF ReadInv

\* A result is added to those there are, and perhaps a reply.
LEMMA ResultKept ==
    ASSUME Recorded, Kept, NEW r \in Results, results' = Append(results, r),
           Len(results) <= Len(replies),
           replies' = replies \/ \E q \in Seq(Units) : replies' = Append(replies, q),
           r.kind = "response" => Right(r, Len(results) + 1, replies'[Len(results) + 1])
    PROVE  Kept'
<1>1. PICK m \in Nat : m = Len(results)
  BY LenProperties DEF Recorded
<1>2. PICK l \in Nat : l = Len(replies)
  BY LenProperties DEF Recorded
<1>3. /\ Len(results') = m + 1 /\ results'[m + 1] = r
      /\ \A n \in 1..m : results'[n] = results[n]
  BY <1>1, Appended DEF Recorded
<1>4. \A n \in 1..l : replies'[n] = replies[n]
  <2>1. ASSUME NEW q \in Seq(Units), replies' = Append(replies, q)
        PROVE  \A n \in 1..l : replies'[n] = replies[n]
    BY <1>2, <2>1, Appended DEF Recorded
  <2> QED BY <2>1
<1>5. ASSUME NEW n \in 1..(m + 1), results'[n].kind = "response"
      PROVE  Right(results'[n], n, replies'[n])
  <2>1. CASE n = m + 1
    BY <1>1, <1>3, <1>5, <2>1
  <2>2. CASE n # m + 1
    <3>1. n \in 1..m /\ n \in 1..l
      BY <1>1, <1>2, <2>2
    <3>2. results'[n] = results[n] /\ replies'[n] = replies[n]
      BY <1>3, <1>4, <3>1
    <3>3. n \in Answered
      BY <1>1, <1>5, <3>1, <3>2 DEF Answered
    <3>4. Right(results[n], n, replies[n])
      BY <3>3 DEF Kept
    <3> QED BY <3>2, <3>4
  <2> QED BY <2>1, <2>2
<1> QED BY <1>3, <1>5 DEF Kept, Answered

LEMMA ErrorResult == Error \in Results /\ Error.kind # "response"
BY DEF Error, Results

LEMMA EmptyReply == <<>> \in Seq(Units) /\ Len(<<>>) = 0
BY EmptySeq

-----------------------------------------------------------------------------
(* The steps between exchanges and the ends of them. *)

LEMMA RefusedReads == ASSUME ReadInv, ExecuteRefused PROVE ReadInv'
<1> USE DEF ReadInv
<1>1. /\ pc = "idle" /\ pc' = "idle" /\ ~Usable /\ UNCHANGED <<reusable, closed>>
      /\ done' = done + 1 /\ results' = Append(results, Error) /\ replies' = Append(replies, <<>>)
  BY DEF ExecuteRefused, lifeVars
<1>2. Len(results) = done /\ Len(replies) = done /\ done \in Nat
  BY <1>1 DEF Recorded
<1>3. /\ results' \in Seq(Results) /\ Len(results') = done + 1
      /\ replies' \in Seq(Seq(Units)) /\ Len(replies') = done + 1
  BY <1>1, <1>2, Appended, ErrorResult, EmptyReply DEF Recorded
<1>4. Recorded'
  BY <1>1, <1>2, <1>3 DEF Recorded
<1>5. Kept'
  <2>1. Len(results) <= Len(replies)
    BY <1>2
  <2>2. \E q \in Seq(Units) : replies' = Append(replies, q)
    BY <1>1, EmptyReply
  <2> QED BY <1>1, <2>1, <2>2, ResultKept, ErrorResult
<1>6. Clean' /\ ~Parsing'
  BY <1>1 DEF Clean, Usable, Parsing
<1> QED BY <1>4, <1>5, <1>6

LEMMA BeginReads == ASSUME ReadInv, BeginExecute PROVE ReadInv'
<1> USE DEF ReadInv
<1>1. /\ pc = "idle" /\ pc' = "send" /\ Usable /\ done' = done + 1
      /\ UNCHANGED <<results, replies, buffer, wire>>
  BY DEF BeginExecute, netVars, parseVars
<1>2. Recorded'
  BY <1>1 DEF Recorded
<1>3. Kept' /\ Clean' /\ ~Parsing'
  BY <1>1 DEF Kept, Answered, Clean, Parsing
<1> QED BY <1>2, <1>3

LEMMA FailsReads == ASSUME ReadInv, Fails PROVE ReadInv'
<1> USE DEF ReadInv
<1>1. pc # "idle" /\ pc' = "idle" /\ done' = done
  BY FailsEnd
<1>2. /\ ~reusable' /\ results' = Append(results, Error)
      /\ IF SendFails THEN pc = "send" /\ replies' = Append(replies, <<>>)
         ELSE pc # "send" /\ replies' = replies
  BY DEF Fails, SendFails, ReceiveTimesOut, ClosedEarly, Reset, HeadRefused, SizeRefused,
     CrlfRefused, TrailerRefused, RestRefused, Fail, Starved, netVars
<1>3. /\ Len(results) = done - 1 /\ done \in Nat
      /\ Len(replies) = IF pc = "send" THEN done - 1 ELSE done
  BY <1>1 DEF Recorded
<1>4. results' \in Seq(Results) /\ Len(results') = done
  <2>1. results' \in Seq(Results) /\ Len(results') = Len(results) + 1
    BY <1>2, Appended, ErrorResult DEF Recorded
  <2> QED BY <1>3, <2>1
<1>5. replies' \in Seq(Seq(Units)) /\ Len(replies') = done
  <2>1. replies \in Seq(Seq(Units))
    BY DEF Recorded
  <2>2. CASE SendFails
    <3>1. replies' = Append(replies, <<>>) /\ Len(replies) = done - 1
      BY <1>2, <1>3, <2>2
    <3>2. replies' \in Seq(Seq(Units)) /\ Len(replies') = Len(replies) + 1
      BY ONLY <2>1, <3>1, Appended, EmptyReply
    <3> QED BY <1>3, <3>1, <3>2
  <2>3. CASE ~SendFails
    BY <1>2, <1>3, <2>1, <2>3
  <2> QED BY <2>2, <2>3
<1>6. Recorded'
  BY <1>1, <1>3, <1>4, <1>5 DEF Recorded
<1>7. Len(results) <= Len(replies)
  BY <1>3
<1>8. Kept'
  BY <1>2, <1>7, ResultKept, ErrorResult, EmptyReply
<1>9. Clean' /\ ~Parsing'
  BY <1>1, <1>2 DEF Clean, Usable, Parsing
<1> QED BY <1>6, <1>8, <1>9

LEMMA CloseReads == ASSUME ReadInv, Close PROVE ReadInv'
<1> USE DEF ReadInv
<1>1. /\ pc = "idle" /\ pc' = "idle" /\ ~reusable'
      /\ UNCHANGED <<results, replies, done>>
  BY DEF Close, netVars
<1>2. Recorded'
  BY <1>1 DEF Recorded
<1>3. Kept' /\ Clean' /\ ~Parsing'
  BY <1>1 DEF Kept, Answered, Clean, Usable, Parsing
<1> QED BY <1>2, <1>3

LEMMA OthersRead ==
    ASSUME ReadInv, CallClose \/ DeadlinePasses \/ UNCHANGED vars PROVE ReadInv'
<1>1. UNCHANGED <<pc, reusable, closed, netVars, done, parseVars, results>>
  BY DEF CallClose, DeadlinePasses, vars, lifeVars
<1>2. UNCHANGED <<pc, reusable, closed, wire, replies, done, buffer, head, left, total, results>>
  BY <1>1 DEF netVars, parseVars
<1> QED BY <1>2 DEF ReadInv, Recorded, Kept, Answered, Clean, Usable, Parsing, InPlace, Located,
   Answer

-----------------------------------------------------------------------------
(* The steps of the parser. *)

LEMMA AnswerTyped ==
    ASSUME InPlace
    PROVE  Answer \in Seq(Units) /\ Len(Answer) \in Nat /\ IsReading(Reading(Answer), Answer)
<1>1. Answer \in Seq(Units)
  BY Limits, EmptyReply DEF InPlace
<1> HIDE DEF Answer
<1> QED BY <1>1, ReadingIs, LenProperties

LEMMA Relocates ==
    ASSUME NEW p \in 0..Len(Answer), NEW e \in 0..Len(Answer), UNCHANGED <<replies, done>>,
           Laid(buffer', wire', Answer, done, p, e),
           Stands(pc', head'.unit.framing, left', total', Reading(Answer)[p])
    PROVE  Located'
<1>1. Answer' = Answer
  BY DEF Answer
<1> HIDE DEF Answer
<1> QED BY <1>1 DEF Located

\* What is buffered is what comes next in the answer.
LEMMA LaidAhead ==
    ASSUME Formed, NEW r, NEW p \in Nat, NEW e \in Nat, Laid(buffer, wire, r, done, p, e),
           NEW i \in 1..Len(buffer)
    PROVE  /\ buffer[i].unit = r[p + i] /\ buffer[i].of = done
           /\ p + i \in 1..e /\ e <= Len(r)
<1>1. Len(buffer) \in Nat /\ Len(wire) \in Nat
  BY LenProperties DEF Formed
<1>2. buffer[i] = ItemOf(r[p + i], done)
  BY DEF Laid
<1>3. Len(buffer) + Len(wire) = e - p /\ e <= Len(r)
  BY DEF Laid
<1> QED BY <1>1, <1>2, <1>3 DEF ItemOf

\* A line is read, or a header block.
LEMMA LineRead ==
    ASSUME Formed, NEW r, Len(r) \in Nat, NEW f, IsReading(f, r),
           NEW p \in Nat, NEW e \in Nat, Laid(buffer, wire, r, done, p, e),
           NEW kinds, Ends(kinds) # {},
           \A unit \in Units : unit.kind \notin kinds => After(f[p], unit) = f[p],
           NEW end, end = FirstEnd(kinds)
    PROVE  /\ f[p + end] = After(f[p], buffer[end].unit)
           /\ p + end \in 1..Len(r)
           /\ buffer[end].unit = r[p + end] /\ buffer[end].of = done
           /\ Laid(SubSeq(buffer, end + 1, Len(buffer)), wire, r, done, p + end, e)
<1>0. Len(buffer) \in Nat
  BY LenProperties DEF Formed
<1>1. /\ end \in 1..Len(buffer) /\ buffer[end].unit.kind \in kinds
      /\ \A j \in 1..(end - 1) : buffer[j].unit.kind \notin kinds
  BY FirstEndProperty
<1>2. /\ buffer[end].unit = r[p + end] /\ buffer[end].of = done
      /\ p + end \in 1..Len(r)
  <2>1. /\ buffer[end].unit = r[p + end] /\ buffer[end].of = done
        /\ p + end \in 1..e /\ e <= Len(r)
    BY ONLY Formed, p \in Nat, e \in Nat, Laid(buffer, wire, r, done, p, e), <1>1, LaidAhead
  <2> QED BY <2>1
<1>3. Ignored(f, r, p, end - 1)
  <2> SUFFICES ASSUME NEW k \in 1..(end - 1) PROVE After(f[p], r[p + k]) = f[p]
    BY DEF Ignored
  <2>1. k \in 1..Len(buffer)
    BY <1>0, <1>1
  <2>2. buffer[k].unit = r[p + k]
    BY <2>1, LaidAhead
  <2>3. buffer[k].unit \in Units
    <3>1. buffer[k] \in Items
      BY <2>1, ElementOfSeq DEF Formed
    <3> QED BY <3>1 DEF Items
  <2> QED BY <1>1, <2>2, <2>3
<1>4. f[p + end] = After(f[p], r[p + end])
  <2>1. end \in Nat \ {0} /\ p + end <= Len(r)
    BY <1>0, <1>1, <1>2
  <2> QED BY ONLY IsReading(f, r), Len(r) \in Nat, p \in Nat, <1>3, <2>1, ReadingScans
<1>5. Laid(SubSeq(buffer, end + 1, Len(buffer)), wire, r, done, p + end, e)
  <2>1. end \in 0..Len(buffer)
    BY <1>1
  <2> QED BY <2>1, LaidDrops DEF Formed
<1> QED BY <1>2, <1>4, <1>5

LEMMA HeadReads == ASSUME SessionInv, ReadInv, ReadHead PROVE ReadInv'
<1> DEFINE end == FirstEnd({"head"})
           h == buffer[end].unit
<1>1. /\ pc = "head" /\ Ends({"head"}) # {}
      /\ h.framing # "bad" /\ (h.framing = "length" => h.size <= MaxBody)
      /\ pc' = BodyAt(h) /\ head' = buffer[end]
      /\ IF h.framing = "close" THEN buffer' = <<>> /\ total' = Len(buffer) - end
         ELSE Consume(end) /\ total' = IF h.framing = "length" THEN h.size ELSE 0
      /\ left' = IF h.framing = "length" THEN h.size ELSE 0
      /\ UNCHANGED <<wire, replies, done, results>>
  BY DEF ReadHead, netVars
<1>2. InPlace /\ Formed /\ Parsing
  BY <1>1 DEF ReadInv, Parsing, SessionInv
<1>3. Answer \in Seq(Units) /\ Len(Answer) \in Nat /\ IsReading(Reading(Answer), Answer)
  BY <1>2, AnswerTyped
<1>4. end \in 1..Len(buffer) /\ buffer[end] \in Items /\ h.kind = "head" /\ Len(buffer) \in Nat
  BY <1>1, <1>2, FirstEndProperty, LenProperties DEF Formed
<1>5. h \in Units /\ h.framing \in {"none", "length", "chunked", "close"} /\ h.size \in Nat
  BY <1>1, <1>4 DEF Items, Units, Framings
<1>6. PICK p \in 0..Len(Answer), e \in 0..Len(Answer) :
         Laid(buffer, wire, Answer, done, p, e)
         /\ Stands(pc, head.unit.framing, left, total, Reading(Answer)[p])
  BY <1>1, <1>2 DEF InPlace, Located
<1>7. PICK s : s = Reading(Answer)[p]
  OBVIOUS
<1>8. s = Start
  BY <1>1, <1>6, <1>7 DEF Stands
<1>9. \A unit \in Units : unit.kind \notin {"head"} => After(s, unit) = s
  BY <1>8 DEF After, Start, State
<1>10. /\ Reading(Answer)[p + end] = After(s, h)
       /\ p + end \in 1..Len(Answer)
       /\ h = Answer[p + end] /\ buffer[end].of = done
       /\ Laid(SubSeq(buffer, end + 1, Len(buffer)), wire, Answer, done, p + end, e)
  <2>1. p \in Nat /\ e \in Nat
    BY <1>3
  <2> HIDE DEF end, Answer
  <2> QED BY <1>1, <1>2, <1>3, <1>6, <1>7, <1>9, <2>1, LineRead DEF end
<1>11. After(s, h) = AfterHead(h)
  BY <1>4, <1>8 DEF After, Start, State
<1> HIDE DEF end, h
<1>12. /\ pc' \notin {"idle", "send", "head"}
       /\ pc' = "rest" <=> h.framing = "close"
       /\ pc' = "finish" <=> h.framing = "none"
       /\ pc' = "discard" <=> h.framing = "length"
       /\ pc' = "size" <=> h.framing = "chunked"
  BY <1>1, <1>5 DEF BodyAt
<1>13. total' \in Nat /\ (pc' # "rest" => total' <= MaxBody)
  BY <1>1, <1>4, <1>5, <1>12, Limits
<1>16. Parsing' /\ UNCHANGED <<results, replies, done>>
  BY <1>1, <1>12 DEF Parsing
<1>14. CASE h.framing = "close"
  <2>1. ~SelfDelimiting(Answer)
    BY <1>4, <1>10, <1>14 DEF SelfDelimiting, h
  <2>2. Answer' = Answer
    BY <1>1 DEF Answer
  <2>3. InPlace'
    BY <1>1, <1>2, <1>10, <1>12, <1>13, <1>14, <2>1, <2>2 DEF InPlace, h
  <2> QED BY <1>1, <1>2, <1>16, <2>3, StillReading
<1>15. CASE h.framing # "close"
  <2>1. Laid(buffer', wire', Answer, done, p + end, e) /\ p + end \in 0..Len(Answer)
    <3>1. buffer' = SubSeq(buffer, end + 1, Len(buffer)) /\ wire' = wire
      BY <1>1, <1>15 DEF Consume
    <3>2. p + end \in 0..Len(Answer)
      BY ONLY <1>3, <1>10
    <3> QED BY <1>10, <3>1, <3>2
  <2>2. Stands(pc', h.framing, left', total', AfterHead(h))
    <3>1. CASE h.framing = "length"
      <4>1. /\ pc' = "discard" /\ left' = h.size /\ total' = h.size
            /\ AfterHead(h) = AtData(h.size, "length", 0)
        BY <1>1, <1>12, <3>1 DEF AfterHead
      <4>2. total' - left' = 0
        BY <1>5, <4>1
      <4> QED BY <3>1, <4>1, <4>2 DEF Stands
    <3>2. CASE h.framing = "chunked"
      BY <1>1, <1>12, <3>2 DEF AfterHead, Stands
    <3>3. CASE h.framing = "none"
      BY <1>1, <1>12, <3>3 DEF AfterHead, Stands, State
    <3> QED BY <1>5, <1>15, <3>1, <3>2, <3>3
  <2>3. Located'
    BY <1>1, <1>6, <1>10, <1>11, <2>1, <2>2, Relocates DEF h
  <2>4. Answer' = Answer
    BY <1>1 DEF Answer
  <2>5. InPlace'
    BY <1>1, <1>2, <1>10, <1>12, <1>13, <1>15, <2>3, <2>4 DEF InPlace, h
  <2> QED BY <1>1, <1>2, <1>16, <2>5, StillReading
<1> QED BY <1>14, <1>15

\* Before the end of a response that does not end with the connection.
Inside == pc \in {"size", "crlf", "trailers", "discard"}

LEMMA InsideFacts ==
    ASSUME SessionInv, ReadInv, Inside
    PROVE  /\ Parsing /\ InPlace /\ Located /\ Formed
           /\ head.unit.framing # "close"
           /\ total \in Nat /\ total <= MaxBody
           /\ Answer \in Seq(Units) /\ Len(Answer) \in Nat /\ IsReading(Reading(Answer), Answer)
<1>1. Parsing /\ pc \notin {"head", "rest", "finish"}
  BY DEF Inside, Parsing
<1>2. InPlace /\ Formed
  BY <1>1 DEF ReadInv, SessionInv
<1>3. Located /\ head.unit.framing # "close" /\ total \in Nat /\ total <= MaxBody
  BY <1>1, <1>2 DEF InPlace
<1> QED BY <1>1, <1>2, <1>3, AnswerTyped

\* A step inside a response, or to its end.
LEMMA GoesOn ==
    ASSUME SessionInv, ReadInv, Inside, pc' \notin {"idle", "send", "head", "rest"},
           UNCHANGED <<replies, done, results, head>>,
           total' \in Nat, total' <= MaxBody, Located'
    PROVE  ReadInv'
<1>1. Parsing /\ InPlace /\ head.unit.framing # "close" /\ Parsing'
  BY InsideFacts DEF Parsing
<1>2. Answer' = Answer
  BY DEF Answer
<1>3. pc # "head"
  BY DEF Inside
<1>4. InPlace'
  BY <1>1, <1>2, <1>3 DEF InPlace
<1> QED BY <1>1, <1>4, StillReading

LEMMA DiscardReads == ASSUME SessionInv, ReadInv, Discard PROVE ReadInv'
<1>1. /\ pc = "discard" /\ Inside
      /\ buffer' = SubSeq(buffer, DiscardLess + 1, Len(buffer))
      /\ left' = left - DiscardLess
      /\ pc' = IF left = DiscardLess THEN AfterDiscard ELSE pc
      /\ UNCHANGED <<wire, replies, done, results, head, total>>
  BY DEF Discard, Consume, Inside, netVars
<1>2. /\ Located /\ Formed
      /\ total \in Nat /\ total <= MaxBody
      /\ Answer \in Seq(Units) /\ Len(Answer) \in Nat /\ IsReading(Reading(Answer), Answer)
  BY <1>1, InsideFacts
<1>3. PICK p \in 0..Len(Answer), e \in 0..Len(Answer) :
         Laid(buffer, wire, Answer, done, p, e)
         /\ Stands(pc, head.unit.framing, left, total, Reading(Answer)[p])
  BY <1>2 DEF Located
<1>4. PICK f : f = Reading(Answer)
  OBVIOUS
<1>5. PICK framing : framing = head.unit.framing
  OBVIOUS
<1>6. /\ framing \in {"length", "chunked"} /\ (left = 0 => framing = "length")
      /\ f[p] = AtData(left, framing, total - left)
  BY <1>1, <1>3, <1>4, <1>5 DEF Stands
<1>7. PICK m : m = DiscardLess
  OBVIOUS
<1>8. Len(buffer) \in Nat /\ Len(wire) \in Nat /\ left \in Nat /\ p \in Nat /\ e \in Nat
  BY <1>2, LenProperties DEF Formed
<1>9. m \in 0..Len(buffer) /\ m \in 0..left
  BY <1>7, <1>8 DEF DiscardLess
<1>10. p + m \in 0..Len(Answer)
  <2>1. Len(buffer) + Len(wire) = e - p /\ e <= Len(Answer)
    BY <1>3 DEF Laid
  <2> QED BY <1>2, <1>8, <1>9, <2>1
<1>11. Laid(buffer', wire', Answer, done, p + m, e)
  <2>1. Laid(SubSeq(buffer, m + 1, Len(buffer)), wire, Answer, done, p + m, e)
    BY <1>2, <1>3, <1>8, <1>9, LaidDrops DEF Formed
  <2> QED BY <1>1, <1>7, <2>1
<1>12. f[p + m] = AtData(left - m, framing, (total - left) + m)
  <2>1. framing \in Framings /\ total - left \in Int /\ p + m <= Len(Answer)
    BY <1>2, <1>6, <1>8, <1>10 DEF Framings
  <2>2. IsReading(f, Answer)
    BY <1>2, <1>4
  <2> HIDE DEF Answer
  <2> QED BY <1>2, <1>6, <1>8, <1>9, <2>1, <2>2, ReadingData
<1>13. f[p + m] = AtData(left', framing, total' - left')
  <2>1. left' = left - m /\ total' - left' = (total - left) + m
    BY <1>1, <1>2, <1>7, <1>8, <1>9
  <2> QED BY <1>12, <2>1
<1>14. Stands(pc', framing, left', total', f[p + m])
  <2>1. CASE left = m
    <3>1. left' = 0 /\ total' - left' = total'
      BY <1>1, <1>2, <1>7, <1>8, <2>1
    <3>2. f[p + m] = IF framing = "chunked" THEN State("crlf", 0, framing, total')
                     ELSE State("finish", 0, framing, total')
      BY <1>13, <3>1 DEF AtData
    <3>3. pc' = IF framing = "chunked" THEN "crlf" ELSE "finish"
      BY <1>1, <1>5, <1>7, <2>1 DEF AfterDiscard
    <3> QED BY <3>1, <3>2, <3>3 DEF Stands, State
  <2>2. CASE left # m
    <3>1. pc' = "discard" /\ left' # 0
      BY <1>1, <1>7, <1>8, <1>9, <2>2
    <3> QED BY <1>6, <1>13, <3>1 DEF Stands
  <2> QED BY <2>1, <2>2
<1>15. Located'
  BY <1>1, <1>3, <1>4, <1>5, <1>10, <1>11, <1>14, Relocates
<1>16. pc' \notin {"idle", "send", "head", "rest"}
  BY <1>1 DEF AfterDiscard
<1> QED BY <1>1, <1>2, <1>15, <1>16, GoesOn

LEMMA CrlfReads == ASSUME SessionInv, ReadInv, ReadCrlf PROVE ReadInv'
<1>1. /\ pc = "crlf" /\ Inside /\ pc' = "size"
      /\ buffer # <<>> /\ buffer[1].unit.kind = "crlf"
      /\ buffer' = SubSeq(buffer, 1 + 1, Len(buffer))
      /\ UNCHANGED <<wire, replies, done, results, head, left, total>>
  BY DEF ReadCrlf, Consume, Inside, netVars
<1>2. /\ Located /\ Formed
      /\ total \in Nat /\ total <= MaxBody
      /\ Answer \in Seq(Units) /\ Len(Answer) \in Nat /\ IsReading(Reading(Answer), Answer)
  BY <1>1, InsideFacts
<1>3. PICK p \in 0..Len(Answer), e \in 0..Len(Answer) :
         Laid(buffer, wire, Answer, done, p, e)
         /\ Stands(pc, head.unit.framing, left, total, Reading(Answer)[p])
  BY <1>2 DEF Located
<1>4. PICK f : f = Reading(Answer)
  OBVIOUS
<1>5. /\ head.unit.framing = "chunked" /\ left = 0
      /\ f[p] = State("crlf", 0, "chunked", total)
  BY <1>1, <1>3, <1>4 DEF Stands
<1>6. 1 \in 1..Len(buffer) /\ 1 \in 0..Len(buffer) /\ p \in Nat /\ e \in Nat
  <2>1. Len(buffer) \in Nat /\ Len(buffer) # 0
    BY <1>1, <1>2, LenProperties, EmptySeq DEF Formed
  <2> QED BY <1>2, <2>1
<1>7. buffer[1].unit = Answer[p + 1] /\ p + 1 \in 1..Len(Answer) /\ p + 1 \in 0..Len(Answer)
  <2>1. buffer[1].unit = Answer[p + 1] /\ p + 1 \in 1..e /\ e <= Len(Answer)
    BY <1>2, <1>3, <1>6, LaidAhead
  <2> QED BY <1>2, <1>6, <2>1
<1>8. f[p + 1] = After(f[p], Answer[p + 1])
  <2>1. (p + 1) - 1 = p
    BY <1>6
  <2> QED BY <1>2, <1>4, <1>7, <2>1 DEF IsReading
<1>9. f[p + 1] = State("size", 0, "chunked", total)
  BY <1>1, <1>5, <1>7, <1>8 DEF After, State
<1>10. Laid(buffer', wire', Answer, done, p + 1, e)
  <2>1. Laid(SubSeq(buffer, 1 + 1, Len(buffer)), wire, Answer, done, p + 1, e)
    BY <1>2, <1>3, <1>6, LaidDrops DEF Formed
  <2> QED BY <1>1, <2>1
<1>11. Stands(pc', head'.unit.framing, left', total', f[p + 1])
  BY <1>1, <1>5, <1>9 DEF Stands
<1>12. Located'
  BY <1>1, <1>3, <1>4, <1>7, <1>10, <1>11, Relocates
<1> QED BY <1>1, <1>2, <1>12, GoesOn

\* What a line inside a response starts from, and where its end is.
LEMMA InsideLine ==
    ASSUME SessionInv, ReadInv, pc \in {"size", "trailers"}, Ends(LineEnds) # {},
           NEW end, end = FirstEnd(LineEnds)
    PROVE  /\ buffer[end].unit \in Units /\ buffer[end].unit.kind \in LineEnds
           /\ head.unit.framing = "chunked" /\ left = 0
           /\ \E p, e \in 0..Len(Answer) :
                 /\ Laid(SubSeq(buffer, end + 1, Len(buffer)), wire, Answer, done, p, e)
                 /\ Reading(Answer)[p] = After(State(pc, 0, "chunked", total), buffer[end].unit)
<1>1. Inside
  BY DEF Inside
<1>2. /\ Located /\ Formed
      /\ Answer \in Seq(Units) /\ Len(Answer) \in Nat /\ IsReading(Reading(Answer), Answer)
  BY <1>1, InsideFacts
<1>3. PICK p \in 0..Len(Answer), e \in 0..Len(Answer) :
         Laid(buffer, wire, Answer, done, p, e)
         /\ Stands(pc, head.unit.framing, left, total, Reading(Answer)[p])
  BY <1>2 DEF Located
<1>4. PICK f : f = Reading(Answer)
  OBVIOUS
<1>5. /\ head.unit.framing = "chunked" /\ left = 0
      /\ f[p] = State(pc, 0, "chunked", total)
  BY <1>3, <1>4 DEF Stands
<1>6. \A unit \in Units : unit.kind \notin LineEnds => After(f[p], unit) = f[p]
  <2>1. f[p].at \in {"size", "trailers"}
    BY <1>5 DEF State
  <2> QED BY <2>1 DEF After
<1>7. /\ f[p + end] = After(f[p], buffer[end].unit)
      /\ p + end \in 1..Len(Answer)
      /\ Laid(SubSeq(buffer, end + 1, Len(buffer)), wire, Answer, done, p + end, e)
  <2>1. p \in Nat /\ e \in Nat /\ IsReading(f, Answer)
    BY <1>2, <1>4
  <2> HIDE DEF Answer
  <2> QED BY <1>2, <1>3, <1>6, <2>1, LineRead
<1>8. p + end \in 0..Len(Answer)
  BY ONLY <1>2, <1>7
<1>9. buffer[end] \in Items /\ buffer[end].unit.kind \in LineEnds
  BY <1>2, FirstEndProperty
<1> QED BY <1>3, <1>4, <1>5, <1>7, <1>8, <1>9 DEF Items

LEMMA SizeReads == ASSUME SessionInv, ReadInv, ReadSize PROVE ReadInv'
<1>1. PICK end : end = FirstEnd(LineEnds)
  OBVIOUS
<1>2. PICK line : line = buffer[end].unit
  OBVIOUS
<1>3. /\ pc = "size" /\ Inside /\ Ends(LineEnds) # {}
      /\ line.kind = "size" /\ line.size \in 0..(MaxBody - total)
      /\ buffer' = SubSeq(buffer, end + 1, Len(buffer))
      /\ left' = line.size /\ total' = total + line.size
      /\ pc' = IF line.size = 0 THEN "trailers" ELSE "discard"
      /\ UNCHANGED <<wire, replies, done, results, head>>
  BY <1>1, <1>2 DEF ReadSize, Consume, Inside, netVars
<1>4. total \in Nat /\ total <= MaxBody
  BY <1>3, InsideFacts
<1>5. line.size \in Nat /\ total' \in Nat /\ total' <= MaxBody
  BY <1>3, <1>4, Limits
<1>6. line \in Units /\ head.unit.framing = "chunked"
  BY <1>1, <1>2, <1>3, InsideLine
<1>7. PICK p \in 0..Len(Answer), e \in 0..Len(Answer) :
         /\ Laid(buffer', wire, Answer, done, p, e)
         /\ Reading(Answer)[p] = After(State("size", 0, "chunked", total), line)
  BY <1>1, <1>2, <1>3, InsideLine
<1>8. Reading(Answer)[p] = AfterSize(line.size, total)
  <2>1. State("size", 0, "chunked", total).at = "size" /\ State("size", 0, "chunked", total).body = total
    BY DEF State
  <2> QED BY <1>3, <1>7, <2>1 DEF After, LineEnds
<1>9. Stands(pc', head'.unit.framing, left', total', Reading(Answer)[p])
  <2>1. CASE line.size = 0
    BY <1>3, <1>4, <1>6, <1>8, <2>1 DEF AfterSize, Stands
  <2>2. CASE line.size # 0
    <3>1. Reading(Answer)[p] = AtData(line.size, "chunked", total)
      BY <1>5, <1>8, <2>2 DEF AfterSize
    <3>2. total' - left' = total /\ left' # 0 /\ pc' = "discard" /\ left' = line.size
      BY <1>3, <1>4, <1>5, <2>2
    <3> QED BY <1>3, <1>6, <3>1, <3>2 DEF Stands
  <2> QED BY <2>1, <2>2
<1>10. Located'
  BY <1>3, <1>7, <1>9, Relocates
<1> QED BY <1>3, <1>5, <1>10, GoesOn

LEMMA TrailerReads == ASSUME SessionInv, ReadInv, ReadTrailer PROVE ReadInv'
<1>1. PICK end : end = FirstEnd(LineEnds)
  OBVIOUS
<1>2. PICK line : line = buffer[end].unit
  OBVIOUS
<1>3. /\ pc = "trailers" /\ Inside /\ Ends(LineEnds) # {}
      /\ \/ line.kind = "crlf" /\ pc' = "finish"
         \/ line.kind = "trailer" /\ pc' = "trailers"
      /\ buffer' = SubSeq(buffer, end + 1, Len(buffer))
      /\ UNCHANGED <<wire, replies, done, results, head, left, total>>
  <2>1. /\ pc = "trailers" /\ Ends(LineEnds) # {}
        /\ UNCHANGED <<wire, replies, done, results, head, left, total>>
    BY DEF ReadTrailer, netVars
  <2>2. /\ \/ line.kind = "crlf" /\ pc' = "finish"
           \/ line.kind = "trailer" /\ pc' = pc
        /\ buffer' = SubSeq(buffer, end + 1, Len(buffer))
    BY <1>1, <1>2 DEF ReadTrailer, Consume
  <2> QED BY <2>1, <2>2 DEF Inside
<1>4. total \in Nat /\ total <= MaxBody
  BY <1>3, InsideFacts
<1>6. head.unit.framing = "chunked" /\ left = 0
  BY <1>1, <1>3, InsideLine
<1>7. PICK p \in 0..Len(Answer), e \in 0..Len(Answer) :
         /\ Laid(buffer', wire, Answer, done, p, e)
         /\ Reading(Answer)[p] = After(State("trailers", 0, "chunked", total), line)
  BY <1>1, <1>2, <1>3, InsideLine
<1>8. Reading(Answer)[p] = State(pc', 0, "chunked", total)
  <2>1. /\ State("trailers", 0, "chunked", total).at = "trailers"
        /\ State("trailers", 0, "chunked", total).body = total
    BY DEF State
  <2> QED BY <1>3, <1>7, <2>1 DEF After, LineEnds
<1>9. Stands(pc', head'.unit.framing, left', total', Reading(Answer)[p])
  BY <1>3, <1>6, <1>8 DEF Stands, State
<1>10. Located'
  BY <1>3, <1>7, <1>9, Relocates
<1> QED BY <1>3, <1>4, <1>10, GoesOn

LEMMA ReceiveReads == ASSUME SessionInv, ReadInv, Receive PROVE ReadInv'
<1>1. /\ pc \in {"head", "size", "trailers", "discard", "crlf", "rest"} /\ pc' = pc
      /\ UNCHANGED <<replies, done, results, head, left>>
  BY DEF Receive, Starved
<1>2. PICK k \in 1..MaxPiece :
         /\ k <= Len(wire)
         /\ IF pc = "rest" THEN total' = total + k /\ UNCHANGED buffer
            ELSE buffer' = buffer \o SubSeq(wire, 1, k) /\ UNCHANGED total
         /\ wire' = SubSeq(wire, k + 1, Len(wire))
  BY DEF Receive
<1>3. Parsing /\ Parsing' /\ InPlace /\ Formed /\ Answer' = Answer
  BY <1>1 DEF ReadInv, Parsing, SessionInv, Answer
<1>4. CASE pc = "rest"
  <2>1. total' \in Nat
    BY <1>2, <1>3, <1>4, Limits DEF InPlace
  <2>2. head.unit.framing = "close"
    BY <1>3, <1>4 DEF InPlace
  <2>3. InPlace'
    BY <1>1, <1>3, <1>4, <2>1, <2>2 DEF InPlace
  <2> QED BY <1>1, <1>3, <2>3, StillReading
<1>5. CASE pc # "rest"
  <2>1. Located
    BY <1>1, <1>3, <1>5 DEF InPlace
  <2>2. PICK p \in 0..Len(Answer), e \in 0..Len(Answer) :
           Laid(buffer, wire, Answer, done, p, e)
           /\ Stands(pc, head.unit.framing, left, total, Reading(Answer)[p])
    BY <2>1 DEF Located
  <2>3. Len(Answer) \in Nat
    BY <1>3, AnswerTyped
  <2>4. k \in 1..Len(wire) /\ p \in Nat /\ e \in Nat
    BY <1>2, <1>3, <2>3, LenProperties, Limits DEF Formed
  <2>5. Laid(buffer \o SubSeq(wire, 1, k), SubSeq(wire, k + 1, Len(wire)), Answer, done, p, e)
    BY <1>3, <2>2, <2>4, LaidMoves DEF Formed
  <2>6. Laid(buffer', wire', Answer, done, p, e)
    BY <1>2, <1>5, <2>5
  <2>7. Stands(pc', head'.unit.framing, left', total', Reading(Answer)[p])
    BY <1>1, <1>2, <1>5, <2>2
  <2>8. Located'
    BY <1>1, <2>2, <2>6, <2>7, Relocates
  <2>9. InPlace'
    BY <1>1, <1>2, <1>3, <1>5, <2>8 DEF InPlace
  <2> QED BY <1>1, <1>3, <2>9, StillReading
<1> QED BY <1>4, <1>5

LEMMA RestReads == ASSUME SessionInv, ReadInv, RestEnds PROVE ReadInv'
<1>1. /\ pc = "rest" /\ pc' = "finish" /\ total <= MaxBody
      /\ UNCHANGED <<replies, done, results, head, total>>
  BY DEF RestEnds, netVars, parseVars
<1>2. Parsing /\ Parsing' /\ InPlace /\ Answer' = Answer
  BY <1>1 DEF ReadInv, Parsing, Answer
<1>3. InPlace'
  BY <1>1, <1>2 DEF InPlace
<1> QED BY <1>1, <1>2, <1>3, StillReading

\* What the server sends is all in front of the parser.
LEMMA LaidAnew ==
    ASSUME NEW r \in Seq(Units), NEW n, NEW sent \in 0..Len(r)
    PROVE  Laid(<<>>, OfExchange(SubSeq(r, 1, sent), n), r, n, 0, sent)
<1>1. PICK L \in Nat : L = Len(r)
  BY LenProperties
<1>2. \A i \in 1..L : r[i] \in Units
  BY <1>1, ElementOfSeq
<1> DEFINE q == SubSeq(r, 1, sent)
           w == OfExchange(q, n)
<1>3. Len(q) = sent /\ \A i \in 1..sent : q[i] = r[i]
  BY <1>1, <1>2, SubSeqProperties
<1> HIDE DEF q
<1>4. w = [i \in 1..sent |-> ItemOf(q[i], n)] /\ sent \in Nat
  BY <1>1, <1>3 DEF OfExchange, ItemOf
<1>5. Len(w) = sent /\ \A i \in 1..sent : w[i] = ItemOf(r[i], n)
  BY <1>3, <1>4
<1> HIDE DEF w
<1>6. Len(<<>>) = 0
  BY EmptySeq
<1>7. \A i \in 1..Len(w) : w[i] = ItemOf(r[0 + Len(<<>>) + i], n)
  BY <1>1, <1>5, <1>6
<1>8. sent <= Len(r) /\ Len(<<>>) + Len(w) = sent - 0 /\ \A i \in 1..Len(<<>>) : FALSE
  BY <1>1, <1>5, <1>6
<1> QED BY <1>7, <1>8 DEF Laid, w, q

LEMMA SendReads == ASSUME SessionInv, ReadInv, SendRequest PROVE ReadInv'
<1>1. /\ pc = "send" /\ pc' = "head"
      /\ UNCHANGED <<done, buffer, head, left, total, results>>
  BY DEF SendRequest, parseVars
<1>2. /\ buffer = <<>> /\ wire = <<>> /\ Recorded /\ Kept
      /\ Len(results) = done - 1 /\ Len(replies) = done - 1 /\ done \in Nat
  BY <1>1 DEF ReadInv, Clean, Recorded
<1>3. \E r \in Replies \cup {<<>>} : \E sent \in 0..Len(r) :
         replies' = Append(replies, r) /\ wire' = OfExchange(SubSeq(r, 1, sent), done)
  <2>1. CASE eof
    <3>1. replies' = Append(replies, <<>>) /\ wire' = <<>>
      BY <1>2, <2>1 DEF SendRequest
    <3>2. 0 \in 0..Len(<<>>) /\ OfExchange(SubSeq(<<>>, 1, 0), done) = <<>>
      <4>1. Len(<<>>) = 0
        BY EmptySeq
      <4>2. SubSeq(<<>>, 1, 0) \in Seq(Units) /\ Len(SubSeq(<<>>, 1, 0)) = 0
        BY <4>1, EmptyReply, SubSeqProperties
      <4>3. OfExchange(SubSeq(<<>>, 1, 0), done) = <<>>
        BY <4>2 DEF OfExchange
      <4> QED BY <4>1, <4>3
    <3> QED BY <3>1, <3>2
  <2>2. CASE ~eof
    <3>1. PICK r \in Replies : \E sent \in 0..Len(r) :
             /\ replies' = Append(replies, r)
             /\ wire' = wire \o OfExchange(SubSeq(r, 1, sent), done)
      BY <2>2 DEF SendRequest
    <3>2. PICK sent \in 0..Len(r) :
             /\ replies' = Append(replies, r)
             /\ wire' = wire \o OfExchange(SubSeq(r, 1, sent), done)
      BY <3>1
    <3>3. r \in Seq(Units) /\ Len(r) \in Nat
      BY Limits, LenProperties
    <3>4. OfExchange(SubSeq(r, 1, sent), done) \in Seq(Items)
      BY <1>2, <3>3, ExchangeTyped
    <3>5. wire' = OfExchange(SubSeq(r, 1, sent), done)
      <4> DEFINE w == OfExchange(SubSeq(r, 1, sent), done)
      <4>1. w \in Seq(Items) /\ wire' = <<>> \o w
        BY <1>2, <3>2, <3>4
      <4> HIDE DEF w
      <4>2. <<>> \o w = w
        BY <4>1, ConcatEmptySeq
      <4> QED BY <4>1, <4>2 DEF w
    <3> QED BY <3>2, <3>5
  <2> QED BY <2>1, <2>2
<1>4. PICK r \in Replies \cup {<<>>} : \E sent \in 0..Len(r) :
         replies' = Append(replies, r) /\ wire' = OfExchange(SubSeq(r, 1, sent), done)
  BY <1>3
<1>5. PICK sent \in 0..Len(r) :
         replies' = Append(replies, r) /\ wire' = OfExchange(SubSeq(r, 1, sent), done)
  BY <1>4
<1>6. r \in Seq(Units) /\ Len(r) \in Nat
  BY Limits, EmptyReply, LenProperties
<1>7. /\ replies' \in Seq(Seq(Units)) /\ Len(replies') = done /\ replies'[done] = r
      /\ \A n \in 1..(done - 1) : replies'[n] = replies[n]
  <2>1. replies \in Seq(Seq(Units)) /\ Len(replies) = done - 1 /\ done \in Nat
    BY <1>2 DEF Recorded
  <2>2. /\ replies' \in Seq(Seq(Units)) /\ Len(replies') = Len(replies) + 1
        /\ replies'[Len(replies) + 1] = r
        /\ \A n \in 1..Len(replies) : replies'[n] = replies[n]
    BY ONLY <1>5, <1>6, <2>1, Appended
  <2> QED BY <2>1, <2>2
<1>8. Recorded'
  BY <1>1, <1>2, <1>7 DEF Recorded
<1>9. Kept'
  BY <1>1, <1>2, <1>7 DEF Kept, Answered
<1>10. Clean' /\ Parsing'
  BY <1>1 DEF Clean, Parsing
<1>11. Answer' = r
  BY <1>1, <1>7 DEF Answer
<1>12. Located'
  <2>1. Laid(buffer', wire', r, done, 0, sent)
    BY <1>1, <1>2, <1>5, <1>6, LaidAnew
  <2>2. Reading(r)[0] = Start
    BY <1>6, ReadingIs DEF IsReading
  <2>3. Stands(pc', head'.unit.framing, left', total', Reading(r)[0])
    BY <1>1, <2>2 DEF Stands
  <2>4. 0 \in 0..Len(r) /\ sent \in 0..Len(r)
    BY <1>6
  <2> QED BY <1>1, <1>11, <2>1, <2>3, <2>4 DEF Located
<1>13. InPlace'
  BY <1>1, <1>11, <1>12 DEF InPlace
<1> QED BY <1>8, <1>9, <1>10, <1>13 DEF ReadInv

\* A response that was read to its end was the whole answer, and nothing is left.
LEMMA ReadToTheEnd ==
    ASSUME SessionInv, InPlace, pc = "finish", head.unit.framing # "close", OneResponse(Answer)
    PROVE  buffer = <<>> /\ wire = <<>> /\ total = DataUnits(Answer)
<1>1. Located /\ Formed
  BY DEF InPlace, SessionInv
<1>2. Answer \in Seq(Units) /\ Len(Answer) \in Nat
  BY AnswerTyped
<1>3. PICK p \in 0..Len(Answer), e \in 0..Len(Answer) :
         Laid(buffer, wire, Answer, done, p, e)
         /\ Stands(pc, head.unit.framing, left, total, Reading(Answer)[p])
  BY <1>1 DEF Located
<1>4. Reading(Answer)[p].at = "finish" /\ Reading(Answer)[p].body = total
  BY <1>3 DEF Stands
<1>5. p = Len(Answer)
  <2>1. p \notin 0..(Len(Answer) - 1)
    BY <1>4 DEF OneResponse
  <2> QED BY <1>2, <2>1
<1>6. total = DataUnits(Answer)
  <2> HIDE DEF Answer
  <2> QED BY <1>2, <1>4, <1>5, DataCount
<1>7. Len(buffer) \in Nat /\ Len(wire) \in Nat
  BY <1>1, LenProperties DEF Formed
<1>8. Len(buffer) + Len(wire) = e - p
  BY <1>3 DEF Laid
<1>9. Len(buffer) = 0 /\ Len(wire) = 0
  BY <1>2, <1>5, <1>7, <1>8
<1> QED BY <1>1, <1>6, <1>9, EmptySeq DEF Formed

LEMMA FinishReads ==
    ASSUME SessionInv, ReadInv, \A reply \in Replies : OneResponse(reply), Finish
    PROVE  ReadInv'
<1>1. /\ pc = "finish" /\ pc' = "idle"
      /\ reusable' = (reusable /\ head.unit.keep /\ head.unit.framing # "close" /\ ~close)
      /\ results' = Append(results, Response)
      /\ UNCHANGED <<closed, replies, done, buffer, wire>>
  BY DEF Finish, netVars, parseVars
<1>2. Parsing /\ InPlace /\ Recorded /\ Kept
  BY <1>1 DEF ReadInv, Parsing
<1>3. /\ Len(results) = done - 1 /\ Len(replies) = done /\ done \in Nat
      /\ head.of = done /\ total \in Nat /\ total <= MaxBody
  BY <1>1, <1>2 DEF Recorded, InPlace
<1>4. /\ Response \in Results /\ Response.bytes = total /\ Response.of = done
  BY <1>3 DEF Response, Results
<1>5. results' \in Seq(Results) /\ Len(results') = done
  <2>1. results' \in Seq(Results) /\ Len(results') = Len(results) + 1
    BY <1>1, <1>2, <1>4, Appended DEF Recorded
  <2> QED BY <1>3, <2>1
<1>6. Recorded'
  BY <1>1, <1>2, <1>3, <1>5 DEF Recorded
<1>7. OneResponse(Answer)
  <2>1. OneResponse(<<>>)
    <3>1. Reading(<<>>)[0] = Start /\ Len(<<>>) = 0
      BY EmptyReply, ReadingIs DEF IsReading
    <3> QED BY <3>1 DEF OneResponse, Start, State
  <2> QED BY <1>2, <2>1 DEF InPlace
<1>8. head.unit.framing # "close" => buffer = <<>> /\ wire = <<>> /\ total = DataUnits(Answer)
  BY <1>1, <1>2, <1>7, ReadToTheEnd
<1>9. head.unit.framing = "close" => ~SelfDelimiting(Answer)
  BY <1>1, <1>2 DEF InPlace
<1>10. Right(Response, done, Answer)
  BY <1>3, <1>4, <1>8, <1>9 DEF Right
<1>11. Kept'
  <2>1. Len(results) + 1 = done /\ Len(results) <= Len(replies)
    BY <1>3
  <2>2. Right(Response, Len(results) + 1, replies'[Len(results) + 1])
    BY <1>1, <1>10, <2>1 DEF Answer
  <2> QED BY <1>1, <1>2, <1>4, <2>1, <2>2, ResultKept
<1>12. Clean'
  BY <1>1, <1>8 DEF Clean, Usable
<1>13. ~Parsing'
  BY <1>1 DEF Parsing
<1> QED BY <1>6, <1>11, <1>12, <1>13 DEF ReadInv

-----------------------------------------------------------------------------
LEMMA ReadInit == Init => ReadInv
<1>1. <<>> \in Seq(Results) /\ <<>> \in Seq(Seq(Units)) /\ Len(<<>>) = 0
  BY EmptySeq
<1> QED BY <1>1 DEF Init, ReadInv, Recorded, Kept, Answered, Clean, Parsing

LEMMA ReadStep ==
    ASSUME \A reply \in Replies : OneResponse(reply)
    PROVE  SessionInv /\ ReadInv /\ [Next]_vars => ReadInv'
<1> SUFFICES ASSUME SessionInv, ReadInv, [Next]_vars PROVE ReadInv'
  OBVIOUS
<1>1. CASE Continues
  BY <1>1, SendReads, ReceiveReads, HeadReads, DiscardReads, SizeReads, CrlfReads, TrailerReads,
     RestReads, OthersRead DEF Continues
<1>2. CASE Fails \/ BeginExecute \/ Finish \/ Close \/ ExecuteRefused \/ CallClose \/ UNCHANGED vars
  BY <1>2, FailsReads, BeginReads, FinishReads, CloseReads, RefusedReads, OthersRead
<1> QED BY <1>1, <1>2, StepCases

LEMMA ReadInductive ==
    ASSUME \A reply \in Replies : OneResponse(reply)
    PROVE  Spec => []ReadInv
BY Inductive, ReadInit, ReadStep, PTL DEF Spec

(***************************************************************************)
(* With a server that gives at most one response to each request, in any   *)
(* pieces, cut off or reset anywhere, well-formed or not: what execute     *)
(* returns is never the answer to an earlier request on the connection,    *)
(* whatever it returned or raised before.                                  *)
(***************************************************************************)
THEOREM OwnRequestIsAnswered ==
    ASSUME \A reply \in Replies : OneResponse(reply)
    PROVE  Spec => []AnswersOwnRequest
<1>1. ReadInv => AnswersOwnRequest
  BY DEF ReadInv, Kept, Right, AnswersOwnRequest
<1> QED BY <1>1, ReadInductive, PTL

(***************************************************************************)
(* With such a server a session that may be used again has nothing of an   *)
(* earlier response before it, however exchanges on it have ended.         *)
(***************************************************************************)
THEOREM ReusableIsConsumed ==
    ASSUME \A reply \in Replies : OneResponse(reply)
    PROVE  Spec => []ReusableMeansConsumed
<1>1. ReadInv => ReusableMeansConsumed
  BY DEF ReadInv, Clean, ReusableMeansConsumed
<1> QED BY <1>1, ReadInductive, PTL

(***************************************************************************)
(* With such a server a response that delimits itself is returned only with *)
(* all of its data counted, wherever the connection ended and the pieces   *)
(* were cut; and none is returned with more data than the limit.           *)
(***************************************************************************)
THEOREM BodiesAreWhole ==
    ASSUME \A reply \in Replies : OneResponse(reply)
    PROVE  Spec => []WholeBody
<1>1. ReadInv => WholeBody
  BY DEF ReadInv, Kept, Right, WholeBody
<1> QED BY <1>1, ReadInductive, PTL

-----------------------------------------------------------------------------
(* The replies of the scenario server. *)

Joined(a, b, x) == a \o Append(b, x) = Append(a \o b, x)

LEMMA ConcatAppend == \A a, b \in Seq(Units), x \in Units : Joined(a, b, x)
<1> SUFFICES ASSUME NEW a \in Seq(Units), NEW b \in Seq(Units), NEW x \in Units
             PROVE  a \o Append(b, x) = Append(a \o b, x)
  BY DEF Joined
<1>1. a \o b \in Seq(Units) /\ <<x>> \in Seq(Units)
  BY ConcatProperties
<1>2. Append(b, x) = b \o <<x>> /\ Append(a \o b, x) = (a \o b) \o <<x>>
  BY <1>1, AppendIsConcat
<1>3. PICK e : e = <<x>>
  OBVIOUS
<1>4. e \in Seq(Units)
  BY <1>1, <1>3
<1>5. (a \o b) \o e = a \o (b \o e)
  BY ONLY a \in Seq(Units), b \in Seq(Units), <1>4, ConcatAssociative
<1> QED BY <1>2, <1>3, <1>5

\* A part of one response, after which its reader stands at s.
Reads(q, s) ==
    /\ q \in Seq(Units)
    /\ Reading(q)[Len(q)] = s
    /\ \A k \in 0..(Len(q) - 1) : Reading(q)[k].at # "finish"
    /\ \A k \in 1..Len(q) : q[k].kind = "data" <=> Reading(q)[k - 1].at = "discard"

LEMMA ReadsOne == ASSUME NEW q, NEW s, Reads(q, s) PROVE OneResponse(q)
BY DEF Reads, OneResponse

LEMMA ReadsEmpty == Reads(<<>>, Start)
<1>1. IsReading(Reading(<<>>), <<>>) /\ Len(<<>>) = 0
  BY EmptyReply, ReadingIs
<1> QED BY <1>1, EmptyReply DEF Reads, IsReading

LEMMA ReadsAppend ==
    ASSUME NEW q, NEW s, Reads(q, s), s.at # "finish",
           NEW unit \in Units, unit.kind = "data" <=> s.at = "discard"
    PROVE  Reads(Append(q, unit), After(s, unit))
<1>1. PICK L \in Nat : L = Len(q)
  BY LenProperties DEF Reads
<1>2. PICK r : r = Append(q, unit)
  OBVIOUS
<1>3. /\ r \in Seq(Units) /\ Len(r) = L + 1 /\ r[L + 1] = unit
      /\ \A k \in 1..L : r[k] = q[k]
  BY <1>1, <1>2, Appended DEF Reads
<1>4. PICK f : f = Reading(q)
  OBVIOUS
<1>5. PICK h : h = Reading(r)
  OBVIOUS
<1>6. IsReading(f, q) /\ IsReading(h, r)
  BY <1>3, <1>4, <1>5, ReadingIs DEF Reads
<1>7. Same(f, h, L)
  <2>1. f[0] = h[0]
    BY <1>6 DEF IsReading
  <2>2. ASSUME NEW k \in 1..L, f[k - 1] = h[k - 1] PROVE f[k] = h[k]
    <3>1. k \in 1..Len(q) /\ k \in 1..Len(r)
      BY <1>1, <1>3
    <3> QED BY <1>3, <1>6, <2>2, <3>1 DEF IsReading
  <2> QED BY <2>1, <2>2, Alike
<1>8. \A k \in 0..L : h[k] = f[k]
  BY <1>7 DEF Same
<1>9. f[L] = s /\ h[L] = s
  BY <1>1, <1>4, <1>8 DEF Reads
<1>10. h[L + 1] = After(s, unit)
  <2>1. L + 1 \in 1..Len(r) /\ (L + 1) - 1 = L
    BY <1>3
  <2> QED BY <1>3, <1>6, <1>9, <2>1 DEF IsReading
<1>11. ASSUME NEW k \in 0..L PROVE h[k].at # "finish"
  <2>1. CASE k = L
    BY <1>9, <2>1
  <2>2. CASE k # L
    <3>1. k \in 0..(Len(q) - 1)
      BY <1>1, <2>2
    <3> QED BY <1>4, <1>8, <3>1 DEF Reads
  <2> QED BY <2>1, <2>2
<1>12. ASSUME NEW k \in 1..(L + 1) PROVE r[k].kind = "data" <=> h[k - 1].at = "discard"
  <2>1. CASE k = L + 1
    BY <1>3, <1>9, <2>1
  <2>2. CASE k # L + 1
    <3>1. k \in 1..L /\ k \in 1..Len(q) /\ k - 1 \in 0..L
      BY <1>1, <2>2
    <3>2. q[k].kind = "data" <=> f[k - 1].at = "discard"
      BY <1>4, <3>1 DEF Reads
    <3> QED BY <1>3, <1>8, <3>1, <3>2
  <2> QED BY <2>1, <2>2
<1>13. Reads(r, After(s, unit))
  <2>1. Len(r) - 1 = L
    BY <1>3
  <2> QED BY <1>3, <1>5, <1>10, <1>11, <1>12, <2>1 DEF Reads
<1> QED BY <1>2, <1>13

LEMMA PlainUnits ==
    /\ Plain("data") \in Units /\ Plain("data").kind = "data"
    /\ Plain("crlf") \in Units /\ Plain("crlf").kind = "crlf"
BY DEF Plain, Unit, Units, UnitKinds, Framings

LEMMA DataGrows ==
    /\ Data(0) = <<>>
    /\ \A n \in Nat : Data(n) \in Seq(Units) /\ Data(n + 1) = Append(Data(n), Plain("data"))
<1> DEFINE d == Plain("data")
<1>0. d \in Units
  BY PlainUnits
<1>1. ASSUME NEW n \in Nat
      PROVE  Data(n) \in Seq(Units) /\ Len(Data(n)) = n /\ \A i \in 1..n : Data(n)[i] = d
  <2>1. Data(n) \in [1..n -> Units]
    BY <1>0 DEF Data
  <2> QED BY <2>1 DEF Data
<1> HIDE DEF d
<1>2. Data(0) = <<>>
  BY <1>1, EmptySeq
<1>3. ASSUME NEW n \in Nat PROVE Data(n + 1) = Append(Data(n), d)
  <2> DEFINE a == Data(n)
             b == Data(n + 1)
  <2>1. a \in Seq(Units) /\ Len(a) = n /\ \A i \in 1..n : a[i] = d
    BY <1>1
  <2>2. b \in Seq(Units) /\ Len(b) = n + 1 /\ \A i \in 1..(n + 1) : b[i] = d
    BY <1>1
  <2> HIDE DEF a, b
  <2>3. /\ Append(a, d) \in Seq(Units) /\ Len(Append(a, d)) = n + 1
        /\ \A i \in 1..n : Append(a, d)[i] = d
        /\ Append(a, d)[n + 1] = d
    BY <1>0, <2>1, Appended
  <2>4. \A i \in 1..(n + 1) : Append(a, d)[i] = b[i]
    BY <2>2, <2>3
  <2>5. Append(a, d) = b
    BY <2>2, <2>3, <2>4, SeqEqual
  <2> QED BY <2>5 DEF a, b
<1> QED BY <1>1, <1>2, <1>3 DEF d

\* Data that are due, all of them or fewer.
LEMMA ReadsData ==
    ASSUME NEW q, NEW due \in Nat, NEW framing \in Framings, NEW body \in Int,
           Reads(q, AtData(due, framing, body)), NEW n \in 0..due
    PROVE  Reads(q \o Data(n), AtData(due - n, framing, body + n))
<1> DEFINE P == {m \in 0..n : Reads(q \o Data(m), AtData(due - m, framing, body + m))}
<1>0. q \in Seq(Units) /\ n \in Nat
  BY DEF Reads
<1>1. 0 \in P
  <2>1. q \o Data(0) = q
    BY <1>0, DataGrows, ConcatEmptySeq
  <2>2. due - 0 = due /\ body + 0 = body /\ 0 \in 0..n
    BY <1>0
  <2>3. Reads(q \o Data(0), AtData(due - 0, framing, body + 0))
    BY <2>1, <2>2
  <2> QED BY <2>2, <2>3
<1>2. ASSUME NEW m \in 1..n, m - 1 \in P PROVE m \in P
  <2>1. PICK l \in Nat : l = m - 1
    OBVIOUS
  <2>2. PICK s : s = AtData(due - l, framing, body + l)
    OBVIOUS
  <2>3. Reads(q \o Data(l), s)
    BY <1>2, <2>1, <2>2
  <2>4. s.at = "discard" /\ s.due = due - l /\ s.framing = framing /\ s.body = body + l
    <3>1. due - l > 0
      BY <2>1
    <3> QED BY <2>2, <3>1 DEF AtData, State
  <2>5. After(s, Plain("data")) = AtData(due - m, framing, body + m)
    <3>1. After(s, Plain("data")) = AtData(s.due - 1, s.framing, s.body + 1)
      BY <2>4 DEF After
    <3>2. s.due - 1 = due - m /\ s.body + 1 = body + m
      BY <2>1, <2>4
    <3> QED BY <2>4, <3>1, <3>2
  <2>6. Reads(Append(q \o Data(l), Plain("data")), After(s, Plain("data")))
    BY <2>3, <2>4, ReadsAppend, PlainUnits
  <2>7. q \o Data(m) = Append(q \o Data(l), Plain("data"))
    <3>1. Data(m) = Append(Data(l), Plain("data")) /\ Data(l) \in Seq(Units)
      <4>1. m = l + 1
        BY <2>1
      <4> QED BY <4>1, DataGrows
    <3>2. q \o Append(Data(l), Plain("data")) = Append(q \o Data(l), Plain("data"))
      <4>1. PICK a : a = Data(l)
        OBVIOUS
      <4>2. PICK d : d = Plain("data")
        OBVIOUS
      <4>3. q \in Seq(Units) /\ a \in Seq(Units) /\ d \in Units
        BY <1>0, <3>1, <4>1, <4>2, PlainUnits
      <4>4. Joined(q, a, d)
        BY ONLY <4>3, ConcatAppend
      <4>5. q \o Append(a, d) = Append(q \o a, d)
        BY <4>4 DEF Joined
      <4> QED BY <4>1, <4>2, <4>5
    <3> QED BY <3>1, <3>2
  <2>8. Reads(q \o Data(m), AtData(due - m, framing, body + m))
    <3>1. PICK r : r = q \o Data(m)
      OBVIOUS
    <3>2. PICK e : e = AtData(due - m, framing, body + m)
      OBVIOUS
    <3>3. Reads(r, e)
      BY <2>5, <2>6, <2>7, <3>1, <3>2
    <3> QED BY <3>1, <3>2, <3>3
  <2>9. m \in 0..n
    BY <1>0
  <2> QED BY <2>8, <2>9
<1> HIDE DEF P
<1>3. \A m \in 0..n : m \in P
  BY <1>0, <1>1, <1>2, Induction
<1>4. n \in P
  BY <1>0, <1>3
<1> QED BY <1>4 DEF P

\* A response with a Content-Length and as much of its body, or less.
LEMMA ReadsLength ==
    ASSUME NEW length \in Nat, NEW closes \in BOOLEAN, NEW n \in 0..length
    PROVE  Reads(ResponseHeaders(length, closes) \o Data(n), AtData(length - n, "length", n))
<1>1. PICK h : h = HeadUnit("length", length, ~closes)
  OBVIOUS
<1>2. h \in Units /\ h.kind = "head" /\ h.framing = "length" /\ h.size = length
  BY <1>1 DEF HeadUnit, Unit, Units, UnitKinds, Framings
<1>3. Start.at = "head"
  BY DEF Start, State
<1>4. After(Start, h) = AtData(length, "length", 0)
  BY <1>2, <1>3 DEF After, AfterHead
<1>5. Reads(Append(<<>>, h), After(Start, h))
  BY <1>2, <1>3, ReadsEmpty, ReadsAppend
<1>6. Append(<<>>, h) = ResponseHeaders(length, closes)
  BY <1>1 DEF ResponseHeaders
<1>7. "length" \in Framings /\ 0 + n = n
  BY Literals
<1>8. Reads(ResponseHeaders(length, closes), AtData(length, "length", 0))
  BY <1>4, <1>5, <1>6
<1> QED BY <1>7, <1>8, ReadsData

-----------------------------------------------------------------------------
(* The chunks of a body. *)

\* The length of chunk i, as chunked_response cuts the body.
ChunkLength(body, size, count, i) == IF i < count THEN size ELSE body - (count - 1) * size

LEMMA ChunksCover ==
    ASSUME NEW body \in Nat, NEW size \in Nat \ {0}, NEW count,
           count = (body + size - 1) \div size, NEW i \in 1..count
    PROVE  count \in Nat /\ ChunkLength(body, size, count, i) \in Nat \ {0}
<1>1. count \in Nat /\ size * count <= body + size - 1
  OBVIOUS
<1>2. (count - 1) * size = size * count - size /\ (count - 1) * size \in Int
  BY <1>1
<1>3. body - (count - 1) * size \in Nat \ {0}
  BY <1>1, <1>2
<1> QED BY <1>1, <1>3 DEF ChunkLength

WithChunk(q, n) == q \o <<SizeUnit(n)>> \o Data(n) \o <<Plain("crlf")>>

\* One chunk more.
LEMMA ReadsChunk ==
    ASSUME NEW q, NEW total0 \in Int, Reads(q, State("size", 0, "chunked", total0)),
           NEW n \in Nat \ {0}
    PROVE  Reads(WithChunk(q, n), State("size", 0, "chunked", total0 + n))
<1>1. PICK u : u = SizeUnit(n)
  OBVIOUS
<1>2. u \in Units /\ u.kind = "size" /\ u.size = n
  BY <1>1 DEF SizeUnit, Unit, Units, UnitKinds, Framings
<1>3. q \in Seq(Units)
  BY DEF Reads
<1>4. PICK s : s = State("size", 0, "chunked", total0)
  OBVIOUS
<1>5. s.at = "size" /\ s.body = total0
  BY <1>4 DEF State
<1>6. After(s, u) = AtData(n, "chunked", total0)
  <2>1. After(s, u) = AfterSize(n, total0)
    BY <1>2, <1>5 DEF After, LineEnds
  <2> QED BY <2>1 DEF AfterSize
<1>7. PICK a : a = Append(q, u)
  OBVIOUS
<1>8. Reads(a, AtData(n, "chunked", total0))
  BY <1>2, <1>4, <1>5, <1>6, <1>7, ReadsAppend
<1>9. Reads(a \o Data(n), AtData(n - n, "chunked", total0 + n))
  <2>1. "chunked" \in Framings /\ n \in 0..n
    BY Literals
  <2> QED BY <1>8, <2>1, ReadsData
<1>10. PICK t : t = State("crlf", 0, "chunked", total0 + n)
  OBVIOUS
<1>11. AtData(n - n, "chunked", total0 + n) = t
  BY <1>10 DEF AtData
<1>12. t.at = "crlf" /\ t.body = total0 + n
  BY <1>10 DEF State
<1>13. PICK b : b = a \o Data(n)
  OBVIOUS
<1>14. PICK c : c = Plain("crlf")
  OBVIOUS
<1>15. c \in Units /\ c.kind = "crlf"
  BY <1>14, PlainUnits
<1>16. After(t, c) = State("size", 0, "chunked", total0 + n)
  BY <1>12, <1>15 DEF After
<1>17. Reads(Append(b, c), State("size", 0, "chunked", total0 + n))
  <2>1. Reads(b, t)
    BY <1>9, <1>11, <1>13
  <2> QED BY <1>12, <1>15, <1>16, <2>1, ReadsAppend
<1>18. Append(b, c) = WithChunk(q, n)
  <2>1. b \in Seq(Units)
    BY <1>9, <1>13 DEF Reads
  <2>2. Append(q, u) = q \o <<u>>
    BY ONLY <1>2, <1>3, AppendIsConcat
  <2>3. Append(b, c) = b \o <<c>>
    BY ONLY <1>15, <2>1, AppendIsConcat
  <2> QED BY <1>1, <1>7, <1>13, <1>14, <2>2, <2>3 DEF WithChunk
<1> QED BY <1>17, <1>18

IsChunked(f, body, size, count) ==
    /\ f[0] = <<HeadUnit("chunked", 0, TRUE)>>
    /\ \A i \in 1..count : f[i] = WithChunk(f[i - 1], ChunkLength(body, size, count, i))

\* The recursive definition has the values one expects.
LEMMA ChunkedValue ==
    ASSUME NEW body \in Nat, NEW size \in Nat \ {0}, NEW count,
           count = (body + size - 1) \div size
    PROVE  \E f : /\ IsChunked(f, body, size, count)
                  /\ ChunkedResponse(body, size) = f[count] \o <<SizeUnit(0), Plain("crlf")>>
<1>1. count \in Nat
  OBVIOUS
<1> DEFINE L(i) == ChunkLength(body, size, count, i)
           start == <<HeadUnit("chunked", 0, TRUE)>>
           g == [i \in 1..count |-> [q \in Seq(Units) |-> WithChunk(q, L(i))]]
<1>2. start \in Seq(Units)
  <2>1. PICK h : h = HeadUnit("chunked", 0, TRUE)
    OBVIOUS
  <2>2. h \in Units
    BY <2>1 DEF HeadUnit, Unit, Units, UnitKinds, Framings
  <2>3. <<h>> \in Seq(Units)
    BY ONLY <2>2
  <2> QED BY <2>1, <2>3 DEF start
<1>3. ASSUME NEW i \in 1..count, NEW q \in Seq(Units) PROVE WithChunk(q, L(i)) \in Seq(Units)
  <2>1. PICK n \in Nat : n = L(i)
    BY ChunksCover
  <2>2. PICK u : u = <<SizeUnit(n)>>
    OBVIOUS
  <2>3. PICK c : c = <<Plain("crlf")>>
    OBVIOUS
  <2>4. PICK d : d = Data(n)
    OBVIOUS
  <2>5. u \in Seq(Units)
    <3>1. SizeUnit(n) \in Units
      BY DEF SizeUnit, Unit, Units, UnitKinds, Framings
    <3> QED BY <2>2, <3>1
  <2>6. c \in Seq(Units) /\ d \in Seq(Units) /\ q \in Seq(Units)
    BY <2>3, <2>4, PlainUnits, DataGrows
  <2>7. q \o u \in Seq(Units)
    BY ONLY <2>5, <2>6, ConcatProperties
  <2>8. (q \o u) \o d \in Seq(Units)
    BY ONLY <2>6, <2>7, ConcatProperties
  <2>9. ((q \o u) \o d) \o c \in Seq(Units)
    BY ONLY <2>6, <2>8, ConcatProperties
  <2> QED BY <2>1, <2>2, <2>3, <2>4, <2>9 DEF WithChunk
<1>4. g \in [1..count -> [Seq(Units) -> Seq(Units)]]
  BY <1>3
<1>5. \A i \in 1..count, q \in Seq(Units) : g[i][q] = WithChunk(q, L(i))
  OBVIOUS
<1> HIDE DEF g, start, L
<1>6. \E f : Recursion(f, count, Seq(Units), start, g)
  BY <1>1, <1>2, <1>4, RecursiveFunction
<1>7. PICK f \in [0..count -> Seq(Units)] :
         f[0] = start /\ \A i \in 1..count : f[i] = g[i][f[i - 1]]
  BY <1>6 DEF Recursion
<1>8. \A i \in 1..count : f[i] = WithChunk(f[i - 1], L(i))
  <2>1. \A i \in 1..count : f[i - 1] \in Seq(Units)
    BY <1>1
  <2> QED BY <1>5, <1>7, <2>1
<1> DEFINE Equation(h) == h = [i \in 0..count |->
                          IF i = 0 THEN start ELSE WithChunk(h[i - 1], L(i))]
<1>9. Equation(f)
  <2>1. ASSUME NEW i \in 0..count
        PROVE  f[i] = IF i = 0 THEN start ELSE WithChunk(f[i - 1], L(i))
    <3>1. i = 0 \/ i \in 1..count
      BY <1>1
    <3> QED BY <1>7, <1>8, <3>1
  <2> QED BY <2>1
<1>10. Equation(CHOOSE h : Equation(h))
  BY <1>9
<1>11. ChunkedResponse(body, size) = (CHOOSE h : Equation(h))[count] \o <<SizeUnit(0), Plain("crlf")>>
  BY DEF ChunkedResponse, L, ChunkLength, WithChunk, start
<1>12. ASSUME NEW h, Equation(h) PROVE IsChunked(h, body, size, count)
  <2>1. h[0] = start
    BY <1>1, <1>12
  <2>2. ASSUME NEW i \in 1..count PROVE h[i] = WithChunk(h[i - 1], L(i))
    <3>1. i \in 0..count /\ i # 0
      BY <1>1
    <3> QED BY <1>12, <3>1
  <2> QED BY <2>1, <2>2 DEF IsChunked, start, L
<1> HIDE DEF Equation
<1> QED BY <1>10, <1>11, <1>12

LEMMA ReadsChunked ==
    ASSUME NEW body \in Nat, NEW size \in Nat \ {0}
    PROVE  OneResponse(ChunkedResponse(body, size))
<1>1. PICK count : count = (body + size - 1) \div size
  OBVIOUS
<1>2. count \in Nat
  BY <1>1
<1>3. PICK f : /\ IsChunked(f, body, size, count)
               /\ ChunkedResponse(body, size) = f[count] \o <<SizeUnit(0), Plain("crlf")>>
  BY <1>1, ChunkedValue
<1> DEFINE P == {i \in 0..count : \E b \in Int : Reads(f[i], State("size", 0, "chunked", b))}
<1>4. 0 \in P
  <2>1. PICK h : h = HeadUnit("chunked", 0, TRUE)
    OBVIOUS
  <2>2. h \in Units /\ h.kind = "head" /\ h.framing = "chunked"
    BY <2>1 DEF HeadUnit, Unit, Units, UnitKinds, Framings
  <2>3. Start.at = "head"
    BY DEF Start, State
  <2>4. After(Start, h) = State("size", 0, "chunked", 0)
    BY <2>2, <2>3 DEF After, AfterHead
  <2>5. Reads(Append(<<>>, h), After(Start, h))
    BY <2>2, <2>3, ReadsEmpty, ReadsAppend
  <2>6. Append(<<>>, h) = f[0]
    BY <1>3, <2>1 DEF IsChunked
  <2>7. Reads(f[0], State("size", 0, "chunked", 0))
    BY <2>4, <2>5, <2>6
  <2> QED BY <1>2, <2>7
<1>5. ASSUME NEW i \in 1..count, i - 1 \in P PROVE i \in P
  <2>1. PICK b \in Int : Reads(f[i - 1], State("size", 0, "chunked", b))
    BY <1>5
  <2>2. PICK n \in Nat \ {0} : n = ChunkLength(body, size, count, i)
    BY <1>1, ChunksCover
  <2>3. f[i] = WithChunk(f[i - 1], n)
    BY <1>3, <2>2 DEF IsChunked
  <2>4. Reads(f[i], State("size", 0, "chunked", b + n))
    BY <2>1, <2>3, ReadsChunk
  <2>5. b + n \in Int /\ i \in 0..count
    BY <1>2
  <2> QED BY <2>4, <2>5
<1> HIDE DEF P
<1>6. \A i \in 0..count : i \in P
  BY <1>2, <1>4, <1>5, Induction
<1>7. count \in P
  BY <1>2, <1>6
<1>8. PICK b \in Int : Reads(f[count], State("size", 0, "chunked", b))
  BY <1>7 DEF P
<1>9. PICK q : q = f[count]
  OBVIOUS
<1>10. PICK u : u = SizeUnit(0)
  OBVIOUS
<1>11. PICK c : c = Plain("crlf")
  OBVIOUS
<1>12. /\ u \in Units /\ u.kind = "size" /\ u.size = 0
       /\ c \in Units /\ c.kind = "crlf"
  BY <1>10, <1>11, PlainUnits DEF SizeUnit, Unit, Units, UnitKinds, Framings
<1>13. PICK s : s = State("size", 0, "chunked", b)
  OBVIOUS
<1>14. PICK t : t = State("trailers", 0, "chunked", b)
  OBVIOUS
<1>15. s.at = "size" /\ s.body = b /\ t.at = "trailers"
  BY <1>13, <1>14 DEF State
<1>16. After(s, u) = t
  BY <1>12, <1>14, <1>15 DEF After, AfterSize, LineEnds
<1>17. Reads(Append(q, u), t)
  BY <1>8, <1>9, <1>12, <1>13, <1>15, <1>16, ReadsAppend
<1>18. Reads(Append(Append(q, u), c), After(t, c))
  BY <1>12, <1>15, <1>17, ReadsAppend
<1>19. Append(Append(q, u), c) = q \o <<u, c>>
  <2>1. q \in Seq(Units)
    BY <1>8, <1>9 DEF Reads
  <2>2. <<u, c>> \in Seq(Units)
    BY <1>12
  <2>3. q \o Append(<<u>>, c) = Append(q \o <<u>>, c)
    <3>1. PICK a : a = <<u>>
      OBVIOUS
    <3>2. a \in Seq(Units)
      BY <1>12, <3>1
    <3>3. Joined(q, a, c)
      BY ONLY <1>12, <2>1, <3>2, ConcatAppend
    <3>4. q \o Append(a, c) = Append(q \o a, c)
      BY <3>3 DEF Joined
    <3> QED BY <3>1, <3>4
  <2>4. Append(<<u>>, c) = <<u, c>>
    <3>1. PICK a : a = <<u>>
      OBVIOUS
    <3>2. PICK e : e = <<u, c>>
      OBVIOUS
    <3>3. a \in Seq(Units) /\ Len(a) = 1 /\ a[1] = u
      BY <1>12, <3>1
    <3>4. e \in Seq(Units) /\ Len(e) = 2 /\ e[1] = u /\ e[2] = c
      BY <1>12, <3>2
    <3>5. PICK d : d = Append(a, c)
      OBVIOUS
    <3>6. d \in Seq(Units) /\ Len(d) = 2 /\ d[1] = u /\ d[2] = c
      <4>1. a \in Seq(Units) /\ c \in Units
        BY <1>12, <3>3
      <4>2. /\ Append(a, c) \in Seq(Units) /\ Len(Append(a, c)) = Len(a) + 1
            /\ Append(a, c)[Len(a) + 1] = c
            /\ \A i \in 1..Len(a) : Append(a, c)[i] = a[i]
        BY ONLY <4>1, Appended
      <4>3. /\ d \in Seq(Units) /\ Len(d) = Len(a) + 1 /\ d[Len(a) + 1] = c
            /\ \A i \in 1..Len(a) : d[i] = a[i]
        BY ONLY <3>5, <4>2
      <4> QED BY <3>3, <4>3
    <3>7. \A i \in 1..2 : d[i] = e[i]
      BY <3>4, <3>6
    <3>8. d = e
      BY <3>4, <3>6, <3>7, SeqEqual
    <3> QED BY <3>1, <3>2, <3>5, <3>8
  <2>5. Append(q, u) = q \o <<u>>
    BY ONLY <1>12, <2>1, AppendIsConcat
  <2> QED BY <2>3, <2>4, <2>5
<1> QED BY <1>3, <1>9, <1>10, <1>11, <1>18, <1>19, ReadsOne

-----------------------------------------------------------------------------
\* What WriteResponse may be asked for: ScenarioConfig's checks, and a reset
\* that declares no less than it sends.
Configs == [body : Nat, chunk : Nat \ {0}, large : Nat, overhead : Nat]

(***************************************************************************)
(* In every scenario, for a body of any length in chunks of any size, the  *)
(* scenario server of the tests sends one response: what the theorems      *)
(* about sessions suppose of a server is true of it.                       *)
(***************************************************************************)
THEOREM ScenariosAreResponses ==
    ASSUME NEW scenario \in Scenarios, NEW number \in Nat, NEW config \in Configs
    PROVE  OneResponse(WriteResponse(scenario, number, config))
<1>1. /\ config.body \in Nat /\ config.chunk \in Nat \ {0}
      /\ config.large \in Nat /\ config.overhead \in Nat
  BY DEF Configs
<1>2. ASSUME NEW length \in Nat, NEW closes \in BOOLEAN, NEW n \in 0..length
      PROVE  OneResponse(ResponseHeaders(length, closes) \o Data(n))
  BY ReadsLength, ReadsOne
<1>3. CASE scenario = "abrupt_reset"
  <2>1. PICK n : n = config.body \div 2
    OBVIOUS
  <2>2. PICK length : length = config.body + config.overhead
    OBVIOUS
  <2>3. length \in Nat /\ n \in 0..length /\ FALSE \in BOOLEAN
    BY <1>1, <2>1, <2>2
  <2>4. WriteResponse(scenario, number, config) = ResponseHeaders(length, FALSE) \o Data(n)
    BY <1>3, <2>1, <2>2 DEF WriteResponse
  <2> QED BY <1>2, <2>3, <2>4
<1>4. CASE scenario = "intermittent_500" /\ number % 2 = 0
  <2>1. WriteResponse(scenario, number, config) = ResponseHeaders(0, FALSE)
    BY <1>4 DEF WriteResponse
  <2>2. ResponseHeaders(0, FALSE) \o Data(0) = ResponseHeaders(0, FALSE)
    <3>1. PICK h : h = HeadUnit("length", 0, ~FALSE)
      OBVIOUS
    <3>2. h \in Units
      BY <3>1 DEF HeadUnit, Unit, Units, UnitKinds, Framings
    <3>3. <<h>> \in Seq(Units)
      BY ONLY <3>2
    <3>4. <<h>> \o <<>> = <<h>>
      BY ONLY <3>3, ConcatEmptySeq
    <3> QED BY <3>1, <3>4, DataGrows DEF ResponseHeaders
  <2>3. OneResponse(ResponseHeaders(0, FALSE) \o Data(0))
    <3>1. 0 \in Nat /\ 0 \in 0..0 /\ FALSE \in BOOLEAN
      OBVIOUS
    <3> QED BY ONLY <1>2, <3>1
  <2> QED BY <2>1, <2>2, <2>3
<1>5. CASE scenario = "chunked"
  BY <1>1, <1>5, ReadsChunked DEF WriteResponse
<1>6. CASE scenario = "truncated"
  <2>1. config.body \in 0..(config.body + 1) /\ config.body + 1 \in Nat
    BY <1>1
  <2> QED BY <1>2, <1>6, <2>1 DEF WriteResponse
<1>7. CASE scenario = "large_response"
  <2>1. config.large \in 0..config.large
    BY <1>1
  <2> QED BY <1>1, <1>2, <1>7, <2>1 DEF WriteResponse
<1>8. CASE /\ scenario \notin {"abrupt_reset", "chunked", "truncated", "large_response"}
           /\ ~(scenario = "intermittent_500" /\ number % 2 = 0)
  <2>1. WriteResponse(scenario, number, config)
          = ResponseHeaders(config.body, scenario = "forced_close") \o Data(config.body)
    BY <1>8 DEF WriteResponse
  <2>2. config.body \in 0..config.body /\ (scenario = "forced_close") \in BOOLEAN
    BY <1>1
  <2> QED BY <1>1, <1>2, <2>1, <2>2
<1> QED BY <1>3, <1>4, <1>5, <1>6, <1>7, <1>8

(***************************************************************************)
(* Against that server, in any of its scenarios, sessions keep their three *)
(* promises: a whole answer is that of its own request, a connection given *)
(* back as reusable has nothing left to read, and a body is whole.         *)
(***************************************************************************)
THEOREM SessionsWithScenarios ==
    ASSUME Replies \subseteq {WriteResponse(scenario, number, config) :
                                 scenario \in Scenarios, number \in Nat, config \in Configs}
    PROVE  Spec => [](AnswersOwnRequest /\ ReusableMeansConsumed /\ WholeBody)
<1>1. \A reply \in Replies : OneResponse(reply)
  <2>1. TAKE reply \in Replies
  <2>2. PICK scenario \in Scenarios, number \in Nat, config \in Configs :
           reply = WriteResponse(scenario, number, config)
    OBVIOUS
  <2>3. OneResponse(WriteResponse(scenario, number, config))
    BY ScenariosAreResponses
  <2> QED BY <2>2, <2>3
<1> QED BY <1>1, OwnRequestIsAnswered, ReusableIsConsumed, BodiesAreWhole, PTL
=============================================================================
