------------------------ MODULE ConnectionPoolProofs ------------------------
(***************************************************************************)
(* Theorems about ConnectionPool, for any number of threads, closers and   *)
(* connections.  The invariants are proved in layers, each on top of the   *)
(* one before it:                                                          *)
(*                                                                         *)
(*   TypeInv    types, and the leased sessions are finitely many;          *)
(*   Ownership  who may have a session, before and after close_all;        *)
(*   Tracking   every open socket has somebody to close it;                *)
(*   Slots      what live counts, and the bound on sockets.                *)
(*                                                                         *)
(* The last part is the refinement: the pool keeps PoolPromise.            *)
(***************************************************************************)
EXTENDS ConnectionPool, TLAPS, FiniteSetTheorems, SequenceTheorems

-----------------------------------------------------------------------------
(* Lemmas about the operators of the model. *)

\* Concatenation joins the elements of two sequences and adds none.
LEMMA InSeqConcat ==
    ASSUME NEW S, NEW p \in Seq(S), NEW q \in Seq(S), NEW s
    PROVE  InSeq(s, p \o q) <=> InSeq(s, p) \/ InSeq(s, q)
<1>1. Len(p \o q) = Len(p) + Len(q) /\ Len(p) \in Nat /\ Len(q) \in Nat
      /\ \A i \in 1..(Len(p) + Len(q)) :
            (p \o q)[i] = IF i <= Len(p) THEN p[i] ELSE q[i - Len(p)]
  BY ConcatProperties, LenProperties
<1>2. ASSUME InSeq(s, p \o q) PROVE InSeq(s, p) \/ InSeq(s, q)
  <2>1. PICK i \in 1..(Len(p) + Len(q)) : (p \o q)[i] = s
    BY <1>1, <1>2 DEF InSeq
  <2>2. CASE i <= Len(p)
    BY <1>1, <2>1, <2>2 DEF InSeq
  <2>3. CASE ~(i <= Len(p))
    <3>1. i - Len(p) \in 1..Len(q) /\ q[i - Len(p)] = s
      BY <1>1, <2>1, <2>3
    <3> QED BY <3>1 DEF InSeq
  <2> QED BY <2>2, <2>3
<1>3. ASSUME InSeq(s, p) PROVE InSeq(s, p \o q)
  <2>1. PICK i \in 1..Len(p) : p[i] = s
    BY <1>3 DEF InSeq
  <2>2. i \in 1..(Len(p) + Len(q)) /\ (p \o q)[i] = s
    BY <1>1, <2>1
  <2> QED BY <1>1, <2>2 DEF InSeq
<1>4. ASSUME InSeq(s, q) PROVE InSeq(s, p \o q)
  <2>1. PICK i \in 1..Len(q) : q[i] = s
    BY <1>4 DEF InSeq
  <2>2. Len(p) + i \in 1..(Len(p) + Len(q)) /\ (p \o q)[Len(p) + i] = s
    BY <1>1, <2>1
  <2> QED BY <1>1, <2>2 DEF InSeq
<1> QED BY <1>2, <1>3, <1>4

\* An order of a finite set is a sequence that lists all of it and nothing else.
LEMMA OrdersAreSequences ==
    ASSUME NEW S, IsFiniteSet(S), NEW q \in Orders(S)
    PROVE  /\ q \in Seq(S)
           /\ \A s : InSeq(s, q) <=> s \in S
<1>1. Cardinality(S) \in Nat
  BY FS_CardinalityType
<1>2. q \in [1..Cardinality(S) -> S] /\ \A s \in S : \E i \in 1..Cardinality(S) : q[i] = s
  BY DEF Orders
<1>3. q \in Seq(S)
  BY <1>1, <1>2, IsASeq
<1>4. Len(q) = Cardinality(S)
  BY <1>1, <1>2, <1>3, LenProperties
<1> QED BY <1>2, <1>3, <1>4 DEF InSeq

\* Taking the head off a sequence loses no other element and adds none.
LEMMA InSeqTail ==
    ASSUME NEW S, NEW q \in Seq(S), q # <<>>, NEW s
    PROVE  InSeq(s, q) <=> s = Head(q) \/ InSeq(s, Tail(q))
<1>1. Len(q) \in Nat /\ Len(q) > 0 /\ Head(q) = q[1]
  BY LenProperties, EmptySeq, HeadTailProperties
<1>2. Len(Tail(q)) = Len(q) - 1 /\ \A i \in 1..(Len(q) - 1) : Tail(q)[i] = q[i + 1]
  BY HeadTailProperties
<1>3. ASSUME InSeq(s, q), s # Head(q) PROVE InSeq(s, Tail(q))
  <2>1. PICK i \in 1..Len(q) : q[i] = s
    BY <1>3 DEF InSeq
  <2>2. i - 1 \in 1..(Len(q) - 1) /\ (i - 1) + 1 = i
    BY <1>1, <1>3, <2>1
  <2>3. Tail(q)[i - 1] = s
    BY <1>2, <2>1, <2>2
  <2> QED BY <1>2, <2>2, <2>3 DEF InSeq
<1>4. ASSUME s = Head(q) PROVE InSeq(s, q)
  BY <1>1, <1>4 DEF InSeq
<1>5. ASSUME InSeq(s, Tail(q)) PROVE InSeq(s, q)
  <2>1. PICK i \in 1..(Len(q) - 1) : Tail(q)[i] = s
    BY <1>2, <1>5 DEF InSeq
  <2>2. i + 1 \in 1..Len(q) /\ q[i + 1] = s
    BY <1>1, <1>2, <2>1
  <2> QED BY <2>2 DEF InSeq
<1> QED BY <1>3, <1>4, <1>5

-----------------------------------------------------------------------------
(* Types. *)

TypeInv ==
    /\ TypeOK
    /\ IsFiniteSet(leased)
    /\ \A t \in Threads : pc[t] \in Holding => held[t] \in Sessions

LEMMA TypeInit == Init => TypeInv
<1> SUFFICES ASSUME Init PROVE TypeInv
  OBVIOUS
<1>1. <<>> \in Seq(Sessions)
  OBVIOUS
<1>2. IsFiniteSet(leased)
  BY FS_EmptySet DEF Init
<1>3. pc \in [Threads -> PcStates] /\ cpc \in [Closers -> {"out", "closing", "done"}]
  BY DEF Init, PcStates
<1>4. held \in [Threads -> Sessions \cup {NoSession}]
  BY DEF Init
<1>5. status \in [Sessions -> {"open", "spent", "closed"}]
  BY DEF Init
<1>6. pending \in [Closers -> Seq(Sessions)]
  BY <1>1 DEF Init
<1>7. \A t \in Threads : pc[t] \in Holding => held[t] \in Sessions
  BY DEF Init, Holding
<1>8. idle \in Seq(Sessions)
  BY <1>1 DEF Init
<1>9. leased \subseteq Sessions /\ waiters \subseteq Threads /\ expired \subseteq TimedThreads
  BY DEF Init
<1>10. live \in Int
  BY DEF Init
<1>11. closed \in BOOLEAN
  BY DEF Init
<1> QED BY <1>2, <1>3, <1>4, <1>5, <1>6, <1>7, <1>8, <1>9, <1>10, <1>11
  DEF TypeInv, TypeOK

\* A step keeps every variable in its type: one step of the proof per action.
LEMMA TypeStep == TypeInv /\ [Next]_vars => TypeInv'
<1> SUFFICES ASSUME TypeInv, [Next]_vars PROVE TypeInv'
  OBVIOUS
<1> USE DEF TypeInv, TypeOK, PcStates, Holding, poolVars
<1>0. CASE UNCHANGED vars
  BY <1>0 DEF vars
<1>1. ASSUME NEW t \in Threads, BeginAcquire(t) PROVE TypeInv'
  BY <1>1 DEF BeginAcquire
<1>2. ASSUME NEW t \in Threads, DeadlinePasses(t) PROVE TypeInv'
  BY <1>2, TimedAssumption DEF DeadlinePasses
<1>3. ASSUME NEW t \in Threads, AcquireClosed(t) \/ AcquireExpired(t) PROVE TypeInv'
  BY <1>3 DEF AcquireClosed, AcquireExpired, Raise
<1>4. ASSUME NEW t \in Threads, AcquireIdle(t) PROVE TypeInv'
  <2>1. PICK k \in 1..Len(idle) :
           /\ CloseAbove(k)
           /\ leased' = leased \cup {idle[k]}
           /\ held' = [held EXCEPT ![t] = idle[k]]
           /\ idle' = SubSeq(idle, 1, k - 1)
           /\ live' = live - (Len(idle) - k)
    BY <1>4 DEF AcquireIdle
  <2>2. idle[k] \in Sessions /\ k \in Nat /\ Len(idle) \in Nat
    BY LenProperties, ElementOfSeq
  <2>3. idle' \in Seq(Sessions)
    BY <2>1, <2>2, SubSeqProperties
  <2>4. IsFiniteSet(leased')
    BY <2>1, FS_AddElement
  <2>5. status' \in [Sessions -> {"open", "spent", "closed"}]
    BY <2>1 DEF CloseAbove
  <2> QED BY <1>4, <2>1, <2>2, <2>3, <2>4, <2>5 DEF AcquireIdle
<1>5. ASSUME NEW t \in Threads, AcquireReserve(t) \/ AcquireWait(t) PROVE TypeInv'
  <2>1. idle' = <<>>
    BY <1>5 DEF AcquireReserve, AcquireWait
  <2>2. idle' \in Seq(Sessions)
    BY <2>1
  <2>3. live' \in Int
    BY <1>5, LenProperties DEF AcquireReserve, AcquireWait
  <2>4. status' \in [Sessions -> {"open", "spent", "closed"}]
    BY <1>5 DEF AcquireReserve, AcquireWait, CloseAbove
  <2> QED BY <1>5, <2>2, <2>3, <2>4 DEF AcquireReserve, AcquireWait
<1>6. ASSUME NEW t \in Threads, WakeUp(t) PROVE TypeInv'
  BY <1>6 DEF WakeUp
<1>7. ASSUME NEW t \in Threads, CreateSession(t) PROVE TypeInv'
  BY <1>7, ProductsAssumption DEF CreateSession
<1>8. ASSUME NEW t \in Threads, CreateFails(t) PROVE TypeInv'
  BY <1>8 DEF CreateFails, Raise, Notify
<1>9. ASSUME NEW t \in Threads, AdmitClosed(t) \/ AdmitExpired(t) \/ AdmitUnusable(t)
      PROVE TypeInv'
  <2>1. Reject(t) /\ waiters' \subseteq waiters
    BY <1>9 DEF AdmitClosed, AdmitExpired, AdmitUnusable, Notify, NotifyAll
  <2>2. held[t] \in Sessions
    BY <1>9 DEF AdmitClosed, AdmitExpired, AdmitUnusable
  <2>3. status' \in [Sessions -> {"open", "spent", "closed"}]
    BY <2>1, <2>2 DEF Reject
  <2>4. held' \in [Threads -> Sessions \cup {NoSession}]
    BY <2>1 DEF Reject
  <2> QED BY <2>1, <2>3, <2>4 DEF Reject, Raise
<1>10. ASSUME NEW t \in Threads, AdmitSession(t) PROVE TypeInv'
  <2>1. held[t] \in Sessions
    BY <1>10 DEF AdmitSession
  <2>2. IsFiniteSet(leased')
    BY <1>10, FS_AddElement DEF AdmitSession
  <2> QED BY <1>10, <2>1, <2>2 DEF AdmitSession
<1>11. ASSUME NEW t \in Threads, BeginExecute(t) \/ EndExchange(t) \/ CloseHeld(t)
       PROVE TypeInv'
  BY <1>11 DEF BeginExecute, EndExchange, EndExecute, CloseHeld
<1>12. ASSUME NEW t \in Threads, GiveBack(t) PROVE TypeInv'
  <2>1. PICK reusable \in BOOLEAN : Release(t, reusable)
    BY <1>12 DEF GiveBack
  <2>2. CASE ReleaseForgotten(t)
    BY <2>1, <2>2 DEF Release, ReleaseForgotten, Drop
  <2>3. CASE ReleaseLeased(t, reusable)
    <3>1. held[t] \in Sessions /\ IsFiniteSet(leased')
      BY <2>3, FS_RemoveElement DEF ReleaseLeased
    <3>2. idle' = idle \/ idle' = Append(idle, held[t])
      BY <2>3 DEF ReleaseLeased
    <3>3. idle \in Seq(Sessions)
      OBVIOUS
    <3>4. Append(idle, held[t]) \in Seq(Sessions)
      BY <3>1, <3>3, AppendProperties
    <3>5. idle' \in Seq(Sessions)
      BY <3>2, <3>3, <3>4
    <3> QED BY <2>1, <2>3, <3>1, <3>5 DEF Release, ReleaseLeased, Drop, Notify
  <2> QED BY <2>1, <2>2, <2>3 DEF Release
<1>13. ASSUME NEW c \in Closers, CloseAll(c) PROVE TypeInv'
  <2>1. PICK order \in Orders(leased) : pending' = [pending EXCEPT ![c] = idle \o order]
    BY <1>13 DEF CloseAll
  <2>2. order \in Seq(Sessions)
    BY <2>1, OrdersAreSequences, SeqMonotonic
  <2>3. idle \o order \in Seq(Sessions)
    BY <2>2, ConcatProperties
  <2>4. IsFiniteSet(leased')
    BY <1>13, FS_EmptySet DEF CloseAll
  <2>5. pending' \in [Closers -> Seq(Sessions)]
    BY <2>1, <2>3
  <2>6. idle' = <<>> /\ leased' = {} /\ live' = 0 /\ closed' = TRUE /\ waiters' = {}
        /\ cpc' = [cpc EXCEPT ![c] = "closing"] /\ UNCHANGED <<pc, held, expired, status>>
    BY <1>13 DEF CloseAll, NotifyAll
  <2>7. idle' \in Seq(Sessions)
    BY <2>6
  <2> QED BY <2>4, <2>5, <2>6, <2>7
<1>14. ASSUME NEW c \in Closers, CloseNext(c) PROVE TypeInv'
  <2>1. Tail(pending[c]) \in Seq(Sessions)
    BY <1>14, HeadTailProperties DEF CloseNext
  <2> QED BY <1>14, <2>1 DEF CloseNext
<1>15. ASSUME NEW c \in Closers, CloseAgain(c) \/ CloseDone(c) PROVE TypeInv'
  BY <1>15 DEF CloseAgain, CloseDone
<1> QED
  BY <1>0, <1>1, <1>2, <1>3, <1>4, <1>5, <1>6, <1>7, <1>8, <1>9, <1>10, <1>11, <1>12,
     <1>13, <1>14, <1>15
     DEF Next, AcquireStep, CloserStep

\* Every variable of the pool always has its type, whatever the constants.
THEOREM TypeCorrect == Spec => []TypeOK
<1>1. TypeInv => TypeOK
  BY DEF TypeInv
<1> QED BY <1>1, TypeInit, TypeStep, PTL DEF Spec

-----------------------------------------------------------------------------
(* Who may have a session. *)

Leasing == {"leased", "executing", "used"}

Ownership ==
    /\ \A t \in Threads : held[t] # NoSession => pc[t] \in Holding
    /\ ExclusiveLease
    /\ IdleHealthy
    /\ closed => idle = <<>> /\ leased = {}
    /\ ~closed => /\ \A t \in Threads : pc[t] \in Leasing => held[t] \in leased
                  /\ \A c \in Closers : pending[c] = <<>>

\* Since idle sessions are usable, acquire never discards one: it takes the
\* topmost, or finds the stack empty, and closes nothing.
LEMMA NothingDiscarded ==
    ASSUME TypeOK, IdleHealthy, NEW k, PopsTo(k), CloseAbove(k)
    PROVE  k = Len(idle) /\ status' = status
<1>1. Len(idle) \in Nat /\ k \in 0..Len(idle)
  BY LenProperties DEF TypeOK, PopsTo
<1>2. k = Len(idle)
  <2>1. SUFFICES ASSUME k # Len(idle) PROVE FALSE
    OBVIOUS
  <2>2. Len(idle) \in (k + 1)..Len(idle) /\ Len(idle) \in 1..Len(idle)
    BY <1>1, <2>1
  <2> QED BY <2>2 DEF PopsTo, IdleHealthy
<1>3. status' = [s \in Sessions |-> status[s]]
  BY <1>1, <1>2 DEF CloseAbove
<1> QED BY <1>2, <1>3 DEF TypeOK

LEMMA OwnershipInit == Init => Ownership
<1> SUFFICES ASSUME Init PROVE Ownership
  OBVIOUS
<1>1. Len(idle) = 0 /\ \A t \in Threads : held[t] = NoSession /\ pc[t] = "out"
  BY DEF Init
<1>2. ExclusiveLease /\ IdleHealthy
  BY <1>1 DEF ExclusiveLease, IdleHealthy, InSeq
<1>3. closed = FALSE /\ \A c \in Closers : pending[c] = <<>>
  BY DEF Init
<1> QED BY <1>1, <1>2, <1>3 DEF Ownership, Leasing

\* A step that moves no session and leaves the lock's state and the closers
\* alone keeps Ownership if no thread enters or leaves a point with a session.
LEMMA OwnershipStill ==
    ASSUME TypeInv, Ownership,
           UNCHANGED <<idle, leased, closed, held, pending>>,
           \A s \in Sessions : InSeq(s, idle) => status'[s] = status[s],
           \A t \in Threads : pc[t] \in Holding <=> pc'[t] \in Holding,
           \A t \in Threads : pc'[t] \in Leasing => pc[t] \in Leasing
    PROVE  Ownership'
<1>1. ExclusiveLease'
  BY DEF Ownership, ExclusiveLease, InSeq
<1>2. IdleHealthy'
  <2>1. ASSUME NEW i \in 1..Len(idle) PROVE status'[idle[i]] = "open"
    <3>1. idle[i] \in Sessions /\ InSeq(idle[i], idle)
      BY ElementOfSeq DEF TypeInv, TypeOK, InSeq
    <3> QED BY <3>1 DEF Ownership, IdleHealthy, Usable
  <2> QED BY <2>1 DEF IdleHealthy, Usable
<1>3. \A t \in Threads : held'[t] # NoSession => pc'[t] \in Holding
  BY DEF Ownership
<1>4. closed' => idle' = <<>> /\ leased' = {}
  BY DEF Ownership
<1>5. ~closed' => /\ \A t \in Threads : pc'[t] \in Leasing => held'[t] \in leased'
                 /\ \A c \in Closers : pending'[c] = <<>>
  BY DEF Ownership
<1> QED BY <1>1, <1>2, <1>3, <1>4, <1>5 DEF Ownership

LEMMA OwnershipStep == TypeInv /\ Ownership /\ [Next]_vars => Ownership'
<1> SUFFICES ASSUME TypeInv, Ownership, [Next]_vars PROVE Ownership'
  OBVIOUS
<1> USE DEF poolVars
<1>0. CASE UNCHANGED vars
  BY <1>0, OwnershipStill DEF vars
<1>1. ASSUME NEW t \in Threads, BeginAcquire(t) \/ DeadlinePasses(t) PROVE Ownership'
  BY <1>1, OwnershipStill DEF BeginAcquire, DeadlinePasses, TypeInv, TypeOK, Holding, Leasing
<1>2. ASSUME NEW t \in Threads, AcquireClosed(t) \/ AcquireExpired(t) PROVE Ownership'
  BY <1>2, OwnershipStill
     DEF AcquireClosed, AcquireExpired, Raise, TypeInv, TypeOK, Holding, Leasing
<1>3. ASSUME NEW t \in Threads, AcquireReserve(t) \/ AcquireWait(t) PROVE Ownership'
  <2>1. PopsTo(0) /\ CloseAbove(0) /\ idle' = <<>>
    BY <1>3 DEF AcquireReserve, AcquireWait
  <2>2. Len(idle) = 0 /\ status' = status
    BY <2>1, NothingDiscarded DEF TypeInv, Ownership
  <2>3. idle' = idle
    BY <2>1, <2>2, EmptySeq DEF TypeInv, TypeOK
  <2>4. UNCHANGED <<leased, closed, held, pending>>
    BY <1>3 DEF AcquireReserve, AcquireWait
  <2>5. \A u \in Threads : /\ pc[u] \in Holding <=> pc'[u] \in Holding
                           /\ pc'[u] \in Leasing => pc[u] \in Leasing
    BY <1>3 DEF AcquireReserve, AcquireWait, MayTake, TypeInv, TypeOK, Holding, Leasing
  <2> QED BY <2>2, <2>3, <2>4, <2>5, OwnershipStill
<1>4. ASSUME NEW t \in Threads, WakeUp(t) \/ CreateFails(t) PROVE Ownership'
  BY <1>4, OwnershipStill
     DEF WakeUp, CreateFails, Raise, TypeInv, TypeOK, Holding, Leasing
<1>5. ASSUME NEW t \in Threads, BeginExecute(t) PROVE Ownership'
  BY <1>5, OwnershipStill DEF BeginExecute, TypeInv, TypeOK, Holding, Leasing
<1>6. ASSUME NEW t \in Threads, EndExchange(t) \/ CloseHeld(t) PROVE Ownership'
  <2>1. ~InSeq(held[t], idle)
    BY DEF Ownership, ExclusiveLease
  <2>2. \A s \in Sessions : InSeq(s, idle) => status'[s] = status[s]
    BY <1>6, <2>1 DEF EndExchange, EndExecute, CloseHeld, TypeInv, TypeOK
  <2>3. UNCHANGED <<idle, leased, closed, held, pending>>
    BY <1>6 DEF EndExchange, EndExecute, CloseHeld
  <2>4. \A u \in Threads : /\ pc[u] \in Holding <=> pc'[u] \in Holding
                           /\ pc'[u] \in Leasing => pc[u] \in Leasing
    BY <1>6 DEF EndExchange, EndExecute, CloseHeld, TypeInv, TypeOK, Holding, Leasing
  <2> QED BY <2>2, <2>3, <2>4, OwnershipStill
<1>7. ASSUME NEW c \in Closers, CloseAgain(c) \/ CloseDone(c) PROVE Ownership'
  BY <1>7, OwnershipStill DEF CloseAgain, CloseDone
<1>8. ASSUME NEW t \in Threads, AcquireIdle(t) PROVE Ownership'
  <2>1. PICK k \in 1..Len(idle) :
           /\ PopsTo(k)
           /\ CloseAbove(k)
           /\ leased' = leased \cup {idle[k]}
           /\ held' = [held EXCEPT ![t] = idle[k]]
           /\ idle' = SubSeq(idle, 1, k - 1)
    BY <1>8 DEF AcquireIdle
  <2>2. k = Len(idle) /\ status' = status
    BY <2>1, NothingDiscarded DEF TypeInv, Ownership
  <2>3. /\ ~closed /\ closed' = closed /\ pending' = pending
        /\ pc' = [pc EXCEPT ![t] = "leased"] /\ pc[t] = "enter"
    BY <1>8 DEF AcquireIdle, MayTake
  <2>4. /\ Len(idle) \in Nat /\ Len(idle') = Len(idle) - 1
        /\ \A i \in 1..(Len(idle) - 1) : idle'[i] = idle[i]
    BY <2>1, <2>2, LenProperties, SubSeqProperties DEF TypeInv, TypeOK
  <2>5. idle[k] \in Sessions
    BY <2>1, ElementOfSeq DEF TypeInv, TypeOK
  <2>6. \A s : InSeq(s, idle') => InSeq(s, idle)
    BY <2>4 DEF InSeq
  <2>7. ~InSeq(idle[k], idle')
    BY <2>1, <2>2, <2>4 DEF InSeq, Ownership, ExclusiveLease
  <2>8. \A u \in Threads : held[u] # idle[k]
    BY <2>1 DEF InSeq, Ownership, ExclusiveLease
  <2>9. \A u \in Threads : held'[u] = IF u = t THEN idle[k] ELSE held[u]
    BY <2>1 DEF TypeInv, TypeOK
  <2>10. ExclusiveLease'
    <3>1. \A u, v \in Threads : u # v /\ held'[u] # NoSession => held'[u] # held'[v]
      BY <2>8, <2>9 DEF Ownership, ExclusiveLease
    <3>2. \A u \in Threads : ~InSeq(held'[u], idle')
      BY <2>6, <2>7, <2>9 DEF Ownership, ExclusiveLease
    <3>3. \A i, j \in 1..Len(idle') : i # j => idle'[i] # idle'[j]
      BY <2>4 DEF Ownership, ExclusiveLease
    <3> QED BY <3>1, <3>2, <3>3 DEF ExclusiveLease, InSeq
  <2>11. IdleHealthy'
    BY <2>2, <2>4 DEF Ownership, IdleHealthy, Usable
  <2>12. \A u \in Threads : held'[u] # NoSession => pc'[u] \in Holding
    BY <2>3, <2>9 DEF Ownership, TypeInv, TypeOK, Holding
  <2>13. \A u \in Threads : pc'[u] \in Leasing => held'[u] \in leased'
    BY <2>1, <2>3, <2>9 DEF Ownership, TypeInv, TypeOK, Leasing
  <2> QED BY <2>3, <2>10, <2>11, <2>12, <2>13 DEF Ownership
<1>9. ASSUME NEW t \in Threads, CreateSession(t) PROVE Ownership'
  <2>1. PICK s \in Sessions : Fresh(s) /\ held' = [held EXCEPT ![t] = s]
                            /\ \A r \in Sessions : r # s => status'[r] = status[r]
    BY <1>9 DEF CreateSession, TypeInv, TypeOK
  <2>2. /\ pc[t] = "create" /\ pc' = [pc EXCEPT ![t] = "created"]
        /\ UNCHANGED <<idle, leased, closed, pending>>
    BY <1>9 DEF CreateSession
  <2>3. ~InSeq(s, idle) /\ \A u \in Threads : held[u] # s
    BY <2>1 DEF Fresh
  <2>4. \A u \in Threads : held'[u] = IF u = t THEN s ELSE held[u]
    BY <2>1 DEF TypeInv, TypeOK
  <2>5. ExclusiveLease'
    BY <2>2, <2>3, <2>4 DEF Ownership, ExclusiveLease, InSeq
  <2>6. IdleHealthy'
    <3>1. \A i \in 1..Len(idle) : idle[i] \in Sessions /\ idle[i] # s
      BY <2>3, ElementOfSeq DEF InSeq, TypeInv, TypeOK
    <3> QED BY <2>1, <2>2, <3>1 DEF Ownership, IdleHealthy, Usable
  <2>7. \A u \in Threads : /\ held'[u] # NoSession => pc'[u] \in Holding
                           /\ pc'[u] \in Leasing => pc[u] \in Leasing /\ held'[u] = held[u]
    BY <2>2, <2>4 DEF Ownership, TypeInv, TypeOK, Holding, Leasing
  <2> QED BY <2>2, <2>5, <2>6, <2>7 DEF Ownership
<1>10. ASSUME NEW t \in Threads, AdmitClosed(t) \/ AdmitExpired(t) \/ AdmitUnusable(t)
       PROVE Ownership'
  <2>1. Reject(t) /\ pc[t] = "created"
    BY <1>10 DEF AdmitClosed, AdmitExpired, AdmitUnusable
  <2>2. /\ UNCHANGED <<idle, leased, closed, pending>>
        /\ pc' = [pc EXCEPT ![t] = "out"]
        /\ held' = [held EXCEPT ![t] = NoSession]
        /\ status' = [status EXCEPT ![held[t]] = "closed"]
    BY <2>1 DEF Reject, Raise
  <2>3. \A u \in Threads : held'[u] = IF u = t THEN NoSession ELSE held[u]
    BY <2>2 DEF TypeInv, TypeOK
  <2>4. \A i \in 1..Len(idle) : idle[i] \in Sessions /\ idle[i] # held[t]
    BY ElementOfSeq DEF InSeq, TypeInv, TypeOK, Ownership, ExclusiveLease
  <2>5. ExclusiveLease'
    <3>1. ~InSeq(NoSession, idle)
      BY <2>4, NoSessionAssumption DEF InSeq
    <3> QED BY <2>2, <2>3, <3>1 DEF Ownership, ExclusiveLease, InSeq
  <2>6. IdleHealthy'
    BY <2>2, <2>4 DEF Ownership, IdleHealthy, Usable, TypeInv, TypeOK
  <2>7. \A u \in Threads : /\ held'[u] # NoSession => pc'[u] \in Holding
                           /\ pc'[u] \in Leasing => pc[u] \in Leasing /\ held'[u] = held[u]
    BY <2>1, <2>2, <2>3 DEF Ownership, TypeInv, TypeOK, Holding, Leasing
  <2> QED BY <2>2, <2>5, <2>6, <2>7 DEF Ownership
<1>11. ASSUME NEW t \in Threads, AdmitSession(t) PROVE Ownership'
  <2>1. /\ ~closed /\ pc[t] = "created"
        /\ leased' = leased \cup {held[t]}
        /\ pc' = [pc EXCEPT ![t] = "leased"]
        /\ UNCHANGED <<idle, closed, held, status, pending>>
    BY <1>11 DEF AdmitSession
  <2>2. ExclusiveLease' /\ IdleHealthy'
    BY <2>1 DEF Ownership, ExclusiveLease, IdleHealthy, Usable, InSeq
  <2>3. \A u \in Threads : /\ held'[u] # NoSession => pc'[u] \in Holding
                           /\ pc'[u] \in Leasing => held'[u] \in leased'
    BY <2>1 DEF Ownership, TypeInv, TypeOK, Holding, Leasing
  <2> QED BY <2>1, <2>2, <2>3 DEF Ownership
<1>12. ASSUME NEW t \in Threads, GiveBack(t) PROVE Ownership'
  <2>1. PICK reusable \in BOOLEAN : Release(t, reusable)
    BY <1>12 DEF GiveBack
  <2>2. /\ pc[t] \in HasLease
        /\ held' = [held EXCEPT ![t] = NoSession]
        /\ pc' = [pc EXCEPT ![t] = "out"]
        /\ pending' = pending /\ closed' = closed
    BY <2>1 DEF Release, Drop, ReleaseForgotten, ReleaseLeased
  <2>3. \A u \in Threads : held'[u] = IF u = t THEN NoSession ELSE held[u]
    BY <2>2 DEF TypeInv, TypeOK
  <2>4. /\ held[t] \in Sessions
        /\ \A u \in Threads \ {t} : held[u] # held[t]
        /\ ~InSeq(held[t], idle) /\ ~InSeq(NoSession, idle)
    <3>1. held[t] \in Sessions
      BY <2>2 DEF TypeInv, HasLease, Holding
    <3>2. ~InSeq(NoSession, idle)
      BY NoSessionAssumption, ElementOfSeq DEF InSeq, TypeInv, TypeOK
    <3> QED BY <3>1, <3>2, NoSessionAssumption DEF Ownership, ExclusiveLease
  <2>5. \A u \in Threads : /\ held'[u] # NoSession => pc'[u] \in Holding
                           /\ pc'[u] \in Leasing => /\ u # t
                                                     /\ pc[u] \in Leasing
                                                     /\ held'[u] = held[u]
    BY <2>2, <2>3 DEF Ownership, TypeInv, TypeOK, Holding, Leasing
  <2>6. CASE ReleaseForgotten(t)
    <3>1. UNCHANGED <<idle, leased, status>>
      BY <2>6 DEF ReleaseForgotten
    <3>2. ExclusiveLease' /\ IdleHealthy'
      BY <2>3, <2>4, <3>1 DEF Ownership, ExclusiveLease, IdleHealthy, Usable, InSeq
    <3> QED BY <2>2, <2>5, <3>1, <3>2 DEF Ownership
  <2>7. CASE ReleaseLeased(t, reusable)
    <3>1. ~closed /\ leased' = leased \ {held[t]}
      BY <2>7 DEF ReleaseLeased, Ownership
    <3>2. \A u \in Threads : pc'[u] \in Leasing => held'[u] \in leased'
      BY <2>3, <2>4, <2>5, <3>1 DEF Ownership
    <3>3. CASE reusable /\ Usable(held[t])
      <4>1. idle' = Append(idle, held[t]) /\ status' = status
        BY <2>7, <3>1, <3>3 DEF ReleaseLeased
      <4>2. /\ Len(idle) \in Nat /\ Len(idle') = Len(idle) + 1
            /\ \A i \in 1..Len(idle) : idle'[i] = idle[i]
            /\ idle'[Len(idle) + 1] = held[t]
        BY <2>4, <4>1, LenProperties, AppendProperties DEF TypeInv, TypeOK
      <4>3. \A u \in Threads : ~InSeq(held'[u], idle')
        <5>1. ASSUME NEW u \in Threads, NEW i \in 1..Len(idle'), idle'[i] = held'[u]
              PROVE FALSE
          <6>1. CASE i = Len(idle) + 1
            BY <2>3, <2>4, <4>2, <5>1, <6>1, NoSessionAssumption
          <6>2. CASE i \in 1..Len(idle)
            <7>1. InSeq(held'[u], idle)
              BY <4>2, <5>1, <6>2 DEF InSeq
            <7> QED BY <2>3, <2>4, <7>1 DEF Ownership, ExclusiveLease
          <6> QED BY <4>2, <6>1, <6>2
        <5> QED BY <5>1 DEF InSeq
      <4>4. \A i, j \in 1..Len(idle') : i # j => idle'[i] # idle'[j]
        <5>1. \A i \in 1..Len(idle) : idle[i] # held[t]
          BY <2>4 DEF InSeq
        <5>2. \A i \in 1..Len(idle') : i \in 1..Len(idle) \/ i = Len(idle) + 1
          BY <4>2
        <5> QED BY <4>2, <5>1, <5>2 DEF Ownership, ExclusiveLease
      <4>5. ExclusiveLease'
        <5>1. \A u, v \in Threads : u # v /\ held'[u] # NoSession => held'[u] # held'[v]
          BY <2>3 DEF Ownership, ExclusiveLease
        <5> QED BY <4>3, <4>4, <5>1 DEF ExclusiveLease, InSeq
      <4>6. IdleHealthy'
        <5>1. \A i \in 1..Len(idle') : i \in 1..Len(idle) \/ i = Len(idle) + 1
          BY <4>2
        <5> QED BY <3>3, <4>1, <4>2, <5>1 DEF Ownership, IdleHealthy, Usable
      <4> QED BY <2>2, <2>5, <3>1, <3>2, <4>5, <4>6 DEF Ownership
    <3>4. CASE ~(reusable /\ Usable(held[t]))
      <4>1. idle' = idle /\ status' = [status EXCEPT ![held[t]] = "closed"]
        BY <2>7, <3>4 DEF ReleaseLeased
      <4>2. ExclusiveLease'
        BY <2>3, <2>4, <4>1 DEF Ownership, ExclusiveLease, InSeq
      <4>3. IdleHealthy'
        <5>1. \A i \in 1..Len(idle) : idle[i] \in Sessions /\ idle[i] # held[t]
          BY <2>4, ElementOfSeq DEF InSeq, TypeInv, TypeOK
        <5> QED BY <4>1, <5>1 DEF Ownership, IdleHealthy, Usable, TypeInv, TypeOK
      <4> QED BY <2>2, <2>5, <3>1, <3>2, <4>2, <4>3 DEF Ownership
    <3> QED BY <3>3, <3>4
  <2> QED BY <2>1, <2>6, <2>7 DEF Release
<1>13. ASSUME NEW c \in Closers, CloseAll(c) PROVE Ownership'
  <2>1. closed' = TRUE /\ idle' = <<>> /\ leased' = {} /\ UNCHANGED <<pc, held, status>>
    BY <1>13 DEF CloseAll
  <2>2. ExclusiveLease' /\ IdleHealthy'
    BY <2>1, EmptySeq DEF Ownership, ExclusiveLease, IdleHealthy, InSeq
  <2> QED BY <2>1, <2>2 DEF Ownership
<1>14. ASSUME NEW c \in Closers, CloseNext(c) PROVE Ownership'
  <2>1. pending[c] # <<>> /\ UNCHANGED <<idle, leased, closed, held, pc>>
    BY <1>14 DEF CloseNext
  <2>2. closed /\ idle = <<>>
    BY <2>1 DEF Ownership
  <2>3. ExclusiveLease' /\ IdleHealthy'
    BY <2>1, <2>2, EmptySeq DEF Ownership, ExclusiveLease, IdleHealthy, InSeq
  <2> QED BY <2>1, <2>2, <2>3 DEF Ownership
<1> QED
  BY <1>0, <1>1, <1>2, <1>3, <1>4, <1>5, <1>6, <1>7, <1>8, <1>9, <1>10, <1>11, <1>12,
     <1>13, <1>14
     DEF Next, AcquireStep, CloserStep

(***************************************************************************)
(* At all times a session is with one thread at most, and never both with  *)
(* a thread and in the idle stack.                                         *)
(***************************************************************************)
THEOREM LeasesAreExclusive == Spec => []ExclusiveLease
<1>1. Init => TypeInv /\ Ownership
  BY TypeInit, OwnershipInit
<1>2. TypeInv /\ Ownership /\ [Next]_vars => (TypeInv /\ Ownership)'
  BY TypeStep, OwnershipStep
<1>3. TypeInv /\ Ownership => ExclusiveLease
  BY DEF Ownership
<1> QED BY <1>1, <1>2, <1>3, PTL DEF Spec

\* The idle stack holds usable sessions only.
THEOREM IdleSessionsAreHealthy == Spec => []IdleHealthy
<1>1. Init => TypeInv /\ Ownership
  BY TypeInit, OwnershipInit
<1>2. TypeInv /\ Ownership /\ [Next]_vars => (TypeInv /\ Ownership)'
  BY TypeStep, OwnershipStep
<1>3. TypeInv /\ Ownership => IdleHealthy
  BY DEF Ownership
<1> QED BY <1>1, <1>2, <1>3, PTL DEF Spec

-----------------------------------------------------------------------------
(* Every open socket has somebody to close it. *)

Tracking ==
    /\ NoOrphanSocket
    /\ \A t \in Threads : pc[t] = "executing" => status[held[t]] # "closed"
    /\ closed => \A t \in Threads :
                    pc[t] \in Leasing /\ status[held[t]] # "closed" =>
                        \E c \in Closers : InSeq(held[t], pending[c])

LEMMA TrackingInit == Init => Tracking
BY DEF Init, Tracking, NoOrphanSocket, OpenSessions, Leasing

\* A step that opens no socket and moves no session keeps Tracking if it
\* starts no exchange, and if no thread gets a lease of a closed pool.
LEMMA TrackingStill ==
    ASSUME Tracking,
           UNCHANGED <<idle, closed, held, pending>>,
           \A s \in Sessions : status'[s] # "closed" => status[s] # "closed",
           \A t \in Threads : /\ pc'[t] = "executing" => status'[held[t]] # "closed"
                              /\ pc'[t] \in Leasing => held[t] \in Sessions
                              /\ closed /\ pc'[t] \in Leasing => pc[t] \in Leasing
    PROVE  Tracking'
<1>1. NoOrphanSocket'
  BY DEF Tracking, NoOrphanSocket, OpenSessions, InSeq
<1>2. closed => \A t \in Threads :
                  pc'[t] \in Leasing /\ status'[held[t]] # "closed" =>
                      \E c \in Closers : InSeq(held[t], pending[c])
  BY DEF Tracking
<1> QED BY <1>1, <1>2 DEF Tracking, InSeq

LEMMA TrackingStep == TypeInv /\ Ownership /\ Tracking /\ [Next]_vars => Tracking'
<1> SUFFICES ASSUME TypeInv, Ownership, Tracking, [Next]_vars PROVE Tracking'
  OBVIOUS
<1> USE DEF poolVars
<1>h. \A t \in Threads : pc[t] \in Holding => held[t] \in Sessions
  BY DEF TypeInv
<1>e. \A t \in Threads : pc[t] = "executing" => status[held[t]] # "closed"
  BY DEF Tracking
<1>0. CASE UNCHANGED vars
  BY <1>0, <1>h, <1>e, TrackingStill DEF vars, Leasing, Holding
<1>1. ASSUME NEW t \in Threads, BeginAcquire(t) \/ DeadlinePasses(t) PROVE Tracking'
  BY <1>1, <1>h, <1>e, TrackingStill
     DEF BeginAcquire, DeadlinePasses, TypeInv, TypeOK, Leasing, Holding
<1>2. ASSUME NEW t \in Threads, AcquireClosed(t) \/ AcquireExpired(t) PROVE Tracking'
  BY <1>2, <1>h, <1>e, TrackingStill
     DEF AcquireClosed, AcquireExpired, Raise, TypeInv, TypeOK, Leasing, Holding
<1>3. ASSUME NEW t \in Threads, AcquireReserve(t) \/ AcquireWait(t) PROVE Tracking'
  <2>1. PopsTo(0) /\ CloseAbove(0) /\ idle' = <<>>
    BY <1>3 DEF AcquireReserve, AcquireWait
  <2>2. Len(idle) = 0 /\ status' = status
    BY <2>1, NothingDiscarded DEF TypeInv, Ownership
  <2>3. idle' = idle
    BY <2>1, <2>2, EmptySeq DEF TypeInv, TypeOK
  <2>4. UNCHANGED <<closed, held, pending>>
    BY <1>3 DEF AcquireReserve, AcquireWait
  <2>5. \A u \in Threads : pc'[u] \in Leasing => pc[u] \in Leasing /\ pc'[u] = pc[u]
    BY <1>3 DEF AcquireReserve, AcquireWait, TypeInv, TypeOK, Leasing
  <2>6. \A u \in Threads : pc'[u] = "executing" => pc[u] = "executing"
    BY <2>5 DEF Leasing
  <2> QED BY <2>2, <2>3, <2>4, <2>5, <2>6, <1>h, <1>e, TrackingStill DEF Leasing, Holding
<1>4. ASSUME NEW t \in Threads, WakeUp(t) \/ CreateFails(t) PROVE Tracking'
  BY <1>4, <1>h, <1>e, TrackingStill
     DEF WakeUp, CreateFails, Raise, TypeInv, TypeOK, Leasing, Holding
<1>5. ASSUME NEW t \in Threads, BeginExecute(t) PROVE Tracking'
  BY <1>5, <1>h, <1>e, TrackingStill
     DEF BeginExecute, Usable, TypeInv, TypeOK, Leasing, Holding
<1>6. ASSUME NEW t \in Threads, EndExchange(t) \/ CloseHeld(t) PROVE Tracking'
  <2>1. /\ UNCHANGED <<idle, closed, held, pending>>
        /\ pc[t] \in Leasing /\ pc[t] \in Holding
        /\ status[held[t]] # "closed"
    BY <1>6, <1>e DEF EndExchange, EndExecute, CloseHeld, HasLease, Leasing, Holding
  <2>2. held[t] \in Sessions /\ held[t] # NoSession
    BY <2>1, <1>h, NoSessionAssumption
  <2>3. \A s \in Sessions : s # held[t] => status'[s] = status[s]
    BY <1>6, <2>2 DEF EndExchange, EndExecute, CloseHeld, TypeInv, TypeOK
  <2>4. \A u \in Threads : /\ pc'[u] \in Leasing => pc[u] \in Leasing
                           /\ pc'[u] = "executing" => u # t /\ pc[u] = "executing"
    BY <1>6 DEF EndExchange, EndExecute, CloseHeld, HasLease, TypeInv, TypeOK, Leasing
  <2>5. \A u \in Threads : u # t => held[u] # held[t]
    BY <2>2 DEF Ownership, ExclusiveLease
  <2>6. \A u \in Threads : pc'[u] = "executing" => status'[held[u]] # "closed"
    BY <2>3, <2>4, <2>5, <1>e, <1>h DEF Holding
  <2> QED BY <2>1, <2>2, <2>3, <2>4, <2>6, <1>h, TrackingStill DEF Leasing, Holding
<1>7. ASSUME NEW c \in Closers, CloseAgain(c) \/ CloseDone(c) PROVE Tracking'
  BY <1>7, <1>h, <1>e, TrackingStill DEF CloseAgain, CloseDone, Leasing, Holding
<1>8. ASSUME NEW t \in Threads, AdmitSession(t) PROVE Tracking'
  BY <1>8, <1>h, <1>e, TrackingStill
     DEF AdmitSession, TypeInv, TypeOK, Leasing, Holding
<1>9. ASSUME NEW t \in Threads, AcquireIdle(t) PROVE Tracking'
  <2>1. PICK k \in 1..Len(idle) :
           /\ PopsTo(k)
           /\ CloseAbove(k)
           /\ held' = [held EXCEPT ![t] = idle[k]]
           /\ idle' = SubSeq(idle, 1, k - 1)
    BY <1>9 DEF AcquireIdle
  <2>2. k = Len(idle) /\ status' = status
    BY <2>1, NothingDiscarded DEF TypeInv, Ownership
  <2>3. /\ ~closed /\ closed' = closed /\ pending' = pending
        /\ pc' = [pc EXCEPT ![t] = "leased"] /\ pc[t] = "enter"
    BY <1>9 DEF AcquireIdle, MayTake
  <2>4. /\ Len(idle) \in Nat /\ Len(idle') = Len(idle) - 1
        /\ \A i \in 1..(Len(idle) - 1) : idle'[i] = idle[i]
    BY <2>1, <2>2, LenProperties, SubSeqProperties DEF TypeInv, TypeOK
  <2>5. /\ held[t] = NoSession
        /\ \A u \in Threads : held'[u] = IF u = t THEN idle[k] ELSE held[u]
    BY <2>1, <2>3 DEF Ownership, Holding, TypeInv, TypeOK
  <2>6. ASSUME NEW s \in Sessions, InSeq(s, idle)
        PROVE  InSeq(s, idle') \/ held'[t] = s
    <3>1. PICK i \in 1..Len(idle) : idle[i] = s
      BY <2>6 DEF InSeq
    <3>2. CASE i = k
      BY <2>5, <3>1, <3>2
    <3>3. CASE i # k
      <4>1. i \in 1..Len(idle') /\ idle'[i] = s
        BY <2>2, <2>4, <3>1, <3>3
      <4> QED BY <4>1 DEF InSeq
    <3> QED BY <3>2, <3>3
  <2>7. ASSUME NEW s \in Sessions, NEW u \in Threads, held[u] = s PROVE held'[u] = s
    BY <2>5, <2>7, NoSessionAssumption
  <2>8. NoOrphanSocket'
    <3>1. ASSUME NEW s \in Sessions, status'[s] # "closed"
          PROVE  \/ InSeq(s, idle')
                 \/ \E u \in Threads : held'[u] = s
                 \/ \E c \in Closers : InSeq(s, pending'[c])
      <4>1. \/ InSeq(s, idle)
            \/ \E u \in Threads : held[u] = s
            \/ \E c \in Closers : InSeq(s, pending[c])
        BY <2>2, <3>1 DEF Tracking, NoOrphanSocket, OpenSessions
      <4> QED BY <4>1, <2>3, <2>6, <2>7
    <3> QED BY <3>1 DEF NoOrphanSocket, OpenSessions, InSeq
  <2>9. \A u \in Threads : pc'[u] = "executing" => status'[held'[u]] # "closed"
    BY <2>2, <2>3, <2>5, <1>e DEF TypeInv, TypeOK
  <2> QED BY <2>3, <2>8, <2>9 DEF Tracking
<1>10. ASSUME NEW t \in Threads, CreateSession(t) PROVE Tracking'
  <2>1. PICK s \in Sessions, product \in FactoryProducts :
           /\ Fresh(s)
           /\ status' = [status EXCEPT ![s] = product]
           /\ held' = [held EXCEPT ![t] = s]
    BY <1>10 DEF CreateSession
  <2>2. /\ UNCHANGED <<idle, closed, pending>>
        /\ pc' = [pc EXCEPT ![t] = "created"] /\ pc[t] = "create"
    BY <1>10 DEF CreateSession
  <2>3. /\ held[t] = NoSession
        /\ \A u \in Threads : held'[u] = IF u = t THEN s ELSE held[u]
    BY <2>1, <2>2 DEF Ownership, Holding, TypeInv, TypeOK
  <2>4. \A r \in Sessions : r # s => status'[r] = status[r]
    BY <2>1 DEF TypeInv, TypeOK
  <2>5. NoOrphanSocket'
    <3>1. ASSUME NEW r \in Sessions, status'[r] # "closed"
          PROVE  \/ InSeq(r, idle')
                 \/ \E u \in Threads : held'[u] = r
                 \/ \E c \in Closers : InSeq(r, pending'[c])
      <4>1. CASE r = s
        BY <2>3, <4>1
      <4>2. CASE r # s
        <5>1. \/ InSeq(r, idle)
              \/ \E u \in Threads : held[u] = r
              \/ \E c \in Closers : InSeq(r, pending[c])
          BY <2>4, <3>1, <4>2 DEF Tracking, NoOrphanSocket, OpenSessions
        <5>2. ASSUME NEW u \in Threads, held[u] = r PROVE held'[u] = r
          BY <2>3, <5>2, NoSessionAssumption
        <5> QED BY <2>2, <5>1, <5>2
      <4> QED BY <4>1, <4>2
    <3> QED BY <3>1 DEF NoOrphanSocket, OpenSessions, InSeq
  <2>6. \A u \in Threads : pc'[u] \in Leasing => /\ pc'[u] = pc[u]
                                                 /\ held'[u] = held[u]
                                                 /\ held[u] \in Sessions
                                                 /\ held[u] # s
    BY <2>1, <2>2, <2>3, <1>h DEF TypeInv, TypeOK, Leasing, Holding, Fresh
  <2>7. \A u \in Threads : pc'[u] = "executing" => status'[held'[u]] # "closed"
    BY <2>4, <2>6, <1>e DEF Leasing
  <2>8. closed' => \A u \in Threads :
                     pc'[u] \in Leasing /\ status'[held'[u]] # "closed" =>
                         \E c \in Closers : InSeq(held'[u], pending'[c])
    BY <2>2, <2>4, <2>6 DEF Tracking
  <2> QED BY <2>5, <2>7, <2>8 DEF Tracking, InSeq
<1>11. ASSUME NEW t \in Threads, AdmitClosed(t) \/ AdmitExpired(t) \/ AdmitUnusable(t)
       PROVE Tracking'
  <2>1. Reject(t) /\ pc[t] = "created"
    BY <1>11 DEF AdmitClosed, AdmitExpired, AdmitUnusable
  <2>2. /\ UNCHANGED <<idle, closed, pending>>
        /\ pc' = [pc EXCEPT ![t] = "out"]
        /\ held' = [held EXCEPT ![t] = NoSession]
        /\ status' = [status EXCEPT ![held[t]] = "closed"]
    BY <2>1 DEF Reject, Raise
  <2>3. \A u \in Threads : held'[u] = IF u = t THEN NoSession ELSE held[u]
    BY <2>2 DEF TypeInv, TypeOK
  <2>4. held[t] \in Sessions /\ \A u \in Threads : u # t => held[u] # held[t]
    BY <2>1, <1>h, NoSessionAssumption DEF Holding, Ownership, ExclusiveLease
  <2>5. \A r \in Sessions : status'[r] = IF r = held[t] THEN "closed" ELSE status[r]
    BY <2>2 DEF TypeInv, TypeOK
  <2>6. NoOrphanSocket'
    <3>1. ASSUME NEW r \in Sessions, status'[r] # "closed"
          PROVE  \/ InSeq(r, idle')
                 \/ \E u \in Threads : held'[u] = r
                 \/ \E c \in Closers : InSeq(r, pending'[c])
      <4>1. r # held[t] /\ status[r] # "closed"
        BY <2>5, <3>1
      <4>2. \/ InSeq(r, idle)
            \/ \E u \in Threads : held[u] = r
            \/ \E c \in Closers : InSeq(r, pending[c])
        BY <4>1 DEF Tracking, NoOrphanSocket, OpenSessions
      <4>3. ASSUME NEW u \in Threads, held[u] = r PROVE held'[u] = r
        BY <2>3, <4>1, <4>3
      <4> QED BY <2>2, <4>2, <4>3
    <3> QED BY <3>1 DEF NoOrphanSocket, OpenSessions, InSeq
  <2>7. \A u \in Threads : pc'[u] \in Leasing => /\ u # t
                                                 /\ pc'[u] = pc[u]
                                                 /\ held'[u] = held[u]
                                                 /\ held[u] \in Sessions
                                                 /\ held[u] # held[t]
    BY <2>1, <2>2, <2>3, <2>4, <1>h DEF TypeInv, TypeOK, Leasing, Holding
  <2>8. \A u \in Threads : pc'[u] = "executing" => status'[held'[u]] # "closed"
    BY <2>5, <2>7, <1>e DEF Leasing
  <2>9. closed' => \A u \in Threads :
                     pc'[u] \in Leasing /\ status'[held'[u]] # "closed" =>
                         \E c \in Closers : InSeq(held'[u], pending'[c])
    BY <2>2, <2>5, <2>7 DEF Tracking
  <2> QED BY <2>6, <2>8, <2>9 DEF Tracking, InSeq
<1>12. ASSUME NEW t \in Threads, GiveBack(t) PROVE Tracking'
  <2>1. PICK reusable \in BOOLEAN : Release(t, reusable)
    BY <1>12 DEF GiveBack
  <2>2. /\ pc[t] \in HasLease
        /\ held' = [held EXCEPT ![t] = NoSession]
        /\ pc' = [pc EXCEPT ![t] = "out"]
        /\ pending' = pending /\ closed' = closed
    BY <2>1 DEF Release, Drop, ReleaseForgotten, ReleaseLeased
  <2>3. \A u \in Threads : held'[u] = IF u = t THEN NoSession ELSE held[u]
    BY <2>2 DEF TypeInv, TypeOK
  <2>4. held[t] \in Sessions /\ \A u \in Threads : u # t => held[u] # held[t]
    BY <2>2, <1>h, NoSessionAssumption DEF HasLease, Holding, Ownership, ExclusiveLease
  <2>5. \A r \in Sessions : r # held[t] => status'[r] = status[r]
    BY <2>1, <2>4 DEF Release, ReleaseForgotten, ReleaseLeased, TypeInv, TypeOK
  <2>6. \A s : InSeq(s, idle) => InSeq(s, idle')
    <3>1. CASE idle' = idle
      BY <3>1
    <3>2. CASE idle' = Append(idle, held[t])
      BY <2>4, <3>2, LenProperties, AppendProperties DEF InSeq, TypeInv, TypeOK
    <3> QED BY <2>1, <3>1, <3>2 DEF Release, ReleaseForgotten, ReleaseLeased
  <2>7. status'[held[t]] # "closed" =>
           \/ InSeq(held[t], idle')
           \/ \E c \in Closers : InSeq(held[t], pending'[c])
    <3>1. CASE ReleaseForgotten(t)
      <4>1. closed /\ status' = status /\ pc[t] \in Leasing
        BY <2>2, <3>1 DEF ReleaseForgotten, Ownership, HasLease, Leasing
      <4> QED BY <2>2, <4>1 DEF Tracking
    <3>2. CASE ReleaseLeased(t, reusable)
      <4>1. CASE idle' = Append(idle, held[t])
        <5>1. Len(idle) + 1 \in 1..Len(idle') /\ idle'[Len(idle) + 1] = held[t]
          BY <2>4, <4>1, LenProperties, AppendProperties DEF TypeInv, TypeOK
        <5> QED BY <5>1 DEF InSeq
      <4>2. CASE status' = [status EXCEPT ![held[t]] = "closed"]
        BY <2>4, <4>2 DEF TypeInv, TypeOK
      <4> QED BY <3>2, <4>1, <4>2 DEF ReleaseLeased
    <3> QED BY <2>1, <3>1, <3>2 DEF Release
  <2>8. NoOrphanSocket'
    <3>1. ASSUME NEW r \in Sessions, status'[r] # "closed"
          PROVE  \/ InSeq(r, idle')
                 \/ \E u \in Threads : held'[u] = r
                 \/ \E c \in Closers : InSeq(r, pending'[c])
      <4>1. CASE r = held[t]
        BY <2>7, <3>1, <4>1
      <4>2. CASE r # held[t]
        <5>1. \/ InSeq(r, idle)
              \/ \E u \in Threads : held[u] = r
              \/ \E c \in Closers : InSeq(r, pending[c])
          BY <2>5, <3>1, <4>2 DEF Tracking, NoOrphanSocket, OpenSessions
        <5>2. ASSUME NEW u \in Threads, held[u] = r PROVE held'[u] = r
          BY <2>3, <4>2, <5>2
        <5> QED BY <2>2, <2>6, <5>1, <5>2
      <4> QED BY <4>1, <4>2
    <3> QED BY <3>1 DEF NoOrphanSocket, OpenSessions, InSeq
  <2>9. \A u \in Threads : pc'[u] \in Leasing => /\ u # t
                                                 /\ pc'[u] = pc[u]
                                                 /\ held'[u] = held[u]
                                                 /\ held[u] \in Sessions
                                                 /\ held[u] # held[t]
    BY <2>2, <2>3, <2>4, <1>h DEF TypeInv, TypeOK, Leasing, Holding
  <2>10. \A u \in Threads : pc'[u] = "executing" => status'[held'[u]] # "closed"
    BY <2>5, <2>9, <1>e DEF Leasing
  <2>11. closed' => \A u \in Threads :
                      pc'[u] \in Leasing /\ status'[held'[u]] # "closed" =>
                          \E c \in Closers : InSeq(held'[u], pending'[c])
    BY <2>2, <2>5, <2>9 DEF Tracking
  <2> QED BY <2>8, <2>10, <2>11 DEF Tracking, InSeq
<1>13. ASSUME NEW c \in Closers, CloseAll(c) PROVE Tracking'
  <2>1. PICK order \in Orders(leased) : pending' = [pending EXCEPT ![c] = idle \o order]
    BY <1>13 DEF CloseAll
  <2>2. order \in Seq(Sessions) /\ \A s : InSeq(s, order) <=> s \in leased
    BY <2>1, OrdersAreSequences, SeqMonotonic DEF TypeInv, TypeOK
  <2>3. /\ ~closed /\ closed' = TRUE /\ UNCHANGED <<pc, held, status>>
        /\ pending'[c] = idle \o order
    BY <1>13, <2>1 DEF CloseAll, TypeInv, TypeOK
  <2>4. \A s : InSeq(s, idle) \/ s \in leased => InSeq(s, pending'[c])
    BY <2>2, <2>3, InSeqConcat DEF TypeInv, TypeOK
  <2>5. \A d \in Closers : \A s : ~InSeq(s, pending[d])
    <3>1. \A d \in Closers : pending[d] = <<>>
      BY <2>3 DEF Ownership
    <3> QED BY <3>1, EmptySeq DEF InSeq
  <2>6. NoOrphanSocket'
    <3>1. ASSUME NEW r \in Sessions, status'[r] # "closed"
          PROVE  \/ \E u \in Threads : held'[u] = r
                 \/ \E d \in Closers : InSeq(r, pending'[d])
      <4>1. \/ InSeq(r, idle)
            \/ \E u \in Threads : held[u] = r
            \/ \E d \in Closers : InSeq(r, pending[d])
        BY <2>3, <3>1 DEF Tracking, NoOrphanSocket, OpenSessions
      <4> QED BY <2>3, <2>4, <2>5, <4>1
    <3> QED BY <3>1 DEF NoOrphanSocket, OpenSessions, InSeq
  <2>7. \A u \in Threads : pc'[u] = "executing" => status'[held'[u]] # "closed"
    BY <2>3, <1>e
  <2>8. \A u \in Threads : pc'[u] \in Leasing => InSeq(held'[u], pending'[c])
    BY <2>3, <2>4 DEF Ownership
  <2> QED BY <2>6, <2>7, <2>8 DEF Tracking, InSeq
<1>14. ASSUME NEW c \in Closers, CloseNext(c) PROVE Tracking'
  <2>1. /\ pending[c] # <<>> /\ pending[c] \in Seq(Sessions)
        /\ \A t \in Threads : pc[t] = "executing" => held[t] # Head(pending[c])
        /\ status' = [status EXCEPT ![Head(pending[c])] = "closed"]
        /\ UNCHANGED <<idle, closed, held, pc>>
    BY <1>14 DEF CloseNext, TypeInv, TypeOK
  <2>2. Head(pending[c]) \in Sessions
    BY <2>1, HeadTailProperties
  <2>3. \A r \in Sessions : status'[r] = IF r = Head(pending[c]) THEN "closed" ELSE status[r]
    BY <2>1, <2>2 DEF TypeInv, TypeOK
  <2>4. \A d \in Closers : pending'[d] = IF d = c THEN Tail(pending[c]) ELSE pending[d]
    BY <1>14 DEF CloseNext, TypeInv, TypeOK
  <2>5. ASSUME NEW d \in Closers, NEW r \in Sessions,
               InSeq(r, pending[d]), r # Head(pending[c])
        PROVE  InSeq(r, pending'[d])
    <3>1. CASE d = c
      BY <2>1, <2>4, <2>5, <3>1, InSeqTail
    <3>2. CASE d # c
      BY <2>4, <2>5, <3>2
    <3> QED BY <3>1, <3>2
  <2>6. NoOrphanSocket'
    <3>1. ASSUME NEW r \in Sessions, status'[r] # "closed"
          PROVE  \/ InSeq(r, idle')
                 \/ \E u \in Threads : held'[u] = r
                 \/ \E d \in Closers : InSeq(r, pending'[d])
      <4>1. r # Head(pending[c]) /\ status[r] # "closed"
        BY <2>3, <3>1
      <4>2. \/ InSeq(r, idle)
            \/ \E u \in Threads : held[u] = r
            \/ \E d \in Closers : InSeq(r, pending[d])
        BY <4>1 DEF Tracking, NoOrphanSocket, OpenSessions
      <4> QED BY <2>1, <2>5, <4>1, <4>2
    <3> QED BY <3>1 DEF NoOrphanSocket, OpenSessions, InSeq
  <2>7. \A u \in Threads : pc'[u] = "executing" => status'[held'[u]] # "closed"
    BY <2>1, <2>3, <1>e, <1>h DEF Holding
  <2>8. ASSUME closed', NEW u \in Threads, pc'[u] \in Leasing, status'[held'[u]] # "closed"
        PROVE  \E d \in Closers : InSeq(held'[u], pending'[d])
    <3>1. /\ pc[u] \in Leasing /\ held[u] \in Sessions /\ held'[u] = held[u]
          /\ held[u] # Head(pending[c]) /\ status[held[u]] # "closed"
      BY <2>1, <2>3, <2>8, <1>h DEF Leasing, Holding
    <3>2. PICK d \in Closers : InSeq(held[u], pending[d])
      BY <2>1, <2>8, <3>1 DEF Tracking
    <3> QED BY <2>5, <3>1, <3>2
  <2> QED BY <2>6, <2>7, <2>8 DEF Tracking, InSeq
<1> QED
  BY <1>0, <1>1, <1>2, <1>3, <1>4, <1>5, <1>6, <1>7, <1>8, <1>9, <1>10, <1>11, <1>12,
     <1>13, <1>14
     DEF Next, AcquireStep, CloserStep

(***************************************************************************)
(* No socket is ever left open with nobody to close or reuse it, whatever  *)
(* close_all, a release and the factory do in between.                     *)
(***************************************************************************)
THEOREM NoSocketIsOrphaned == Spec => []NoOrphanSocket
<1>1. Init => TypeInv /\ Ownership /\ Tracking
  BY TypeInit, OwnershipInit, TrackingInit
<1>2. TypeInv /\ Ownership /\ Tracking /\ [Next]_vars => (TypeInv /\ Ownership /\ Tracking)'
  BY TypeStep, OwnershipStep, TrackingStep
<1>3. TypeInv /\ Ownership /\ Tracking => NoOrphanSocket
  BY DEF Tracking
<1> QED BY <1>1, <1>2, <1>3, PTL DEF Spec

-----------------------------------------------------------------------------
(* What live counts. *)

\* The sessions that are open or that a thread still has in hand.
InUse == OpenSessions \cup {s \in Sessions : \E t \in Threads : held[t] = s}

Slots ==
    /\ IsFiniteSet(InUse)
    /\ Cardinality(InUse) + Cardinality(Creating) <= Max
    /\ ~closed => /\ Cardinality(InUse) + Cardinality(Creating) <= live
                  /\ live <= Max

LEMMA CreatingFinite == IsFiniteSet(Creating)
BY FiniteAssumption, FS_Subset DEF Creating

LEMMA SlotsInit == Init => Slots
<1> SUFFICES ASSUME Init PROVE Slots
  OBVIOUS
<1>1. InUse = {} /\ Creating = {}
  BY NoSessionAssumption DEF Init, InUse, OpenSessions, Creating
<1> QED BY <1>1, FS_EmptySet, MaxAssumption DEF Init, Slots

\* A step that uses no more sessions and slots than before keeps Slots.
LEMMA SlotsStill ==
    ASSUME Slots, Creating' \subseteq Creating, InUse' \subseteq InUse,
           ~closed' => ~closed /\ live' = live, IsFiniteSet(Creating), live \in Int
    PROVE  Slots'
<1>1. IsFiniteSet(InUse') /\ Cardinality(InUse') <= Cardinality(InUse)
  BY FS_Subset DEF Slots
<1>2. IsFiniteSet(Creating') /\ Cardinality(Creating') <= Cardinality(Creating)
  BY FS_Subset
<1>3. /\ Cardinality(InUse) \in Nat /\ Cardinality(InUse') \in Nat
      /\ Cardinality(Creating) \in Nat /\ Cardinality(Creating') \in Nat
  BY <1>1, <1>2, FS_CardinalityType DEF Slots
<1>4. Cardinality(InUse') + Cardinality(Creating') <= Max
  BY <1>1, <1>2, <1>3, MaxAssumption DEF Slots
<1>5. ~closed' => Cardinality(InUse') + Cardinality(Creating') <= live' /\ live' <= Max
  BY <1>1, <1>2, <1>3, MaxAssumption DEF Slots
<1> QED BY <1>1, <1>4, <1>5 DEF Slots

\* So does one that gives up a session in use and its place in live.
LEMMA SlotsFreed ==
    ASSUME Slots, live \in Int, NEW s, s \in InUse,
           InUse' \subseteq InUse \ {s}, Creating' \subseteq Creating,
           closed' = closed, live' = live - 1
    PROVE  Slots'
<1>1. IsFiniteSet(InUse \ {s}) /\ Cardinality(InUse \ {s}) = Cardinality(InUse) - 1
  BY FS_RemoveElement DEF Slots
<1>2. IsFiniteSet(InUse') /\ Cardinality(InUse') <= Cardinality(InUse) - 1
  BY <1>1, FS_Subset
<1>3. IsFiniteSet(Creating) /\ IsFiniteSet(Creating')
      /\ Cardinality(Creating') <= Cardinality(Creating)
  BY CreatingFinite, FS_Subset
<1>4. /\ Cardinality(InUse) \in Nat /\ Cardinality(InUse') \in Nat
      /\ Cardinality(Creating) \in Nat /\ Cardinality(Creating') \in Nat
  BY <1>2, <1>3, FS_CardinalityType DEF Slots
<1>5. Cardinality(InUse') + Cardinality(Creating') <= Max
  BY <1>2, <1>3, <1>4, MaxAssumption DEF Slots
<1>6. ~closed' => Cardinality(InUse') + Cardinality(Creating') <= live' /\ live' <= Max
  BY <1>2, <1>3, <1>4, MaxAssumption DEF Slots
<1> QED BY <1>2, <1>5, <1>6 DEF Slots

LEMMA SlotsStep == TypeInv /\ Ownership /\ Slots /\ [Next]_vars => Slots'
<1> SUFFICES ASSUME TypeInv, Ownership, Slots, [Next]_vars PROVE Slots'
  OBVIOUS
<1> USE DEF poolVars
<1>f. IsFiniteSet(Creating)
  BY CreatingFinite
<1>h. \A t \in Threads : pc[t] \in Holding => held[t] \in Sessions
  BY DEF TypeInv
<1>i. live \in Int
  BY DEF TypeInv, TypeOK
<1>0. CASE UNCHANGED vars
  BY <1>0, <1>f, <1>i, SlotsStill DEF vars, InUse, OpenSessions, Creating
<1>1. ASSUME NEW t \in Threads,
             \/ BeginAcquire(t) \/ DeadlinePasses(t) \/ AcquireClosed(t) \/ AcquireExpired(t)
             \/ WakeUp(t) \/ AdmitSession(t) \/ BeginExecute(t)
      PROVE  Slots'
  <2>1. UNCHANGED <<live, closed, held, status>>
    BY <1>1 DEF BeginAcquire, DeadlinePasses, AcquireClosed, AcquireExpired, WakeUp,
                AdmitSession, BeginExecute
  <2>2. \A u \in Threads : pc'[u] = "create" => pc[u] = "create"
    BY <1>1 DEF BeginAcquire, DeadlinePasses, AcquireClosed, AcquireExpired, Raise, WakeUp,
                AdmitSession, BeginExecute, TypeInv, TypeOK
  <2>3. InUse' = InUse
    BY <2>1 DEF InUse, OpenSessions
  <2>4. Creating' \subseteq Creating
    BY <2>2 DEF Creating
  <2> QED BY <2>1, <2>3, <2>4, <1>f, <1>i, SlotsStill
<1>2. ASSUME NEW t \in Threads, AcquireIdle(t) PROVE Slots'
  <2>1. PICK k \in 1..Len(idle) :
           /\ PopsTo(k)
           /\ CloseAbove(k)
           /\ held' = [held EXCEPT ![t] = idle[k]]
           /\ live' = live - (Len(idle) - k)
    BY <1>2 DEF AcquireIdle
  <2>2. k = Len(idle) /\ status' = status
    BY <2>1, NothingDiscarded DEF TypeInv, Ownership
  <2>3. live' = live /\ closed' = closed
    <3>1. live \in Int /\ Len(idle) \in Nat /\ closed' = closed
      BY <1>2, LenProperties DEF AcquireIdle, TypeInv, TypeOK
    <3>2. live' = live - (k - k)
      BY <2>1, <2>2
    <3> QED BY <2>2, <3>1, <3>2
  <2>4. idle[k] \in OpenSessions
    BY ElementOfSeq DEF Ownership, IdleHealthy, Usable, OpenSessions, TypeInv, TypeOK
  <2>5. \A u \in Threads : held'[u] = idle[k] \/ held'[u] = held[u]
    BY <2>1 DEF TypeInv, TypeOK
  <2>6. InUse' \subseteq InUse
    BY <2>2, <2>4, <2>5 DEF InUse, OpenSessions
  <2>7. Creating' \subseteq Creating
    BY <1>2 DEF AcquireIdle, Creating, TypeInv, TypeOK
  <2> QED BY <2>3, <2>6, <2>7, <1>f, <1>i, SlotsStill
<1>3. ASSUME NEW t \in Threads, AcquireReserve(t) \/ AcquireWait(t) PROVE Slots'
  <2>1. PopsTo(0) /\ CloseAbove(0) /\ held' = held /\ closed' = closed /\ ~closed
        /\ pc[t] = "enter"
    BY <1>3 DEF AcquireReserve, AcquireWait, MayTake
  <2>2. Len(idle) = 0 /\ status' = status
    BY <2>1, NothingDiscarded DEF TypeInv, Ownership
  <2>3. InUse' = InUse
    BY <2>1, <2>2 DEF InUse, OpenSessions
  <2>4. CASE AcquireWait(t)
    <3>1. live' = live
      BY <2>2, <2>4 DEF AcquireWait, TypeInv, TypeOK
    <3>2. Creating' \subseteq Creating
      BY <2>4 DEF AcquireWait, Creating, TypeInv, TypeOK
    <3> QED BY <2>1, <2>3, <3>1, <3>2, <1>f, <1>i, SlotsStill
  <2>5. CASE AcquireReserve(t)
    <3>1. live' = live + 1 /\ live < Max /\ live \in Int
      BY <2>2, <2>5 DEF AcquireReserve, TypeInv, TypeOK
    <3>2. Creating' = Creating \cup {t} /\ t \notin Creating
      BY <2>1, <2>5 DEF AcquireReserve, Creating, TypeInv, TypeOK
    <3>3. Cardinality(Creating') = Cardinality(Creating) + 1
      BY <3>2, <1>f, FS_AddElement
    <3>4. Cardinality(InUse) \in Nat /\ Cardinality(Creating) \in Nat
      BY <1>f, FS_CardinalityType DEF Slots
    <3>5. Cardinality(InUse') + Cardinality(Creating') <= live' /\ live' <= Max
      BY <2>1, <2>3, <3>1, <3>3, <3>4, MaxAssumption DEF Slots
    <3>6. Cardinality(InUse') + Cardinality(Creating') <= Max
      BY <2>3, <3>1, <3>3, <3>4, <3>5, MaxAssumption
    <3> QED BY <2>3, <3>5, <3>6 DEF Slots
  <2> QED BY <1>3, <2>4, <2>5
<1>4. ASSUME NEW t \in Threads, CreateSession(t) PROVE Slots'
  <2>1. PICK s \in Sessions, product \in FactoryProducts :
           /\ Fresh(s)
           /\ status' = [status EXCEPT ![s] = product]
           /\ held' = [held EXCEPT ![t] = s]
    BY <1>4 DEF CreateSession
  <2>2. pc[t] = "create" /\ pc' = [pc EXCEPT ![t] = "created"] /\ UNCHANGED <<live, closed>>
    BY <1>4 DEF CreateSession
  <2>3. s \notin InUse
    BY <2>1 DEF Fresh, InUse, OpenSessions
  <2>4. InUse' \subseteq InUse \cup {s}
    BY <2>1 DEF InUse, OpenSessions, TypeInv, TypeOK
  <2>5. IsFiniteSet(InUse \cup {s}) /\ Cardinality(InUse \cup {s}) = Cardinality(InUse) + 1
    BY <2>3, FS_AddElement DEF Slots
  <2>6. IsFiniteSet(InUse') /\ Cardinality(InUse') <= Cardinality(InUse) + 1
    BY <2>4, <2>5, FS_Subset
  <2>7. Creating' = Creating \ {t} /\ t \in Creating
    BY <2>2 DEF Creating, TypeInv, TypeOK
  <2>8. IsFiniteSet(Creating') /\ Cardinality(Creating') = Cardinality(Creating) - 1
    BY <2>7, <1>f, FS_RemoveElement
  <2>9. /\ Cardinality(InUse) \in Nat /\ Cardinality(InUse') \in Nat
        /\ Cardinality(Creating) \in Nat /\ Cardinality(Creating') \in Nat /\ live \in Int
    BY <2>6, <2>8, <1>f, FS_CardinalityType DEF Slots, TypeInv, TypeOK
  <2>10. Cardinality(InUse') + Cardinality(Creating') <= Max
    BY <2>6, <2>8, <2>9, MaxAssumption DEF Slots
  <2>11. ~closed' => Cardinality(InUse') + Cardinality(Creating') <= live' /\ live' <= Max
    BY <2>2, <2>6, <2>8, <2>9, MaxAssumption DEF Slots
  <2> QED BY <2>6, <2>10, <2>11 DEF Slots
<1>5. ASSUME NEW t \in Threads, CreateFails(t) PROVE Slots'
  <2>1. /\ pc[t] = "create" /\ pc' = [pc EXCEPT ![t] = "out"] /\ live' = live - 1
        /\ UNCHANGED <<held, status, closed>>
    BY <1>5 DEF CreateFails, Raise
  <2>2. InUse' = InUse
    BY <2>1 DEF InUse, OpenSessions
  <2>3. Creating' = Creating \ {t} /\ t \in Creating
    BY <2>1 DEF Creating, TypeInv, TypeOK
  <2>4. Cardinality(Creating') = Cardinality(Creating) - 1
    BY <2>3, <1>f, FS_RemoveElement
  <2>5. Cardinality(InUse) \in Nat /\ Cardinality(Creating) \in Nat /\ live \in Int
    BY <1>f, FS_CardinalityType DEF Slots, TypeInv, TypeOK
  <2>6. Cardinality(InUse') + Cardinality(Creating') <= Max
    BY <2>2, <2>4, <2>5, MaxAssumption DEF Slots
  <2>7. ~closed' => Cardinality(InUse') + Cardinality(Creating') <= live' /\ live' <= Max
    BY <2>1, <2>2, <2>4, <2>5, MaxAssumption DEF Slots
  <2> QED BY <2>2, <2>6, <2>7 DEF Slots
<1>6. ASSUME NEW t \in Threads, AdmitClosed(t) \/ AdmitExpired(t) \/ AdmitUnusable(t)
      PROVE Slots'
  <2>1. Reject(t) /\ pc[t] = "created"
    BY <1>6 DEF AdmitClosed, AdmitExpired, AdmitUnusable
  <2>2. /\ closed' = closed /\ live' = live - 1
        /\ pc' = [pc EXCEPT ![t] = "out"]
        /\ held' = [held EXCEPT ![t] = NoSession]
        /\ status' = [status EXCEPT ![held[t]] = "closed"]
    BY <2>1 DEF Reject, Raise
  <2>3. held[t] \in Sessions /\ \A u \in Threads : u # t => held[u] # held[t]
    BY <2>1, <1>h, NoSessionAssumption DEF Holding, Ownership, ExclusiveLease
  <2>4. held[t] \in InUse /\ InUse' \subseteq InUse \ {held[t]}
    BY <2>2, <2>3, NoSessionAssumption DEF InUse, OpenSessions, TypeInv, TypeOK
  <2>5. Creating' \subseteq Creating
    BY <2>2 DEF Creating, TypeInv, TypeOK
  <2> QED BY <2>2, <2>4, <2>5, SlotsFreed DEF TypeInv, TypeOK
<1>7. ASSUME NEW t \in Threads, EndExchange(t) \/ CloseHeld(t) PROVE Slots'
  <2>1. held[t] \in Sessions /\ UNCHANGED <<live, closed, held>>
    BY <1>7, <1>h DEF EndExchange, EndExecute, CloseHeld, HasLease, Holding
  <2>2. \A s \in Sessions : s # held[t] => status'[s] = status[s]
    BY <1>7, <2>1 DEF EndExchange, EndExecute, CloseHeld, TypeInv, TypeOK
  <2>3. InUse' \subseteq InUse
    BY <2>1, <2>2 DEF InUse, OpenSessions
  <2>4. Creating' \subseteq Creating
    BY <1>7 DEF EndExchange, EndExecute, CloseHeld, Creating, TypeInv, TypeOK
  <2> QED BY <2>1, <2>3, <2>4, <1>f, <1>i, SlotsStill
<1>8. ASSUME NEW t \in Threads, GiveBack(t) PROVE Slots'
  <2>1. PICK reusable \in BOOLEAN : Release(t, reusable)
    BY <1>8 DEF GiveBack
  <2>2. /\ pc[t] \in HasLease
        /\ held' = [held EXCEPT ![t] = NoSession]
        /\ pc' = [pc EXCEPT ![t] = "out"]
        /\ closed' = closed
    BY <2>1 DEF Release, Drop, ReleaseForgotten, ReleaseLeased
  <2>3. held[t] \in Sessions /\ \A u \in Threads : u # t => held[u] # held[t]
    BY <2>2, <1>h, NoSessionAssumption DEF HasLease, Holding, Ownership, ExclusiveLease
  <2>4. Creating' \subseteq Creating
    BY <2>2 DEF Creating, TypeInv, TypeOK
  <2>5. CASE UNCHANGED <<live, status>>
    <3>1. InUse' \subseteq InUse
      BY <2>2, <2>5, NoSessionAssumption DEF InUse, OpenSessions, TypeInv, TypeOK
    <3> QED BY <2>2, <2>4, <2>5, <3>1, <1>f, <1>i, SlotsStill
  <2>6. CASE live' = live - 1 /\ status' = [status EXCEPT ![held[t]] = "closed"]
    <3>1. held[t] \in InUse /\ InUse' \subseteq InUse \ {held[t]}
      BY <2>2, <2>3, <2>6, NoSessionAssumption DEF InUse, OpenSessions, TypeInv, TypeOK
    <3> QED BY <2>2, <2>4, <2>6, <3>1, SlotsFreed DEF TypeInv, TypeOK
  <2> QED BY <2>1, <2>5, <2>6 DEF Release, ReleaseForgotten, ReleaseLeased
<1>9. ASSUME NEW c \in Closers, CloserStep(c) PROVE Slots'
  <2>1. held' = held /\ pc' = pc /\ (~closed' => ~closed /\ live' = live)
    BY <1>9 DEF CloserStep, CloseAll, CloseAgain, CloseNext, CloseDone
  <2>2. \A s \in Sessions : status'[s] # "closed" => status[s] # "closed"
    BY <1>9 DEF CloserStep, CloseAll, CloseAgain, CloseNext, CloseDone, TypeInv, TypeOK
  <2>3. InUse' \subseteq InUse
    BY <2>1, <2>2 DEF InUse, OpenSessions
  <2>4. Creating' \subseteq Creating
    BY <2>1 DEF Creating
  <2> QED BY <2>1, <2>3, <2>4, <1>f, <1>i, SlotsStill
<1> QED
  BY <1>0, <1>1, <1>2, <1>3, <1>4, <1>5, <1>6, <1>7, <1>8, <1>9 DEF Next, AcquireStep

(***************************************************************************)
(* max_connections bounds the sockets open or being opened at all times,   *)
(* also once close_all has set live to zero under connections in use.      *)
(***************************************************************************)
THEOREM SocketsAreBounded == Spec => []SocketBound
<1>1. Init => TypeInv /\ Ownership /\ Slots
  BY TypeInit, OwnershipInit, SlotsInit
<1>2. TypeInv /\ Ownership /\ Slots /\ [Next]_vars => (TypeInv /\ Ownership /\ Slots)'
  BY TypeStep, OwnershipStep, SlotsStep
<1>3. TypeInv /\ Ownership /\ Slots => SocketBound
  <2> SUFFICES ASSUME Slots PROVE SocketBound
    OBVIOUS
  <2>1. /\ IsFiniteSet(InUse) /\ IsFiniteSet(OpenSessions)
        /\ Cardinality(OpenSessions) <= Cardinality(InUse)
    BY FS_Subset DEF Slots, InUse
  <2>2. /\ Cardinality(OpenSessions) \in Nat /\ Cardinality(InUse) \in Nat
        /\ Cardinality(Creating) \in Nat
    BY <2>1, CreatingFinite, FS_CardinalityType
  <2> QED BY <2>1, <2>2, MaxAssumption DEF Slots, SocketBound
<1> QED BY <1>1, <1>2, <1>3, PTL DEF Spec

\* Until the pool is closed live is exact.  This needs IdleHealthy: acquire
\* would otherwise have to be followed through the sessions it discards.
LEMMA AccountingStep ==
    TypeInv /\ Ownership /\ Accounting /\ [Next]_vars => Accounting'
<1> SUFFICES ASSUME TypeInv, Ownership, Accounting, [Next]_vars, ~closed' PROVE
      live' = Len(idle') + Cardinality(BusyThreads)'
  BY DEF Accounting
<1> USE DEF poolVars
<1>t. /\ live \in Int /\ Len(idle) \in Nat
      /\ \A u \in Threads : pc[u] \in PcStates
  BY LenProperties DEF TypeInv, TypeOK
<1>f. IsFiniteSet(BusyThreads) /\ Cardinality(BusyThreads) \in Nat
  BY FiniteAssumption, FS_Subset, FS_CardinalityType DEF BusyThreads
<1>c. ~closed /\ live = Len(idle) + Cardinality(BusyThreads)
  <2>1. ~closed
    <3>1. CASE UNCHANGED vars
      BY <3>1 DEF vars
    <3>2. CASE Next
      BY <3>2 DEF Next, AcquireStep, CloserStep, BeginAcquire, DeadlinePasses, AcquireClosed,
                  AcquireExpired, AcquireIdle, AcquireReserve, AcquireWait, WakeUp,
                  CreateSession, CreateFails, AdmitClosed, AdmitExpired, AdmitUnusable,
                  AdmitSession, Reject, BeginExecute, EndExchange, EndExecute, CloseHeld,
                  GiveBack, Release, ReleaseForgotten, ReleaseLeased, CloseAll, CloseAgain,
                  CloseNext, CloseDone
    <3> QED BY <3>1, <3>2
  <2> QED BY <2>1 DEF Accounting
\* The three ways in which a step may change who is busy.
<1>same. ASSUME \A u \in Threads : pc[u] \in Busy <=> pc'[u] \in Busy
         PROVE  Cardinality(BusyThreads)' = Cardinality(BusyThreads)
  <2>1. BusyThreads' = BusyThreads
    BY <1>same DEF BusyThreads
  <2> QED BY <2>1
<1>more. ASSUME NEW t \in Threads, pc[t] \notin Busy, pc'[t] \in Busy,
                \A u \in Threads \ {t} : pc[u] \in Busy <=> pc'[u] \in Busy
         PROVE  Cardinality(BusyThreads)' = Cardinality(BusyThreads) + 1
  <2>1. BusyThreads' = BusyThreads \cup {t} /\ t \notin BusyThreads
    BY <1>more DEF BusyThreads
  <2> QED BY <2>1, <1>f, FS_AddElement
<1>less. ASSUME NEW t \in Threads, pc[t] \in Busy, pc'[t] \notin Busy,
                \A u \in Threads \ {t} : pc[u] \in Busy <=> pc'[u] \in Busy
         PROVE  Cardinality(BusyThreads)' = Cardinality(BusyThreads) - 1
  <2>1. BusyThreads' = BusyThreads \ {t} /\ t \in BusyThreads
    BY <1>less DEF BusyThreads
  <2> QED BY <2>1, <1>f, FS_RemoveElement
<1>0. CASE UNCHANGED vars
  BY <1>0, <1>c, <1>same DEF vars
<1>1. ASSUME NEW t \in Threads,
             \/ BeginAcquire(t) \/ DeadlinePasses(t) \/ AcquireClosed(t) \/ AcquireExpired(t)
             \/ WakeUp(t) \/ CreateSession(t) \/ AdmitSession(t)
             \/ BeginExecute(t) \/ EndExchange(t) \/ CloseHeld(t)
      PROVE  live' = Len(idle') + Cardinality(BusyThreads)'
  <2>1. live' = live /\ idle' = idle
    BY <1>1 DEF BeginAcquire, DeadlinePasses, AcquireClosed, AcquireExpired, WakeUp,
                CreateSession, AdmitSession, BeginExecute, EndExchange, EndExecute, CloseHeld
  <2>2. \A u \in Threads : pc[u] \in Busy <=> pc'[u] \in Busy
    BY <1>1 DEF BeginAcquire, DeadlinePasses, AcquireClosed, AcquireExpired, Raise, WakeUp,
                CreateSession, AdmitSession, BeginExecute, EndExchange, EndExecute, CloseHeld,
                Busy, Holding, TypeInv, TypeOK
  <2> QED BY <2>1, <2>2, <1>c, <1>same
<1>2. ASSUME NEW t \in Threads, AcquireIdle(t)
      PROVE  live' = Len(idle') + Cardinality(BusyThreads)'
  <2>1. PICK k \in 1..Len(idle) :
           /\ PopsTo(k)
           /\ CloseAbove(k)
           /\ idle' = SubSeq(idle, 1, k - 1)
           /\ live' = live - (Len(idle) - k)
    BY <1>2 DEF AcquireIdle
  <2>2. k = Len(idle)
    BY <2>1, NothingDiscarded DEF TypeInv, Ownership
  <2>3. Len(idle') = Len(idle) - 1
    BY <2>1, <2>2, <1>t, SubSeqProperties DEF TypeInv, TypeOK
  <2>4. live' = live
    <3>1. live' = live - (k - k)
      BY <2>1, <2>2
    <3> QED BY <3>1, <2>2, <1>t
  <2>5. pc[t] = "enter" /\ pc' = [pc EXCEPT ![t] = "leased"]
    BY <1>2 DEF AcquireIdle, MayTake
  <2>6. Cardinality(BusyThreads)' = Cardinality(BusyThreads) + 1
    BY <2>5, <1>more DEF Busy, Holding, TypeInv, TypeOK
  <2> QED BY <2>3, <2>4, <2>6, <1>c, <1>f, <1>t
<1>3. ASSUME NEW t \in Threads, AcquireReserve(t) \/ AcquireWait(t)
      PROVE  live' = Len(idle') + Cardinality(BusyThreads)'
  <2>1. PopsTo(0) /\ CloseAbove(0) /\ idle' = <<>> /\ pc[t] = "enter"
    BY <1>3 DEF AcquireReserve, AcquireWait, MayTake
  <2>2. Len(idle) = 0 /\ Len(idle') = 0
    BY <2>1, NothingDiscarded, EmptySeq DEF TypeInv, Ownership
  <2>3. CASE AcquireReserve(t)
    <3>1. live' = live + 1
      BY <2>2, <2>3, <1>t DEF AcquireReserve
    <3>2. Cardinality(BusyThreads)' = Cardinality(BusyThreads) + 1
      BY <2>1, <2>3, <1>more DEF AcquireReserve, Busy, Holding, TypeInv, TypeOK
    <3> QED BY <2>2, <3>1, <3>2, <1>c, <1>f, <1>t
  <2>4. CASE AcquireWait(t)
    <3>1. live' = live
      BY <2>2, <2>4, <1>t DEF AcquireWait
    <3>2. Cardinality(BusyThreads)' = Cardinality(BusyThreads)
      BY <2>1, <2>4, <1>same DEF AcquireWait, Busy, Holding, TypeInv, TypeOK
    <3> QED BY <2>2, <3>1, <3>2, <1>c
  <2> QED BY <1>3, <2>3, <2>4
<1>4. ASSUME NEW t \in Threads,
             CreateFails(t) \/ AdmitClosed(t) \/ AdmitExpired(t) \/ AdmitUnusable(t)
      PROVE  live' = Len(idle') + Cardinality(BusyThreads)'
  <2>1. live' = live - 1 /\ idle' = idle
    BY <1>4 DEF CreateFails, AdmitClosed, AdmitExpired, AdmitUnusable, Reject
  <2>2. pc[t] \in Busy /\ pc' = [pc EXCEPT ![t] = "out"]
    BY <1>4 DEF CreateFails, AdmitClosed, AdmitExpired, AdmitUnusable, Reject, Raise,
                Busy, Holding
  <2>3. Cardinality(BusyThreads)' = Cardinality(BusyThreads) - 1
    BY <2>2, <1>less DEF Busy, Holding, TypeInv, TypeOK
  <2> QED BY <2>1, <2>3, <1>c, <1>f, <1>t
<1>5. ASSUME NEW t \in Threads, GiveBack(t)
      PROVE  live' = Len(idle') + Cardinality(BusyThreads)'
  <2>1. PICK reusable \in BOOLEAN : Release(t, reusable)
    BY <1>5 DEF GiveBack
  <2>2. pc[t] \in Busy /\ pc[t] \in Leasing /\ pc' = [pc EXCEPT ![t] = "out"]
    BY <2>1 DEF Release, Drop, HasLease, Busy, Holding, Leasing
  <2>3. Cardinality(BusyThreads)' = Cardinality(BusyThreads) - 1
    BY <2>2, <1>less DEF Busy, Holding, TypeInv, TypeOK
  <2>4. held[t] \in leased /\ held[t] \in Sessions
    BY <2>2, <1>c DEF Ownership, TypeInv, Leasing, Holding
  <2>5. ReleaseLeased(t, reusable)
    BY <2>1, <2>4 DEF Release, ReleaseForgotten
  <2>6. CASE idle' = Append(idle, held[t]) /\ live' = live
    <3>1. Len(idle') = Len(idle) + 1
      BY <2>4, <2>6, AppendProperties DEF TypeInv, TypeOK
    <3> QED BY <2>3, <2>6, <3>1, <1>c, <1>f, <1>t
  <2>7. CASE idle' = idle /\ live' = live - 1
    BY <2>3, <2>7, <1>c, <1>f, <1>t
  <2> QED BY <2>5, <2>6, <2>7 DEF ReleaseLeased
<1>6. ASSUME NEW c \in Closers, CloserStep(c)
      PROVE  live' = Len(idle') + Cardinality(BusyThreads)'
  <2>1. live' = live /\ idle' = idle /\ pc' = pc
    BY <1>6 DEF CloserStep, CloseAll, CloseAgain, CloseNext, CloseDone
  <2> QED BY <2>1, <1>c, <1>same
<1> QED
  BY <1>0, <1>1, <1>2, <1>3, <1>4, <1>5, <1>6 DEF Next, AcquireStep

\* Until the pool is closed, live counts exactly the connections it should.
THEOREM LiveIsExact == Spec => []Accounting
<1>1. Init => TypeInv /\ Ownership /\ Accounting
  <2>1. ASSUME Init PROVE Accounting
    <3>1. BusyThreads = {}
      BY <2>1 DEF Init, BusyThreads, Busy, Holding
    <3>2. Len(idle) = 0 /\ live = 0
      BY <2>1 DEF Init
    <3> QED BY <3>1, <3>2, FS_EmptySet DEF Accounting
  <2> QED BY <2>1, TypeInit, OwnershipInit
<1>2. TypeInv /\ Ownership /\ Accounting /\ [Next]_vars => (TypeInv /\ Ownership /\ Accounting)'
  BY TypeStep, OwnershipStep, AccountingStep
<1> QED BY <1>1, <1>2, PTL DEF Spec

-----------------------------------------------------------------------------
(* Nobody sleeps beside capacity, as long as nobody has a deadline. *)

WaitersWait == \A t \in waiters : pc[t] = "wait"

Wakeful == WaitersWait /\ NoStrandedWaiter

LEMMA WaitersStep == TypeInv /\ WaitersWait /\ [Next]_vars => WaitersWait'
<1> SUFFICES ASSUME TypeInv, WaitersWait, [Next]_vars PROVE WaitersWait'
  OBVIOUS
<1> USE DEF WaitersWait, TypeInv, TypeOK
<1>0. CASE UNCHANGED vars
  BY <1>0 DEF vars
<1>1. ASSUME NEW t \in Threads,
             \/ BeginAcquire(t) \/ DeadlinePasses(t) \/ AcquireClosed(t) \/ AcquireExpired(t)
             \/ AcquireIdle(t) \/ AcquireReserve(t) \/ CreateSession(t) \/ AdmitSession(t)
             \/ BeginExecute(t) \/ EndExchange(t) \/ CloseHeld(t) \/ AcquireWait(t) \/ WakeUp(t)
      PROVE  WaitersWait'
  BY <1>1 DEF BeginAcquire, DeadlinePasses, AcquireClosed, AcquireExpired, Raise, MayTake,
              AcquireIdle, AcquireReserve, CreateSession, AdmitSession, BeginExecute,
              EndExchange, EndExecute, CloseHeld, AcquireWait, WakeUp, poolVars
<1>2. ASSUME NEW t \in Threads,
             \/ CreateFails(t) \/ AdmitClosed(t) \/ AdmitExpired(t) \/ AdmitUnusable(t)
             \/ GiveBack(t)
      PROVE  WaitersWait'
  <2>1. pc[t] # "wait" /\ pc' = [pc EXCEPT ![t] = "out"] /\ waiters' \subseteq waiters
    BY <1>2 DEF CreateFails, AdmitClosed, AdmitExpired, AdmitUnusable, Reject, Raise, Notify,
                NotifyAll, GiveBack, Release, ReleaseForgotten, ReleaseLeased, Drop, HasLease,
                poolVars
  <2> QED BY <2>1
<1>3. ASSUME NEW c \in Closers, CloserStep(c) PROVE WaitersWait'
  <2>1. pc' = pc /\ waiters' \subseteq waiters
    BY <1>3 DEF CloserStep, CloseAll, CloseAgain, CloseNext, CloseDone, NotifyAll, poolVars
  <2> QED BY <2>1
<1> QED BY <1>0, <1>1, <1>2, <1>3 DEF Next, AcquireStep

(***************************************************************************)
(* Threads on their way may take one unit of capacity each.  A step that   *)
(* takes one is such a thread's own; one that frees some notifies, and     *)
(* without deadlines the thread it wakes was asleep until then.            *)
(***************************************************************************)
LEMMA WakefulStep ==
    ASSUME TimedThreads = {}
    PROVE  TypeInv /\ Ownership /\ Wakeful /\ [Next]_vars => NoStrandedWaiter'
<1> SUFFICES ASSUME TypeInv, Ownership, Wakeful, [Next]_vars, ~closed' PROVE NoStrandedWaiter'
  BY DEF NoStrandedWaiter
<1> DEFINE capacity == Len(idle) + (Max - live)
<1>t. /\ idle \in Seq(Sessions) /\ Len(idle) \in Nat /\ live \in Int /\ Max \in Nat
      /\ pc \in [Threads -> PcStates] /\ waiters \subseteq Threads /\ expired = {}
  BY LenProperties, MaxAssumption DEF TypeInv, TypeOK
<1>c. ~closed
  <2>1. CASE UNCHANGED vars
    BY <2>1 DEF vars
  <2>2. CASE Next
    BY <2>2 DEF Next, AcquireStep, CloserStep, BeginAcquire, DeadlinePasses, AcquireClosed,
                AcquireExpired, AcquireIdle, AcquireReserve, AcquireWait, WakeUp,
                CreateSession, CreateFails, AdmitClosed, AdmitExpired, AdmitUnusable,
                AdmitSession, Reject, BeginExecute, EndExchange, EndExecute, CloseHeld,
                GiveBack, Release, ReleaseForgotten, ReleaseLeased, CloseAll, CloseAgain,
                CloseNext, CloseDone, poolVars
  <2> QED BY <2>1, <2>2
<1>f. /\ IsFiniteSet(Awake) /\ Cardinality(Awake) \in Nat
      /\ IsFiniteSet(Awake') /\ Cardinality(Awake') \in Nat
  <2>1. Awake \subseteq Threads /\ Awake' \subseteq Threads
    BY DEF Awake
  <2> QED BY <2>1, FiniteAssumption, FS_Subset, FS_CardinalityType
<1>w. waiters # {} => capacity <= Cardinality(Awake)
  BY <1>c DEF Wakeful, NoStrandedWaiter
<1> USE DEF NoStrandedWaiter
\* The ways in which a step may change capacity and who is awake.
<1>keep. ASSUME waiters' \subseteq waiters, capacity' = capacity, Awake \subseteq Awake'
         PROVE  NoStrandedWaiter'
  <2>1. Cardinality(Awake) <= Cardinality(Awake')
    BY <1>keep, <1>f, FS_Subset
  <2> QED BY <1>keep, <1>t, <1>f, <1>w, <2>1
<1>take. ASSUME NEW t \in Awake, waiters' = waiters, capacity' = capacity - 1,
                Awake \ {t} \subseteq Awake'
         PROVE  NoStrandedWaiter'
  <2>1. IsFiniteSet(Awake \ {t}) /\ Cardinality(Awake \ {t}) = Cardinality(Awake) - 1
    BY <1>f, FS_RemoveElement
  <2>2. Cardinality(Awake \ {t}) <= Cardinality(Awake')
    BY <1>take, <1>f, FS_Subset
  <2> QED BY <1>take, <1>t, <1>f, <1>w, <2>1, <2>2
<1>free. ASSUME NEW t \in Threads, pc[t] \notin {"enter", "wait"}, pc' = [pc EXCEPT ![t] = "out"],
                Notify, capacity' = capacity + 1
         PROVE  NoStrandedWaiter'
  <2>1. CASE waiters' = {}
    BY <2>1
  <2>2. CASE waiters' # {}
    <3>1. PICK w \in waiters : waiters' = waiters \ {w}
      BY <1>free, <2>2 DEF Notify
    <3>2. pc[w] = "wait" /\ w # t
      BY <1>free, <3>1 DEF Wakeful, WaitersWait
    <3>3. w \notin Awake /\ Awake \cup {w} \subseteq Awake'
      BY <1>free, <1>t, <3>1, <3>2 DEF Awake
    <3>4. IsFiniteSet(Awake \cup {w}) /\ Cardinality(Awake \cup {w}) = Cardinality(Awake) + 1
      BY <1>f, <3>3, FS_AddElement
    <3>5. Cardinality(Awake \cup {w}) <= Cardinality(Awake')
      BY <1>f, <3>3, FS_Subset
    <3> QED BY <1>free, <1>t, <1>f, <1>w, <3>1, <3>4, <3>5
  <2> QED BY <2>1, <2>2
<1> HIDE DEF NoStrandedWaiter
<1>0. CASE UNCHANGED vars
  <2>1. waiters' = waiters /\ capacity' = capacity /\ Awake' = Awake
    BY <1>0 DEF vars, Awake
  <2> QED BY <2>1, <1>keep
<1>1. ASSUME NEW t \in Threads,
             \/ BeginAcquire(t) \/ CreateSession(t) \/ AdmitSession(t) \/ BeginExecute(t)
             \/ EndExchange(t) \/ CloseHeld(t) \/ WakeUp(t)
      PROVE  NoStrandedWaiter'
  <2>1. /\ live' = live /\ idle' = idle /\ waiters' \subseteq waiters
        /\ waiters' = waiters \ {t} \/ waiters' = waiters
        /\ \/ pc' = pc \/ pc' = [pc EXCEPT ![t] = "enter"]
           \/ pc[t] \notin {"enter", "wait"} /\ \E p : pc' = [pc EXCEPT ![t] = p]
    BY <1>1 DEF BeginAcquire, CreateSession, AdmitSession, BeginExecute, EndExchange,
                EndExecute, CloseHeld, WakeUp, poolVars
  <2>2. Awake \subseteq Awake'
    BY <1>t, <2>1 DEF Awake
  <2>3. capacity' = capacity
    BY <2>1
  <2> QED BY <2>1, <2>2, <2>3, <1>keep
<1>2. ASSUME NEW t \in Threads,
             \/ DeadlinePasses(t) \/ AcquireClosed(t) \/ AcquireExpired(t) \/ AdmitClosed(t)
             \/ AdmitExpired(t)
      PROVE  FALSE
  BY <1>2, <1>c, <1>t DEF DeadlinePasses, AcquireClosed, AcquireExpired, AdmitClosed,
     AdmitExpired
<1>3. ASSUME NEW t \in Threads, AcquireIdle(t) PROVE NoStrandedWaiter'
  <2>1. PICK k \in 1..Len(idle) :
           /\ PopsTo(k)
           /\ CloseAbove(k)
           /\ idle' = SubSeq(idle, 1, k - 1)
           /\ live' = live - (Len(idle) - k)
    BY <1>3 DEF AcquireIdle
  <2>2. k = Len(idle)
    BY <2>1, NothingDiscarded DEF TypeInv, Ownership
  <2>3. Len(idle') = Len(idle) - 1
    BY <2>1, <2>2, <1>t, SubSeqProperties
  <2>4. live' = live
    <3>1. live' = live - (k - k)
      BY <2>1, <2>2
    <3> QED BY <3>1, <2>2, <1>t
  <2>5. pc[t] = "enter" /\ pc' = [pc EXCEPT ![t] = "leased"] /\ waiters' = waiters
    BY <1>3 DEF AcquireIdle, MayTake
  <2>6. t \in Awake /\ Awake \ {t} \subseteq Awake'
    BY <1>t, <2>5 DEF Awake
  <2>7. capacity' = capacity - 1
    BY <1>t, <2>3, <2>4
  <2> QED BY <2>5, <2>6, <2>7, <1>take
<1>4. ASSUME NEW t \in Threads, AcquireReserve(t) \/ AcquireWait(t) PROVE NoStrandedWaiter'
  <2>1. PopsTo(0) /\ CloseAbove(0) /\ idle' = <<>> /\ pc[t] = "enter"
    BY <1>4 DEF AcquireReserve, AcquireWait, MayTake
  <2>2. Len(idle) = 0 /\ Len(idle') = 0
    BY <2>1, NothingDiscarded, EmptySeq DEF TypeInv, Ownership
  <2>3. CASE AcquireReserve(t)
    <3>1. live' = live + 1 /\ waiters' = waiters /\ pc' = [pc EXCEPT ![t] = "create"]
      BY <2>2, <2>3, <1>t DEF AcquireReserve
    <3>2. t \in Awake /\ Awake \ {t} \subseteq Awake'
      BY <1>t, <2>1, <3>1 DEF Awake
    <3>3. capacity' = capacity - 1
      BY <1>t, <2>2, <3>1
    <3> QED BY <3>1, <3>2, <3>3, <1>take
  <2>4. CASE AcquireWait(t)
    <3>1. live' = live /\ live >= Max
      BY <2>2, <2>4, <1>t DEF AcquireWait
    <3> QED BY <2>2, <3>1, <1>t, <1>f DEF NoStrandedWaiter
  <2> QED BY <1>4, <2>3, <2>4
<1>5. ASSUME NEW t \in Threads, CreateFails(t) \/ AdmitUnusable(t) PROVE NoStrandedWaiter'
  <2>1. /\ live' = live - 1 /\ idle' = idle /\ Notify
        /\ pc[t] \notin {"enter", "wait"} /\ pc' = [pc EXCEPT ![t] = "out"]
    BY <1>5 DEF CreateFails, AdmitUnusable, Reject, Raise
  <2>2. capacity' = capacity + 1
    BY <1>t, <2>1
  <2> QED BY <2>1, <2>2, <1>free
<1>6. ASSUME NEW t \in Threads, GiveBack(t) PROVE NoStrandedWaiter'
  <2>1. PICK reusable \in BOOLEAN : Release(t, reusable)
    BY <1>6 DEF GiveBack
  <2>2. pc[t] \in Leasing /\ pc' = [pc EXCEPT ![t] = "out"] /\ pc[t] \notin {"enter", "wait"}
    BY <2>1 DEF Release, Drop, HasLease, Leasing
  <2>3. held[t] \in leased /\ held[t] \in Sessions
    BY <2>2, <1>c DEF Ownership, TypeInv, Leasing, Holding
  <2>4. ReleaseLeased(t, reusable) /\ Notify
    BY <2>1, <2>3 DEF Release, ReleaseForgotten, ReleaseLeased
  <2>5. CASE idle' = Append(idle, held[t]) /\ live' = live
    <3>1. Len(idle') = Len(idle) + 1
      BY <2>3, <2>5, <1>t, AppendProperties
    <3>2. capacity' = capacity + 1
      BY <1>t, <2>5, <3>1
    <3> QED BY <2>2, <2>4, <3>2, <1>free
  <2>6. CASE idle' = idle /\ live' = live - 1
    <3>1. capacity' = capacity + 1
      BY <1>t, <2>6
    <3> QED BY <2>2, <2>4, <3>1, <1>free
  <2> QED BY <2>4, <2>5, <2>6 DEF ReleaseLeased
<1>7. ASSUME NEW c \in Closers, CloserStep(c) PROVE NoStrandedWaiter'
  <2>1. live' = live /\ idle' = idle /\ pc' = pc /\ waiters' = waiters
    BY <1>7 DEF CloserStep, CloseAll, CloseAgain, CloseNext, CloseDone, poolVars
  <2>2. capacity' = capacity /\ Awake' = Awake
    BY <2>1 DEF Awake
  <2> QED BY <2>1, <2>2, <1>keep
<1> QED
  BY <1>0, <1>1, <1>2, <1>3, <1>4, <1>5, <1>6, <1>7 DEF Next, AcquireStep

(***************************************************************************)
(* With callers that wait without a deadline no thread ever sleeps beside  *)
(* a connection it could have, however many threads and closers there are. *)
(***************************************************************************)
THEOREM NobodyIsStranded ==
    ASSUME TimedThreads = {}
    PROVE  Spec => []NoStrandedWaiter
<1>1. Init => TypeInv /\ Ownership /\ Wakeful
  BY TypeInit, OwnershipInit DEF Init, Wakeful, WaitersWait, NoStrandedWaiter
<1>2. TypeInv /\ Ownership /\ Wakeful /\ [Next]_vars => (TypeInv /\ Ownership /\ Wakeful)'
  BY TypeStep, OwnershipStep, WaitersStep, WakefulStep DEF Wakeful
<1>3. Wakeful => NoStrandedWaiter
  BY DEF Wakeful
<1> QED BY <1>1, <1>2, <1>3, PTL DEF Spec

-----------------------------------------------------------------------------
(***************************************************************************)
(* ConnectionPool implements PoolPromise.  The steps that matter rest on   *)
(* the invariants above: a session is with one thread at most (Ownership), *)
(* acquire never discards one (IdleHealthy), and there is room for a       *)
(* connection being opened (Slots).                                        *)
(***************************************************************************)

\* The promise counts as the pool does.
LEMMA SameCardinality ==
    ASSUME NEW S PROVE Promise!Cardinality(S) = Cardinality(S)
BY DEF Promise!Cardinality, Cardinality

PoolInv == TypeInv /\ Ownership /\ Slots

\* What the threads have is not touched by a step that moves no thread into,
\* out of or within the points where it has a lease.
LEMMA LeasesStill ==
    ASSUME \A t \in Threads :
              /\ pc[t] \in Lent <=> pc'[t] \in Lent
              /\ pc[t] = "executing" <=> pc'[t] = "executing"
              /\ pc[t] \in Lent => held'[t] = held[t]
    PROVE  Lease' = Lease /\ Using' = Using
BY DEF Lease, Using

\* A session that no thread has in hand is lent to nobody; one that t has in
\* hand is lent to nobody else.
LEMMA NotLent ==
    ASSUME NEW s \in Sessions, \A t \in Threads : held[t] # s
    PROVE  Promise!Free(s)
BY NoSessionAssumption DEF Promise!Free, Lease

LEMMA OthersHaveNot ==
    ASSUME Ownership, NEW t \in Threads, held[t] \in Sessions, NEW u \in Threads, u # t
    PROVE  Lease[u] # held[t]
BY NoSessionAssumption DEF Ownership, ExclusiveLease, Lease

LEMMA LeaseOfHolder ==
    ASSUME TypeInv, NEW t \in Threads, pc[t] \in Lent
    PROVE  Lease[t] = held[t] /\ held[t] \in Sessions /\ Lease[t] # NoSession
BY NoSessionAssumption DEF TypeInv, Holding, Lent, Lease

-----------------------------------------------------------------------------
\* The factory's session is a new connection, and within the bound.
LEMMA CreateIsOpen ==
    ASSUME PoolInv, NEW t \in Threads, CreateSession(t)
    PROVE  \E s \in Sessions : Promise!Open(s)
<1>1. PICK s \in Sessions, product \in FactoryProducts :
         Fresh(s) /\ status' = [status EXCEPT ![s] = product] /\ held' = [held EXCEPT ![t] = s]
  BY DEF CreateSession
<1>2. Promise!Free(s) /\ status[s] = "closed"
  BY <1>1, NotLent DEF Fresh
<1>3. Cardinality(OpenSessions) < Max
  <2>1. IsFiniteSet(Creating) /\ t \in Creating
    BY CreatingFinite DEF CreateSession, Creating
  <2>2. Cardinality(Creating) \in Nat /\ Cardinality(Creating) # 0
    BY <2>1, FS_CardinalityType, FS_EmptySet
  <2>3. /\ IsFiniteSet(OpenSessions) /\ IsFiniteSet(InUse)
        /\ Cardinality(OpenSessions) <= Cardinality(InUse)
    BY FS_Subset DEF PoolInv, Slots, InUse
  <2>4. Cardinality(OpenSessions) \in Nat /\ Cardinality(InUse) \in Nat
    BY <2>3, FS_CardinalityType
  <2> QED BY <2>2, <2>3, <2>4, MaxAssumption DEF PoolInv, Slots
<1>4. Lease' = Lease /\ Using' = Using /\ closed' = closed
  BY <1>1, LeasesStill DEF CreateSession, PoolInv, TypeInv, TypeOK, Lent, poolVars
<1>5. \E p \in {"open", "spent"} : status' = [status EXCEPT ![s] = p]
  BY <1>1, ProductsAssumption
<1>6. Promise!Cardinality(Promise!Connections) < Max
  BY <1>3, SameCardinality DEF Promise!Connections, OpenSessions
<1>7. Promise!Open(s)
  BY <1>2, <1>4, <1>5, <1>6 DEF Promise!Open
<1> QED BY <1>7

\* A session from the idle stack is usable, and nobody has it.
LEMMA IdleIsLent ==
    ASSUME PoolInv, NEW t \in Threads, AcquireIdle(t)
    PROVE  \E s \in Sessions : Promise!Lend(t, s)
<1>1. PICK k \in 1..Len(idle) :
         PopsTo(k) /\ CloseAbove(k) /\ held' = [held EXCEPT ![t] = idle[k]]
  BY DEF AcquireIdle
<1>2. status' = status
  BY <1>1, NothingDiscarded DEF PoolInv, TypeInv, Ownership
<1>3. idle[k] \in Sessions /\ InSeq(idle[k], idle)
  BY ElementOfSeq DEF PoolInv, TypeInv, TypeOK, InSeq
<1>4. Promise!Free(idle[k]) /\ status[idle[k]] = "open"
  BY <1>3, NotLent DEF PoolInv, Ownership, ExclusiveLease, IdleHealthy, Usable
<1>5. ~closed /\ closed' = closed /\ pc[t] = "enter" /\ pc' = [pc EXCEPT ![t] = "leased"]
  BY DEF AcquireIdle, MayTake
<1>6. Lease[t] = NoSession /\ Lease' = [Lease EXCEPT ![t] = idle[k]] /\ Using' = Using
  BY <1>1, <1>5 DEF Lease, Using, Lent, PoolInv, TypeInv, TypeOK
<1>7. Promise!Lend(t, idle[k])
  BY <1>2, <1>4, <1>5, <1>6 DEF Promise!Lend
<1> QED BY <1>3, <1>7

LEMMA AdmittedIsLent ==
    ASSUME PoolInv, NEW t \in Threads, AdmitSession(t)
    PROVE  \E s \in Sessions : Promise!Lend(t, s)
<1>1. held[t] \in Sessions /\ pc[t] = "created" /\ pc' = [pc EXCEPT ![t] = "leased"]
  BY DEF AdmitSession, PoolInv, TypeInv, Holding
<1>2. Lease[t] = NoSession /\ Lease' = [Lease EXCEPT ![t] = held[t]] /\ Using' = Using
  BY <1>1 DEF AdmitSession, Lease, Using, Lent, PoolInv, TypeInv, TypeOK
<1>3. Promise!Free(held[t])
  BY <1>1, <1>2, OthersHaveNot, NoSessionAssumption DEF Promise!Free, PoolInv
<1>4. Promise!Lend(t, held[t])
  BY <1>2, <1>3 DEF Promise!Lend, AdmitSession, Usable
<1> QED BY <1>1, <1>4

\* A created session that is given up was lent to nobody.
LEMMA RejectIsShut ==
    ASSUME PoolInv, NEW t \in Threads, AdmitClosed(t) \/ AdmitExpired(t) \/ AdmitUnusable(t)
    PROVE  \E s \in Sessions : Promise!Shut(s)
<1>1. held[t] \in Sessions /\ pc[t] = "created" /\ pc' = [pc EXCEPT ![t] = "out"]
  BY DEF AdmitClosed, AdmitExpired, AdmitUnusable, Reject, Raise, PoolInv, TypeInv, Holding
<1>2. /\ status' = [status EXCEPT ![held[t]] = "closed"]
      /\ held' = [held EXCEPT ![t] = NoSession] /\ closed' = closed
  BY DEF AdmitClosed, AdmitExpired, AdmitUnusable, Reject
<1>3. Lease' = Lease /\ Using' = Using
  BY <1>1, <1>2, LeasesStill DEF PoolInv, TypeInv, TypeOK, Lent
<1>4. \A u \in Using : Lease[u] # held[t]
  BY <1>1, OthersHaveNot DEF Using, PoolInv
<1>5. Promise!Shut(held[t])
  BY <1>2, <1>3, <1>4 DEF Promise!Shut
<1> QED BY <1>1, <1>5

\* close_all closes no session that a thread is using: it waits for it.
LEMMA CloseNextIsShut ==
    ASSUME PoolInv, NEW c \in Closers, CloseNext(c)
    PROVE  \E s \in Sessions : Promise!Shut(s)
<1>1. Head(pending[c]) \in Sessions
  BY HeadTailProperties DEF CloseNext, PoolInv, TypeInv, TypeOK
<1>2. \A t \in Using : Lease[t] # Head(pending[c])
  BY DEF CloseNext, Using, Lease, Lent
<1>3. Lease' = Lease /\ Using' = Using
  BY LeasesStill DEF CloseNext
<1>4. Promise!Shut(Head(pending[c]))
  BY <1>2, <1>3 DEF Promise!Shut, CloseNext, poolVars
<1> QED BY <1>1, <1>4

-----------------------------------------------------------------------------
(* What a thread does with its lease. *)

LEMMA ExchangeBegins ==
    ASSUME PoolInv, NEW t \in Threads, BeginExecute(t) PROVE Promise!Begin(t)
<1>1. Lease[t] = held[t] /\ Lease[t] # NoSession /\ t \notin Using
  BY LeaseOfHolder DEF BeginExecute, Lent, Using, PoolInv
<1>2. Lease' = Lease /\ Using' = Using \cup {t}
  BY DEF BeginExecute, Lease, Using, Lent, PoolInv, TypeInv, TypeOK
<1> QED BY <1>1, <1>2 DEF Promise!Begin, BeginExecute, Usable, poolVars

LEMMA ExchangeEnds ==
    ASSUME PoolInv, NEW t \in Threads, EndExchange(t) PROVE Promise!End(t)
<1>1. PICK outcome \in {"open", "spent"} : EndExecute(t, outcome)
  BY DEF EndExchange
<1>2. Lease[t] = held[t] /\ t \in Using
  BY <1>1, LeaseOfHolder DEF EndExecute, Lent, Using, PoolInv
<1>3. Lease' = Lease /\ Using' = Using \ {t}
  BY <1>1 DEF EndExecute, Lease, Using, Lent, PoolInv, TypeInv, TypeOK
<1> QED BY <1>1, <1>2, <1>3 DEF Promise!End, EndExecute, poolVars

LEMMA HolderShuts ==
    ASSUME PoolInv, NEW t \in Threads, CloseHeld(t)
    PROVE  \E s \in Sessions : Promise!Shut(s)
<1>1. held[t] \in Sessions
  BY DEF CloseHeld, HasLease, PoolInv, TypeInv, Holding
<1>2. \A u \in Using : Lease[u] # held[t]
  BY <1>1, OthersHaveNot DEF CloseHeld, HasLease, Using, PoolInv
<1>3. Lease' = Lease /\ Using' = Using
  BY LeasesStill DEF CloseHeld
<1>4. Promise!Shut(held[t])
  BY <1>2, <1>3 DEF Promise!Shut, CloseHeld, poolVars
<1> QED BY <1>1, <1>4

\* A spent session that is given back is closed then and there.  A release the
\* pool ignores is one of a closed pool, whose closer has the session.
LEMMA LeaseReturns ==
    ASSUME PoolInv, NEW t \in Threads, GiveBack(t) PROVE Promise!Return(t)
<1>1. PICK reusable \in BOOLEAN : Release(t, reusable)
  BY DEF GiveBack
<1>2. Lease[t] = held[t] /\ held[t] \in Sessions /\ Lease[t] # NoSession /\ t \notin Using
  BY <1>1, LeaseOfHolder DEF Release, HasLease, Lent, Using, PoolInv
<1>3. Lease' = [Lease EXCEPT ![t] = NoSession] /\ Using' = Using
  BY <1>1 DEF Release, Drop, HasLease, Lease, Using, Lent, PoolInv, TypeInv, TypeOK
<1>4. closed' = closed
  BY <1>1 DEF Release, ReleaseForgotten, ReleaseLeased, poolVars
<1>5. status' \in {status, [status EXCEPT ![held[t]] = "closed"]}
  BY <1>1 DEF Release, ReleaseForgotten, ReleaseLeased
<1>6. ASSUME ~closed PROVE status'[held[t]] # "spent"
  <2>1. held[t] \in leased
    BY <1>1, <1>6 DEF Release, HasLease, PoolInv, Ownership, Leasing
  <2> QED BY <1>1, <1>2, <2>1 DEF Release, ReleaseForgotten, ReleaseLeased, Usable,
             PoolInv, TypeInv, TypeOK
<1> QED BY <1>2, <1>3, <1>4, <1>5, <1>6 DEF Promise!Return

-----------------------------------------------------------------------------
LEMMA InitKeepsPromise == Init => Promise!PromiseInit
BY DEF Init, Promise!PromiseInit, Lease, Using, Lent

\* Every step of the pool is a step of the promise, or changes nothing in it.
LEMMA StepKeepsPromise ==
    PoolInv /\ [Next]_vars => [Promise!PromiseNext]_Promise!promiseVars
<1> SUFFICES ASSUME PoolInv, [Next]_vars
             PROVE  Promise!PromiseNext \/ UNCHANGED Promise!promiseVars
  OBVIOUS
<1>0. CASE UNCHANGED vars
  BY <1>0 DEF vars, Promise!promiseVars, Lease, Using
<1>1. ASSUME NEW t \in Threads,
             BeginAcquire(t) \/ DeadlinePasses(t) \/ AcquireClosed(t) \/ AcquireExpired(t)
                \/ WakeUp(t) \/ CreateFails(t)
      PROVE  UNCHANGED Promise!promiseVars
  <2>1. UNCHANGED <<held, status, closed>>
    BY <1>1 DEF BeginAcquire, DeadlinePasses, AcquireClosed, AcquireExpired, WakeUp,
                CreateFails, poolVars
  <2>2. Lease' = Lease /\ Using' = Using
    BY <1>1, <2>1, LeasesStill
       DEF BeginAcquire, DeadlinePasses, AcquireClosed, AcquireExpired, WakeUp, CreateFails,
           Raise, PoolInv, TypeInv, TypeOK, Lent, Acquiring
  <2> QED BY <2>1, <2>2 DEF Promise!promiseVars
<1>2. ASSUME NEW t \in Threads, AcquireReserve(t) \/ AcquireWait(t)
      PROVE  UNCHANGED Promise!promiseVars
  <2>1. status' = status
    BY <1>2, NothingDiscarded DEF AcquireReserve, AcquireWait, PoolInv, TypeInv, Ownership
  <2>2. Lease' = Lease /\ Using' = Using /\ closed' = closed
    BY <1>2, LeasesStill DEF AcquireReserve, AcquireWait, MayTake, PoolInv, TypeInv, TypeOK, Lent
  <2> QED BY <2>1, <2>2 DEF Promise!promiseVars
<1>3. ASSUME NEW t \in Threads, AcquireIdle(t) \/ AdmitSession(t) PROVE Promise!PromiseNext
  BY <1>3, IdleIsLent, AdmittedIsLent DEF Promise!PromiseNext
<1>4. ASSUME NEW t \in Threads, CreateSession(t) PROVE Promise!PromiseNext
  BY <1>4, CreateIsOpen DEF Promise!PromiseNext
<1>5. ASSUME NEW t \in Threads,
             AdmitClosed(t) \/ AdmitExpired(t) \/ AdmitUnusable(t) \/ CloseHeld(t)
      PROVE  Promise!PromiseNext
  BY <1>5, RejectIsShut, HolderShuts DEF Promise!PromiseNext
<1>6. ASSUME NEW t \in Threads, BeginExecute(t) \/ EndExchange(t) \/ GiveBack(t)
      PROVE  Promise!PromiseNext
  BY <1>6, ExchangeBegins, ExchangeEnds, LeaseReturns DEF Promise!PromiseNext
<1>7. ASSUME NEW c \in Closers, CloseAll(c) PROVE Promise!PromiseNext
  BY <1>7 DEF CloseAll, Promise!PromiseNext, Promise!Close, Lease, Using
<1>8. ASSUME NEW c \in Closers, CloseNext(c) PROVE Promise!PromiseNext
  BY <1>8, CloseNextIsShut DEF Promise!PromiseNext
<1>9. ASSUME NEW c \in Closers, CloseAgain(c) \/ CloseDone(c)
      PROVE  UNCHANGED Promise!promiseVars
  BY <1>9 DEF CloseAgain, CloseDone, poolVars, Promise!promiseVars, Lease, Using
<1> QED
  BY <1>0, <1>1, <1>2, <1>3, <1>4, <1>5, <1>6, <1>7, <1>8, <1>9
     DEF Next, AcquireStep, CloserStep

(***************************************************************************)
(* Whatever the number of threads and connections, and with deadlines,     *)
(* failures and closers at any moment, the users of the pool see nothing   *)
(* but what PoolPromise allows.                                            *)
(***************************************************************************)
THEOREM PoolKeepsPromise == Spec => KeepsPromise
<1>1. Init => PoolInv
  BY TypeInit, OwnershipInit, SlotsInit DEF PoolInv
<1>2. PoolInv /\ [Next]_vars => PoolInv'
  BY TypeStep, OwnershipStep, SlotsStep DEF PoolInv
<1> QED
  BY <1>1, <1>2, InitKeepsPromise, StepKeepsPromise, PTL
     DEF Spec, KeepsPromise, Promise!PromiseSpec
=============================================================================
