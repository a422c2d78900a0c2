------------------------- MODULE SeqRecursionProofs -------------------------
(***************************************************************************)
(* Induction along an interval of natural numbers, from the fact that a    *)
(* set of natural numbers has a least element, and what follows by it for  *)
(* the functions of SeqRecursion.                                          *)
(***************************************************************************)
EXTENDS SeqRecursion, SequenceTheorems, WellFoundedInduction, TLAPS

\* A set of natural numbers has a least element.
LEMMA LeastElement ==
    ASSUME NEW S, S \subseteq Nat, S # {}
    PROVE  \E x \in S : \A y \in S : x <= y
<1> DEFINE R == OpToRel(<, Nat)
<1>1. IsWellFoundedOn(R, Nat)
  BY NatLessThanWellFounded
<1>2. \A x, y \in Nat : x < y => <<x, y>> \in R
  BY DEF OpToRel
<1> HIDE DEF R
<1>3. PICK x \in S : \A y \in S : <<y, x>> \notin R
  BY <1>1, WFMin
<1>4. \A y \in S : ~(y < x)
  BY <1>2, <1>3, Zenon
<1> QED BY <1>4

\* What holds of 0 and goes from each number to the next holds up to m.
LEMMA Induction ==
    ASSUME NEW P, NEW m \in Nat, 0 \in P, \A n \in 1..m : n - 1 \in P => n \in P
    PROVE  \A n \in 0..m : n \in P
<1> DEFINE Bad == {n \in 0..m : n \notin P}
<1> SUFFICES ASSUME Bad # {} PROVE FALSE
  OBVIOUS
<1>0. Bad \subseteq Nat
  OBVIOUS
<1>1. PICK b \in Bad : \A n \in Bad : b <= n
  <2> HIDE DEF Bad
  <2> QED BY <1>0, LeastElement
<1>2. b \in 1..m /\ b - 1 \notin Bad /\ b - 1 \in 0..m
  BY <1>1
<1> QED BY <1>1, <1>2

Recursion(f, m, S, a, g) ==
    /\ f \in [0..m -> S]
    /\ f[0] = a
    /\ \A n \in 1..m : f[n] = g[n][f[n - 1]]

\* There is a function that starts with a and goes on as g says.
LEMMA RecursiveFunction ==
    ASSUME NEW S, NEW a \in S, NEW m \in Nat, NEW g \in [1..m -> [S -> S]]
    PROVE  \E f : Recursion(f, m, S, a, g)
<1> DEFINE Upto(k, f) == Recursion(f, k, S, a, g)
           P == {k \in 0..m : \E f : Upto(k, f)}
<1>1. 0 \in P
  <2>1. Upto(0, [n \in 0..0 |-> a])
    BY DEF Recursion
  <2> HIDE DEF Upto
  <2> QED BY <2>1
<1>2. ASSUME NEW k \in 1..m, k - 1 \in P PROVE k \in P
  <2>1. PICK f : Upto(k - 1, f)
    BY <1>2
  <2> DEFINE h == [n \in 0..k |-> IF n = k THEN g[k][f[k - 1]] ELSE f[n]]
  <2>2. f[k - 1] \in S
    BY <2>1 DEF Recursion
  <2>3. h \in [0..k -> S] /\ h[0] = a
    BY <2>1, <2>2 DEF Recursion
  <2>4. ASSUME NEW n \in 1..k PROVE h[n] = g[n][h[n - 1]]
    <3>1. h[n - 1] = f[n - 1]
      OBVIOUS
    <3>2. CASE n = k
      <4>1. h[k] = g[k][f[k - 1]]
        OBVIOUS
      <4> HIDE DEF h
      <4> QED BY <3>1, <3>2, <4>1
    <3>3. CASE n # k
      <4>1. n \in 1..(k - 1) /\ h[n] = f[n]
        BY <3>3
      <4> QED BY <2>1, <3>1, <4>1 DEF Recursion
    <3> QED BY <3>2, <3>3
  <2>5. Upto(k, h)
    BY <2>3, <2>4 DEF Recursion
  <2> HIDE DEF h, Upto
  <2> QED BY <2>5
<1> HIDE DEF P
<1>3. \A k \in 0..m : k \in P
  BY <1>1, <1>2, Induction
<1>4. m \in P
  BY <1>3
<1> QED BY <1>4 DEF P

Same(f, h, m) == \A n \in 0..m : f[n] = h[n]

\* Two functions that start alike and go on alike are alike.
LEMMA Alike ==
    ASSUME NEW f, NEW h, NEW m \in Nat, f[0] = h[0],
           \A n \in 1..m : f[n - 1] = h[n - 1] => f[n] = h[n]
    PROVE  Same(f, h, m)
<1> DEFINE P == {n \in 0..m : f[n] = h[n]}
<1>1. 0 \in P /\ \A n \in 1..m : n - 1 \in P => n \in P
  OBVIOUS
<1> HIDE DEF P
<1>2. \A n \in 0..m : n \in P
  BY <1>1, Induction
<1> QED BY <1>2 DEF P, Same

-----------------------------------------------------------------------------
(* Selected *)

\* f[n] is what is selected from the first n elements of q, n at most m.
IsSelection(f, q, K, m) ==
    /\ f[0] = <<>>
    /\ \A n \in 1..m : f[n] = IF n \in K THEN Append(f[n - 1], q[n]) ELSE f[n - 1]

AgreeOn(q, r, K, M, m) == \A n \in 1..m : q[n] = r[n] /\ (n \in K <=> n \in M)

\* Selections from two sequences that are alike up to m are alike up to m.
LEMMA SelectionAlike ==
    ASSUME NEW q, NEW r, NEW m \in Nat, NEW K, NEW M, NEW f, NEW h,
           AgreeOn(q, r, K, M, m),
           IsSelection(f, q, K, m), IsSelection(h, r, M, m)
    PROVE  Same(f, h, m)
<1>1. f[0] = h[0]
  BY DEF IsSelection
<1>2. ASSUME NEW n \in 1..m, f[n - 1] = h[n - 1] PROVE f[n] = h[n]
  BY <1>2 DEF IsSelection, AgreeOn
<1>3. m \in Nat
  OBVIOUS
<1> QED BY ONLY <1>1, <1>2, <1>3, Alike

\* The recursive definition has the values one expects.
LEMMA SelectedValue ==
    ASSUME NEW S, NEW q \in Seq(S), NEW K
    PROVE  \E f \in [0..Len(q) -> Seq(S)] : IsSelection(f, q, K, Len(q)) /\ Selected(q, K) = f[Len(q)]
<1>1. PICK L \in Nat : L = Len(q)
  BY LenProperties
<1>2. \A n \in 1..L : q[n] \in S
  BY <1>1, ElementOfSeq
<1> DEFINE g == [n \in 1..L |-> [s \in Seq(S) |-> IF n \in K THEN Append(s, q[n]) ELSE s]]
<1>3. g \in [1..L -> [Seq(S) -> Seq(S)]]
  <2> SUFFICES ASSUME NEW n \in 1..L, NEW s \in Seq(S)
               PROVE  (IF n \in K THEN Append(s, q[n]) ELSE s) \in Seq(S)
    OBVIOUS
  <2> QED BY <1>2, AppendProperties
<1>4. \A n \in 1..L, s \in Seq(S) : g[n][s] = IF n \in K THEN Append(s, q[n]) ELSE s
  OBVIOUS
<1> HIDE DEF g
<1>5. \E f : Recursion(f, L, Seq(S), <<>>, g)
  BY <1>3, EmptySeq, RecursiveFunction
<1>6. PICK f \in [0..L -> Seq(S)] : f[0] = <<>> /\ \A n \in 1..L : f[n] = g[n][f[n - 1]]
  BY <1>5 DEF Recursion
<1>7. IsSelection(f, q, K, L)
  <2>1. \A n \in 1..L : f[n - 1] \in Seq(S)
    OBVIOUS
  <2> QED BY <1>1, <1>4, <1>6, <2>1 DEF IsSelection
<1> DEFINE Equation(h) == h = [n \in 0..Len(q) |->
                          IF n = 0 THEN <<>>
                          ELSE IF n \in K THEN Append(h[n - 1], q[n]) ELSE h[n - 1]]
<1>8. Equation(f)
  <2>1. ASSUME NEW n \in 0..L
        PROVE  f[n] = IF n = 0 THEN <<>>
                      ELSE IF n \in K THEN Append(f[n - 1], q[n]) ELSE f[n - 1]
    <3>1. n = 0 \/ n \in 1..L
      OBVIOUS
    <3> QED BY <1>1, <1>7, <3>1 DEF IsSelection
  <2> QED BY <1>1, <2>1
<1>9. Equation(CHOOSE h : Equation(h))
  BY <1>8
<1>10. Selected(q, K) = (CHOOSE h : Equation(h))[L]
  BY <1>1 DEF Selected
<1>11. ASSUME NEW h, Equation(h) PROVE h[L] = f[L]
  <2>1. h[0] = <<>>
    BY <1>1, <1>11
  <2>2. ASSUME NEW n \in 1..L
        PROVE  h[n] = IF n \in K THEN Append(h[n - 1], q[n]) ELSE h[n - 1]
    <3>1. n \in 0..L /\ n # 0
      OBVIOUS
    <3> QED BY <1>1, <1>11, <3>1
  <2>3. IsSelection(h, q, K, L)
    BY <1>1, <2>1, <2>2 DEF IsSelection
  <2>4. Same(h, f, L)
    BY <1>7, <2>3, SelectionAlike DEF AgreeOn
  <2> QED BY <2>4 DEF Same
<1> HIDE DEF Equation
<1>12. Selected(q, K) = f[L]
  BY <1>9, <1>10, <1>11
<1> QED BY <1>1, <1>7, <1>12

LEMMA SelectedEmpty == ASSUME NEW K PROVE Selected(<<>>, K) = <<>>
<1>1. <<>> \in Seq({}) /\ Len(<<>>) = 0
  BY EmptySeq
<1>2. PICK f \in [0..Len(<<>>) -> Seq({})] :
         IsSelection(f, <<>>, K, Len(<<>>)) /\ Selected(<<>>, K) = f[Len(<<>>)]
  BY <1>1, SelectedValue
<1> QED BY <1>1, <1>2 DEF IsSelection

LEMMA SelectedIsSeq ==
    ASSUME NEW S, NEW q \in Seq(S), NEW K
    PROVE  Selected(q, K) \in Seq(S)
<1>1. PICK f \in [0..Len(q) -> Seq(S)] : Selected(q, K) = f[Len(q)]
  BY SelectedValue
<1>2. Len(q) \in Nat
  BY LenProperties
<1> QED BY <1>1, <1>2

\* One more element is one more selected or is not.
LEMMA SelectedAppend ==
    ASSUME NEW S, NEW s \in Seq(S), NEW x \in S, NEW K, NEW M,
           \A n \in 1..Len(s) : n \in K <=> n \in M
    PROVE  Selected(Append(s, x), M)
             = IF Len(s) + 1 \in M THEN Append(Selected(s, K), x) ELSE Selected(s, K)
<1> DEFINE r == Append(s, x)
<1>1. /\ Len(s) \in Nat /\ r \in Seq(S) /\ Len(r) = Len(s) + 1
      /\ \A n \in 1..Len(s) : r[n] = s[n]
      /\ r[Len(s) + 1] = x
  BY LenProperties, AppendProperties
<1> HIDE DEF r
<1>2. PICK f \in [0..Len(s) -> Seq(S)] : IsSelection(f, s, K, Len(s)) /\ Selected(s, K) = f[Len(s)]
  BY SelectedValue
<1>3. PICK h \in [0..Len(r) -> Seq(S)] : IsSelection(h, r, M, Len(r)) /\ Selected(r, M) = h[Len(r)]
  BY <1>1, SelectedValue
<1>4. \A n \in 0..Len(s) : f[n] = h[n]
  <2>1. IsSelection(h, r, M, Len(s))
    BY <1>1, <1>3 DEF IsSelection
  <2>2. AgreeOn(s, r, K, M, Len(s))
    BY <1>1 DEF AgreeOn
  <2>3. Same(f, h, Len(s))
    BY <1>1, <1>2, <2>1, <2>2, SelectionAlike
  <2> QED BY <2>3 DEF Same
<1>5. h[Len(s) + 1] = IF Len(s) + 1 \in M THEN Append(h[Len(s)], x) ELSE h[Len(s)]
  <2>1. Len(s) + 1 \in 1..Len(r) /\ (Len(s) + 1) - 1 = Len(s)
    BY <1>1
  <2> QED BY <1>1, <1>3, <2>1 DEF IsSelection
<1>6. Selected(r, M) = IF Len(s) + 1 \in M THEN Append(Selected(s, K), x) ELSE Selected(s, K)
  BY <1>1, <1>2, <1>3, <1>4, <1>5
<1> QED BY <1>6 DEF r

-----------------------------------------------------------------------------
(* Total *)

IsTotal(f, q, m) ==
    /\ f[0] = 0
    /\ \A n \in 1..m : f[n] = f[n - 1] + q[n]

LEMMA TotalAlike ==
    ASSUME NEW q, NEW r, NEW m \in Nat, NEW f, NEW h,
           AgreeOn(q, r, {}, {}, m), IsTotal(f, q, m), IsTotal(h, r, m)
    PROVE  Same(f, h, m)
<1>1. f[0] = h[0]
  BY DEF IsTotal
<1>2. ASSUME NEW n \in 1..m, f[n - 1] = h[n - 1] PROVE f[n] = h[n]
  BY <1>2 DEF IsTotal, AgreeOn
<1>3. m \in Nat
  OBVIOUS
<1> QED BY ONLY <1>1, <1>2, <1>3, Alike

LEMMA TotalValue ==
    ASSUME NEW q \in Seq(Nat)
    PROVE  \E f \in [0..Len(q) -> Nat] : IsTotal(f, q, Len(q)) /\ Total(q) = f[Len(q)]
<1>1. PICK L \in Nat : L = Len(q)
  BY LenProperties
<1>2. \A n \in 1..L : q[n] \in Nat
  BY <1>1, ElementOfSeq
<1> DEFINE g == [n \in 1..L |-> [s \in Nat |-> s + q[n]]]
<1>3. g \in [1..L -> [Nat -> Nat]] /\ \A n \in 1..L, s \in Nat : g[n][s] = s + q[n]
  BY <1>2
<1> HIDE DEF g
<1>4. PICK f \in [0..L -> Nat] : f[0] = 0 /\ \A n \in 1..L : f[n] = g[n][f[n - 1]]
  <2>1. \E f : Recursion(f, L, Nat, 0, g)
    BY <1>3, RecursiveFunction
  <2> QED BY <2>1 DEF Recursion
<1>5. IsTotal(f, q, L)
  <2>1. \A n \in 1..L : f[n - 1] \in Nat
    OBVIOUS
  <2> QED BY <1>1, <1>3, <1>4, <2>1 DEF IsTotal
<1> DEFINE Equation(h) == h = [n \in 0..Len(q) |-> IF n = 0 THEN 0 ELSE h[n - 1] + q[n]]
<1>6. Equation(f)
  <2>1. ASSUME NEW n \in 0..L PROVE f[n] = IF n = 0 THEN 0 ELSE f[n - 1] + q[n]
    <3>1. n = 0 \/ n \in 1..L
      OBVIOUS
    <3> QED BY <1>1, <1>5, <3>1 DEF IsTotal
  <2> QED BY <1>1, <2>1
<1>7. Equation(CHOOSE h : Equation(h))
  BY <1>6
<1>8. Total(q) = (CHOOSE h : Equation(h))[L]
  BY <1>1 DEF Total
<1>9. ASSUME NEW h, Equation(h) PROVE h[L] = f[L]
  <2>1. h[0] = 0
    BY <1>1, <1>9
  <2>2. ASSUME NEW n \in 1..L PROVE h[n] = h[n - 1] + q[n]
    <3>1. n \in 0..L /\ n # 0
      OBVIOUS
    <3> QED BY <1>1, <1>9, <3>1
  <2>3. IsTotal(h, q, L)
    BY <1>1, <2>1, <2>2 DEF IsTotal
  <2>4. Same(h, f, L)
    BY <1>5, <2>3, TotalAlike DEF AgreeOn
  <2> QED BY <2>4 DEF Same
<1> HIDE DEF Equation
<1>10. Total(q) = f[L]
  BY <1>7, <1>8, <1>9
<1> QED BY <1>1, <1>5, <1>10

LEMMA TotalEmpty == Total(<<>>) = 0
<1>1. <<>> \in Seq(Nat) /\ Len(<<>>) = 0
  BY EmptySeq
<1>2. PICK f \in [0..Len(<<>>) -> Nat] : IsTotal(f, <<>>, Len(<<>>)) /\ Total(<<>>) = f[Len(<<>>)]
  BY <1>1, TotalValue
<1> QED BY <1>1, <1>2 DEF IsTotal

LEMMA TotalAppend ==
    ASSUME NEW s \in Seq(Nat), NEW x \in Nat
    PROVE  Total(Append(s, x)) = Total(s) + x
<1> DEFINE r == Append(s, x)
<1>1. /\ Len(s) \in Nat /\ r \in Seq(Nat) /\ Len(r) = Len(s) + 1
      /\ \A n \in 1..Len(s) : r[n] = s[n]
      /\ r[Len(s) + 1] = x
  BY LenProperties, AppendProperties
<1> HIDE DEF r
<1>2. PICK f \in [0..Len(s) -> Nat] : IsTotal(f, s, Len(s)) /\ Total(s) = f[Len(s)]
  BY TotalValue
<1>3. PICK h \in [0..Len(r) -> Nat] : IsTotal(h, r, Len(r)) /\ Total(r) = h[Len(r)]
  BY <1>1, TotalValue
<1>4. \A n \in 0..Len(s) : f[n] = h[n]
  <2>1. IsTotal(h, r, Len(s))
    BY <1>1, <1>3 DEF IsTotal
  <2>2. AgreeOn(s, r, {}, {}, Len(s))
    BY <1>1 DEF AgreeOn
  <2>3. Same(f, h, Len(s))
    BY <1>1, <1>2, <2>1, <2>2, TotalAlike
  <2> QED BY <2>3 DEF Same
<1>5. h[Len(s) + 1] = h[Len(s)] + x
  <2>1. Len(s) + 1 \in 1..Len(r) /\ (Len(s) + 1) - 1 = Len(s)
    BY <1>1
  <2> QED BY <1>1, <1>3, <2>1 DEF IsTotal
<1>6. Total(r) = Total(s) + x
  <2>1. Len(s) \in 0..Len(s)
    BY <1>1
  <2>2. h[Len(s)] = Total(s)
    BY <1>2, <1>4, <2>1
  <2>3. Total(r) = h[Len(s) + 1]
    BY <1>1, <1>3
  <2> QED BY <1>5, <2>2, <2>3
<1> QED BY <1>6 DEF r
-----------------------------------------------------------------------------
(* Induction over sequences, and the elements of a sequence that are in a  *)
(* set.                                                                    *)

LEMMA SequenceInduction ==
    ASSUME NEW S, NEW P, <<>> \in P,
           \A s \in Seq(S), x \in S : s \in P => Append(s, x) \in P
    PROVE  \A s \in Seq(S) : s \in P
<1> SUFFICES ASSUME NEW t \in Seq(S) PROVE t \in P
  OBVIOUS
<1> DEFINE L == {n \in 0..Len(t) : \A s \in Seq(S) : Len(s) = n => s \in P}
<1>0. Len(t) \in Nat
  BY LenProperties
<1>1. 0 \in L
  BY <1>0, EmptySeq
<1>2. ASSUME NEW n \in 1..Len(t), n - 1 \in L PROVE n \in L
  <2> SUFFICES ASSUME NEW s \in Seq(S), Len(s) = n PROVE s \in P
    BY <1>0
  <2>0. s # <<>>
    BY <1>0, EmptySeq
  <2>1. PICK r \in Seq(S), x \in S : s = Append(r, x)
    BY <2>0, SequenceEmptyOrAppend
  <2>2. Len(r) = n - 1
    BY <1>0, <2>1, AppendProperties, LenProperties
  <2>3. r \in P
    BY <1>2, <2>2
  <2> QED BY <2>1, <2>3
<1> HIDE DEF L
<1>3. \A n \in 0..Len(t) : n \in L
  BY <1>0, <1>1, <1>2, Induction
<1>4. Len(t) \in L
  BY <1>0, <1>3
<1> QED BY <1>4 DEF L

\* The elements of q that are in T, in order.
Those(q, T) == Selected(q, {n \in 1..Len(q) : q[n] \in T})

LEMMA ThoseEmpty == ASSUME NEW T PROVE Those(<<>>, T) = <<>>
BY SelectedEmpty DEF Those

LEMMA ThoseIsSeq ==
    ASSUME NEW S, NEW q \in Seq(S), NEW T PROVE Those(q, T) \in Seq(S)
BY SelectedIsSeq DEF Those

LEMMA ThoseAppend ==
    ASSUME NEW S, NEW s \in Seq(S), NEW x \in S, NEW T
    PROVE  Those(Append(s, x), T) = IF x \in T THEN Append(Those(s, T), x) ELSE Those(s, T)
<1> DEFINE r == Append(s, x)
           K == {n \in 1..Len(s) : s[n] \in T}
           M == {n \in 1..Len(r) : r[n] \in T}
<1>1. /\ Len(s) \in Nat /\ Len(r) = Len(s) + 1
      /\ \A n \in 1..Len(s) : r[n] = s[n]
      /\ r[Len(s) + 1] = x
  BY LenProperties, AppendProperties
<1> HIDE DEF r
<1>2. \A n \in 1..Len(s) : n \in K <=> n \in M
  BY <1>1
<1>3. Len(s) + 1 \in M <=> x \in T
  BY <1>1
<1> HIDE DEF K, M
<1>4. Selected(r, M) = IF Len(s) + 1 \in M THEN Append(Selected(s, K), x) ELSE Selected(s, K)
  BY <1>2, SelectedAppend DEF r
<1> QED BY <1>3, <1>4 DEF Those, K, M, r

LEMMA ThoseTyped ==
    ASSUME NEW S, NEW T
    PROVE  \A s \in Seq(S) : Those(s, T) \in Seq(S \cap T)
<1> DEFINE P == {s \in Seq(S) : Those(s, T) \in Seq(S \cap T)}
<1>1. <<>> \in P
  BY EmptySeq, ThoseEmpty
<1>2. ASSUME NEW s \in Seq(S), NEW x \in S, s \in P PROVE Append(s, x) \in P
  <2>1. Append(s, x) \in Seq(S)
    BY AppendProperties
  <2>2. Those(s, T) \in Seq(S \cap T)
    BY <1>2
  <2>3. CASE x \in T
    <3>1. Append(Those(s, T), x) \in Seq(S \cap T)
      BY <2>2, <2>3, AppendProperties
    <3>2. Those(Append(s, x), T) = Append(Those(s, T), x)
      BY <2>3, ThoseAppend
    <3> QED BY <2>1, <3>1, <3>2
  <2>4. CASE x \notin T
    <3>1. Those(Append(s, x), T) = Those(s, T)
      BY <2>4, ThoseAppend
    <3> QED BY <2>1, <2>2, <3>1
  <2> QED BY <2>3, <2>4
<1> HIDE DEF P
<1>3. \A s \in Seq(S) : s \in P
  BY <1>1, <1>2, SequenceInduction
<1> QED BY <1>3 DEF P

LEMMA ThoseConcat ==
    ASSUME NEW S, NEW T, NEW a \in Seq(S)
    PROVE  \A b \in Seq(S) : Those(a \o b, T) = Those(a, T) \o Those(b, T)
<1> DEFINE P == {b \in Seq(S) : Those(a \o b, T) = Those(a, T) \o Those(b, T)}
<1>0. \A s \in Seq(S) : Those(s, T) \in Seq(S)
  BY ThoseIsSeq
<1>1. <<>> \in P
  <2>1. a \o <<>> = a /\ Those(a, T) \o <<>> = Those(a, T)
    BY <1>0, ConcatEmptySeq
  <2> QED BY <2>1, EmptySeq, ThoseEmpty
<1>2. ASSUME NEW b \in Seq(S), NEW x \in S, b \in P PROVE Append(b, x) \in P
  <2>1. Append(b, x) \in Seq(S) /\ a \o b \in Seq(S) /\ <<x>> \in Seq(S)
    BY AppendProperties, ConcatProperties
  <2>2. a \o Append(b, x) = Append(a \o b, x)
    <3>1. Append(b, x) = b \o <<x>> /\ Append(a \o b, x) = (a \o b) \o <<x>>
      BY <2>1, AppendIsConcat
    <3> QED BY <2>1, <3>1, ConcatAssociative
  <2>3. Those(a \o b, T) = Those(a, T) \o Those(b, T)
    BY <1>2
  <2>4. CASE x \in T
    <3>0. Those(Append(a \o b, x), T) = Append(Those(a \o b, T), x)
      <4> DEFINE c == a \o b
      <4>1. c \in Seq(S)
        BY <2>1
      <4> HIDE DEF c
      <4>2. Those(Append(c, x), T) = Append(Those(c, T), x)
        BY <2>4, <4>1, ThoseAppend
      <4> QED BY <4>2 DEF c
    <3>1. Those(Append(b, x), T) = Append(Those(b, T), x)
      BY <2>4, ThoseAppend
    <3>2. Append(Those(a, T) \o Those(b, T), x) = Those(a, T) \o Append(Those(b, T), x)
      <4> DEFINE c == Those(a, T)
                 d == Those(b, T)
      <4>1. c \in Seq(S) /\ d \in Seq(S)
        BY <1>0
      <4> HIDE DEF c, d
      <4>2. c \o d \in Seq(S)
        BY <4>1, ConcatProperties
      <4>5. Append(c \o d, x) = (c \o d) \o <<x>>
        BY <4>2, AppendIsConcat
      <4>3. Append(c \o d, x) = (c \o d) \o <<x>> /\ Append(d, x) = d \o <<x>>
        BY <4>1, <4>5, AppendIsConcat
      <4> DEFINE e == <<x>>
      <4>6. e \in Seq(S) /\ Append(c \o d, x) = (c \o d) \o e /\ Append(d, x) = d \o e
        BY <2>1, <4>3
      <4> HIDE DEF e
      <4>8. e \in Seq(S)
        BY <4>6
      <4>7. (c \o d) \o e = c \o (d \o e)
        BY ONLY <4>1, <4>8, ConcatAssociative
      <4>4. Append(c \o d, x) = c \o Append(d, x)
        BY <4>6, <4>7
      <4> QED BY <4>4 DEF c, d
    <3> QED BY <2>1, <2>2, <2>3, <3>0, <3>1, <3>2
  <2>5. CASE x \notin T
    <3>1. Those(Append(a \o b, x), T) = Those(a \o b, T)
      BY <2>1, <2>5, ThoseAppend
    <3>2. Those(Append(b, x), T) = Those(b, T)
      BY <2>5, ThoseAppend
    <3> QED BY <2>1, <2>2, <2>3, <3>1, <3>2
  <2> QED BY <2>4, <2>5
<1> HIDE DEF P
<1>3. \A b \in Seq(S) : b \in P
  BY <1>1, <1>2, SequenceInduction
<1> QED BY <1>3 DEF P

LEMMA ThoseOfThose ==
    ASSUME NEW S, NEW T, NEW U
    PROVE  \A s \in Seq(S) : Those(Those(s, T), U) = Those(s, T \cap U)
<1> DEFINE P == {s \in Seq(S) : Those(Those(s, T), U) = Those(s, T \cap U)}
<1>1. <<>> \in P
  BY EmptySeq, ThoseEmpty
<1>2. ASSUME NEW s \in Seq(S), NEW x \in S, s \in P PROVE Append(s, x) \in P
  <2>1. Append(s, x) \in Seq(S) /\ Those(s, T) \in Seq(S)
    BY AppendProperties, ThoseIsSeq
  <2>2. Those(Append(s, x), T) = IF x \in T THEN Append(Those(s, T), x) ELSE Those(s, T)
    BY ThoseAppend
  <2>3. Those(Append(s, x), T \cap U)
          = IF x \in T \cap U THEN Append(Those(s, T \cap U), x) ELSE Those(s, T \cap U)
    BY ThoseAppend
  <2>4. Those(Append(Those(s, T), x), U)
          = IF x \in U THEN Append(Those(Those(s, T), U), x) ELSE Those(Those(s, T), U)
    BY <2>1, ThoseAppend
  <2>5. Those(Those(s, T), U) = Those(s, T \cap U)
    BY <1>2
  <2>6. CASE x \in T
    <3>1. Those(Append(s, x), T) = Append(Those(s, T), x)
      BY <2>2, <2>6
    <3>2. Those(Those(Append(s, x), T), U) = Those(Append(s, x), T \cap U)
      BY <2>3, <2>4, <2>5, <2>6, <3>1
    <3> QED BY <2>1, <3>2
  <2>7. CASE x \notin T
    <3>1. Those(Append(s, x), T) = Those(s, T)
      BY <2>2, <2>7
    <3>2. Those(Append(s, x), T \cap U) = Those(s, T \cap U)
      BY <2>3, <2>7
    <3> QED BY <2>1, <2>5, <3>1, <3>2
  <2> QED BY <2>6, <2>7
<1> HIDE DEF P
<1>3. \A s \in Seq(S) : s \in P
  BY <1>1, <1>2, SequenceInduction
<1> QED BY <1>3 DEF P

LEMMA ThoseSingle ==
    ASSUME NEW x, NEW T PROVE Those(<<x>>, T) = IF x \in T THEN <<x>> ELSE <<>>
<1>0. <<>> \in Seq({x}) /\ x \in {x}
  BY EmptySeq
<1>1. <<>> \in Seq({x}) /\ Append(<<>>, x) = <<x>>
  <2>1. Append(<<>>, x) = <<>> \o <<x>> /\ <<x>> \in Seq({x})
    BY <1>0, AppendIsConcat
  <2> DEFINE e == <<x>>
  <2>2. e \in Seq({x}) /\ Append(<<>>, x) = <<>> \o e
    BY <2>1
  <2> HIDE DEF e
  <2>3. <<>> \o e = e
    BY <2>2, ConcatEmptySeq
  <2>4. Append(<<>>, x) = <<x>>
    BY <2>2, <2>3 DEF e
  <2> QED BY <1>0, <2>4
<1>2. Those(Append(<<>>, x), T) = IF x \in T THEN Append(Those(<<>>, T), x) ELSE Those(<<>>, T)
  <2> DEFINE S == {x}
             s == <<>>
  <2>1. s \in Seq(S) /\ x \in S
    BY <1>0
  <2> HIDE DEF S, s
  <2>2. Those(Append(s, x), T) = IF x \in T THEN Append(Those(s, T), x) ELSE Those(s, T)
    BY <2>1, ThoseAppend
  <2> QED BY <2>2 DEF s
<1> QED BY <1>1, <1>2, ThoseEmpty
=============================================================================
