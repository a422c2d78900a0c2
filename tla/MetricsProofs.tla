---------------------------- MODULE MetricsProofs ----------------------------
(***************************************************************************)
(* Theorems about Metrics, for any samples, reservoir size and             *)
(* percentiles: what the bounded collector keeps is what the exact one     *)
(* computes, and a percentile is where it should be.                       *)
(***************************************************************************)
EXTENDS Metrics, SeqRecursionProofs, FiniteSetTheorems

-----------------------------------------------------------------------------
(* Lemmas about the operators of the model. *)

\* r is q and one more element.
Extends(r, q, x, V) ==
    /\ Len(q) \in Nat
    /\ r \in Seq(V)
    /\ Len(r) = Len(q) + 1
    /\ Positions(r) = Positions(q) \cup {Len(q) + 1}
    /\ Len(q) + 1 \notin Positions(q)
    /\ \A i \in Positions(q) : r[i] = q[i]
    /\ r[Len(q) + 1] = x

LEMMA AppendExtends ==
    ASSUME NEW V, NEW q \in Seq(V), NEW x \in V
    PROVE  Extends(Append(q, x), q, x, V)
<1>1. /\ Len(q) \in Nat /\ Append(q, x) \in Seq(V) /\ Len(Append(q, x)) = Len(q) + 1
      /\ \A i \in 1..Len(q) : Append(q, x)[i] = q[i]
      /\ Append(q, x)[Len(q) + 1] = x
  BY LenProperties, AppendProperties
<1>2. 1..(Len(q) + 1) = (1..Len(q)) \cup {Len(q) + 1}
  BY <1>1
<1> QED BY <1>1, <1>2 DEF Positions, Extends

\* One element field of a sequence of samples.
LEMMA Column ==
    ASSUME NEW V, NEW F \in [Samples -> V], NEW q \in Seq(Samples), NEW s \in Samples
    PROVE  /\ [i \in Positions(q) |-> F[q[i]]] \in Seq(V)
           /\ Len([i \in Positions(q) |-> F[q[i]]]) = Len(q)
           /\ [i \in Positions(Append(q, s)) |-> F[Append(q, s)[i]]]
                = Append([i \in Positions(q) |-> F[q[i]]], F[s])
<1> DEFINE c == [i \in Positions(q) |-> F[q[i]]]
           r == Append(q, s)
           d == [i \in Positions(r) |-> F[r[i]]]
<1>0. Extends(r, q, s, Samples)
  BY AppendExtends
<1>1. /\ Len(q) \in Nat /\ r \in Seq(Samples) /\ Len(r) = Len(q) + 1
      /\ \A i \in Positions(q) : r[i] = q[i]
      /\ r[Len(q) + 1] = s
  BY <1>0 DEF Extends
<1>2. \A i \in Positions(q) : q[i] \in Samples
  BY ElementOfSeq DEF Positions
<1>3. \A i \in Positions(r) : r[i] \in Samples
  BY <1>1, ElementOfSeq DEF Positions
<1>4. c \in [1..Len(q) -> V] /\ d \in [1..Len(r) -> V]
  <2> HIDE DEF r
  <2>1. \A i \in Positions(q) : F[q[i]] \in V
    BY <1>2
  <2>2. \A i \in Positions(r) : F[r[i]] \in V
    BY <1>3
  <2> QED BY <2>1, <2>2 DEF Positions
<1>5. c \in Seq(V) /\ Len(c) = Len(q) /\ d \in Seq(V) /\ Len(d) = Len(q) + 1
  BY <1>1, <1>4, IsASeq
<1>6. \A i \in 1..Len(q) : d[i] = c[i]
  BY <1>1 DEF Positions
<1>7. d[Len(q) + 1] = F[s]
  BY <1>1 DEF Positions
<1> HIDE DEF c, d
<1>8. F[s] \in V
  OBVIOUS
<1>9. d = Append(c, F[s])
  <2>1. Append(c, F[s]) \in Seq(V) /\ Len(Append(c, F[s])) = Len(q) + 1
        /\ \A i \in 1..Len(q) : Append(c, F[s])[i] = c[i]
        /\ Append(c, F[s])[Len(q) + 1] = F[s]
    BY <1>5, <1>8, AppendProperties
  <2>2. \A i \in 1..Len(d) : d[i] = Append(c, F[s])[i]
    BY <1>1, <1>5, <1>6, <1>7, <2>1
  <2> QED BY <1>5, <2>1, <2>2, SeqEqual
<1> QED BY <1>5, <1>9 DEF c, d

\* How often one more element counts.
LEMMA CountAppend ==
    ASSUME NEW V, NEW q \in Seq(V), NEW x \in V, NEW T
    PROVE  /\ Where(q, T) \in Nat
           /\ Where(Append(q, x), T) = PlusIf(Where(q, T), x \in T)
<1> DEFINE r == Append(q, x)
           n == Len(q) + 1
           C == {i \in Positions(q) : q[i] \in T}
           D == {i \in Positions(r) : r[i] \in T}
<1>0. Extends(r, q, x, V)
  BY AppendExtends
<1>1. /\ Len(q) \in Nat
      /\ Positions(r) = Positions(q) \cup {n} /\ n \notin Positions(q)
      /\ \A i \in Positions(q) : r[i] = q[i]
      /\ r[n] = x
  <2> HIDE DEF r
  <2> QED BY <1>0 DEF Extends
<1>2. IsFiniteSet(C)
  <2>1. IsFiniteSet(Positions(q)) /\ C \subseteq Positions(q)
    BY <1>1, FS_Interval DEF Positions
  <2> QED BY <2>1, FS_Subset
<1>3. D = IF x \in T THEN C \cup {n} ELSE C
  <2> HIDE DEF r, n
  <2>1. \A i : i \in D <=> i \in C \/ (i = n /\ x \in T)
    BY <1>1
  <2> HIDE DEF C, D
  <2> QED BY <2>1
<1>4. n \notin C
  BY <1>1
<1> HIDE DEF C, D
<1>5. Cardinality(C) \in Nat /\ Cardinality(C \cup {n}) = Cardinality(C) + 1
  BY <1>2, <1>4, FS_CardinalityType, FS_AddElement
<1>6. Cardinality(D) = PlusIf(Cardinality(C), x \in T)
  BY <1>3, <1>5 DEF PlusIf
<1> QED BY <1>5, <1>6 DEF C, D, Where

\* A Counter of one more value.
LEMMA CountsOfAppend ==
    ASSUME NEW V, NEW q \in Seq(V), NEW x \in V, NEW ignored
    PROVE  CountsOf(Append(q, x), ignored) = CountIf(CountsOf(q, ignored), x, x \notin ignored)
<1> DEFINE r == Append(q, x)
           n == Len(q) + 1
           Vals(s) == {s[i] : i \in Positions(s)}
<1>0. Extends(r, q, x, V)
  BY AppendExtends
<1>1. /\ Positions(r) = Positions(q) \cup {n} /\ n \notin Positions(q)
      /\ \A i \in Positions(q) : r[i] = q[i]
      /\ r[n] = x
  <2> HIDE DEF r
  <2> QED BY <1>0 DEF Extends
<1>2. Vals(r) = Vals(q) \cup {x}
  <2> HIDE DEF r, n
  <2> QED BY <1>1
<1>3. \A v : Where(q, {v}) \in Nat /\ Where(r, {v}) = PlusIf(Where(q, {v}), x = v)
  <2> TAKE v
  <2>1. Where(q, {v}) \in Nat /\ Where(r, {v}) = PlusIf(Where(q, {v}), x \in {v})
    BY CountAppend
  <2> QED BY <2>1 DEF PlusIf
<1>4. x \notin Vals(q) => Where(q, {x}) = 0
  <2> SUFFICES ASSUME x \notin Vals(q) PROVE Where(q, {x}) = 0
    OBVIOUS
  <2>1. {i \in Positions(q) : q[i] \in {x}} = {}
    OBVIOUS
  <2> QED BY <2>1, FS_EmptySet DEF Where
<1>5. CountsOf(q, ignored) = [v \in Vals(q) \ ignored |-> Where(q, {v})]
      /\ CountsOf(r, ignored) = [v \in Vals(r) \ ignored |-> Where(r, {v})]
  <2>1. ASSUME NEW s PROVE CountsOf(s, ignored) = [v \in Vals(s) \ ignored |-> Where(s, {v})]
    <3>1. \A v : {i \in Positions(s) : s[i] = v} = {i \in Positions(s) : s[i] \in {v}}
      OBVIOUS
    <3> QED BY <3>1 DEF CountsOf, Where
  <2> QED BY <2>1
<1> HIDE DEF Vals, r
<1>6. CASE x \in ignored
  <2>1. Vals(r) \ ignored = Vals(q) \ ignored
    BY <1>2, <1>6
  <2>2. \A v \in Vals(q) \ ignored : Where(r, {v}) = Where(q, {v})
    BY <1>3, <1>6 DEF PlusIf
  <2>3. CountsOf(r, ignored) = CountsOf(q, ignored)
    BY <1>5, <2>1, <2>2
  <2> QED BY <1>6, <2>3 DEF CountIf, r
<1>7. CASE x \notin ignored
  <2> DEFINE c == CountsOf(q, ignored)
             d == CountsOf(r, ignored)
  <2>1. DOMAIN c = Vals(q) \ ignored /\ \A v \in DOMAIN c : c[v] = Where(q, {v})
    BY <1>5
  <2>2. Vals(r) \ ignored = DOMAIN c \cup {x}
    BY <1>2, <1>7, <2>1
  <2>3. Count(c, x) = Where(q, {x})
    BY <1>4, <1>7, <2>1 DEF Count
  <2>4. \A v \in DOMAIN c \cup {x} :
           Where(r, {v}) = IF v = x THEN Count(c, x) + 1 ELSE c[v]
    BY <1>3, <2>1, <2>3 DEF PlusIf
  <2>5. d = [v \in DOMAIN c \cup {x} |-> Where(r, {v})]
    BY <1>5, <2>2
  <2> HIDE DEF c, d
  <2>6. d = [v \in DOMAIN c \cup {x} |-> IF v = x THEN Count(c, x) + 1 ELSE c[v]]
    BY <2>4, <2>5
  <2>7. d = CountIf(c, x, x \notin ignored)
    BY <1>7, <2>6 DEF CountIf
  <2> QED BY <2>7 DEF c, d, r
<1> QED BY <1>6, <1>7

-----------------------------------------------------------------------------
(* Types. *)

TypeInv ==
    /\ samples \in Seq(Samples)
    /\ window \in [Streams -> Seq(Nat)]

LEMMA PutIsSeq ==
    ASSUME NEW V, NEW q \in Seq(V), NEW v \in V
    PROVE  Put(q, v) \in Seq(V)
<1>1. CASE Len(q) = Reservoir
  <2>1. q # <<>>
    BY <1>1, EmptySeq, SamplesAssumption
  <2>2. Tail(q) \in Seq(V)
    BY <2>1, HeadTailProperties
  <2> QED BY <1>1, <2>2, AppendProperties DEF Put
<1>2. CASE Len(q) # Reservoir
  BY <1>2, AppendProperties DEF Put
<1> QED BY <1>1, <1>2

LEMMA TypeInit == Init => TypeInv
<1>1. \A V : <<>> \in Seq(V)
  BY EmptySeq
<1> QED BY <1>1 DEF Init, TypeInv

LEMMA TypeStep == TypeInv /\ [Next]_vars => TypeInv'
<1> SUFFICES ASSUME TypeInv, [Next]_vars PROVE TypeInv'
  OBVIOUS
<1>1. CASE UNCHANGED vars
  BY <1>1 DEF vars, TypeInv
<1>2. ASSUME NEW s \in Samples, Add(s) PROVE TypeInv'
  <2>1. samples' \in Seq(Samples)
    BY <1>2, AppendProperties DEF Add, TypeInv
  <2>2. ASSUME NEW stream \in Streams
        PROVE  (IF s.latency[stream] = None THEN window[stream]
                ELSE Put(window[stream], s.latency[stream])) \in Seq(Nat)
    <3>1. s.latency[stream] \in Nat \cup {None} /\ window[stream] \in Seq(Nat)
      BY SamplesAssumption DEF SampleType, TypeInv
    <3> QED BY <3>1, PutIsSeq
  <2>3. window' = [stream \in Streams |->
                     IF s.latency[stream] = None THEN window[stream]
                     ELSE Put(window[stream], s.latency[stream])]
    BY <1>2 DEF Add
  <2>4. window' \in [Streams -> Seq(Nat)]
    BY <2>2, <2>3
  <2> QED BY <2>1, <2>4 DEF TypeInv
<1> QED BY <1>1, <1>2 DEF Next

-----------------------------------------------------------------------------
(* The windows. *)

\* r holds the last size values.
IsRecent(r, all, size, V) ==
    /\ r \in Seq(V)
    /\ Len(r) = size
    /\ \A i \in 1..size : r[i] = all[Len(all) - size + i]

LEMMA RecentIs ==
    ASSUME NEW V, NEW all \in Seq(V), NEW size \in Nat,
           size = IF Len(all) < Reservoir THEN Len(all) ELSE Reservoir
    PROVE  IsRecent(Recent(all), all, size, V)
<1>1. Len(all) \in Nat /\ \A i \in 1..Len(all) : all[i] \in V
  BY LenProperties, ElementOfSeq
<1>2. size <= Len(all)
  BY <1>1, SamplesAssumption
<1> DEFINE m == Len(all) - size + 1
           n == Len(all)
<1>3. m \in Int /\ n \in Int /\ \A i \in m..n : all[i] \in V
  BY <1>1, <1>2
<1>4. Recent(all) = SubSeq(all, m, n)
  BY DEF Recent
<1>5. n - m + 1 = size /\ (IF m <= n THEN n - m + 1 ELSE 0) = size
  BY <1>1, <1>2
<1>6. \A i \in 1..size : m + i - 1 = Len(all) - size + i
  BY <1>1
<1> HIDE DEF m, n
<1>7. /\ SubSeq(all, m, n) \in Seq(V)
      /\ Len(SubSeq(all, m, n)) = IF m <= n THEN n - m + 1 ELSE 0
      /\ \A i \in 1..(n - m + 1) : SubSeq(all, m, n)[i] = all[m + i - 1]
  BY <1>3, SubSeqProperties
<1> QED BY <1>4, <1>5, <1>6, <1>7 DEF IsRecent

LEMMA RecentAppend ==
    ASSUME NEW V, NEW all \in Seq(V), NEW v \in V
    PROVE  Recent(Append(all, v)) = Put(Recent(all), v)
<1> DEFINE more == Append(all, v)
           was == Recent(all)
           now == Recent(more)
           put == Put(was, v)
<1>1. Extends(more, all, v, V)
  BY AppendExtends
<1>2. PICK n \in Nat : Len(all) = n /\ Len(more) = n + 1
  BY <1>1 DEF Extends
<1>3. PICK R \in Nat : R = Reservoir /\ R # 0
  BY SamplesAssumption
<1>4. PICK k \in Nat : k = IF n < R THEN n ELSE R
  OBVIOUS
<1>5. PICK l \in Nat : l = IF n + 1 < R THEN n + 1 ELSE R
  BY <1>2
<1>6. was \in Seq(V) /\ Len(was) = k /\ \A i \in 1..k : was[i] = all[n - k + i]
  <2>1. k = IF Len(all) < Reservoir THEN Len(all) ELSE Reservoir
    BY <1>2, <1>3, <1>4
  <2>2. IsRecent(was, all, k, V)
    BY <2>1, RecentIs
  <2> QED BY <1>2, <2>2 DEF IsRecent
<1>7. now \in Seq(V) /\ Len(now) = l /\ \A i \in 1..l : now[i] = more[n + 1 - l + i]
  <2>1. more \in Seq(V)
    BY <1>1 DEF Extends
  <2> HIDE DEF more
  <2>2. l = IF Len(more) < Reservoir THEN Len(more) ELSE Reservoir
    BY <1>2, <1>3, <1>5
  <2>3. IsRecent(now, more, l, V)
    BY <2>1, <2>2, RecentIs
  <2> QED BY <1>2, <2>3 DEF IsRecent
<1>8. /\ \A i \in 1..n : more[i] = all[i]
      /\ more[n + 1] = v
  BY <1>1, <1>2 DEF Extends, Positions
<1> HIDE DEF more, was, now
<1>9. now = put
  <2>1. CASE k = R
    <3>1. was # <<>> /\ l = R
      BY <1>3, <1>4, <1>5, <1>6, <2>1, EmptySeq
    <3>2. /\ Tail(was) \in Seq(V) /\ Len(Tail(was)) = R - 1
          /\ \A i \in 1..(R - 1) : Tail(was)[i] = was[i + 1]
      BY <1>6, <2>1, <3>1, HeadTailProperties
    <3>3. put = Append(Tail(was), v)
      BY <1>3, <1>6, <2>1 DEF Put
    <3>4. /\ put \in Seq(V) /\ Len(put) = R
          /\ \A i \in 1..(R - 1) : put[i] = was[i + 1]
          /\ put[R] = v
      BY <3>2, <3>3, AppendProperties
    <3>5. ASSUME NEW i \in 1..R PROVE now[i] = put[i]
      <4>1. CASE i = R
        BY <1>7, <1>8, <3>1, <3>4, <4>1
      <4>2. CASE i # R
        <5>1. i \in 1..(R - 1) /\ i + 1 \in 1..k /\ n + 1 - R + i \in 1..n
              /\ n - k + (i + 1) = n + 1 - R + i
          BY <1>4, <2>1, <4>2
        <5>2. now[i] = more[n + 1 - R + i]
          BY <1>7, <3>1
        <5>3. put[i] = all[n + 1 - R + i]
          BY <1>6, <3>4, <5>1
        <5> QED BY <1>8, <5>1, <5>2, <5>3
      <4> QED BY <4>1, <4>2
    <3> QED BY <1>7, <3>1, <3>4, <3>5, SeqEqual
  <2>2. CASE k # R
    <3>1. k = n /\ l = n + 1
      BY <1>4, <1>5, <2>2
    <3>2. put = Append(was, v)
      BY <1>3, <1>6, <2>2 DEF Put
    <3>3. /\ put \in Seq(V) /\ Len(put) = n + 1
          /\ \A i \in 1..n : put[i] = was[i]
          /\ put[n + 1] = v
      BY <1>6, <3>1, <3>2, AppendProperties
    <3>4. ASSUME NEW i \in 1..(n + 1) PROVE now[i] = put[i]
      <4>1. now[i] = more[i]
        BY <1>7, <3>1
      <4>2. CASE i = n + 1
        BY <1>8, <3>3, <4>1, <4>2
      <4>3. CASE i # n + 1
        <5>1. i \in 1..n
          BY <4>3
        <5>2. put[i] = all[i]
          BY <1>6, <3>1, <3>3, <5>1
        <5> QED BY <1>8, <4>1, <5>1, <5>2
      <4> QED BY <4>2, <4>3
    <3> QED BY <1>7, <3>1, <3>3, <3>4, SeqEqual
  <2> QED BY <2>1, <2>2
<1> QED BY <1>9 DEF more, was, now

\* A sample without a value adds none to those of a stream.
LEMMA ValuesAppend ==
    ASSUME TypeInv, NEW s \in Samples, samples' = Append(samples, s), NEW stream \in Streams
    PROVE  /\ Values(stream) \in Seq(Nat \cup {None})
           /\ s.latency[stream] \in Nat \cup {None}
           /\ Values(stream)' = IF s.latency[stream] = None THEN Values(stream)
                                ELSE Append(Values(stream), s.latency[stream])
<1> DEFINE V == Nat \cup {None}
           F == [t \in Samples |-> t.latency[stream]]
           was == [i \in Positions(samples) |-> samples[i].latency[stream]]
           now == [i \in Positions(samples') |-> samples'[i].latency[stream]]
           K == {i \in Positions(samples) : was[i] # None}
           M == {i \in Positions(samples') : now[i] # None}
           v == s.latency[stream]
<1>1. F \in [Samples -> V] /\ F[s] = v /\ v \in V
  BY SamplesAssumption DEF SampleType
<1>2. samples \in Seq(Samples)
  BY DEF TypeInv
<1>3. /\ was = [i \in Positions(samples) |-> F[samples[i]]]
      /\ now = [i \in Positions(samples') |-> F[samples'[i]]]
  <2>1. \A i \in Positions(samples) : samples[i] \in Samples
    BY <1>2, ElementOfSeq DEF Positions
  <2>2. samples' \in Seq(Samples)
    BY <1>2, AppendProperties
  <2>3. \A i \in Positions(samples') : samples'[i] \in Samples
    BY <2>2, ElementOfSeq DEF Positions
  <2> QED BY <2>1, <2>3
<1>4. was \in Seq(V) /\ Len(was) = Len(samples) /\ now = Append(was, v)
  <2>1. /\ [i \in Positions(samples) |-> F[samples[i]]] \in Seq(V)
        /\ Len([i \in Positions(samples) |-> F[samples[i]]]) = Len(samples)
        /\ [i \in Positions(Append(samples, s)) |-> F[Append(samples, s)[i]]]
             = Append([i \in Positions(samples) |-> F[samples[i]]], F[s])
    <3> HIDE DEF F, V
    <3> QED BY <1>1, <1>2, Column
  <2> HIDE DEF F, was, now, V, v
  <2> QED BY <1>1, <1>3, <2>1
<1>5. Extends(samples', samples, s, Samples) /\ Extends(now, was, v, V)
  <2>1. Extends(samples', samples, s, Samples)
    BY <1>2, AppendExtends
  <2> HIDE DEF was, now, V, v
  <2>2. Extends(now, was, v, V)
    BY <1>1, <1>4, AppendExtends
  <2> QED BY <2>1, <2>2
<1>6. Positions(samples) = 1..Len(was) /\ Positions(samples') = 1..(Len(was) + 1)
      /\ Len(was) \in Nat
  BY <1>4, <1>5 DEF Extends, Positions
<1>7. \A i \in 1..Len(was) : now[i] = was[i]
  BY <1>5 DEF Extends, Positions
<1>8. now[Len(was) + 1] = v
  BY <1>5 DEF Extends
<1> HIDE DEF was, now, V, v
<1>9. \A i \in 1..Len(was) : i \in K <=> i \in M
  BY <1>6, <1>7
<1>10. Len(was) + 1 \in M <=> v # None
  BY <1>6, <1>8
<1> HIDE DEF K, M
<1>11. Selected(now, M) = IF Len(was) + 1 \in M THEN Append(Selected(was, K), v) ELSE Selected(was, K)
  BY <1>1, <1>4, <1>9, SelectedAppend
<1>12. Values(stream) = Selected(was, K) /\ Values(stream)' = Selected(now, M)
  BY DEF Values, was, now, K, M
<1>13. Selected(was, K) \in Seq(V)
  BY <1>4, SelectedIsSeq
<1> QED BY <1>1, <1>10, <1>11, <1>12, <1>13 DEF V, v

LEMMA WindowInit == Init => WindowRecent
<1> SUFFICES ASSUME Init, NEW stream \in Streams
             PROVE  window[stream] = Recent(Values(stream))
  BY DEF WindowRecent
<1>1. samples = <<>> /\ window[stream] = <<>> /\ Len(samples) = 0
  BY EmptySeq DEF Init
<1>2. Positions(samples) = {}
  BY <1>1 DEF Positions
<1>3. Values(stream) = <<>>
  <2>1. [i \in Positions(samples) |-> samples[i].latency[stream]] = <<>>
    BY <1>2
  <2> QED BY <2>1, SelectedEmpty DEF Values
<1>4. Recent(<<>>) = <<>>
  <2>1. Len(<<>>) = 0 /\ 0 < Reservoir
    BY EmptySeq, SamplesAssumption
  <2> QED BY <2>1, SubSeqEmpty DEF Recent
<1> QED BY <1>1, <1>3, <1>4

LEMMA WindowStep == TypeInv /\ WindowRecent /\ [Next]_vars => WindowRecent'
<1> SUFFICES ASSUME TypeInv, WindowRecent, [Next]_vars, NEW stream \in Streams
             PROVE  window'[stream] = Recent(Values(stream)')
  BY DEF WindowRecent, Recent
<1>1. CASE UNCHANGED vars
  BY <1>1 DEF vars, WindowRecent, Values
<1>2. ASSUME NEW s \in Samples, Add(s) PROVE window'[stream] = Recent(Values(stream)')
  <2>1. /\ Values(stream) \in Seq(Nat \cup {None})
        /\ s.latency[stream] \in Nat \cup {None}
        /\ Values(stream)' = IF s.latency[stream] = None THEN Values(stream)
                             ELSE Append(Values(stream), s.latency[stream])
    BY <1>2, ValuesAppend DEF Add
  <2>2. window'[stream] = IF s.latency[stream] = None THEN window[stream]
                          ELSE Put(window[stream], s.latency[stream])
    BY <1>2 DEF Add
  <2>3. window[stream] = Recent(Values(stream))
    BY DEF WindowRecent
  <2> QED BY <2>1, <2>2, <2>3, RecentAppend
<1> QED BY <1>1, <1>2 DEF Next

-----------------------------------------------------------------------------
(* The counters. *)

Statuses(q) == [i \in Positions(q) |-> q[i].status]
Outcomes(q) == [i \in Positions(q) |-> q[i].outcome]
Errors(q) == [i \in Positions(q) |-> q[i].error]
Modes(q) == [i \in Positions(q) |-> q[i].mode]
Sent(q) == [i \in Positions(q) |-> q[i].sent]
Received(q) == [i \in Positions(q) |-> q[i].received]

Completions(q) == {q[i].completion : i \in Positions(q)}
Schedules(q) == {q[i].scheduled : i \in Positions(q)}

ReusedOnes == {s \in Samples : s.acquired /\ s.reused}
AcquiredOnes == {s \in Samples : s.acquired}
AppliedOnes == {s \in Samples : s.applied}

Extremes ==
    \/ samples = <<>> /\ lastCompletion = None /\ firstScheduled = None
    \/ /\ samples # <<>>
       /\ lastCompletion \in Completions(samples)
       /\ \A d \in Completions(samples) : d <= lastCompletion
       /\ firstScheduled \in Schedules(samples)
       /\ \A d \in Schedules(samples) : firstScheduled <= d

Counters ==
    /\ total = Len(samples)
    /\ statusCounts = CountsOf(Statuses(samples), {None})
    /\ outcomeCounts = CountsOf(Outcomes(samples), {})
    /\ errorCounts = CountsOf(Errors(samples), {"none"})
    /\ modeCounts = CountsOf(Modes(samples), {"none"})
    /\ bytes = [sent |-> Total(Sent(samples)), received |-> Total(Received(samples))]
    /\ acquired = Where(samples, AcquiredOnes)
    /\ reused = Where(samples, ReusedOnes)
    /\ applied = Where(samples, AppliedOnes)

\* A column c of a sequence q of samples, and d with one more sample.
IsColumn(c, d, V, v) == c \in Seq(V) /\ d = Append(c, v)

LEMMA ColumnAppend ==
    ASSUME NEW V, NEW F \in [Samples -> V], NEW q \in Seq(Samples), NEW s \in Samples,
           NEW c, c = [i \in Positions(q) |-> F[q[i]]],
           NEW d, d = [i \in Positions(Append(q, s)) |-> F[Append(q, s)[i]]]
    PROVE  IsColumn(c, d, V, F[s])
<1>1. /\ [i \in Positions(q) |-> F[q[i]]] \in Seq(V)
      /\ [i \in Positions(Append(q, s)) |-> F[Append(q, s)[i]]]
           = Append([i \in Positions(q) |-> F[q[i]]], F[s])
  BY Column
<1> QED BY <1>1 DEF IsColumn

LEMMA ColumnsAppend ==
    ASSUME NEW q \in Seq(Samples), NEW s \in Samples, NEW r, r = Append(q, s)
    PROVE  /\ IsColumn(Statuses(q), Statuses(r), Nat \cup {None}, s.status)
           /\ IsColumn(Outcomes(q), Outcomes(r), STRING, s.outcome)
           /\ IsColumn(Errors(q), Errors(r), STRING, s.error)
           /\ IsColumn(Modes(q), Modes(r), STRING, s.mode)
           /\ IsColumn(Sent(q), Sent(r), Nat, s.sent)
           /\ IsColumn(Received(q), Received(r), Nat, s.received)
<1>1. \A i \in Positions(q) : q[i] \in Samples
  BY ElementOfSeq DEF Positions
<1>2. r \in Seq(Samples)
  BY AppendProperties
<1>3. \A i \in Positions(r) : r[i] \in Samples
  BY <1>2, ElementOfSeq DEF Positions
<1>4. \A t \in Samples :
         /\ t.status \in Nat \cup {None} /\ t.sent \in Nat /\ t.received \in Nat
         /\ t.outcome \in STRING /\ t.error \in STRING /\ t.mode \in STRING
  BY SamplesAssumption DEF SampleType
<1>5. IsColumn(Statuses(q), Statuses(r), Nat \cup {None}, s.status)
  <2> DEFINE F == [t \in Samples |-> t.status]
             V == Nat \cup {None}
  <2>1. F \in [Samples -> V] /\ F[s] = s.status
    BY <1>4
  <2>2. Statuses(q) = [i \in Positions(q) |-> F[q[i]]]
        /\ Statuses(r) = [i \in Positions(r) |-> F[r[i]]]
    BY <1>1, <1>3 DEF Statuses
  <2> HIDE DEF F, V
  <2>3. IsColumn(Statuses(q), Statuses(r), V, F[s])
    BY <2>1, <2>2, ColumnAppend
  <2> QED BY <2>1, <2>3 DEF V
<1>6. IsColumn(Outcomes(q), Outcomes(r), STRING, s.outcome)
  <2> DEFINE F == [t \in Samples |-> t.outcome]
             V == STRING
  <2>1. F \in [Samples -> V] /\ F[s] = s.outcome
    BY <1>4
  <2>2. Outcomes(q) = [i \in Positions(q) |-> F[q[i]]]
        /\ Outcomes(r) = [i \in Positions(r) |-> F[r[i]]]
    BY <1>1, <1>3 DEF Outcomes
  <2> HIDE DEF F, V
  <2>3. IsColumn(Outcomes(q), Outcomes(r), V, F[s])
    BY <2>1, <2>2, ColumnAppend
  <2> QED BY <2>1, <2>3 DEF V
<1>7. IsColumn(Errors(q), Errors(r), STRING, s.error)
  <2> DEFINE F == [t \in Samples |-> t.error]
             V == STRING
  <2>1. F \in [Samples -> V] /\ F[s] = s.error
    BY <1>4
  <2>2. Errors(q) = [i \in Positions(q) |-> F[q[i]]]
        /\ Errors(r) = [i \in Positions(r) |-> F[r[i]]]
    BY <1>1, <1>3 DEF Errors
  <2> HIDE DEF F, V
  <2>3. IsColumn(Errors(q), Errors(r), V, F[s])
    BY <2>1, <2>2, ColumnAppend
  <2> QED BY <2>1, <2>3 DEF V
<1>8. IsColumn(Modes(q), Modes(r), STRING, s.mode)
  <2> DEFINE F == [t \in Samples |-> t.mode]
             V == STRING
  <2>1. F \in [Samples -> V] /\ F[s] = s.mode
    BY <1>4
  <2>2. Modes(q) = [i \in Positions(q) |-> F[q[i]]]
        /\ Modes(r) = [i \in Positions(r) |-> F[r[i]]]
    BY <1>1, <1>3 DEF Modes
  <2> HIDE DEF F, V
  <2>3. IsColumn(Modes(q), Modes(r), V, F[s])
    BY <2>1, <2>2, ColumnAppend
  <2> QED BY <2>1, <2>3 DEF V
<1>9. IsColumn(Sent(q), Sent(r), Nat, s.sent)
  <2> DEFINE F == [t \in Samples |-> t.sent]
             V == Nat
  <2>1. F \in [Samples -> V] /\ F[s] = s.sent
    BY <1>4
  <2>2. Sent(q) = [i \in Positions(q) |-> F[q[i]]]
        /\ Sent(r) = [i \in Positions(r) |-> F[r[i]]]
    BY <1>1, <1>3 DEF Sent
  <2> HIDE DEF F, V
  <2>3. IsColumn(Sent(q), Sent(r), V, F[s])
    BY <2>1, <2>2, ColumnAppend
  <2> QED BY <2>1, <2>3 DEF V
<1>10. IsColumn(Received(q), Received(r), Nat, s.received)
  <2> DEFINE F == [t \in Samples |-> t.received]
             V == Nat
  <2>1. F \in [Samples -> V] /\ F[s] = s.received
    BY <1>4
  <2>2. Received(q) = [i \in Positions(q) |-> F[q[i]]]
        /\ Received(r) = [i \in Positions(r) |-> F[r[i]]]
    BY <1>1, <1>3 DEF Received
  <2> HIDE DEF F, V
  <2>3. IsColumn(Received(q), Received(r), V, F[s])
    BY <2>1, <2>2, ColumnAppend
  <2> QED BY <2>1, <2>3 DEF V
<1> QED BY <1>5, <1>6, <1>7, <1>8, <1>9, <1>10

LEMMA CountersInit == Init => Counters /\ Extremes
<1> SUFFICES ASSUME Init PROVE Counters /\ Extremes
  OBVIOUS
<1>1. samples = <<>> /\ Len(samples) = 0
  BY EmptySeq DEF Init
<1>2. Positions(samples) = {}
  BY <1>1 DEF Positions
<1>3. /\ Statuses(samples) = <<>> /\ Outcomes(samples) = <<>> /\ Errors(samples) = <<>>
      /\ Modes(samples) = <<>> /\ Sent(samples) = <<>> /\ Received(samples) = <<>>
  BY <1>2 DEF Statuses, Outcomes, Errors, Modes, Sent, Received
<1>4. \A ignored : CountsOf(<<>>, ignored) = NoCounts
  <2>1. Positions(<<>>) = {}
    BY <1>1, <1>2
  <2> QED BY <2>1 DEF CountsOf, NoCounts
<1>5. \A T : Where(samples, T) = 0
  <2>1. \A T : {i \in Positions(samples) : samples[i] \in T} = {}
    BY <1>2
  <2> QED BY <2>1, FS_EmptySet DEF Where
<1>6. Counters
  BY <1>1, <1>3, <1>4, <1>5, TotalEmpty DEF Init, Counters
<1>7. Extremes
  BY <1>1 DEF Init, Extremes
<1> QED BY <1>6, <1>7

LEMMA CountersStep ==
    ASSUME TypeInv, Counters, NEW s \in Samples, Add(s)
    PROVE  Counters'
<1>1. samples \in Seq(Samples) /\ samples' = Append(samples, s)
  BY DEF Add, TypeInv
<1>2. total' = Len(samples')
  BY <1>1, AppendProperties DEF Add, Counters
<1>3. statusCounts' = CountsOf(Statuses(samples'), {None})
  <2>1. IsColumn(Statuses(samples), Statuses(samples'), Nat \cup {None}, s.status)
    BY <1>1, ColumnsAppend
  <2>2. s.status \in Nat \cup {None}
    BY SamplesAssumption DEF SampleType
  <2>3. CountsOf(Statuses(samples'), {None})
          = CountIf(CountsOf(Statuses(samples), {None}), s.status, s.status \notin {None})
    BY <2>1, <2>2, CountsOfAppend DEF IsColumn
  <2>4. (s.status \notin {None}) = (s.status # None)
    OBVIOUS
  <2> QED BY <2>3, <2>4 DEF Add, Counters
<1>4. outcomeCounts' = CountsOf(Outcomes(samples'), {})
  <2>1. IsColumn(Outcomes(samples), Outcomes(samples'), STRING, s.outcome)
    BY <1>1, ColumnsAppend
  <2>2. s.outcome \in STRING
    BY SamplesAssumption DEF SampleType
  <2>3. CountsOf(Outcomes(samples'), {})
          = CountIf(CountsOf(Outcomes(samples), {}), s.outcome, s.outcome \notin {})
    BY <2>1, <2>2, CountsOfAppend DEF IsColumn
  <2>4. (s.outcome \notin {}) = TRUE
    OBVIOUS
  <2> QED BY <2>3, <2>4 DEF Add, Counters
<1>5. errorCounts' = CountsOf(Errors(samples'), {"none"})
  <2>1. IsColumn(Errors(samples), Errors(samples'), STRING, s.error)
    BY <1>1, ColumnsAppend
  <2>2. s.error \in STRING
    BY SamplesAssumption DEF SampleType
  <2>3. CountsOf(Errors(samples'), {"none"})
          = CountIf(CountsOf(Errors(samples), {"none"}), s.error, s.error \notin {"none"})
    BY <2>1, <2>2, CountsOfAppend DEF IsColumn
  <2>4. (s.error \notin {"none"}) = (s.error # "none")
    OBVIOUS
  <2> QED BY <2>3, <2>4 DEF Add, Counters
<1>6. modeCounts' = CountsOf(Modes(samples'), {"none"})
  <2>1. IsColumn(Modes(samples), Modes(samples'), STRING, s.mode)
    BY <1>1, ColumnsAppend
  <2>2. s.mode \in STRING
    BY SamplesAssumption DEF SampleType
  <2>3. CountsOf(Modes(samples'), {"none"})
          = CountIf(CountsOf(Modes(samples), {"none"}), s.mode, s.mode \notin {"none"})
    BY <2>1, <2>2, CountsOfAppend DEF IsColumn
  <2>4. (s.mode \notin {"none"}) = (s.mode # "none")
    OBVIOUS
  <2> QED BY <2>3, <2>4 DEF Add, Counters
<1>7. bytes' = [sent |-> Total(Sent(samples')), received |-> Total(Received(samples'))]
  <2>1. /\ IsColumn(Sent(samples), Sent(samples'), Nat, s.sent)
        /\ IsColumn(Received(samples), Received(samples'), Nat, s.received)
    BY <1>1, ColumnsAppend
  <2>2. s.sent \in Nat /\ s.received \in Nat
    BY SamplesAssumption DEF SampleType
  <2>3. /\ Total(Sent(samples')) = Total(Sent(samples)) + s.sent
        /\ Total(Received(samples')) = Total(Received(samples)) + s.received
    BY <2>1, <2>2, TotalAppend DEF IsColumn
  <2> QED BY <2>3 DEF Add, Counters
<1>8. \A T : Where(samples', T) = PlusIf(Where(samples, T), s \in T)
  BY <1>1, CountAppend
<1>9. /\ acquired' = Where(samples', AcquiredOnes)
      /\ reused' = Where(samples', ReusedOnes)
      /\ applied' = Where(samples', AppliedOnes)
  <2>1. /\ s \in AcquiredOnes <=> s.acquired
        /\ s \in ReusedOnes <=> s.acquired /\ s.reused
        /\ s \in AppliedOnes <=> s.applied
    BY DEF AcquiredOnes, ReusedOnes, AppliedOnes
  <2> QED BY <1>8, <2>1 DEF Add, Counters, PlusIf
<1> QED BY <1>2, <1>3, <1>4, <1>5, <1>6, <1>7, <1>9
     DEF Counters, AcquiredOnes, ReusedOnes, AppliedOnes

LEMMA ExtremesStep ==
    ASSUME TypeInv, Extremes, NEW s \in Samples, Add(s)
    PROVE  Extremes'
<1>1. samples \in Seq(Samples) /\ samples' = Append(samples, s)
  BY DEF Add, TypeInv
<1>2. Extends(samples', samples, s, Samples)
  BY <1>1, AppendExtends
<1>3. /\ Completions(samples') = Completions(samples) \cup {s.completion}
      /\ Schedules(samples') = Schedules(samples) \cup {s.scheduled}
  BY <1>2 DEF Extends, Completions, Schedules
<1>4. samples' # <<>>
  BY <1>1, AppendProperties
<1>5. /\ s.completion \in Nat /\ s.scheduled \in Nat
      /\ Completions(samples) \subseteq Nat /\ Schedules(samples) \subseteq Nat
  <2>1. \A t \in Samples : t.completion \in Nat /\ t.scheduled \in Nat
    BY SamplesAssumption DEF SampleType
  <2>2. \A i \in Positions(samples) : samples[i] \in Samples
    BY <1>1, ElementOfSeq DEF Positions
  <2> QED BY <2>1, <2>2 DEF Completions, Schedules
<1>6. lastCompletion' = LatestCompletion(s) /\ firstScheduled' = EarliestSchedule(s)
  BY DEF Add
<1>7. CASE samples = <<>>
  <2>1. Completions(samples) = {} /\ Schedules(samples) = {}
    <3>1. Positions(samples) = {}
      BY <1>7, EmptySeq DEF Positions
    <3> QED BY <3>1 DEF Completions, Schedules
  <2>2. lastCompletion' = s.completion /\ firstScheduled' = s.scheduled
    BY <1>6, <1>7 DEF Extremes, LatestCompletion, EarliestSchedule
  <2> QED BY <1>3, <1>4, <1>5, <2>1, <2>2 DEF Extremes
<1>8. CASE samples # <<>>
  <2>1. /\ lastCompletion \in Completions(samples)
        /\ \A d \in Completions(samples) : d <= lastCompletion
        /\ firstScheduled \in Schedules(samples)
        /\ \A d \in Schedules(samples) : firstScheduled <= d
    BY <1>8 DEF Extremes
  <2>2. lastCompletion \in Nat /\ firstScheduled \in Nat
    BY <1>5, <2>1
  <2>3. /\ lastCompletion' = IF s.completion > lastCompletion THEN s.completion ELSE lastCompletion
        /\ firstScheduled' = IF s.scheduled < firstScheduled THEN s.scheduled ELSE firstScheduled
    BY <1>6, <2>2 DEF LatestCompletion, EarliestSchedule, None
  <2>4. /\ lastCompletion' \in Completions(samples')
        /\ \A d \in Completions(samples') : d <= lastCompletion'
    BY <1>3, <1>5, <2>1, <2>2, <2>3
  <2>5. /\ firstScheduled' \in Schedules(samples')
        /\ \A d \in Schedules(samples') : firstScheduled' <= d
    BY <1>3, <1>5, <2>1, <2>2, <2>3
  <2> QED BY <1>4, <2>4, <2>5 DEF Extremes
<1> QED BY <1>7, <1>8

LEMMA CountersAreExact == TypeInv /\ Counters /\ Extremes => CountersExact
<1> SUFFICES ASSUME TypeInv, Counters, Extremes PROVE CountersExact
  OBVIOUS
<1> DEFINE C == Completions(samples)
           S == Schedules(samples)
           Exact == IF samples = <<>> THEN None
                    ELSE (CHOOSE c \in C : \A d \in C : d <= c)
                         - (CHOOSE c \in S : \A d \in S : c <= d)
<1>1. total = 0 <=> samples = <<>>
  BY EmptySeq DEF TypeInv, Counters
<1>2. ASSUME samples # <<>>
      PROVE  /\ (CHOOSE c \in C : \A d \in C : d <= c) = lastCompletion
             /\ (CHOOSE c \in S : \A d \in S : c <= d) = firstScheduled
  <2>1. /\ lastCompletion \in C /\ \A d \in C : d <= lastCompletion
        /\ firstScheduled \in S /\ \A d \in S : firstScheduled <= d
    BY <1>2 DEF Extremes
  <2>2. C \subseteq Nat /\ S \subseteq Nat
    <3>1. \A t \in Samples : t.completion \in Nat /\ t.scheduled \in Nat
      BY SamplesAssumption DEF SampleType
    <3>2. \A i \in Positions(samples) : samples[i] \in Samples
      BY ElementOfSeq DEF Positions, TypeInv
    <3> QED BY <3>1, <3>2 DEF Completions, Schedules
  <2> HIDE DEF C, S
  <2>3. \A c \in C : (\A d \in C : d <= c) => c = lastCompletion
    BY <2>1, <2>2
  <2>4. \A c \in S : (\A d \in S : c <= d) => c = firstScheduled
    BY <2>1, <2>2
  <2> QED BY <2>1, <2>3, <2>4
<1>3. (IF total = 0 THEN None ELSE lastCompletion - firstScheduled) = Exact
  BY <1>1, <1>2
<1>4. BoundedSnapshot =
        [total |-> Len(samples),
         successes |-> Count(CountsOf(Outcomes(samples), {}), "SUCCESS"),
         httpErrors |-> Count(CountsOf(Outcomes(samples), {}), "HTTP_ERROR"),
         failures |-> Len(samples) - Count(CountsOf(Outcomes(samples), {}), "SUCCESS"),
         statuses |-> CountsOf(Statuses(samples), {None}),
         outcomes |-> CountsOf(Outcomes(samples), {}),
         errors |-> CountsOf(Errors(samples), {"none"}),
         modes |-> CountsOf(Modes(samples), {"none"}),
         throughput |-> Exact,
         bytes |-> [sent |-> Total(Sent(samples)), received |-> Total(Received(samples))],
         reuse |-> <<Where(samples, ReusedOnes), Where(samples, AcquiredOnes)>>,
         applied |-> Where(samples, AppliedOnes)]
  <2> HIDE DEF Exact
  <2> QED BY <1>3 DEF BoundedSnapshot, Counters
<1> QED BY <1>4 DEF CountersExact, ExactSnapshot, Statuses, Outcomes, Errors, Modes, Sent,
       Received, Completions, Schedules, ReusedOnes, AcquiredOnes, AppliedOnes

-----------------------------------------------------------------------------
(* Percentiles. *)

\* How many values of q are less than v, at most v, and at least v.
Less(q, v) == Cardinality({i \in Positions(q) : q[i] < v})
UpTo(q, v) == Cardinality({i \in Positions(q) : q[i] <= v})
From(q, v) == Cardinality({i \in Positions(q) : q[i] >= v})

LEMMA SubsetCounts ==
    ASSUME NEW q \in Seq(Nat), NEW A, NEW B, A \subseteq B, B \subseteq Positions(q)
    PROVE  Cardinality(A) \in Nat /\ Cardinality(B) \in Nat /\ Cardinality(A) <= Cardinality(B)
<1>1. IsFiniteSet(Positions(q))
  BY LenProperties, FS_Interval DEF Positions
<1> QED BY <1>1, FS_Subset, FS_CardinalityType

LEMMA Counted ==
    ASSUME NEW q \in Seq(Nat), NEW v \in Nat
    PROVE  /\ Less(q, v) \in Nat /\ UpTo(q, v) \in Nat /\ From(q, v) \in Nat
           /\ Less(q, v) + From(q, v) = Len(q)
<1> DEFINE A == {i \in Positions(q) : q[i] < v}
           B == {i \in Positions(q) : q[i] >= v}
           C == {i \in Positions(q) : q[i] <= v}
<1>1. Len(q) \in Nat /\ \A i \in Positions(q) : q[i] \in Nat
  BY LenProperties, ElementOfSeq DEF Positions
<1>2. IsFiniteSet(Positions(q)) /\ Cardinality(Positions(q)) = Len(q)
  <2>1. Cardinality(1..Len(q)) = IF 1 > Len(q) THEN 0 ELSE Len(q) - 1 + 1
    BY <1>1, FS_Interval
  <2> QED BY <1>1, <2>1, FS_Interval DEF Positions
<1>3. A \cup B = Positions(q) /\ A \cap B = {}
  BY <1>1
<1>4. IsFiniteSet(A) /\ IsFiniteSet(B) /\ IsFiniteSet(C)
  <2>1. A \subseteq Positions(q) /\ B \subseteq Positions(q) /\ C \subseteq Positions(q)
    OBVIOUS
  <2> QED BY <1>2, <2>1, FS_Subset
<1> HIDE DEF A, B, C
<1>5. Cardinality(A) \in Nat /\ Cardinality(B) \in Nat /\ Cardinality(C) \in Nat
  BY <1>4, FS_CardinalityType
<1>6. Cardinality(A) + Cardinality(B) = Len(q)
  <2>1. Cardinality(A \cup B) = Cardinality(A) + Cardinality(B) - Cardinality(A \cap B)
    BY <1>4, FS_Union
  <2>2. Cardinality(A \cap B) = 0
    BY <1>3, FS_EmptySet
  <2>3. Cardinality(A \cup B) = Len(q)
    BY <1>2, <1>3
  <2> QED BY ONLY <1>5, <2>1, <2>2, <2>3
<1> QED BY <1>5, <1>6 DEF A, B, C, Less, UpTo, From

LEMMA UpperBound ==
    ASSUME NEW q \in Seq(Nat)
    PROVE  \E m \in Nat : \A i \in Positions(q) : q[i] <= m
<1>1. PICK L \in Nat : L = Len(q)
  BY LenProperties
<1>2. \A i \in 1..L : q[i] \in Nat
  BY <1>1, ElementOfSeq
<1> DEFINE P == {n \in 0..L : \E m \in Nat : \A i \in 1..n : q[i] <= m}
<1>3. 0 \in P
  OBVIOUS
<1>4. ASSUME NEW n \in 1..L, n - 1 \in P PROVE n \in P
  <2>1. PICK m \in Nat : \A i \in 1..(n - 1) : q[i] <= m
    BY <1>4
  <2>2. PICK k \in Nat : k >= m /\ k >= q[n]
    <3>1. CASE m >= q[n]
      BY <1>2, <3>1
    <3>2. CASE ~(m >= q[n])
      BY <1>2, <3>2
    <3> QED BY <3>1, <3>2
  <2>3. ASSUME NEW i \in 1..n PROVE q[i] <= k
    <3>1. CASE i = n
      BY <2>2, <3>1
    <3>2. CASE i # n
      <4>1. i \in 1..(n - 1) /\ q[i] \in Nat
        BY <1>2, <3>2
      <4> QED BY <2>1, <2>2, <4>1
    <3> QED BY <3>1, <3>2
  <2>4. n \in 0..L
    OBVIOUS
  <2> QED BY <2>2, <2>3, <2>4
<1> HIDE DEF P
<1>5. \A n \in 0..L : n \in P
  BY <1>3, <1>4, Induction
<1>6. L \in P
  BY <1>5
<1> QED BY <1>1, <1>6 DEF P, Positions

\* v is the value at index k of the values in order.
IsOrdered(v, q, k) ==
    v \in {q[i] : i \in Positions(q)} /\ Less(q, v) <= k /\ k < UpTo(q, v)

LEMMA OrderedValue ==
    ASSUME NEW q \in Seq(Nat), NEW k \in Nat, k < Len(q)
    PROVE  Ordered(q, k) \in Nat /\ IsOrdered(Ordered(q, k), q, k)
<1> DEFINE A == {m \in Nat : k < UpTo(q, m)}
           values == {q[i] : i \in Positions(q)}
<1>1. Len(q) \in Nat /\ \A i \in Positions(q) : q[i] \in Nat
  BY LenProperties, ElementOfSeq DEF Positions
<1>2. A # {}
  <2>1. PICK m \in Nat : \A i \in Positions(q) : q[i] <= m
    BY UpperBound
  <2>2. {i \in Positions(q) : q[i] < m + 1} = {i \in Positions(q) : q[i] <= m}
        /\ {i \in Positions(q) : q[i] >= m + 1} = {}
    BY <1>1, <2>1
  <2>3. UpTo(q, m) = Less(q, m + 1) /\ From(q, m + 1) = 0
    BY <2>2, FS_EmptySet DEF UpTo, Less, From
  <2>4. UpTo(q, m) = Len(q)
    BY <1>1, <2>3, Counted
  <2> QED BY <2>4
<1>3. PICK m \in A : \A n \in A : m <= n
  <2>1. A \subseteq Nat
    OBVIOUS
  <2> HIDE DEF A
  <2> QED BY <1>2, <2>1, LeastElement
<1>4. m \in Nat /\ k < UpTo(q, m)
  BY <1>3
<1>5. Less(q, m) <= k
  <2>1. CASE m = 0
    <3>1. {i \in Positions(q) : q[i] < m} = {}
      BY <1>1, <2>1
    <3>2. Less(q, m) = 0
      BY <3>1, FS_EmptySet DEF Less
    <3> QED BY <3>2
  <2>2. CASE m # 0
    <3>1. m - 1 \in Nat /\ m - 1 \notin A
      BY <1>3, <1>4, <2>2
    <3>2. {i \in Positions(q) : q[i] < m} = {i \in Positions(q) : q[i] <= m - 1}
      BY <1>1, <1>4
    <3>3. Less(q, m) = UpTo(q, m - 1)
      BY <3>2 DEF Less, UpTo
    <3>4. UpTo(q, m - 1) \in Nat
      BY <3>1, Counted
    <3> QED BY <3>1, <3>3, <3>4
  <2> QED BY <2>1, <2>2
<1>6. m \in values
  <2> SUFFICES ASSUME m \notin values PROVE FALSE
    OBVIOUS
  <2>1. {i \in Positions(q) : q[i] < m} = {i \in Positions(q) : q[i] <= m}
    BY <1>1, <1>4
  <2>2. Less(q, m) = UpTo(q, m)
    BY <2>1 DEF Less, UpTo
  <2>3. Less(q, m) \in Nat
    BY <1>4, Counted
  <2> QED BY <1>4, <1>5, <2>2, <2>3
<1>7. IsOrdered(m, q, k)
  BY <1>4, <1>5, <1>6 DEF IsOrdered
<1>8. Ordered(q, k) = CHOOSE v \in values : Less(q, v) <= k /\ k < UpTo(q, v)
  BY DEF Ordered, Less, UpTo
<1>9. IsOrdered(Ordered(q, k), q, k)
  BY <1>7, <1>8 DEF IsOrdered
<1> QED BY <1>1, <1>9 DEF IsOrdered

LEMMA OrderedMonotone ==
    ASSUME NEW q \in Seq(Nat), NEW k \in Nat, NEW l \in Nat, k <= l, l < Len(q)
    PROVE  Ordered(q, k) <= Ordered(q, l)
<1>1. Len(q) \in Nat /\ \A i \in Positions(q) : q[i] \in Nat
  BY LenProperties, ElementOfSeq DEF Positions
<1>2. PICK a \in Nat : a = Ordered(q, k) /\ IsOrdered(a, q, k)
  BY <1>1, OrderedValue
<1>3. PICK b \in Nat : b = Ordered(q, l) /\ IsOrdered(b, q, l)
  BY OrderedValue
<1> SUFFICES ASSUME b < a PROVE FALSE
  BY <1>2, <1>3
<1>4. {i \in Positions(q) : q[i] <= b} \subseteq {i \in Positions(q) : q[i] < a}
  BY <1>1
<1>5. UpTo(q, b) <= Less(q, a)
  BY <1>4, SubsetCounts DEF UpTo, Less
<1>6. UpTo(q, b) \in Nat /\ Less(q, a) \in Nat
  BY Counted
<1> QED BY <1>2, <1>3, <1>5, <1>6 DEF IsOrdered

-----------------------------------------------------------------------------
LEMMA Products ==
    ASSUME NEW n \in Nat, NEW a \in Nat, NEW b \in Nat, a <= b
    PROVE  n * a \in Nat /\ n * b \in Nat /\ n * a <= n * b
OBVIOUS

\* The parts of a percentile v: a position of 100 * lower + fraction among
\* steps of 100 each, between the values a and b.
Parts(v, q, p, pos, lower, upper, fraction, a, b) ==
    /\ pos = (Len(q) - 1) * p
    /\ pos = 100 * lower + fraction
    /\ fraction < 100
    /\ lower <= upper /\ upper <= lower + 1 /\ upper < Len(q)
    /\ fraction # 0 => upper = lower + 1
    /\ IsOrdered(a, q, lower) /\ a = Ordered(q, lower)
    /\ IsOrdered(b, q, upper) /\ b = Ordered(q, upper)
    /\ v = 100 * a + (b - a) * fraction

LEMMA PercentileParts ==
    ASSUME NEW q \in Seq(Nat), q # <<>>, NEW p \in 0..100
    PROVE  \E pos, lower, upper, fraction, a, b \in Nat :
             Parts(Percentile(q, p), q, p, pos, lower, upper, fraction, a, b)
<1>1. PICK N \in Nat : Len(q) = N + 1
  <2>1. Len(q) \in Nat \ {0}
    BY EmptySeq
  <2> QED BY <2>1
<1>2. PICK pos \in Nat : pos = N * p /\ pos <= N * 100
  BY Products
<1> DEFINE lower == pos \div 100
           fraction == pos % 100
           upper == IF lower + 1 < Len(q) THEN lower + 1 ELSE Len(q) - 1
<1>3. /\ lower \in Nat /\ fraction \in Nat /\ fraction < 100
      /\ pos = 100 * lower + fraction
  OBVIOUS
<1> HIDE DEF lower, fraction
<1>4. lower <= N /\ (fraction # 0 => lower < N)
  BY <1>2, <1>3
<1>5. /\ upper \in Nat /\ lower <= upper /\ upper <= lower + 1 /\ upper < Len(q)
      /\ fraction # 0 => upper = lower + 1
  BY <1>1, <1>3, <1>4
<1>6. Percentile(q, p) = 100 * Ordered(q, lower)
                           + (Ordered(q, upper) - Ordered(q, lower)) * fraction
  <2>1. Position(q, p) = pos
    BY <1>1, <1>2 DEF Position
  <2> QED BY <2>1 DEF Percentile, lower, fraction
<1> HIDE DEF upper
<1>7. /\ Ordered(q, lower) \in Nat /\ IsOrdered(Ordered(q, lower), q, lower)
      /\ Ordered(q, upper) \in Nat /\ IsOrdered(Ordered(q, upper), q, upper)
  BY <1>1, <1>3, <1>4, <1>5, OrderedValue
<1>8. pos = (Len(q) - 1) * p
  BY <1>1, <1>2
<1>9. Parts(Percentile(q, p), q, p, pos, lower, upper, fraction,
            Ordered(q, lower), Ordered(q, upper))
  BY <1>3, <1>5, <1>6, <1>7, <1>8 DEF Parts
<1> QED BY <1>2, <1>3, <1>5, <1>7, <1>9

\* A percentile lies between the two values.
LEMMA Interpolated ==
    ASSUME NEW a \in Nat, NEW b \in Nat, NEW f \in Nat, a <= b, f < 100
    PROVE  /\ 100 * a + (b - a) * f \in Nat
           /\ 100 * a <= 100 * a + (b - a) * f
           /\ 100 * a + (b - a) * f <= 100 * b
           /\ f = 0 => 100 * a + (b - a) * f = 100 * a
<1>1. PICK d \in Nat : d = b - a
  OBVIOUS
<1>2. d * f \in Nat /\ d * f <= d * 100
  BY Products
<1>3. f = 0 => d * f = 0
  OBVIOUS
<1> QED BY <1>1, <1>2, <1>3

Between(v, a, b, fraction) ==
    /\ v \in Nat /\ a <= b /\ 100 * a <= v /\ v <= 100 * b
    /\ fraction = 0 => v = 100 * a

LEMMA PartsPlaced ==
    ASSUME NEW q \in Seq(Nat), NEW p \in 0..100, NEW v,
           NEW pos \in Nat, NEW lower \in Nat, NEW upper \in Nat, NEW fraction \in Nat,
           NEW a \in Nat, NEW b \in Nat, Parts(v, q, p, pos, lower, upper, fraction, a, b)
    PROVE  Between(v, a, b, fraction)
<1>1. a <= b
  BY OrderedMonotone DEF Parts
<1>2. fraction < 100 /\ v = 100 * a + (b - a) * fraction
  BY DEF Parts
<1>3. Between(v, a, b, fraction)
  BY ONLY <1>1, <1>2, Interpolated, a \in Nat, b \in Nat, fraction \in Nat DEF Between
<1> QED BY <1>3

LEMMA PercentilePlaced ==
    ASSUME NEW q \in Seq(Nat), q # <<>>, NEW p \in 0..100
    PROVE  /\ 100 * Cardinality({i \in Positions(q) : 100 * q[i] <= Percentile(q, p)})
                > (Len(q) - 1) * p
           /\ 100 * Cardinality({i \in Positions(q) : 100 * q[i] >= Percentile(q, p)})
                > (Len(q) - 1) * (100 - p)
<1>0. PICK pos, lower, upper, fraction, a, b \in Nat :
         Parts(Percentile(q, p), q, p, pos, lower, upper, fraction, a, b)
  BY PercentileParts
<1>1. PICK v \in Nat : /\ v = Percentile(q, p)
                       /\ 100 * a <= v /\ v <= 100 * b
                       /\ fraction = 0 => v = 100 * a
  <2>1. Between(Percentile(q, p), a, b, fraction)
    BY <1>0, PartsPlaced
  <2> QED BY <2>1 DEF Between
<1>2. Len(q) \in Nat /\ \A i \in Positions(q) : q[i] \in Nat
  BY LenProperties, ElementOfSeq DEF Positions
<1>6. /\ pos = 100 * lower + fraction /\ fraction < 100
      /\ fraction # 0 => upper = lower + 1
  BY <1>0 DEF Parts
<1> DEFINE most == {i \in Positions(q) : 100 * q[i] <= v}
           least == {i \in Positions(q) : 100 * q[i] >= v}
<1>3. 100 * Cardinality(most) > pos
  <2>1. {i \in Positions(q) : q[i] <= a} \subseteq most
    BY <1>1, <1>2
  <2>2. UpTo(q, a) <= Cardinality(most) /\ Cardinality(most) \in Nat
    <3>1. most \subseteq Positions(q)
      OBVIOUS
    <3> HIDE DEF most
    <3> QED BY <2>1, <3>1, SubsetCounts DEF UpTo
  <2> HIDE DEF most
  <2>3. lower < UpTo(q, a) /\ UpTo(q, a) \in Nat
    BY <1>0, Counted DEF Parts, IsOrdered
  <2> QED BY <1>6, <2>2, <2>3
<1>4. 100 * Cardinality(least) > 100 * (Len(q) - 1) - pos
  <2>0. least \subseteq Positions(q)
    OBVIOUS
  <2>1. CASE fraction = 0
    <3>1. {i \in Positions(q) : q[i] >= a} \subseteq least
      BY <1>1, <1>2, <2>1
    <3>2. From(q, a) <= Cardinality(least) /\ Cardinality(least) \in Nat
      <4> HIDE DEF least
      <4> QED BY <2>0, <3>1, SubsetCounts DEF From
    <3> HIDE DEF least
    <3>3. Less(q, a) <= lower /\ Less(q, a) \in Nat /\ From(q, a) \in Nat
          /\ Less(q, a) + From(q, a) = Len(q)
      BY <1>0, Counted DEF Parts, IsOrdered
    <3> QED BY ONLY <1>2, <1>6, <2>1, <3>2, <3>3, lower \in Nat, upper \in Nat
  <2>2. CASE fraction # 0
    <3>1. {i \in Positions(q) : q[i] >= b} \subseteq least
      BY <1>1, <1>2
    <3>2. From(q, b) <= Cardinality(least) /\ Cardinality(least) \in Nat
      <4> HIDE DEF least
      <4> QED BY <2>0, <3>1, SubsetCounts DEF From
    <3> HIDE DEF least
    <3>3. Less(q, b) <= upper /\ Less(q, b) \in Nat /\ From(q, b) \in Nat
          /\ Less(q, b) + From(q, b) = Len(q)
      BY <1>0, Counted DEF Parts, IsOrdered
    <3> QED BY ONLY <1>2, <1>6, <2>2, <3>2, <3>3, lower \in Nat, upper \in Nat, fraction \in Nat
  <2> QED BY <2>1, <2>2
<1>5. pos = (Len(q) - 1) * p
  BY <1>0 DEF Parts
<1>7. (Len(q) - 1) * (100 - p) = 100 * (Len(q) - 1) - pos
  BY <1>2, <1>5
<1> QED BY <1>1, <1>3, <1>4, <1>5, <1>7

LEMMA PercentileMonotone ==
    ASSUME NEW q \in Seq(Nat), q # <<>>, NEW p \in 0..100, NEW r \in 0..100, p <= r
    PROVE  Percentile(q, p) <= Percentile(q, r)
<1>0. PICK N \in Nat : N = Len(q) - 1
  <2>1. Len(q) \in Nat \ {0}
    BY EmptySeq
  <2> QED BY <2>1
<1>1. PICK pos, lower, upper, fraction, a, b \in Nat :
         Parts(Percentile(q, p), q, p, pos, lower, upper, fraction, a, b)
  BY PercentileParts
<1>2. PICK pos2, lower2, upper2, fraction2, a2, b2 \in Nat :
         Parts(Percentile(q, r), q, r, pos2, lower2, upper2, fraction2, a2, b2)
  BY PercentileParts
<1> DEFINE v == Percentile(q, p)
           w == Percentile(q, r)
<1>3. /\ v \in Nat /\ a <= b /\ 100 * a <= v /\ v <= 100 * b
      /\ fraction = 0 => v = 100 * a
  <2>1. Between(Percentile(q, p), a, b, fraction)
    BY <1>1, PartsPlaced
  <2> QED BY <2>1 DEF Between
<1>4. /\ w \in Nat /\ a2 <= b2 /\ 100 * a2 <= w /\ w <= 100 * b2
  <2>1. Between(Percentile(q, r), a2, b2, fraction2)
    BY <1>2, PartsPlaced
  <2> QED BY <2>1 DEF Between
<1>5. pos <= pos2
  <2>1. pos = N * p /\ pos2 = N * r
    BY <1>0, <1>1, <1>2 DEF Parts
  <2> QED BY <2>1, Products
<1>6. /\ pos = 100 * lower + fraction /\ fraction < 100
      /\ upper <= lower + 1 /\ upper < Len(q) /\ (fraction # 0 => upper = lower + 1)
      /\ a = Ordered(q, lower) /\ b = Ordered(q, upper)
      /\ v = 100 * a + (b - a) * fraction
  BY <1>1 DEF Parts
<1>7. /\ pos2 = 100 * lower2 + fraction2 /\ fraction2 < 100
      /\ lower2 <= upper2 /\ upper2 < Len(q) /\ (fraction2 # 0 => upper2 = lower2 + 1)
      /\ a2 = Ordered(q, lower2) /\ b2 = Ordered(q, upper2)
      /\ w = 100 * a2 + (b2 - a2) * fraction2
  BY <1>2 DEF Parts
<1> HIDE DEF v, w
<1>11. /\ pos = 100 * lower + fraction /\ fraction < 100
       /\ upper <= lower + 1 /\ upper < Len(q) /\ (fraction # 0 => upper = lower + 1)
  BY <1>6
<1>12. /\ pos2 = 100 * lower2 + fraction2 /\ fraction2 < 100
       /\ lower2 <= upper2 /\ upper2 < Len(q) /\ (fraction2 # 0 => upper2 = lower2 + 1)
  BY <1>7
<1>8. lower <= lower2 /\ (lower = lower2 => fraction <= fraction2)
  BY ONLY <1>5, <1>11, <1>12, lower \in Nat, lower2 \in Nat, fraction \in Nat,
          fraction2 \in Nat, pos \in Nat, pos2 \in Nat
<1>9. Len(q) \in Nat
  BY LenProperties
<1>10. v <= w
  <2>1. CASE lower < lower2
    <3>1. upper <= lower2 /\ lower2 < Len(q)
      BY ONLY <1>11, <1>12, <1>9, <2>1, lower \in Nat, lower2 \in Nat, upper \in Nat,
              upper2 \in Nat
    <3>2. b <= a2
      BY <1>6, <1>7, <3>1, OrderedMonotone
    <3> QED BY <1>3, <1>4, <3>2
  <2>2. CASE lower = lower2 /\ fraction = 0
    <3>1. a = a2
      BY <1>6, <1>7, <2>2
    <3> QED BY <1>3, <1>4, <2>2, <3>1
  <2>3. CASE lower = lower2 /\ fraction # 0
    <3>1. fraction2 # 0
      BY <1>8, <2>3
    <3>2. a = a2 /\ b = b2
      BY <1>6, <1>7, <2>3, <3>1
    <3>3. PICK d \in Nat : d = b - a
      BY <1>3
    <3>4. d * fraction <= d * fraction2 /\ d * fraction \in Nat /\ d * fraction2 \in Nat
      BY <1>8, <2>3, Products
    <3>5. v = 100 * a + d * fraction /\ w = 100 * a + d * fraction2
      BY <1>6, <1>7, <3>2, <3>3
    <3> QED BY <3>4, <3>5
  <2> QED BY <1>8, <2>1, <2>2, <2>3
<1> QED BY <1>10 DEF v, w

-----------------------------------------------------------------------------
(***************************************************************************)
(* Whatever samples come and in whatever order, the counters, byte totals, *)
(* the reuse ratio and the duration of the bounded collector are those the *)
(* exact one computes from all samples.                                    *)
(***************************************************************************)
THEOREM BothModesAgree == Spec => []CountersExact
<1>1. Init => TypeInv /\ Counters /\ Extremes
  BY TypeInit, CountersInit
<1>2. (TypeInv /\ Counters /\ Extremes) /\ [Next]_vars => (TypeInv /\ Counters /\ Extremes)'
  <2> SUFFICES ASSUME TypeInv, Counters, Extremes, [Next]_vars PROVE Counters' /\ Extremes'
    BY TypeStep
  <2>1. CASE UNCHANGED vars
    BY <2>1 DEF vars, Counters, Extremes, AcquiredOnes, ReusedOnes, AppliedOnes
  <2>2. CASE Next
    BY <2>2, CountersStep, ExtremesStep DEF Next
  <2> QED BY <2>1, <2>2
<1> QED BY <1>1, <1>2, CountersAreExact, PTL DEF Spec

(***************************************************************************)
(* Whatever the reservoir size, a bounded collector's window has the last  *)
(* values of its stream, and all of them as long as they fit.              *)
(***************************************************************************)
THEOREM WindowsAreRecent == Spec => []WindowRecent
<1>1. Init => TypeInv /\ WindowRecent
  BY TypeInit, WindowInit
<1>2. (TypeInv /\ WindowRecent) /\ [Next]_vars => (TypeInv /\ WindowRecent)'
  BY TypeStep, WindowStep
<1> QED BY <1>1, <1>2, PTL DEF Spec

(***************************************************************************)
(* For any values at all, a percentile has its share of them on each side, *)
(* and a higher percentile is not smaller.                                 *)
(***************************************************************************)
THEOREM PercentilesArePlaced == Spec => []PercentilesInPlace
<1>1. TypeInv => PercentilesInPlace
  <2> SUFFICES ASSUME TypeInv, NEW stream \in Streams, window[stream] # <<>>,
                      NEW p \in Percentiles
               PROVE  LET queue == window[stream] IN
                      /\ 100 * Cardinality({i \in Positions(queue) :
                                              100 * queue[i] <= Percentile(queue, p)})
                           > (Len(queue) - 1) * p
                      /\ 100 * Cardinality({i \in Positions(queue) :
                                              100 * queue[i] >= Percentile(queue, p)})
                           > (Len(queue) - 1) * (100 - p)
                      /\ \A r \in Percentiles :
                            p <= r => Percentile(queue, p) <= Percentile(queue, r)
    BY DEF PercentilesInPlace
  <2> DEFINE queue == window[stream]
  <2>1. queue \in Seq(Nat) /\ queue # <<>> /\ p \in 0..100
    BY SamplesAssumption DEF TypeInv
  <2>2. \A r \in Percentiles : r \in 0..100
    BY SamplesAssumption
  <2> HIDE DEF queue
  <2>3. /\ 100 * Cardinality({i \in Positions(queue) : 100 * queue[i] <= Percentile(queue, p)})
             > (Len(queue) - 1) * p
        /\ 100 * Cardinality({i \in Positions(queue) : 100 * queue[i] >= Percentile(queue, p)})
             > (Len(queue) - 1) * (100 - p)
    BY <2>1, PercentilePlaced
  <2>4. \A r \in Percentiles : p <= r => Percentile(queue, p) <= Percentile(queue, r)
    BY <2>1, <2>2, PercentileMonotone
  <2> QED BY <2>3, <2>4 DEF queue
<1>2. Init => TypeInv
  BY TypeInit
<1>3. TypeInv /\ [Next]_vars => TypeInv'
  BY TypeStep
<1> QED BY <1>1, <1>2, <1>3, PTL DEF Spec
=============================================================================
