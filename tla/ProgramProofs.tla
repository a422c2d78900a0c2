--------------------------- MODULE ProgramProofs ---------------------------
(***************************************************************************)
(* Proofs about Program, for any command lines and limits: what the exit   *)
(* code tells, that only a plan that can be carried out is started, and    *)
(* that what it sends can be read in one way only.                         *)
(*                                                                         *)
(* None is inductive: how the program ends says what the steps before did, *)
(* so that the invariant says at every point of the program what has been  *)
(* started, printed and written by then (Progress) and what the checks     *)
(* that were passed have shown (Checked).  The last one is about sequences *)
(* of headers of any length: what is in them of some names before and      *)
(* after a fault and the encoder have taken headers out and put some in.   *)
(***************************************************************************)
EXTENDS Program, SeqRecursionProofs, FiniteSetTheorems

\* What has been done when the program is at each of its points.
Progress ==
    /\ at \in {"load", "validate", "run"} =>
           ~started /\ ~interrupted /\ out = "nothing" /\ file = "nothing"
    /\ at = "report" => started /\ out = "nothing" /\ file = "nothing"
    /\ at = "file" => started /\ args.output /\ out = "report" /\ file = "nothing"
    /\ at = "exit" => started /\ AllWritten
    /\ at # "over" => told = "nothing"

Loaded(a) == Parses(a) /\ ParsesTarget(a) /\ ValidFault(a) /\ ValidPlan(a)

\* What is known of the command line at each of them.
Checked ==
    /\ at # "load" /\ at # "over" => Loaded(args)
    /\ at \notin {"load", "validate", "over"} => Encodable(args.request)
    /\ started => Loaded(args) /\ Encodable(args.request)

ProgramInv == TypeOK /\ Progress /\ Checked /\ ExitTells

LEMMA NoneNegative ==
    None \in Int /\ None # 0 /\ None \notin {0, 1, 2, 3, 120, 130}
BY DEF None

LEMMA InitOK == Init => ProgramInv
<1>1. Init => TypeOK
  BY NoneNegative DEF Init, TypeOK
<1>2. Init => Progress /\ Checked /\ ExitTells
  BY DEF Init, Progress, Checked, ExitTells, None
<1> QED BY <1>1, <1>2 DEF ProgramInv

\* None is none of the statuses.
LEMMA Statuses ==
    /\ ExitCode.success = 0 /\ ExitCode.completedWithErrors = 1
    /\ ExitCode.executionFailure = 2 /\ ExitCode.invalidConfiguration = 3
    /\ ExitCode.interrupted = 130
    /\ PythonExit.uncaught = 1 /\ PythonExit.unflushed = 120
    /\ PythonExit.keyboardInterrupt = 130
    /\ None = -1
BY DEF ExitCode, PythonExit, None

-----------------------------------------------------------------------------
(* The steps, one group after the other: loading and constructing, the     *)
(* run, the report, the end.                                               *)

LEMMA LoadKeeps ==
    ASSUME ProgramInv, Load PROVE ProgramInv'
<1> USE Statuses DEF ProgramInv, TypeOK, Progress, Checked, ExitTells, AllWritten
<1>1. CASE at' = "validate" /\ Loaded(args) /\ UNCHANGED <<told, exit>>
  BY <1>1 DEF Load
<1>2. CASE Exits(ExitCode.invalidConfiguration, "error")
  BY <1>2 DEF Exits, Load
<1> QED BY <1>1, <1>2 DEF Load, Loaded

LEMMA ConstructKeeps ==
    ASSUME ProgramInv, Construct PROVE ProgramInv'
<1> USE Statuses DEF ProgramInv, TypeOK, Progress, Checked, ExitTells, AllWritten
<1>1. CASE at' = "run" /\ Encodable(args.request) /\ UNCHANGED <<told, exit>>
  BY <1>1 DEF Construct
<1>2. CASE Exits(ExitCode.invalidConfiguration, "error")
  BY <1>2 DEF Construct, Exits
<1>3. CASE Exits(PythonExit.uncaught, "traceback")
  BY <1>3 DEF Construct, Exits
<1> QED BY <1>1, <1>2, <1>3 DEF Construct

LEMMA RunKeeps ==
    ASSUME ProgramInv, ProgressFails \/ RunReturns \/ RunInterrupted \/ RunFails
    PROVE  ProgramInv'
<1> USE Statuses DEF ProgramInv, TypeOK, Progress, Checked, ExitTells, AllWritten
<1>1. CASE ProgressFails
  BY <1>1 DEF ProgressFails, Exits
<1>2. CASE RunReturns \/ RunInterrupted
  <2>1. /\ at = "run" /\ at' = "report" /\ started' = TRUE
        /\ failures' \in BOOLEAN /\ interrupted' \in BOOLEAN
        /\ UNCHANGED <<args, out, file, told, exit>>
    BY <1>2 DEF RunReturns, RunInterrupted
  <2>2. TypeOK'
    BY <2>1
  <2>3. Progress' /\ Checked' /\ ExitTells'
    BY <2>1
  <2> QED BY <2>2, <2>3
<1>3. CASE RunFails
  BY <1>3 DEF RunFails, Exits
<1> QED BY <1>1, <1>2, <1>3

LEMMA ReportKeeps ==
    ASSUME ProgramInv, Render \/ RenderFails \/ WriteFile \/ WriteFails \/ WriteRaises
    PROVE  ProgramInv'
<1> USE Statuses DEF ProgramInv, TypeOK, Progress, Checked, ExitTells, AllWritten
<1>1. CASE Render
  BY <1>1 DEF Render
<1>2. CASE RenderFails
  BY <1>2 DEF RenderFails, Exits
<1>3. CASE WriteFile
  BY <1>3 DEF WriteFile
<1>4. CASE WriteFails
  BY <1>4 DEF WriteFails, Exits
<1>5. CASE WriteRaises
  BY <1>5 DEF WriteRaises, Exits
<1> QED BY <1>1, <1>2, <1>3, <1>4, <1>5

LEMMA EndKeeps ==
    ASSUME ProgramInv, Return \/ Killed PROVE ProgramInv'
<1> USE Statuses DEF ProgramInv, TypeOK, Progress, Checked, ExitTells, AllWritten
<1>1. CASE Return
  BY <1>1 DEF Return, Exits
<1>2. CASE Killed
  BY <1>2 DEF Killed, Exits
<1> QED BY <1>1, <1>2

LEMMA StepKeeps == ProgramInv /\ [Next]_vars => ProgramInv'
<1> SUFFICES ASSUME ProgramInv, [Next]_vars PROVE ProgramInv'
  OBVIOUS
<1>1. CASE Over \/ UNCHANGED vars
  <2>1. UNCHANGED vars
    BY <1>1 DEF Over
  <2>2. TypeOK' /\ Progress' /\ Checked' /\ ExitTells'
    BY <2>1 DEF vars, ProgramInv, TypeOK, Progress, Checked, ExitTells, AllWritten
  <2> QED BY <2>2 DEF ProgramInv
<1> QED
  BY <1>1, LoadKeeps, ConstructKeeps, RunKeeps, ReportKeeps, EndKeeps DEF Next

LEMMA Inductive == Spec => []ProgramInv
BY InitOK, StepKeeps, PTL DEF Spec

-----------------------------------------------------------------------------
\* The variables of the program have their types, and one that is over, and no
\* other, has ended with one of the statuses there are.
THEOREM ProgramTyped == Spec => []TypeOK
<1>1. ProgramInv => TypeOK
  BY DEF ProgramInv
<1> QED BY <1>1, Inductive, PTL

\* Whatever the command line, wherever it fails and whenever Ctrl-C comes: 0, 2
\* and 3 tell what was started, printed and written, 1 and 130 do when stderr
\* has no traceback, and one comes with no other of the program's exit codes.
THEOREM ExitCodeTells == Spec => []ExitTells
<1>1. ProgramInv => ExitTells
  BY DEF ProgramInv
<1> QED BY <1>1, Inductive, PTL

\* One of two numbers is given: of the set of both, one is left.
LEMMA OneGiven ==
    ASSUME NEW m, NEW n, Given(m) # Given(n)
    PROVE  Cardinality({k \in {m, n} : Given(k)}) = 1
<1>1. CASE Given(m)
  <2>1. {k \in {m, n} : Given(k)} = {m}
    BY <1>1 DEF Given
  <2> QED BY <2>1, FS_Singleton
<1>2. CASE ~Given(m)
  <2>1. {k \in {m, n} : Given(k)} = {n}
    BY <1>2 DEF Given
  <2> QED BY <2>1, FS_Singleton
<1> QED BY <1>1, <1>2

\* No target has port 0.
LEMMA HasPort == ASSUME NEW a, ParsesTarget(a) PROVE a.url.port # 0
<1>1. a.url.port = None \/ a.url.port \in 1..MaxPort
  BY DEF ParsesTarget
<1>2. 0 \notin 1..MaxPort
  OBVIOUS
<1> QED BY <1>1, <1>2, NoneNegative

\* Whatever the command line and the limits, the run that begins has a target,
\* one workload within the time it was given and every limit, that of the number
\* of attempts included, a fault it can draw and a request that can be sent.
THEOREM OnlyValidPlansStart == Spec => []StartsOnlyValid
<1>1. ProgramInv => StartsOnlyValid
  <2> SUFFICES ASSUME ProgramInv, started PROVE StartsOnlyValid
    BY DEF StartsOnlyValid
  <2>1. /\ Parses(args) /\ ParsesTarget(args) /\ ValidFault(args) /\ ValidPlan(args)
        /\ Encodable(args.request)
    BY DEF ProgramInv, Checked, Loaded
  <2>2. /\ {args.count, args.duration, args.warmup, args.workers, args.connections,
            args.rate, args.runtime, args.reservoir, args.fault.probability} \subseteq Int
        /\ args.openLoop \in BOOLEAN /\ Given(args.workers) /\ Given(args.connections)
        /\ Given(args.reservoir)
    BY ArgumentsAssumption DEF ProgramInv, TypeOK
  <2>3. Cardinality({n \in {args.count, args.duration} : Given(n)}) = 1
    BY <2>1, OneGiven DEF Parses
  <2>4. args.openLoop <=> args.rate > 0
    BY <2>1, <2>2 DEF Parses, ValidPlan, Given, None
  <2>5. args.url.host = "name" /\ args.url.port # 0
    BY <2>1, HasPort DEF ParsesTarget
  <2>8. args.fault.mode # "none" => args.fault.probability \in 0..1
    BY <2>1, <2>2 DEF ValidFault, Parses
  <2>6. /\ Given(args.count) => args.count \in 1..Limits.requests
        /\ Given(args.duration) =>
               /\ args.duration \in 1..Limits.duration
               /\ args.warmup + args.duration <= RuntimeLimit(args)
        /\ args.warmup \in 0..RuntimeLimit(args)
        /\ args.request.body <= Limits.body
    BY <2>1, <2>2, LimitsAssumption
       DEF Parses, ValidPlan, WithinLimits, Planned, RuntimeLimit, Given, None
  <2>7. /\ args.workers \in 1..Limits.workers /\ args.connections \in 1..Limits.connections
        /\ args.reservoir \in 1..Limits.reservoir
    BY <2>1, <2>2, LimitsAssumption DEF Parses, ValidPlan, WithinLimits, Given, None
  <2> QED
    BY <2>1, <2>3, <2>4, <2>5, <2>6, <2>7, <2>8 DEF StartsOnlyValid
<1> QED BY <1>1, Inductive, PTL

-----------------------------------------------------------------------------
(* The headers of a request: those of a name, those without some names,    *)
(* and those that are sent.                                                *)

Of(S, names) == {h \in S : h.name \in names}

LEMMA NamedIsThose ==
    ASSUME NEW S, NEW headers \in Seq(S), NEW n
    PROVE  Named(headers, n) = Those(headers, Of(S, {n}))
<1>1. \A i \in 1..Len(headers) : headers[i] \in S
  BY ElementOfSeq
<1>2. Places(headers, {n}) = {i \in 1..Len(headers) : headers[i] \in Of(S, {n})}
  BY <1>1 DEF Places, Of
<1> QED BY <1>2 DEF Named, Those

LEMMA WithoutIsThose ==
    ASSUME NEW S, NEW headers \in Seq(S), NEW N
    PROVE  Without(headers, N) = Those(headers, S \ Of(S, N))
<1>1. \A i \in 1..Len(headers) : headers[i] \in S
  BY ElementOfSeq
<1>2. 1..Len(headers) \ Places(headers, N)
        = {i \in 1..Len(headers) : headers[i] \in S \ Of(S, N)}
  BY <1>1 DEF Places, Of
<1> QED BY <1>2 DEF Without, Those

LEMMA NamedTyped ==
    ASSUME NEW S, NEW headers \in Seq(S), NEW n PROVE Named(headers, n) \in Seq(S)
<1>1. Those(headers, Of(S, {n})) \in Seq(S)
  BY ThoseIsSeq
<1> QED BY <1>1, NamedIsThose

LEMMA WithoutTyped ==
    ASSUME NEW S, NEW headers \in Seq(S), NEW N PROVE Without(headers, N) \in Seq(S)
<1>1. Those(headers, S \ Of(S, N)) \in Seq(S)
  BY ThoseIsSeq
<1> QED BY <1>1, WithoutIsThose

LEMMA ThoseOfNone ==
    ASSUME NEW S, NEW s \in Seq(S) PROVE Those(s, {}) = <<>>
<1> DEFINE t == Those(s, {})
<1>1. t \in Seq({})
  <2>1. t \in Seq(S \cap {})
    BY ThoseTyped
  <2>2. S \cap {} = {}
    OBVIOUS
  <2> QED BY <2>1, <2>2
<1> HIDE DEF t
<1>2. t = <<>>
  <2> SUFFICES ASSUME t # <<>> PROVE FALSE
    OBVIOUS
  <2>1. Head(t) \in {}
    BY <1>1, HeadTailProperties
  <2> QED BY <2>1
<1> QED BY <1>2 DEF t

LEMMA NamedWithout ==
    ASSUME NEW S, NEW headers \in Seq(S), NEW n, NEW N
    PROVE  Named(Without(headers, N), n) = IF n \in N THEN <<>> ELSE Named(headers, n)
<1> DEFINE T == S \ Of(S, N)
           U == Of(S, {n})
           w == Without(headers, N)
<1>1. w = Those(headers, T) /\ w \in Seq(S)
  BY WithoutIsThose, WithoutTyped
<1>2. Named(w, n) = Those(w, U)
  <2> HIDE DEF w
  <2> QED BY <1>1, NamedIsThose
<1>3. Those(Those(headers, T), U) = Those(headers, T \cap U)
  <2> HIDE DEF T, U
  <2> QED BY ThoseOfThose
<1>4. T \cap U = IF n \in N THEN {} ELSE U
  BY DEF Of
<1>5. Those(headers, {}) = <<>> /\ Those(headers, U) = Named(headers, n)
  BY ThoseOfNone, NamedIsThose
<1> HIDE DEF T, U, w
<1>6. Named(w, n) = IF n \in N THEN <<>> ELSE Named(headers, n)
  BY <1>1, <1>2, <1>3, <1>4, <1>5
<1> QED BY <1>6 DEF w

LEMMA NamedConcat ==
    ASSUME NEW S, NEW a \in Seq(S), NEW b \in Seq(S), NEW n
    PROVE  Named(a \o b, n) = Named(a, n) \o Named(b, n)
<1> DEFINE c == a \o b
           U == Of(S, {n})
<1>1. c \in Seq(S)
  BY ConcatProperties
<1>2. Named(a, n) = Those(a, U) /\ Named(b, n) = Those(b, U)
  BY NamedIsThose
<1>3. Named(c, n) = Those(c, U)
  <2> HIDE DEF c
  <2> QED BY <1>1, NamedIsThose
<1> HIDE DEF U
<1>4. Those(c, U) = Those(a, U) \o Those(b, U)
  BY ThoseConcat
<1> QED BY <1>2, <1>3, <1>4

LEMMA NamedOne ==
    ASSUME NEW m, NEW v, NEW n
    PROVE  Named(<<Header(m, v)>>, n) = IF m = n THEN <<Header(m, v)>> ELSE <<>>
<1> DEFINE h == Header(m, v)
           s == <<h>>
           S == {h}
<1>1. h.name = m
  BY DEF Header
<1>2. h \in Of(S, {n}) <=> m = n
  BY <1>1 DEF Of
<1> HIDE DEF h
<1>3. s \in Seq(S)
  OBVIOUS
<1> HIDE DEF S
<1>4. Those(s, Of(S, {n})) = IF h \in Of(S, {n}) THEN s ELSE <<>>
  BY ThoseSingle
<1> HIDE DEF s
<1>5. Named(s, n) = IF m = n THEN s ELSE <<>>
  BY <1>2, <1>3, <1>4, NamedIsThose
<1> QED BY <1>5 DEF s, h

LEMMA NamedOfNone == ASSUME NEW n PROVE Named(<<>>, n) = <<>>
BY SelectedEmpty DEF Named

LEMMA NamedMissing ==
    ASSUME NEW headers, NEW m, NEW n
    PROVE  Named(Missing(headers, m), n)
             = IF m = n /\ Named(headers, n) = <<>> THEN <<Header(n, "added")>> ELSE <<>>
<1>1. CASE Named(headers, m) = <<>>
  <2>1. Missing(headers, m) = <<Header(m, "added")>>
    BY <1>1 DEF Missing
  <2> QED BY <1>1, <2>1, NamedOne
<1>2. CASE Named(headers, m) # <<>>
  <2>1. Missing(headers, m) = <<>>
    BY <1>2 DEF Missing
  <2> QED BY <1>2, <2>1, NamedOfNone
<1> QED BY <1>1, <1>2

Added == {"host", "accept-encoding", "content-length"}

\* The headers of four parts.
NamedIn(a, h, b, c, n) ==
    Named(a \o h \o b \o c, n) = Named(a, n) \o Named(h, n) \o Named(b, n) \o Named(c, n)

LEMMA NamedParts ==
    ASSUME NEW S, NEW a, NEW h, NEW b, NEW c, NEW n,
           a \in Seq(S), h \in Seq(S), b \in Seq(S), c \in Seq(S)
    PROVE  NamedIn(a, h, b, c, n)
<1>1. a \o h \in Seq(S) /\ Named(a \o h, n) = Named(a, n) \o Named(h, n)
  <2>1. a \in Seq(S) /\ h \in Seq(S)
    OBVIOUS
  <2>2. a \o h \in Seq(S)
    BY ONLY <2>1, ConcatProperties
  <2>3. Named(a \o h, n) = Named(a, n) \o Named(h, n)
    BY ONLY <2>1, NamedConcat
  <2> QED BY <2>2, <2>3
<1>2. PICK d : d = a \o h
  OBVIOUS
<1>3. d \o b \in Seq(S) /\ Named(d \o b, n) = Named(d, n) \o Named(b, n)
  <2>1. d \in Seq(S) /\ b \in Seq(S)
    BY <1>1, <1>2
  <2>2. d \o b \in Seq(S)
    BY ONLY <2>1, ConcatProperties
  <2>3. Named(d \o b, n) = Named(d, n) \o Named(b, n)
    BY ONLY <2>1, NamedConcat
  <2> QED BY <2>2, <2>3
<1>4. PICK e : e = d \o b
  OBVIOUS
<1>5. Named(e \o c, n) = Named(e, n) \o Named(c, n)
  <2>1. e \in Seq(S) /\ c \in Seq(S)
    BY <1>3, <1>4
  <2> QED BY ONLY <2>1, NamedConcat
<1> QED BY ONLY <1>1, <1>2, <1>3, <1>4, <1>5 DEF NamedIn

OnlyOne(a, h, b, c) ==
    /\ a = <<>> /\ b = <<>> /\ c = <<>> => a \o h \o b \o c = h
    /\ h = <<>> /\ b = <<>> /\ c = <<>> => a \o h \o b \o c = a
    /\ a = <<>> /\ h = <<>> /\ c = <<>> => a \o h \o b \o c = b
    /\ a = <<>> /\ h = <<>> /\ b = <<>> => a \o h \o b \o c = c

\* Of four sequences of which at most one is not empty, that one.
LEMMA OneOfFour ==
    ASSUME NEW S, NEW a \in Seq(S), NEW h \in Seq(S), NEW b \in Seq(S), NEW c \in Seq(S)
    PROVE  OnlyOne(a, h, b, c)
<1>1. \A s \in Seq(S) : s \o <<>> = s /\ <<>> \o s = s
  BY ConcatEmptySeq
<1>2. <<>> \in Seq(S)
  BY EmptySeq
<1> QED BY <1>1, <1>2 DEF OnlyOne

\* Of each name that is sent, what the request has, and something of the three
\* that must not be missing.
LEMMA Sent ==
    ASSUME NEW S, NEW r, r.headers \in Seq(S), NEW n
    PROVE  Named(Encode(r), n)
             = IF n \in Added /\ Named(r.headers, n) = <<>> THEN <<Header(n, "added")>>
               ELSE Named(r.headers, n)
<1> DEFINE x == Header(n, "added")
           T == S \cup {Header(m, "added") : m \in Added \cup {n}}
           h == r.headers
           a == Missing(h, "host")
           b == Missing(h, "accept-encoding")
           c == Missing(h, "content-length")
<1>1. h \in Seq(T) /\ \A m \in Added \cup {n} : <<Header(m, "added")>> \in Seq(T)
  <2>1. S \subseteq T /\ \A m \in Added \cup {n} : Header(m, "added") \in T
    OBVIOUS
  <2> HIDE DEF T
  <2> QED BY <2>1, SeqMonotonic
<1> HIDE DEF T
<1>2. <<>> \in Seq(T)
  BY EmptySeq
<1>3. a \in Seq(T) /\ b \in Seq(T) /\ c \in Seq(T)
  <2> HIDE DEF h
  <2> QED BY <1>1, <1>2 DEF Missing, Added
<1>4. /\ Named(a, n) = IF "host" = n /\ Named(h, n) = <<>> THEN <<x>> ELSE <<>>
      /\ Named(b, n) = IF "accept-encoding" = n /\ Named(h, n) = <<>> THEN <<x>> ELSE <<>>
      /\ Named(c, n) = IF "content-length" = n /\ Named(h, n) = <<>> THEN <<x>> ELSE <<>>
  BY NamedMissing
<1>5. Encode(r) = a \o h \o b \o c
  BY DEF Encode
<1>6. <<x>> \in Seq(T)
  BY <1>1
<1> HIDE DEF a, b, c, h
<1>7. Named(Encode(r), n) = Named(a, n) \o Named(h, n) \o Named(b, n) \o Named(c, n)
  <2>1. h \in Seq(T)
    BY <1>1
  <2>2. NamedIn(a, h, b, c, n)
    BY ONLY <1>3, <2>1, NamedParts
  <2> QED BY <1>5, <2>2 DEF NamedIn
<1>8. /\ Named(a, n) \in Seq(T) /\ Named(h, n) \in Seq(T)
      /\ Named(b, n) \in Seq(T) /\ Named(c, n) \in Seq(T)
  BY <1>1, <1>3, NamedTyped
<1> DEFINE y == <<x>>
<1>9. /\ Named(a, n) = IF "host" = n /\ Named(h, n) = <<>> THEN y ELSE <<>>
      /\ Named(b, n) = IF "accept-encoding" = n /\ Named(h, n) = <<>> THEN y ELSE <<>>
      /\ Named(c, n) = IF "content-length" = n /\ Named(h, n) = <<>> THEN y ELSE <<>>
  BY <1>4
<1> HIDE DEF y
<1>11. OnlyOne(Named(a, n), Named(h, n), Named(b, n), Named(c, n))
  BY ONLY <1>8, OneOfFour
<1>10. Named(Encode(r), n) = IF n \in Added /\ Named(h, n) = <<>> THEN y ELSE Named(h, n)
  <2>1. CASE n \notin Added \/ Named(h, n) # <<>>
    <3>1. Named(a, n) = <<>> /\ Named(b, n) = <<>> /\ Named(c, n) = <<>>
      BY <1>9, <2>1 DEF Added
    <3> QED BY <1>7, <1>11, <2>1, <3>1 DEF OnlyOne
  <2>2. CASE n \in Added /\ Named(h, n) = <<>>
    <3>1. \/ Named(a, n) = y /\ Named(b, n) = <<>> /\ Named(c, n) = <<>>
          \/ Named(a, n) = <<>> /\ Named(b, n) = y /\ Named(c, n) = <<>>
          \/ Named(a, n) = <<>> /\ Named(b, n) = <<>> /\ Named(c, n) = y
      BY <1>9, <2>2 DEF Added
    <3>2. Named(a, n) \o Named(h, n) \o Named(b, n) \o Named(c, n) = y
      BY ONLY <1>11, <2>2, <3>1 DEF OnlyOne
    <3> QED BY <1>7, <2>2, <3>2
  <2> QED BY <2>1, <2>2
<1> QED BY <1>10 DEF h, y

-----------------------------------------------------------------------------
(* What the encoder accepts is sent unambiguously, and what a fault makes  *)
(* of it is accepted.                                                      *)

\* What RequestsUnambiguous says of every request.
ReadOneWay(r) ==
    /\ Len(Named(Encode(r), "host")) = 1
    /\ Len(Named(Encode(r), "content-length")) = 1
    /\ Named(Encode(r), "content-length")[1].value # "added" =>
           Declares(Named(Encode(r), "content-length")[1].value) = r.body
    /\ Named(Encode(r), "transfer-encoding") = <<>>

LEMMA OneIsFirst ==
    ASSUME NEW S, NEW q \in Seq(S), Len(q) <= 1, q # <<>>
    PROVE  Len(q) = 1 /\ q[1] \in Range(q)
<1>1. \A s \in Seq(S) : s # <<>> => Len(s) \in Nat \ {0}
  BY EmptySeq
<1>2. Len(q) \in Nat \ {0}
  BY <1>1
<1>3. Range(q) = {q[i] : i \in 1..Len(q)}
  BY RangeEquality
<1>4. Len(q) = 1
  BY <1>2
<1>5. 1 \in 1..Len(q)
  BY <1>4
<1> QED BY <1>3, <1>4, <1>5

LEMMA EncodedOnce ==
    ASSUME NEW S, NEW r, r.headers \in Seq(S), Encodable(r) PROVE ReadOneWay(r)
<1>1. /\ Len(Named(r.headers, "host")) <= 1
      /\ Named(r.headers, "transfer-encoding") = <<>>
      /\ Len(Named(r.headers, "content-length")) <= 1
      /\ \A h \in Range(Named(r.headers, "content-length")) : Declares(h.value) = r.body
  BY DEF Encodable
<1>2. \A q \in Seq(S) : Len(q) <= 1 /\ q # <<>> => Len(q) = 1 /\ q[1] \in Range(q)
  BY OneIsFirst
<1>3. Len(Named(Encode(r), "host")) = 1
  <2>1. Named(Encode(r), "host")
          = IF Named(r.headers, "host") = <<>> THEN <<Header("host", "added")>>
            ELSE Named(r.headers, "host")
    BY Sent DEF Added
  <2>2. Named(r.headers, "host") \in Seq(S)
    BY NamedTyped
  <2>3. Named(r.headers, "host") # <<>> => Len(Named(r.headers, "host")) = 1
    BY <1>1, <1>2, <2>2
  <2>4. Len(<<Header("host", "added")>>) = 1
    OBVIOUS
  <2> QED BY <2>1, <2>3, <2>4
<1>4. /\ Len(Named(Encode(r), "content-length")) = 1
      /\ Named(Encode(r), "content-length")[1].value # "added" =>
             Declares(Named(Encode(r), "content-length")[1].value) = r.body
  <2> DEFINE q == Named(r.headers, "content-length")
             x == <<Header("content-length", "added")>>
  <2>1. Named(Encode(r), "content-length") = IF q = <<>> THEN x ELSE q
    BY Sent DEF Added
  <2>2. q \in Seq(S)
    BY NamedTyped
  <2>3. Len(q) <= 1 /\ \A h \in Range(q) : Declares(h.value) = r.body
    BY <1>1
  <2>4. Len(x) = 1 /\ x[1].value = "added"
    BY DEF Header
  <2> HIDE DEF q, x
  <2>5. q # <<>> => Len(q) = 1 /\ q[1] \in Range(q)
    BY <1>2, <2>2, <2>3
  <2> QED BY <2>1, <2>3, <2>4, <2>5
<1>5. Named(Encode(r), "transfer-encoding") = <<>>
  <2>1. Named(Encode(r), "transfer-encoding") = Named(r.headers, "transfer-encoding")
    BY Sent DEF Added
  <2> QED BY <1>1, <2>1
<1> QED BY <1>3, <1>4, <1>5 DEF ReadOneWay

LEMMA WithoutSelects ==
    ASSUME NEW S, NEW headers \in Seq(S), NEW N
    PROVE  Range(Without(headers, N)) \subseteq Range(headers)
<1> DEFINE R == Range(headers)
<1>1. headers \in Seq(R)
  BY SeqOfRange
<1> HIDE DEF R
<1>2. Without(headers, N) \in Seq(R)
  BY <1>1, WithoutTyped
<1> QED BY <1>2, RangeOfSeq DEF R

RequestType(S) == [method : STRING, target : STRING, body : Nat, headers : Seq(S)]

LEMMA ClosedEncodable ==
    ASSUME NEW S, NEW r \in RequestType(S), Encodable(r)
    PROVE  LET c == WithConnectionClose(r) IN
           /\ Encodable(c) /\ WantsClose(c)
           /\ Named(Encode(c), "connection") = <<Header("connection", "close")>>
           /\ c.headers \in Seq(S \cup {Header("connection", "close")})
<1> DEFINE c == WithConnectionClose(r)
           x == Header("connection", "close")
           T == S \cup {x}
           w == Without(r.headers, {"connection"})
<1>0. r.headers \in Seq(S)
  BY DEF RequestType
<1>1. /\ c.headers = Append(w, x) /\ c.target = r.target /\ c.body = r.body
  BY DEF RequestType, WithConnectionClose
<1>2. w \in Seq(S) /\ Range(w) \subseteq Range(r.headers)
  BY <1>0, WithoutTyped, WithoutSelects
<1>3. \A n : Named(w, n) = IF n \in {"connection"} THEN <<>> ELSE Named(r.headers, n)
  BY <1>0, NamedWithout
<1>4. \A n : Named(<<x>>, n) = IF "connection" = n THEN <<x>> ELSE <<>>
  BY NamedOne
<1>5. x.name = "connection" /\ x.value = "close"
  BY DEF Header
<1>6. w \in Seq(T) /\ r.headers \in Seq(T) /\ x \in T
  <2>1. S \subseteq T
    OBVIOUS
  <2> QED BY <1>0, <1>2, <2>1, SeqMonotonic
<1> HIDE DEF c, x, T, w
<1>7. <<x>> \in Seq(T) /\ <<>> \in Seq(T)
  BY <1>6, EmptySeq
<1>8. c.headers = w \o <<x>>
  BY <1>1, <1>6, AppendIsConcat
<1> DEFINE y == <<x>>
<1>9. c.headers = w \o y /\ y \in Seq(T) /\ Range(y) = {x}
  <2>1. Range(y) = {y[i] : i \in 1..Len(y)}
    BY <1>7, RangeEquality
  <2>2. Len(y) = 1 /\ y[1] = x
    OBVIOUS
  <2>3. {y[i] : i \in 1..Len(y)} = {x}
    BY <2>2
  <2> QED BY <1>7, <1>8, <2>1, <2>3
<1>10. \A n : Named(y, n) = IF "connection" = n THEN y ELSE <<>>
  BY <1>4
<1> HIDE DEF y
<1>11. c.headers \in Seq(T) /\ Range(c.headers) = Range(w) \cup {x}
  BY <1>6, <1>9, ConcatProperties, RangeConcatenation
<1>12. ASSUME NEW n
       PROVE  Named(c.headers, n) = IF n = "connection" THEN y ELSE Named(r.headers, n)
  <2>1. Named(c.headers, n) = Named(w, n) \o Named(y, n)
    BY <1>6, <1>9, NamedConcat
  <2>2. Named(w, n) \in Seq(T) /\ Named(y, n) \in Seq(T)
    BY <1>6, <1>9, NamedTyped
  <2>3. CASE n = "connection"
    <3>1. Named(w, n) = <<>> /\ Named(y, n) = y
      BY <1>3, <1>10, <2>3
    <3>2. <<>> \o y = y
      BY <1>9, ConcatEmptySeq
    <3> QED BY <2>1, <2>3, <3>1, <3>2
  <2>4. CASE n # "connection"
    <3>1. Named(w, n) = Named(r.headers, n) /\ Named(y, n) = <<>>
      BY <1>3, <1>10, <2>4
    <3>2. Named(w, n) \o <<>> = Named(w, n)
      BY <2>2, ConcatEmptySeq
    <3> QED BY <2>1, <2>4, <3>1, <3>2
  <2> QED BY <2>3, <2>4
<1>13. Encodable(c)
  <2>1. \A h \in Range(c.headers) : h.value # "wide"
    BY <1>2, <1>5, <1>11 DEF Encodable
  <2>2. /\ Named(c.headers, "host") = Named(r.headers, "host")
        /\ Named(c.headers, "transfer-encoding") = Named(r.headers, "transfer-encoding")
        /\ Named(c.headers, "content-length") = Named(r.headers, "content-length")
    BY <1>12
  <2> QED BY <1>1, <2>1, <2>2 DEF Encodable
<1>14. WantsClose(c)
  BY <1>5, <1>11 DEF WantsClose
<1>15. Named(Encode(c), "connection") = y
  BY <1>11, <1>12, Sent DEF Added
<1> QED BY <1>11, <1>13, <1>14, <1>15 DEF c, x, T, y

LEMMA RandomizedEncodable ==
    ASSUME NEW S, NEW r \in RequestType(S), Encodable(r), NEW length
    PROVE  Encodable(WithBody(r, length)) /\ WithBody(r, length).headers \in Seq(S)
<1> DEFINE b == WithBody(r, length)
           N == {"content-length", "transfer-encoding"}
           w == Without(r.headers, N)
<1>0. r.headers \in Seq(S)
  BY DEF RequestType
<1>1. b.headers = w /\ b.target = r.target /\ b.body = length
  BY DEF RequestType, WithBody
<1>2. w \in Seq(S) /\ Range(w) \subseteq Range(r.headers)
  BY <1>0, WithoutTyped, WithoutSelects
<1>3. \A n : Named(w, n) = IF n \in N THEN <<>> ELSE Named(r.headers, n)
  BY <1>0, NamedWithout
<1> HIDE DEF b, w
<1>4. /\ Named(w, "host") = Named(r.headers, "host")
      /\ Named(w, "content-length") = <<>> /\ Named(w, "transfer-encoding") = <<>>
  BY <1>3
<1>5. Len(<<>>) = 0 /\ Range(<<>>) = {}
  <2>1. <<>> \in Seq({})
    BY EmptySeq
  <2>2. Range(<<>>) \in SUBSET {}
    BY ONLY <2>1, RangeOfSeq
  <2> QED BY <2>2
<1> DEFINE e == <<>>
<1>6. Len(e) = 0 /\ Range(e) = {} /\ Named(w, "content-length") = e
  BY <1>4, <1>5
<1>7. Encodable(b)
  <2>1. b.target = "ascii" /\ (\A h \in Range(b.headers) : h.value # "wide")
    BY <1>1, <1>2 DEF Encodable
  <2>2. /\ Len(Named(b.headers, "host")) <= 1
        /\ \A h \in Range(Named(b.headers, "host")) : h.value # ""
    BY <1>1, <1>4 DEF Encodable
  <2>3. Named(b.headers, "transfer-encoding") = <<>>
    BY <1>1, <1>4
  <2>4. /\ Len(Named(b.headers, "content-length")) <= 1
        /\ \A h \in Range(Named(b.headers, "content-length")) : Declares(h.value) = b.body
    BY <1>1, <1>6
  <2> QED BY <2>1, <2>2, <2>3, <2>4 DEF Encodable
<1> QED BY <1>1, <1>2, <1>7 DEF b

\* Whatever the plan's headers and body, and whatever the fault, every request
\* of a run is one the encoder accepts, a server can read what is sent in one
\* way only, and the one that closes the connection says so, and nothing else.
THEOREM EveryRequestUnambiguous == Spec => []RequestsUnambiguous
<1>1. ProgramInv => RequestsUnambiguous
  <2> SUFFICES ASSUME ProgramInv, started,
                      NEW r \in EffectiveRequests(args.request, args.fault.mode, args.fault.bytes)
               PROVE  /\ Encodable(r) /\ ReadOneWay(r)
                      /\ args.fault.mode = "connection_churn" /\ r # args.request =>
                             /\ Named(Encode(r), "connection") = <<Header("connection", "close")>>
                             /\ WantsClose(r)
    BY DEF RequestsUnambiguous, ReadOneWay
  <2> DEFINE S == [name : STRING, value : STRING]
             q == args.request
  <2>1. Encodable(q) /\ q \in RequestType(S)
    BY ArgumentsAssumption DEF ProgramInv, Checked, TypeOK, RequestType
  <2> HIDE DEF S
  <2>2. CASE r = q
    <3>1. q.headers \in Seq(S)
      BY <2>1 DEF RequestType
    <3> QED BY <2>1, <2>2, <3>1, EncodedOnce
  <2>3. CASE args.fault.mode = "connection_churn" /\ r = WithConnectionClose(q)
    <3>1. /\ Encodable(r) /\ WantsClose(r)
          /\ Named(Encode(r), "connection") = <<Header("connection", "close")>>
          /\ r.headers \in Seq(S \cup {Header("connection", "close")})
      BY <2>1, <2>3, ClosedEncodable
    <3> QED BY <3>1, EncodedOnce
  <2>4. CASE /\ args.fault.mode = "randomized_body"
             /\ \E length : r = WithBody(q, length)
    <3>1. Encodable(r) /\ r.headers \in Seq(S)
      BY <2>1, <2>4, RandomizedEncodable
    <3> QED BY <2>4, <3>1, EncodedOnce
  <2>5. \/ r = q
        \/ args.fault.mode = "connection_churn" /\ r = WithConnectionClose(q)
        \/ /\ args.fault.mode = "randomized_body"
           /\ \E length : r = WithBody(q, length)
    BY DEF EffectiveRequests, Faulted
  <2> QED BY <2>2, <2>3, <2>4, <2>5
<1> QED BY <1>1, Inductive, PTL
=============================================================================
