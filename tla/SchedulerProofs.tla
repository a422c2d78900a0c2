-------------------------- MODULE SchedulerProofs --------------------------
(***************************************************************************)
(* Proofs about Scheduler, for any workers, plans and bounds.              *)
(*                                                                         *)
(* The properties are about what was handed out; the invariant adds what   *)
(* the threads are about to hand out: who has the lock (Locking), what is  *)
(* known once the workers run (Beginning), whose numbers are whose         *)
(* (Numbering), that what waits is on the timeline (Timing), what a stop   *)
(* leaves possible (Stopping), and when workers end (Ending).              *)
(***************************************************************************)
EXTENDS Scheduler, FiniteSetTheorems, TLAPS

Locking == \A w \in Workers : pc[w] = "locked" <=> lock = w

Beginning ==
    /\ running => started # -1 /\ (~plan.openLoop => now >= started)
    /\ \A w \in Workers : pc[w] # "asks" => running
    /\ released # {} => running

Numbering ==
    /\ IsFiniteSet(released)
    /\ \A w \in Workers : Holding(w) => sequence[w] \in 1..(next - 1)
    /\ \A r \in released : r.number \in 1..(next - 1)
    /\ \A w, v \in Workers :
          Holding(w) /\ Holding(v) /\ sequence[w] = sequence[v] => w = v
    /\ \A w \in Workers : \A r \in released : Holding(w) => sequence[w] # r.number
    /\ \A r, q \in released : r.number = q.number => r = q
    /\ \A n \in 1..(next - 1) :
          \/ stop
          \/ \E r \in released : r.number = n
          \/ \E w \in Workers : Holding(w) /\ sequence[w] = n

Timing ==
    /\ \A w \in Workers : Holding(w) =>
          /\ started <= scheduled[w]
          /\ plan.duration > 0 => scheduled[w] < started + plan.duration
          /\ plan.openLoop => scheduled[w] = Slot(sequence[w])
    /\ \A w \in Workers : pc[w] = "leaving" => scheduled[w] <= now
    /\ \A r \in released :
          /\ started <= r.time /\ r.time <= r.at /\ r.at <= now
          /\ plan.duration > 0 => r.time < started + plan.duration
          /\ plan.openLoop => r.time = Slot(r.number)

\* A number taken after stop is the last one, and a worker that was handed an
\* attempt after stop is not inside next_attempt again.
Stopping ==
    /\ late \subseteq 1..(next - 1)
    /\ late # {} => stop /\ \A w \in Workers : pc[w] # "locked"
    /\ \A m, n \in late : m = n
    /\ plan.openLoop =>
          /\ \A w \in Workers : pc[w] = "leaving" => sequence[w] \notin late
          /\ \A r \in released : r.number \notin late
    /\ \A w \in Workers : after[w] # 0 =>
          stop /\ after[w] = 1 /\ pc[w] \in {"works", "asks", "done"}

Ending ==
    \A w \in Workers : pc[w] = "done" /\ ~stop /\ plan.duration = 0 =>
        next > plan.requestCount

SchedulerInv ==
    TypeOK /\ Locking /\ Beginning /\ Numbering /\ Timing /\ Stopping /\ Ending

\* The times of the timeline are not before the start.
LEMMA SlotType ==
    ASSUME TypeOK, started # -1, NEW n \in Nat \ {0}
    PROVE  Slot(n) \in Nat /\ started <= Slot(n)
<1>1. started \in Nat /\ plan.interval \in Nat /\ plan.division \in Nat \ {0}
  BY SchedulerAssumption DEF TypeOK, PlanType
<1>2. (n - 1) * plan.interval \in Nat
  BY <1>1
<1>3. ((n - 1) * plan.interval) \div plan.division \in Nat
  BY <1>1, <1>2
<1> QED BY <1>1, <1>3 DEF Slot

LEMMA PlanFields ==
    ASSUME TypeOK
    PROVE  /\ plan.openLoop \in BOOLEAN
           /\ plan.warmup \in Nat /\ plan.duration \in Nat /\ plan.requestCount \in Nat
           /\ plan.interval \in Nat \ {0} /\ plan.division \in Nat \ {0}
           /\ (plan.duration = 0) # (plan.requestCount = 0)
           /\ Horizon \in Nat
BY SchedulerAssumption DEF TypeOK, PlanType

LEMMA InitOK == Init => SchedulerInv
<1> SUFFICES ASSUME Init PROVE SchedulerInv
  OBVIOUS
<1>1. TypeOK
  <2>1. plan \in PlanType /\ Horizon \in Nat
    BY SchedulerAssumption DEF Init
  <2>2. now \in 0..Horizon /\ next = 1 /\ plan.requestCount \in Nat
    BY <2>1 DEF Init, PlanType
  <2>3. pc = [w \in Workers |-> "asks"] /\ sequence = [w \in Workers |-> 0]
        /\ scheduled = [w \in Workers |-> 0] /\ released = {}
    BY DEF Init
  <2>4. plan \in Plans /\ started = -1 /\ stop = FALSE /\ running = FALSE /\ lock = NoWorker
    BY DEF Init
  <2>5. next \in Nat \ {0} /\ next <= plan.requestCount + 1
    BY <2>2
  <2>6. /\ pc \in [Workers -> {"asks", "locked", "paces", "leaving", "works", "done"}]
        /\ sequence \in [Workers -> Nat]
        /\ scheduled \in [Workers -> Nat]
        /\ after \in [Workers -> Nat]
    BY <2>3 DEF Init
  <2>7. released \subseteq [number : Nat, time : Nat, at : Nat] /\ late \subseteq Nat \ {0}
    BY <2>3 DEF Init
  <2> QED BY <2>2, <2>4, <2>5, <2>6, <2>7 DEF TypeOK
<1>2. IsFiniteSet(released)
  BY FS_EmptySet DEF Init
<1>3. Locking /\ Beginning /\ Timing /\ Stopping /\ Ending
  BY SchedulerAssumption DEF Init, Locking, Beginning, Timing, Stopping, Ending, Holding
<1>4. Numbering
  BY <1>2 DEF Init, Numbering, Holding
<1> QED BY <1>1, <1>3, <1>4 DEF SchedulerInv

-----------------------------------------------------------------------------
(* The steps that hand out nothing. *)

LEMMA TickKeeps ==
    ASSUME SchedulerInv, Tick PROVE SchedulerInv'
<1> USE DEF SchedulerInv, Tick, workerVars, doneVars, handedVars, Holding
<1>1. TypeOK'
  BY PlanFields DEF TypeOK
<1>2. Locking' /\ Numbering' /\ Stopping' /\ Ending'
  BY DEF Locking, Numbering, Stopping, Ending
<1>3. Beginning'
  BY DEF Beginning, TypeOK
<1>4. Timing'
  BY DEF Timing, Slot, TypeOK
<1> QED BY <1>1, <1>2, <1>3, <1>4

LEMMA StopKeeps ==
    ASSUME SchedulerInv, Stop PROVE SchedulerInv'
<1> USE DEF SchedulerInv, Stop, clockVars, workerVars, doneVars, handedVars, Holding
<1>1. TypeOK' /\ Locking' /\ Beginning' /\ Ending'
  BY DEF TypeOK, Locking, Beginning, Ending
<1>2. Numbering'
  BY DEF Numbering
<1>3. Timing' /\ Stopping'
  BY DEF Timing, Stopping, Slot
<1> QED BY <1>1, <1>2, <1>3

LEMMA StartKeeps ==
    ASSUME SchedulerInv, Start PROVE SchedulerInv'
<1> USE DEF SchedulerInv, Start, workerVars, doneVars, handedVars, Holding
<1>1. TypeOK'
  BY PlanFields DEF TypeOK
<1>2. ~running /\ released = {} /\ \A w \in Workers : pc[w] = "asks"
  BY DEF Beginning
<1>3. Locking' /\ Beginning' /\ Stopping' /\ Ending'
  BY <1>2 DEF Locking, Beginning, Stopping, Ending
<1>4. Numbering'
  BY DEF Numbering
<1>5. Timing'
  BY <1>2 DEF Timing
<1> QED BY <1>1, <1>3, <1>4, <1>5

LEMMA WarmupKeeps ==
    ASSUME SchedulerInv, WarmupOver PROVE SchedulerInv'
<1> USE DEF SchedulerInv, WarmupOver, clockVars, workerVars, doneVars, handedVars, Holding
<1>1. TypeOK' /\ Locking' /\ Beginning' /\ Stopping' /\ Ending'
  BY DEF TypeOK, Locking, Beginning, Stopping, Ending
<1>2. Numbering' /\ Timing'
  BY DEF Numbering, Timing, Slot
<1> QED BY <1>1, <1>2

\* A worker that moves without a number, and is not, or no longer, waiting.
LEMMA AskKeeps ==
    ASSUME SchedulerInv, NEW w \in Workers, Ask(w) PROVE SchedulerInv'
<1> USE DEF SchedulerInv, Ask, clockVars, doneVars, handedVars
<1>1. TypeOK'
  BY DEF TypeOK
<1>2. Locking'
  BY SchedulerAssumption DEF Locking, TypeOK
<1>3. Beginning' /\ Stopping' /\ Ending'
  BY DEF Beginning, Stopping, Ending, TypeOK
<1>4. \A v \in Workers : /\ pc'[v] \in {"paces", "leaving"} <=> pc[v] \in {"paces", "leaving"}
                         /\ pc'[v] = "leaving" <=> pc[v] = "leaving"
  BY DEF TypeOK
<1>5. /\ plan' = plan /\ now' = now /\ started' = started /\ stop' = stop /\ next' = next
      /\ sequence' = sequence /\ scheduled' = scheduled /\ released' = released
  OBVIOUS
<1>6. Numbering /\ Timing
  OBVIOUS
<1> HIDE DEF Ask, SchedulerInv
<1>7. Numbering'
  BY <1>4, <1>5, <1>6 DEF Numbering, Holding
<1>8. Timing'
  BY <1>4, <1>5, <1>6 DEF Timing, Slot, Holding
<1> QED BY <1>1, <1>2, <1>3, <1>7, <1>8 DEF SchedulerInv

LEMMA TakeNothingKeeps ==
    ASSUME SchedulerInv, NEW w \in Workers, TakeNothing(w) PROVE SchedulerInv'
<1> USE DEF SchedulerInv, TakeNothing, clockVars, doneVars, handedVars
<1>1. TypeOK'
  BY DEF TypeOK
<1>2. Locking'
  BY SchedulerAssumption DEF Locking, TypeOK
<1>3. Beginning' /\ Stopping'
  BY DEF Beginning, Stopping, TypeOK
<1>4. Ending'
  BY PlanFields DEF Ending, TypeOK, NothingToTake, HasEnded, Exhausted, BeyondEnd
<1>5. \A v \in Workers : /\ pc'[v] = "paces" <=> pc[v] = "paces"
                         /\ pc'[v] = "leaving" <=> pc[v] = "leaving"
  BY DEF TypeOK
<1>6. Numbering'
  BY <1>5 DEF Numbering, Holding
<1>7. Timing'
  BY <1>5 DEF Timing, Slot, Holding
<1> QED BY <1>1, <1>2, <1>3, <1>4, <1>6, <1>7

LEMMA AbandonKeeps ==
    ASSUME SchedulerInv, NEW w \in Workers, Abandon(w) PROVE SchedulerInv'
<1> USE DEF SchedulerInv, Abandon, Returned, clockVars, doneVars, handedVars
<1>1. TypeOK'
  BY DEF TypeOK
<1>2. Locking' /\ Beginning' /\ Ending'
  BY DEF TypeOK, Locking, Beginning, Ending
<1>3. /\ stop'
      /\ \A v \in Workers : Holding(v)' => Holding(v) /\ v # w
      /\ \A v \in Workers : pc'[v] = "leaving" => pc[v] = "leaving" /\ v # w
      /\ \A v \in Workers : v # w => sequence'[v] = sequence[v] /\ scheduled'[v] = scheduled[v]
  BY DEF TypeOK, Holding
<1>4. Stopping'
  BY <1>3 DEF Stopping, TypeOK
<1>5. Numbering'
  BY <1>3 DEF Numbering, Holding
<1>6. Timing'
  BY <1>3 DEF Timing, Slot, Holding
<1> QED BY <1>1, <1>2, <1>4, <1>5, <1>6

LEMMA FinishKeeps ==
    ASSUME SchedulerInv, NEW w \in Workers, Finish(w) PROVE SchedulerInv'
<1> USE DEF SchedulerInv, Finish, clockVars, doneVars, handedVars
<1>1. TypeOK' /\ Locking' /\ Beginning' /\ Stopping' /\ Ending'
  BY DEF TypeOK, Locking, Beginning, Stopping, Ending
<1>2. \A v \in Workers : /\ pc'[v] = "paces" <=> pc[v] = "paces"
                         /\ pc'[v] = "leaving" <=> pc[v] = "leaving"
  BY DEF TypeOK
<1>3. Numbering'
  BY <1>2 DEF Numbering, Holding
<1>4. Timing'
  BY <1>2 DEF Timing, Slot, Holding
<1> QED BY <1>1, <1>3, <1>4

-----------------------------------------------------------------------------
(* Taking a number and handing it out. *)

LEMMA TakeKeeps ==
    ASSUME SchedulerInv, NEW w \in Workers, Take(w) PROVE SchedulerInv'
<1> USE DEF SchedulerInv, clockVars, handedVars
<1>1. /\ pc[w] = "locked" /\ lock = w /\ running /\ started \in Nat
      /\ next \in Nat \ {0} /\ now \in Nat
      /\ UNCHANGED <<plan, now, started, stop, running, released, after>> /\ lock' = NoWorker
      /\ next' = next + 1 /\ sequence' = [sequence EXCEPT ![w] = next]
      /\ late' = IF stop THEN late \cup {next} ELSE late
  BY DEF Take, Locking, Beginning, TypeOK
<1>2. /\ TimeOfNext \in Nat /\ started <= TimeOfNext
      /\ plan.openLoop => TimeOfNext = Slot(next)
      /\ ~plan.openLoop => TimeOfNext = now
  BY <1>1, SlotType DEF TimeOfNext, Beginning
<1>3. plan.duration > 0 => TimeOfNext < started + plan.duration
  BY <1>1, <1>2, PlanFields DEF Take, NothingToTake, BeyondEnd, HasEnded
<1>4. /\ \A v \in Workers : v # w => pc'[v] = pc[v] /\ sequence'[v] = sequence[v]
                                     /\ scheduled'[v] = scheduled[v]
      /\ pc'[w] = IF plan.openLoop THEN "paces" ELSE "leaving"
      /\ sequence'[w] = next /\ scheduled'[w] = TimeOfNext
      /\ \A v \in Workers : pc'[v] # "locked"
  BY <1>1 DEF Take, TypeOK, Locking
<1>5. /\ Holding(w)' /\ ~Holding(w)
      /\ \A v \in Workers : v # w => (Holding(v)' <=> Holding(v))
  BY <1>1, <1>4 DEF Holding
<1>6. TypeOK'
  <2>1. next' \in Nat \ {0} /\ (plan.requestCount > 0 => next' <= plan.requestCount + 1)
    BY <1>1, PlanFields DEF Take, NothingToTake, Exhausted
  <2>2. /\ pc' \in [Workers -> {"asks", "locked", "paces", "leaving", "works", "done"}]
        /\ sequence' \in [Workers -> Nat] /\ scheduled' \in [Workers -> Nat]
    BY <1>1, <1>2 DEF Take, TypeOK
  <2>3. late' \subseteq Nat \ {0}
    BY <1>1 DEF TypeOK
  <2> QED BY <1>1, <2>1, <2>2, <2>3 DEF TypeOK
<1>7. Locking'
  BY <1>1, <1>4, SchedulerAssumption DEF Locking, TypeOK
<1>8. Beginning' /\ Ending'
  BY <1>1, <1>4, PlanFields DEF Beginning, Ending, TypeOK
<1>9. Numbering'
  <2>1. /\ \A v \in Workers : Holding(v)' => sequence'[v] \in 1..(next' - 1)
        /\ \A r \in released' : r.number \in 1..(next' - 1)
    BY <1>1, <1>4, <1>5 DEF Numbering
  <2>2. /\ \A u, v \in Workers :
              Holding(u)' /\ Holding(v)' /\ sequence'[u] = sequence'[v] => u = v
        /\ \A v \in Workers : \A r \in released' : Holding(v)' => sequence'[v] # r.number
        /\ \A r, q \in released' : r.number = q.number => r = q
    BY <1>1, <1>4, <1>5 DEF Numbering
  <2>3. ASSUME NEW n \in 1..(next' - 1)
        PROVE  \/ stop'
               \/ \E r \in released' : r.number = n
               \/ \E v \in Workers : Holding(v)' /\ sequence'[v] = n
    <3>1. CASE n = next
      BY <1>4, <1>5, <3>1
    <3>2. CASE n \in 1..(next - 1)
      BY <1>1, <1>4, <1>5, <3>2 DEF Numbering
    <3> QED BY <1>1, <3>1, <3>2
  <2> QED BY <1>1, <2>1, <2>2, <2>3 DEF Numbering
<1>10. Timing'
  <2>1. \A n : Slot(n)' = Slot(n)
    BY <1>1 DEF Slot
  <2> QED BY <1>1, <1>2, <1>3, <1>4, <1>5, <2>1 DEF Timing
<1>11. Stopping'
  <2>1. late = {}
    BY <1>1 DEF Stopping
  <2>2. /\ late' \subseteq {next} /\ (late' # {} => stop')
        /\ late' \subseteq 1..(next' - 1) /\ \A m, n \in late' : m = n
    BY <1>1, <2>1
  <2>3. ASSUME plan'.openLoop
        PROVE  /\ \A v \in Workers : pc'[v] = "leaving" => sequence'[v] \notin late'
               /\ \A r \in released' : r.number \notin late'
    BY <1>1, <1>4, <2>2, <2>3 DEF Numbering, Holding
  <2>4. \A v \in Workers : after'[v] # 0 =>
           stop' /\ after'[v] = 1 /\ pc'[v] \in {"works", "asks", "done"}
    BY <1>1, <1>4 DEF Stopping
  <2> QED BY <1>4, <2>2, <2>3, <2>4 DEF Stopping
<1> QED BY <1>6, <1>7, <1>8, <1>9, <1>10, <1>11

LEMMA PaceKeeps ==
    ASSUME SchedulerInv, NEW w \in Workers, Pace(w) PROVE SchedulerInv'
<1> USE DEF SchedulerInv, Pace, clockVars, doneVars, handedVars
<1>1. TypeOK' /\ Locking' /\ Beginning' /\ Ending'
  BY DEF TypeOK, Locking, Beginning, Ending
<1>2. late = {} /\ \A v \in Workers : after[v] = 0
  BY DEF Stopping
<1>3. \A v \in Workers : Holding(v)' <=> Holding(v)
  BY DEF TypeOK, Holding
<1>4. Numbering'
  BY <1>3 DEF Numbering, Holding
<1>5. Timing'
  BY <1>3 DEF Timing, Slot, Holding
<1>6. Stopping'
  BY <1>2 DEF Stopping
<1> QED BY <1>1, <1>4, <1>5, <1>6

\* The attempt that w returns with.
Handed(w) == [number |-> sequence[w], time |-> scheduled[w], at |-> now]

LEMMA HandOutKeeps ==
    ASSUME SchedulerInv, NEW w \in Workers, HandOut(w) PROVE SchedulerInv'
<1> USE DEF SchedulerInv, clockVars
<1>1. /\ pc[w] = "leaving" /\ now \in Nat /\ scheduled[w] <= now
      /\ pc' = [pc EXCEPT ![w] = "works"]
      /\ released' = released \cup {Handed(w)}
      /\ UNCHANGED <<plan, now, started, stop, next, lock, running, late>>
      /\ Holding(w)
  BY DEF HandOut, Handed, Holding, Timing, TypeOK
<1>2. sequence[w] \in Nat \ {0} /\ sequence[w] <= next - 1 /\ scheduled[w] \in Nat
  BY <1>1 DEF Numbering, TypeOK
<1>3. /\ \A v \in Workers : Holding(v)' <=> v # w /\ Holding(v)
      /\ \A v \in Workers : v # w => /\ pc'[v] = pc[v] /\ sequence'[v] = sequence[v]
                                     /\ scheduled'[v] = scheduled[v] /\ after'[v] = after[v]
      /\ \A r \in released' : r \in released \/ r = Handed(w)
      /\ Handed(w).number = sequence[w] /\ Handed(w).time = scheduled[w] /\ Handed(w).at = now
      /\ Handed(w) \in released' /\ released \subseteq released'
  BY <1>1 DEF HandOut, Returned, TypeOK, Handed, Holding
<1>4. TypeOK'
  BY <1>1, <1>2 DEF HandOut, Returned, TypeOK, Handed
<1>5. Locking' /\ Ending'
  BY <1>1 DEF Locking, Ending, TypeOK
<1>6. Beginning'
  BY <1>1 DEF Beginning, TypeOK
<1>7. IsFiniteSet(released')
  BY <1>1, FS_AddElement DEF Numbering
<1>8. Numbering'
  <2>1. /\ \A v \in Workers : Holding(v)' => sequence'[v] \in 1..(next' - 1)
        /\ \A r \in released' : r.number \in 1..(next' - 1)
    BY <1>1, <1>2, <1>3 DEF Numbering
  <2>2. /\ \A u, v \in Workers :
              Holding(u)' /\ Holding(v)' /\ sequence'[u] = sequence'[v] => u = v
        /\ \A v \in Workers : \A r \in released' : Holding(v)' => sequence'[v] # r.number
        /\ \A r, q \in released' : r.number = q.number => r = q
    BY <1>1, <1>3 DEF Numbering
  <2>3. \A n \in 1..(next' - 1) :
           \/ stop'
           \/ \E r \in released' : r.number = n
           \/ \E v \in Workers : Holding(v)' /\ sequence'[v] = n
    BY <1>1, <1>3 DEF Numbering
  <2> QED BY <1>7, <2>1, <2>2, <2>3 DEF Numbering
<1>9. Timing'
  <2>1. \A n : Slot(n)' = Slot(n)
    BY <1>1 DEF Slot
  <2>2. \A v \in Workers : pc'[v] = "leaving" => v # w
    BY <1>1 DEF TypeOK
  <2> QED BY <1>1, <1>2, <1>3, <2>1, <2>2 DEF Timing
<1>10. Stopping'
  <2>1. pc'[w] = "works" /\ pc[w] \notin {"works", "asks", "done"}
    BY <1>1 DEF TypeOK
  <2>2. after'[w] # 0 => stop /\ after'[w] = 1
    BY <2>1 DEF HandOut, Stopping, TypeOK
  <2>3. \A v \in Workers : pc'[v] # "locked" <=> pc[v] # "locked"
    BY <1>1, <1>3, <2>1
  <2> QED BY <1>1, <1>3, <2>1, <2>2, <2>3 DEF Stopping
<1> QED BY <1>4, <1>5, <1>6, <1>8, <1>9, <1>10

LEMMA StutterKeeps ==
    ASSUME SchedulerInv, UNCHANGED vars PROVE SchedulerInv'
BY DEF SchedulerInv, vars, TypeOK, Locking, Beginning, Numbering, Timing, Stopping, Ending,
       Slot, Holding

LEMMA StepKeeps == SchedulerInv /\ [Next]_vars => SchedulerInv'
<1> SUFFICES ASSUME SchedulerInv, [Next]_vars PROVE SchedulerInv'
  OBVIOUS
<1>1. CASE \E w \in Workers : WorkerStep(w)
  BY <1>1, AskKeeps, TakeNothingKeeps, TakeKeeps, PaceKeeps, HandOutKeeps, AbandonKeeps,
     FinishKeeps DEF WorkerStep
<1>2. CASE Over
  BY <1>2, StutterKeeps DEF Over
<1> QED
  BY <1>1, <1>2, TickKeeps, StopKeeps, StartKeeps, WarmupKeeps, StutterKeeps DEF Next

LEMMA Inductive == Spec => []SchedulerInv
BY InitOK, StepKeeps, PTL DEF Spec

-----------------------------------------------------------------------------
\* The variables of the scheduler and its workers have their types.
THEOREM SchedulerTyped == Spec => []TypeOK
<1>1. SchedulerInv => TypeOK
  BY DEF SchedulerInv
<1> QED BY <1>1, Inductive, PTL

\* Nothing is handed out in the warm-up, early, or scheduled after the end.
THEOREM EverythingInTime == Spec => []InTime
<1>1. SchedulerInv => InTime
  BY DEF SchedulerInv, Timing, InTime
<1> QED BY <1>1, Inductive, PTL

\* There are as many numbers as attempts: no number was handed out twice.
LEMMA OneNumberEach ==
    ASSUME SchedulerInv
    PROVE  IsFiniteSet(Numbers) /\ Cardinality(Numbers) = Cardinality(released)
<1> DEFINE f == [r \in released |-> r.number]
<1>1. IsFiniteSet(released)
  BY DEF SchedulerInv, Numbering
<1>2. f \in Surjection(released, Numbers)
  BY DEF Surjection, Numbers
<1>3. f \in Injection(released, Numbers)
  BY DEF Injection, IsInjective, Numbers, SchedulerInv, Numbering
<1> HIDE DEF f
<1> QED BY <1>1, <1>2, <1>3, FS_Surjection

\* However many workers ask at once, no number is lost or handed out twice.
THEOREM NoNumberLost == Spec => []NumbersKept
<1>1. SchedulerInv => NumbersKept
  <2> SUFFICES ASSUME SchedulerInv, NEW n \in 1..(next - 1)
               PROVE  LET holders == {w \in Workers : Holding(w) /\ sequence[w] = n}
                      IN  IF n \in Numbers THEN holders = {}
                          ELSE stop \/ Cardinality(holders) = 1
    BY OneNumberEach DEF NumbersKept
  <2> DEFINE holders == {w \in Workers : Holding(w) /\ sequence[w] = n}
  <2>1. CASE n \in Numbers
    BY <2>1 DEF SchedulerInv, Numbering, Numbers
  <2>2. CASE n \notin Numbers /\ ~stop
    <3>1. PICK w \in Workers : Holding(w) /\ sequence[w] = n
      BY <2>2 DEF SchedulerInv, Numbering, Numbers
    <3>2. holders = {w}
      BY <3>1 DEF SchedulerInv, Numbering
    <3> QED BY <3>2, <2>2, FS_Singleton
  <2> QED BY <2>1, <2>2
<1> QED BY <1>1, Inductive, PTL

\* However many workers there are, at most one number is taken after stop, the
\* open loop does not hand it out, and no worker is handed two attempts.
THEOREM StopIsHeld == Spec => []StopHolds
<1>1. SchedulerInv => StopHolds
  <2> SUFFICES ASSUME SchedulerInv PROVE StopHolds
    OBVIOUS
  <2>1. Cardinality(late) <= 1
    <3>1. CASE late = {}
      BY <3>1, FS_EmptySet
    <3>2. CASE late # {}
      <4>1. PICK n \in late : late = {n}
        BY <3>2 DEF SchedulerInv, Stopping
      <4> QED BY <4>1, FS_Singleton
    <3> QED BY <3>1, <3>2
  <2>2. plan.openLoop => late \cap Numbers = {}
    BY DEF SchedulerInv, Stopping, Numbers
  <2>3. \A w \in Workers : after[w] <= 1
    BY DEF SchedulerInv, Stopping
  <2> QED BY <2>1, <2>2, <2>3 DEF StopHolds
<1> QED BY <1>1, Inductive, PTL

\* A run by count that nobody stops hands out all of its attempts.
THEOREM CountIsReached == Spec => []CountReached
<1>1. SchedulerInv => CountReached
  <2> SUFFICES ASSUME SchedulerInv, running, \A w \in Workers : pc[w] = "done", ~stop,
                      plan.duration = 0
               PROVE  Numbers = 1..plan.requestCount
    BY DEF CountReached
  <2>1. next = plan.requestCount + 1
    BY PlanFields, SchedulerAssumption DEF SchedulerInv, Ending, TypeOK
  <2>2. Numbers \subseteq 1..plan.requestCount
    BY <2>1, PlanFields DEF SchedulerInv, Numbering, Numbers
  <2>3. \A w \in Workers : ~Holding(w)
    BY DEF Holding
  <2>4. 1..plan.requestCount \subseteq Numbers
    BY <2>1, <2>3, PlanFields DEF SchedulerInv, Numbering, Numbers
  <2> QED BY <2>2, <2>4
<1> QED BY <1>1, Inductive, PTL

\* What a truncated quotient says about the dividend.
LEMMA TruncatedQuotient ==
    ASSUME NEW a \in Nat, NEW b \in Nat \ {0}, NEW c \in Int, a \div b <= c
    PROVE  a < (c + 1) * b
<1>1. a < (a \div b + 1) * b
  OBVIOUS
<1>2. (a \div b + 1) * b <= (c + 1) * b
  OBVIOUS
<1> QED BY <1>1, <1>2

\* Among the attempts handed out there is one whose number is at least their
\* count.
LEMMA LateNumber ==
    ASSUME SchedulerInv, released # {}
    PROVE  \E r \in released : r.number >= Cardinality(released)
<1> DEFINE count == Cardinality(released)
<1>1. IsFiniteSet(released) /\ count \in Nat /\ count # 0
  BY FS_EmptySet, FS_CardinalityType DEF SchedulerInv, Numbering
<1>2. SUFFICES ASSUME \A r \in released : r.number < count PROVE FALSE
  BY <1>1 DEF SchedulerInv, TypeOK
<1> HIDE DEF count
<1>3. Numbers \subseteq 1..(count - 1)
  BY <1>1, <1>2 DEF Numbers, SchedulerInv, Numbering, TypeOK
<1>4. IsFiniteSet(1..(count - 1)) /\ Cardinality(1..(count - 1)) = count - 1
  BY <1>1, FS_Interval
<1>5. Cardinality(Numbers) <= count - 1
  BY <1>3, <1>4, FS_Subset
<1> QED BY <1>1, <1>5, OneNumberEach DEF count

\* However many workers there are, and however late, the open loop is never
\* ahead of its rate.
THEOREM RateIsRespected == Spec => []RateRespected
<1>1. SchedulerInv => RateRespected
  <2> SUFFICES ASSUME SchedulerInv, plan.openLoop, released # {}
               PROVE  (Cardinality(released) - 1) * plan.interval
                          < (now - started + 1) * plan.division
    BY DEF RateRespected
  <2> DEFINE count == Cardinality(released)
  <2>1. PICK r \in released : r.number >= count
    BY LateNumber
  <2>2. /\ count \in Nat /\ r.number \in Nat \ {0} /\ now \in Nat /\ started \in Nat
        /\ plan.interval \in Nat \ {0} /\ plan.division \in Nat \ {0}
    BY PlanFields, FS_CardinalityType DEF SchedulerInv, Numbering, Beginning, TypeOK
  <2>3. Slot(r.number) <= now
    BY <2>2, SlotType DEF SchedulerInv, Timing, TypeOK
  <2> HIDE DEF count
  <2>4. (r.number - 1) * plan.interval \in Nat
    BY <2>2
  <2>5. ((r.number - 1) * plan.interval) \div plan.division <= now - started
    BY <2>2, <2>3, <2>4 DEF Slot
  <2>6. (r.number - 1) * plan.interval < (now - started + 1) * plan.division
    BY <2>2, <2>4, <2>5, TruncatedQuotient
  <2>7. (count - 1) * plan.interval <= (r.number - 1) * plan.interval
    BY <2>1, <2>2
  <2>8. (count - 1) * plan.interval < (now - started + 1) * plan.division
    BY <2>2, <2>6, <2>7
  <2> QED BY <2>8 DEF count
<1> QED BY <1>1, Inductive, PTL
=============================================================================
