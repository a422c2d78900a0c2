------------------------------ MODULE Metrics ------------------------------
(***************************************************************************)
(* observability/metrics.py: a MetricsCollector in bounded mode beside one *)
(* in exact mode that is given the same samples.  The exact one keeps all  *)
(* samples and computes a snapshot from them; the bounded one keeps        *)
(* counters and, for each latency stream, a window of recent values.       *)
(*                                                                         *)
(* Samples arrive in the order workers finished, which is neither that of  *)
(* their scheduled times nor that of their completion times.               *)
(***************************************************************************)
EXTENDS Integers, Sequences, FiniteSets, SeqRecursion

CONSTANTS
    Samples,      \* the ResultSamples that may come
    Streams,      \* the names of the latency streams
    Percentiles,  \* the percentiles asked for
    Reservoir,    \* reservoir_size
    MaxSamples    \* bound on the samples of a run

None == -1

\* A Counter that has counted nothing.
NoCounts == [key \in {} |-> 0]

\* What a snapshot uses of a sample; a field that is None in the code is None.
SampleType ==
    [status : Nat \cup {None}, outcome : STRING, error : STRING,
     sent : Nat, received : Nat, acquired : BOOLEAN, reused : BOOLEAN,
     applied : BOOLEAN, mode : STRING, scheduled : Nat, completion : Nat,
     latency : [Streams -> Nat \cup {None}]]

ASSUME SamplesAssumption ==
    /\ \A s \in Samples :
          /\ s \in SampleType
          /\ s.reused => s.acquired
          /\ s.scheduled <= s.completion
    /\ Percentiles \subseteq 0..100
    /\ Reservoir \in Nat \ {0}

VARIABLES
    samples,        \* _samples of the exact collector
    total,          \* the bounded collector: _total_attempts
    statusCounts,   \* _status_counts
    outcomeCounts,  \* _outcome_counts
    errorCounts,    \* _error_counts
    modeCounts,     \* _fault_mode_counts
    bytes,          \* _bytes_sent and _bytes_received
    acquired,       \* _acquired
    reused,         \* _reused
    applied,        \* _fault_applied_count
    firstScheduled, \* _min_scheduled_ns
    lastCompletion, \* _max_completion_ns
    window          \* the four windows, by stream

vars == <<samples, total, statusCounts, outcomeCounts, errorCounts, modeCounts, bytes,
          acquired, reused, applied, firstScheduled, lastCompletion, window>>

Init ==
    /\ samples = <<>>
    /\ total = 0
    /\ statusCounts = NoCounts
    /\ outcomeCounts = NoCounts
    /\ errorCounts = NoCounts
    /\ modeCounts = NoCounts
    /\ bytes = [sent |-> 0, received |-> 0]
    /\ acquired = 0
    /\ reused = 0
    /\ applied = 0
    /\ firstScheduled = None
    /\ lastCompletion = None
    /\ window = [stream \in Streams |-> <<>>]

\* A Counter has 0 for a key it did not count.
Count(counter, key) == IF key \in DOMAIN counter THEN counter[key] ELSE 0

CountIf(counter, key, condition) ==
    IF condition
    THEN [k \in DOMAIN counter \cup {key} |->
            IF k = key THEN Count(counter, key) + 1 ELSE counter[k]]
    ELSE counter
PlusIf(number, condition) == IF condition THEN number + 1 ELSE number

\* The completion of the sample that came last.
LatestArrival(s) == s.completion

LatestCompletion(s) ==
    IF lastCompletion = None \/ s.completion > lastCompletion
    THEN s.completion ELSE lastCompletion

EarliestSchedule(s) ==
    IF firstScheduled = None \/ s.scheduled < firstScheduled
    THEN s.scheduled ELSE firstScheduled

\* A full window takes no more values.
PutIfRoom(queue, value) == IF Len(queue) = Reservoir THEN queue ELSE Append(queue, value)

\* deque.append with maxlen.
Put(queue, value) ==
    Append(IF Len(queue) = Reservoir THEN Tail(queue) ELSE queue, value)

\* add, in both modes.
Add(s) ==
    /\ Len(samples) < MaxSamples
    /\ samples' = Append(samples, s)
    /\ total' = total + 1
    /\ statusCounts' = CountIf(statusCounts, s.status, s.status # None)
    /\ outcomeCounts' = CountIf(outcomeCounts, s.outcome, TRUE)
    /\ errorCounts' = CountIf(errorCounts, s.error, s.error # "none")
    /\ modeCounts' = CountIf(modeCounts, s.mode, s.mode # "none")
    /\ bytes' = [sent |-> bytes.sent + s.sent, received |-> bytes.received + s.received]
    /\ acquired' = PlusIf(acquired, s.acquired)
    /\ reused' = PlusIf(reused, s.acquired /\ s.reused)
    /\ applied' = PlusIf(applied, s.applied)
    /\ firstScheduled' = EarliestSchedule(s)
    /\ lastCompletion' = LatestCompletion(s)
    /\ window' = [stream \in Streams |->
                    IF s.latency[stream] = None THEN window[stream]
                    ELSE Put(window[stream], s.latency[stream])]

Next == \E s \in Samples : Add(s)

Spec == Init /\ [][Next]_vars

-----------------------------------------------------------------------------
(* percentile, in hundredths of the unit of the values *)

Positions(queue) == 1..Len(queue)

\* The value at index k of the values in order, counted from 0.
Ordered(queue, k) ==
    LET values == {queue[i] : i \in Positions(queue)}
    IN  CHOOSE v \in values :
          /\ Cardinality({i \in Positions(queue) : queue[i] < v}) <= k
          /\ k < Cardinality({i \in Positions(queue) : queue[i] <= v})

\* The position is taken among all values instead of the steps between them.
PositionOfCount(queue, percent) ==
    IF percent = 100 THEN (Len(queue) - 1) * percent ELSE Len(queue) * percent

\* The position, in hundredths.
Position(queue, percent) == (Len(queue) - 1) * percent

Percentile(queue, percent) ==
    LET lower == Position(queue, percent) \div 100
        upper == IF lower + 1 < Len(queue) THEN lower + 1 ELSE Len(queue) - 1
        fraction == Position(queue, percent) % 100
    IN  100 * Ordered(queue, lower)
          + (Ordered(queue, upper) - Ordered(queue, lower)) * fraction

(* The two snapshots, without percentiles.  A ratio is a pair; "throughput" *)
(* is the duration the total is divided by, when none is given.            *)

BoundedSnapshot ==
    [total |-> total,
     successes |-> Count(outcomeCounts, "SUCCESS"),
     httpErrors |-> Count(outcomeCounts, "HTTP_ERROR"),
     failures |-> total - Count(outcomeCounts, "SUCCESS"),
     statuses |-> statusCounts, outcomes |-> outcomeCounts,
     errors |-> errorCounts, modes |-> modeCounts,
     throughput |-> IF total = 0 THEN None ELSE lastCompletion - firstScheduled,
     bytes |-> bytes, reuse |-> <<reused, acquired>>, applied |-> applied]

Where(queue, accepted) == Cardinality({i \in Positions(queue) : queue[i] \in accepted})

\* A Counter made of all values but some.
CountsOf(values, ignored) ==
    [v \in {values[i] : i \in Positions(values)} \ ignored |->
        Cardinality({i \in Positions(values) : values[i] = v})]

ExactSnapshot ==
    LET statuses == [i \in Positions(samples) |-> samples[i].status]
        outcomes == [i \in Positions(samples) |-> samples[i].outcome]
        errors == [i \in Positions(samples) |-> samples[i].error]
        modes == [i \in Positions(samples) |-> samples[i].mode]
        completions == {samples[i].completion : i \in Positions(samples)}
        schedules == {samples[i].scheduled : i \in Positions(samples)}
    IN  [total |-> Len(samples),
         successes |-> Count(CountsOf(outcomes, {}), "SUCCESS"),
         httpErrors |-> Count(CountsOf(outcomes, {}), "HTTP_ERROR"),
         failures |-> Len(samples) - Count(CountsOf(outcomes, {}), "SUCCESS"),
         statuses |-> CountsOf(statuses, {None}), outcomes |-> CountsOf(outcomes, {}),
         errors |-> CountsOf(errors, {"none"}), modes |-> CountsOf(modes, {"none"}),
         throughput |-> IF samples = <<>> THEN None
                        ELSE (CHOOSE c \in completions : \A d \in completions : d <= c)
                             - (CHOOSE c \in schedules : \A d \in schedules : c <= d),
         bytes |-> [sent |-> Total([i \in Positions(samples) |-> samples[i].sent]),
                    received |-> Total([i \in Positions(samples) |-> samples[i].received])],
         reuse |-> <<Where(samples, {s \in Samples : s.acquired /\ s.reused}),
                     Where(samples, {s \in Samples : s.acquired})>>,
         applied |-> Where(samples, {s \in Samples : s.applied})]

\* The values of a stream, in the order they came.
Values(stream) ==
    LET latencies == [i \in Positions(samples) |-> samples[i].latency[stream]]
    IN  Selected(latencies, {i \in Positions(samples) : latencies[i] # None})

-----------------------------------------------------------------------------
(* Properties *)

(***************************************************************************)
(* Counters, byte totals, the reuse ratio and the duration behind the      *)
(* throughput are exact in bounded mode: whatever order the samples come   *)
(* in, both modes report the same.                                         *)
(***************************************************************************)
CountersExact == BoundedSnapshot = ExactSnapshot

Recent(all) ==
    LET size == IF Len(all) < Reservoir THEN Len(all) ELSE Reservoir
    IN  SubSeq(all, Len(all) - size + 1, Len(all))

(***************************************************************************)
(* A bounded percentile is that of the most recent values of its stream,   *)
(* samples that have none not counted; as long as no more have come than   *)
(* the window holds, it is the exact one.                                  *)
(***************************************************************************)
WindowRecent == \A stream \in Streams : window[stream] = Recent(Values(stream))

(***************************************************************************)
(* A percentile is where it should be among the values: more values than p *)
(* percent of the steps between them are at most as large, and more than   *)
(* 100 - p percent of the steps at least as large; and a higher percentile *)
(* is not smaller.                                                         *)
(***************************************************************************)
PercentilesInPlace ==
    \A stream \in Streams :
        LET queue == window[stream]
            steps == Len(queue) - 1
            AtMost(v) == Cardinality({i \in Positions(queue) : 100 * queue[i] <= v})
            AtLeast(v) == Cardinality({i \in Positions(queue) : 100 * queue[i] >= v})
        IN  queue # <<>> =>
              \A p \in Percentiles :
                 /\ 100 * AtMost(Percentile(queue, p)) > steps * p
                 /\ 100 * AtLeast(Percentile(queue, p)) > steps * (100 - p)
                 /\ \A q \in Percentiles :
                       p <= q => Percentile(queue, p) <= Percentile(queue, q)
=============================================================================
