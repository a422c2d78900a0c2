# Verification of http-load-tester

TLA+ models of the parts of `http-load-tester` where threads, deadlines and
connections meet, and of the way from a command line to an exit code; the TLC
runs that check them on small instances; and TLAPS proofs, for instances of any
size, of all the safety properties that the passing runs check.

    tlc -workers 2 -config MCPoolSafety.cfg MCConnectionPool.tla     # one run
    tlapm ConnectionPoolProofs.tla                                   # the proofs

The other modules with proofs are `WorkExecutorProofs`, `AttemptProofs`,
`HttpSessionProofs`, `SchedulerProofs`, `ProgramProofs`, `MetricsProofs` and
`SeqRecursionProofs`.

`PROJECT.json` lists the runs, the source lines behind every definition, the
hazards and the findings. Paths below are relative to `src/http_load_tester/`.

## 1. Inventory

| Part | State | Operations | Hard behaviour | What makes it correct |
| --- | --- | --- | --- | --- |
| Connection pool (`pool/`) | idle stack, leased set, live counter, closed flag, a condition variable | `acquire(deadline)`, lease `release`, `close_all` | opens sockets and closes sessions outside its lock; one `notify` per release; waits with timeouts; close at any time | counter exact, sockets bounded, leases exclusive, no socket lost, no waiter asleep beside capacity, close drains |
| Session (`http/session.py`) | reusable, closed, last timing, a lock | `connect`, `execute`, `close` | `close` races an exchange; errors in mid-response | one exchange at a time; never reusable after an error |
| Parser (`http/response_parser.py`) | a buffer kept between responses | `parse_response` | responses cut anywhere; malformed, oversized, ended early | own answer, whole body, nothing left over, bounded memory |
| Schedulers (`load/scheduler.py`) | next number, start and end, stop event, a lock | `start`, `wait_until_start`, `next_attempt`, `stop` | numbers taken under the lock and waited for outside; stop at any time; truncated timeline | each number once, in its time, rate kept, stop holds |
| Executor (`load/executor.py`) | samples, cancelled flag, the threads | `run`, `stop`, `cancel`, worker loop, attempt | faults that close sessions, runtime-limit timer, stale timing, worker death, deadlines that overlap | one sample per attempt, no lease lost, run ends, attempts end in time |
| Fault injection (`load/fault_injection.py`) | none (a function of seed and number) | `apply` | changes the request, the deadline or the connection of an attempt | the changed request is still one that can be sent |
| Sample collector (`observability/samples.py`) | queue, closed flag | `submit`, `close`, `collect` | workers submit while it closes | report complete |
| Run orchestration (`application/runner.py`) | progress counter, interrupted flag | `run_plan` | Ctrl-C at any moment, failures before and after the report | exit code and stderr together tell what was done and written |
| Metrics (`observability/metrics.py`) | samples, or counters and windows | `add`, `snapshot`, `percentile` | samples in completion order | counters exact in bounded mode |
| TCP/TLS (`transport/`) | a socket | `connect`, `send_all`, `recv_some`, `close` | several addresses, one deadline, a handshake with its own | no socket leaked, timeouts reported when due |
| Encoder, URLs, configuration, CLI, domain checks | none | pure functions | the same limits checked in several places, the encoder first called late | nothing invalid is started |
| Report, renderers, progress | a counter | layout of text | | exit code |
| `test_server/`, `benchmarks/` | outside the program | | | |

Workers are threads. A worker asks the scheduler for an attempt, acquires a
lease from the pool, calls `execute` on the leased session, releases the lease,
and hands the sample to the collector. The thread of `run_plan` starts and
joins the workers, closes the pool, seals the collector and reports. A timer
thread may call `cancel` at the runtime limit. They share the pool's condition
variable, the sessions' locks, the scheduler's lock and stop event, and the
collector's lock.

## 2. Modules

    Program                     command line .. exit code; EXTENDS Requests
       |  its run, as one step
    WorkExecutor                a whole run, without times; EXTENDS ConnectionPool
       |                \  one attempt of it, with times
       |                 Attempt              what it hands out, with a clock: Scheduler
    ConnectionPool --implements--> PoolPromise               its samples: Metrics
       |  the sessions it lends
    HttpSession --implements--> SessionLife
       ^  EXTENDS: ScenarioServer   (what the peer sends)

Proofs are in `<module>Proofs`, which EXTENDS the module it is about;
`WorkExecutorProofs` also extends `ConnectionPoolProofs`, and those of the
session, the metrics and the program extend `SeqRecursionProofs`, whose results
they use.

**ConnectionPool** — `pool/connection_pool.py`, `pool/lease.py`. One action is
one critical section, or one step outside the lock. `idle`, `leased`, `live`,
`closed` are the fields of the same names; `waiters` is the wait set of the
condition variable; `pc` says where a thread is in `acquire` or with its lease,
`held` which session it has; `cpc` and `pending` are a closer's progress through
the list it took in `close_all`. `acquire` is `AcquireClosed`,
`AcquireExpired`, `AcquireIdle`, `AcquireReserve`, `AcquireWait`, `WakeUp`, and
after the factory (`CreateSession`, `CreateFails`) `AdmitClosed`,
`AdmitExpired`, `AdmitUnusable`, `AdmitSession`. A wait that timed out leaves
the wait set only with the lock, as in CPython's `threading.Condition`. A
session's `status` is `open`, `spent` (socket open, not reusable) or `closed`.

**PoolPromise** — what the pool promises to its users, without stack, counter,
waiting or lock: sessions are lent to one thread at a time and in a state to
serve; one in use is not closed; one given back spent is closed; nothing is lent
after a close; at most `Max` exist. `KeepsPromise` in ConnectionPool is the
refinement: a thread's lease is the session it holds from the moment `acquire`
returns it, health is `status`, and who uses is who executes.

**SessionLife** — what the pool and the executor assume of a session.
**HttpSession** — `http/session.py` with `http/response_parser.py` and the
socket operations as the session sees them. Bytes are abstracted to units
(pieces of a line, header blocks by the body framing they announce, chunk
sizes, data, CRLF, trailers), limits count units, and every piece length is
possible. Each `_read_...` of the parser is a value of `pc`; its errors are the
`...Refused` actions. `ImplementsLife` is the refinement: `status` is `closed`,
`open` or `spent` by the two flags, and a session is busy while `pc` is not
`idle`. **ScenarioServer** — what the server of the integration tests sends in
each of its scenarios, in the same units; the run adds replies of other servers.
**Responses** — what one response is by the grammar of messages, without a
buffer, limits or pieces: where a reader stands after each unit. It is no part of
the code but the standard the parser is compared with, in the proofs and in an
assumption that TLC evaluates in the run.

**Scheduler** — both schedulers, with a clock of whole ticks; `plan` is the
test plan the run follows, which says which scheduler it is. `Ask` is the test
of the stop event under the lock, `Take` and `TakeNothing` the rest of the
critical section, `Pace` and `Abandon` the end of the open loop's wait: `Pace`
is its last test of the stop event. `HandOut` is the return from `next_attempt`,
a step of its own in both, because no lock is held there and `stop` takes none: it
may come between the last test and the return. `late` and `after` remember what
was taken and handed out after a stop.

**WorkExecutor** — `load/executor.py` and `run_plan`, EXTENDS ConnectionPool:
each step of an attempt that touches the pool is the pool's action conjoined
with the worker's. `wpc`, `mpc` and `tpc` are the program points of the workers,
of the thread of `run_plan` and of the timer; `plan` says which scheduler the
run has, whether it is timed, whether somebody stops it, and its fault. Times
are left out: a deadline, the end of the duration, the limit and Ctrl-C may come
at any moment. Timestamps are kept as the number of the attempt in whose
exchange they were taken. `ResultSample` knows no such number: it compares times
(`OutOfOrder`), and an exchange that was over before this attempt acquired its
connection is refused if the clock has moved since (`past`), and passes if it has
not. `Pace` reaches from the last test of the stop event to the call of `acquire`,
before it has the pool's lock, so that a stop between the two comes after it.

**Attempt** — the same attempt alone, with a clock: `_run_attempt` with every
deadline it sets, `acquire` as one caller sees it (an idle session, room for a
new one, or a wait, whichever), `_connect_socket` over several addresses, the
TLS handshake, sends and receives in pieces, and the order checks on the
sample's timestamps. A thread that is blocked stays so at most until its
deadline, except in `getaddrinfo`, which has none; one that can run may be late
by `MaxLag` ticks in all, and the properties allow for exactly that lateness.
The operating system may give up on a call before its deadline: its ETIMEDOUT is
a `socket.timeout` to the code (`TryGivenUp`, `GivenUp`).

**Requests** — a request from the command line to the wire: `HttpRequest`'s
checks, what the faults make of it, what the encoder accepts and adds. Header
values are classes of values, a body is its length.
**Program** — `main`, `plan_from_args`, the checks of the domain models,
`run_plan` around the run, the output file, and `exit_code_for`, with Ctrl-C
where it is handled (`RunInterrupted`) and where it is not (`Killed`). `load`
and `validate` are where plans are refused; the run is one step here. `exit` is
the status that the caller of the process sees, Python's own included: 1 after an
exception that nothing caught, 120 when stdout cannot be flushed at the end, 130,
in a shell, after a Ctrl-C that nothing caught. `told` is what stderr says of it.

**Metrics** — the collector in both modes side by side, `percentile`, and both
snapshots. **SeqRecursion** — the two loops over a sequence that Metrics and
Requests have in common, a comprehension with a condition and a sum, as functions
one can prove about.

The MC modules give the constants values. An operator with a name like
`CreateFailsSilently`, standing just before the one it resembles, is a variant
with a bug; the configurations never use it. It documents which bug a property
catches.

## 3. Runs

| Run | Instance | Shows |
| --- | --- | --- |
| PoolSafety | 5 threads without deadlines, 2 connections, 3 sessions, 2 closers | the pool's invariants, that no waiter is stranded, and that it keeps PoolPromise |
| PoolLiveness | 3 threads, two with deadlines, 1 connection | close drains the pool; a timed acquire returns |
| RunSafety | 2 workers, 1 connection, 2 attempts; three plans: closed loop, open loop with stop, timed closed loop, each with another fault | attempts, samples, leases, report |
| RunLiveness | 2 workers, 1 connection | every run ends and leaves no socket |
| Session | 3 exchanges, the scenario server's replies and 14 others | parser and session, the refinement, and that `execute` returns |
| Scheduler | 2 workers, four plans: each scheduler by count and by duration | numbers, times, rate, stop, end |
| Metrics | 5 samples of 6 kinds, windows of 3 | bounded against exact |
| Attempt | 16 plans: TCP and TLS, every fault, budgets in different orders | deadlines kept, sockets closed, timeouts deserved, timestamps in order |
| Program | 2962 command lines | what exit status and stderr tell, validation, requests |
| PoolSwallowedWakeup, RunFaultLost, SessionInterim | smaller instances | findings, below |

The bounds. In the pool, contention needs more threads than connections; five
threads on two connections have three that wait while both connections change
hands, a third session is needed when a spent one is replaced, and a second
closer for the `close_all` that finds the pool closed. Its threads have no
deadlines, since with them `NoStrandedWaiter` is false (`PoolSwallowedWakeup`);
deadlines are in PoolLiveness and in all the runs of WorkExecutor, and the
proofs hold for every mix. In a run, two attempts are enough to reuse a session,
so that the second meets the first's timing; `RunFaultLost` takes three. Three
exchanges let an error in the first or second show in a later one; the limits (a
header of 3 units, a body of 2, one trailer, pieces of up to 3) are each reached
and exceeded by a reply. The schedulers' rates, 3/4 and 2/3 of an attempt per
tick, make the timeline truncate, and the clock goes past the end; two workers
are enough for one to wait for its time while the other takes later numbers, is
stopped, or comes late. Windows of 3 fill up and drop values with 5 samples. In
Attempt, two addresses let the first fail and the second succeed, time out or
find the time gone; budgets of 1 to 4 ticks are in every order that matters, the
lookup may take any time up to `Horizon`, and a `MaxLag` of 2 lets the thread be
late in two places. In Program a limit is 2, and numbers are below, at and
beyond it; one family of command lines varies the request under the faults that
change it, the other the workload, because the code never looks at both.
`MaxExchanges`, `Horizon`, `MaxLag`, `MaxAddresses`, `MaxTaken`, `Count` (for a
timed run) and `MaxSamples` bound what the code does not.

Symmetry (threads, sessions, closers) is used in runs without liveness only; the
promise of the pool, which names no thread, is invariant under it. The metrics
run disables the deadlock check, since it stops at `MaxSamples`; in all the
others a stuck state would be reported, the ends of runs being steps of their
own (`Terminated`, `Over`, `Exhausted`) or, in the pool, never reached, since a
thread can always acquire again.

Fairness. Every thread that can run is run (weak fairness per thread). The pool
also assumes what its callers and the transport guarantee: creation ends, since
connecting has a timeout; an exchange ends, since the executor passes a deadline to
it; a lease is given back, by the executor's `finally`. Deadlines pass. It is
not assumed that anybody acquires, closes, stops or interrupts, nor that the
server sends, closes or resets.

### Findings

Runs that check what a document or test of the repository says, and that TLC
refutes:

* `PoolSwallowedWakeup` — a notify can be spent on a waiter that has timed out;
  another waiter then sleeps until its own deadline beside an idle connection.
  Without deadlines (PoolSafety) this cannot happen.
* `RunFaultLost` — a fault that fails an attempt before it writes, on a reused
  session, takes the timing of an earlier attempt. The sample is refused and the
  worker dies: the attempt is lost and the run goes on with fewer workers.
* `SessionInterim` — an interim response is taken for the final one, and the
  session is reused with the final one unread.

Writing the models showed more, which they have and no run asks about.

In a run:

* the `live` counter goes below zero when the pool closes while a session is
  being created (`connection_pool.py:109` and `:115` after `:140`); no bound
  depends on it, `SocketBound` holds of the closed pool too;
* an attempt whose reused session `close_all` closed before it called `execute`
  is lost for the same reason as in `RunFaultLost`;
* where the clock is too coarse to tell the earlier exchange from the moment the
  connection was acquired, the old timing is not refused but recorded, in these
  two cases only (`TimingMixesOnlyUnsent`);
* `stop` and `cancel` do not wait for the workers inside `next_attempt`: each may
  still be handed one attempt (`scheduler.py:80`, and `:180` after the test in
  `:178`), and in the closed loop one of them a number taken after the stop;
* on Ctrl-C, `run`'s `finally` closes the pool before `run_plan` stops the
  scheduler, so that workers may still take attempts, which fail;
* after Ctrl-C nobody joins the workers, and what they finish after the
  collector closed is not in the partial report.

In an attempt:

* the write and read timeouts, 5 seconds by default according to README.md, are
  read by nothing: only the request deadline bounds an exchange;
* timeouts of the lookup, the handshake and the pool are recorded as
  TRANSPORT_ERROR, those of connecting, writing and reading as TIMEOUT;
* when the operating system gives up on a connect, a send or a receive before the
  deadline, that is a TIMEOUT too (`transport/tcp.py:71`, `:112`, `:131`);
* a slow lookup can hold a worker past all its deadlines: `LeaseInTime` and
  `EndsInTime` bound what follows it, and the acquire deadline then refuses the
  lease, but no property bounds the lookup, since nothing in the code does;
* a response to HEAD with a Content-Length is waited for until the deadline;
* `bytes_sent` is the length of the plan's request, also where a fault replaced
  the body, and the size of a randomised body is not checked against
  `max_request_body_bytes`.

In the program:

* the exit codes 1 and 130 do not say by themselves what README.md:184 and :187
  of the repository say of them ("Completed, but some attempts failed",
  "Interrupted; a partial report is rendered first"): an exception that nothing
  catches ends with 1, and a Ctrl-C that nothing catches with 130 in a shell,
  whether or not there is a report; only the traceback on stderr tells
  (`ExitTells`). When stdout cannot be flushed, the status may be 120, which is
  not documented;
* a report that cannot be encoded in UTF-8 (a host name that is no text) may get
  to stdout, but leaves the file empty and ends with a traceback and status 1
  (`application/runner.py:159`, which `:160` does not catch);
* a request that the encoder refuses (two Host headers, a Transfer-Encoding, a
  wrong Content-Length, a path that is not ASCII) passes validation and ends in
  a traceback out of the executor's constructor, with status 1;
* Ctrl-C again while an interrupted run is wound up, or while the report is
  rendered, ends the program without the partial report;
* an interrupted run whose report file cannot be written exits with 2, not 130;
* `--max-runtime`, documented as a cap (README.md:208 of the repository),
  replaces the built-in ceiling of a day (`application/config.py:218`), so that
  it can raise it too; only `--duration` keeps a ceiling of its own.

## 4. Proofs

`ConnectionPoolProofs.tla` proves for every `Threads` (finite), `Closers`,
`Sessions` and `Max`, from the assumptions named in `ConnectionPool.tla`:
`TypeCorrect`, `LeasesAreExclusive`, `IdleSessionsAreHealthy`,
`NoSocketIsOrphaned`, `SocketsAreBounded`, `LiveIsExact` and, for threads
without deadlines, `NobodyIsStranded`.

None of these is inductive by itself, and the invariant is built in layers,
each preserved with the help of those before it:

1. `TypeInv` — types, and that a thread has a session exactly at the points
   where it should;
2. `Ownership` — idle, held and leased sessions: no two owners; every leased
   session has a holder; idle sessions are usable. It gives `ExclusiveLease`
   and `IdleHealthy`;
3. `Tracking` — an open session is idle, held, or on a closer's list; a holder
   whose session is no longer leased finds it on such a list. It gives
   `NoOrphanSocket`: `release` ignores such a session, and the list is why it
   may;
4. `Slots` — what `live` counts before the close, and a bound on the open
   sockets and creations that outlives it. It gives `Accounting` and
   `SocketBound`; the steps count with the library's theorems on finite sets.

`NobodyIsStranded` has the assumption `TimedThreads = {}`, since with deadlines
`NoStrandedWaiter` is false (the run `PoolSwallowedWakeup`). Its invariant
`Wakeful` adds to it that every waiter is at its wait (`WaitersWait`), so that a
thread that is woken is one more on its way: each step that frees an idle session
or a slot wakes one as long as somebody waits, and each step that takes a thread
off its way takes a unit of capacity with it, or the thread finds none.

The last part of the module proves `PoolKeepsPromise`: `Spec` implements
`PoolPromise` under the mapping in `ConnectionPool`, for all values of the
constants and with deadlines. It takes `TypeInv`, `Ownership` and `Slots` as
invariants of `Spec` and shows that every action is a
step of the promise or invisible in it. `Ownership` is needed where a session is
lent (nobody else has it, and it is healthy, so that `acquire` never has to close
the one it takes), `Slots` where one is opened (the sockets that exist and are
being opened leave room), and a lemma that an action which moves no lease
changes nothing the users see carries the rest.

`WorkExecutorProofs.tla` is about runs with any workers, sessions, connections,
attempts and plans. `RunUsesPool` shows that every step of a run is a step of
the pool's own specification or none (`RunSpec => Spec`), so that all the pool's
theorems hold of runs: the executor never calls the pool where its caller may
not. Then `RunTyped`, `LeasesEndWithAttempts`, `AttemptsAreConserved`,
`OldTimingMeansUnsent` and `ReportsAreComplete`, from an invariant in layers:
`Placed` (where in the pool a worker is at each of its points, which with the
pool's `Ownership` gives the leases), `Numbered` (a number handed out has
a sample unless one worker, perhaps dead, still has its attempt), `Sent` (whose
timing a worker has at each of its points: another's, or one that is refused, only
if its attempt was not sent, its own with a response; and what follows for the
samples), `Reported`
(what the collector has at each point of `run_plan`, and who may still submit).

`AttemptProofs.tla` proves every property of `Attempt`, for any plans, budgets,
number of addresses, lateness and bound on the clock: `AttemptLosesNoSocket`,
`LeasesComeInTime`, `AttemptsEndInTime`, `TimeoutsAreEarned`,
`OwnTimesAreAccepted`. There is one invariant for each question. `Sockets` says
which socket is open at each point. `Timely` bounds the clock at each point by
the deadline that is in force there plus the lateness so far, and relates that
deadline (`net.by`) to the budgets; the bound on what precedes it carries over
at each change of deadline, which is where a budget counted from the wrong
moment would break the proof. `Earned` says whose time is over when a timeout is
on its way that the system did not cause, `Stamped` the order of the timestamps and whose timing is in the
session.

`HttpSessionProofs.tla` first proves `SessionLivesItsLife` (`ImplementsLife`) and
`BufferIsBounded`, for any limits and for servers that send anything that can be
cut into units (`RepliesAssumption`), in any pieces. `SessionInv` needs no more
of what comes than its form: it has the bound on the buffer, and that a session
in the middle of an exchange is not closed. The bound rests on the first end of
a line being where the search for it says.

Then it proves `OwnRequestIsAnswered`, `ReusableIsConsumed` and `BodiesAreWhole`,
under the hypothesis that the server gives at most one response to a request:
`OneResponse` of each reply. A reply may be malformed, cut off, oversized or never
come to an end; it may not go on after a complete response, as an interim
response followed by the final one does. Without the hypothesis all this is
false, and `SessionInterim` is the counterexample. The invariant `ReadInv`
compares the parser with the reader of `Responses`: at each point of the parser
there is a place in the reply such that the units from there on are those in the
buffer and on the wire, and the reader of the units before it stands where the
parser does, with as much of a length due and as much of a body counted
(`Located`, in `InPlace`). An error in the middle of a response loses the place,
and the session is not usable after it. With `Kept` (the results so far are whole and their
own), `Recorded` (one reply and one result to each exchange) and `Clean` (nothing
before a usable session) this is inductive, and TLC checked it on the instance
of the run Session before it was proved.

That the hypothesis is one that servers meet is checked twice. `MCHttpSession`
assumes it of all the replies of the run, so that TLC evaluates it; and
`ScenariosAreResponses` proves it of the scenario server, for bodies of any length
in chunks of any size, by induction along the body and along the chunks. With it
`SessionsWithScenarios` states the three properties against that server, in all
its scenarios at once, with no hypothesis on what comes.

`SchedulerProofs.tla` proves every safety property of `Scheduler`, for any
workers (at least one), plans and bounds: `SchedulerTyped`, `EverythingInTime`,
`NoNumberLost`, `StopIsHeld`, `CountIsReached`, `RateIsRespected`. The
properties are about what was handed out; the invariant `SchedulerInv` adds what
is about to be: who holds the lock (`Locking`), what holds once the workers run
(`Beginning`), that a number is with one worker inside `next_attempt` or with one
attempt, or was given up at a stop (`Numbering`), that whoever has a number has a
time on the timeline (`Timing`), that a number taken after a stop is the only one,
nobody has the lock any more, and in the open loop nobody is past the last test
with it, while a worker handed an attempt after the stop is not inside
`next_attempt` with another (`Stopping`), and that workers end without a stop only at the count
(`Ending`). `OneNumberEach` turns `Numbering` into the count of attempts, by a
bijection; for the rate, the largest number handed out is at least that count
(`LateNumber`), and its truncated time on the timeline is not later than now
(`TruncatedQuotient`).

`ProgramProofs.tla` proves `ProgramTyped`, `ExitCodeTells`,
`OnlyValidPlansStart` and `EveryRequestUnambiguous` of `Program`, for any command
lines and limits. An exit status says what the steps before it did, so the
invariant says at each point of the program what has been started, printed and
written (`Progress`), and which checks have been passed (`Checked`).
`OnlyValidPlansStart` is about all the limits, the number of attempts included.
`ArgumentsAssumption` states what argparse delivers: the types of the arguments,
and those that have defaults given. The requests are about lists of headers of any
length: which headers of a name remain when a fault has taken some out and put
one in, and the encoder has done the same, given only that the original request
could be encoded. The lemmas say how the headers of a name change when lists are
joined and filtered (`NamedConcat`, `NamedWithout`, `NamedParts`), from the facts
about selections in `SeqRecursionProofs`.

`MetricsProofs.tla` proves the properties of `Metrics`, for any samples in any
order, any size of the windows and any percentiles: `BothModesAgree`
(`CountersExact`), `WindowsAreRecent` and `PercentilesArePlaced`. The exact mode
computes from the list of all samples what the bounded one keeps as it goes, so
that the invariant says what the list, one sample longer, computes:
`CountsOfAppend`, `ValuesAppend`, `RecentAppend` and `ColumnsAppend` are that step
for counts, selections, windows and sums. For a percentile, the value at rank k of
a list (from 0) is one of its elements, with at most k below it and more than k
that do not exceed it (`OrderedValue`); interpolation keeps it between two neighbours (`Interpolated`),
and percentiles in order have ranks in order (`PercentileMonotone`).

`SeqRecursionProofs.tla` has what these need of induction. The library's
induction theorems have operators as parameters, which the installed provers do
not instantiate; the same principle is proved here for sets, which they do: a set
of numbers that has 0, and with each number the next, has all of them up to a
bound (`Induction`, by the least number that it lacks), a recursion along an
interval has a solution and only one (`RecursiveFunction`, `Alike`), and a set of
sequences closed under `Append` has all of them (`SequenceInduction`).

Only model-checked is what needs fairness: `CloseDrains`, `TimedAcquireReturns`,
`RunTerminates`, `WorkersEnd` and `ExecuteReturns`. They need ENABLED, which the prover does
not handle, and are checked on small instances only.

## 5. Not modelled

The layout of reports, JSON and progress lines; `--help` and `--version`, which
end in argparse; the syntax of numbers, URLs and header lines below the classes
the models distinguish; `isinstance` checks of the domain models that no caller
in the repository can fail; the threads, request reading and shutdown of the
scenario server, and the benchmark driver, which are not part of the program.
Floating-point division in the open loop's timeline is exact here, then
truncated as in the code. Condition variables may wake up spuriously only when
they time out, as CPython's do. A critical section reads the clock once: the
second test of the deadline before a wait (`connection_pool.py:100`) is the
first one.

Attempt and WorkExecutor are not composed: the first has time and one worker,
the second all the workers and no time. What ties them is that WorkExecutor lets
every deadline pass at any moment, so that no order of events that Attempt's
clock allows is missing in it.

## 6. Plan

Done, in this order: pool and its proofs, run, session and parser, schedulers,
metrics; then one attempt on the clock with the transports, the program with its
requests, the scenario server, the pool's promise and its refinement proof, and
the proofs about schedulers, program, runs, session and attempt, metrics, requests
and the reading of responses. Next:

1. The executor over `Scheduler` instead of over what it hands out, so that the
   numbers and the stop of a run are the schedulers' own.
2. That `execute` in `Attempt` refines `HttpSession` with a clock added, so that
   the times of an attempt and the reading of its response are of one model.
3. The scenario server's threads and its shutdown, if it grows beyond a fixture.
