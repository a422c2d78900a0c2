------------------------------ MODULE Program ------------------------------
(***************************************************************************)
(* The program from its arguments to its exit code: main and load_plan     *)
(* (application/cli.py and config.py, http/url.py, the checks of the       *)
(* domain models), run_plan around the executor's run                      *)
(* (application/runner.py), and exit_code_for (observability/report.py).   *)
(*                                                                         *)
(* The run itself is a step here that returns, fails or is interrupted;    *)
(* WorkExecutor is what happens in it.  Ctrl-C may come more than once.    *)
(***************************************************************************)
EXTENDS Requests, FiniteSets

CONSTANTS
    Arguments,      \* the command lines considered
    Limits          \* the safety limits the command line cannot change

ASSUME LimitsAssumption ==
    Limits \in [workers : Nat, connections : Nat, requests : Nat, duration : Nat,
                runtime : Nat, body : Nat, reservoir : Nat]

\* Every number is an integer here, and one that is not given is None; some
\* options have a default.
ASSUME ArgumentsAssumption ==
    \A a \in Arguments :
        /\ {a.count, a.duration, a.warmup, a.workers, a.connections, a.rate, a.runtime,
            a.reservoir, a.fault.bytes, a.fault.probability} \subseteq Int
        /\ \A n \in {a.workers, a.connections, a.reservoir} : Given(n)
        /\ a.request \in [method : STRING, target : STRING, body : Nat,
                          headers : Seq([name : STRING, value : STRING])]
        /\ a.openLoop \in BOOLEAN /\ a.output \in BOOLEAN

VARIABLES
    args,           \* the command line
    at,             \* where the program is
    started,        \* whether the executor ran, and so sockets may have been opened
    failures,       \* whether the report counts failed attempts
    interrupted,    \* run_plan's flag of that name
    out,            \* what stdout has: "nothing", "part" or "report"
    file,           \* what the report file has: "nothing", "part" or "report"
    told,           \* what stderr says of the end: "nothing", "error" or "traceback"
    exit            \* the status of the process, None while it runs

vars == <<args, at, started, failures, interrupted, out, file, told, exit>>

ExitCode == [success |-> 0, completedWithErrors |-> 1, executionFailure |-> 2,
             invalidConfiguration |-> 3, interrupted |-> 130]

\* What Python itself ends with: after an exception that nothing caught, when
\* what is left for stdout cannot be flushed, and, as a shell sees it, after a
\* Ctrl-C that nothing caught.  Two of them are exit codes of the program, too.
PythonExit == [uncaught |-> 1, unflushed |-> 120, keyboardInterrupt |-> 130]

Init ==
    /\ args \in Arguments
    /\ at = "load"
    /\ started = FALSE
    /\ failures = FALSE
    /\ interrupted = FALSE
    /\ out = "nothing"
    /\ file = "nothing"
    /\ told = "nothing"
    /\ exit = None

-----------------------------------------------------------------------------
(* load_plan *)

\* The parser takes numbers that are positive, and exactly one workload.
Parses(a) ==
    /\ Given(a.count) # Given(a.duration)
    /\ \A n \in {a.count, a.duration, a.workers, a.connections, a.rate, a.runtime,
                 a.fault.bytes, a.reservoir} : Given(n) => n > 0
    /\ a.warmup >= 0
    /\ a.fault.probability >= 0

MaxPort == 65535

\* parse_target: an absolute http or https URL, a host and a port, no user.
ParsesTarget(a) ==
    /\ a.url.scheme \in {"http", "https"}
    /\ a.url.host = "name"
    /\ a.url.port \in {None} \cup 1..MaxPort

\* The fault policy is built only for a mode other than none.
ValidFault(a) == a.fault.mode # "none" => a.fault.probability <= 1

Planned(a) == a.warmup + (IF Given(a.duration) THEN a.duration ELSE 0)

RuntimeLimit(a) == IF Given(a.runtime) THEN a.runtime ELSE Limits.runtime

WithinLimitsUncounted(a) ==
    /\ a.duration <= Limits.duration
    /\ Planned(a) <= RuntimeLimit(a)
    /\ a.workers <= Limits.workers
    /\ a.connections <= Limits.connections
    /\ a.request.body <= Limits.body

\* TestPlan and validate_plan_limits look at the limits one after the other.
WithinLimits(a) ==
    /\ a.count <= Limits.requests
    /\ a.duration <= Limits.duration
    /\ Planned(a) <= RuntimeLimit(a)
    /\ a.workers <= Limits.workers
    /\ a.connections <= Limits.connections
    /\ a.request.body <= Limits.body

ValidPlan(a) ==
    /\ WithinLimits(a)
    /\ a.openLoop <=> Given(a.rate)
    /\ a.reservoir <= Limits.reservoir

Exits(status, saying) ==
    /\ at' = "over"
    /\ exit' = status
    /\ told' = saying

\* main tells a plan it cannot load from one that it runs.
Load ==
    /\ at = "load"
    /\ IF /\ Parses(args) /\ ParsesTarget(args) /\ ValidRequest(args.request)
          /\ ValidFault(args) /\ ValidPlan(args)
       THEN at' = "validate" /\ UNCHANGED <<told, exit>>
       ELSE Exits(ExitCode.invalidConfiguration, "error")
    /\ UNCHANGED <<args, started, failures, interrupted, out, file>>

-----------------------------------------------------------------------------
(* run_plan *)

\* The executor's constructor encodes the request; it is outside run_plan's
\* try statement, so that what the encoder raises ends the process.
Construct ==
    /\ at = "validate"
    /\ IF ~WithinLimits(args) THEN Exits(ExitCode.invalidConfiguration, "error")
       ELSE IF ~Encodable(args.request) THEN Exits(PythonExit.uncaught, "traceback")
       ELSE at' = "run" /\ UNCHANGED <<told, exit>>
    /\ UNCHANGED <<args, started, failures, interrupted, out, file>>

\* The progress thread cannot be started; this, too, is before the try.
ProgressFails ==
    /\ at = "run"
    /\ Exits(PythonExit.uncaught, "traceback")
    /\ UNCHANGED <<args, started, failures, interrupted, out, file>>

\* The run returns, with failed attempts or without.
RunReturns ==
    /\ at = "run"
    /\ at' = "report"
    /\ started' = TRUE
    /\ failures' \in BOOLEAN
    /\ UNCHANGED <<args, interrupted, out, file, told, exit>>

\* Ctrl-C in the run: cancel, and a report of what was done so far.
RunInterrupted ==
    /\ at = "run"
    /\ at' = "report"
    /\ started' = TRUE
    /\ failures' \in BOOLEAN
    /\ interrupted' = TRUE
    /\ UNCHANGED <<args, out, file, told, exit>>

\* A thread cannot be started.
RunFails ==
    /\ at = "run"
    /\ started' = TRUE
    /\ Exits(ExitCode.executionFailure, "error")
    /\ UNCHANGED <<args, failures, interrupted, out, file>>

Render ==
    /\ at = "report"
    /\ at' = IF args.output THEN "file" ELSE "exit"
    /\ out' = "report"
    /\ UNCHANGED <<args, started, failures, interrupted, file, told, exit>>

\* What is rendered cannot be written: nobody reads stdout any more, its disk is
\* full, or it cannot be encoded.  If there is something left to flush, Python
\* fails once more at its end.
RenderFails ==
    /\ at = "report"
    /\ out' \in {"nothing", "part"}
    /\ \E status \in {PythonExit.uncaught, PythonExit.unflushed} : Exits(status, "traceback")
    /\ UNCHANGED <<args, started, failures, interrupted, file>>

WriteFile ==
    /\ at = "file"
    /\ at' = "exit"
    /\ file' = "report"
    /\ UNCHANGED <<args, started, failures, interrupted, out, told, exit>>

\* An error in writing the file is told, and otherwise forgotten.
WriteFailsSoftly ==
    /\ at = "file"
    /\ at' = "exit"
    /\ file' \in {"nothing", "part"}
    /\ UNCHANGED <<args, started, failures, interrupted, out, told, exit>>

\* The file cannot be opened, or not all of the report be written.
WriteFails ==
    /\ at = "file"
    /\ file' \in {"nothing", "part"}
    /\ Exits(ExitCode.executionFailure, "error")
    /\ UNCHANGED <<args, started, failures, interrupted, out>>

\* UTF-8 has no form for what is rendered: a host name that is no text.
WriteRaises ==
    /\ at = "file"
    /\ Exits(PythonExit.uncaught, "traceback")
    /\ UNCHANGED <<args, started, failures, interrupted, out, file>>

Return ==
    /\ at = "exit"
    /\ Exits(IF interrupted THEN ExitCode.interrupted
             ELSE IF failures THEN ExitCode.completedWithErrors ELSE ExitCode.success,
             "nothing")
    /\ UNCHANGED <<args, started, failures, interrupted, out, file>>

\* Ctrl-C where nothing handles it, or again while it is handled.
Killed ==
    /\ at \in {"load", "validate", "report", "file", "exit"}
    /\ Exits(PythonExit.keyboardInterrupt, "traceback")
    /\ out' \in IF at = "report" THEN {"nothing", "part"} ELSE {out}
    /\ file' \in IF at = "file" THEN {"nothing", "part"} ELSE {file}
    /\ UNCHANGED <<args, started, failures, interrupted>>

Over == at = "over" /\ UNCHANGED vars

Next ==
    \/ Load \/ Construct \/ ProgressFails \/ RunReturns \/ RunInterrupted \/ RunFails
    \/ Render \/ RenderFails \/ WriteFile \/ WriteFails \/ WriteRaises \/ Return
    \/ Killed \/ Over

Spec == Init /\ [][Next]_vars

-----------------------------------------------------------------------------
\* The variables have their types, and a program that is over has told how.
TypeOK ==
    /\ args \in Arguments
    /\ at \in {"load", "validate", "run", "report", "file", "exit", "over"}
    /\ started \in BOOLEAN /\ failures \in BOOLEAN /\ interrupted \in BOOLEAN
    /\ out \in {"nothing", "part", "report"}
    /\ file \in {"nothing", "part", "report"}
    /\ told \in {"nothing", "error", "traceback"}
    /\ at = "over" <=> exit \in {0, 1, 2, 3, 120, 130}
    /\ at # "over" <=> exit = None

AllWritten == out = "report" /\ file = (IF args.output THEN "report" ELSE "nothing")

\* What a script can conclude from how the program ended (runner.py, README
\* "Exit codes").  0, 2 and 3 speak for themselves: 0 means that no attempt
\* failed and the whole report is on stdout and in the file that was asked for;
\* 2 that the run failed, or that stdout alone has the report; 3 that nothing
\* was started, printed or written.  1 and 130 do not, since an exception that
\* nothing catches and a Ctrl-C that nothing catches end with them, too: only
\* when stderr has no traceback do they mean that the whole report is written,
\* with failed attempts in it, or of an interrupted run.  A traceback comes
\* with no other exit code; but for Ctrl-C, something is missing then of what
\* should have been written.
ExitTells ==
    /\ exit = 0 => started /\ ~interrupted /\ AllWritten /\ ~failures
    /\ exit = 2 =>
           /\ started
           /\ out = "nothing" => file = "nothing"
           /\ out # "nothing" => out = "report" /\ args.output /\ file # "report"
    /\ exit = 3 => ~started /\ out = "nothing" /\ file = "nothing"
    /\ exit = 1 /\ told # "traceback" => started /\ ~interrupted /\ AllWritten /\ failures
    /\ exit = 130 /\ told # "traceback" => started /\ interrupted /\ AllWritten
    /\ told = "traceback" => exit \in {1, 120, 130}
    /\ told = "traceback" /\ exit # 130 => ~AllWritten
    /\ exit = 120 => started /\ out # "report" /\ file = "nothing"

\* No socket is opened for a plan that cannot be carried out (README: "Plans
\* are validated before any socket opens"): the run that began has a target it
\* can connect to, one workload, a rate just if it is open-loop, fits in the
\* time it was given and in every limit, those of the number of attempts and of
\* the reservoir included, and has a fault it can draw and a request that can
\* be sent.
StartsOnlyValid ==
    started =>
        /\ args.url.host = "name" /\ args.url.port # 0
        /\ Cardinality({n \in {args.count, args.duration} : Given(n)}) = 1
        /\ Given(args.count) => args.count \in 1..Limits.requests
        /\ Given(args.duration) =>
               /\ args.duration \in 1..Limits.duration
               /\ args.warmup + args.duration <= RuntimeLimit(args)
        /\ args.warmup \in 0..RuntimeLimit(args)
        /\ args.openLoop <=> args.rate > 0
        /\ args.workers \in 1..Limits.workers /\ args.connections \in 1..Limits.connections
        /\ args.reservoir \in 1..Limits.reservoir
        /\ args.request.body <= Limits.body
        /\ args.fault.mode # "none" => args.fault.probability \in 0..1
        /\ Encodable(args.request)

\* What a run sends can be read in one way only, with a fault or without.  A
\* fault never makes a request the encoder refuses, which would count the
\* client's mistake as the server's failure (_with_body keeps headers and body
\* in step); what goes over the wire has one Host, one Content-Length, that of
\* the body, and no Transfer-Encoding; under connection churn the only word on
\* the connection is that it closes, and the session takes it so.
RequestsUnambiguous ==
    started => \A r \in EffectiveRequests(args.request, args.fault.mode, args.fault.bytes) :
        LET sent == Encode(r) IN
            /\ Encodable(r)
            /\ Len(Named(sent, "host")) = 1
            /\ Len(Named(sent, "content-length")) = 1
            /\ Named(sent, "content-length")[1].value # "added" =>
                   Declares(Named(sent, "content-length")[1].value) = r.body
            /\ Named(sent, "transfer-encoding") = <<>>
            /\ args.fault.mode = "connection_churn" /\ r # args.request =>
                   Named(sent, "connection") = <<Header("connection", "close")>> /\ WantsClose(r)
=============================================================================
