----------------------------- MODULE ItmProcess ------------------------------
(***************************************************************************)
(* The run of kist_itm: ItmRunnerImpl::async_run, ItmProcess and           *)
(* ProgressPoller of src/src/itm_runner.cpp.                               *)
(*                                                                         *)
(* Timers, the end of the process, the end of its output and the byte that *)
(* a detached thread read from the progress file are handlers of one       *)
(* io_context, ready in any order.  cancel() and close() stop what has not *)
(* happened; the handler of what has still runs.                           *)
(***************************************************************************)
EXTENDS Integers

CONSTANTS
    MaxLines,   \* bound on the lines that kist_itm prints
    MaxTests    \* tests of the package, of which it writes the share done

ASSUME BoundsAssumption == MaxLines \in Nat /\ MaxTests \in Nat \ {0}

VARIABLES
    (* kist_itm and its hooks *)
    child,       \* "absent", "running", or what it left: "zero", "nonzero"
    killed,      \* was it sent SIGKILL?
    writers,     \* who holds the pipe: kist_itm, a hook that it started
    tests,       \* tests completed in this run
    file,        \* what the progress file says, k_no_update: nothing
    printed,     \* lines printed
    piped,       \* lines in the pipe
    (* the io_context *)
    armed,       \* timers running
    ready,       \* timers that expired, "exit", "chunk": handlers to be run
    (* the ProgressPoller *)
    poll,        \* the thread of a poll: "none", "reading", or "read"
    byte,        \* what it read
    stopped, last_progress,
    (* the ItmProcess and its log *)
    proc,        \* proc_ is set
    timed_out, exited, drained, finished, exit_code,
    log,         \* itm_log_ is open
    logged,      \* lines written to it
    tee,         \* "off", "reading", "stopped", "done" when on_eof_ was called
    (* the caller *)
    asked, answers,
    gave_up      \* did on_drain_timeout find the output still open?

itm     == <<child, killed, writers, tests, file, printed>>
output  == <<piped, logged, tee>>
poller  == <<poll, byte, stopped, last_progress>>
process == <<proc, timed_out, exited, drained, finished, exit_code, log>>
caller  == <<asked, answers, gave_up>>

vars == <<itm, output, armed, ready, poller, process, caller>>

Timers == {"deadline", "drain", "poll"}

k_no_update == -1

Init ==
    /\ child = "absent" /\ killed = FALSE /\ writers = {}
    /\ tests = 0 /\ printed = 0
    /\ file \in {k_no_update, MaxTests}    \* what an earlier run left
    /\ piped = 0 /\ logged = 0 /\ tee = "off"
    /\ armed = {} /\ ready = {}
    /\ poll = "none" /\ byte = k_no_update /\ stopped = TRUE
    /\ last_progress = 0
    /\ proc = FALSE /\ timed_out = FALSE /\ exited = FALSE
    /\ drained = FALSE /\ finished = FALSE /\ exit_code = "failed"
    /\ log = FALSE
    /\ asked = 0 /\ answers = 0 /\ gave_up = FALSE

-----------------------------------------------------------------------------
(* kist_itm *)

\* It truncates the progress file before it writes the new count.
CompleteTest ==
    /\ child = "running" /\ tests < MaxTests
    /\ tests' = tests + 1 /\ file' = k_no_update
    /\ UNCHANGED <<child, killed, writers, printed, output, armed, ready,
                   poller, process, caller>>

WriteProgress ==
    /\ child = "running" /\ file # tests
    /\ file' = tests
    /\ UNCHANGED <<child, killed, writers, tests, printed, output, armed,
                   ready, poller, process, caller>>

PrintLine ==
    /\ writers # {} /\ printed < MaxLines
    /\ printed' = printed + 1 /\ piped' = piped + 1
    /\ UNCHANGED <<child, killed, writers, tests, file, logged, tee, armed,
                   ready, poller, process, caller>>

\* A hook ends, or one of the two redirects its output.
ClosePipe(writer) ==
    /\ writer \in writers
    /\ writers' = writers \ {writer}
    /\ UNCHANGED <<child, killed, tests, file, printed, output, armed, ready,
                   poller, process, caller>>

Exit(code) ==
    /\ child = "running"
    /\ child' = code
    /\ writers' = writers \ {"kist_itm"}
    /\ ready' = ready \cup {"exit"}
    /\ UNCHANGED <<killed, tests, file, printed, output, armed, poller,
                   process, caller>>

Die == killed /\ Exit("nonzero")

Expire(timer) ==
    /\ timer \in armed
    /\ armed' = armed \ {timer}
    /\ ready' = ready \cup {timer}
    /\ UNCHANGED <<itm, output, poller, process, caller>>

\* The detached thread of ProgressPoller::poll.
ThreadReads ==
    /\ poll = "reading"
    /\ poll' = "read" /\ byte' = file
    /\ UNCHANGED <<itm, output, armed, ready, stopped, last_progress, process,
                   caller>>

\* The reactor completes the read of OutputTee::read_next.
ReadPipe ==
    /\ tee = "reading" /\ piped > 0 /\ "chunk" \notin ready
    /\ piped' = piped - 1
    /\ ready' = ready \cup {"chunk"}
    /\ UNCHANGED <<itm, logged, tee, armed, poller, process, caller>>

-----------------------------------------------------------------------------
(* async_run *)

StaleProgressRemoved == k_no_update

\* The log, the pipe or the process cannot be created.  What cannot open the
\* log for writing cannot remove the file beside it either.
AsyncRunFails ==
    /\ asked = 0
    /\ asked' = 1 /\ answers' = answers + 1
    /\ file' \in {file, StaleProgressRemoved}
    /\ UNCHANGED <<child, killed, writers, tests, printed, output, armed,
                   ready, poller, process, gave_up>>

\* poll() without the pipe that it needs waits for the next turn.
AsyncRun ==
    /\ asked = 0
    /\ asked' = 1
    /\ file' = StaleProgressRemoved
    /\ child' = "running"
    /\ writers' \in {{"kist_itm"}, {"kist_itm", "hook"}}
    /\ log' = TRUE /\ tee' = "reading" /\ proc' = TRUE
    /\ stopped' = FALSE
    /\ \/ poll' = "reading" /\ armed' = {"deadline"}
       \/ poll' = "none" /\ armed' = {"deadline", "poll"}
    /\ UNCHANGED <<killed, tests, printed, piped, logged, ready, byte,
                   last_progress, timed_out, exited, drained, finished,
                   exit_code, answers, gave_up>>

-----------------------------------------------------------------------------
(* The handlers of ProgressPoller *)

\* ProgressPoller::report
Report(pct) == IF pct = k_no_update THEN last_progress ELSE pct

\* Mutant: a byte that arrives after stop() is reported too.
LateByteCounts == TRUE

ByteCounts == ~stopped

OnPollResult ==
    /\ poll = "read"
    /\ poll' = "none"
    /\ last_progress' = IF ByteCounts THEN Report(byte) ELSE last_progress
    /\ armed' = IF stopped THEN armed ELSE armed \cup {"poll"}
    /\ UNCHANGED <<itm, output, ready, byte, stopped, process, caller>>

OnPollTimer ==
    /\ "poll" \in ready
    /\ ready' = ready \ {"poll"}
    /\ \/ stopped /\ UNCHANGED <<poll, armed>>
       \/ ~stopped /\ poll' = "reading" /\ UNCHANGED armed
       \/ ~stopped /\ armed' = armed \cup {"poll"} /\ UNCHANGED poll
    /\ UNCHANGED <<itm, output, byte, stopped, last_progress, process, caller>>

-----------------------------------------------------------------------------
(* The handlers of ItmProcess *)

\* finish(), called with these timers running and the tee in that state; done_
\* closes the log.
Finish(running, pump) ==
    IF ~finished /\ exited' /\ drained'
    THEN /\ finished' = TRUE /\ answers' = answers + 1 /\ log' = FALSE
         /\ armed' = running \ {"drain"}
         /\ tee' = IF pump = "reading" THEN "stopped" ELSE pump
    ELSE /\ armed' = running /\ tee' = pump
         /\ UNCHANGED <<finished, answers, log>>

OnDeadlineExpired ==
    /\ "deadline" \in ready
    /\ ready' = ready \ {"deadline"}
    /\ timed_out' = (timed_out \/ proc) /\ killed' = (killed \/ proc)
    /\ UNCHANGED <<child, writers, tests, file, printed, output, armed, poller,
                   proc, exited, drained, finished, exit_code, log, caller>>

\* Mutant: a status of zero is believed although the process was killed.
ExitCodeByStatus(failed) ==
    IF child = "zero" THEN "zero"
    ELSE IF timed_out THEN "sw_timeout" ELSE IF failed THEN "failed" ELSE child

ExitCode(failed) ==
    IF timed_out THEN "sw_timeout" ELSE IF failed THEN "failed" ELSE child

\* Mutant: the output of a killed kist_itm is waited for without limit.
DrainUnlessKilled == IF timed_out THEN {} ELSE {"drain"}

DrainTimer == {"drain"}

OnProcessExit ==
    /\ "exit" \in ready
    /\ ready' = ready \ {"exit"}
    /\ stopped' = TRUE /\ last_progress' = Report(file)
    /\ proc' = FALSE
    /\ \E failed \in BOOLEAN : exit_code' = ExitCode(failed)
    /\ exited' = TRUE
    /\ UNCHANGED <<itm, piped, logged, poll, byte, timed_out, drained, asked,
                   gave_up>>
    /\ Finish((armed \ {"deadline", "poll"}) \cup DrainTimer, tee)

OnDrainTimeout ==
    /\ "drain" \in ready
    /\ ready' = ready \ {"drain"}
    /\ drained' = TRUE /\ gave_up' = (gave_up \/ ~drained)
    /\ UNCHANGED <<itm, piped, logged, poller, proc, timed_out, exited,
                   exit_code, asked>>
    /\ Finish(armed, tee)

\* OutputTee::on_chunk; LogFile::write is silent on a log that was closed.
OnChunk ==
    /\ "chunk" \in ready
    /\ ready' = ready \ {"chunk"}
    /\ logged' = IF log THEN logged + 1 ELSE logged
    /\ UNCHANGED <<itm, piped, tee, armed, poller, process, caller>>

\* Mutant: the end of the output is the end of kist_itm.
EndOfOutputOnExit == "kist_itm" \notin writers

EndOfOutput == piped = 0 /\ writers = {}

\* OutputTee::on_eof and on_drained.
OnEof ==
    /\ "chunk" \notin ready
    /\ tee = "stopped" \/ (tee = "reading" /\ EndOfOutput)
    /\ drained' = TRUE
    /\ UNCHANGED <<itm, piped, logged, ready, poller, proc, timed_out, exited,
                   exit_code, asked, gave_up>>
    /\ Finish(armed, "done")

Handler ==
    \/ OnPollResult \/ OnPollTimer \/ OnDeadlineExpired \/ OnProcessExit
    \/ OnDrainTimeout \/ OnChunk \/ OnEof

Next ==
    \/ CompleteTest \/ WriteProgress \/ PrintLine
    \/ \E writer \in {"kist_itm", "hook"} : ClosePipe(writer)
    \/ \E code \in {"zero", "nonzero"} : Exit(code)
    \/ \E timer \in Timers : Expire(timer)
    \/ ThreadReads \/ ReadPipe
    \/ AsyncRunFails \/ AsyncRun
    \/ Handler

\* The event loop runs what is ready, time passes and SIGKILL ends a process.
\* The progress file may lie on a file system that hangs: the thread that
\* reads it has no fairness.
Spec ==
    /\ Init /\ [][Next]_vars
    /\ WF_vars(Die) /\ WF_vars(ReadPipe)
    /\ \A timer \in Timers : WF_vars(Expire(timer))
    /\ WF_vars(OnDeadlineExpired) /\ WF_vars(OnProcessExit)
    /\ WF_vars(OnDrainTimeout) /\ WF_vars(OnChunk) /\ WF_vars(OnEof)

-----------------------------------------------------------------------------
(* Properties *)

\* Every variable has its type.
TypeOK ==
    /\ {killed, stopped, proc, timed_out, exited, drained, finished, log,
        gave_up} \subseteq BOOLEAN
    /\ child \in {"absent", "running", "zero", "nonzero"}
    /\ exit_code \in {"zero", "nonzero", "sw_timeout", "failed"}
    /\ writers \subseteq {"kist_itm", "hook"}
    /\ tests \in 0 .. MaxTests
    /\ {file, byte} \subseteq {k_no_update} \cup 0 .. MaxTests
    /\ last_progress \in 0 .. MaxTests
    /\ printed \in 0 .. MaxLines /\ {piped, logged} \subseteq 0 .. printed
    /\ armed \subseteq Timers /\ ready \subseteq Timers \cup {"exit", "chunk"}
    /\ poll \in {"none", "reading", "read"}
    /\ tee \in {"off", "reading", "stopped", "done"}
    /\ {asked, answers} \subseteq {0, 1}

Promise == INSTANCE OneShot
    WITH asked <- asked, answered <- answers,
         busy <- child = "running" \/ armed # {} \/ log \/ ~stopped

\* async_run keeps the promise of OneShot: done is called once, whatever order
\* the exit, the end of the output and the timers come in, with kist_itm gone,
\* no timer left, its log closed ("so the archive does not tar a file still
\* being written") and the poller stopped; and it is called for a kist_itm
\* that never ends, one whose hooks hold the pipe, and one whose progress file
\* cannot be read.
KeepsPromise == Promise!Spec

\* Whoever waits for kist_itm finds all of its output in its log, but for a
\* hook that holds the pipe until the drain timer expires ("closing the read
\* stream here is what used to discard kist_itm's closing lines").
OutputIsComplete ==
    answers > 0 /\ ~gave_up => logged = printed

\* The progress published is of this run ("so the poller doesn't read old data
\* and immediately report 100%"), and what stop() read last is not overridden
\* by a poll whose thread was slower.
ProgressIsGenuine ==
    /\ last_progress <= tests
    /\ exited /\ file # k_no_update => last_progress = file

\* The status handed on says what happened when the deadline and the exit
\* race: a kist_itm that was killed is reported as a timeout whatever status it
\* left, one that was not never is, and success means a status of zero.
VerdictIsGenuine ==
    exited =>
        /\ exit_code = "sw_timeout" <=> killed
        /\ exit_code = "zero" => child = "zero"
=============================================================================
