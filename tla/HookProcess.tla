----------------------------- MODULE HookProcess -----------------------------
(***************************************************************************)
(* One hook script: class HookProcess of src/src/hook_runner.cpp and the   *)
(* OutputTee (src/include/ist_logging.hpp) that copies its output to the   *)
(* service log.                                                            *)
(*                                                                         *)
(* Three timers, the end of the process and the end of its output are      *)
(* handlers of the same io_context, ready in any order.  cancel() stops a  *)
(* timer that has not expired; the handler of one that has still runs.     *)
(***************************************************************************)
EXTENDS Integers

CONSTANT MaxLines   \* bound on the lines that the hook prints

ASSUME LinesAssumption == MaxLines \in Nat

VARIABLES
    (* the hook and its descendants *)
    child,       \* "running", or what it left: "zero", "nonzero"
    stubborn,    \* does it ignore SIGTERM?
    writers,     \* who holds the pipe: the hook, a descendant outside its group
    signals,     \* what the process group was sent
    printed,     \* lines printed
    logged,      \* lines copied to the log
    (* the io_context *)
    armed,       \* timers running
    ready,       \* timers that expired, and "exit": handlers to be run
    (* the HookProcess *)
    proc,        \* proc_ is set
    timed_out, exited, drained, finished, ok,
    tee,         \* "reading", or "stopped", or "done" when on_eof_ was called
    answers,     \* how often done_ was called
    gave_up      \* did on_drain_timeout find the output still open?

hook    == <<child, stubborn, writers, signals, printed>>
flags   == <<timed_out, exited, drained, ok>>
outcome == <<finished, answers, gave_up>>

vars == <<hook, logged, armed, ready, proc, flags, outcome, tee>>

Timers == {"deadline", "grace", "drain"}

\* HookProcess::start, and OutputTee::start before it.
Init ==
    /\ child = "running" /\ stubborn \in BOOLEAN
    /\ writers \in {{"hook"}, {"hook", "descendant"}}
    /\ signals = {} /\ printed = 0 /\ logged = 0
    /\ armed = {"deadline"} /\ ready = {}
    /\ proc = TRUE
    /\ timed_out = FALSE /\ exited = FALSE /\ drained = FALSE
    /\ finished = FALSE /\ ok = FALSE
    /\ tee = "reading" /\ answers = 0 /\ gave_up = FALSE

-----------------------------------------------------------------------------
(* The hook *)

PrintLine ==
    /\ writers # {} /\ printed < MaxLines
    /\ printed' = printed + 1
    /\ UNCHANGED <<child, stubborn, writers, signals, logged, armed, ready,
                   proc, flags, outcome, tee>>

\* A descendant ends, or the hook redirects its output and lives on.
ClosePipe(writer) ==
    /\ writer \in writers
    /\ writers' = writers \ {writer}
    /\ UNCHANGED <<child, stubborn, signals, printed, logged, armed, ready,
                   proc, flags, outcome, tee>>

Exit(code) ==
    /\ child = "running"
    /\ child' = code
    /\ writers' = writers \ {"hook"}
    /\ ready' = ready \cup {"exit"}
    /\ UNCHANGED <<stubborn, signals, printed, logged, armed, proc, flags,
                   outcome, tee>>

\* What a signal leaves of a hook.
Die ==
    /\ "kill" \in signals \/ ("term" \in signals /\ ~stubborn)
    /\ Exit("nonzero")

Expire(timer) ==
    /\ timer \in armed
    /\ armed' = armed \ {timer}
    /\ ready' = ready \cup {timer}
    /\ UNCHANGED <<hook, logged, proc, flags, outcome, tee>>

-----------------------------------------------------------------------------
(* The handlers *)

\* Mutant: completion does not wait for the output.
CompleteOnExit == ~finished /\ exited'

\* Mutant: completion does not wait for the process.
CompleteOnDrain == ~finished /\ drained'

Complete == ~finished /\ exited' /\ drained'

\* finish(), called with these timers running and the tee in that state.
Finish(running, output) ==
    IF Complete
    THEN /\ finished' = TRUE /\ answers' = answers + 1
         /\ armed' = running \ {"drain"}
         /\ tee' = IF output = "reading" THEN "stopped" ELSE output
    ELSE /\ armed' = running /\ tee' = output
         /\ UNCHANGED <<finished, answers>>

AfterTimeout == armed \cup {"grace"}

OnTimeout ==
    /\ "deadline" \in ready
    /\ ready' = ready \ {"deadline"}
    /\ IF proc
       THEN /\ timed_out' = TRUE
            /\ signals' = signals \cup {"term"}
            /\ armed' = AfterTimeout
       ELSE UNCHANGED <<timed_out, signals, armed>>
    /\ UNCHANGED <<child, stubborn, writers, printed, logged, proc, exited,
                   drained, ok, outcome, tee>>

OnGraceExpired ==
    /\ "grace" \in ready
    /\ ready' = ready \ {"grace"}
    /\ signals' = IF proc THEN signals \cup {"kill"} ELSE signals
    /\ UNCHANGED <<child, stubborn, writers, printed, logged, armed, proc,
                   flags, outcome, tee>>

\* Mutant: the exit status alone decides.
SucceededByStatus == child = "zero"

Succeeded == ~timed_out /\ child = "zero"

DrainTimer == {"drain"}

OnExit ==
    /\ "exit" \in ready
    /\ ready' = ready \ {"exit"}
    /\ proc' = FALSE
    /\ ok' = Succeeded
    /\ exited' = TRUE
    /\ UNCHANGED <<hook, logged, timed_out, drained, gave_up>>
    /\ Finish((armed \ {"deadline", "grace"}) \cup DrainTimer, tee)

OnDrainTimeout ==
    /\ "drain" \in ready
    /\ ready' = ready \ {"drain"}
    /\ drained' = TRUE /\ gave_up' = (gave_up \/ ~drained)
    /\ UNCHANGED <<timed_out, exited, ok, proc>>
    /\ Finish(armed, tee)
    /\ UNCHANGED <<hook, logged>>

\* OutputTee::on_chunk
OnChunk ==
    /\ tee = "reading" /\ logged < printed
    /\ logged' = logged + 1
    /\ UNCHANGED <<hook, armed, ready, proc, flags, outcome, tee>>

\* OutputTee::on_eof and on_drained: nobody holds the other end of the pipe
\* and it is empty, or stop() has aborted the read.
OnEof ==
    /\ \/ tee = "reading" /\ logged = printed /\ writers = {}
       \/ tee = "stopped"
    /\ drained' = TRUE
    /\ UNCHANGED <<timed_out, exited, ok, proc, ready>>
    /\ Finish(armed, "done")
    /\ UNCHANGED <<hook, logged, gave_up>>

Handler ==
    OnTimeout \/ OnGraceExpired \/ OnExit \/ OnDrainTimeout \/ OnChunk \/ OnEof

Next ==
    \/ PrintLine
    \/ \E code \in {"zero", "nonzero"} : Exit(code)
    \/ \E writer \in {"hook", "descendant"} : ClosePipe(writer)
    \/ \E timer \in Timers : Expire(timer)
    \/ Handler

\* The event loop runs what is ready, time passes, and a signal that is not
\* ignored ends a process.
Spec ==
    /\ Init /\ [][Next]_vars
    /\ WF_vars(Handler) /\ WF_vars(Die)
    /\ \A timer \in Timers : WF_vars(Expire(timer))

-----------------------------------------------------------------------------
(* Properties *)

FlagType ==
    {stubborn, proc, timed_out, exited, drained, finished, ok,
     gave_up}
       \subseteq BOOLEAN

\* Every variable has its type.
TypeOK ==
    /\ FlagType
    /\ child \in {"running", "zero", "nonzero"}
    /\ writers \subseteq {"hook", "descendant"}
    /\ signals \subseteq {"term", "kill"}
    /\ printed \in 0 .. MaxLines /\ logged \in 0 .. printed
    /\ armed \subseteq Timers /\ ready \subseteq Timers \cup {"exit"}
    /\ tee \in {"reading", "stopped", "done"}
    /\ answers \in {0, 1}

Promise == INSTANCE OneShot
    WITH asked <- 1, answered <- answers,
         busy <- child = "running" \/ proc \/ armed # {}

\* async_run keeps the promise of OneShot: done_ is called once, in whatever
\* order the exit, the end of the output and the three timers come, only when
\* the hook is gone (also when its output ended earlier: the next step of a
\* run does not find it still at the boot strap) and no timer is left, and it
\* is called for a hook that ignores SIGTERM and for one whose descendants
\* never close the pipe.
KeepsPromise == Promise!Spec

\* A hook reported as successful ended with status 0 and was not signalled on
\* the way: a late SIGTERM never turns into a success.
SuccessIsGenuine == answers > 0 /\ ok => child = "zero" /\ signals = {}

\* Whoever waits for the hook to end finds all of its output in the log
\* ("the caller cannot archive or close the log while the hook's last lines
\* are still in the pipe"), but for a descendant that holds the pipe until the
\* drain timer expires.
OutputIsComplete ==
    answers > 0 /\ ~gave_up => logged = printed
=============================================================================
