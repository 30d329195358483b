------------------------- MODULE ItmProcess_proofs ---------------------------
(***************************************************************************)
(* One run of kist_itm, for any number of lines and of tests: it is        *)
(* answered once, with nothing of it left, its status is what happened,    *)
(* its output is in its log and the progress published is its own.         *)
(***************************************************************************)
EXTENDS ItmProcess, TLAPS

-----------------------------------------------------------------------------
(* The inductive invariant *)

Started == child # "absent"

\* Before async_run has launched kist_itm there is nothing to handle; a launch
\* that fails is answered at once and leaves it like that.
NothingBeforeStart ==
    /\ ~Started =>
         /\ answers = asked /\ ready = {} /\ armed = {} /\ writers = {}
         /\ ~exited /\ ~drained /\ ~finished /\ ~killed /\ ~log
         /\ stopped /\ poll = "none" /\ tee = "off"
         /\ tests = 0 /\ printed = 0 /\ piped = 0 /\ logged = 0
    /\ Started => asked = 1

\* The process has gone before on_process_exit runs, which runs once; from
\* then on the poller is stopped and only the drain timer may run.
ExitComesOnce ==
    Started =>
        /\ proc <=> ~exited
        /\ stopped <=> exited
        /\ child = "running" => "exit" \notin ready
        /\ exited => child # "running" /\ "exit" \notin ready
        /\ exited => armed \subseteq {"drain"}
        /\ ~exited => "drain" \notin armed \cup ready

\* The answer is given, and the log closed, at the first moment at which the
\* process has gone and its output has been given up or has ended.
AnswerComesOnce ==
    Started =>
        /\ finished <=> exited /\ drained
        /\ finished => armed = {} /\ answers = 1
        /\ ~finished => answers = 0
        /\ log <=> ~finished

\* Only the deadline kills, and the status handed on remembers it.
VerdictFollowsKill ==
    /\ timed_out <=> killed
    /\ VerdictIsGenuine

\* While the log is open each line is in the pipe, on its way or in the log;
\* output that has ended has been read to its end.
LinesAreCounted ==
    /\ log => printed = piped + logged + IF "chunk" \in ready THEN 1 ELSE 0
    /\ drained /\ ~gave_up =>
         writers = {} /\ logged = printed /\ "chunk" \notin ready /\ tee = "done"
    /\ tee = "stopped" => gave_up

\* What the progress file, the thread and the poller hold is of this run.
ProgressIsOwn ==
    /\ Started => file <= tests
    /\ byte <= tests
    /\ ProgressIsGenuine

ItmInvariant ==
    /\ TypeOK /\ NothingBeforeStart /\ ExitComesOnce /\ AnswerComesOnce
    /\ VerdictFollowsKill /\ LinesAreCounted /\ ProgressIsOwn

-----------------------------------------------------------------------------
(* The steps *)

LEMMA ItmInitially == Init => ItmInvariant
<1> SUFFICES ASSUME Init PROVE ItmInvariant
  OBVIOUS
<1> USE DEF Init, Started, k_no_update
<1>1. 0 \in 0 .. MaxTests /\ MaxTests \in 0 .. MaxTests /\ 0 \in 0 .. MaxLines
      /\ 0 \in 0 .. 0
  BY BoundsAssumption
<1>2. TypeOK
  BY <1>1 DEF TypeOK, Timers
<1>3. NothingBeforeStart /\ ExitComesOnce /\ AnswerComesOnce
  BY DEF NothingBeforeStart, ExitComesOnce, AnswerComesOnce
<1>4. VerdictFollowsKill /\ LinesAreCounted
  BY DEF VerdictFollowsKill, VerdictIsGenuine, LinesAreCounted
<1>5. ProgressIsOwn
  BY DEF ProgressIsOwn, ProgressIsGenuine
<1>6. QED
  BY <1>2, <1>3, <1>4, <1>5 DEF ItmInvariant

LEMMA CompleteTestStep ==
  ASSUME ItmInvariant, CompleteTest
  PROVE  ItmInvariant'
<1> USE DEF CompleteTest, output, poller, process, caller
<1>1. /\ tests \in 0 .. MaxTests /\ MaxTests \in Nat /\ MaxLines \in Nat
      /\ {file, byte} \subseteq {-1} \cup 0 .. MaxTests
      /\ last_progress \in 0 .. MaxTests
  BY BoundsAssumption DEF ItmInvariant, TypeOK, k_no_update
<1>2. TypeOK'
  BY <1>1 DEF ItmInvariant, TypeOK, k_no_update
<1>3. NothingBeforeStart' /\ ExitComesOnce' /\ AnswerComesOnce'
  BY DEF ItmInvariant, NothingBeforeStart, Started, ExitComesOnce,
         AnswerComesOnce
<1>4. VerdictFollowsKill' /\ LinesAreCounted'
  BY DEF ItmInvariant, VerdictFollowsKill, VerdictIsGenuine, LinesAreCounted
<1>5. ProgressIsOwn'
  BY <1>1 DEF ItmInvariant, ProgressIsOwn, ProgressIsGenuine, Started,
              k_no_update, ExitComesOnce
<1>6. QED
  BY <1>2, <1>3, <1>4, <1>5 DEF ItmInvariant

LEMMA WriteProgressStep ==
  ASSUME ItmInvariant, WriteProgress
  PROVE  ItmInvariant'
<1> USE DEF WriteProgress, output, poller, process, caller
<1>1. /\ tests \in 0 .. MaxTests /\ MaxTests \in Nat /\ MaxLines \in Nat
      /\ {file, byte} \subseteq {-1} \cup 0 .. MaxTests
      /\ last_progress \in 0 .. MaxTests
  BY BoundsAssumption DEF ItmInvariant, TypeOK, k_no_update
<1>2. TypeOK'
  BY <1>1 DEF ItmInvariant, TypeOK, k_no_update
<1>3. NothingBeforeStart' /\ ExitComesOnce' /\ AnswerComesOnce'
  BY DEF ItmInvariant, NothingBeforeStart, Started, ExitComesOnce,
         AnswerComesOnce
<1>4. VerdictFollowsKill' /\ LinesAreCounted'
  BY DEF ItmInvariant, VerdictFollowsKill, VerdictIsGenuine, LinesAreCounted
<1>5. ProgressIsOwn'
  BY <1>1 DEF ItmInvariant, ProgressIsOwn, ProgressIsGenuine, Started,
              k_no_update, ExitComesOnce
<1>6. QED
  BY <1>2, <1>3, <1>4, <1>5 DEF ItmInvariant

LEMMA PrintLineStep ==
  ASSUME ItmInvariant, PrintLine
  PROVE  ItmInvariant'
<1> USE DEF PrintLine, poller, process, caller
<1>1. /\ printed \in 0 .. MaxLines /\ {piped, logged} \subseteq 0 .. printed
      /\ MaxLines \in Nat
  BY BoundsAssumption DEF ItmInvariant, TypeOK
<1>2. TypeOK'
  BY <1>1 DEF ItmInvariant, TypeOK
<1>3. NothingBeforeStart' /\ ExitComesOnce' /\ AnswerComesOnce'
  BY DEF ItmInvariant, NothingBeforeStart, Started, ExitComesOnce,
         AnswerComesOnce
<1>4. VerdictFollowsKill'
  BY DEF ItmInvariant, VerdictFollowsKill, VerdictIsGenuine
<1>5. LinesAreCounted'
  BY <1>1 DEF ItmInvariant, LinesAreCounted
<1>6. ProgressIsOwn'
  BY DEF ItmInvariant, ProgressIsOwn, ProgressIsGenuine, Started
<1>7. QED
  BY <1>2, <1>3, <1>4, <1>5, <1>6 DEF ItmInvariant

LEMMA ClosePipeStep ==
  ASSUME ItmInvariant, NEW writer \in {"kist_itm", "hook"}, 
         ClosePipe(writer)
  PROVE  ItmInvariant'
<1> USE DEF ClosePipe, output, poller, process, caller
<1>1. TypeOK'
  BY DEF ItmInvariant, TypeOK
<1>2. NothingBeforeStart' /\ ExitComesOnce' /\ AnswerComesOnce'
  BY DEF ItmInvariant, NothingBeforeStart, Started, ExitComesOnce,
         AnswerComesOnce
<1>3. VerdictFollowsKill'
  BY DEF ItmInvariant, VerdictFollowsKill, VerdictIsGenuine
<1>4. LinesAreCounted'
  BY DEF ItmInvariant, LinesAreCounted
<1>5. ProgressIsOwn'
  BY DEF ItmInvariant, ProgressIsOwn, ProgressIsGenuine, Started
<1>6. QED
  BY <1>1, <1>2, <1>3, <1>4, <1>5 DEF ItmInvariant

LEMMA ExitStep ==
  ASSUME ItmInvariant, NEW code \in {"zero", "nonzero"}, Exit(code)
  PROVE  ItmInvariant'
<1> USE DEF Exit, output, poller, process, caller
<1>1. TypeOK'
  BY DEF ItmInvariant, TypeOK
<1>2. NothingBeforeStart'
  BY DEF ItmInvariant, NothingBeforeStart, Started
<1>3. ExitComesOnce' /\ AnswerComesOnce'
  BY DEF ItmInvariant, ExitComesOnce, Started, AnswerComesOnce
<1>4. VerdictFollowsKill'
  BY DEF ItmInvariant, VerdictFollowsKill, VerdictIsGenuine, ExitComesOnce,
         Started
<1>5. LinesAreCounted'
  BY DEF ItmInvariant, LinesAreCounted
<1>6. ProgressIsOwn'
  BY DEF ItmInvariant, ProgressIsOwn, ProgressIsGenuine, Started
<1>7. QED
  BY <1>1, <1>2, <1>3, <1>4, <1>5, <1>6 DEF ItmInvariant

LEMMA ExpireStep ==
  ASSUME ItmInvariant, NEW timer \in Timers, Expire(timer)
  PROVE  ItmInvariant'
<1> USE DEF Expire, Timers, itm, output, poller, process, caller
<1>1. TypeOK'
  BY DEF ItmInvariant, TypeOK
<1>2. NothingBeforeStart'
  BY DEF ItmInvariant, NothingBeforeStart, Started
<1>3. ExitComesOnce'
  BY DEF ItmInvariant, ExitComesOnce, Started
<1>4. AnswerComesOnce'
  BY DEF ItmInvariant, AnswerComesOnce, ExitComesOnce, Started
<1>5. VerdictFollowsKill'
  BY DEF ItmInvariant, VerdictFollowsKill, VerdictIsGenuine
<1>6. LinesAreCounted'
  BY DEF ItmInvariant, LinesAreCounted
<1>7. ProgressIsOwn'
  BY DEF ItmInvariant, ProgressIsOwn, ProgressIsGenuine, Started
<1>8. QED
  BY <1>1, <1>2, <1>3, <1>4, <1>5, <1>6, <1>7 DEF ItmInvariant

LEMMA ThreadReadsStep ==
  ASSUME ItmInvariant, ThreadReads
  PROVE  ItmInvariant'
<1> USE DEF ThreadReads, itm, output, process, caller
<1>1. TypeOK'
  BY DEF ItmInvariant, TypeOK
<1>2. NothingBeforeStart' /\ ExitComesOnce' /\ AnswerComesOnce'
  BY DEF ItmInvariant, NothingBeforeStart, Started, ExitComesOnce,
         AnswerComesOnce
<1>3. VerdictFollowsKill' /\ LinesAreCounted'
  BY DEF ItmInvariant, VerdictFollowsKill, VerdictIsGenuine, LinesAreCounted
<1>4. ProgressIsOwn'
  BY DEF ItmInvariant, ProgressIsOwn, ProgressIsGenuine, Started,
         NothingBeforeStart
<1>5. QED
  BY <1>1, <1>2, <1>3, <1>4 DEF ItmInvariant

LEMMA ReadPipeStep ==
  ASSUME ItmInvariant, ReadPipe
  PROVE  ItmInvariant'
<1> USE DEF ReadPipe, itm, poller, process, caller
<1>1. /\ printed \in 0 .. MaxLines /\ {piped, logged} \subseteq 0 .. printed
      /\ MaxLines \in Nat
  BY BoundsAssumption DEF ItmInvariant, TypeOK
<1>2. TypeOK'
  BY <1>1 DEF ItmInvariant, TypeOK
<1>3. NothingBeforeStart'
  BY DEF ItmInvariant, NothingBeforeStart, Started
<1>4. ExitComesOnce' /\ AnswerComesOnce'
  BY DEF ItmInvariant, ExitComesOnce, Started, AnswerComesOnce
<1>5. VerdictFollowsKill'
  BY DEF ItmInvariant, VerdictFollowsKill, VerdictIsGenuine
<1>6. LinesAreCounted'
  BY <1>1 DEF ItmInvariant, LinesAreCounted
<1>7. ProgressIsOwn'
  BY DEF ItmInvariant, ProgressIsOwn, ProgressIsGenuine, Started
<1>8. QED
  BY <1>2, <1>3, <1>4, <1>5, <1>6, <1>7 DEF ItmInvariant

-----------------------------------------------------------------------------
(* async_run *)

LEMMA AsyncRunFailsStep ==
  ASSUME ItmInvariant, AsyncRunFails
  PROVE  ItmInvariant'
<1> USE DEF AsyncRunFails, StaleProgressRemoved, output, poller, process
<1>1. ~Started /\ answers = 0
  BY DEF ItmInvariant, NothingBeforeStart, Started, TypeOK
<1>2. TypeOK'
  BY <1>1 DEF ItmInvariant, TypeOK, k_no_update
<1>3. NothingBeforeStart'
  BY <1>1 DEF ItmInvariant, NothingBeforeStart, Started
<1>4. ExitComesOnce' /\ AnswerComesOnce'
  BY <1>1 DEF ItmInvariant, ExitComesOnce, Started, AnswerComesOnce
<1>5. VerdictFollowsKill' /\ LinesAreCounted'
  BY DEF ItmInvariant, VerdictFollowsKill, VerdictIsGenuine, LinesAreCounted
<1>6. ProgressIsOwn'
  BY <1>1 DEF ItmInvariant, ProgressIsOwn, ProgressIsGenuine, Started,
              k_no_update
<1>7. QED
  BY <1>2, <1>3, <1>4, <1>5, <1>6 DEF ItmInvariant

LEMMA AsyncRunStep ==
  ASSUME ItmInvariant, AsyncRun
  PROVE  ItmInvariant'
<1> USE DEF AsyncRun, StaleProgressRemoved
<1>1. /\ ~Started /\ answers = 0 /\ ready = {} /\ ~exited /\ ~drained /\ ~finished
      /\ printed = 0 /\ piped = 0 /\ logged = 0 /\ tests = 0
  BY DEF ItmInvariant, NothingBeforeStart, Started, TypeOK
<1>2. TypeOK'
  BY <1>1 DEF ItmInvariant, TypeOK, k_no_update, Timers
<1>3. NothingBeforeStart'
  BY <1>1 DEF ItmInvariant, NothingBeforeStart, Started
<1>4. ExitComesOnce'
  BY <1>1 DEF ItmInvariant, ExitComesOnce, Started
<1>5. AnswerComesOnce'
  BY <1>1 DEF ItmInvariant, AnswerComesOnce, ExitComesOnce, Started
<1>6. VerdictFollowsKill'
  BY <1>1 DEF ItmInvariant, VerdictFollowsKill, VerdictIsGenuine
<1>7. LinesAreCounted'
  BY <1>1 DEF ItmInvariant, LinesAreCounted
<1>8. ProgressIsOwn'
  BY <1>1 DEF ItmInvariant, ProgressIsOwn, ProgressIsGenuine, Started,
              k_no_update
<1>9. QED
  BY <1>2, <1>3, <1>4, <1>5, <1>6, <1>7, <1>8 DEF ItmInvariant

-----------------------------------------------------------------------------
(* The handlers of ProgressPoller *)

LEMMA OnPollResultStep ==
  ASSUME ItmInvariant, OnPollResult
  PROVE  ItmInvariant'
<1> USE DEF OnPollResult, Report, ByteCounts, itm, output, process, caller
<1>1. /\ tests \in 0 .. MaxTests /\ MaxTests \in Nat /\ MaxLines \in Nat
      /\ {file, byte} \subseteq {-1} \cup 0 .. MaxTests
      /\ last_progress \in 0 .. MaxTests
  BY BoundsAssumption DEF ItmInvariant, TypeOK, k_no_update
<1>2. Started
  BY DEF ItmInvariant, NothingBeforeStart
<1>3. TypeOK'
  BY <1>1 DEF ItmInvariant, TypeOK, k_no_update, Timers
<1>4. NothingBeforeStart'
  BY <1>2 DEF ItmInvariant, NothingBeforeStart, Started
<1>5. ExitComesOnce' /\ AnswerComesOnce'
  BY <1>2 DEF ItmInvariant, ExitComesOnce, Started, AnswerComesOnce
<1>6. VerdictFollowsKill' /\ LinesAreCounted'
  BY DEF ItmInvariant, VerdictFollowsKill, VerdictIsGenuine, LinesAreCounted
<1>7. ProgressIsOwn'
  BY <1>1, <1>2 DEF ItmInvariant, ProgressIsOwn, ProgressIsGenuine, Started,
                    k_no_update, ExitComesOnce
<1>8. QED
  BY <1>3, <1>4, <1>5, <1>6, <1>7 DEF ItmInvariant

LEMMA OnPollTimerStep ==
  ASSUME ItmInvariant, OnPollTimer
  PROVE  ItmInvariant'
<1> USE DEF OnPollTimer, itm, output, process, caller
<1>1. Started
  BY DEF ItmInvariant, NothingBeforeStart
<1>2. TypeOK'
  BY DEF ItmInvariant, TypeOK, Timers
<1>3. NothingBeforeStart'
  BY <1>1 DEF ItmInvariant, NothingBeforeStart, Started
<1>4. ExitComesOnce'
  BY <1>1 DEF ItmInvariant, ExitComesOnce, Started
<1>5. AnswerComesOnce'
  BY <1>1 DEF ItmInvariant, AnswerComesOnce, ExitComesOnce, Started
<1>6. VerdictFollowsKill'
  BY DEF ItmInvariant, VerdictFollowsKill, VerdictIsGenuine
<1>7. LinesAreCounted'
  BY DEF ItmInvariant, LinesAreCounted
<1>8. ProgressIsOwn'
  BY DEF ItmInvariant, ProgressIsOwn, ProgressIsGenuine, Started
<1>9. QED
  BY <1>2, <1>3, <1>4, <1>5, <1>6, <1>7, <1>8 DEF ItmInvariant

-----------------------------------------------------------------------------
(* The handlers of ItmProcess *)

LEMMA OnDeadlineExpiredStep ==
  ASSUME ItmInvariant, OnDeadlineExpired
  PROVE  ItmInvariant'
<1> USE DEF OnDeadlineExpired, output, poller, caller
<1>1. Started
  BY DEF ItmInvariant, NothingBeforeStart
<1>2. {proc, exited, killed, timed_out} \subseteq BOOLEAN
  BY DEF ItmInvariant, TypeOK
<1>3. TypeOK'
  BY <1>2 DEF ItmInvariant, TypeOK
<1>4. NothingBeforeStart'
  BY <1>1 DEF ItmInvariant, NothingBeforeStart, Started
<1>5. ExitComesOnce' /\ AnswerComesOnce'
  BY <1>1 DEF ItmInvariant, ExitComesOnce, Started, AnswerComesOnce
<1>6. VerdictFollowsKill'
  BY <1>1, <1>2 DEF ItmInvariant, VerdictFollowsKill, VerdictIsGenuine,
                    ExitComesOnce, Started
<1>7. LinesAreCounted'
  BY DEF ItmInvariant, LinesAreCounted
<1>8. ProgressIsOwn'
  BY DEF ItmInvariant, ProgressIsOwn, ProgressIsGenuine, Started
<1>9. QED
  BY <1>3, <1>4, <1>5, <1>6, <1>7, <1>8 DEF ItmInvariant

LEMMA OnChunkStep ==
  ASSUME ItmInvariant, OnChunk
  PROVE  ItmInvariant'
<1> USE DEF OnChunk, itm, poller, process, caller
<1>1. /\ printed \in 0 .. MaxLines /\ {piped, logged} \subseteq 0 .. printed
      /\ MaxLines \in Nat
  BY BoundsAssumption DEF ItmInvariant, TypeOK
<1>2. Started
  BY DEF ItmInvariant, NothingBeforeStart
<1>3. TypeOK'
  BY <1>1 DEF ItmInvariant, TypeOK, LinesAreCounted
<1>4. NothingBeforeStart'
  BY <1>2 DEF ItmInvariant, NothingBeforeStart, Started
<1>5. ExitComesOnce' /\ AnswerComesOnce'
  BY <1>2 DEF ItmInvariant, ExitComesOnce, Started, AnswerComesOnce
<1>6. VerdictFollowsKill'
  BY DEF ItmInvariant, VerdictFollowsKill, VerdictIsGenuine
<1>7. LinesAreCounted'
  BY <1>1 DEF ItmInvariant, LinesAreCounted
<1>8. ProgressIsOwn'
  BY DEF ItmInvariant, ProgressIsOwn, ProgressIsGenuine, Started
<1>9. QED
  BY <1>3, <1>4, <1>5, <1>6, <1>7, <1>8 DEF ItmInvariant

\* finish() answers now or leaves the answer to a later handler.
LEMMA FinishResult ==
  ASSUME ItmInvariant, Started, UNCHANGED child,
         NEW running \in SUBSET Timers,
         NEW pump \in {"reading", "stopped", "done", "off"},
         Finish(running, pump), exited => exited', drained => drained',
         {exited', drained'} \subseteq BOOLEAN, finished => running = {},
         exited' => running \subseteq {"drain"}
  PROVE  /\ AnswerComesOnce'
         /\ {finished', log'} \subseteq BOOLEAN /\ answers' \in {0, 1}
         /\ armed' \subseteq running
         /\ ~exited' => armed' = running
         /\ log' => log
         /\ tee' \in {"reading", "stopped", "done", "off"}
         /\ tee' = "stopped" => pump = "stopped" \/ drained'
         /\ pump = "done" => tee' = "done"
<1>1. /\ {exited, drained, finished, log} \subseteq BOOLEAN /\ answers \in {0, 1}
      /\ finished <=> exited /\ drained
      /\ finished => answers = 1
      /\ ~finished => answers = 0
      /\ log <=> ~finished
  BY DEF ItmInvariant, TypeOK, AnswerComesOnce
<1>2. CASE ~finished /\ exited' /\ drained'
  <2>1. /\ finished' = TRUE /\ answers' = answers + 1 /\ log' = FALSE
        /\ armed' = running \ {"drain"}
        /\ tee' = IF pump = "reading" THEN "stopped" ELSE pump
    BY <1>2 DEF Finish
  <2>2. AnswerComesOnce'
    BY <1>1, <1>2, <2>1 DEF AnswerComesOnce, Started
  <2>3. {finished', log'} \subseteq BOOLEAN /\ answers' \in {0, 1}
    <3>1. answers = 0
      BY <1>1, <1>2
    <3>2. answers' = 1
      BY <2>1, <3>1
    <3>3. QED
      BY <2>1, <3>2
  <2>4. QED
    BY <1>2, <2>1, <2>2, <2>3
<1>3. CASE ~(~finished /\ exited' /\ drained')
  <2>1. /\ armed' = running /\ tee' = pump
        /\ UNCHANGED <<finished, answers, log>>
    BY <1>3 DEF Finish
  <2>2. AnswerComesOnce'
    BY <1>1, <1>3, <2>1 DEF AnswerComesOnce, Started
  <2>3. {finished', log'} \subseteq BOOLEAN /\ answers' \in {0, 1}
    BY <1>1, <2>1
  <2>4. QED
    BY <2>1, <2>2, <2>3
<1>4. QED
  BY <1>2, <1>3

LEMMA OnProcessExitStep ==
  ASSUME ItmInvariant, OnProcessExit
  PROVE  ItmInvariant'
<1> USE DEF OnProcessExit, itm
<1> DEFINE running == (armed \ {"deadline", "poll"}) \cup DrainTimer
<1>1. /\ Started /\ ~exited /\ ~finished /\ child # "running"
      /\ {timed_out, killed, drained} \subseteq BOOLEAN
      /\ armed \subseteq Timers /\ tee \in {"off", "reading", "stopped", "done"}
      /\ child \in {"zero", "nonzero"}
  BY DEF ItmInvariant, TypeOK, NothingBeforeStart, ExitComesOnce,
         AnswerComesOnce, Started
<1>2. running \in SUBSET Timers /\ running \subseteq {"drain"}
  BY <1>1 DEF DrainTimer, Timers
<1>3. /\ AnswerComesOnce'
      /\ {finished', log'} \subseteq BOOLEAN /\ answers' \in {0, 1}
      /\ armed' \subseteq running
      /\ log' => log
      /\ tee' \in {"reading", "stopped", "done", "off"}
      /\ tee' = "stopped" => tee = "stopped" \/ drained'
      /\ tee = "done" => tee' = "done"
  <2>1. Finish(running, tee) /\ UNCHANGED child
    OBVIOUS
  <2>2. /\ (exited => exited') /\ (drained => drained')
        /\ {exited', drained'} \subseteq BOOLEAN
    BY <1>1
  <2>3. QED
    BY <1>1, <1>2, <2>1, <2>2, FinishResult
<1>4. PICK failed \in BOOLEAN : exit_code' = ExitCode(failed)
  OBVIOUS
<1>5. exit_code' \in {"zero", "nonzero", "sw_timeout", "failed"}
  BY <1>1, <1>4 DEF ExitCode
<1>6. /\ last_progress' \in 0 .. MaxTests /\ last_progress' <= tests
      /\ file # k_no_update => last_progress' = file
  BY <1>1, BoundsAssumption DEF Report, k_no_update, ItmInvariant, TypeOK,
     ProgressIsOwn, ProgressIsGenuine
<1>7. TypeOK'
  BY <1>1, <1>2, <1>3, <1>5, <1>6 DEF ItmInvariant, TypeOK
<1>8. NothingBeforeStart' /\ ExitComesOnce'
  BY <1>1, <1>2, <1>3 DEF ItmInvariant, NothingBeforeStart, ExitComesOnce,
                          Started
<1>9. VerdictFollowsKill'
  BY <1>1, <1>4 DEF ItmInvariant, VerdictFollowsKill, VerdictIsGenuine,
                    ExitCode
<1>10. LinesAreCounted'
  BY <1>1, <1>3 DEF ItmInvariant, LinesAreCounted
<1>11. ProgressIsOwn'
  BY <1>1, <1>6 DEF ItmInvariant, ProgressIsOwn, ProgressIsGenuine, Started
<1>12. QED
  BY <1>3, <1>7, <1>8, <1>9, <1>10, <1>11 DEF ItmInvariant

LEMMA OnDrainTimeoutStep ==
  ASSUME ItmInvariant, OnDrainTimeout
  PROVE  ItmInvariant'
<1> USE DEF OnDrainTimeout, itm, poller
<1>1. /\ Started /\ exited
      /\ {exited, drained, gave_up} \subseteq BOOLEAN
      /\ armed \in SUBSET Timers /\ armed \subseteq {"drain"}
      /\ tee \in {"reading", "stopped", "done", "off"}
      /\ finished => armed = {}
  BY DEF ItmInvariant, TypeOK, NothingBeforeStart, ExitComesOnce,
         AnswerComesOnce, Started
<1>2. /\ AnswerComesOnce'
      /\ {finished', log'} \subseteq BOOLEAN /\ answers' \in {0, 1}
      /\ armed' \subseteq armed
      /\ log' => log
      /\ tee' \in {"reading", "stopped", "done", "off"}
      /\ tee' = "stopped" => tee = "stopped" \/ drained'
      /\ tee = "done" => tee' = "done"
  <2>1. Finish(armed, tee) /\ UNCHANGED child
    OBVIOUS
  <2>2. /\ (exited => exited') /\ (drained => drained')
        /\ {exited', drained'} \subseteq BOOLEAN
    BY <1>1
  <2>3. QED
    BY <1>1, <2>1, <2>2, FinishResult
<1>3. TypeOK'
  BY <1>1, <1>2 DEF ItmInvariant, TypeOK
<1>4. NothingBeforeStart' /\ ExitComesOnce'
  BY <1>1, <1>2 DEF ItmInvariant, NothingBeforeStart, ExitComesOnce, Started
<1>5. VerdictFollowsKill' /\ ProgressIsOwn'
  BY DEF ItmInvariant, VerdictFollowsKill, VerdictIsGenuine, ProgressIsOwn,
         ProgressIsGenuine, Started
<1>6. LinesAreCounted'
  BY <1>1, <1>2 DEF ItmInvariant, LinesAreCounted
<1>7. QED
  BY <1>2, <1>3, <1>4, <1>5, <1>6 DEF ItmInvariant

LEMMA OnEofStep ==
  ASSUME ItmInvariant, OnEof
  PROVE  ItmInvariant'
<1> USE DEF OnEof, itm, poller
<1>1. /\ Started
      /\ {exited, drained, gave_up, log, finished} \subseteq BOOLEAN
      /\ armed \in SUBSET Timers
      /\ exited => armed \subseteq {"drain"}
      /\ finished => armed = {}
  BY DEF ItmInvariant, TypeOK, NothingBeforeStart, ExitComesOnce,
         AnswerComesOnce, Started
<1>2. /\ AnswerComesOnce'
      /\ {finished', log'} \subseteq BOOLEAN /\ answers' \in {0, 1}
      /\ armed' \subseteq armed
      /\ log' => log
      /\ tee' = "done"
  <2>1. Finish(armed, "done") /\ UNCHANGED child
    OBVIOUS
  <2>2. /\ (exited => exited') /\ (drained => drained')
        /\ {exited', drained'} \subseteq BOOLEAN
        /\ exited' => armed \subseteq {"drain"}
    BY <1>1
  <2>3. QED
    BY <1>1, <2>1, <2>2, FinishResult
<1>3. TypeOK'
  BY <1>1, <1>2 DEF ItmInvariant, TypeOK
<1>4. NothingBeforeStart' /\ ExitComesOnce'
  BY <1>1, <1>2 DEF ItmInvariant, NothingBeforeStart, ExitComesOnce, Started
<1>5. VerdictFollowsKill' /\ ProgressIsOwn'
  BY DEF ItmInvariant, VerdictFollowsKill, VerdictIsGenuine, ProgressIsOwn,
         ProgressIsGenuine, Started
<1>6. LinesAreCounted'
  <2>1. CASE tee = "stopped"
    BY <1>1, <1>2, <2>1 DEF ItmInvariant, LinesAreCounted
  <2>2. CASE tee = "reading" /\ EndOfOutput
    <3>1. CASE log
      <4>1. printed = logged
        BY <2>2, <3>1 DEF ItmInvariant, TypeOK, LinesAreCounted, EndOfOutput
      <4>2. QED
        BY <1>1, <1>2, <2>2, <4>1 DEF ItmInvariant, LinesAreCounted, EndOfOutput
    <3>2. CASE ~log
      <4>1. drained
        BY <1>1, <3>2 DEF ItmInvariant, AnswerComesOnce
      <4>2. QED
        BY <1>1, <1>2, <2>2, <3>2, <4>1 DEF ItmInvariant, LinesAreCounted
    <3>3. QED
      BY <3>1, <3>2
  <2>3. QED
    BY <2>1, <2>2
<1>7. QED
  BY <1>2, <1>3, <1>4, <1>5, <1>6 DEF ItmInvariant

-----------------------------------------------------------------------------
(* The theorems *)

LEMMA ItmStep ==
  ASSUME ItmInvariant, [Next]_vars
  PROVE  ItmInvariant'
<1>1. CASE \/ CompleteTest \/ WriteProgress \/ PrintLine
           \/ ThreadReads \/ ReadPipe \/ AsyncRunFails \/ AsyncRun
  BY <1>1, CompleteTestStep, WriteProgressStep, PrintLineStep,
     ThreadReadsStep, ReadPipeStep, AsyncRunFailsStep, AsyncRunStep
<1>2. CASE \E writer \in {"kist_itm", "hook"} : ClosePipe(writer)
  BY <1>2, ClosePipeStep
<1>3. CASE \E code \in {"zero", "nonzero"} : Exit(code)
  BY <1>3, ExitStep
<1>4. CASE \E timer \in Timers : Expire(timer)
  BY <1>4, ExpireStep
<1>5. CASE Handler
  BY <1>5, OnPollResultStep, OnPollTimerStep, OnDeadlineExpiredStep,
     OnProcessExitStep, OnDrainTimeoutStep, OnChunkStep, OnEofStep DEF Handler
<1>6. CASE UNCHANGED vars
  <2> USE <1>6 DEF vars, itm, output, poller, process, caller
  <2>1. TypeOK' /\ NothingBeforeStart'
    BY DEF ItmInvariant, TypeOK, NothingBeforeStart, Started
  <2>2. ExitComesOnce' /\ AnswerComesOnce'
    BY DEF ItmInvariant, ExitComesOnce, AnswerComesOnce, Started
  <2>3. VerdictFollowsKill' /\ LinesAreCounted' /\ ProgressIsOwn'
    BY DEF ItmInvariant, VerdictFollowsKill, VerdictIsGenuine,
           LinesAreCounted, ProgressIsOwn, ProgressIsGenuine, Started
  <2>4. QED
    BY <2>1, <2>2, <2>3 DEF ItmInvariant
<1>7. QED
  BY <1>1, <1>2, <1>3, <1>4, <1>5, <1>6 DEF Next

\* The bookkeeping of async_run, the poller and ItmProcess is consistent in
\* every reachable state.
THEOREM ItmIsConsistent == Spec => []ItmInvariant
<1>1. Init => ItmInvariant
  BY ItmInitially
<1>2. ItmInvariant /\ [Next]_vars => ItmInvariant'
  BY ItmStep
<1>3. QED
  BY <1>1, <1>2, PTL DEF Spec

\* The status that on_process_exit hands on is what happened, however the
\* deadline and the exit of kist_itm race.
THEOREM ItmVerdictIsGenuine == Spec => []VerdictIsGenuine
<1>1. ItmInvariant => VerdictIsGenuine
  BY DEF ItmInvariant, VerdictFollowsKill
<1>2. QED
  BY <1>1, ItmIsConsistent, PTL

\* The progress that the poller reports is of this run, and its last word is
\* the file that stop() read.
THEOREM ItmProgressIsGenuine == Spec => []ProgressIsGenuine
<1>1. ItmInvariant => ProgressIsGenuine
  BY DEF ItmInvariant, ProgressIsOwn
<1>2. QED
  BY <1>1, ItmIsConsistent, PTL

\* When done_ is called all output of kist_itm is in its log, but for a pipe
\* still open when the drain timer expires.
THEOREM ItmOutputIsComplete == Spec => []OutputIsComplete
<1>1. ItmInvariant => OutputIsComplete
  <2> SUFFICES ASSUME ItmInvariant, answers > 0, ~gave_up
               PROVE  logged = printed
    BY DEF OutputIsComplete
  <2>1. CASE Started
    <3>1. drained
      BY <2>1 DEF ItmInvariant, AnswerComesOnce
    <3>2. QED
      BY <3>1 DEF ItmInvariant, LinesAreCounted
  <2>2. CASE ~Started
    BY <2>2 DEF ItmInvariant, NothingBeforeStart
  <2>3. QED
    BY <2>1, <2>2
<1>2. QED
  BY <1>1, ItmIsConsistent, PTL

\* Each step of async_run is a step of OneShot: done_ is called at most once,
\* with no process, timer, log or poller left, also when nothing could be
\* launched.
THEOREM ItmAnswersOnce == Spec => Promise!Init /\ [][Promise!Next]_(Promise!vars)
<1>1. Init => Promise!Init
  BY DEF Init, Promise!Init
<1>2. ItmInvariant /\ ItmInvariant' /\ [Next]_vars
        => [Promise!Next]_(Promise!vars)
  <2> SUFFICES ASSUME ItmInvariant, ItmInvariant', [Next]_vars
               PROVE  [Promise!Next]_(Promise!vars)
    OBVIOUS
  <2> DEFINE busy == child = "running" \/ armed # {} \/ log \/ ~stopped
  <2>1. asked \in {0, 1} /\ answers \in {0, 1}
    BY DEF ItmInvariant, TypeOK
  <2>2. answers = asked => ~busy
    BY DEF ItmInvariant, NothingBeforeStart, ExitComesOnce, AnswerComesOnce,
           Started
  <2>3. answers' = asked' => ~busy'
    BY DEF ItmInvariant, NothingBeforeStart, ExitComesOnce, AnswerComesOnce,
           Started
  <2>4. answers \in {0, asked}
    BY <2>1 DEF ItmInvariant, NothingBeforeStart, Started
  <2>5. CASE AsyncRun \/ AsyncRunFails
    <3>1. asked = 0 /\ asked' = 1 /\ answers = 0
      BY <2>4, <2>5 DEF AsyncRun, AsyncRunFails
    <3>2. CASE answers' = answers
      BY <3>1, <3>2 DEF Promise!Next, Promise!Ask
    <3>3. CASE answers' # answers
      <4>1. answers' = 1
        BY <2>5, <3>1, <3>3 DEF AsyncRun, AsyncRunFails
      <4>2. QED
        BY <2>3, <3>1, <4>1 DEF Promise!Next, Promise!Refuse
    <3>4. QED
      BY <3>2, <3>3
  <2>6. CASE ~(AsyncRun \/ AsyncRunFails)
    <3>1. asked' = asked
      BY <2>6 DEF Next, CompleteTest, WriteProgress, PrintLine, ClosePipe,
         Exit, Expire, ThreadReads, ReadPipe, Handler, OnPollResult,
         OnPollTimer, OnDeadlineExpired, OnProcessExit, OnDrainTimeout,
         OnChunk, OnEof, vars, caller
    <3>2. answers' = answers \/ answers' = answers + 1
      BY <2>6 DEF Next, CompleteTest, WriteProgress, PrintLine, ClosePipe,
         Exit, Expire, ThreadReads, ReadPipe, Handler, OnPollResult,
         OnPollTimer, OnDeadlineExpired, OnProcessExit, OnDrainTimeout,
         OnChunk, OnEof, Finish, vars, caller
    <3>3. answers' \in {0, 1} /\ answers' \in {0, asked'}
      BY <3>1 DEF ItmInvariant, TypeOK, NothingBeforeStart, Started
    <3>4. CASE answers < asked /\ answers' = answers
      BY <3>1, <3>4 DEF Promise!Next, Promise!Work
    <3>5. CASE answers < asked /\ answers' # answers
      <4>1. answers' = answers + 1 /\ answers' = asked'
        BY <2>1, <2>4, <3>1, <3>2, <3>3, <3>5
      <4>2. QED
        BY <2>3, <3>1, <3>5, <4>1 DEF Promise!Next, Promise!Answer
    <3>6. CASE answers = asked
      <4>1. answers' = answers
        BY <2>1, <3>1, <3>2, <3>3, <3>6
      <4>2. busy' = busy
        BY <2>2, <2>3, <3>1, <3>6, <4>1
      <4>3. QED
        BY <3>1, <4>1, <4>2 DEF Promise!vars
    <3>7. QED
      BY <2>1, <2>4, <3>4, <3>5, <3>6
  <2>7. QED
    BY <2>5, <2>6
<1>3. QED
  BY <1>1, <1>2, ItmIsConsistent, PTL DEF Spec
=============================================================================
