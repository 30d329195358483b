------------------------- MODULE HookProcess_proofs --------------------------
(***************************************************************************)
(* One hook, for any number of lines: it is answered once, with nothing of *)
(* it left, truthfully, and with its output in the log.                    *)
(***************************************************************************)
EXTENDS HookProcess, TLAPS

-----------------------------------------------------------------------------
(* The inductive invariant *)

\* The process has gone before on_exit runs, which runs once; only then is the
\* drain timer armed, and no other.
ExitComesOnce ==
    /\ child = "running" => "exit" \notin ready
    /\ exited => child # "running" /\ "exit" \notin ready
    /\ proc = ~exited
    /\ exited => armed \subseteq {"drain"}
    /\ ~exited => "drain" \notin armed \cup ready

\* The answer is given at the first moment at which the process has gone and
\* its output has been given up or has ended.
AnswerComesOnce ==
    /\ finished <=> exited /\ drained
    /\ finished => armed = {}
    /\ finished => answers = 1
    /\ ~finished => answers = 0

\* A signal is only sent once the deadline has passed.
SignalsFollowTimeout ==
    /\ ~timed_out => signals = {} /\ "grace" \notin armed \cup ready
    /\ ok => exited /\ child = "zero" /\ ~timed_out

\* Output that has ended has been read to its end.
DrainedIsLogged ==
    /\ drained /\ ~gave_up => writers = {} /\ logged = printed /\ tee = "done"
    /\ tee = "stopped" => gave_up

HookInvariant ==
    /\ TypeOK /\ ExitComesOnce /\ AnswerComesOnce /\ SignalsFollowTimeout
    /\ DrainedIsLogged

-----------------------------------------------------------------------------
(* The steps *)

LEMMA HookInitially == Init => HookInvariant
<1> SUFFICES ASSUME Init PROVE HookInvariant
  OBVIOUS
<1> USE DEF Init
<1>1. TypeOK
  <2>1. 0 \in 0 .. MaxLines /\ 0 \in 0 .. 0
    BY LinesAssumption
  <2>2. QED
    BY <2>1 DEF TypeOK, FlagType, Timers
<1>2. QED
  BY <1>1 DEF HookInvariant, ExitComesOnce, AnswerComesOnce,
              SignalsFollowTimeout, DrainedIsLogged

\* What the hook does.
LEMMA PrintLineStep ==
  ASSUME HookInvariant, PrintLine
  PROVE  HookInvariant'
<1> USE DEF PrintLine, flags, outcome
<1>1. /\ printed \in 0 .. MaxLines /\ logged \in 0 .. printed
      /\ printed' = printed + 1 /\ printed < MaxLines
  BY DEF HookInvariant, TypeOK
<1>2. printed' \in 0 .. MaxLines /\ logged \in 0 .. printed'
  BY <1>1, LinesAssumption
<1>3. TypeOK'
  BY <1>2 DEF HookInvariant, TypeOK, FlagType
<1>4. ExitComesOnce' /\ AnswerComesOnce' /\ SignalsFollowTimeout'
  BY DEF HookInvariant, ExitComesOnce, AnswerComesOnce, SignalsFollowTimeout
<1>5. DrainedIsLogged'
  BY DEF HookInvariant, DrainedIsLogged
<1>6. QED
  BY <1>3, <1>4, <1>5 DEF HookInvariant

LEMMA ExitStep ==
  ASSUME HookInvariant, NEW code \in {"zero", "nonzero"}, Exit(code)
  PROVE  HookInvariant'
<1> USE DEF Exit, flags, outcome
<1>1. TypeOK'
  BY DEF HookInvariant, TypeOK, FlagType
<1>2. ExitComesOnce'
  BY DEF HookInvariant, ExitComesOnce
<1>3. AnswerComesOnce' /\ SignalsFollowTimeout'
  BY DEF HookInvariant, ExitComesOnce, AnswerComesOnce, SignalsFollowTimeout
<1>4. DrainedIsLogged'
  BY DEF HookInvariant, DrainedIsLogged
<1>5. QED
  BY <1>1, <1>2, <1>3, <1>4 DEF HookInvariant

LEMMA ClosePipeStep ==
  ASSUME HookInvariant, NEW writer \in {"hook", "descendant"},
         ClosePipe(writer)
  PROVE  HookInvariant'
<1> USE DEF ClosePipe, flags, outcome
<1>1. TypeOK'
  BY DEF HookInvariant, TypeOK, FlagType
<1>2. ExitComesOnce' /\ AnswerComesOnce' /\ SignalsFollowTimeout'
  BY DEF HookInvariant, ExitComesOnce, AnswerComesOnce, SignalsFollowTimeout
<1>3. DrainedIsLogged'
  BY DEF HookInvariant, DrainedIsLogged
<1>4. QED
  BY <1>1, <1>2, <1>3 DEF HookInvariant

LEMMA ExpireStep ==
  ASSUME HookInvariant, NEW timer \in Timers, Expire(timer)
  PROVE  HookInvariant'
<1> USE DEF Expire, hook, flags, outcome
<1>1. TypeOK'
  BY DEF HookInvariant, TypeOK, FlagType
<1>2. ExitComesOnce'
  BY DEF HookInvariant, ExitComesOnce, Timers
<1>3. AnswerComesOnce'
  BY DEF HookInvariant, AnswerComesOnce
<1>4. SignalsFollowTimeout'
  BY DEF HookInvariant, SignalsFollowTimeout
<1>5. DrainedIsLogged'
  BY DEF HookInvariant, DrainedIsLogged
<1>6. QED
  BY <1>1, <1>2, <1>3, <1>4, <1>5 DEF HookInvariant

-----------------------------------------------------------------------------
(* The handlers *)

\* finish() answers now or leaves the answer to a later handler.
LEMMA FinishResult ==
  ASSUME TypeOK, AnswerComesOnce, NEW running \in SUBSET Timers,
         NEW output \in {"reading", "stopped", "done"},
         Finish(running, output), exited => exited', drained => drained',
         {exited', drained'} \subseteq BOOLEAN,
         exited' => running \subseteq {"drain"}, finished => running = {}
  PROVE  /\ AnswerComesOnce'
         /\ finished' \in BOOLEAN /\ answers' \in {0, 1}
         /\ armed' \subseteq running
         /\ ~exited' => armed' = running
         /\ tee' \in {"reading", "stopped", "done"}
         /\ tee' = "stopped" => output = "stopped"
                                 \/ (output = "reading" /\ drained')
         /\ output = "done" => tee' = "done"
<1>1. CASE Complete
  <2>1. /\ finished' = TRUE /\ answers' = answers + 1
        /\ armed' = running \ {"drain"}
        /\ tee' = IF output = "reading" THEN "stopped" ELSE output
        /\ ~finished /\ exited' /\ drained'
    BY <1>1 DEF Finish, Complete
  <2>2. answers = 0
    BY <2>1 DEF AnswerComesOnce
  <2>3. AnswerComesOnce'
    BY <2>1, <2>2 DEF AnswerComesOnce
  <2>4. QED
    BY <2>1, <2>2, <2>3
<1>2. CASE ~Complete
  <2>1. /\ armed' = running /\ tee' = output
        /\ UNCHANGED <<finished, answers>>
    BY <1>2 DEF Finish
  <2>2. finished \in BOOLEAN /\ exited \in BOOLEAN /\ drained \in BOOLEAN
    BY DEF TypeOK, FlagType
  <2>3. AnswerComesOnce'
    BY <1>2, <2>1, <2>2 DEF AnswerComesOnce, Complete
  <2>4. QED
    BY <2>1, <2>2, <2>3 DEF TypeOK
<1>3. QED
  BY <1>1, <1>2

LEMMA OnTimeoutStep ==
  ASSUME HookInvariant, OnTimeout
  PROVE  HookInvariant'
<1> USE DEF OnTimeout, outcome
<1>1. proc \in BOOLEAN /\ (proc <=> ~exited) /\ armed \subseteq Timers
  BY DEF HookInvariant, TypeOK, FlagType, ExitComesOnce
<1>2. CASE proc
  <2>1. /\ timed_out' = TRUE /\ signals' = signals \cup {"term"}
        /\ armed' = armed \cup {"grace"} /\ ~exited /\ ~finished
    BY <1>1, <1>2 DEF AfterTimeout, HookInvariant, AnswerComesOnce
  <2>2. TypeOK'
    BY <2>1 DEF HookInvariant, TypeOK, FlagType, Timers
  <2>3. ExitComesOnce'
    BY <2>1 DEF HookInvariant, ExitComesOnce
  <2>4. AnswerComesOnce'
    BY <2>1 DEF HookInvariant, AnswerComesOnce
  <2>5. SignalsFollowTimeout'
    BY <2>1 DEF HookInvariant, SignalsFollowTimeout
  <2>6. DrainedIsLogged'
    BY <2>1 DEF HookInvariant, DrainedIsLogged
  <2>7. QED
    BY <2>2, <2>3, <2>4, <2>5, <2>6 DEF HookInvariant
<1>3. CASE ~proc
  <2>1. UNCHANGED <<timed_out, signals, armed>>
    BY <1>3
  <2>2. TypeOK' /\ ExitComesOnce'
    BY <2>1 DEF HookInvariant, TypeOK, FlagType, ExitComesOnce
  <2>3. AnswerComesOnce' /\ SignalsFollowTimeout' /\ DrainedIsLogged'
    BY <2>1 DEF HookInvariant, AnswerComesOnce, SignalsFollowTimeout,
                DrainedIsLogged
  <2>4. QED
    BY <2>2, <2>3 DEF HookInvariant
<1>4. QED
  BY <1>1, <1>2, <1>3

LEMMA OnGraceExpiredStep ==
  ASSUME HookInvariant, OnGraceExpired
  PROVE  HookInvariant'
<1> USE DEF OnGraceExpired, flags, outcome
<1>1. /\ signals' \subseteq signals \cup {"kill"}
      /\ timed_out
  BY DEF HookInvariant, SignalsFollowTimeout
<1>2. TypeOK'
  BY <1>1 DEF HookInvariant, TypeOK, FlagType
<1>3. ExitComesOnce' /\ AnswerComesOnce'
  BY DEF HookInvariant, ExitComesOnce, AnswerComesOnce
<1>4. SignalsFollowTimeout' /\ DrainedIsLogged'
  BY <1>1 DEF HookInvariant, SignalsFollowTimeout, DrainedIsLogged
<1>5. QED
  BY <1>2, <1>3, <1>4 DEF HookInvariant

LEMMA OnExitStep ==
  ASSUME HookInvariant, OnExit
  PROVE  HookInvariant'
<1> USE DEF OnExit, hook
<1> DEFINE running == (armed \ {"deadline", "grace"}) \cup DrainTimer
<1>1. /\ ~exited /\ child # "running" /\ ~finished
      /\ ok \in BOOLEAN /\ drained \in BOOLEAN /\ timed_out \in BOOLEAN
      /\ armed \subseteq Timers /\ tee \in {"reading", "stopped", "done"}
      /\ child \in {"running", "zero", "nonzero"}
  BY DEF HookInvariant, TypeOK, FlagType, ExitComesOnce, AnswerComesOnce
<1>2. running \in SUBSET Timers /\ running \subseteq {"drain"}
  BY <1>1 DEF DrainTimer, Timers
<1>3. /\ AnswerComesOnce'
      /\ finished' \in BOOLEAN /\ answers' \in {0, 1}
      /\ armed' \subseteq running
      /\ tee' \in {"reading", "stopped", "done"}
      /\ tee' = "stopped" => tee = "stopped" \/ (tee = "reading" /\ drained')
      /\ tee = "done" => tee' = "done"
  <2>1. Finish(running, tee)
    OBVIOUS
  <2>2. TypeOK /\ AnswerComesOnce
    BY DEF HookInvariant
  <2>3. /\ (exited => exited') /\ (drained => drained')
        /\ {exited', drained'} \subseteq BOOLEAN
    BY <1>1
  <2>4. QED
    BY <1>1, <1>2, <2>1, <2>2, <2>3, FinishResult
<1>4. TypeOK'
  BY <1>1, <1>2, <1>3 DEF HookInvariant, TypeOK, FlagType, Succeeded
<1>5. ExitComesOnce'
  BY <1>1, <1>2, <1>3 DEF HookInvariant, ExitComesOnce
<1>6. SignalsFollowTimeout'
  BY <1>1, <1>2, <1>3 DEF HookInvariant, SignalsFollowTimeout, Succeeded
<1>7. DrainedIsLogged'
  BY <1>1, <1>3 DEF HookInvariant, DrainedIsLogged
<1>8. QED
  BY <1>3, <1>4, <1>5, <1>6, <1>7 DEF HookInvariant

LEMMA OnDrainTimeoutStep ==
  ASSUME HookInvariant, OnDrainTimeout
  PROVE  HookInvariant'
<1> USE DEF OnDrainTimeout, hook
<1>1. /\ exited /\ exited \in BOOLEAN /\ gave_up \in BOOLEAN
      /\ drained \in BOOLEAN
      /\ armed \in SUBSET Timers /\ armed \subseteq {"drain"}
      /\ tee \in {"reading", "stopped", "done"}
      /\ finished => armed = {}
  BY DEF HookInvariant, TypeOK, FlagType, ExitComesOnce, AnswerComesOnce
<1>2. /\ AnswerComesOnce'
      /\ finished' \in BOOLEAN /\ answers' \in {0, 1}
      /\ armed' \subseteq armed
      /\ tee' \in {"reading", "stopped", "done"}
      /\ tee' = "stopped" => tee = "stopped" \/ (tee = "reading" /\ drained')
      /\ tee = "done" => tee' = "done"
  <2>1. Finish(armed, tee)
    OBVIOUS
  <2>2. TypeOK /\ AnswerComesOnce
    BY DEF HookInvariant
  <2>3. /\ (exited => exited') /\ (drained => drained')
        /\ {exited', drained'} \subseteq BOOLEAN
    BY <1>1
  <2>4. QED
    BY <1>1, <2>1, <2>2, <2>3, FinishResult
<1>3. TypeOK'
  BY <1>1, <1>2 DEF HookInvariant, TypeOK, FlagType
<1>4. ExitComesOnce'
  BY <1>1, <1>2 DEF HookInvariant, ExitComesOnce
<1>5. SignalsFollowTimeout'
  BY <1>1, <1>2 DEF HookInvariant, SignalsFollowTimeout
<1>6. DrainedIsLogged'
  BY <1>1, <1>2 DEF HookInvariant, DrainedIsLogged
<1>7. QED
  BY <1>2, <1>3, <1>4, <1>5, <1>6 DEF HookInvariant

LEMMA OnChunkStep ==
  ASSUME HookInvariant, OnChunk
  PROVE  HookInvariant'
<1> USE DEF OnChunk, hook, flags, outcome
<1>1. /\ printed \in 0 .. MaxLines /\ logged \in 0 .. printed
      /\ logged < printed /\ logged' = logged + 1
  BY DEF HookInvariant, TypeOK
<1>2. logged' \in 0 .. printed
  BY <1>1, LinesAssumption
<1>3. TypeOK'
  BY <1>2 DEF HookInvariant, TypeOK, FlagType
<1>4. ExitComesOnce' /\ AnswerComesOnce' /\ SignalsFollowTimeout'
  BY DEF HookInvariant, ExitComesOnce, AnswerComesOnce, SignalsFollowTimeout
<1>5. DrainedIsLogged'
  BY DEF HookInvariant, DrainedIsLogged
<1>6. QED
  BY <1>3, <1>4, <1>5 DEF HookInvariant

LEMMA OnEofStep ==
  ASSUME HookInvariant, OnEof
  PROVE  HookInvariant'
<1> USE DEF OnEof, hook
<1>1. /\ exited \in BOOLEAN /\ gave_up \in BOOLEAN /\ drained \in BOOLEAN
      /\ armed \in SUBSET Timers
      /\ exited => armed \subseteq {"drain"}
      /\ finished => armed = {}
  BY DEF HookInvariant, TypeOK, FlagType, ExitComesOnce, AnswerComesOnce
<1>2. /\ AnswerComesOnce'
      /\ finished' \in BOOLEAN /\ answers' \in {0, 1}
      /\ armed' \subseteq armed
      /\ tee' = "done"
  <2>1. Finish(armed, "done")
    OBVIOUS
  <2>2. TypeOK /\ AnswerComesOnce
    BY DEF HookInvariant
  <2>3. /\ (exited => exited') /\ (drained => drained')
        /\ {exited', drained'} \subseteq BOOLEAN
        /\ exited' => armed \subseteq {"drain"}
    BY <1>1
  <2>4. QED
    BY <1>1, <2>1, <2>2, <2>3, FinishResult
<1>3. TypeOK'
  BY <1>1, <1>2 DEF HookInvariant, TypeOK, FlagType
<1>4. ExitComesOnce'
  BY <1>1, <1>2 DEF HookInvariant, ExitComesOnce
<1>5. SignalsFollowTimeout'
  BY <1>1, <1>2 DEF HookInvariant, SignalsFollowTimeout
<1>6. DrainedIsLogged'
  BY <1>1, <1>2 DEF HookInvariant, DrainedIsLogged
<1>7. QED
  BY <1>2, <1>3, <1>4, <1>5, <1>6 DEF HookInvariant

-----------------------------------------------------------------------------
(* The theorems *)

LEMMA HookStep ==
  ASSUME HookInvariant, [Next]_vars
  PROVE  HookInvariant'
<1>1. CASE PrintLine
  BY <1>1, PrintLineStep
<1>2. CASE \E code \in {"zero", "nonzero"} : Exit(code)
  BY <1>2, ExitStep
<1>3. CASE \E writer \in {"hook", "descendant"} : ClosePipe(writer)
  BY <1>3, ClosePipeStep
<1>4. CASE \E timer \in Timers : Expire(timer)
  BY <1>4, ExpireStep
<1>5. CASE Handler
  BY <1>5, OnTimeoutStep, OnGraceExpiredStep, OnExitStep, OnDrainTimeoutStep,
     OnChunkStep, OnEofStep DEF Handler
<1>6. CASE UNCHANGED vars
  <2>1. TypeOK' /\ ExitComesOnce'
    BY <1>6 DEF HookInvariant, TypeOK, FlagType, ExitComesOnce, vars, hook,
                flags, outcome
  <2>2. AnswerComesOnce' /\ SignalsFollowTimeout' /\ DrainedIsLogged'
    BY <1>6 DEF HookInvariant, AnswerComesOnce, SignalsFollowTimeout,
                DrainedIsLogged, vars, hook, flags, outcome
  <2>3. QED
    BY <2>1, <2>2 DEF HookInvariant
<1>7. QED
  BY <1>1, <1>2, <1>3, <1>4, <1>5, <1>6 DEF Next

\* The bookkeeping of a HookProcess is consistent in every reachable state.
THEOREM HookIsConsistent == Spec => []HookInvariant
<1>1. Init => HookInvariant
  BY HookInitially
<1>2. HookInvariant /\ [Next]_vars => HookInvariant'
  BY HookStep
<1>3. QED
  BY <1>1, <1>2, PTL DEF Spec

\* A hook that on_exit reports as successful ended with status 0 and was never
\* signalled, in whatever order its exit and its deadline were handled.
THEOREM HookSuccessIsGenuine == Spec => []SuccessIsGenuine
<1>1. HookInvariant => SuccessIsGenuine
  BY DEF HookInvariant, SignalsFollowTimeout, SuccessIsGenuine
<1>2. QED
  BY <1>1, HookIsConsistent, PTL

\* Whoever waits for the hook to end finds all its output in the log, but for
\* a pipe still open when the drain timer expires.
THEOREM HookOutputIsComplete == Spec => []OutputIsComplete
<1>1. HookInvariant => OutputIsComplete
  BY DEF HookInvariant, AnswerComesOnce, DrainedIsLogged, OutputIsComplete
<1>2. QED
  BY <1>1, HookIsConsistent, PTL

\* Each step of a hook is a step of OneShot: done_ is called at most once, and
\* only when neither the process nor a timer of it is left.
THEOREM HookAnswersOnce == Spec => Promise!Init /\ [][Promise!Next]_(Promise!vars)
<1>1. Init => Promise!Init
  BY DEF Init, Promise!Init
<1>2. HookInvariant /\ HookInvariant' /\ [Next]_vars
        => [Promise!Next]_(Promise!vars)
  <2> SUFFICES ASSUME HookInvariant, HookInvariant', [Next]_vars
               PROVE  [Promise!Next]_(Promise!vars)
    OBVIOUS
  <2>1. answers' = answers \/ (answers = 0 /\ answers' = 1 /\ finished')
    <3>1. \/ answers' = answers
          \/ answers' = answers + 1 /\ ~finished /\ finished'
      BY DEF Next, PrintLine, Exit, ClosePipe, Expire, Handler, OnTimeout,
             OnGraceExpired, OnExit, OnDrainTimeout, OnChunk, OnEof, Finish,
             Complete, vars, outcome
    <3>2. QED
      BY <3>1 DEF HookInvariant, AnswerComesOnce
  <2>2. finished' => child' # "running" /\ ~proc' /\ armed' = {}
    BY DEF HookInvariant, ExitComesOnce, AnswerComesOnce, TypeOK, FlagType
  <2>3. answers \in {0, 1} /\ (answers = 1 => finished)
    BY DEF HookInvariant, TypeOK, AnswerComesOnce
  <2>4. CASE answers' = 1 /\ answers = 0
    BY <2>1, <2>2, <2>4 DEF Promise!Next, Promise!Answer
  <2>5. CASE answers' = answers /\ answers = 0
    BY <2>5 DEF Promise!Next, Promise!Work
  <2>6. CASE answers' = answers /\ answers = 1
    <3>1. finished /\ finished'
      BY <2>3, <2>6 DEF HookInvariant, AnswerComesOnce, TypeOK, FlagType
    <3>2. child # "running" /\ ~proc /\ armed = {}
      BY <3>1 DEF HookInvariant, ExitComesOnce, AnswerComesOnce, TypeOK,
                  FlagType
    <3>3. (child' = "running" \/ proc' \/ armed' # {})
            = (child = "running" \/ proc \/ armed # {})
      BY <2>2, <3>1, <3>2
    <3>4. QED
      BY <2>6, <3>3 DEF Promise!vars
  <2>7. QED
    BY <2>1, <2>3, <2>4, <2>5, <2>6
<1>3. QED
  BY <1>1, <1>2, HookIsConsistent, PTL DEF Spec
=============================================================================
