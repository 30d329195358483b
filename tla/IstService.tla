----------------------------- MODULE IstService -----------------------------
(***************************************************************************)
(* The run state machine of the daemon: class IstService of                *)
(* src/src/ist_app.cpp, from a StartIST call to the return to Idle.        *)
(*                                                                         *)
(* The daemon is single-threaded.  Every handler (a D-Bus method, the      *)
(* completion of a hook, of kist_itm, of the power wait, of the signature  *)
(* check or of the archiver) runs to its end before the next one, so every *)
(* handler is one action.  Whatever the handler waits for next is the      *)
(* value of op; the answer may come after anything else the environment    *)
(* does: hooks reaching the boot strap, an update, a file system fault,    *)
(* the death of the process and its restart by systemd.                    *)
(***************************************************************************)
EXTENDS Integers

CONSTANTS
    MaxRuns,      \* bound on accepted StartIST calls
    MaxCrashes,   \* bound on restarts of the process
    MaxProgress   \* percentages are 0 .. MaxProgress (100 in the code)

ASSUME BoundsAssumption ==
    /\ MaxRuns \in Nat
    /\ MaxCrashes \in Nat
    /\ MaxProgress \in Nat

VARIABLES
    (* configuration and hardware *)
    hooks,        \* hooks named by platform_cfg.json, fixed for a behaviour
    fs,           \* the results file system: "rw", or "ro" after a fault
    strap,        \* is the IST boot strap of the board asserted?
    (* state_, test_ and the operation whose completion is awaited *)
    stage, status, progress,
    test,         \* [reboot, sockets]: autoRebootOnComplete, customSocketList
    op,
    landed,       \* has the hook that op waits for already set the strap?
    startup,      \* the istBootDeassert hook that initialize() launched
    exit,         \* itm_exit captured by the cleanup continuations
    released,     \* ok_deassert captured by the cleanup continuations
    updating,     \* VectorManager::update_in_progress_
    (* the results directory *)
    logOpen,      \* run_logs_.service.is_open()
    files,        \* result files on disk
    lines,        \* IST_ERROR categories written to IST_service.log
    archiving,    \* has the archiver opened ist_results.tar.gz?
    archive,      \* ist_results.tar.gz
    (* D-Bus *)
    obj,          \* the registered run object
    runs, crashes

hardware == <<hooks, fs, strap>>
bus      == <<stage, status, progress, obj>>
waiting  == <<op, landed, exit, released>>
disk     == <<files, lines, archive>>
bounds   == <<runs, crashes>>

vars == <<hardware, bus, waiting, test, startup, updating,
          logOpen, archiving, disk, bounds>>

HookNames == {"assert", "deassert", "reset"}
Stages    == {"idle", "collateral_verification", "pending_ist_boot",
              "pending_power_cycle", "running_ist", "cleanup"}
Statuses  == {"in_progress", "completed", "failed", "aborted"}
Ops       == {"none", "verify", "discover", "assert", "power", "cak", "itm",
              "deassert", "archive", "fail_archive", "reset"}

\* kist_itm: 0 pass, positive failure, -1 not run, -2 software timeout.
ItmExits  == {0, 1, -1, -2}

\* The category of an IST_ERROR line.
Categories == {"SECURITY", "DISCOVERY", "ASSERT", "POWER_CYCLE", "CAK",
               "ITM", "DEASSERT", "RESET"}

FileNames == {"service_log", "itm_log"}

NoTest == [reboot |-> FALSE, sockets |-> FALSE]
Tests  == [reboot : BOOLEAN, sockets : BOOLEAN]

\* Run 0 stands for "no run object registered" and for "no archive".
NoObj     == [run |-> 0, stage |-> "idle", status |-> "completed",
              progress |-> 0]
NoArchive == [run |-> 0, files |-> {}, lines |-> {}, whole |-> FALSE]

Init ==
    /\ hooks \in SUBSET HookNames
    /\ fs = "rw" /\ strap \in BOOLEAN
    /\ stage = "idle" /\ status = "completed" /\ progress = 0
    /\ test = NoTest
    /\ op = "none" /\ landed = FALSE /\ exit = 0 /\ released = FALSE
    /\ startup = IF "deassert" \in hooks THEN "running" ELSE "done"
    /\ updating = FALSE
    /\ logOpen = FALSE /\ files = {} /\ lines = {}
    /\ archiving = FALSE /\ archive = NoArchive
    /\ obj = NoObj
    /\ runs = 0 /\ crashes = 0

-----------------------------------------------------------------------------
(* Helpers *)

\* DbusStatePublisher::publish: every property of the registered run object.
Published(o, s, st, p) ==
    IF o.run = 0 THEN o
    ELSE [run |-> o.run, stage |-> s, status |-> st, progress |-> p]

\* Mutant: the state changes and publish() is forgotten.
TransitionUnpublished(s, st, p) ==
    /\ stage' = s /\ status' = st /\ progress' = p
    /\ UNCHANGED obj

\* transition_to; its callers close the log on the way to idle.
Transition(s, st, p) ==
    /\ stage' = s /\ status' = st /\ progress' = p
    /\ obj' = Published(obj, s, st, p)

\* Mutant: the error goes to the journal alone.
EmitIstErrorToJournal(categories) ==
    UNCHANGED lines

\* emit_ist_error: the line reaches the file only while the log is open and
\* can be written; a failed write is logged to the journal.
EmitIstError(categories) ==
    lines' = IF logOpen /\ fs = "rw" THEN lines \cup categories ELSE lines

\* Mutant: the archiver starts with the log still open.
CloseServiceLogLater ==
    UNCHANGED logOpen

CloseServiceLog ==
    logOpen' = FALSE

\* The handler ends having asked for something; its answer is the next step.
Await(next) ==
    /\ op' = next /\ landed' = FALSE

\* fail_run_with_archive: no deassert hook on this path.
FailRunWithArchive(category, p) ==
    /\ EmitIstError({category})
    /\ Transition("cleanup", status, p)
    /\ CloseServiceLog
    /\ Await("fail_archive")
    /\ UNCHANGED <<exit, released, files>>

\* Mutant: the run goes to the archiver without releasing the strap.
RunIstCleanupUnreleased(categories, itm_exit) ==
    /\ EmitIstError(categories)
    /\ Transition("cleanup", status, progress)
    /\ exit' = itm_exit
    /\ Await("archive")
    /\ UNCHANGED <<released, logOpen>>

\* run_ist_cleanup, with the failure_info_ its caller has just appended.
RunIstCleanup(categories, itm_exit) ==
    /\ EmitIstError(categories)
    /\ Transition("cleanup", status, progress)
    /\ exit' = itm_exit
    /\ Await("deassert")
    /\ UNCHANGED <<released, logOpen>>

\* start_itm_run: the runner answers -1 at once when it cannot open its log
\* or spawn kist_itm.
StartItmRun ==
    \/ /\ fs = "rw"
       /\ Transition("running_ist", status, progress)
       /\ files' = files \cup {"itm_log"}
       /\ Await("itm")
       /\ UNCHANGED <<lines, exit, released, logOpen>>
    \/ /\ files' \in {files} \cup (IF fs = "rw" THEN {files \cup {"itm_log"}}
                                   ELSE {})
       /\ RunIstCleanup({"ITM"}, -1)

\* Mutant: the hook is launched before the stage says so.
LaunchBootAssertSilently ==
    /\ Await("assert")
    /\ UNCHANGED <<bus, lines, files, exit, released, logOpen>>

LaunchBootAssert ==
    /\ Transition("pending_ist_boot", status, progress)
    /\ Await("assert")
    /\ UNCHANGED <<lines, files, exit, released, logOpen>>

-----------------------------------------------------------------------------
(* D-Bus methods *)

\* Mutant: start_ist does not look at update_in_progress_.
CanStartDuringUpdate == stage = "idle"

CanStart == stage = "idle" /\ ~updating

RejectStatus(why) ==
    IF why \in {"params", "collateral", "storage"} THEN "aborted" ELSE "failed"

Rejections == {"params", "key", "collateral", "storage",
               "no_assert_hook", "no_deassert_hook"}

\* start_ist that throws after the two EBUSY guards: the stage goes to
\* collateral_verification and back, and both publish() calls go to whatever
\* run object is registered.
RejectStart(why, t) ==
    /\ CanStart
    /\ why = "no_assert_hook" => "assert" \notin hooks
    /\ why = "no_deassert_hook" => "assert" \in hooks /\ "deassert" \notin hooks
    /\ test' = t
    /\ Transition("idle", RejectStatus(why), progress)
    /\ CloseServiceLog
    /\ UNCHANGED <<hardware, waiting, startup, updating, archiving, disk,
                   bounds>>

\* Mutant: the log of the previous run is appended to.
WipeResultsKeepingLines(opened) ==
    /\ files' = IF opened THEN {"service_log"} ELSE {}
    /\ archive' = NoArchive
    /\ UNCHANGED lines

\* The wipe only logs its errors; on a read-only file system it removes
\* nothing.
WipeResults(opened) ==
    IF fs = "rw"
    THEN /\ files' = IF opened THEN {"service_log"} ELSE {}
         /\ lines' = {} /\ archive' = NoArchive
    ELSE UNCHANGED disk

\* start_ist that returns the path of a new run object.  The
\* service log may fail to open: the run goes on without it.
AcceptStart(t, opened) ==
    /\ CanStart /\ runs < MaxRuns
    /\ {"assert", "deassert"} \subseteq hooks
    /\ opened => fs = "rw"
    /\ runs' = runs + 1
    /\ test' = t
    /\ stage' = "collateral_verification" /\ status' = "in_progress"
    /\ progress' = 0
    /\ obj' = [run |-> runs + 1, stage |-> "idle", status |-> "in_progress",
               progress |-> 0]
    /\ WipeResults(opened)
    /\ logOpen' = opened
    /\ Await("verify")
    /\ UNCHANGED <<hardware, exit, released, startup, updating, archiving,
                   crashes>>

\* IstService::start_update, the service-level guard; the update itself is
\* VectorManager.tla's.
StartUpdate ==
    /\ stage = "idle" /\ ~updating
    /\ updating' = TRUE
    /\ UNCHANGED <<hardware, bus, waiting, test, startup, logOpen, archiving,
                   disk, bounds>>

FinishUpdate ==
    /\ updating
    /\ updating' = FALSE
    /\ UNCHANGED <<hardware, bus, waiting, test, startup, logOpen, archiving,
                   disk, bounds>>

-----------------------------------------------------------------------------
(* Completions *)

\* What no completion handler before the archive changes.
Besides == <<hardware, startup, updating, archiving, archive, bounds>>
Elsewhere == <<test, Besides>>

OnSignatureVerifyDone(ok) ==
    /\ op = "verify"
    /\ \/ /\ ~ok
          /\ FailRunWithArchive("SECURITY", progress)
       \/ /\ ok /\ test.sockets
          /\ LaunchBootAssert
       \/ /\ ok /\ ~test.sockets
          /\ Await("discover")
          /\ UNCHANGED <<bus, exit, released, logOpen, files, lines>>
    /\ UNCHANGED Elsewhere

\* The sockets found become the custom_socket_list of the run.
OnCpuDiscoveryDone(contiguous) ==
    /\ op = "discover"
    /\ IF contiguous
       THEN LaunchBootAssert /\ test' = [test EXCEPT !.sockets = TRUE]
       ELSE FailRunWithArchive("DISCOVERY", progress) /\ UNCHANGED test
    /\ UNCHANGED Besides

\* A hook that exits 0 has done its work on the strap; one that fails, cannot
\* be spawned or is killed on timeout may have done it or not.
OnIstBootAssertDone(ok) ==
    /\ op = "assert"
    /\ ok => landed
    /\ IF ok
       THEN /\ Transition("pending_power_cycle", status, progress)
            /\ Await("power")
            /\ UNCHANGED <<lines, files, exit, released, logOpen>>
       ELSE FailRunWithArchive("ASSERT", 0)
    /\ UNCHANGED Elsewhere

\* cak: what is at hookDirectory/ist_cak_bypass.sh at this moment.
OnPowerCycleDone(ok, cak) ==
    /\ op = "power"
    /\ \/ /\ ~ok
          /\ RunIstCleanup({"POWER_CYCLE"}, -1)
          /\ UNCHANGED files
       \/ /\ ok /\ cak = "absent"
          /\ StartItmRun
       \/ /\ ok /\ cak = "escapes"
          /\ RunIstCleanup({"CAK"}, -1)
          /\ UNCHANGED files
       \/ /\ ok /\ cak = "inside"
          /\ Transition("running_ist", status, progress)
          /\ Await("cak")
          /\ UNCHANGED <<lines, files, exit, released, logOpen>>
    /\ UNCHANGED Elsewhere

OnCakBypassDone(ok) ==
    /\ op = "cak"
    /\ IF ok THEN StartItmRun
       ELSE RunIstCleanup({"CAK"}, -1) /\ UNCHANGED files
    /\ UNCHANGED Elsewhere

\* Mutant: the percentage is not clamped.
OnItmProgressUnclamped(p) ==
    /\ op = "itm"
    /\ progress' = p + 1
    /\ obj' = IF obj.run = 0 THEN obj ELSE [obj EXCEPT !.progress = p + 1]
    /\ UNCHANGED <<hardware, stage, status, waiting, test, startup, updating,
                   logOpen, archiving, disk, bounds>>

\* The progress callback of start_itm_run.
OnItmProgress(p) ==
    /\ op = "itm"
    /\ progress' = p
    /\ obj' = IF obj.run = 0 THEN obj ELSE [obj EXCEPT !.progress = p]
    /\ UNCHANGED <<hardware, stage, status, waiting, test, startup, updating,
                   logOpen, archiving, disk, bounds>>

OnItmDone(itm_exit) ==
    /\ op = "itm"
    /\ RunIstCleanup(IF itm_exit = 0 THEN {} ELSE {"ITM"}, itm_exit)
    /\ UNCHANGED files
    /\ UNCHANGED Elsewhere

OnDeassertDone(ok) ==
    /\ op = "deassert"
    /\ ok => landed
    /\ EmitIstError(IF ok THEN {} ELSE {"DEASSERT"})
    /\ CloseServiceLog
    /\ released' = ok
    /\ Await("archive")
    /\ UNCHANGED <<bus, exit, files>>
    /\ UNCHANGED Elsewhere

\* First step of ArchiveSession: files to archive and an archive to put them in.
OpenArchive ==
    /\ op \in {"archive", "fail_archive"} /\ ~archiving
    /\ fs = "rw" /\ files # {}
    /\ archiving' = TRUE
    /\ archive' = [run |-> runs, files |-> files, lines |-> lines,
                   whole |-> FALSE]
    /\ UNCHANGED <<hardware, bus, waiting, test, startup, updating, logOpen,
                   files, lines, bounds>>

\* Mutant: the archiver forgets to answer when it fails.
FinishArchiveOnSuccess(ok) ==
    /\ ok /\ archiving /\ fs = "rw"
    /\ archive' = [archive EXCEPT !.whole = TRUE]
    /\ archiving' = FALSE /\ files' = {} /\ lines' = lines

\* Mutant: a failed archive is left where it is.
FinishArchiveLeavingPart(ok) ==
    /\ archiving' = FALSE /\ lines' = lines
    /\ IF ok
       THEN /\ archiving /\ fs = "rw"
            /\ archive' = [archive EXCEPT !.whole = TRUE]
            /\ files' = {}
       ELSE UNCHANGED <<files, archive>>

\* ArchiveSession::finish.  Each file is removed once it is in the archive, so
\* a failure part way loses some; a failed archive is removed if it can be.
FinishArchive(ok) ==
    /\ archiving' = FALSE
    /\ lines' = lines
    /\ IF ok
       THEN /\ archiving /\ fs = "rw"
            /\ archive' = [archive EXCEPT !.whole = TRUE]
            /\ files' = {}
       ELSE IF archiving
       THEN /\ files' \in SUBSET files
            /\ archive' = IF fs = "rw" THEN NoArchive ELSE archive
       ELSE UNCHANGED <<files, archive>>

\* Mutant: the verdict forgets a deassert hook that failed.
ArchivedStatusUnreleased ==
    IF op = "archive" /\ ~test.reboot /\ exit = 0
    THEN "completed" ELSE "failed"

\* The verdict when no reset follows.
ArchivedStatus ==
    IF op = "archive" /\ released /\ ~test.reboot /\ exit = 0
    THEN "completed" ELSE "failed"

\* on_archive_done, and the continuation of fail_run_with_archive, which
\* goes to idle whatever happened.
OnArchiveDone(ok) ==
    /\ op \in {"archive", "fail_archive"}
    /\ FinishArchive(ok)
    /\ IF op = "archive" /\ released /\ test.reboot /\ "reset" \in hooks
       THEN /\ Await("reset")
            /\ UNCHANGED bus
       ELSE /\ Transition("idle", ArchivedStatus, progress)
            /\ Await("none")
    /\ CloseServiceLog
    /\ UNCHANGED <<hardware, exit, released, test, startup, updating, bounds>>

\* The reset_system_failed line is emitted with the log already archived.
OnResetDone(ok) ==
    /\ op = "reset"
    /\ EmitIstError(IF ok THEN {} ELSE {"RESET"})
    /\ Transition("idle", IF ok /\ exit = 0 THEN "completed" ELSE "failed",
                  progress)
    /\ CloseServiceLog
    /\ Await("none")
    /\ UNCHANGED <<exit, released, files>>
    /\ UNCHANGED Elsewhere

-----------------------------------------------------------------------------
(* The environment *)

\* The hook of the run reaches the strap.
HookLands ==
    /\ op \in {"assert", "deassert"} /\ ~landed
    /\ landed' = TRUE
    /\ strap' = (op = "assert")
    /\ UNCHANGED <<hooks, fs, bus, op, exit, released, test, startup, updating,
                   logOpen, archiving, disk, bounds>>

\* The hook that initialize() launched and does not wait for.
StartupHookLands ==
    /\ startup = "running"
    /\ startup' = "landed"
    /\ strap' = FALSE
    /\ UNCHANGED <<hooks, fs, bus, waiting, test, updating, logOpen, archiving,
                   disk, bounds>>

StartupHookDone ==
    /\ startup \in {"running", "landed"}
    /\ startup' = "done"
    /\ UNCHANGED <<hardware, bus, waiting, test, updating, logOpen, archiving,
                   disk, bounds>>

FileSystemFault ==
    /\ fs = "rw"
    /\ fs' = "ro"
    /\ UNCHANGED <<hooks, strap, bus, waiting, test, startup, updating,
                   logOpen, archiving, disk, bounds>>

\* The process dies with its children (systemd kills the control group) and
\* is started again: main(), then initialize().  The strap and the results
\* directory survive.
Crash ==
    /\ crashes < MaxCrashes
    /\ crashes' = crashes + 1
    /\ stage' = "idle" /\ status' = "completed" /\ progress' = 0
    /\ obj' = NoObj
    /\ op' = "none" /\ landed' = FALSE /\ exit' = 0 /\ released' = FALSE
    /\ test' = NoTest
    /\ startup' = IF "deassert" \in hooks THEN "running" ELSE "done"
    /\ updating' = FALSE
    /\ logOpen' = FALSE /\ archiving' = FALSE
    /\ files' \in IF archiving THEN SUBSET files ELSE {files}
    /\ UNCHANGED <<hardware, lines, archive, runs>>

Method ==
    \/ \E why \in Rejections, t \in Tests : RejectStart(why, t)
    \/ \E t \in Tests, opened \in BOOLEAN : AcceptStart(t, opened)
    \/ StartUpdate

\* Every answer the daemon waits for; each of them has a time limit.
Completion ==
    \/ \E ok \in BOOLEAN : OnSignatureVerifyDone(ok)
    \/ \E contiguous \in BOOLEAN : OnCpuDiscoveryDone(contiguous)
    \/ \E ok \in BOOLEAN : OnIstBootAssertDone(ok)
    \/ \E ok \in BOOLEAN, cak \in {"absent", "escapes", "inside"} :
           OnPowerCycleDone(ok, cak)
    \/ \E ok \in BOOLEAN : OnCakBypassDone(ok)
    \/ \E itm_exit \in ItmExits : OnItmDone(itm_exit)
    \/ \E ok \in BOOLEAN : OnDeassertDone(ok)
    \/ \E ok \in BOOLEAN : OnArchiveDone(ok)
    \/ \E ok \in BOOLEAN : OnResetDone(ok)

Environment ==
    \/ \E p \in 0 .. MaxProgress : OnItmProgress(p)
    \/ OpenArchive
    \/ FinishUpdate
    \/ HookLands
    \/ StartupHookLands
    \/ StartupHookDone
    \/ FileSystemFault
    \/ Crash

Next == Method \/ Completion \/ Environment

\* HookRunner and ItmRunner kill what overruns, the power wait ends after ten
\* minutes, D-Bus calls time out and the posted steps of the verifier and the
\* archiver run to the end of a finite list: the awaited answer comes.
Spec == Init /\ [][Next]_vars /\ WF_vars(Completion)
-----------------------------------------------------------------------------
(* Properties *)

ObjType == [run : 0 .. MaxRuns, stage : Stages, status : Statuses,
            progress : 0 .. MaxProgress]

ArchiveType == [run : 0 .. MaxRuns, files : SUBSET FileNames,
                lines : SUBSET Categories, whole : BOOLEAN]

FlagType ==
    {strap, landed, released, updating, logOpen, archiving} \subseteq BOOLEAN

EnvironmentType ==
    /\ hooks \subseteq HookNames /\ fs \in {"rw", "ro"}
    /\ startup \in {"done", "running", "landed"}
    /\ runs \in 0 .. MaxRuns /\ crashes \in 0 .. MaxCrashes

RunType ==
    /\ stage \in Stages /\ status \in Statuses /\ progress \in 0 .. MaxProgress
    /\ test \in Tests /\ op \in Ops /\ exit \in ItmExits
    /\ obj \in ObjType

DiskType ==
    /\ files \subseteq FileNames /\ lines \subseteq Categories
    /\ archive \in ArchiveType

\* Every variable has its type; percentages and run numbers stay in range.
TypeOK == FlagType /\ EnvironmentType /\ RunType /\ DiskType

\* The stage always names the operation that is outstanding: no handler
\* returns without having asked for the next step or gone back to idle, and
\* no completion arrives in a stage that does not expect it.
StageNamesTheWait ==
    \/ stage = "idle"                    /\ op = "none"
    \/ stage = "collateral_verification" /\ op \in {"verify", "discover"}
    \/ stage = "pending_ist_boot"        /\ op = "assert"
    \/ stage = "pending_power_cycle"     /\ op = "power"
    \/ stage = "running_ist"             /\ op \in {"cak", "itm"}
    \/ stage = "cleanup"
       /\ op \in {"deassert", "archive", "fail_archive", "reset"}

\* start_ist and start_update exclude each other: no image is replaced
\* while a run that will execute it is anywhere before idle.
NoUpdateDuringRun == stage # "idle" => ~updating

\* A run that the D-Bus object reports Completed has released the boot
\* strap, whichever hooks failed or overran and whatever the startup hook
\* was doing meanwhile.
CompletedMeansReleased ==
    obj.status = "completed" /\ obj.run > 0 => stage = "idle" /\ ~strap

\* The service log is closed before the archiver looks at the directory and
\* stays closed until the next run (on_deassert_done, fail_run_with_archive).
LogClosedBeforeArchive ==
    op \in {"archive", "fail_archive", "reset", "none"} => ~logOpen

\* The tarball of a run reported Completed holds no IST_ERROR line: the
\* external parser and the D-Bus status cannot disagree on a pass, also after
\* failed runs, crashes and restarts.
PassHasNoErrorLine ==
    obj.status = "completed" /\ archive.run = obj.run /\ archive.run > 0
       => archive.lines = {}

\* As long as the file system works, GetResultsFd of a run object, which
\* answers at idle, never hands out the archive of another run nor a part of
\* one.
ServedArchiveIsOfTheRun ==
    fs = "rw" /\ stage = "idle" /\ obj.run > 0 /\ archive.run > 0
       => archive.run = obj.run /\ archive.whole

\* Past the verification stage the run object shows the service's state.
ObjectShowsState ==
    obj.run > 0 /\ stage # "collateral_verification"
       => obj = [run |-> runs, stage |-> stage, status |-> status,
                 progress |-> progress]

\* A run without automatic reboot that ends Failed says why in its tarball,
\* when the log made it into one.
FailureIsExplained ==
    [][/\ stage = "cleanup" /\ stage' = "idle" /\ obj'.run > 0
       /\ status' = "failed" /\ ~test.reboot
       /\ archive'.run = runs /\ archive'.whole
       /\ "service_log" \in archive'.files
       => archive'.lines # {}]_vars

\* Once the assert hook has succeeded the only way on from the power wait and
\* the test, short of the death of the process, is the deassert hook.
ArmedRunIsReleased ==
    [][/\ stage \in {"pending_power_cycle", "running_ist"}
       /\ stage' \notin {"pending_power_cycle", "running_ist"}
       => op' = "deassert" \/ crashes' # crashes]_vars

\* Every run ends.
RunEnds == stage # "idle" ~> stage = "idle"
=============================================================================
