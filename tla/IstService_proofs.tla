------------------------- MODULE IstService_proofs -------------------------
(***************************************************************************)
(* Proofs about IstService for every MaxRuns, MaxCrashes and MaxProgress:  *)
(* its type, its safety invariants, that it implements RunProtocol, and    *)
(* what a step of it may never do.                                         *)
(***************************************************************************)
EXTENDS IstServiceRefinement, TLAPS

-----------------------------------------------------------------------------
(* The records and the helpers of the handlers keep their types. *)

\* The empty results directory holds a well-typed archive.
LEMMA NoArchiveType == NoArchive \in ArchiveType
<1>1. {} \in SUBSET FileNames /\ {} \in SUBSET Categories
  OBVIOUS
<1>2. 0 \in 0 .. MaxRuns
  BY BoundsAssumption
<1>3. QED
  BY <1>1, <1>2 DEF NoArchive, ArchiveType

\* The absent run object is well typed.
LEMMA NoObjType == NoObj \in ObjType
  BY BoundsAssumption DEF NoObj, ObjType, Stages, Statuses

\* publish() leaves a well-typed run object.
LEMMA PublishedType ==
  ASSUME NEW o \in ObjType, NEW s \in Stages, NEW st \in Statuses,
         NEW p \in 0 .. MaxProgress
  PROVE  Published(o, s, st, p) \in ObjType
BY DEF Published, ObjType

\* transition_to keeps the state and the run object well typed.
LEMMA TransitionType ==
  ASSUME TypeOK, NEW s \in Stages, NEW st \in Statuses,
         NEW p \in 0 .. MaxProgress, Transition(s, st, p)
  PROVE  /\ stage' \in Stages /\ status' \in Statuses
         /\ progress' \in 0 .. MaxProgress /\ obj' \in ObjType
BY PublishedType DEF Transition, TypeOK, RunType

\* emit_ist_error adds known categories only.
LEMMA EmitType ==
  ASSUME TypeOK, NEW c \in SUBSET Categories, EmitIstError(c)
  PROVE  lines' \in SUBSET Categories
BY DEF EmitIstError, TypeOK, DiskType

-----------------------------------------------------------------------------
(* Type correctness *)

\* The daemon starts well typed.
LEMMA InitType == Init => TypeOK
<1> SUFFICES ASSUME Init PROVE TypeOK
  OBVIOUS
<1> USE BoundsAssumption DEF Init
<1>1. FlagType
  BY Zenon DEF FlagType
<1>2. EnvironmentType
  BY DEF EnvironmentType
<1>3. RunType
  BY NoObjType DEF RunType, Stages, Statuses, Ops, ItmExits, Tests, NoTest
<1>4. DiskType
  BY NoArchiveType DEF DiskType
<1>5. QED
  BY <1>1, <1>2, <1>3, <1>4 DEF TypeOK

\* Every D-Bus method, accepted or rejected, keeps the types.
LEMMA MethodType == TypeOK /\ Method => TypeOK'
<1> SUFFICES ASSUME TypeOK, Method PROVE TypeOK'
  OBVIOUS
<1> USE BoundsAssumption DEF TypeOK
<1>1. ASSUME NEW why \in Rejections, NEW t \in Tests, RejectStart(why, t)
      PROVE  TypeOK'
  <2>1. RunType'
    <3>1. "idle" \in Stages /\ RejectStatus(why) \in Statuses
      BY DEF RejectStatus, Stages, Statuses
    <3>2. QED
      BY <1>1, <3>1, TransitionType DEF RejectStart, RunType, waiting
  <2>2. FlagType'
    BY <1>1 DEF RejectStart, CloseServiceLog, FlagType, hardware, waiting
  <2>3. EnvironmentType' /\ DiskType'
    BY <1>1 DEF RejectStart, EnvironmentType, DiskType, hardware, disk, bounds
  <2>4. QED
    BY <2>1, <2>2, <2>3
<1>2. ASSUME NEW t \in Tests, NEW opened \in BOOLEAN, AcceptStart(t, opened)
      PROVE  TypeOK'
  <2>1. runs + 1 \in 0 .. MaxRuns
    BY <1>2 DEF AcceptStart, EnvironmentType
  <2>2. EnvironmentType'
    BY <1>2, <2>1 DEF AcceptStart, EnvironmentType, hardware
  <2>3. obj' \in ObjType
    BY <1>2, <2>1 DEF AcceptStart, ObjType, Stages, Statuses
  <2>4. RunType'
    BY <1>2, <2>3 DEF AcceptStart, RunType, Await, Stages, Statuses, Ops
  <2>5. FlagType'
    BY <1>2, Zenon DEF AcceptStart, FlagType, Await, hardware
  <2>6. DiskType'
    <3>1. {"service_log"} \subseteq FileNames
      BY DEF FileNames
    <3>2. QED
      BY <1>2, <3>1, NoArchiveType
      DEF AcceptStart, WipeResults, DiskType, disk
  <2>7. QED
    BY <2>2, <2>4, <2>5, <2>6
<1>3. CASE StartUpdate
  <2>1. FlagType'
    BY <1>3, Zenon DEF StartUpdate, FlagType, hardware, waiting
  <2>2. EnvironmentType' /\ RunType' /\ DiskType'
    BY <1>3 DEF StartUpdate, EnvironmentType, RunType, DiskType, hardware, bus,
                waiting, disk, bounds
  <2>3. QED
    BY <2>1, <2>2
<1>4. QED
  BY <1>1, <1>2, <1>3 DEF Method

\* What a completion handler may change; the rest is Elsewhere.
HandlerFlags == {landed, released, logOpen} \subseteq BOOLEAN

HandlerData ==
    /\ stage \in Stages /\ status \in Statuses /\ progress \in 0 .. MaxProgress
    /\ op \in Ops /\ exit \in ItmExits /\ obj \in ObjType
    /\ files \subseteq FileNames /\ lines \subseteq Categories

\* What a completion leaves alone keeps its type.
LEMMA HandlerType ==
  ASSUME TypeOK, UNCHANGED Elsewhere, HandlerFlags', HandlerData'
  PROVE  TypeOK'
<1> USE DEF TypeOK, Elsewhere, Besides
<1>1. FlagType'
  BY Zenon DEF FlagType, HandlerFlags, hardware
<1>2. EnvironmentType'
  BY DEF EnvironmentType, hardware, bounds
<1>3. RunType' /\ DiskType'
  BY DEF RunType, DiskType, HandlerData
<1>4. QED
  BY <1>1, <1>2, <1>3

\* The same for the discovery, which sets the socket list.
LEMMA DiscoveryType ==
  ASSUME TypeOK, UNCHANGED Besides, test' \in Tests,
         HandlerFlags', HandlerData'
  PROVE  TypeOK'
<1> USE DEF TypeOK, Besides
<1>1. FlagType'
  BY Zenon DEF FlagType, HandlerFlags, hardware
<1>2. EnvironmentType'
  BY DEF EnvironmentType, hardware, bounds
<1>3. RunType' /\ DiskType'
  BY DEF RunType, DiskType, HandlerData
<1>4. QED
  BY <1>1, <1>2, <1>3

\* fail_run_with_archive keeps the types.
LEMMA FailRunType ==
  ASSUME TypeOK, NEW c \in Categories, NEW p \in 0 .. MaxProgress,
         FailRunWithArchive(c, p)
  PROVE  HandlerFlags' /\ HandlerData'
<1> USE DEF FailRunWithArchive, TypeOK
<1>1. HandlerFlags'
  BY Zenon DEF HandlerFlags, FlagType, CloseServiceLog, Await
<1>2. lines' \in SUBSET Categories
  BY EmitType
<1>3. /\ stage' \in Stages /\ status' \in Statuses
      /\ progress' \in 0 .. MaxProgress /\ obj' \in ObjType
  <2>1. "cleanup" \in Stages /\ status \in Statuses
    BY DEF Stages, RunType
  <2>2. QED
    BY <2>1, TransitionType
<1>4. HandlerData'
  BY <1>2, <1>3 DEF HandlerData, RunType, DiskType, Await, Ops
<1>5. QED
  BY <1>1, <1>4

\* run_ist_cleanup keeps the types.
LEMMA CleanupType ==
  ASSUME TypeOK, NEW c \in SUBSET Categories, NEW e \in ItmExits,
         RunIstCleanup(c, e), files' \subseteq FileNames
  PROVE  HandlerFlags' /\ HandlerData'
<1> USE DEF RunIstCleanup, TypeOK
<1>1. HandlerFlags'
  BY Zenon DEF HandlerFlags, FlagType, Await
<1>2. lines' \in SUBSET Categories
  BY EmitType
<1>3. /\ stage' \in Stages /\ status' \in Statuses
      /\ progress' \in 0 .. MaxProgress /\ obj' \in ObjType
  <2>1. "cleanup" \in Stages /\ status \in Statuses
        /\ progress \in 0 .. MaxProgress
    BY DEF Stages, RunType
  <2>2. QED
    BY <2>1, TransitionType
<1>4. HandlerData'
  BY <1>2, <1>3 DEF HandlerData, Await, Ops
<1>5. QED
  BY <1>1, <1>4

\* The handler moves the run on and leaves the disk alone.
LEMMA StepType ==
  ASSUME TypeOK, NEW s \in Stages, NEW o \in Ops,
         Transition(s, status, progress), Await(o),
         UNCHANGED <<lines, exit, released, logOpen>>,
         files' \subseteq FileNames
  PROVE  HandlerFlags' /\ HandlerData'
<1> USE DEF TypeOK
<1>1. HandlerFlags'
  BY Zenon DEF HandlerFlags, FlagType, Await
<1>2. /\ stage' \in Stages /\ status' \in Statuses
      /\ progress' \in 0 .. MaxProgress /\ obj' \in ObjType
  <2>1. status \in Statuses /\ progress \in 0 .. MaxProgress
    BY DEF RunType
  <2>2. QED
    BY <2>1, TransitionType
<1>3. HandlerData'
  BY <1>2 DEF HandlerData, RunType, DiskType, Await
<1>4. QED
  BY <1>1, <1>3

\* start_itm_run keeps the types, whether kist_itm starts or not.
LEMMA StartItmType ==
  ASSUME TypeOK, StartItmRun
  PROVE  HandlerFlags' /\ HandlerData'
<1>1. files \subseteq FileNames /\ files \cup {"itm_log"} \subseteq FileNames
  BY DEF TypeOK, DiskType, FileNames
<1>2. files' \subseteq FileNames
  BY <1>1 DEF StartItmRun
<1>3. CASE Transition("running_ist", status, progress) /\ Await("itm")
           /\ UNCHANGED <<lines, exit, released, logOpen>>
  <2>1. "running_ist" \in Stages /\ "itm" \in Ops
    BY DEF Stages, Ops
  <2>2. QED
    BY <1>2, <1>3, <2>1, StepType
<1>4. CASE RunIstCleanup({"ITM"}, -1)
  <2>1. {"ITM"} \in SUBSET Categories /\ -1 \in ItmExits
    BY DEF Categories, ItmExits
  <2>2. QED
    BY <1>2, <1>4, <2>1, CleanupType
<1>5. QED
  BY <1>3, <1>4 DEF StartItmRun

\* launch_boot_assert keeps the types.
LEMMA LaunchType ==
  ASSUME TypeOK, LaunchBootAssert
  PROVE  HandlerFlags' /\ HandlerData'
<1>1. "pending_ist_boot" \in Stages /\ "assert" \in Ops
  BY DEF Stages, Ops
<1>2. files' \subseteq FileNames
  BY DEF LaunchBootAssert, TypeOK, DiskType
<1>3. QED
  BY <1>1, <1>2, StepType DEF LaunchBootAssert

\* The handlers before the archive: what their helpers leave well typed.
LEMMA EarlyCompletionType ==
  ASSUME TypeOK
  PROVE  /\ \A ok \in BOOLEAN : OnSignatureVerifyDone(ok) => TypeOK'
         /\ \A c \in BOOLEAN : OnCpuDiscoveryDone(c) => TypeOK'
         /\ \A ok \in BOOLEAN : OnIstBootAssertDone(ok) => TypeOK'
<1>0. /\ {"SECURITY", "DISCOVERY", "ASSERT"} \subseteq Categories
      /\ progress \in 0 .. MaxProgress /\ 0 \in 0 .. MaxProgress
      /\ stage \in Stages /\ status \in Statuses /\ files \subseteq FileNames
      /\ "pending_power_cycle" \in Stages /\ {"discover", "power"} \subseteq Ops
  BY BoundsAssumption DEF TypeOK, RunType, DiskType, Categories, Stages, Ops
<1>1. ASSUME NEW ok \in BOOLEAN, OnSignatureVerifyDone(ok) PROVE TypeOK'
  <2>1. CASE FailRunWithArchive("SECURITY", progress)
    BY <1>0, <1>1, <2>1, FailRunType, HandlerType DEF OnSignatureVerifyDone
  <2>2. CASE LaunchBootAssert
    BY <1>1, <2>2, LaunchType, HandlerType DEF OnSignatureVerifyDone
  <2>3. CASE /\ Await("discover")
             /\ UNCHANGED <<bus, exit, released, logOpen, files, lines>>
    <3>1. HandlerFlags'
      BY <2>3, Zenon DEF HandlerFlags, TypeOK, FlagType, Await
    <3>2. HandlerData'
      BY <1>0, <2>3 DEF HandlerData, TypeOK, RunType, DiskType, Await, bus
    <3>3. QED
      BY <1>1, <3>1, <3>2, HandlerType DEF OnSignatureVerifyDone
  <2>4. QED
    BY <1>1, <2>1, <2>2, <2>3 DEF OnSignatureVerifyDone
<1>2. ASSUME NEW c \in BOOLEAN, OnCpuDiscoveryDone(c) PROVE TypeOK'
  <2>0. test' \in Tests
    BY <1>0, <1>2 DEF OnCpuDiscoveryDone, TypeOK, RunType, Tests
  <2>1. CASE LaunchBootAssert
    BY <1>2, <2>0, <2>1, LaunchType, DiscoveryType DEF OnCpuDiscoveryDone
  <2>2. CASE FailRunWithArchive("DISCOVERY", progress)
    BY <1>0, <1>2, <2>0, <2>2, FailRunType, DiscoveryType
    DEF OnCpuDiscoveryDone
  <2>3. QED
    BY <1>2, <2>1, <2>2 DEF OnCpuDiscoveryDone
<1>3. ASSUME NEW ok \in BOOLEAN, OnIstBootAssertDone(ok) PROVE TypeOK'
  <2>1. CASE ok
    <3>1. files' \subseteq FileNames
      BY <1>0, <1>3, <2>1 DEF OnIstBootAssertDone
    <3>2. HandlerFlags' /\ HandlerData'
      BY <1>0, <1>3, <2>1, <3>1, StepType DEF OnIstBootAssertDone
    <3>3. QED
      BY <1>3, <3>2, HandlerType DEF OnIstBootAssertDone
  <2>2. CASE ~ok
    BY <1>0, <1>3, <2>2, FailRunType, HandlerType DEF OnIstBootAssertDone
  <2>3. QED
    BY <2>1, <2>2
<1>4. QED
  BY <1>1, <1>2, <1>3

\* The completions of the power wait, the CAK hook and kist_itm keep the types.
LEMMA TestCompletionType ==
  ASSUME TypeOK
  PROVE  /\ \A ok \in BOOLEAN, cak \in {"absent", "escapes", "inside"} :
               OnPowerCycleDone(ok, cak) => TypeOK'
         /\ \A ok \in BOOLEAN : OnCakBypassDone(ok) => TypeOK'
         /\ \A e \in ItmExits : OnItmDone(e) => TypeOK'
<1>0. /\ {{"POWER_CYCLE"}, {"CAK"}, {"ITM"}, {}} \subseteq SUBSET Categories
      /\ -1 \in ItmExits /\ files \subseteq FileNames
      /\ "running_ist" \in Stages /\ "cak" \in Ops
  BY DEF TypeOK, DiskType, Categories, Stages, Ops, ItmExits
<1>1. ASSUME NEW ok \in BOOLEAN, NEW cak \in {"absent", "escapes", "inside"},
             OnPowerCycleDone(ok, cak)
      PROVE  TypeOK'
  <2>1. CASE RunIstCleanup({"POWER_CYCLE"}, -1) /\ UNCHANGED files
    BY <1>0, <1>1, <2>1, CleanupType, HandlerType DEF OnPowerCycleDone
  <2>2. CASE StartItmRun
    BY <1>1, <2>2, StartItmType, HandlerType DEF OnPowerCycleDone
  <2>3. CASE RunIstCleanup({"CAK"}, -1) /\ UNCHANGED files
    BY <1>0, <1>1, <2>3, CleanupType, HandlerType DEF OnPowerCycleDone
  <2>4. CASE /\ Transition("running_ist", status, progress)
             /\ Await("cak")
             /\ UNCHANGED <<lines, files, exit, released, logOpen>>
    <3>1. files' \subseteq FileNames
      BY <1>0, <2>4
    <3>2. HandlerFlags' /\ HandlerData'
      BY <1>0, <2>4, <3>1, StepType
    <3>3. QED
      BY <1>1, <3>2, HandlerType DEF OnPowerCycleDone
  <2>5. QED
    BY <1>1, <2>1, <2>2, <2>3, <2>4 DEF OnPowerCycleDone
<1>2. ASSUME NEW ok \in BOOLEAN, OnCakBypassDone(ok) PROVE TypeOK'
  <2>1. CASE StartItmRun
    BY <1>2, <2>1, StartItmType, HandlerType DEF OnCakBypassDone
  <2>2. CASE RunIstCleanup({"CAK"}, -1) /\ UNCHANGED files
    BY <1>0, <1>2, <2>2, CleanupType, HandlerType DEF OnCakBypassDone
  <2>3. QED
    BY <1>2, <2>1, <2>2 DEF OnCakBypassDone
<1>3. ASSUME NEW e \in ItmExits, OnItmDone(e) PROVE TypeOK'
  <2>1. (IF e = 0 THEN {} ELSE {"ITM"}) \in SUBSET Categories
    BY <1>0
  <2>2. files' \subseteq FileNames
    BY <1>0, <1>3 DEF OnItmDone
  <2>3. HandlerFlags' /\ HandlerData'
    BY <1>3, <2>1, <2>2, CleanupType DEF OnItmDone
  <2>4. QED
    BY <1>3, <2>3, HandlerType DEF OnItmDone
<1>4. QED
  BY <1>1, <1>2, <1>3

\* The completions of the cleanup stage keep the types.
LEMMA LateCompletionType ==
  ASSUME TypeOK
  PROVE  /\ \A ok \in BOOLEAN : OnDeassertDone(ok) => TypeOK'
         /\ \A ok \in BOOLEAN : OnArchiveDone(ok) => TypeOK'
         /\ \A ok \in BOOLEAN : OnResetDone(ok) => TypeOK'
<1> USE DEF TypeOK
<1>0. /\ {"idle"} \subseteq Stages /\ {"completed", "failed"} \subseteq Statuses
      /\ progress \in 0 .. MaxProgress
      /\ {"none", "archive", "reset"} \subseteq Ops
      /\ {{}, {"DEASSERT"}, {"RESET"}} \subseteq SUBSET Categories
  BY DEF RunType, Stages, Statuses, Ops, Categories
<1>1. ASSUME NEW ok \in BOOLEAN, OnDeassertDone(ok) PROVE TypeOK'
  <2>1. HandlerFlags'
    BY <1>1, Zenon
    DEF OnDeassertDone, HandlerFlags, FlagType, CloseServiceLog, Await
  <2>2. lines' \in SUBSET Categories
    <3>1. (IF ok THEN {} ELSE {"DEASSERT"}) \in SUBSET Categories
      BY <1>0
    <3>2. QED
      BY <1>1, <3>1, EmitType DEF OnDeassertDone
  <2>3. HandlerData'
    BY <1>0, <1>1, <2>2
    DEF OnDeassertDone, HandlerData, RunType, DiskType, Await, bus
  <2>4. QED
    BY <1>1, <2>1, <2>3, HandlerType DEF OnDeassertDone
<1>2. ASSUME NEW ok \in BOOLEAN, OnArchiveDone(ok) PROVE TypeOK'
  <2>1. FlagType'
    BY <1>2, Zenon DEF OnArchiveDone, FinishArchive, FlagType, CloseServiceLog,
                       Await, hardware
  <2>2. EnvironmentType'
    BY <1>2 DEF OnArchiveDone, EnvironmentType, hardware, bounds
  <2>3. DiskType'
    <3>1. [archive EXCEPT !.whole = TRUE] \in ArchiveType
      BY DEF DiskType, ArchiveType
    <3>2. archive' \in ArchiveType
      BY <1>2, <3>1, NoArchiveType DEF OnArchiveDone, FinishArchive, DiskType
    <3>3. files' \subseteq FileNames
      BY <1>2 DEF OnArchiveDone, FinishArchive, DiskType
    <3>4. QED
      BY <1>2, <3>2, <3>3 DEF OnArchiveDone, FinishArchive, DiskType
  <2>4. RunType'
    <3>1. ArchivedStatus \in Statuses
      BY <1>0 DEF ArchivedStatus
    <3>2. CASE Transition("idle", ArchivedStatus, progress) /\ Await("none")
      BY <1>0, <1>2, <3>1, <3>2, TransitionType
      DEF OnArchiveDone, RunType, Await
    <3>3. CASE Await("reset") /\ UNCHANGED bus
      BY <1>0, <1>2, <3>3 DEF OnArchiveDone, RunType, Await, bus
    <3>4. QED
      BY <1>2, <3>2, <3>3 DEF OnArchiveDone
  <2>5. QED
    BY <2>1, <2>2, <2>3, <2>4
<1>3. ASSUME NEW ok \in BOOLEAN, OnResetDone(ok) PROVE TypeOK'
  <2>1. HandlerFlags'
    BY <1>3, Zenon
    DEF OnResetDone, HandlerFlags, FlagType, CloseServiceLog, Await
  <2>2. lines' \in SUBSET Categories
    <3>1. (IF ok THEN {} ELSE {"RESET"}) \in SUBSET Categories
      BY <1>0
    <3>2. QED
      BY <1>3, <3>1, EmitType DEF OnResetDone
  <2>3. /\ stage' \in Stages /\ status' \in Statuses
        /\ progress' \in 0 .. MaxProgress /\ obj' \in ObjType
    BY <1>0, <1>3, TransitionType DEF OnResetDone
  <2>4. HandlerData'
    BY <1>0, <1>3, <2>2, <2>3
    DEF OnResetDone, HandlerData, RunType, DiskType, Await
  <2>5. QED
    BY <1>3, <2>1, <2>4, HandlerType DEF OnResetDone
<1>4. QED
  BY <1>1, <1>2, <1>3

\* Progress, hooks, faults and restarts keep the types.
LEMMA EnvironmentStepType == TypeOK /\ Environment => TypeOK'
<1> SUFFICES ASSUME TypeOK, Environment PROVE TypeOK'
  OBVIOUS
<1> USE BoundsAssumption DEF TypeOK
<1>1. ASSUME NEW p \in 0 .. MaxProgress, OnItmProgress(p) PROVE TypeOK'
  <2>1. obj' \in ObjType
    BY <1>1 DEF OnItmProgress, RunType, ObjType
  <2>2. RunType' /\ EnvironmentType' /\ DiskType'
    BY <1>1, <2>1 DEF OnItmProgress, RunType, EnvironmentType, DiskType,
                      hardware, waiting, disk, bounds
  <2>3. FlagType'
    BY <1>1, Zenon DEF OnItmProgress, FlagType, hardware, waiting
  <2>4. QED
    BY <2>2, <2>3
<1>2. CASE OpenArchive
  <2>1. archive' \in ArchiveType
    BY <1>2 DEF OpenArchive, EnvironmentType, DiskType, ArchiveType
  <2>2. RunType' /\ EnvironmentType' /\ DiskType'
    BY <1>2, <2>1 DEF OpenArchive, RunType, EnvironmentType, DiskType,
                      hardware, waiting, bus, bounds
  <2>3. FlagType'
    BY <1>2, Zenon DEF OpenArchive, FlagType, hardware, waiting
  <2>4. QED
    BY <2>2, <2>3
<1>3. CASE FinishUpdate \/ HookLands \/ StartupHookLands \/ StartupHookDone
           \/ FileSystemFault
  <2>1. RunType' /\ EnvironmentType' /\ DiskType'
    BY <1>3 DEF FinishUpdate, HookLands, StartupHookLands, StartupHookDone,
                FileSystemFault, RunType, EnvironmentType, DiskType,
                hardware, waiting, bus, disk, bounds
  <2>2. (op = "assert") \in BOOLEAN
    OBVIOUS
  <2>3. FlagType'
    BY <1>3, <2>2, Zenon
    DEF FinishUpdate, HookLands, StartupHookLands, StartupHookDone,
        FileSystemFault, FlagType, hardware, waiting
  <2>4. QED
    BY <2>1, <2>3
<1>4. CASE Crash
  <2>1. EnvironmentType'
    BY <1>4 DEF Crash, EnvironmentType, hardware
  <2>2. RunType'
    BY <1>4, NoObjType
    DEF Crash, RunType, NoTest, Tests, Stages, Statuses, Ops, ItmExits
  <2>3. DiskType'
    BY <1>4 DEF Crash, DiskType
  <2>4. FlagType'
    BY <1>4, Zenon DEF Crash, FlagType, hardware
  <2>5. QED
    BY <2>1, <2>2, <2>3, <2>4
<1>5. QED
  BY <1>1, <1>2, <1>3, <1>4 DEF Environment

\* No step of the daemon breaks a type.
LEMMA NextType == TypeOK /\ [Next]_vars => TypeOK'
<1> SUFFICES ASSUME TypeOK, [Next]_vars PROVE TypeOK'
  OBVIOUS
<1>1. CASE Completion
  BY <1>1, EarlyCompletionType, TestCompletionType, LateCompletionType
  DEF Completion
<1>2. CASE UNCHANGED vars
  <2>1. FlagType'
    BY <1>2, Zenon DEF TypeOK, vars, FlagType, hardware, waiting
  <2>2. EnvironmentType' /\ RunType' /\ DiskType'
    BY <1>2 DEF TypeOK, vars, EnvironmentType, RunType, DiskType, hardware,
                waiting, bus, disk, bounds
  <2>3. QED
    BY <2>1, <2>2 DEF TypeOK
<1>3. QED
  BY <1>1, <1>2, MethodType, EnvironmentStepType DEF Next

\* Every reachable state of the service is well typed.
THEOREM TypeCorrect == Spec => []TypeOK
<1>1. QED
  BY InitType, NextType, PTL DEF Spec

-----------------------------------------------------------------------------
(* The inductive invariant *)

BeforeCleanup == {"verify", "discover", "assert", "power", "cak", "itm"}

\* A run under way is in progress, and the registered object is its own.
ObjectOfTheRun ==
    /\ obj.run > 0 => obj.run = runs
    /\ op # "none" => /\ status = "in_progress" /\ obj.status = "in_progress"
                      /\ obj.run > 0
    /\ op = "none" /\ obj.run > 0 => obj.status = status

\* Only the deassert hook of the run answers ok, and nothing asserts the strap
\* between its landing and the end of the run.
StrapFollowsTheHook ==
    /\ op = "deassert" /\ landed => ~strap
    /\ op \in {"archive", "reset"} /\ released => ~strap
    /\ op = "reset" => released /\ test.reboot

\* Where the archive of this run comes from.
ArchiveOfTheRun ==
    /\ archive.run <= runs
    /\ archiving => op \in {"archive", "fail_archive"} /\ archive.run = runs
    /\ op \in BeforeCleanup \cup {"deassert"} => archive.run < runs
    /\ op \in {"archive", "fail_archive"} /\ ~archiving => archive.run < runs
    /\ fs = "rw" /\ op \in BeforeCleanup \cup {"deassert"} => archive.run = 0
    /\ fs = "rw" /\ op \in {"archive", "fail_archive"} /\ ~archiving
          => archive.run = 0
    /\ fs = "rw" /\ op = "reset" /\ archive.run > 0
          => archive.run = runs /\ archive.whole

\* A run on its way to Completed has no IST_ERROR line, in the log or in the
\* archive made from it.
NoErrorOnTheWayToPass ==
    /\ fs = "rw" /\ op \in BeforeCleanup => lines = {}
    /\ fs = "rw" /\ op = "deassert" /\ exit = 0 => lines = {}
    /\ fs = "rw" /\ op = "archive" /\ exit = 0 /\ released => lines = {}
    /\ op \in {"archive", "reset"} /\ exit = 0 /\ released
       /\ archive.run = runs => archive.lines = {}

\* An error reaches the log that is archived, if there is a log.
ErrorIsInTheLog ==
    LET logged == fs = "rw" /\ "service_log" \in files
        archived == /\ archive.run = runs /\ archive.run > 0
                    /\ "service_log" \in archive.files
        failed == exit # 0 \/ ~released
    IN  /\ logged /\ op \in BeforeCleanup \cup {"deassert"} => logOpen
        /\ logged /\ op = "deassert" /\ exit # 0 => lines # {}
        /\ logged /\ op = "fail_archive" => lines # {}
        /\ logged /\ op = "archive" /\ failed => lines # {}
        /\ archived /\ op = "fail_archive" => archive.lines # {}
        /\ archived /\ op = "archive" /\ failed => archive.lines # {}

Control == StageNamesTheWait /\ NoUpdateDuringRun /\ LogClosedBeforeArchive

Object  == ObjectOfTheRun /\ ObjectShowsState

Boot    == StrapFollowsTheHook /\ CompletedMeansReleased

Results == ArchiveOfTheRun /\ ServedArchiveIsOfTheRun

Verdict == NoErrorOnTheWayToPass /\ PassHasNoErrorLine

Safety  == /\ Control /\ Object /\ Boot /\ Results /\ Verdict
           /\ ErrorIsInTheLog

-----------------------------------------------------------------------------
(* Control: the stage, the awaited operation, the update guard and the log. *)

\* No handler returns without a next step, and none starts a run during an
\* update or leaves the log open for the archiver.
LEMMA ControlStep ==
  TypeOK /\ Control /\ [Next]_vars
    => Control'
<1> SUFFICES ASSUME TypeOK, Control, [Next]_vars
             PROVE  Control'
  OBVIOUS
<1> USE DEF Control, StageNamesTheWait, NoUpdateDuringRun,
            LogClosedBeforeArchive, Await, Transition, CloseServiceLog,
            hardware, bus, waiting, disk, bounds
<1>1. ASSUME NEW why \in Rejections, NEW t \in Tests, RejectStart(why, t)
      PROVE  Control'
  BY <1>1 DEF RejectStart, CanStart
<1>2. ASSUME NEW t \in Tests, NEW opened \in BOOLEAN, AcceptStart(t, opened)
      PROVE  Control'
  BY <1>2 DEF AcceptStart, CanStart
<1>3. CASE StartUpdate \/ FinishUpdate
  BY <1>3 DEF StartUpdate, FinishUpdate
<1>4. ASSUME NEW ok \in BOOLEAN, OnSignatureVerifyDone(ok) PROVE Control'
  BY <1>4 DEF OnSignatureVerifyDone, FailRunWithArchive, LaunchBootAssert,
            Elsewhere, Besides
<1>5. ASSUME NEW c \in BOOLEAN, OnCpuDiscoveryDone(c) PROVE Control'
  BY <1>5 DEF OnCpuDiscoveryDone, FailRunWithArchive, LaunchBootAssert,
            Elsewhere, Besides
<1>6. ASSUME NEW ok \in BOOLEAN, OnIstBootAssertDone(ok) PROVE Control'
  BY <1>6 DEF OnIstBootAssertDone, FailRunWithArchive, Elsewhere, Besides
<1>7. ASSUME NEW ok \in BOOLEAN, NEW cak \in {"absent", "escapes", "inside"},
             OnPowerCycleDone(ok, cak)
      PROVE  Control'
  BY <1>7 DEF OnPowerCycleDone, StartItmRun, RunIstCleanup, Elsewhere, Besides
<1>8. ASSUME NEW ok \in BOOLEAN, OnCakBypassDone(ok) PROVE Control'
  BY <1>8 DEF OnCakBypassDone, StartItmRun, RunIstCleanup, Elsewhere, Besides
<1>9. ASSUME NEW e \in ItmExits, OnItmDone(e) PROVE Control'
  BY <1>9 DEF OnItmDone, RunIstCleanup, Elsewhere, Besides
<1>10. ASSUME NEW ok \in BOOLEAN, OnDeassertDone(ok) PROVE Control'
  BY <1>10 DEF OnDeassertDone, Elsewhere, Besides
<1>11. ASSUME NEW ok \in BOOLEAN, OnArchiveDone(ok) PROVE Control'
  BY <1>11 DEF OnArchiveDone
<1>12. ASSUME NEW ok \in BOOLEAN, OnResetDone(ok) PROVE Control'
  BY <1>12 DEF OnResetDone, Elsewhere, Besides
<1>13. ASSUME NEW p \in 0 .. MaxProgress, OnItmProgress(p) PROVE Control'
  BY <1>13 DEF OnItmProgress
<1>14. CASE OpenArchive \/ FileSystemFault
  BY <1>14 DEF OpenArchive, FileSystemFault
<1>15. CASE HookLands \/ StartupHookLands \/ StartupHookDone
  BY <1>15 DEF HookLands, StartupHookLands, StartupHookDone
<1>16. CASE Crash
  BY <1>16 DEF Crash
<1>17. CASE UNCHANGED vars
  BY <1>17 DEF vars
<1>18. QED
  BY <1>1, <1>2, <1>3, <1>4, <1>5, <1>6, <1>7, <1>8, <1>9, <1>10, <1>11,
     <1>12, <1>13, <1>14, <1>15, <1>16, <1>17
  DEF Next, Method, Completion, Environment

-----------------------------------------------------------------------------
(* Object *)

\* transition_to leaves the registered run object showing the new state.
LEMMA TransitionShows ==
  ASSUME TypeOK, NEW s \in Stages, NEW st \in Statuses,
         NEW p \in 0 .. MaxProgress, Transition(s, st, p)
  PROVE  /\ stage' = s /\ status' = st /\ progress' = p
         /\ obj'.run = obj.run
         /\ obj.run > 0 =>
              /\ obj' = [run |-> obj.run, stage |-> s, status |-> st,
                         progress |-> p]
              /\ obj'.status = st
         /\ obj.run = 0 => obj' = obj
<1>1. obj \in ObjType
  BY DEF TypeOK, RunType
<1>2. obj.run \in Nat
  BY <1>1, BoundsAssumption DEF ObjType
<1>3. obj' = Published(obj, s, st, p)
  BY DEF Transition
<1>4. obj.run = 0 => obj' = obj
  BY <1>3 DEF Published
<1>5. obj.run > 0 => obj' = [run |-> obj.run, stage |-> s, status |-> st,
                             progress |-> p]
  BY <1>3 DEF Published
<1>6. QED
  BY <1>2, <1>4, <1>5 DEF Transition

\* A run under way is in progress on its own run object, which shows the
\* state of the service from the assert hook on.
LEMMA ObjectStep ==
  TypeOK /\ Control /\ Object /\ [Next]_vars
    => Object'
<1> SUFFICES ASSUME TypeOK, Control, Object, [Next]_vars
             PROVE  Object'
  OBVIOUS
<1> USE DEF Object, ObjectOfTheRun, ObjectShowsState, Control,
            StageNamesTheWait, Await, NoObj, Elsewhere, Besides, hardware, bus,
            waiting, disk, bounds, Stages, Statuses
<1>0. /\ obj.run \in Nat /\ runs \in Nat /\ obj \in ObjType
      /\ stage \in Stages /\ status \in Statuses
      /\ progress \in 0 .. MaxProgress /\ 0 \in 0 .. MaxProgress
  BY BoundsAssumption DEF TypeOK, RunType, EnvironmentType, ObjType
<1>1. ASSUME NEW why \in Rejections, NEW t \in Tests, RejectStart(why, t)
      PROVE  Object'
  BY <1>1, TransitionShows, <1>0 DEF RejectStart, CanStart, RejectStatus
<1>2. ASSUME NEW t \in Tests, NEW opened \in BOOLEAN, AcceptStart(t, opened)
      PROVE  Object'
  BY <1>2, TransitionShows, <1>0 DEF AcceptStart, CanStart, WipeResults
<1>3. CASE StartUpdate \/ FinishUpdate
  BY <1>3 DEF StartUpdate, FinishUpdate
<1>4. ASSUME NEW ok \in BOOLEAN, OnSignatureVerifyDone(ok)
      PROVE  Object'
  BY <1>4, TransitionShows, <1>0 DEF OnSignatureVerifyDone,
     FailRunWithArchive, LaunchBootAssert
<1>5. ASSUME NEW c \in BOOLEAN, OnCpuDiscoveryDone(c)
      PROVE  Object'
  BY <1>5, TransitionShows, <1>0 DEF OnCpuDiscoveryDone,
     FailRunWithArchive, LaunchBootAssert
<1>6. ASSUME NEW ok \in BOOLEAN, OnIstBootAssertDone(ok)
      PROVE  Object'
  BY <1>6, TransitionShows, <1>0 DEF OnIstBootAssertDone,
     FailRunWithArchive
<1>7. ASSUME NEW ok \in BOOLEAN, NEW cak \in {"absent", "escapes", "inside"},
             OnPowerCycleDone(ok, cak)
      PROVE  Object'
  BY <1>7, TransitionShows, <1>0 DEF OnPowerCycleDone, StartItmRun,
     RunIstCleanup
<1>8. ASSUME NEW ok \in BOOLEAN, OnCakBypassDone(ok)
      PROVE  Object'
  BY <1>8, TransitionShows, <1>0 DEF OnCakBypassDone, StartItmRun,
     RunIstCleanup
<1>9. ASSUME NEW e \in ItmExits, OnItmDone(e)
      PROVE  Object'
  BY <1>9, TransitionShows, <1>0 DEF OnItmDone, RunIstCleanup
<1>10. ASSUME NEW ok \in BOOLEAN, OnDeassertDone(ok)
      PROVE  Object'
  BY <1>10, TransitionShows, <1>0 DEF OnDeassertDone
<1>11. ASSUME NEW ok \in BOOLEAN, OnArchiveDone(ok)
      PROVE  Object'
  BY <1>11, TransitionShows, <1>0 DEF OnArchiveDone, FinishArchive,
     ArchivedStatus
<1>12. ASSUME NEW ok \in BOOLEAN, OnResetDone(ok)
      PROVE  Object'
  BY <1>12, TransitionShows, <1>0 DEF OnResetDone
<1>13. ASSUME NEW p \in 0 .. MaxProgress, OnItmProgress(p)
      PROVE  Object'
  BY <1>13, TransitionShows, <1>0 DEF OnItmProgress
<1>14. CASE OpenArchive
  BY <1>14 DEF OpenArchive
<1>15. CASE FileSystemFault
  BY <1>15 DEF FileSystemFault
<1>16. CASE HookLands
  BY <1>16 DEF HookLands
<1>17. CASE StartupHookLands \/ StartupHookDone
  BY <1>17 DEF StartupHookLands, StartupHookDone
<1>18. CASE Crash
  BY <1>18 DEF Crash
<1>19. CASE UNCHANGED vars
  BY <1>19 DEF vars
<1>20. QED
  BY <1>1, <1>2, <1>3, <1>4, <1>5, <1>6, <1>7, <1>8, <1>9, <1>10, <1>11,
     <1>12, <1>13, <1>14, <1>15, <1>16, <1>17, <1>18, <1>19
  DEF Next, Method, Completion, Environment

-----------------------------------------------------------------------------
(* Boot *)

\* Once the deassert hook of a run has landed, the strap stays released to the
\* end of the run and after it.
LEMMA BootStep ==
  TypeOK /\ Control /\ Object /\ Boot /\ [Next]_vars
    => Boot'
<1> SUFFICES ASSUME TypeOK, Control, Object, Boot, [Next]_vars
             PROVE  Boot'
  OBVIOUS
<1> USE DEF Boot, StrapFollowsTheHook, CompletedMeansReleased, Object,
            ObjectOfTheRun, Control, StageNamesTheWait, Await, NoObj,
            Elsewhere, Besides, hardware, bus, waiting, disk, bounds, Stages,
            Statuses
<1>0. /\ obj.run \in Nat /\ runs \in Nat /\ obj \in ObjType
      /\ stage \in Stages /\ status \in Statuses
      /\ progress \in 0 .. MaxProgress /\ 0 \in 0 .. MaxProgress
  BY BoundsAssumption DEF TypeOK, RunType, EnvironmentType, ObjType
<1>1. ASSUME NEW why \in Rejections, NEW t \in Tests, RejectStart(why, t)
      PROVE  Boot'
  BY <1>1, TransitionShows, <1>0 DEF RejectStart, CanStart, RejectStatus
<1>2. ASSUME NEW t \in Tests, NEW opened \in BOOLEAN, AcceptStart(t, opened)
      PROVE  Boot'
  BY <1>2, TransitionShows, <1>0 DEF AcceptStart, CanStart, WipeResults
<1>3. CASE StartUpdate \/ FinishUpdate
  BY <1>3 DEF StartUpdate, FinishUpdate
<1>4. ASSUME NEW ok \in BOOLEAN, OnSignatureVerifyDone(ok)
      PROVE  Boot'
  BY <1>4, TransitionShows, <1>0 DEF OnSignatureVerifyDone,
     FailRunWithArchive, LaunchBootAssert
<1>5. ASSUME NEW c \in BOOLEAN, OnCpuDiscoveryDone(c)
      PROVE  Boot'
  BY <1>5, TransitionShows, <1>0 DEF OnCpuDiscoveryDone, FailRunWithArchive,
     LaunchBootAssert
<1>6. ASSUME NEW ok \in BOOLEAN, OnIstBootAssertDone(ok)
      PROVE  Boot'
  BY <1>6, TransitionShows, <1>0 DEF OnIstBootAssertDone, FailRunWithArchive
<1>7. ASSUME NEW ok \in BOOLEAN, NEW cak \in {"absent", "escapes", "inside"},
             OnPowerCycleDone(ok, cak)
      PROVE  Boot'
  BY <1>7, TransitionShows, <1>0 DEF OnPowerCycleDone, StartItmRun,
     RunIstCleanup
<1>8. ASSUME NEW ok \in BOOLEAN, OnCakBypassDone(ok)
      PROVE  Boot'
  BY <1>8, TransitionShows, <1>0 DEF OnCakBypassDone, StartItmRun,
     RunIstCleanup
<1>9. ASSUME NEW e \in ItmExits, OnItmDone(e)
      PROVE  Boot'
  BY <1>9, TransitionShows, <1>0 DEF OnItmDone, RunIstCleanup
<1>10. ASSUME NEW ok \in BOOLEAN, OnDeassertDone(ok)
      PROVE  Boot'
  BY <1>10, TransitionShows, <1>0 DEF OnDeassertDone
<1>11. ASSUME NEW ok \in BOOLEAN, OnArchiveDone(ok)
      PROVE  Boot'
  BY <1>11, TransitionShows, <1>0 DEF OnArchiveDone, FinishArchive,
     ArchivedStatus
<1>12. ASSUME NEW ok \in BOOLEAN, OnResetDone(ok)
      PROVE  Boot'
  BY <1>12, TransitionShows, <1>0 DEF OnResetDone
<1>13. ASSUME NEW p \in 0 .. MaxProgress, OnItmProgress(p)
      PROVE  Boot'
  BY <1>13, TransitionShows, <1>0 DEF OnItmProgress
<1>14. CASE OpenArchive
  BY <1>14 DEF OpenArchive
<1>15. CASE FileSystemFault
  BY <1>15 DEF FileSystemFault
<1>16. CASE HookLands
  BY <1>16 DEF HookLands
<1>17. CASE StartupHookLands \/ StartupHookDone
  BY <1>17 DEF StartupHookLands, StartupHookDone
<1>18. CASE Crash
  BY <1>18 DEF Crash
<1>19. CASE UNCHANGED vars
  BY <1>19 DEF vars
<1>20. QED
  BY <1>1, <1>2, <1>3, <1>4, <1>5, <1>6, <1>7, <1>8, <1>9, <1>10, <1>11,
     <1>12, <1>13, <1>14, <1>15, <1>16, <1>17, <1>18, <1>19
  DEF Next, Method, Completion, Environment

-----------------------------------------------------------------------------
(* Results *)

\* Which run the archive on disk is of, at every step of a run.
LEMMA ResultsStep ==
  TypeOK /\ Control /\ Object /\ Results /\ [Next]_vars
    => Results'
<1> SUFFICES ASSUME TypeOK, Control, Object, Results, [Next]_vars
             PROVE  Results'
  OBVIOUS
<1> USE DEF Results, ArchiveOfTheRun, ServedArchiveIsOfTheRun,
            BeforeCleanup, Object, ObjectOfTheRun, Control,
            StageNamesTheWait, LogClosedBeforeArchive, Await, NoObj,
            NoArchive, Elsewhere, Besides, hardware, bus, waiting, disk, bounds,
            Stages, Statuses
<1>0. /\ obj.run \in Nat /\ runs \in Nat /\ obj \in ObjType
      /\ stage \in Stages /\ status \in Statuses
      /\ progress \in 0 .. MaxProgress /\ 0 \in 0 .. MaxProgress
      /\ archive \in ArchiveType /\ archive.run \in Nat
  BY BoundsAssumption DEF TypeOK, RunType, EnvironmentType, ObjType, DiskType,
     ArchiveType
<1>1. ASSUME NEW why \in Rejections, NEW t \in Tests, RejectStart(why, t)
      PROVE  Results'
  BY <1>1, TransitionShows, <1>0 DEF RejectStart, CanStart, RejectStatus
<1>2. ASSUME NEW t \in Tests, NEW opened \in BOOLEAN, AcceptStart(t, opened)
      PROVE  Results'
  BY <1>2, TransitionShows, <1>0 DEF AcceptStart, CanStart, WipeResults
<1>3. CASE StartUpdate \/ FinishUpdate
  BY <1>3 DEF StartUpdate, FinishUpdate
<1>4. ASSUME NEW ok \in BOOLEAN, OnSignatureVerifyDone(ok)
      PROVE  Results'
  BY <1>4, TransitionShows, <1>0 DEF OnSignatureVerifyDone,
     FailRunWithArchive, LaunchBootAssert
<1>5. ASSUME NEW c \in BOOLEAN, OnCpuDiscoveryDone(c)
      PROVE  Results'
  BY <1>5, TransitionShows, <1>0 DEF OnCpuDiscoveryDone, FailRunWithArchive,
     LaunchBootAssert
<1>6. ASSUME NEW ok \in BOOLEAN, OnIstBootAssertDone(ok)
      PROVE  Results'
  BY <1>6, TransitionShows, <1>0 DEF OnIstBootAssertDone, FailRunWithArchive
<1>7. ASSUME NEW ok \in BOOLEAN, NEW cak \in {"absent", "escapes", "inside"},
             OnPowerCycleDone(ok, cak)
      PROVE  Results'
  BY <1>7, TransitionShows, <1>0 DEF OnPowerCycleDone, StartItmRun,
     RunIstCleanup
<1>8. ASSUME NEW ok \in BOOLEAN, OnCakBypassDone(ok)
      PROVE  Results'
  BY <1>8, TransitionShows, <1>0 DEF OnCakBypassDone, StartItmRun,
     RunIstCleanup
<1>9. ASSUME NEW e \in ItmExits, OnItmDone(e)
      PROVE  Results'
  BY <1>9, TransitionShows, <1>0 DEF OnItmDone, RunIstCleanup
<1>10. ASSUME NEW ok \in BOOLEAN, OnDeassertDone(ok)
      PROVE  Results'
  BY <1>10, TransitionShows, <1>0 DEF OnDeassertDone
<1>11. ASSUME NEW ok \in BOOLEAN, OnArchiveDone(ok)
      PROVE  Results'
  BY <1>11, TransitionShows, <1>0 DEF OnArchiveDone, FinishArchive,
     ArchiveType, ArchivedStatus
<1>12. ASSUME NEW ok \in BOOLEAN, OnResetDone(ok)
      PROVE  Results'
  BY <1>12, TransitionShows, <1>0 DEF OnResetDone
<1>13. ASSUME NEW p \in 0 .. MaxProgress, OnItmProgress(p)
      PROVE  Results'
  BY <1>13, TransitionShows, <1>0 DEF OnItmProgress
<1>14. CASE OpenArchive
  BY <1>14, <1>0 DEF OpenArchive
<1>15. CASE FileSystemFault
  BY <1>15 DEF FileSystemFault
<1>16. CASE HookLands
  BY <1>16 DEF HookLands
<1>17. CASE StartupHookLands \/ StartupHookDone
  BY <1>17 DEF StartupHookLands, StartupHookDone
<1>18. CASE Crash
  BY <1>18 DEF Crash
<1>19. CASE UNCHANGED vars
  BY <1>19 DEF vars
<1>20. QED
  BY <1>1, <1>2, <1>3, <1>4, <1>5, <1>6, <1>7, <1>8, <1>9, <1>10, <1>11,
     <1>12, <1>13, <1>14, <1>15, <1>16, <1>17, <1>18, <1>19
  DEF Next, Method, Completion, Environment

-----------------------------------------------------------------------------
(* Verdict *)

\* A run on its way to Completed has no error line in its log or archive.
LEMMA VerdictStep ==
  TypeOK /\ Control /\ Object /\ Boot /\ Results /\ Verdict /\ [Next]_vars
    => Verdict'
<1> SUFFICES ASSUME TypeOK, Control, Object, Boot, Results, Verdict, [Next]_vars
             PROVE  Verdict'
  OBVIOUS
<1> USE DEF Verdict, NoErrorOnTheWayToPass, PassHasNoErrorLine, Results,
            ArchiveOfTheRun, ServedArchiveIsOfTheRun, BeforeCleanup,
            EmitIstError, Object, ObjectOfTheRun, Control,
            StageNamesTheWait, LogClosedBeforeArchive, Await, NoObj,
            NoArchive, Elsewhere, Besides, hardware, bus, waiting, disk, bounds,
            Stages, Statuses
<1>0. /\ obj.run \in Nat /\ runs \in Nat /\ obj \in ObjType
      /\ stage \in Stages /\ status \in Statuses
      /\ progress \in 0 .. MaxProgress /\ 0 \in 0 .. MaxProgress
      /\ archive \in ArchiveType /\ archive.run \in Nat
  BY BoundsAssumption DEF TypeOK, RunType, EnvironmentType, ObjType, DiskType,
     ArchiveType
<1>1. ASSUME NEW why \in Rejections, NEW t \in Tests, RejectStart(why, t)
      PROVE  Verdict'
  BY <1>1, TransitionShows, <1>0 DEF RejectStart, CanStart, RejectStatus
<1>2. ASSUME NEW t \in Tests, NEW opened \in BOOLEAN, AcceptStart(t, opened)
      PROVE  Verdict'
  BY <1>2, TransitionShows, <1>0 DEF AcceptStart, CanStart, WipeResults
<1>3. CASE StartUpdate \/ FinishUpdate
  BY <1>3 DEF StartUpdate, FinishUpdate
<1>4. ASSUME NEW ok \in BOOLEAN, OnSignatureVerifyDone(ok)
      PROVE  Verdict'
  BY <1>4, TransitionShows, <1>0 DEF OnSignatureVerifyDone,
     FailRunWithArchive, LaunchBootAssert
<1>5. ASSUME NEW c \in BOOLEAN, OnCpuDiscoveryDone(c)
      PROVE  Verdict'
  BY <1>5, TransitionShows, <1>0 DEF OnCpuDiscoveryDone, FailRunWithArchive,
     LaunchBootAssert
<1>6. ASSUME NEW ok \in BOOLEAN, OnIstBootAssertDone(ok)
      PROVE  Verdict'
  BY <1>6, TransitionShows, <1>0 DEF OnIstBootAssertDone, FailRunWithArchive
<1>7. ASSUME NEW ok \in BOOLEAN, NEW cak \in {"absent", "escapes", "inside"},
             OnPowerCycleDone(ok, cak)
      PROVE  Verdict'
  BY <1>7, TransitionShows, <1>0 DEF OnPowerCycleDone, StartItmRun,
     RunIstCleanup
<1>8. ASSUME NEW ok \in BOOLEAN, OnCakBypassDone(ok)
      PROVE  Verdict'
  BY <1>8, TransitionShows, <1>0 DEF OnCakBypassDone, StartItmRun,
     RunIstCleanup
<1>9. ASSUME NEW e \in ItmExits, OnItmDone(e)
      PROVE  Verdict'
  BY <1>9, TransitionShows, <1>0 DEF OnItmDone, RunIstCleanup
<1>10. ASSUME NEW ok \in BOOLEAN, OnDeassertDone(ok)
      PROVE  Verdict'
  BY <1>10, TransitionShows, <1>0 DEF OnDeassertDone
<1>11. ASSUME NEW ok \in BOOLEAN, OnArchiveDone(ok)
      PROVE  Verdict'
  BY <1>11, TransitionShows, <1>0 DEF OnArchiveDone, FinishArchive,
     ArchiveType, ArchivedStatus
<1>12. ASSUME NEW ok \in BOOLEAN, OnResetDone(ok)
      PROVE  Verdict'
  BY <1>12, TransitionShows, <1>0 DEF OnResetDone, Boot,
     StrapFollowsTheHook
<1>13. ASSUME NEW p \in 0 .. MaxProgress, OnItmProgress(p)
      PROVE  Verdict'
  BY <1>13, TransitionShows, <1>0 DEF OnItmProgress
<1>14. CASE OpenArchive
  BY <1>14, <1>0 DEF OpenArchive
<1>15. CASE FileSystemFault
  BY <1>15 DEF FileSystemFault
<1>16. CASE HookLands
  BY <1>16 DEF HookLands
<1>17. CASE StartupHookLands \/ StartupHookDone
  BY <1>17 DEF StartupHookLands, StartupHookDone
<1>18. CASE Crash
  BY <1>18 DEF Crash
<1>19. CASE UNCHANGED vars
  BY <1>19 DEF vars
<1>20. QED
  BY <1>1, <1>2, <1>3, <1>4, <1>5, <1>6, <1>7, <1>8, <1>9, <1>10, <1>11,
     <1>12, <1>13, <1>14, <1>15, <1>16, <1>17, <1>18, <1>19
  DEF Next, Method, Completion, Environment

-----------------------------------------------------------------------------
(* Explanation *)

\* Every way to Failed but the reset leaves an error line in the log.
LEMMA ExplanationStep ==
  TypeOK /\ Control /\ Object /\ Results /\ ErrorIsInTheLog /\ [Next]_vars
    => ErrorIsInTheLog'
<1> SUFFICES ASSUME TypeOK, Control, Object, Results, ErrorIsInTheLog,
                    [Next]_vars
             PROVE  ErrorIsInTheLog'
  OBVIOUS
<1> USE DEF ErrorIsInTheLog, Results, ArchiveOfTheRun, BeforeCleanup,
            EmitIstError, Object, ObjectOfTheRun, Control,
            StageNamesTheWait, LogClosedBeforeArchive, Await,
            CloseServiceLog, NoObj, NoArchive, Elsewhere, Besides, hardware, bus,
            waiting, disk, bounds, Stages, Statuses
<1>0. /\ obj.run \in Nat /\ runs \in Nat /\ obj \in ObjType
      /\ stage \in Stages /\ status \in Statuses
      /\ progress \in 0 .. MaxProgress /\ 0 \in 0 .. MaxProgress
      /\ archive \in ArchiveType /\ archive.run \in Nat
  BY BoundsAssumption DEF TypeOK, RunType, EnvironmentType, ObjType, DiskType,
     ArchiveType
<1>1. ASSUME NEW why \in Rejections, NEW t \in Tests, RejectStart(why, t)
      PROVE  ErrorIsInTheLog'
  BY <1>1, TransitionShows, <1>0 DEF RejectStart, CanStart, RejectStatus
<1>2. ASSUME NEW t \in Tests, NEW opened \in BOOLEAN, AcceptStart(t, opened)
      PROVE  ErrorIsInTheLog'
  BY <1>2, TransitionShows, <1>0 DEF AcceptStart, CanStart, WipeResults
<1>3. CASE StartUpdate \/ FinishUpdate
  BY <1>3 DEF StartUpdate, FinishUpdate
<1>4. ASSUME NEW ok \in BOOLEAN, OnSignatureVerifyDone(ok)
      PROVE  ErrorIsInTheLog'
  BY <1>4, TransitionShows, <1>0 DEF OnSignatureVerifyDone,
     FailRunWithArchive, LaunchBootAssert
<1>5. ASSUME NEW c \in BOOLEAN, OnCpuDiscoveryDone(c)
      PROVE  ErrorIsInTheLog'
  BY <1>5, TransitionShows, <1>0 DEF OnCpuDiscoveryDone, FailRunWithArchive,
     LaunchBootAssert
<1>6. ASSUME NEW ok \in BOOLEAN, OnIstBootAssertDone(ok)
      PROVE  ErrorIsInTheLog'
  BY <1>6, TransitionShows, <1>0 DEF OnIstBootAssertDone, FailRunWithArchive
<1>7. ASSUME NEW ok \in BOOLEAN, NEW cak \in {"absent", "escapes", "inside"},
             OnPowerCycleDone(ok, cak)
      PROVE  ErrorIsInTheLog'
  BY <1>7, TransitionShows, <1>0 DEF OnPowerCycleDone, StartItmRun,
     RunIstCleanup
<1>8. ASSUME NEW ok \in BOOLEAN, OnCakBypassDone(ok)
      PROVE  ErrorIsInTheLog'
  BY <1>8, TransitionShows, <1>0 DEF OnCakBypassDone, StartItmRun,
     RunIstCleanup
<1>9. ASSUME NEW e \in ItmExits, OnItmDone(e)
      PROVE  ErrorIsInTheLog'
  BY <1>9, TransitionShows, <1>0 DEF OnItmDone, RunIstCleanup
<1>10. ASSUME NEW ok \in BOOLEAN, OnDeassertDone(ok)
      PROVE  ErrorIsInTheLog'
  BY <1>10, TransitionShows, <1>0 DEF OnDeassertDone
<1>11. ASSUME NEW ok \in BOOLEAN, OnArchiveDone(ok)
      PROVE  ErrorIsInTheLog'
  BY <1>11, TransitionShows, <1>0 DEF OnArchiveDone, FinishArchive,
     ArchiveType, ArchivedStatus
<1>12. ASSUME NEW ok \in BOOLEAN, OnResetDone(ok)
      PROVE  ErrorIsInTheLog'
  BY <1>12, TransitionShows, <1>0 DEF OnResetDone
<1>13. ASSUME NEW p \in 0 .. MaxProgress, OnItmProgress(p)
      PROVE  ErrorIsInTheLog'
  BY <1>13, TransitionShows, <1>0 DEF OnItmProgress
<1>14. CASE OpenArchive
  BY <1>14, <1>0 DEF OpenArchive
<1>15. CASE FileSystemFault
  BY <1>15 DEF FileSystemFault
<1>16. CASE HookLands
  BY <1>16 DEF HookLands
<1>17. CASE StartupHookLands \/ StartupHookDone
  BY <1>17 DEF StartupHookLands, StartupHookDone
<1>18. CASE Crash
  BY <1>18 DEF Crash
<1>19. CASE UNCHANGED vars
  BY <1>19 DEF vars
<1>20. QED
  BY <1>1, <1>2, <1>3, <1>4, <1>5, <1>6, <1>7, <1>8, <1>9, <1>10, <1>11,
     <1>12, <1>13, <1>14, <1>15, <1>16, <1>17, <1>18, <1>19
  DEF Next, Method, Completion, Environment

-----------------------------------------------------------------------------
(* The invariants of the specification *)

\* The daemon starts with no run, no object, no update and a closed log.
LEMMA SafetyInit == Init => Safety
  BY DEF Init, NoObj, NoArchive, Safety, Control, StageNamesTheWait,
         NoUpdateDuringRun, LogClosedBeforeArchive, Object, ObjectOfTheRun,
         ObjectShowsState, Boot, StrapFollowsTheHook, CompletedMeansReleased,
         Results, ArchiveOfTheRun, ServedArchiveIsOfTheRun, Verdict,
         NoErrorOnTheWayToPass, PassHasNoErrorLine, BeforeCleanup,
         ErrorIsInTheLog

\* The inductive invariant holds in every state of the daemon.
THEOREM SafetyHolds == Spec => []Safety
<1>1. TypeOK /\ Safety /\ [Next]_vars => Safety'
  BY ControlStep, ObjectStep, BootStep, ResultsStep, VerdictStep,
     ExplanationStep DEF Safety
<1>2. QED
  BY SafetyInit, TypeCorrect, <1>1, PTL DEF Spec

\* At every moment the stage names the operation whose answer is awaited: no
\* handler forgets to ask for the next step.
THEOREM StageAlwaysNamesTheWait == Spec => []StageNamesTheWait
<1>1. Safety => StageNamesTheWait
  BY DEF Safety, Control
<1>2. QED
  BY SafetyHolds, <1>1, PTL

\* start_ist and start_update exclude each other to the end of the run.
THEOREM RunExcludesUpdate == Spec => []NoUpdateDuringRun
<1>1. Safety => NoUpdateDuringRun
  BY DEF Safety, Control
<1>2. QED
  BY SafetyHolds, <1>1, PTL

\* Nothing is written to the service log once the archiver may read it.
THEOREM LogIsClosedBeforeArchive == Spec => []LogClosedBeforeArchive
<1>1. Safety => LogClosedBeforeArchive
  BY DEF Safety, Control
<1>2. QED
  BY SafetyHolds, <1>1, PTL

\* A run object past the verification stage always shows the service's state.
THEOREM ObjectAlwaysShowsState == Spec => []ObjectShowsState
<1>1. Safety => ObjectShowsState
  BY DEF Safety, Object
<1>2. QED
  BY SafetyHolds, <1>1, PTL

\* No run is reported Completed with the boot strap asserted.
THEOREM CompletedRunReleased == Spec => []CompletedMeansReleased
<1>1. Safety => CompletedMeansReleased
  BY DEF Safety, Boot
<1>2. QED
  BY SafetyHolds, <1>1, PTL

\* GetResultsFd never serves another run's archive from a working file system.
THEOREM ServedArchiveIsRight == Spec => []ServedArchiveIsOfTheRun
<1>1. Safety => ServedArchiveIsOfTheRun
  BY DEF Safety, Results
<1>2. QED
  BY SafetyHolds, <1>1, PTL

\* The archive of a run that is reported Completed holds no IST_ERROR line.
THEOREM PassHasCleanLog == Spec => []PassHasNoErrorLine
<1>1. Safety => PassHasNoErrorLine
  BY DEF Safety, Verdict
<1>2. QED
  BY SafetyHolds, <1>1, PTL

-----------------------------------------------------------------------------
(* Steps *)

Waits == <<stage, op, updating, crashes>>

\* The answer to an awaited operation asks for the next one.
Advance ==
    \/ op = "verify" /\ op' \in {"discover", "assert", "fail_archive"}
    \/ op = "discover" /\ op' \in {"assert", "fail_archive"}
    \/ op = "assert" /\ op' \in {"power", "fail_archive"}
    \/ op = "power" /\ op' \in {"cak", "itm", "deassert"}
    \/ op = "cak" /\ op' \in {"itm", "deassert"}
    \/ op = "itm" /\ op' = "deassert"
    \/ op = "deassert" /\ op' = "archive"
    \/ op = "archive" /\ op' \in {"reset", "none"}
    \/ op \in {"fail_archive", "reset"} /\ op' = "none"

\* How one step of the daemon moves the operation it waits for.
Moves ==
    \/ UNCHANGED Waits
    \/ /\ op = "none" /\ op' = "verify"
       /\ ~updating /\ updating' = updating
    \/ op = "none" /\ op' = "none" /\ updating' = ~updating /\ stage' = stage
    \/ op = "none" /\ op' = "none" /\ updating' = updating /\ stage' = "idle"
    \/ op' = "none" /\ updating' = FALSE /\ crashes' = crashes + 1
    \/ Advance /\ updating' = updating

\* Every step is one of these moves.
LEMMA StepMoves ==
  TypeOK /\ Control /\ [Next]_vars
    => Moves
<1> SUFFICES ASSUME TypeOK, Control, [Next]_vars
             PROVE  Moves
  OBVIOUS
<1> USE DEF Moves, Waits, Advance, Control, StageNamesTheWait,
            NoUpdateDuringRun, Await, Transition, Elsewhere, Besides, hardware, bus,
            waiting, disk, bounds
<1>1. ASSUME NEW why \in Rejections, NEW t \in Tests, RejectStart(why, t)
      PROVE  Moves
  BY <1>1 DEF RejectStart, CanStart, RejectStatus
<1>2. ASSUME NEW t \in Tests, NEW opened \in BOOLEAN, AcceptStart(t, opened)
      PROVE  Moves
  BY <1>2 DEF AcceptStart, CanStart, WipeResults
<1>3. CASE StartUpdate \/ FinishUpdate
  BY <1>3 DEF StartUpdate, FinishUpdate
<1>4. ASSUME NEW ok \in BOOLEAN, OnSignatureVerifyDone(ok)
      PROVE  Moves
  BY <1>4 DEF OnSignatureVerifyDone, FailRunWithArchive, LaunchBootAssert
<1>5. ASSUME NEW c \in BOOLEAN, OnCpuDiscoveryDone(c)
      PROVE  Moves
  BY <1>5 DEF OnCpuDiscoveryDone, FailRunWithArchive, LaunchBootAssert
<1>6. ASSUME NEW ok \in BOOLEAN, OnIstBootAssertDone(ok)
      PROVE  Moves
  BY <1>6 DEF OnIstBootAssertDone, FailRunWithArchive
<1>7. ASSUME NEW ok \in BOOLEAN, NEW cak \in {"absent", "escapes", "inside"},
             OnPowerCycleDone(ok, cak)
      PROVE  Moves
  BY <1>7 DEF OnPowerCycleDone, StartItmRun, RunIstCleanup
<1>8. ASSUME NEW ok \in BOOLEAN, OnCakBypassDone(ok)
      PROVE  Moves
  BY <1>8 DEF OnCakBypassDone, StartItmRun, RunIstCleanup
<1>9. ASSUME NEW e \in ItmExits, OnItmDone(e)
      PROVE  Moves
  BY <1>9 DEF OnItmDone, RunIstCleanup
<1>10. ASSUME NEW ok \in BOOLEAN, OnDeassertDone(ok)
      PROVE  Moves
  BY <1>10 DEF OnDeassertDone
<1>11. ASSUME NEW ok \in BOOLEAN, OnArchiveDone(ok)
      PROVE  Moves
  BY <1>11 DEF OnArchiveDone, FinishArchive, ArchivedStatus
<1>12. ASSUME NEW ok \in BOOLEAN, OnResetDone(ok)
      PROVE  Moves
  BY <1>12 DEF OnResetDone
<1>13. ASSUME NEW p \in 0 .. MaxProgress, OnItmProgress(p)
      PROVE  Moves
  BY <1>13 DEF OnItmProgress
<1>14. CASE OpenArchive
  BY <1>14 DEF OpenArchive
<1>15. CASE FileSystemFault
  BY <1>15 DEF FileSystemFault
<1>16. CASE HookLands
  BY <1>16 DEF HookLands
<1>17. CASE StartupHookLands \/ StartupHookDone
  BY <1>17 DEF StartupHookLands, StartupHookDone
<1>18. CASE Crash
  BY <1>18 DEF Crash
<1>19. CASE UNCHANGED vars
  BY <1>19 DEF vars
<1>20. QED
  BY <1>1, <1>2, <1>3, <1>4, <1>5, <1>6, <1>7, <1>8, <1>9, <1>10, <1>11,
     <1>12, <1>13, <1>14, <1>15, <1>16, <1>17, <1>18, <1>19
  DEF Next, Method, Completion, Environment

-----------------------------------------------------------------------------
(* Refinement *)

\* The first phase is "ready"; a step of the daemon is a step of the protocol
\* or changes neither the phase nor the update.
THEOREM ImplementsProtocol == Spec => FollowsProtocol
<1>1. Init => Protocol!Init
  BY DEF Init, Protocol!Init, PhaseOf
<1>2. TypeOK /\ Safety /\ [Next]_vars => [Protocol!Next]_(Protocol!vars)
  <2> SUFFICES ASSUME TypeOK, Safety, [Next]_vars
               PROVE  Protocol!Next \/ UNCHANGED Protocol!vars
    OBVIOUS
  <2> USE DEF PhaseOf, Protocol!Move, Protocol!vars
  <2>1. Moves
    BY StepMoves DEF Safety
  <2>2. CASE UNCHANGED Waits
    BY <2>2 DEF Waits
  <2>3. CASE op = "none" /\ op' = "verify" /\ ~updating /\ updating' = updating
    BY <2>3 DEF Protocol!Next, Protocol!Begin
  <2>4. CASE op = "none" /\ op' = "none" /\ updating' = ~updating
    BY <2>4 DEF Protocol!Next, Protocol!Update
  <2>5. CASE op = "none" /\ op' = "none" /\ updating' = updating
    BY <2>5
  <2>6. CASE op' = "none" /\ updating' = FALSE
    BY <2>6 DEF Protocol!Next, Protocol!Restart
  <2>7. CASE Advance /\ updating' = updating
    <3>1. op \in {"verify", "discover", "assert"}
             => Protocol!Next \/ UNCHANGED Protocol!vars
      BY <2>7
      DEF Advance, Protocol!Next, Protocol!Arm, Protocol!Armed,
          Protocol!Refuse
    <3>2. op \in {"power", "cak", "itm"}
             => Protocol!Next \/ UNCHANGED Protocol!vars
      BY <2>7 DEF Advance, Protocol!Next, Protocol!Test, Protocol!Release
    <3>3. op \in {"deassert", "archive", "fail_archive", "reset"}
             => Protocol!Next \/ UNCHANGED Protocol!vars
      BY <2>7 DEF Advance, Protocol!Next, Protocol!Save, Protocol!End
    <3>4. QED
      BY <2>7, <3>1, <3>2, <3>3 DEF Advance
  <2>8. QED
    BY <2>1, <2>2, <2>3, <2>4, <2>5, <2>6, <2>7 DEF Moves
<1>3. QED
  BY <1>1, <1>2, TypeCorrect, SafetyHolds, PTL
  DEF Spec, FollowsProtocol, Protocol!Spec

-----------------------------------------------------------------------------
(* Action properties *)

\* Between a successful assert hook and the deassert hook there is no way out
\* of the run but the death of the process.
THEOREM ArmedRunGoesThroughRelease == Spec => ArmedRunIsReleased
<1>1. /\ TypeOK /\ TypeOK' /\ Safety /\ Safety' /\ [Next]_vars
      /\ stage \in {"pending_power_cycle", "running_ist"}
      /\ stage' \notin {"pending_power_cycle", "running_ist"}
      => op' = "deassert" \/ crashes' # crashes
  BY StepMoves
  DEF Safety, Control, StageNamesTheWait, Moves, Advance, Waits, TypeOK,
      EnvironmentType
<1>2. QED
  BY <1>1, TypeCorrect, SafetyHolds, PTL DEF Spec, ArmedRunIsReleased

\* Only the archiver, the reset hook and a restart lead from cleanup to idle.
LEMMA WaysToIdle ==
  ASSUME TypeOK, Control, [Next]_vars, stage = "cleanup", stage' = "idle"
  PROVE  \/ \E ok \in BOOLEAN : OnArchiveDone(ok) \/ OnResetDone(ok)
         \/ Crash
<1> USE DEF Control, StageNamesTheWait
<1>1. CASE Method
  BY <1>1 DEF Method, RejectStart, AcceptStart, StartUpdate, CanStart, bus
<1>2. CASE Completion
  <2>1. op \in {"deassert", "archive", "fail_archive", "reset"}
    OBVIOUS
  <2>2. ~ \E ok \in BOOLEAN : OnDeassertDone(ok)
    BY DEF OnDeassertDone, bus
  <2>3. QED
    BY <1>2, <2>1, <2>2
    DEF Completion, OnSignatureVerifyDone, OnCpuDiscoveryDone,
        OnIstBootAssertDone, OnPowerCycleDone, OnCakBypassDone, OnItmDone
<1>3. CASE Environment
  BY <1>3
  DEF Environment, OnItmProgress, OpenArchive, FinishUpdate, HookLands,
      StartupHookLands, StartupHookDone, FileSystemFault, bus
<1>4. CASE UNCHANGED vars
  BY <1>4 DEF vars, bus
<1>5. QED
  BY <1>1, <1>2, <1>3, <1>4 DEF Next

\* A Failed run without reboot has an error line in its archived log.
THEOREM FailedRunExplained == Spec => FailureIsExplained
<1>1. /\ TypeOK /\ Safety /\ [Next]_vars
      /\ stage = "cleanup" /\ stage' = "idle" /\ obj'.run > 0
      /\ status' = "failed" /\ ~test.reboot
      /\ archive'.run = runs /\ archive'.whole
      /\ "service_log" \in archive'.files
      => archive'.lines # {}
  <2> SUFFICES ASSUME TypeOK, Safety, [Next]_vars, stage = "cleanup",
                      stage' = "idle", obj'.run > 0, status' = "failed",
                      ~test.reboot, archive'.run = runs,
                      "service_log" \in archive'.files
               PROVE  archive'.lines # {}
    OBVIOUS
  <2>1. CASE \E ok \in BOOLEAN : OnArchiveDone(ok)
    <3>1. archive \in ArchiveType /\ runs \in Nat
      BY DEF TypeOK, DiskType, EnvironmentType
    <3>2. op \in {"archive", "fail_archive"}
      BY <2>1 DEF OnArchiveDone
    <3>3. runs > 0 /\ archive.run <= runs /\ stage' # stage
      BY <3>1, <3>2 DEF Safety, Object, ObjectOfTheRun, Results, ArchiveOfTheRun
    <3>4. archive' = NoArchive \/ archive' = archive
            \/ archive' = [archive EXCEPT !.whole = TRUE]
      BY <2>1 DEF OnArchiveDone, FinishArchive
    <3>5. archive.run = runs /\ archive'.lines = archive.lines
            /\ archive'.files = archive.files
      BY <3>1, <3>3, <3>4 DEF ArchiveType, NoArchive
    <3>6. op = "archive" => exit # 0 \/ ~released
      BY <2>1, <3>3 DEF OnArchiveDone, ArchivedStatus, Transition, bus
    <3>7. QED
      BY <3>2, <3>3, <3>5, <3>6 DEF Safety, ErrorIsInTheLog
  <2>2. CASE \E ok \in BOOLEAN : OnResetDone(ok)
    BY <2>2 DEF OnResetDone, Safety, Boot, StrapFollowsTheHook
  <2>3. CASE Crash
    BY <2>3 DEF Crash, NoObj
  <2>4. QED
    BY <2>1, <2>2, <2>3, WaysToIdle DEF Safety
<1>2. QED
  BY <1>1, TypeCorrect, SafetyHolds, PTL DEF Spec, FailureIsExplained
=============================================================================
