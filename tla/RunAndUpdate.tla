---------------------------- MODULE RunAndUpdate ----------------------------
(***************************************************************************)
(* Runs and updates in one daemon: the vector store (VectorManager) beside *)
(* the run, which is taken at the level of RunProtocol, the specification  *)
(* that IstService implements.  They share the io_context, the mounted     *)
(* image and two guards: start_ist refuses while update_in_progress_,      *)
(* IstService::start_update refuses outside idle.                          *)
(***************************************************************************)
EXTENDS VectorManager

VARIABLES
    phase,     \* where the run is (RunProtocol)
    checked    \* what was mounted when the signature check began

Run == INSTANCE RunProtocol

allVars == <<vars, phase, checked>>

ComposedInit == Init /\ Run!Init /\ checked = NotMounted

\* Mutant: start_update looks at its own lock alone.
CanUpdateAnytime == TRUE

\* IstService::start_update
CanUpdate == phase = "ready"

RequestUpdate(u) ==
    /\ CanUpdate
    /\ StartUpdate(u)
    /\ UNCHANGED <<phase, checked>>

\* What start_ist mounts before anything else; it may be refused afterwards.
MountForRun ==
    IF mounted.golden THEN UNCHANGED vars ELSE EnsureMounted

\* Mutant: start_ist looks at the stage alone.
CanStartAnytime == phase = "ready"

\* The two EBUSY guards of start_ist.
CanStart == phase = "ready" /\ ~updating

RefusedRun ==
    /\ CanStart
    /\ EnsureMounted
    /\ UNCHANGED <<phase, checked>>

\* collateral_verification finds the mounted files, and the signature check of
\* on_signature_verify_done starts on them.
BeginRun ==
    /\ CanStart
    /\ MountForRun
    /\ mounted'.golden
    /\ phase' = "checking"
    /\ checked' = mounted'

\* The rest of the run does not touch the store.
RunStep ==
    /\ \/ Run!Arm \/ Run!Armed \/ Run!Test \/ Run!Release \/ Run!Refuse
       \/ Run!Save \/ Run!End
    /\ UNCHANGED <<vars, checked>>

\* The handlers of an update, while a run may be under way.
UpdateStep ==
    /\ SessionStep
    /\ UNCHANGED <<phase, checked>>

StoreStep ==
    /\ ProgressTick \/ StorageFault
    /\ UNCHANGED <<phase, checked>>

RestartAll ==
    /\ \E reboot \in BOOLEAN : Restart(reboot)
    /\ phase' = "ready"
    /\ checked' = NotMounted

ComposedNext ==
    \/ \E u \in Uploads : RequestUpdate(u)
    \/ RefusedRun
    \/ BeginRun
    \/ RunStep
    \/ UpdateStep
    \/ StoreStep
    \/ RestartAll

ComposedSpec ==
    ComposedInit /\ [][ComposedNext]_allVars /\ WF_allVars(UpdateStep)

-----------------------------------------------------------------------------
(* Properties *)

\* From the signature check to the end of the run the test vectors that are
\* mounted, and that kist_itm is launched from, are those that were checked.
TestedIsChecked == phase # "ready" => mounted = checked

\* The composition still follows the run protocol.
RunFollowsProtocol == Run!Spec
=============================================================================
