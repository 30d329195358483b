------------------------------ MODULE HostPower ------------------------------
(***************************************************************************)
(* Waiting for the host to be power-cycled: HostPowerMonitorImpl of        *)
(* src/src/host_power_monitor.cpp, between the chassis state service, the  *)
(* D-Bus connection and the ten minute timer.                              *)
(*                                                                         *)
(* Messages of one sender arrive in the order they were sent.  A timer that*)
(* has expired has queued its handler, which no cancel() takes back.       *)
(***************************************************************************)
EXTENDS Integers, Sequences

CONSTANTS
    MaxWaits,    \* bound on calls of async_wait_for_power_cycle
    MaxTurns,    \* bound on changes of the chassis power during one wait
    GetMayFail   \* may the Get call fail?

ASSUME BoundsAssumption ==
    MaxWaits \in Nat /\ MaxTurns \in Nat /\ GetMayFail \in BOOLEAN

VARIABLES
    chassis,   \* CurrentPowerState of chassis0, "On" or "Off"
    inbox,     \* power states on their way to us, in signals and Get replies
    gets,      \* Get calls that the chassis service has not answered yet
    waiting,   \* done_ is set, and match_ with it
    saw_off,
    timer,     \* "off", "armed", or "queued" when it has expired
    result,    \* what the last done_ was called with
    answers,   \* how often done_ was called
    waits,     \* how often a wait was started
    start,     \* the chassis at the start of the last wait ...
    turns      \* ... and how often it has changed since, until the answer

monitor == <<waiting, saw_off, timer, result, answers>>
history == <<waits, start, turns>>

vars == <<chassis, inbox, gets, monitor, history>>

States == {"On", "Off"}

Message(from, state) == [from |-> from, state |-> state]

Init ==
    /\ chassis \in States
    /\ inbox = <<>> /\ gets = 0
    /\ waiting = FALSE /\ saw_off = FALSE /\ timer = "off"
    /\ result = "none" /\ answers = 0
    /\ waits = 0 /\ start = chassis /\ turns = 0

\* Mutant: saw_off_ of the previous wait is kept.
SawOffAtStart == saw_off

SawOffReset == FALSE

\* async_wait_for_power_cycle: the match is installed before the call returns,
\* the Get is only sent.  It is made in a later turn of the event loop than the
\* end of the previous wait, so what that wait left queued has been handled.
StartWait ==
    /\ ~waiting /\ waits < MaxWaits
    /\ timer # "queued" /\ inbox = <<>>
    /\ waiting' = TRUE /\ saw_off' = SawOffReset /\ timer' = "armed"
    /\ gets' = gets + 1
    /\ waits' = waits + 1 /\ start' = chassis /\ turns' = 0
    /\ UNCHANGED <<chassis, inbox, result, answers>>

\* Mutant: done_ is called without looking whether it is still set.
FinishAlways(ok) ==
    /\ waiting' = FALSE
    /\ timer' = IF timer = "armed" THEN "off" ELSE timer
    /\ result' = IF ok THEN "cycled" ELSE "failed"
    /\ answers' = answers + 1

Finish(ok) ==
    IF waiting
    THEN /\ waiting' = FALSE
         /\ timer' = IF timer = "armed" THEN "off" ELSE timer
         /\ result' = IF ok THEN "cycled" ELSE "failed"
         /\ answers' = answers + 1
    ELSE UNCHANGED <<waiting, timer, result, answers>>

\* on_state_changed
OnStateChanged(state) ==
    IF saw_off /\ state = "On"
    THEN /\ Finish(TRUE)
         /\ UNCHANGED saw_off
    ELSE /\ saw_off' = (saw_off \/ state = "Off")
         /\ UNCHANGED <<waiting, timer, result, answers>>

\* Mutant: the signals do not reach the monitor.
RepliesOnly(m) == m.from = "reply"

\* A signal needs the match, a Get reply does not.
Handled(m) == m.from = "signal" => waiting

\* The next message: on_properties_changed, or the continuation of
\* read_current_state, which ignores a failed Get.
Dispatch ==
    /\ inbox # <<>>
    /\ inbox' = Tail(inbox)
    /\ IF Handled(Head(inbox)) THEN OnStateChanged(Head(inbox).state)
       ELSE UNCHANGED monitor
    /\ UNCHANGED <<chassis, gets, history>>

\* The ten minutes are over, and then the handler of the timer runs.
Expire ==
    /\ timer = "armed"
    /\ timer' = "queued"
    /\ UNCHANGED <<chassis, inbox, gets, waiting, saw_off, result, answers,
                   history>>

OnTimer ==
    /\ timer = "queued"
    /\ timer' = "off"
    /\ IF waiting
       THEN waiting' = FALSE /\ result' = "failed" /\ answers' = answers + 1
       ELSE UNCHANGED <<waiting, result, answers>>
    /\ UNCHANGED <<chassis, inbox, gets, saw_off, history>>

\* The chassis is switched; the bus passes the signal on while there is a
\* match.
Switch ==
    /\ turns < MaxTurns
    /\ chassis' = IF chassis = "On" THEN "Off" ELSE "On"
    /\ inbox' = IF waiting THEN Append(inbox, Message("signal", chassis'))
                ELSE inbox
    /\ turns' = IF waiting THEN turns + 1 ELSE turns
    /\ UNCHANGED <<gets, monitor, waits, start>>

\* The chassis service answers a Get, or the call fails.
ServeGet(ok) ==
    /\ gets > 0 /\ (ok \/ GetMayFail)
    /\ gets' = gets - 1
    /\ inbox' = IF ok THEN Append(inbox, Message("reply", chassis)) ELSE inbox
    /\ UNCHANGED <<chassis, monitor, history>>

Next ==
    \/ StartWait \/ Dispatch \/ Expire \/ OnTimer \/ Switch
    \/ \E ok \in BOOLEAN : ServeGet(ok)

\* The event loop runs what is ready, and ten minutes pass.
Spec ==
    /\ Init /\ [][Next]_vars
    /\ WF_vars(Dispatch) /\ WF_vars(Expire) /\ WF_vars(OnTimer)

-----------------------------------------------------------------------------
(* Properties *)

MonitorType ==
    /\ waiting \in BOOLEAN /\ saw_off \in BOOLEAN
    /\ timer \in {"off", "armed", "queued"}
    /\ result \in {"none", "cycled", "failed"}
    /\ answers \in 0 .. MaxWaits

\* Every variable has its type.
TypeOK ==
    /\ chassis \in States
    /\ inbox \in Seq([from : {"signal", "reply"}, state : States])
    /\ gets \in 0 .. MaxWaits
    /\ MonitorType
    /\ waits \in 0 .. MaxWaits /\ start \in States /\ turns \in 0 .. MaxTurns

Promise == INSTANCE OneShot
    WITH asked <- waits, answered <- answers,
         busy <- waiting \/ timer = "armed"

\* async_wait_for_power_cycle keeps the promise of OneShot: each wait ends, is
\* answered once, whatever of the timer, the signals and the replies to this
\* and to earlier Get calls arrives together, and leaves no timer running.
KeepsPromise == Promise!Spec

\* The run only goes on to the test when the chassis was off at some time of
\* this wait and was on after it; no answer left over from an earlier wait
\* stands for either.
SuccessMeansCycle ==
    ~waiting /\ result = "cycled"
      => turns >= IF start = "Off" THEN 1 ELSE 2

\* A cycle that begins and ends after the wait was started ends it, once its
\* signals have been handled.
CycleEndsWait ==
    waiting /\ inbox = <<>>
      => turns < IF start = "Off" THEN 3 ELSE 2
=============================================================================
