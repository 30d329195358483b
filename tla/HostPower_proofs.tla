-------------------------- MODULE HostPower_proofs ---------------------------
(***************************************************************************)
(* The wait for a power cycle, for any number of waits and of changes of   *)
(* the chassis power: it is answered once, and only for a cycle that took  *)
(* place while it waited; a cycle that did ends it.                        *)
(***************************************************************************)
EXTENDS HostPower, SequenceTheorems, TLAPS

-----------------------------------------------------------------------------
(* The inductive invariant *)

\* A wait that is under way is owed one answer, and has a timer; each wait
\* sends one Get.
OneAnswerPerWait ==
    /\ waiting => answers + 1 = waits /\ timer # "off"
    /\ ~waiting => answers = waits /\ timer # "armed"
    /\ gets <= waits

On(i) == i \in 1 .. Len(inbox) /\ inbox[i].state = "On"

Off(i) == i \in 1 .. Len(inbox) /\ inbox[i].state = "Off"

\* Number of changes after which the chassis has been off, has come on.
OffAfter == IF start = "On" THEN 1 ELSE 2

OnAfter == OffAfter + 1

\* During a wait the chassis is where its changes have brought it.
TurnsAreCounted ==
    waiting =>
        /\ turns \in {0, 2} => chassis = start
        /\ turns = 1 => chassis # start

\* Whatever is on its way during a wait was sent during that wait: before the
\* first change it says what the chassis was at its start, and after the first
\* change of one that was on no On comes behind an Off.
NothingIsInvented ==
    waiting =>
        /\ turns = 0 =>
             /\ \A i \in 1 .. Len(inbox) : inbox[i].state = start
             /\ saw_off => start = "Off"
        /\ turns = 1 /\ start = "On" =>
             /\ saw_off => \A i \in 1 .. Len(inbox) : ~On(i)
             /\ \A i, j \in 1 .. Len(inbox) : Off(i) /\ On(j) => j < i

\* A change during a wait has been seen, or is on its way.
NothingIsMissed ==
    waiting =>
        /\ turns >= OffAfter => saw_off \/ \E i \in 1 .. Len(inbox) : Off(i)
        /\ turns >= OnAfter =>
             \E j \in 1 .. Len(inbox) :
                On(j) /\ (saw_off \/ \E i \in 1 .. Len(inbox) : i < j /\ Off(i))

MonitorInvariant ==
    /\ TypeOK /\ OneAnswerPerWait /\ TurnsAreCounted /\ NothingIsInvented
    /\ NothingIsMissed /\ SuccessMeansCycle

-----------------------------------------------------------------------------
(* The steps *)

LEMMA MonitorInitially == Init => MonitorInvariant
<1> SUFFICES ASSUME Init PROVE MonitorInvariant
  OBVIOUS
<1> USE DEF Init
<1>1. 0 \in 0 .. MaxWaits /\ 0 \in 0 .. MaxTurns
  BY BoundsAssumption
<1>2. TypeOK
  <2>1. inbox \in Seq([from : {"signal", "reply"}, state : States])
    OBVIOUS
  <2>2. QED
    BY <1>1, <2>1 DEF TypeOK, MonitorType, States
<1>3. OneAnswerPerWait /\ TurnsAreCounted /\ NothingIsInvented
  BY DEF OneAnswerPerWait, TurnsAreCounted, NothingIsInvented
<1>4. NothingIsMissed /\ SuccessMeansCycle
  BY DEF NothingIsMissed, SuccessMeansCycle
<1>5. QED
  BY <1>2, <1>3, <1>4 DEF MonitorInvariant

LEMMA StartWaitStep ==
  ASSUME MonitorInvariant, StartWait
  PROVE  MonitorInvariant'
<1> USE DEF StartWait, SawOffReset
<1>1. /\ gets \in 0 .. MaxWaits /\ waits \in 0 .. MaxWaits
      /\ answers \in 0 .. MaxWaits /\ answers = waits /\ MaxWaits \in Nat
      /\ chassis \in States /\ gets <= waits
  BY BoundsAssumption DEF MonitorInvariant, TypeOK, MonitorType, OneAnswerPerWait
<1>2. Len(inbox') = 0 /\ inbox' = <<>>
  OBVIOUS
<1>3. OneAnswerPerWait' /\ TurnsAreCounted'
  BY <1>1 DEF OneAnswerPerWait, TurnsAreCounted
<1>4. NothingIsInvented' /\ SuccessMeansCycle'
  BY <1>2 DEF NothingIsInvented, SuccessMeansCycle
<1>5. NothingIsMissed'
  BY <1>2 DEF NothingIsMissed, OffAfter, OnAfter
<1>6. TypeOK'
  <2>1. gets <= waits /\ waits < MaxWaits
    BY DEF MonitorInvariant, OneAnswerPerWait
  <2>2. gets' \in 0 .. MaxWaits /\ waits' \in 0 .. MaxWaits
    BY <1>1, <2>1
  <2>3. 0 \in 0 .. MaxTurns
    BY BoundsAssumption
  <2>4. QED
    BY <1>1, <2>2, <2>3 DEF MonitorInvariant, TypeOK, MonitorType, States
<1>7. QED
  BY <1>3, <1>4, <1>5, <1>6 DEF MonitorInvariant

LEMMA ExpireStep ==
  ASSUME MonitorInvariant, Expire
  PROVE  MonitorInvariant'
<1> USE DEF Expire, history
<1>1. TypeOK' /\ OneAnswerPerWait' /\ TurnsAreCounted'
  BY DEF MonitorInvariant, TypeOK, MonitorType, OneAnswerPerWait,
         TurnsAreCounted
<1>2. NothingIsInvented'
  BY DEF MonitorInvariant, NothingIsInvented, On, Off
<1>3. NothingIsMissed'
  BY DEF MonitorInvariant, NothingIsMissed, On, Off, OffAfter, OnAfter
<1>4. SuccessMeansCycle'
  BY DEF MonitorInvariant, SuccessMeansCycle
<1>5. QED
  BY <1>1, <1>2, <1>3, <1>4 DEF MonitorInvariant

LEMMA OnTimerStep ==
  ASSUME MonitorInvariant, OnTimer
  PROVE  MonitorInvariant'
<1> USE DEF OnTimer, history
<1>1. /\ answers \in 0 .. MaxWaits /\ waits \in 0 .. MaxWaits
      /\ MaxWaits \in Nat /\ waiting \in BOOLEAN
      /\ waiting => answers + 1 = waits
      /\ ~waiting => answers = waits
      /\ gets <= waits
  BY BoundsAssumption DEF MonitorInvariant, TypeOK, MonitorType,
     OneAnswerPerWait
<1>2. /\ waiting' = FALSE /\ answers' = waits
      /\ result' \in {"failed", result}
      /\ result' = "cycled" => ~waiting /\ result = "cycled"
  BY <1>1
<1>3. TypeOK'
  BY <1>1, <1>2 DEF MonitorInvariant, TypeOK, MonitorType
<1>4. OneAnswerPerWait'
  BY <1>1, <1>2 DEF OneAnswerPerWait
<1>5. TurnsAreCounted' /\ NothingIsInvented' /\ NothingIsMissed'
  BY <1>2 DEF TurnsAreCounted, NothingIsInvented, NothingIsMissed
<1>6. SuccessMeansCycle'
  BY <1>2 DEF MonitorInvariant, SuccessMeansCycle
<1>7. QED
  BY <1>3, <1>4, <1>5, <1>6 DEF MonitorInvariant

\* What a message adds to the inbox.
LEMMA AppendedMessage ==
  ASSUME TypeOK, NEW from \in {"signal", "reply"}, NEW state \in States,
         inbox' = Append(inbox, Message(from, state))
  PROVE  /\ inbox' \in Seq([from : {"signal", "reply"}, state : States])
         /\ Len(inbox) \in Nat /\ Len(inbox') = Len(inbox) + 1
         /\ \A i \in 1 .. Len(inbox) : inbox'[i] = inbox[i]
         /\ inbox'[Len(inbox')].state = state
<1>1. inbox \in Seq([from : {"signal", "reply"}, state : States])
  BY DEF TypeOK
<1>2. Message(from, state) \in [from : {"signal", "reply"}, state : States]
  BY DEF Message
<1>3. Message(from, state).state = state
  BY DEF Message
<1>4. QED
  BY <1>1, <1>2, <1>3

LEMMA ServeGetStep ==
  ASSUME MonitorInvariant, NEW ok \in BOOLEAN, ServeGet(ok)
  PROVE  MonitorInvariant'
<1> USE DEF ServeGet, monitor, history
<1>1. /\ TypeOK /\ gets \in 0 .. MaxWaits /\ MaxWaits \in Nat
      /\ waits \in 0 .. MaxWaits /\ gets <= waits /\ gets > 0
      /\ chassis \in States
  BY BoundsAssumption DEF MonitorInvariant, TypeOK, OneAnswerPerWait
<1>2. OneAnswerPerWait' /\ TurnsAreCounted' /\ SuccessMeansCycle'
  BY <1>1 DEF MonitorInvariant, OneAnswerPerWait, TurnsAreCounted,
              SuccessMeansCycle
<1>3. gets' \in 0 .. MaxWaits
  BY <1>1
<1>4. CASE ok
  <2>1. inbox' = Append(inbox, Message("reply", chassis))
    BY <1>4
  <2>2. /\ inbox' \in Seq([from : {"signal", "reply"}, state : States])
        /\ Len(inbox) \in Nat /\ Len(inbox') = Len(inbox) + 1
        /\ \A i \in 1 .. Len(inbox) : inbox'[i] = inbox[i]
        /\ inbox'[Len(inbox')].state = chassis
    BY <1>1, <2>1, AppendedMessage
  <2>3. TypeOK'
    BY <1>1, <1>3, <2>2 DEF TypeOK, MonitorType
  <2>4. NothingIsInvented'
    <3>1. SUFFICES ASSUME waiting PROVE NothingIsInvented'
      BY DEF NothingIsInvented
    <3>2. /\ turns = 0 => chassis = start
          /\ turns = 1 => chassis # start
      BY <3>1 DEF MonitorInvariant, TurnsAreCounted
    <3>3. /\ turns = 0 => \A i \in 1 .. Len(inbox') : inbox'[i].state = start
          /\ turns = 0 /\ saw_off => start = "Off"
      BY <2>2, <3>1, <3>2 DEF MonitorInvariant, NothingIsInvented
    <3>4. ASSUME turns = 1, start = "On"
          PROVE  /\ saw_off => \A i \in 1 .. Len(inbox') : ~On(i)'
                 /\ \A i, j \in 1 .. Len(inbox') : Off(i)' /\ On(j)' => j < i
      <4>1. chassis = "Off"
        BY <1>1, <3>2, <3>4 DEF States
      <4>2. /\ saw_off => \A i \in 1 .. Len(inbox) : ~On(i)
            /\ \A i, j \in 1 .. Len(inbox) : Off(i) /\ On(j) => j < i
        BY <3>1, <3>4 DEF MonitorInvariant, NothingIsInvented
      <4>3. \A i \in 1 .. Len(inbox') : On(i)' => i <= Len(inbox) /\ On(i)
        BY <2>2, <4>1 DEF On
      <4>4. \A i \in 1 .. Len(inbox) : Off(i)' => Off(i)
        BY <2>2 DEF Off
      <4>5. QED
        BY <2>2, <4>2, <4>3, <4>4
    <3>5. QED
      BY <3>3, <3>4 DEF NothingIsInvented
  <2>5. NothingIsMissed'
    <3>1. \A i \in 1 .. Len(inbox) :
             i \in 1 .. Len(inbox') /\ (On(i) => On(i)') /\ (Off(i) => Off(i)')
      BY <2>2 DEF On, Off
    <3>2. QED
      BY <3>1 DEF MonitorInvariant, NothingIsMissed, OffAfter, OnAfter
  <2>6. QED
    BY <1>2, <2>3, <2>4, <2>5 DEF MonitorInvariant
<1>5. CASE ~ok
  <2>1. inbox' = inbox
    BY <1>5
  <2>2. TypeOK'
    BY <1>1, <1>3, <2>1 DEF TypeOK, MonitorType
  <2>3. NothingIsInvented'
    BY <2>1 DEF MonitorInvariant, NothingIsInvented, On, Off
  <2>4. NothingIsMissed'
    BY <2>1 DEF MonitorInvariant, NothingIsMissed, On, Off, OffAfter, OnAfter
  <2>5. QED
    BY <1>2, <2>2, <2>3, <2>4 DEF MonitorInvariant
<1>6. QED
  BY <1>4, <1>5

LEMMA SwitchStep ==
  ASSUME MonitorInvariant, Switch
  PROVE  MonitorInvariant'
<1> USE DEF Switch, monitor
<1>1. /\ TypeOK /\ chassis \in States /\ chassis' \in States
      /\ chassis' # chassis /\ start \in States
      /\ turns \in 0 .. MaxTurns /\ MaxTurns \in Nat /\ turns < MaxTurns
      /\ turns' \in 0 .. MaxTurns
  BY BoundsAssumption DEF MonitorInvariant, TypeOK, States
<1>2. OneAnswerPerWait'
  BY DEF MonitorInvariant, OneAnswerPerWait
<1>3. SuccessMeansCycle'
  BY <1>1 DEF MonitorInvariant, SuccessMeansCycle
<1>4. CASE waiting
  <2>1. /\ inbox' = Append(inbox, Message("signal", chassis'))
        /\ turns' = turns + 1
    BY <1>4
  <2>2. /\ inbox' \in Seq([from : {"signal", "reply"}, state : States])
        /\ Len(inbox) \in Nat /\ Len(inbox') = Len(inbox) + 1
        /\ \A i \in 1 .. Len(inbox) : inbox'[i] = inbox[i]
        /\ inbox'[Len(inbox')].state = chassis'
    BY <1>1, <2>1, AppendedMessage
  <2>3. TypeOK'
    BY <1>1, <2>2 DEF TypeOK, MonitorType
  <2>4. /\ turns \in {0, 2} => chassis = start
        /\ turns = 1 => chassis # start
    BY <1>4 DEF MonitorInvariant, TurnsAreCounted
  <2>5. TurnsAreCounted'
    BY <1>1, <2>1, <2>4 DEF TurnsAreCounted, States
  <2>6. NothingIsInvented'
    <3>1. turns' # 0
      BY <1>1, <2>1
    <3>2. ASSUME turns' = 1, start = "On"
          PROVE  /\ ~saw_off
                 /\ \A i, j \in 1 .. Len(inbox') : Off(i)' /\ On(j)' => j < i
      <4>1. turns = 0 /\ chassis' = "Off"
        BY <1>1, <2>1, <2>4, <3>2 DEF States
      <4>2. ~saw_off /\ \A i \in 1 .. Len(inbox) : inbox[i].state = "On"
        BY <1>4, <3>2, <4>1 DEF MonitorInvariant, NothingIsInvented
      <4>3. \A i \in 1 .. Len(inbox') : On(i)' => i <= Len(inbox)
        BY <2>2, <4>1 DEF On
      <4>4. \A i \in 1 .. Len(inbox') : Off(i)' => i = Len(inbox')
        BY <2>2, <4>2 DEF Off
      <4>5. QED
        BY <2>2, <4>2, <4>3, <4>4
    <3>3. QED
      BY <3>1, <3>2 DEF NothingIsInvented
  <2>7. NothingIsMissed'
    <3>1. \A i \in 1 .. Len(inbox) :
             i \in 1 .. Len(inbox') /\ (On(i) => On(i)') /\ (Off(i) => Off(i)')
      BY <2>2 DEF On, Off
    <3> PICK last \in Nat : last = Len(inbox')
      BY <2>2
    <3>2. /\ last \in 1 .. Len(inbox')
          /\ chassis' = "On" => On(last)'
          /\ chassis' = "Off" => Off(last)'
      BY <2>2 DEF On, Off
    <3>3. ASSUME turns' >= OffAfter
          PROVE  saw_off \/ \E i \in 1 .. Len(inbox') : Off(i)'
      <4>1. CASE turns >= OffAfter
        BY <1>4, <3>1, <4>1 DEF MonitorInvariant, NothingIsMissed
      <4>2. CASE ~(turns >= OffAfter)
        <5>1. chassis' = "Off"
          BY <1>1, <2>1, <2>4, <3>3, <4>2 DEF OffAfter, States
        <5>2. QED
          BY <3>2, <5>1
      <4>3. QED
        BY <4>1, <4>2
    <3>4. ASSUME turns' >= OnAfter
          PROVE  \E j \in 1 .. Len(inbox') :
                    /\ On(j)'
                    /\ saw_off \/ \E i \in 1 .. Len(inbox') : i < j /\ Off(i)'
      <4>1. CASE turns >= OnAfter
        BY <1>4, <3>1, <4>1 DEF MonitorInvariant, NothingIsMissed
      <4>2. CASE ~(turns >= OnAfter)
        <5>1. chassis' = "On" /\ turns >= OffAfter
          BY <1>1, <2>1, <2>4, <3>4, <4>2 DEF OffAfter, OnAfter, States
        <5>2. saw_off \/ \E i \in 1 .. Len(inbox) : Off(i)
          BY <1>4, <5>1 DEF MonitorInvariant, NothingIsMissed
        <5>3. saw_off \/ \E i \in 1 .. Len(inbox') : i < last /\ Off(i)'
          BY <2>2, <3>1, <5>2
        <5>4. QED
          BY <3>2, <5>1, <5>3
      <4>3. QED
        BY <4>1, <4>2
    <3>5. OffAfter' = OffAfter /\ OnAfter' = OnAfter
      BY DEF OffAfter, OnAfter
    <3>6. QED
      BY <3>3, <3>4, <3>5 DEF NothingIsMissed
  <2>8. QED
    BY <1>2, <1>3, <2>3, <2>5, <2>6, <2>7 DEF MonitorInvariant
<1>5. CASE ~waiting
  <2>1. inbox' = inbox /\ turns' = turns
    BY <1>5
  <2>2. TypeOK'
    BY <1>1, <2>1 DEF TypeOK, MonitorType
  <2>3. TurnsAreCounted' /\ NothingIsInvented' /\ NothingIsMissed'
    BY <1>5 DEF TurnsAreCounted, NothingIsInvented, NothingIsMissed
  <2>4. QED
    BY <1>2, <1>3, <2>2, <2>3 DEF MonitorInvariant
<1>6. QED
  BY <1>4, <1>5

\* What taking the first message leaves in the inbox.
LEMMA FirstMessageTaken ==
  ASSUME TypeOK, inbox # <<>>, inbox' = Tail(inbox)
  PROVE  /\ inbox' \in Seq([from : {"signal", "reply"}, state : States])
         /\ Len(inbox) \in Nat \ {0} /\ Len(inbox') = Len(inbox) - 1
         /\ \A i \in 1 .. Len(inbox') : inbox'[i] = inbox[i + 1]
         /\ Head(inbox) = inbox[1]
         /\ inbox[1] \in [from : {"signal", "reply"}, state : States]
<1>1. inbox \in Seq([from : {"signal", "reply"}, state : States])
  BY DEF TypeOK
<1>2. /\ Tail(inbox) \in Seq([from : {"signal", "reply"}, state : States])
      /\ Len(Tail(inbox)) = Len(inbox) - 1
      /\ \A i \in 1 .. Len(Tail(inbox)) : Tail(inbox)[i] = inbox[i + 1]
      /\ Head(inbox) \in [from : {"signal", "reply"}, state : States]
  BY <1>1, HeadTailProperties
<1>3. Len(inbox) \in Nat \ {0} /\ Head(inbox) = inbox[1]
  BY <1>1
<1>4. inbox[1] \in [from : {"signal", "reply"}, state : States]
  BY <1>2, <1>3
<1>5. QED
  BY <1>2, <1>3, <1>4

LEMMA DispatchStep ==
  ASSUME MonitorInvariant, Dispatch
  PROVE  MonitorInvariant'
<1> USE DEF Dispatch, history
<1> DEFINE state == inbox[1].state
<1>1. /\ inbox' \in Seq([from : {"signal", "reply"}, state : States])
      /\ Len(inbox) \in Nat \ {0} /\ Len(inbox') = Len(inbox) - 1
      /\ \A i \in 1 .. Len(inbox') : inbox'[i] = inbox[i + 1]
      /\ Head(inbox) = inbox[1] /\ state \in States
  BY FirstMessageTaken DEF MonitorInvariant
<1>2. /\ TypeOK /\ waiting \in BOOLEAN /\ saw_off \in BOOLEAN
      /\ answers \in 0 .. MaxWaits /\ waits \in 0 .. MaxWaits
      /\ MaxWaits \in Nat /\ gets <= waits
      /\ turns \in 0 .. MaxTurns /\ MaxTurns \in Nat /\ start \in States
      /\ timer \in {"off", "armed", "queued"}
  BY BoundsAssumption DEF MonitorInvariant, TypeOK, MonitorType,
     OneAnswerPerWait
<1>3. \A i \in 1 .. Len(inbox') :
         /\ i + 1 \in 1 .. Len(inbox)
         /\ (On(i)' <=> On(i + 1)) /\ (Off(i)' <=> Off(i + 1))
  BY <1>1 DEF On, Off
<1>4. CASE ~waiting
  <2>1. /\ UNCHANGED <<waiting, timer, result, answers>>
        /\ saw_off' \in BOOLEAN
    BY <1>1, <1>2, <1>4 DEF OnStateChanged, Finish, monitor
  <2>2. TypeOK' /\ OneAnswerPerWait'
    BY <1>1, <1>2, <2>1 DEF MonitorInvariant, TypeOK, MonitorType,
                            OneAnswerPerWait
  <2>3. TurnsAreCounted' /\ NothingIsInvented' /\ NothingIsMissed'
    BY <1>4, <2>1 DEF TurnsAreCounted, NothingIsInvented, NothingIsMissed
  <2>4. SuccessMeansCycle'
    BY <2>1 DEF MonitorInvariant, SuccessMeansCycle
  <2>5. QED
    BY <2>2, <2>3, <2>4 DEF MonitorInvariant
<1>5. CASE waiting /\ saw_off /\ state = "On"
  <2>1. /\ waiting' = FALSE /\ result' = "cycled" /\ answers' = answers + 1
        /\ timer' = IF timer = "armed" THEN "off" ELSE timer
        /\ UNCHANGED saw_off
    BY <1>1, <1>5 DEF OnStateChanged, Finish, Handled
  <2>2. answers + 1 = waits
    BY <1>5 DEF MonitorInvariant, OneAnswerPerWait
  <2>3. TypeOK' /\ OneAnswerPerWait'
    BY <1>1, <1>2, <2>1, <2>2 DEF TypeOK, MonitorType, OneAnswerPerWait
  <2>4. turns # 0
    BY <1>1, <1>5 DEF MonitorInvariant, NothingIsInvented
  <2>5. ~(turns = 1 /\ start = "On")
    <3>1. 1 \in 1 .. Len(inbox) /\ On(1)
      BY <1>1, <1>5 DEF On
    <3>2. QED
      BY <1>5, <3>1 DEF MonitorInvariant, NothingIsInvented
  <2>6. SuccessMeansCycle'
    BY <1>2, <2>1, <2>4, <2>5 DEF SuccessMeansCycle, States
  <2>7. TurnsAreCounted' /\ NothingIsInvented' /\ NothingIsMissed'
    BY <2>1 DEF TurnsAreCounted, NothingIsInvented, NothingIsMissed
  <2>8. QED
    BY <2>3, <2>6, <2>7 DEF MonitorInvariant
<1>6. CASE waiting /\ ~(saw_off /\ state = "On")
  <2>1. /\ UNCHANGED <<waiting, timer, result, answers>>
        /\ saw_off' = (saw_off \/ state = "Off")
    BY <1>1, <1>6 DEF OnStateChanged, Handled
  <2>2. TypeOK' /\ OneAnswerPerWait'
    BY <1>1, <1>2, <2>1 DEF MonitorInvariant, TypeOK, MonitorType,
                            OneAnswerPerWait
  <2>3. TurnsAreCounted' /\ SuccessMeansCycle'
    BY <2>1 DEF MonitorInvariant, TurnsAreCounted, SuccessMeansCycle
  <2>4. 1 \in 1 .. Len(inbox) /\ (On(1) <=> state = "On")
        /\ (Off(1) <=> state = "Off")
    BY <1>1 DEF On, Off
  <2>5. NothingIsInvented'
    <3>1. ASSUME turns = 0
          PROVE  /\ \A i \in 1 .. Len(inbox') : inbox'[i].state = start
                 /\ saw_off' => start = "Off"
      BY <1>1, <1>3, <1>6, <2>1, <2>4, <3>1 DEF MonitorInvariant,
                                                NothingIsInvented
    <3>2. ASSUME turns = 1, start = "On"
          PROVE  /\ saw_off' => \A i \in 1 .. Len(inbox') : ~On(i)'
                 /\ \A i, j \in 1 .. Len(inbox') : Off(i)' /\ On(j)' => j < i
      <4>1. /\ saw_off => \A i \in 1 .. Len(inbox) : ~On(i)
            /\ \A i, j \in 1 .. Len(inbox) : Off(i) /\ On(j) => j < i
        BY <1>6, <3>2 DEF MonitorInvariant, NothingIsInvented
      <4>2. \A i, j \in 1 .. Len(inbox') : Off(i)' /\ On(j)' => j < i
        BY <1>1, <1>3, <4>1
      <4>3. ASSUME saw_off', NEW i \in 1 .. Len(inbox'), On(i)'
            PROVE  FALSE
        <5>1. CASE saw_off
          BY <1>3, <4>1, <4>3, <5>1
        <5>2. CASE ~saw_off
          <6>1. Off(1) /\ On(i + 1) /\ i + 1 \in 1 .. Len(inbox)
            BY <1>3, <2>1, <2>4, <4>3, <5>2
          <6>2. i + 1 < 1
            BY <2>4, <4>1, <6>1
          <6>3. QED
            BY <6>2
        <5>3. QED
          BY <5>1, <5>2
      <4>4. QED
        BY <4>2, <4>3
    <3>3. QED
      BY <3>1, <3>2 DEF NothingIsInvented
  <2>6. NothingIsMissed'
    <3>1. \A i \in 1 .. Len(inbox) :
             i # 1 => i - 1 \in 1 .. Len(inbox')
                      /\ (On(i) => On(i - 1)') /\ (Off(i) => Off(i - 1)')
      BY <1>1 DEF On, Off
    <3>2. ASSUME turns >= OffAfter
          PROVE  saw_off' \/ \E i \in 1 .. Len(inbox') : Off(i)'
      <4>1. saw_off \/ \E i \in 1 .. Len(inbox) : Off(i)
        BY <1>6, <3>2 DEF MonitorInvariant, NothingIsMissed
      <4>2. QED
        BY <2>1, <2>4, <3>1, <4>1
    <3>3. ASSUME turns >= OnAfter
          PROVE  \E j \in 1 .. Len(inbox') :
                    /\ On(j)'
                    /\ saw_off' \/ \E i \in 1 .. Len(inbox') : i < j /\ Off(i)'
      <4>1. PICK j \in 1 .. Len(inbox) :
               On(j) /\ (saw_off \/ \E i \in 1 .. Len(inbox) : i < j /\ Off(i))
        BY <1>6, <3>3 DEF MonitorInvariant, NothingIsMissed
      <4>2. j # 1
        <5>1. ASSUME j = 1 PROVE FALSE
          <6>1. state = "On" /\ ~saw_off
            BY <1>6, <2>4, <4>1, <5>1
          <6>2. PICK i \in 1 .. Len(inbox) : i < j
            BY <4>1, <6>1
          <6>3. QED
            BY <5>1, <6>2
        <5>2. QED
          BY <5>1
      <4>3. j - 1 \in 1 .. Len(inbox') /\ On(j - 1)'
        BY <3>1, <4>1, <4>2
      <4>4. saw_off' \/ \E i \in 1 .. Len(inbox') : i < j - 1 /\ Off(i)'
        <5>1. CASE saw_off
          BY <2>1, <5>1
        <5>2. CASE ~saw_off
          <6>1. PICK i \in 1 .. Len(inbox) : i < j /\ Off(i)
            BY <4>1, <5>2
          <6>2. CASE i = 1
            BY <2>1, <2>4, <6>1, <6>2
          <6>3. CASE i # 1
            <7>1. i - 1 \in 1 .. Len(inbox') /\ Off(i - 1)' /\ i - 1 < j - 1
              BY <3>1, <6>1, <6>3
            <7>2. QED
              BY <7>1
          <6>4. QED
            BY <6>2, <6>3
        <5>3. QED
          BY <5>1, <5>2
      <4>5. QED
        BY <4>3, <4>4
    <3>4. OffAfter' = OffAfter /\ OnAfter' = OnAfter
      BY DEF OffAfter, OnAfter
    <3>5. QED
      BY <3>2, <3>3, <3>4 DEF NothingIsMissed
  <2>7. QED
    BY <2>2, <2>3, <2>5, <2>6 DEF MonitorInvariant
<1>7. QED
  BY <1>2, <1>4, <1>5, <1>6

-----------------------------------------------------------------------------
(* The theorems *)

LEMMA MonitorStep ==
  ASSUME MonitorInvariant, [Next]_vars
  PROVE  MonitorInvariant'
<1>1. CASE Next
  BY <1>1, StartWaitStep, DispatchStep, ExpireStep, OnTimerStep, SwitchStep,
     ServeGetStep DEF Next
<1>2. CASE UNCHANGED vars
  <2> USE <1>2 DEF vars, monitor, history
  <2>1. TypeOK' /\ OneAnswerPerWait' /\ TurnsAreCounted' /\ SuccessMeansCycle'
    BY DEF MonitorInvariant, TypeOK, MonitorType, OneAnswerPerWait,
           TurnsAreCounted, SuccessMeansCycle
  <2>2. NothingIsInvented'
    BY DEF MonitorInvariant, NothingIsInvented, On, Off
  <2>3. NothingIsMissed'
    BY DEF MonitorInvariant, NothingIsMissed, On, Off, OffAfter, OnAfter
  <2>4. QED
    BY <2>1, <2>2, <2>3 DEF MonitorInvariant
<1>3. QED
  BY <1>1, <1>2

\* What the monitor knows of the chassis is right in every reachable state.
THEOREM MonitorIsConsistent == Spec => []MonitorInvariant
<1>1. Init => MonitorInvariant
  BY MonitorInitially
<1>2. MonitorInvariant /\ [Next]_vars => MonitorInvariant'
  BY MonitorStep
<1>3. QED
  BY <1>1, <1>2, PTL DEF Spec

\* A wait that on_state_changed ends as cycled saw the chassis off and then on
\* while it lasted, whatever signals and Get replies crossed.
THEOREM CycledIsGenuine == Spec => []SuccessMeansCycle
<1>1. MonitorInvariant => SuccessMeansCycle
  BY DEF MonitorInvariant
<1>2. QED
  BY <1>1, MonitorIsConsistent, PTL

\* A cycle that takes place during the wait is not missed by on_state_changed
\* once its signals have been handled.
THEOREM CycleIsSeen == Spec => []CycleEndsWait
<1>1. MonitorInvariant => CycleEndsWait
  <2> SUFFICES ASSUME MonitorInvariant, waiting, inbox = <<>>
               PROVE  turns < IF start = "Off" THEN 3 ELSE 2
    BY DEF CycleEndsWait
  <2>1. turns \in Nat /\ start \in States
    BY BoundsAssumption DEF MonitorInvariant, TypeOK
  <2>2. Len(inbox) = 0
    OBVIOUS
  <2>3. ~(turns >= OnAfter)
    BY <2>2 DEF MonitorInvariant, NothingIsMissed
  <2>4. QED
    BY <2>1, <2>3 DEF OnAfter, OffAfter, States
<1>2. QED
  BY <1>1, MonitorIsConsistent, PTL

\* Each step of the monitor is a step of OneShot: done_ is called once for each
\* wait, by the timer or by the last signal, and leaves no timer running.
THEOREM WaitIsAnsweredOnce ==
  Spec => Promise!Init /\ [][Promise!Next]_(Promise!vars)
<1>1. Init => Promise!Init
  BY DEF Init, Promise!Init
<1>2. MonitorInvariant /\ MonitorInvariant' /\ [Next]_vars
        => [Promise!Next]_(Promise!vars)
  <2> SUFFICES ASSUME MonitorInvariant, MonitorInvariant', [Next]_vars
               PROVE  [Promise!Next]_(Promise!vars)
    OBVIOUS
  <2>1. /\ answers \in Nat /\ waits \in Nat
        /\ waiting \in BOOLEAN /\ waiting' \in BOOLEAN
        /\ waiting => answers + 1 = waits
        /\ ~waiting => answers = waits /\ timer # "armed"
        /\ waiting' => answers' + 1 = waits'
        /\ ~waiting' => answers' = waits' /\ timer' # "armed"
    <3>1. answers \in Nat /\ waits \in Nat /\ waiting \in BOOLEAN
      BY BoundsAssumption DEF MonitorInvariant, TypeOK, MonitorType
    <3>2. waiting' \in BOOLEAN
      BY DEF MonitorInvariant, TypeOK, MonitorType
    <3>3. QED
      BY <3>1, <3>2 DEF MonitorInvariant, OneAnswerPerWait
  <2>2. \/ waits' = waits
        \/ waits' = waits + 1 /\ answers' = answers /\ ~waiting /\ waiting'
    BY DEF Next, StartWait, Dispatch, Expire, OnTimer, Switch, ServeGet, vars,
           history
  <2>3. \/ answers' = answers
        \/ answers' = answers + 1 /\ waiting /\ ~waiting'
    BY DEF Next, StartWait, Dispatch, OnStateChanged, Finish, Expire, OnTimer,
           Switch, ServeGet, vars, monitor
  <2>4. CASE waits' # waits
    BY <2>1, <2>2, <2>4 DEF Promise!Next, Promise!Ask
  <2>5. CASE waits' = waits /\ answers' # answers
    BY <2>1, <2>3, <2>5 DEF Promise!Next, Promise!Answer
  <2>6. CASE waits' = waits /\ answers' = answers /\ waiting
    BY <2>1, <2>6 DEF Promise!Next, Promise!Work
  <2>7. CASE waits' = waits /\ answers' = answers /\ ~waiting
    <3>1. ~waiting' /\ timer # "armed" /\ timer' # "armed"
      BY <2>1, <2>7
    <3>2. (waiting' \/ timer' = "armed") = (waiting \/ timer = "armed")
      BY <2>7, <3>1
    <3>3. QED
      BY <2>7, <3>2 DEF Promise!vars
  <2>8. QED
    BY <2>1, <2>4, <2>5, <2>6, <2>7
<1>3. QED
  BY <1>1, <1>2, MonitorIsConsistent, PTL DEF Spec
=============================================================================
