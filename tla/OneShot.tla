------------------------------ MODULE OneShot ------------------------------
(***************************************************************************)
(* What every asynchronous helper of the daemon promises its caller: it is *)
(* asked, does its work, and calls back once, when nothing of that work is *)
(* left running.  IstService relies on it: the answer is its next step, an *)
(* answer that never comes would leave it refusing runs and updates, and a *)
(* second one would be taken for the answer to a later question.           *)
(***************************************************************************)
EXTENDS Integers

VARIABLES
    asked,      \* how often the helper was asked
    answered,   \* how often its callback was called
    busy        \* is anything of it still running?

vars == <<asked, answered, busy>>

Init == asked \in {0, 1} /\ answered = 0 /\ busy = (asked = 1)

Ask ==
    /\ asked = answered
    /\ asked' = asked + 1
    /\ UNCHANGED answered

Work ==
    /\ answered < asked
    /\ UNCHANGED <<asked, answered>>

Answer ==
    /\ answered < asked
    /\ answered' = answered + 1
    /\ ~busy'
    /\ UNCHANGED asked

\* A helper that cannot begin answers before the call returns.
Refuse ==
    /\ asked = answered
    /\ asked' = asked + 1 /\ answered' = answered + 1
    /\ ~busy'

Next == Ask \/ Work \/ Answer \/ Refuse

Spec == Init /\ [][Next]_vars /\ []<>(asked = answered)
=============================================================================
