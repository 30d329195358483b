---------------------------- MODULE RunProtocol ----------------------------
(***************************************************************************)
(* What the daemon promises the board: the order in which one run may      *)
(* touch it, whatever fails on the way.  The boot strap is only asserted   *)
(* after the collateral has been checked, kist_itm only runs after the     *)
(* strap has been asserted and the host power-cycled, a run that got that  *)
(* far always goes through the release of the strap, and neither a second  *)
(* run nor an update of the test vectors begins before the first is over.  *)
(* IstService implements it (IstServiceRefinement.tla).                    *)
(***************************************************************************)

VARIABLES
    phase,     \* where the run is
    updating   \* are the test vectors being replaced?

vars == <<phase, updating>>

Phases == {"ready", "checking", "arming", "armed", "testing", "releasing",
           "saving"}

Init == phase = "ready" /\ updating = FALSE

Move(from, to) ==
    /\ phase \in from
    /\ phase' = to
    /\ UNCHANGED updating

Begin   == ~updating /\ Move({"ready"}, "checking")
Arm     == Move({"checking"}, "arming")
Armed   == Move({"arming"}, "armed")
Test    == Move({"armed"}, "testing")
Release == Move({"armed", "testing"}, "releasing")
Refuse  == Move({"checking", "arming"}, "saving")
Save    == Move({"releasing"}, "saving")
End     == Move({"saving"}, "ready")

Update  == /\ phase = "ready"
           /\ updating' = ~updating
           /\ UNCHANGED phase

Restart == phase' = "ready" /\ updating' = FALSE

Next == \/ Begin \/ Arm \/ Armed \/ Test \/ Release \/ Refuse \/ Save \/ End
        \/ Update \/ Restart

Spec == Init /\ [][Next]_vars
=============================================================================
