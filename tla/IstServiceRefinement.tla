------------------------ MODULE IstServiceRefinement ------------------------
(***************************************************************************)
(* IstService implements RunProtocol: the operation a run waits for says   *)
(* which phase of the protocol it is in.                                   *)
(***************************************************************************)
EXTENDS IstService

PhaseOf(o) ==
    IF o = "none" THEN "ready"
    ELSE IF o \in {"verify", "discover"} THEN "checking"
    ELSE IF o = "assert" THEN "arming"
    ELSE IF o = "power" THEN "armed"
    ELSE IF o \in {"cak", "itm"} THEN "testing"
    ELSE IF o = "deassert" THEN "releasing"
    ELSE "saving"

Protocol == INSTANCE RunProtocol WITH phase <- PhaseOf(op)

\* Every behaviour of the daemon follows the run protocol.
FollowsProtocol == Protocol!Spec
=============================================================================
