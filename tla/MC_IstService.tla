--------------------------- MODULE MC_IstService ---------------------------
(* TLC instance of IstService, and the claims of the repository's comments  *)
(* that its runs look into.                                                 *)
EXTENDS IstServiceRefinement

\* "An external tool parses this line out of IST_service.log in the results
\* tarball" (ist_app.cpp:51): a run that ends Failed says why in its tarball.
\* The code emits reset_system_failed and reset_system_not_found after the
\* tarball is made.
EveryFailureIsExplained ==
    [][/\ stage = "cleanup" /\ stage' = "idle" /\ obj'.run > 0
       /\ status' = "failed"
       /\ archive'.run = runs /\ archive'.whole
       /\ "service_log" \in archive'.files
       => archive'.lines # {}]_vars

\* "The status of the IST run. [...] completed: The test has completed. [...]
\* aborted: The test has been aborted" (ist_app.hpp:178): the status on a run's
\* object is that run's, so a run that has completed never reads as aborted.
\* start_ist publishes the rejection of a later StartIST on the object of the
\* run before it.
FinishedRunKeepsItsVerdict ==
    [][/\ obj.run > 0 /\ obj'.run = obj.run
       /\ obj.status = "completed"
       => obj'.status # "aborted"]_vars

\* "Deassert IST boot on startup as a safety measure" (ist_app.cpp:370): the
\* strap that on_ist_boot_assert_done has seen asserted is still asserted when
\* the host is power-cycled and tested.  The code does not wait for that hook,
\* so it can land in the middle of a run.
StrapHeldWhileRunning ==
    stage \in {"pending_power_cycle", "running_ist"} => strap
=============================================================================
