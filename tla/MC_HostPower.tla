--------------------------- MODULE MC_HostPower ---------------------------
(* TLC instance of HostPower, and the claim of a comment of its source.     *)
EXTENDS HostPower

\* "Read the current chassis state in case it is already off"
\* (host_power_monitor.cpp:77): a chassis that is off when the wait begins, and
\* is switched on during it, has been power-cycled; once the Get has been
\* answered and every message handled the wait is over.  The code misses it
\* when the chassis comes on before the Get is answered.
AlreadyOffIsSeen ==
    waiting /\ start = "Off" /\ gets = 0 /\ inbox = <<>> => turns = 0
=============================================================================
