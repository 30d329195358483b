--------------------------- MODULE ArchiveContract ---------------------------
(***************************************************************************)
(* What IstService relies on when it asks for the archive of a run         *)
(* (archive_results_async, src/include/ist_results.hpp): one answer; true  *)
(* only when every result file is in a complete archive and none is left   *)
(* beside it; after a failure no partial archive, if it can be removed.    *)
(* OpenArchive and FinishArchive are the actions of IstService.tla.        *)
(***************************************************************************)
VARIABLES
    fs,        \* "rw", or "ro" after an error
    files,     \* the result files
    archive,   \* whether there is one, and the files in it once it is whole
    phase      \* "started", "run", "asked", "archiving", or the answer: "ok",
               \* "failed"

vars == <<fs, files, archive, phase>>

NoArchive == [is |-> "absent", files |-> {}]

Init ==
    /\ fs = "rw" /\ phase = "started" /\ files = {} /\ archive = NoArchive

\* A run begins and writes its results.
StartRun ==
    /\ phase \in {"started", "ok", "failed"}
    /\ phase' = "run"
    /\ IF fs = "rw" THEN files' = {} /\ archive' = NoArchive
                    ELSE UNCHANGED <<files, archive>>
    /\ UNCHANGED fs

Write ==
    /\ phase = "run" /\ fs = "rw"
    /\ files \subseteq files'
    /\ UNCHANGED <<fs, archive, phase>>

Ask == phase = "run" /\ phase' = "asked" /\ UNCHANGED <<fs, files, archive>>

OpenArchive ==
    /\ phase = "asked" /\ fs = "rw" /\ files # {}
    /\ archive' = [is |-> "partial", files |-> {}]
    /\ phase' = "archiving"
    /\ UNCHANGED <<fs, files>>

FinishArchive(ok) ==
    /\ phase' = IF ok THEN "ok" ELSE "failed"
    /\ IF ok
       THEN /\ phase = "archiving" /\ fs = "rw"
            /\ archive' = [is |-> "whole", files |-> files]
            /\ files' = {}
       ELSE IF phase = "archiving"
       THEN /\ files' \subseteq files
            /\ archive' = IF fs = "rw" THEN NoArchive ELSE archive
       ELSE phase = "asked" /\ UNCHANGED <<files, archive>>
    /\ UNCHANGED fs

Fault == fs = "rw" /\ fs' = "ro" /\ UNCHANGED <<files, archive, phase>>

\* The daemon restarts wherever it is; nobody is told, and what is on disk stays.
Crash ==
    /\ phase' = "started"
    /\ files' \subseteq files
    /\ UNCHANGED <<fs, archive>>

Next ==
    \/ StartRun \/ Write \/ Ask \/ OpenArchive
    \/ \E ok \in {TRUE, FALSE} : FinishArchive(ok)
    \/ Fault \/ Crash

Answered == phase \notin {"asked", "archiving"}

Spec == Init /\ [][Next]_vars /\ []<>Answered
=============================================================================
