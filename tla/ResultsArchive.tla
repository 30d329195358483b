--------------------------- MODULE ResultsArchive ----------------------------
(***************************************************************************)
(* The results of a run: collect_result_files, ArchiveWriter and           *)
(* ArchiveSession of src/src/ist_results.cpp, the GetResultsFd method that *)
(* hands the archive out, and the wipe with which StartIST begins.         *)
(*                                                                         *)
(* The session takes one turn of the event loop per entry opened and per   *)
(* block copied; what the clients hold, what a hook left running writes,   *)
(* and a file system that turns read-only interleave with its turns.       *)
(* An archive is an inode: a client keeps the one that it opened when the  *)
(* name ist_results.tar.gz is removed or reused.                           *)
(***************************************************************************)
EXTENDS Integers, Sequences, FiniteSetsExt

CONSTANTS
    Files,       \* names of result files
    MaxBlocks,   \* bound on the blocks in a file
    MaxRuns      \* bound on the runs

ASSUME BoundsAssumption == {MaxBlocks, MaxRuns} \subseteq Nat

VARIABLES
    (* the results directory *)
    fs,        \* "rw", or "ro" after an error
    size,      \* blocks of each result file, Absent when there is none
    late,      \* files that a hook left running still appends to
    inodes,    \* the archives written, in order
    path,      \* the one named ist_results.tar.gz, 0 when there is none
    (* the service *)
    run,       \* runs so far
    object,    \* is there a run object on the bus?
    phase,     \* "run", "asked", "archiving", or the answer: "ok", "failed"
    asked,     \* size when the archive was asked for
    (* the ArchiveSession *)
    todo,      \* files listed whose turn is to come
    entry,     \* the file whose entry is open, NoEntry
    declared,  \* blocks in its header
    pos,       \* blocks read from it
    (* the clients *)
    served     \* what GetResultsFd handed out, and in which state

directory == <<size, late, inodes, path>>
session   == <<todo, entry, declared, pos>>
service   == <<run, object, phase, asked>>

vars == <<fs, directory, service, session, served>>

Absent == -1
NoEntry == "none"

ASSUME FilesAssumption == NoEntry \notin Files

Present == {f \in Files : size[f] # Absent}

NoFiles == [f \in Files |-> Absent]

\* main, started on an empty results directory.
Init ==
    /\ fs = "rw" /\ size = NoFiles /\ late = {}
    /\ inodes = <<>> /\ path = 0
    /\ run = 0 /\ object = FALSE /\ phase = "failed" /\ asked = NoFiles
    /\ todo = {} /\ entry = NoEntry /\ declared = 0 /\ pos = 0
    /\ served = {}

Idle == phase \in {"ok", "failed"}

-----------------------------------------------------------------------------
(* The run *)

\* Mutant: the wipe spares the archive, "it is overwritten anyway".
WipedKeepingArchive == path

WipedArchive == 0

\* start_ist: a run object, and the directory is wiped; what cannot be removed
\* is logged and stays.
StartRun ==
    /\ Idle /\ run < MaxRuns
    /\ run' = run + 1 /\ object' = TRUE /\ phase' = "run"
    /\ IF fs = "rw" THEN size' = NoFiles /\ path' = WipedArchive
                    ELSE UNCHANGED <<size, path>>
    /\ late' = {}
    /\ UNCHANGED <<fs, inodes, asked, session, served>>

\* kist_itm, its hooks and the service log.
Write(f) ==
    /\ fs = "rw" /\ size[f] < MaxBlocks
    /\ phase = "run" \/ (f \in late /\ f \in Present)
    /\ size' = [size EXCEPT ![f] = @ + 1]
    /\ UNCHANGED <<fs, late, inodes, path, service, session, served>>

\* close_service_log, archive_results_async
ArchiveResults ==
    /\ phase = "run"
    /\ phase' = "asked" /\ asked' = size
    /\ late' \in SUBSET Present
    /\ UNCHANGED <<fs, size, inodes, path, run, object, session, served>>

-----------------------------------------------------------------------------
(* The turns of ArchiveSession::step *)

\* collect_result_files and ArchiveWriter::open.
Open ==
    /\ phase = "asked" /\ fs = "rw" /\ Present # {}
    /\ phase' = "archiving" /\ todo' = Present
    /\ LET new == [run |-> run, packed |-> NoFiles, whole |-> FALSE] IN
       IF path = 0
       THEN inodes' = Append(inodes, new) /\ path' = Len(inodes) + 1
       ELSE inodes' = [inodes EXCEPT ![path] = new] /\ UNCHANGED path
    /\ UNCHANGED <<fs, size, late, run, object, asked, entry, declared, pos,
                   served>>

BeginEntry(f) ==
    /\ phase = "archiving" /\ entry = NoEntry /\ f \in todo
    /\ entry' = f /\ declared' = size[f] /\ pos' = 0
    /\ inodes' = [inodes EXCEPT ![path].packed[f] = 0]
    /\ UNCHANGED <<fs, size, late, path, service, todo, served>>

\* libarchive drops what exceeds the size in the header.
PumpMore ==
    /\ phase = "archiving" /\ entry # NoEntry /\ pos < size[entry]
    /\ pos' = pos + 1
    /\ inodes' = [inodes EXCEPT ![path].packed[entry] = Min({pos', declared})]
    /\ UNCHANGED <<fs, size, late, path, service, todo, entry, declared, served>>

\* Mutant: the last block is taken for the end of the file.
ReadAllButLast == pos + 1 >= size[entry]

ReadAll == pos = size[entry]

\* The file is removed once it is in the archive, if it can be.
PumpDone ==
    /\ phase = "archiving" /\ entry # NoEntry /\ ReadAll
    /\ size' = IF fs = "rw" THEN [size EXCEPT ![entry] = Absent] ELSE size
    /\ todo' = todo \ {entry} /\ entry' = NoEntry
    /\ UNCHANGED <<fs, late, inodes, path, service, declared, pos, served>>

\* The last turn: archive_write_close succeeds.
FinishOk ==
    /\ phase = "archiving" /\ todo = {} /\ fs = "rw"
    /\ inodes' = [inodes EXCEPT ![path].whole = TRUE]
    /\ phase' = "ok"
    /\ UNCHANGED <<fs, size, late, path, run, object, asked, session, served>>

\* Mutant: a partial archive is left where it is.
PartialKept == path

PartialRemoved == IF fs = "rw" THEN 0 ELSE path

\* No file to archive, or an open, read, write or close that fails (a full
\* disk, a file system gone read-only); finish(false) removes the archive.
Finish ==
    /\ phase \in {"asked", "archiving"}
    /\ phase' = "failed"
    /\ path' = IF phase = "archiving" THEN PartialRemoved ELSE path
    /\ todo' = {} /\ entry' = NoEntry
    /\ UNCHANGED <<fs, size, late, inodes, run, object, asked, declared, pos,
                   served>>

-----------------------------------------------------------------------------
(* The rest of the world *)

CanServe == Idle /\ object /\ path # 0

\* IstService::get_results_fd, called at the run object.
GetResultsFd ==
    /\ CanServe
    /\ served' = served \cup
         {[inode |-> path, was |-> inodes[path], run |-> run, fs |-> fs]}
    /\ UNCHANGED <<fs, directory, service, session>>

FileSystemFault ==
    /\ fs = "rw" /\ fs' = "ro"
    /\ UNCHANGED <<directory, service, session, served>>

\* The daemon dies, and systemd starts it again: no destructor ran.
Crash ==
    /\ run > 0
    /\ phase' = "failed" /\ object' = FALSE
    /\ todo' = {} /\ entry' = NoEntry
    /\ UNCHANGED <<fs, directory, run, asked, declared, pos, served>>

Step ==
    \/ Open \/ PumpMore \/ PumpDone \/ FinishOk \/ Finish
    \/ \E f \in Files : BeginEntry(f)

Next ==
    \/ StartRun \/ ArchiveResults \/ Step
    \/ \E f \in Files : Write(f)
    \/ GetResultsFd \/ FileSystemFault \/ Crash

\* The event loop runs the turn that was posted.
Spec == Init /\ [][Next]_vars /\ WF_vars(Step)

-----------------------------------------------------------------------------
(* Properties *)

Archives ==
    [run : 1 .. MaxRuns, packed : [Files -> Absent .. MaxBlocks],
     whole : BOOLEAN]

\* Every variable has its type.
TypeOK ==
    /\ fs \in {"rw", "ro"}
    /\ {size, asked} \subseteq [Files -> Absent .. MaxBlocks]
    /\ {late, todo} \subseteq SUBSET Files
    /\ inodes \in Seq(Archives) /\ path \in 0 .. Len(inodes)
    /\ run \in 0 .. MaxRuns /\ object \in BOOLEAN
    /\ phase \in {"run", "asked", "archiving", "ok", "failed"}
    /\ entry \in Files \cup {NoEntry}
    /\ {declared, pos} \subseteq Absent .. MaxBlocks
    /\ served \subseteq [inode : 1 .. Len(inodes), was : Archives,
                         run : 1 .. MaxRuns, fs : {"rw", "ro"}]

Packed == {f \in Files : inodes[path].packed[f] # Absent}

ArchiveNow ==
    IF path = 0 THEN [is |-> "absent", files |-> {}]
    ELSE IF inodes[path].whole THEN [is |-> "whole", files |-> Packed]
    ELSE [is |-> "partial", files |-> {}]

Contract == INSTANCE ArchiveContract
    WITH files <- IF phase = "archiving" THEN todo \cup Packed ELSE Present,
         archive <- ArchiveNow,
         phase <- IF object THEN phase ELSE "started"

\* The session of many turns does what IstService takes for two steps: it
\* answers once, also when a turn fails; it reports success only when every
\* file listed is in a closed archive and gone; and a failure leaves no partial
\* archive, but on a file system that turned read-only.
FollowsContract == Contract!Spec

\* A result file is removed only when the archive, still there, holds all that
\* was in it when the archive was asked for ("the archiver removes each file
\* once it is in the tarball"), whatever a hook appends meanwhile.
PackedBeforeRemoved ==
    phase \in {"archiving", "ok"} =>
        \A f \in Files : asked[f] # Absent /\ f \notin Present =>
            path # 0 /\ inodes[path].packed[f] >= asked[f]

\* A client that was handed the archive reads, however late, a whole one of the
\* run at whose object it asked: not the rest of a run that crashed or failed,
\* nor the archive of the run before; and neither the session that wrote it nor
\* the next run ever changes what is behind the descriptor.  Only a read-only
\* file system keeps, and serves, what should have been removed.
ServedArchiveIsFinal ==
    \A fd \in served :
        /\ inodes[fd.inode] = fd.was
        /\ fd.fs = "rw" => fd.was.whole /\ fd.was.run = fd.run
=============================================================================
