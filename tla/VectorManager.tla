---------------------------- MODULE VectorManager ----------------------------
(***************************************************************************)
(* The test-vector store: class VectorManager of src/src/vector_manager.cpp*)
(* with the two sessions of an update, PldmHeaderPeekSession (reads the    *)
(* package header, touches nothing) and TransferSession (overwrites the    *)
(* image in place).  One handler of the io_context is one action.          *)
(*                                                                         *)
(* A package payload is Chunks reads long.  The checks on header and       *)
(* payload are taken to do their job: a payload whose CRC matches is the   *)
(* payload that was packed.                                                *)
(***************************************************************************)
EXTENDS Integers

CONSTANTS
    Packages,     \* packages that may be uploaded
    Versioned,    \* those of them with a readable version.txt
    Chunks,       \* length of a payload
    MaxUpdates,   \* bound on accepted StartUpdate calls
    MaxRestarts   \* bound on restarts of the process and of the BMC

ASSUME PackageAssumption ==
    /\ Versioned \subseteq Packages
    /\ "Unknown" \notin Packages
    /\ Chunks \in Nat /\ MaxUpdates \in Nat /\ MaxRestarts \in Nat

VARIABLES
    fs,          \* the vector storage: "rw", or "ro" after a fault
    image,       \* CPU-IST.img on it
    mounted,     \* what is mounted at vectorMountPath
    updating,    \* update_in_progress_
    session,     \* "none", "peek" (active_header_peek_) or "transfer"
    upload,      \* what the client sends
    received,    \* payload_bytes_
    reported,    \* reported_bytes_
    progress,    \* ActivationProgress; NoProgress without that interface
    activation,  \* Activation, and Functional, of the inventory object
    version,     \* Version of the inventory object
    updates, restarts

storage   == <<fs, image>>
transfer  == <<session, upload, received, reported>>
published == <<activation, version>>
bounds    == <<updates, restarts>>

vars == <<storage, mounted, updating, transfer, progress, published, bounds>>

k_transfer_progress_max == 99

NoProgress == -1

\* pkg's header passes check_ist_component_uuid and validate_pldm_header iff
\* header; declared is package_size_from_header in chunks, 0 when unknown;
\* intact says whether the payload is the one the header's CRC was made for.
Uploads == [pkg : Packages, header : BOOLEAN, declared : 0 .. Chunks,
            intact : BOOLEAN]

Images == [pkg : Packages, length : 0 .. Chunks, intact : BOOLEAN]

NoImage  == [pkg |-> "Unknown", length |-> 0, intact |-> FALSE]
NoUpload == [pkg |-> "Unknown", header |-> FALSE, declared |-> 0,
             intact |-> FALSE]

\* golden: is GOLDEN_RES mounted too?
NotMounted == [image |-> NoImage, golden |-> FALSE]

\* What a file may hold when the last of it was not written after all.
Beginnings(i) == {[i EXCEPT !.length = n] : n \in 0 .. i.length}

\* The payload's CRC is the one of the header.
Verified(i) == i.length = Chunks /\ i.intact

\* A device that was never updated.
Init ==
    /\ fs = "rw" /\ image = NoImage /\ mounted = NotMounted
    /\ updating = FALSE
    /\ session = "none" /\ upload = NoUpload /\ received = 0 /\ reported = 0
    /\ progress = NoProgress
    /\ activation = "Failed" /\ version = "Unknown"
    /\ updates = 0 /\ restarts = 0

-----------------------------------------------------------------------------
(* Mounting *)

\* Mutant: what cannot be unmounted is ignored.
TeardownsForced(m) ==
    {[ok |-> TRUE, mounted |-> left] : left \in {m, NotMounted}}

\* The results of teardown_mounts: what is mounted may be busy.
Teardowns(m) ==
    {[ok |-> TRUE, mounted |-> NotMounted]}
      \cup IF m = NotMounted THEN {}
           ELSE {[ok |-> FALSE, mounted |-> left] :
                     left \in {m, [m EXCEPT !.golden = FALSE]}}

\* Mutant: a golden image that cannot be mounted is not an error.
MountsWithoutGolden(m, i) ==
    {t \in Teardowns(m) : ~t.ok}
      \cup {[ok |-> FALSE, mounted |-> NotMounted]}
      \cup IF i.length = 0 THEN {}
           ELSE {[ok |-> TRUE, mounted |-> [image |-> i, golden |-> g]] :
                     g \in BOOLEAN}

\* The results of mount_images with i in the image file; an empty file holds
\* no file system.  When GOLDEN_RES cannot be mounted undo_ext4() may find the
\* rest busy, with the loop device on GOLDEN_RES.sqfs still open, and nobody
\* looks at that.
Mounts(m, i) ==
    {t \in Teardowns(m) : ~t.ok}
      \cup {[ok |-> FALSE, mounted |-> NotMounted]}
      \cup IF i.length = 0 THEN {}
           ELSE {[ok |-> golden, mounted |-> [image |-> i, golden |-> golden]] :
                     golden \in BOOLEAN}

\* Mutant: the version file is read before the new image is mounted.
VersionsBeforeMount(m, old) == {old}

\* read_and_publish_version; nothing can be said of what an image that was
\* not verified holds.
Versions(m, old) ==
    IF m = NotMounted THEN {old}
    ELSE IF ~Verified(m.image) THEN {old, m.image.pkg}
    ELSE IF m.image.pkg \in Versioned THEN {m.image.pkg}
    ELSE {old}

-----------------------------------------------------------------------------
(* The end of an update *)

\* Mutant: update_in_progress_ is not reset on the failure paths.
FinishUpdateLocked(ok) ==
    /\ activation' = IF ok THEN "Active" ELSE "Failed"
    /\ progress' = NoProgress
    /\ updating' = ~ok
    /\ session' = "none" /\ upload' = NoUpload
    /\ received' = 0 /\ reported' = 0

\* Mutant: the ActivationProgress interface is left on the bus.
FinishUpdateShowingProgress(ok) ==
    /\ activation' = IF ok THEN "Active" ELSE "Failed"
    /\ progress' = progress
    /\ updating' = FALSE
    /\ session' = "none" /\ upload' = NoUpload
    /\ received' = 0 /\ reported' = 0

FinishUpdate(ok) ==
    /\ activation' = IF ok THEN "Active" ELSE "Failed"
    /\ progress' = NoProgress
    /\ updating' = FALSE
    /\ session' = "none" /\ upload' = NoUpload
    /\ received' = 0 /\ reported' = 0

\* TransferSession::discard_if_uncommitted; the removal itself may fail, which
\* is only logged.
Discard(i) == IF fs = "rw" THEN {NoImage} ELSE Beginnings(i)

\* on_transfer_complete(false)
TransferFails(i) ==
    /\ image' \in Discard(i)
    /\ FinishUpdate(FALSE)
    /\ UNCHANGED version

-----------------------------------------------------------------------------
(* StartUpdate, and the header *)

\* start_update past its checks.  The guard on the run is
\* IstService::start_update's; RunAndUpdate.tla composes the two.
StartUpdate(u) ==
    /\ ~updating /\ updates < MaxUpdates
    /\ updates' = updates + 1
    /\ updating' = TRUE
    /\ session' = "peek" /\ upload' = u /\ received' = 0 /\ reported' = 0
    /\ UNCHANGED <<storage, mounted, progress, published, restarts>>

\* The header is refused, or the client stops before its end or is silent for
\* the inactivity timeout.
HeaderFails ==
    /\ session = "peek"
    /\ FinishUpdate(FALSE)
    /\ UNCHANGED <<storage, mounted, version, bounds>>

\* Mutant: the header is not validated.
OnHeaderUnchecked == session = "peek"

HeaderVerified == session = "peek" /\ upload.header

\* on_header_peek_complete(true), when the mounts are busy.
TeardownFails ==
    /\ HeaderVerified
    /\ \E t \in Teardowns(mounted) : ~t.ok /\ mounted' = t.mounted
    /\ FinishUpdate(FALSE)
    /\ UNCHANGED <<storage, version, bounds>>

\* on_teardown_complete when TransferSession cannot open the image file.
OpenFails ==
    /\ HeaderVerified
    /\ \E t \in Teardowns(mounted) : t.ok /\ mounted' = t.mounted
    /\ FinishUpdate(FALSE)
    /\ UNCHANGED <<storage, version, bounds>>

\* on_teardown_complete.  n chunks of the payload came with the header;
\* writing them may fail.
StartTransfer(n, written) ==
    /\ HeaderVerified /\ fs = "rw"
    /\ ~written => n > 0
    /\ \E t \in Teardowns(mounted) : t.ok /\ mounted' = t.mounted
    /\ IF written
       THEN /\ image' = [pkg |-> upload.pkg, length |-> n,
                         intact |-> upload.intact]
            /\ session' = "transfer" /\ received' = n /\ reported' = 0
            /\ activation' = "Activating" /\ progress' = 0
            /\ UNCHANGED <<updating, upload, version>>
       ELSE TransferFails([pkg |-> upload.pkg, length |-> 0,
                           intact |-> upload.intact])
    /\ UNCHANGED <<fs, bounds>>

-----------------------------------------------------------------------------
(* The payload *)

\* write_payload; the stream buffers, so storage that has failed may not show.
ReadChunk ==
    /\ session = "transfer" /\ received < Chunks
    /\ received' = received + 1
    /\ image' = [image EXCEPT !.length = received + 1]
    /\ UNCHANGED <<fs, mounted, updating, session, upload, reported, progress,
                   published, bounds>>

\* A write fails (the storage may be full), or the client is silent for the
\* inactivity timeout.
WriteOrTimeoutFails ==
    /\ session = "transfer"
    /\ TransferFails(image)
    /\ UNCHANGED <<fs, mounted, bounds>>

\* Mutant: the share of the bytes since the last tick, not of all of them.
NextProgressOfInterval ==
    IF upload.declared = 0
    THEN IF progress < k_transfer_progress_max THEN progress + 1 ELSE progress
    ELSE LET pct == ((received - reported) * k_transfer_progress_max)
                       \div upload.declared
         IN  IF pct < k_transfer_progress_max THEN pct
             ELSE k_transfer_progress_max

\* TransferSession::next_progress; declared may be less than what is sent.
NextProgress ==
    IF upload.declared = 0
    THEN IF progress < k_transfer_progress_max THEN progress + 1 ELSE progress
    ELSE LET pct == (received * k_transfer_progress_max) \div upload.declared
         IN  IF pct < k_transfer_progress_max THEN pct
             ELSE k_transfer_progress_max

ProgressTick ==
    /\ session = "transfer" /\ received # reported
    /\ reported' = received
    /\ progress' = NextProgress
    /\ UNCHANGED <<storage, mounted, updating, session, upload, received,
                   published, bounds>>

\* Mutant: the CRC is not compared.
PayloadUnchecked(i) == TRUE

PayloadVerified(i) == Verified(i)

\* The stream ends (end of file or a read error) and the CRC is compared.
PayloadRejected ==
    /\ session = "transfer" /\ ~PayloadVerified(image)
    /\ TransferFails(image)
    /\ UNCHANGED <<fs, mounted, bounds>>

\* on_transfer_complete(true), on_mount_complete.  The file is closed here, and
\* what cannot be flushed then (the storage may be full) is lost without notice.
PayloadAccepted ==
    /\ session = "transfer" /\ PayloadVerified(image)
    /\ image' \in Beginnings(image)
    /\ \E m \in Mounts(mounted, image') :
          /\ mounted' = m.mounted
          /\ FinishUpdate(m.ok)
          /\ version' \in IF m.ok THEN Versions(m.mounted, version)
                          ELSE {version}
    /\ UNCHANGED <<fs, bounds>>

-----------------------------------------------------------------------------
(* Outside an update *)

\* ensure_mounted is called by start_ist, after its two EBUSY guards, and
\* returns at once when GOLDEN_RES is there.
MountMissing == ~updating /\ ~mounted.golden

EnsureMounted ==
    /\ MountMissing
    /\ \E m \in Mounts(mounted, image) :
          /\ mounted' = m.mounted
          /\ version' \in IF m.ok THEN Versions(m.mounted, version)
                          ELSE {version}
    /\ UNCHANGED <<storage, updating, transfer, progress, activation, bounds>>

StorageFault ==
    /\ fs = "rw"
    /\ fs' = "ro"
    /\ UNCHANGED <<image, mounted, updating, transfer, progress, published,
                   bounds>>

\* The process dies, whatever it was doing, and its successor runs
\* mount_vectors_on_startup.  Mounts survive it but not a reboot of the BMC;
\* no destructor removes the image, what the stream has buffered is lost, and
\* with the power also what was never synced.
Restart(reboot) ==
    /\ restarts < MaxRestarts
    /\ restarts' = restarts + 1
    /\ image' \in IF reboot \/ session = "transfer" THEN Beginnings(image)
                                                   ELSE {image}
    /\ \E m \in Mounts(IF reboot THEN NotMounted ELSE mounted, image') :
          /\ mounted' = m.mounted
          /\ version' \in Versions(m.mounted, "Unknown")
          /\ activation' = IF m.ok THEN "Active" ELSE "Failed"
    /\ updating' = FALSE
    /\ session' = "none" /\ upload' = NoUpload
    /\ received' = 0 /\ reported' = 0 /\ progress' = NoProgress
    /\ UNCHANGED <<fs, updates>>

\* One of these is always due during an update: the sessions are armed with
\* the inactivity timer whenever they wait.
SessionStep ==
    \/ HeaderFails
    \/ TeardownFails
    \/ OpenFails
    \/ \E n \in 0 .. Chunks, written \in BOOLEAN : StartTransfer(n, written)
    \/ ReadChunk
    \/ WriteOrTimeoutFails
    \/ PayloadRejected
    \/ PayloadAccepted

Next ==
    \/ \E u \in Uploads : StartUpdate(u)
    \/ SessionStep
    \/ ProgressTick
    \/ EnsureMounted
    \/ StorageFault
    \/ \E reboot \in BOOLEAN : Restart(reboot)

Spec == Init /\ [][Next]_vars /\ WF_vars(SessionStep)

-----------------------------------------------------------------------------
(* Properties *)

MountType == [image : Images \cup {NoImage}, golden : BOOLEAN]

UpdateType ==
    /\ updating \in BOOLEAN
    /\ session \in {"none", "peek", "transfer"}
    /\ upload \in Uploads \cup {NoUpload}
    /\ received \in 0 .. Chunks /\ reported \in 0 .. Chunks
    /\ progress \in {NoProgress} \cup 0 .. k_transfer_progress_max

StoreType ==
    /\ fs \in {"rw", "ro"}
    /\ image \in Images \cup {NoImage} /\ mounted \in MountType
    /\ activation \in {"Active", "Activating", "Failed"}
    /\ version \in Packages \cup {"Unknown"}

\* Every variable has its type.
TypeOK ==
    /\ UpdateType
    /\ StoreType
    /\ updates \in 0 .. MaxUpdates /\ restarts \in 0 .. MaxRestarts

\* The image is overwritten in place only while nothing is mounted from it.
NeverOverwrittenWhileMounted == session = "transfer" => mounted = NotMounted

\* update_in_progress_ is held exactly while one of the two sessions lives,
\* Activating and the ActivationProgress interface exactly while the transfer
\* does, through every failure path and restart: none leaves the service
\* refusing updates and runs, or a client waiting for a transfer that is over.
SessionOwnsLockAndProgress ==
    /\ updating = (session # "none")
    /\ (activation = "Activating") = (session = "transfer")
    /\ (progress # NoProgress) = (session = "transfer")

\* Whatever teardown_mounts and mount_images leave mounted, also when they fail
\* half-way, is of the image that is on disk now; Active and Functional mean
\* that both of its file systems are.
ActiveMeansMounted ==
    /\ mounted # NotMounted => mounted.image = image
    /\ activation = "Active" => mounted = [image |-> image, golden |-> TRUE]

\* The Version of an Active image that has one is its own.
ActiveVersionIsMounted ==
    activation = "Active" /\ Verified(mounted.image)
      /\ mounted.image.pkg \in Versioned
      => version = mounted.image.pkg

\* However an update ends, short of the death of the process: an image is left
\* as good only if the CRC matched over all of the payload that was read, and it
\* is that payload, less at most what was lost as the file was closed.  Any
\* other end is Failed and leaves no image, but the old one if the file was not
\* opened and what cannot be removed on storage that has failed.
OnlyVerifiedImagesStay ==
    [][session # "none" /\ session' = "none" /\ restarts' = restarts
       => \/ /\ session = "transfer" /\ Verified(image)
             /\ image' \in Beginnings(image)
          \/ /\ activation' = "Failed"
             /\ \/ image' = NoImage
                \/ session = "peek" /\ image' = image
                \/ fs = "ro" /\ image' \in Beginnings(image)]_vars

\* A package whose header is refused does not disturb the image on disk, nor
\* what is mounted from it: both only change for the transfer, in it, or
\* outside any update.
RefusedHeaderDisturbsNothing ==
    [][session = "peek" /\ ~upload.header /\ restarts' = restarts
       => UNCHANGED <<image, mounted>>]_vars

\* The percentage of one transfer never goes back, and never reads as done
\* ("100 is reserved for a committed image"), whatever size the header claims.
ProgressNeverGoesBack ==
    [][session = "transfer" /\ session' = "transfer"
       => progress' \in progress .. k_transfer_progress_max]_vars

\* Every update ends, also when the client falls silent: the service becomes
\* available again.
UpdateEnds == updating ~> ~updating
=============================================================================
