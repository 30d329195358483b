------------------------- MODULE RunAndUpdate_proofs -------------------------
(***************************************************************************)
(* The safety of the test-vector store, for every set of packages, length  *)
(* of payload, number of updates and of restarts; then runs and updates in *)
(* one daemon: the vectors that were checked are those that are tested,    *)
(* the run protocol is followed, and the store stays as safe as it is by   *)
(* itself.                                                                 *)
(***************************************************************************)
EXTENDS RunAndUpdate, TLAPS

-----------------------------------------------------------------------------
(* The inductive invariant *)

\* A session has its upload, and what a transfer has written is that.
ImageIsTheUpload ==
    /\ session # "none" => upload \in Uploads
    /\ session = "transfer" =>
         image = [pkg |-> upload.pkg, length |-> received,
                  intact |-> upload.intact]

\* The percentage shown is at most what was reported of the declared size.
ProgressIsOfTheReported ==
    session = "transfer" =>
        /\ reported <= received
        /\ upload.declared > 0 =>
             progress * upload.declared <= reported * k_transfer_progress_max

Published == ActiveMeansMounted /\ ActiveVersionIsMounted

Safety == /\ SessionOwnsLockAndProgress /\ NeverOverwrittenWhileMounted
          /\ ImageIsTheUpload /\ Published /\ ProgressIsOfTheReported

StoreInvariant == TypeOK /\ Safety

-----------------------------------------------------------------------------
(* The helpers *)

\* The beginning of an image is an image.
LEMMA BeginningResult ==
  ASSUME NEW i \in Images \cup {NoImage}, NEW b \in Beginnings(i)
  PROVE  b \in Images \cup {NoImage} /\ (i \in Images => b \in Images)
<1>1. PICK n \in 0 .. i.length : b = [i EXCEPT !.length = n]
  BY DEF Beginnings
<1>2. CASE i \in Images
  <2>1. n \in 0 .. Chunks
    BY <1>1, <1>2, PackageAssumption DEF Images
  <2>2. QED
    BY <1>1, <1>2, <2>1 DEF Images
<1>3. CASE i = NoImage
  <2>1. n = 0
    BY <1>1, <1>3 DEF NoImage
  <2>2. QED
    BY <1>1, <1>3, <2>1 DEF NoImage
<1>4. QED
  BY <1>2, <1>3

\* What is mounted, if anything is, is of the image i.
IsOf(m, i) == m # NotMounted => m.image = i

\* What stays mounted after teardown_mounts is what was, less GOLDEN_RES.
LEMMA TeardownResult ==
  ASSUME NEW m \in MountType, NEW t \in Teardowns(m)
  PROVE  /\ t.ok \in BOOLEAN /\ t.mounted \in MountType
         /\ t.ok => t.mounted = NotMounted
         /\ m = NotMounted => t.ok
         /\ \A i : IsOf(m, i) => IsOf(t.mounted, i)
<1> USE DEF IsOf
<1> DEFINE less == [m EXCEPT !.golden = FALSE]
<1>1. NotMounted \in MountType /\ less \in MountType
  BY DEF NotMounted, MountType
<1>2. \/ t = [ok |-> TRUE, mounted |-> NotMounted]
      \/ t = [ok |-> FALSE, mounted |-> m]
      \/ t = [ok |-> FALSE, mounted |-> less]
  BY DEF Teardowns
<1>3. m = NotMounted => t = [ok |-> TRUE, mounted |-> NotMounted]
  BY DEF Teardowns
<1>4. m # NotMounted => less.image = m.image
  BY DEF MountType
<1> HIDE DEF less
<1>5. CASE t = [ok |-> TRUE, mounted |-> NotMounted]
  BY <1>1, <1>5
<1>6. ASSUME NEW left \in {m, less}, t = [ok |-> FALSE, mounted |-> left]
      PROVE  /\ t.ok = FALSE /\ t.mounted \in MountType /\ m # NotMounted
             /\ \A i : IsOf(m, i) => IsOf(t.mounted, i)
  <2>1. m # NotMounted
    BY <1>3, <1>6
  <2>2. t.ok = FALSE /\ t.mounted = left /\ left.image = m.image
    BY <1>4, <1>6, <2>1
  <2>3. QED
    BY <1>1, <2>1, <2>2
<1>7. QED
  BY <1>2, <1>5, <1>6

\* mount_images succeeds with both file systems of the image; when it fails
\* what stays mounted, if anything does, is of that image too.
LEMMA MountResult ==
  ASSUME NEW m \in MountType, NEW i \in Images \cup {NoImage}, IsOf(m, i),
         NEW r \in Mounts(m, i)
  PROVE  /\ r.ok \in BOOLEAN /\ r.mounted \in MountType
         /\ IsOf(r.mounted, i)
         /\ r.ok => r.mounted = [image |-> i, golden |-> TRUE] /\ i.length # 0
<1>1. CASE r \in Teardowns(m) /\ ~r.ok
  BY <1>1, TeardownResult
<1>2. CASE r = [ok |-> FALSE, mounted |-> NotMounted]
  BY <1>2 DEF MountType, NotMounted, IsOf
<1>3. ASSUME NEW golden \in BOOLEAN, i.length # 0,
             r = [ok |-> golden, mounted |-> [image |-> i, golden |-> golden]]
      PROVE  /\ r.ok \in BOOLEAN /\ r.mounted \in MountType
             /\ IsOf(r.mounted, i)
             /\ r.ok => /\ r.mounted = [image |-> i, golden |-> TRUE]
                        /\ i.length # 0
  BY <1>3 DEF MountType, IsOf
<1>4. QED
  BY <1>1, <1>2, <1>3 DEF Mounts

\* read_and_publish_version reads the version of what is mounted, if that is a
\* package that has one.
LEMMA VersionResult ==
  ASSUME NEW i \in Images \cup {NoImage}, i.length # 0,
         NEW old \in Packages \cup {"Unknown"},
         NEW v \in Versions([image |-> i, golden |-> TRUE], old)
  PROVE  /\ v \in Packages \cup {"Unknown"}
         /\ Verified(i) /\ i.pkg \in Versioned => v = i.pkg
<1>1. [image |-> i, golden |-> TRUE] # NotMounted
  BY DEF NotMounted
<1>2. i.pkg \in Packages \cup {"Unknown"}
  BY DEF Images, NoImage
<1>3. QED
  BY <1>1, <1>2 DEF Versions

\* Integer division rounds down.
LEMMA Quotient ==
  ASSUME NEW a \in Nat, NEW d \in Nat, d > 0
  PROVE  /\ a \div d \in Nat
         /\ (a \div d) * d <= a
         /\ \A q \in Nat : q * d <= a => q <= a \div d
<1>1. a \div d \in Int /\ a = d * (a \div d) + (a % d) /\ a % d \in 0 .. (d - 1)
  OBVIOUS
<1>2. a \div d \in Nat /\ (a \div d) * d <= a
  BY <1>1, Z3
<1>3. QED
  BY <1>1, <1>2, Z3

\* An update that ends gives back the lock and the progress interface.
LEMMA Finished ==
  ASSUME TypeOK, NEW ok \in BOOLEAN, FinishUpdate(ok)
  PROVE  /\ UpdateType' /\ activation' = IF ok THEN "Active" ELSE "Failed"
         /\ session' = "none"
         /\ SessionOwnsLockAndProgress' /\ NeverOverwrittenWhileMounted'
         /\ ImageIsTheUpload' /\ ProgressIsOfTheReported'
<1> USE DEF FinishUpdate
<1>1. 0 \in 0 .. Chunks
  BY PackageAssumption
<1>2. UpdateType'
  BY <1>1 DEF UpdateType
<1>3. activation' = IF ok THEN "Active" ELSE "Failed"
  OBVIOUS
<1>4. session' = "none" /\ updating' = FALSE /\ progress' = NoProgress
  OBVIOUS
<1>5. SessionOwnsLockAndProgress'
  BY <1>3, <1>4 DEF SessionOwnsLockAndProgress
<1>6. /\ NeverOverwrittenWhileMounted' /\ ImageIsTheUpload'
      /\ ProgressIsOfTheReported'
  BY <1>4 DEF NeverOverwrittenWhileMounted, ImageIsTheUpload,
              ProgressIsOfTheReported
<1>7. QED
  BY <1>2, <1>3, <1>4, <1>5, <1>6

\* A transfer that fails leaves nothing that is mounted or Active.
LEMMA TransferFailed ==
  ASSUME TypeOK, NEW i \in Images \cup {NoImage}, TransferFails(i),
         fs' = fs, mounted' = NotMounted, UNCHANGED bounds
  PROVE  StoreInvariant'
<1>1. /\ UpdateType' /\ activation' = "Failed" /\ session' = "none"
      /\ SessionOwnsLockAndProgress' /\ NeverOverwrittenWhileMounted'
      /\ ImageIsTheUpload' /\ ProgressIsOfTheReported'
  BY Finished DEF TransferFails
<1>2. image' \in Images \cup {NoImage} /\ NotMounted \in MountType
  BY BeginningResult DEF TransferFails, Discard, NotMounted, MountType
<1>3. TypeOK'
  BY <1>1, <1>2 DEF TypeOK, StoreType, TransferFails, bounds
<1>4. Published'
  BY <1>1 DEF Published, ActiveMeansMounted, ActiveVersionIsMounted
<1>5. QED
  BY <1>1, <1>3, <1>4 DEF StoreInvariant, Safety

\* An update that ends before its transfer leaves the image alone.
LEMMA RefusedUpdate ==
  ASSUME StoreInvariant, session = "peek", FinishUpdate(FALSE),
         mounted' \in MountType, IsOf(mounted', image),
         UNCHANGED <<storage, version, bounds>>
  PROVE  StoreInvariant'
<1>1. /\ UpdateType' /\ activation' = "Failed" /\ session' = "none"
      /\ SessionOwnsLockAndProgress' /\ NeverOverwrittenWhileMounted'
      /\ ImageIsTheUpload' /\ ProgressIsOfTheReported'
  BY Finished DEF StoreInvariant
<1>2. TypeOK'
  BY <1>1 DEF StoreInvariant, TypeOK, StoreType, storage, bounds
<1>3. Published'
  BY <1>1 DEF Published, ActiveMeansMounted, ActiveVersionIsMounted, IsOf,
              storage
<1>4. QED
  BY <1>1, <1>2, <1>3 DEF StoreInvariant, Safety

-----------------------------------------------------------------------------
(* The steps *)

\* StartUpdate changes nothing but the lock and the session.
LEMMA StartUpdateStep ==
  ASSUME StoreInvariant, NEW u \in Uploads, StartUpdate(u)
  PROVE  StoreInvariant'
<1> USE DEF StoreInvariant, StartUpdate, storage, published, bounds
<1>1. TypeOK'
  BY PackageAssumption DEF TypeOK, UpdateType, StoreType
<1>2. /\ SessionOwnsLockAndProgress' /\ NeverOverwrittenWhileMounted'
      /\ ImageIsTheUpload' /\ ProgressIsOfTheReported'
  BY DEF Safety, SessionOwnsLockAndProgress, NeverOverwrittenWhileMounted,
         ImageIsTheUpload, ProgressIsOfTheReported
<1>3. Published'
  BY DEF Safety, Published, ActiveMeansMounted, ActiveVersionIsMounted, Verified
<1>4. QED
  BY <1>1, <1>2, <1>3 DEF Safety

\* The transfer begins with nothing mounted, and with what came with the header.
LEMMA StartTransferStep ==
  ASSUME StoreInvariant, NEW n \in 0 .. Chunks, NEW written \in BOOLEAN,
         StartTransfer(n, written)
  PROVE  StoreInvariant'
<1> USE DEF StartTransfer
<1>1. upload \in Uploads /\ mounted \in MountType
  BY DEF StoreInvariant, Safety, ImageIsTheUpload, HeaderVerified, TypeOK,
         StoreType
<1>2. mounted' = NotMounted /\ fs' = fs /\ UNCHANGED bounds
  BY <1>1, TeardownResult
<1>3. NotMounted \in MountType
  BY DEF NotMounted, MountType
<1>4. CASE written
  <2> DEFINE new == [pkg |-> upload.pkg, length |-> n,
                     intact |-> upload.intact]
  <2>1. /\ image' = new /\ session' = "transfer" /\ received' = n
        /\ reported' = 0 /\ activation' = "Activating" /\ progress' = 0
        /\ UNCHANGED <<updating, upload, version>>
    BY <1>4
  <2>2. new \in Images
    BY <1>1 DEF Uploads, Images
  <2>3. TypeOK'
    BY <1>2, <1>3, <2>1, <2>2, PackageAssumption
    DEF StoreInvariant, TypeOK, UpdateType, StoreType, bounds, NoProgress,
        k_transfer_progress_max
  <2>4. SessionOwnsLockAndProgress' /\ NeverOverwrittenWhileMounted'
    BY <1>2, <2>1
    DEF StoreInvariant, Safety, SessionOwnsLockAndProgress, HeaderVerified,
        NeverOverwrittenWhileMounted, NoProgress
  <2>5. ImageIsTheUpload'
    BY <1>1, <2>1 DEF ImageIsTheUpload
  <2>6. ProgressIsOfTheReported'
    BY <1>1, <2>1, PackageAssumption
    DEF ProgressIsOfTheReported, Uploads, k_transfer_progress_max
  <2>7. Published'
    BY <1>2, <2>1 DEF Published, ActiveMeansMounted, ActiveVersionIsMounted
  <2>8. QED
    BY <2>3, <2>4, <2>5, <2>6, <2>7 DEF StoreInvariant, Safety
<1>5. CASE ~written
  <2> DEFINE i == [pkg |-> upload.pkg, length |-> 0, intact |-> upload.intact]
  <2>1. i \in Images
    BY <1>1, PackageAssumption DEF Uploads, Images
  <2>2. TransferFails(i) /\ TypeOK
    BY <1>5 DEF StoreInvariant
  <2>3. QED
    BY <1>2, <2>1, <2>2, TransferFailed
<1>6. QED
  BY <1>4, <1>5

\* One more chunk is written.
LEMMA ReadChunkStep ==
  ASSUME StoreInvariant, ReadChunk
  PROVE  StoreInvariant'
<1> USE DEF ReadChunk, published, bounds
<1>1. /\ received \in 0 .. Chunks /\ received < Chunks
      /\ received' = received + 1 /\ received' \in 0 .. Chunks
  BY PackageAssumption DEF StoreInvariant, TypeOK, UpdateType
<1>2. /\ upload \in Uploads
      /\ image' = [pkg |-> upload.pkg, length |-> received',
                   intact |-> upload.intact]
  BY <1>1 DEF StoreInvariant, Safety, ImageIsTheUpload
<1>3. image' \in Images
  <2>1. upload.pkg \in Packages /\ upload.intact \in BOOLEAN
    BY <1>2 DEF Uploads
  <2>2. ASSUME NEW n \in 0 .. Chunks
        PROVE  [pkg |-> upload.pkg, length |-> n, intact |-> upload.intact]
                 \in Images
    BY <2>1 DEF Images
  <2>3. QED
    BY <1>1, <1>2, <2>2
<1>4. TypeOK'
  BY <1>1, <1>3 DEF StoreInvariant, TypeOK, UpdateType, StoreType
<1>5. SessionOwnsLockAndProgress' /\ NeverOverwrittenWhileMounted'
  BY DEF StoreInvariant, Safety, SessionOwnsLockAndProgress,
         NeverOverwrittenWhileMounted
<1>6. ImageIsTheUpload'
  BY <1>2 DEF ImageIsTheUpload
<1>7. reported \in Int /\ received \in Int
  BY PackageAssumption DEF StoreInvariant, TypeOK, UpdateType
<1>8. ProgressIsOfTheReported'
  BY <1>1, <1>7 DEF StoreInvariant, Safety, ProgressIsOfTheReported
<1>9. Published'
  BY DEF StoreInvariant, Safety, SessionOwnsLockAndProgress, Published,
         NeverOverwrittenWhileMounted, ActiveMeansMounted,
         ActiveVersionIsMounted
<1>10. QED
  BY <1>4, <1>5, <1>6, <1>8, <1>9 DEF StoreInvariant, Safety

\* What next_progress computes: a percentage below 100, of what was received.
LEMMA NextProgressResult ==
  ASSUME StoreInvariant, session = "transfer"
  PROVE  /\ progress \in 0 .. k_transfer_progress_max
         /\ NextProgress \in progress .. k_transfer_progress_max
         /\ upload.declared > 0 =>
              NextProgress * upload.declared
                <= received * k_transfer_progress_max
<1> USE DEF k_transfer_progress_max
<1>1. /\ received \in Nat /\ reported \in Nat /\ reported <= received
      /\ upload.declared \in Nat
  BY PackageAssumption
  DEF StoreInvariant, Safety, TypeOK, UpdateType, ImageIsTheUpload, Uploads,
      ProgressIsOfTheReported
<1>2. progress \in 0 .. k_transfer_progress_max
  BY DEF StoreInvariant, Safety, TypeOK, UpdateType, NoProgress,
         SessionOwnsLockAndProgress
<1>3. CASE upload.declared = 0
  BY <1>1, <1>2, <1>3 DEF NextProgress
<1>4. CASE upload.declared > 0
  <2> DEFINE d == upload.declared
             a == received * k_transfer_progress_max
             pct == a \div d
  <2>1. a \in Nat /\ d \in Nat /\ d > 0
    BY <1>1, <1>4
  <2>2. progress * d <= a
    <3>1. progress * d <= reported * 99
      BY <1>4 DEF StoreInvariant, Safety, ProgressIsOfTheReported
    <3>2. progress * d \in Int /\ reported * 99 <= received * 99
      BY <1>1, <1>2
    <3>3. QED
      BY <1>1, <3>1, <3>2
  <2>3. pct \in Nat /\ pct * d <= a /\ progress <= pct
    BY <1>2, <2>1, <2>2, Quotient
  <2>4. NextProgress = IF pct < 99 THEN pct ELSE 99
    BY <1>4 DEF NextProgress
  <2> HIDE DEF pct, a, d
  <2>5. CASE pct < 99
    BY <1>2, <2>3, <2>4, <2>5 DEF a, d
  <2>6. CASE pct >= 99
    <3>1. NextProgress = 99
      BY <2>3, <2>4, <2>6
    <3>2. 99 * d <= pct * d
      BY <2>1, <2>3, <2>6
    <3>3. pct * d \in Nat
      BY <2>1, <2>3
    <3>4. QED
      BY <1>2, <2>1, <2>3, <3>1, <3>2, <3>3 DEF a, d
  <2>7. QED
    BY <2>3, <2>5, <2>6
<1>5. QED
  BY <1>1, <1>3, <1>4

LEMMA ProgressTickStep ==
  ASSUME StoreInvariant, ProgressTick
  PROVE  StoreInvariant'
<1> USE DEF ProgressTick, storage, published, bounds
<1>1. /\ progress' \in 0 .. k_transfer_progress_max
      /\ upload.declared > 0 =>
           progress' * upload.declared <= received * k_transfer_progress_max
  <2>1. k_transfer_progress_max \in Nat
    BY DEF k_transfer_progress_max
  <2>2. QED
    BY <2>1, NextProgressResult
<1>2. TypeOK'
  BY <1>1 DEF StoreInvariant, TypeOK, UpdateType, StoreType
<1>3. SessionOwnsLockAndProgress'
  BY <1>1 DEF StoreInvariant, Safety, SessionOwnsLockAndProgress, NoProgress,
              k_transfer_progress_max
<1>4. NeverOverwrittenWhileMounted' /\ ImageIsTheUpload'
  BY DEF StoreInvariant, Safety, NeverOverwrittenWhileMounted, ImageIsTheUpload
<1>5. received \in Int
  BY PackageAssumption DEF StoreInvariant, TypeOK, UpdateType
<1>6. ProgressIsOfTheReported'
  BY <1>1, <1>5 DEF ProgressIsOfTheReported
<1>7. Published'
  BY DEF StoreInvariant, Safety, Published, ActiveMeansMounted,
         ActiveVersionIsMounted, Verified
<1>8. QED
  BY <1>2, <1>3, <1>4, <1>6, <1>7 DEF StoreInvariant, Safety

\* The image that is mounted is the one on disk, with what was lost of it as the
\* file was closed.
LEMMA PayloadAcceptedStep ==
  ASSUME StoreInvariant, PayloadAccepted
  PROVE  StoreInvariant'
<1> USE DEF PayloadAccepted
<1>1. image' \in Images /\ IsOf(mounted, image')
  <2>1. image \in Images
    BY PackageAssumption
    DEF StoreInvariant, TypeOK, UpdateType, Safety, ImageIsTheUpload, Uploads,
        Images
  <2>2. mounted = NotMounted
    BY DEF StoreInvariant, Safety, NeverOverwrittenWhileMounted
  <2>3. QED
    BY <2>1, <2>2, BeginningResult DEF IsOf
<1>2. PICK m \in Mounts(mounted, image') :
        /\ mounted' = m.mounted
        /\ FinishUpdate(m.ok)
        /\ version' \in IF m.ok THEN Versions(m.mounted, version)
                        ELSE {version}
  OBVIOUS
<1>3. /\ m.ok \in BOOLEAN /\ mounted' \in MountType /\ IsOf(mounted', image')
      /\ m.ok => /\ m.mounted = [image |-> image', golden |-> TRUE]
                 /\ image'.length # 0
  BY <1>1, <1>2, MountResult DEF StoreInvariant, TypeOK, StoreType
<1>4. /\ UpdateType' /\ activation' = IF m.ok THEN "Active" ELSE "Failed"
      /\ session' = "none"
      /\ SessionOwnsLockAndProgress' /\ NeverOverwrittenWhileMounted'
      /\ ImageIsTheUpload' /\ ProgressIsOfTheReported'
  BY <1>2, <1>3, Finished DEF StoreInvariant
<1>5. /\ version' \in Packages \cup {"Unknown"}
      /\ m.ok /\ Verified(image') /\ image'.pkg \in Versioned
           => version' = image'.pkg
  BY <1>1, <1>2, <1>3, VersionResult DEF StoreInvariant, TypeOK, StoreType
<1>6. TypeOK'
  BY <1>1, <1>3, <1>4, <1>5
  DEF StoreInvariant, TypeOK, StoreType, bounds
<1>7. Published'
  BY <1>2, <1>3, <1>4, <1>5 DEF Published, ActiveMeansMounted,
     ActiveVersionIsMounted, Verified, IsOf
<1>8. QED
  BY <1>4, <1>6, <1>7 DEF StoreInvariant, Safety

\* What a run mounts is not published as Active.
LEMMA EnsureMountedStep ==
  ASSUME StoreInvariant, EnsureMounted
  PROVE  StoreInvariant'
<1> USE DEF EnsureMounted, MountMissing, storage, transfer, bounds
<1>1. IsOf(mounted, image)
  BY DEF StoreInvariant, Safety, Published, ActiveMeansMounted, IsOf
<1>2. PICK m \in Mounts(mounted, image) :
        /\ mounted' = m.mounted
        /\ version' \in IF m.ok THEN Versions(m.mounted, version)
                        ELSE {version}
  OBVIOUS
<1>3. /\ m.ok \in BOOLEAN /\ mounted' \in MountType /\ IsOf(mounted', image)
      /\ m.ok => /\ m.mounted = [image |-> image, golden |-> TRUE]
                 /\ image.length # 0
  BY <1>2, <1>1, MountResult DEF StoreInvariant, TypeOK, StoreType
<1>4. version' \in Packages \cup {"Unknown"}
  BY <1>2, <1>3, VersionResult DEF StoreInvariant, TypeOK, StoreType
<1>5. TypeOK'
  BY <1>3, <1>4 DEF StoreInvariant, TypeOK, UpdateType, StoreType
<1>6. session = "none" /\ activation # "Active"
  <2>1. session = "none"
    BY DEF StoreInvariant, Safety, SessionOwnsLockAndProgress
  <2>2. activation # "Active"
    <3>1. activation = "Active" => mounted.golden = TRUE
      BY DEF StoreInvariant, Safety, Published, ActiveMeansMounted
    <3>2. QED
      BY <3>1
  <2>3. QED
    BY <2>1, <2>2
<1>7. QED
  BY <1>3, <1>5, <1>6
  DEF StoreInvariant, Safety, SessionOwnsLockAndProgress, Published,
      NeverOverwrittenWhileMounted, ImageIsTheUpload, ProgressIsOfTheReported,
      ActiveMeansMounted, ActiveVersionIsMounted, IsOf

\* A new process publishes what it mounts; what it finds on disk is not known
\* to be verified.
LEMMA RestartStep ==
  ASSUME StoreInvariant, NEW reboot \in BOOLEAN, Restart(reboot)
  PROVE  StoreInvariant'
<1> DEFINE was == IF reboot THEN NotMounted ELSE mounted
<1> USE DEF Restart
<1>1. was \in MountType
  BY DEF StoreInvariant, TypeOK, StoreType, MountType, NotMounted
<1>2. image' \in Images \cup {NoImage}
  BY BeginningResult DEF StoreInvariant, TypeOK, StoreType
<1>3. IsOf(was, image')
  <2>1. CASE reboot \/ session = "transfer"
    BY <2>1
    DEF StoreInvariant, Safety, NeverOverwrittenWhileMounted, IsOf
  <2>2. CASE ~reboot /\ session # "transfer"
    BY <2>2 DEF StoreInvariant, Safety, Published, ActiveMeansMounted, IsOf
  <2>3. QED
    BY <2>1, <2>2
<1>4. PICK m \in Mounts(was, image') :
        /\ mounted' = m.mounted
        /\ version' \in Versions(m.mounted, "Unknown")
        /\ activation' = IF m.ok THEN "Active" ELSE "Failed"
  OBVIOUS
<1> HIDE DEF was
<1>5. /\ m.ok \in BOOLEAN /\ mounted' \in MountType /\ IsOf(mounted', image')
      /\ m.ok => /\ m.mounted = [image |-> image', golden |-> TRUE]
                 /\ image'.length # 0
  BY <1>1, <1>4, <1>2, <1>3, MountResult
<1>6. version' \in Packages \cup {"Unknown"}
  <2>1. m.mounted.image.pkg \in Packages \cup {"Unknown"}
    BY <1>4, <1>5 DEF MountType, Images, NoImage
  <2>2. QED
    BY <1>4, <2>1 DEF Versions
<1>7. m.ok /\ Verified(image') /\ image'.pkg \in Versioned
        => version' = image'.pkg
  BY <1>4, <1>5, <1>2, VersionResult
<1>8. /\ updating' = FALSE /\ session' = "none" /\ progress' = NoProgress
      /\ upload' = NoUpload /\ received' = 0 /\ reported' = 0
  OBVIOUS
<1>9. TypeOK'
  <2>1. UpdateType'
    <3>1. 0 \in 0 .. Chunks
      BY PackageAssumption
    <3>2. QED
      BY <1>8, <3>1 DEF UpdateType
  <2>2. StoreType'
    BY <1>4, <1>5, <1>6, <1>2 DEF StoreInvariant, TypeOK, StoreType
  <2>3. updates' \in 0 .. MaxUpdates /\ restarts' \in 0 .. MaxRestarts
    BY PackageAssumption DEF StoreInvariant, TypeOK
  <2>4. QED
    BY <2>1, <2>2, <2>3 DEF TypeOK
<1>10. SessionOwnsLockAndProgress'
  BY <1>4, <1>8 DEF SessionOwnsLockAndProgress
<1>11. Published'
  BY <1>4, <1>5, <1>7 DEF Published, ActiveMeansMounted,
     ActiveVersionIsMounted, Verified, IsOf
<1>12. QED
  BY <1>8, <1>9, <1>10, <1>11
  DEF StoreInvariant, Safety, NeverOverwrittenWhileMounted, ImageIsTheUpload,
      ProgressIsOfTheReported

-----------------------------------------------------------------------------
(* The store by itself *)

LEMMA InvariantInitially == Init => StoreInvariant
<1> SUFFICES ASSUME Init PROVE StoreInvariant
  OBVIOUS
<1> USE DEF Init
<1>1. TypeOK
  <2>1. NotMounted \in MountType
    BY DEF NotMounted, MountType
  <2>2. 0 \in 0 .. Chunks /\ 0 \in 0 .. MaxUpdates /\ 0 \in 0 .. MaxRestarts
    BY PackageAssumption
  <2>3. QED
    BY <2>1, <2>2 DEF TypeOK, UpdateType, StoreType
<1>2. QED
  BY <1>1
  DEF StoreInvariant, Safety, SessionOwnsLockAndProgress, Published,
      NeverOverwrittenWhileMounted, ImageIsTheUpload, ProgressIsOfTheReported,
      ActiveMeansMounted, ActiveVersionIsMounted

LEMMA InvariantStep == StoreInvariant /\ [Next]_vars => StoreInvariant'
<1> SUFFICES ASSUME StoreInvariant, [Next]_vars
             PROVE  StoreInvariant'
  OBVIOUS
<1>1. IsOf(mounted, image) /\ mounted \in MountType
  BY DEF StoreInvariant, Safety, Published, ActiveMeansMounted, IsOf, TypeOK,
         StoreType
<1>2. ASSUME NEW u \in Uploads, StartUpdate(u) PROVE StoreInvariant'
  BY <1>2, StartUpdateStep
<1>3. CASE HeaderFails
  BY <1>1, <1>3, RefusedUpdate DEF HeaderFails, storage
<1>4. CASE TeardownFails \/ OpenFails
  <2>1. PICK t \in Teardowns(mounted) : mounted' = t.mounted
    BY <1>4 DEF TeardownFails, OpenFails
  <2>2. t.mounted \in MountType /\ IsOf(t.mounted, image)
    BY <1>1, TeardownResult
  <2>3. mounted' \in MountType /\ IsOf(mounted', image)
    BY <2>1, <2>2
  <2>4. QED
    BY <1>4, <2>3, RefusedUpdate DEF TeardownFails, OpenFails, HeaderVerified
<1>5. ASSUME NEW n \in 0 .. Chunks, NEW written \in BOOLEAN,
             StartTransfer(n, written)
      PROVE  StoreInvariant'
  BY <1>5, StartTransferStep
<1>6. CASE ReadChunk
  BY <1>6, ReadChunkStep
<1>7. CASE WriteOrTimeoutFails \/ PayloadRejected
  BY <1>7, TransferFailed
  DEF WriteOrTimeoutFails, PayloadRejected, StoreInvariant, TypeOK, StoreType,
      Safety, NeverOverwrittenWhileMounted
<1>8. CASE PayloadAccepted
  BY <1>8, PayloadAcceptedStep
<1>9. CASE ProgressTick
  BY <1>9, ProgressTickStep
<1>10. CASE EnsureMounted
  BY <1>10, EnsureMountedStep
<1>11. CASE StorageFault
  BY <1>11
  DEF StorageFault, StoreInvariant, Safety, TypeOK, UpdateType, StoreType,
      transfer, published, bounds, SessionOwnsLockAndProgress, Published,
      NeverOverwrittenWhileMounted, ImageIsTheUpload, ProgressIsOfTheReported,
      ActiveMeansMounted, ActiveVersionIsMounted, Verified
<1>12. ASSUME NEW reboot \in BOOLEAN, Restart(reboot) PROVE StoreInvariant'
  BY <1>12, RestartStep
<1>13. CASE UNCHANGED vars
  BY <1>13
  DEF vars, StoreInvariant, Safety, TypeOK, UpdateType, StoreType, storage,
      transfer, published, bounds, SessionOwnsLockAndProgress, Published,
      NeverOverwrittenWhileMounted, ImageIsTheUpload, ProgressIsOfTheReported,
      ActiveMeansMounted, ActiveVersionIsMounted, Verified
<1>14. QED
  BY <1>2, <1>3, <1>4, <1>5, <1>6, <1>7, <1>8, <1>9, <1>10, <1>11, <1>12, <1>13
  DEF Next, SessionStep

\* Of one step: a refused header changes neither the image nor the mounts.
LEMMA RefusedHeaderStep ==
  ASSUME StoreInvariant, [Next]_vars, session = "peek", ~upload.header,
         restarts' = restarts
  PROVE  UNCHANGED <<image, mounted>>
<1>1. updating /\ ~HeaderVerified /\ restarts' # restarts + 1
  <2>1. updating /\ ~HeaderVerified
    BY DEF StoreInvariant, Safety, SessionOwnsLockAndProgress, HeaderVerified
  <2>2. restarts' # restarts + 1
    BY DEF StoreInvariant, TypeOK
  <2>3. QED
    BY <2>1, <2>2
<1>2. \/ HeaderFails \/ ProgressTick \/ StorageFault \/ UNCHANGED vars
  BY <1>1
  DEF Next, SessionStep, StartUpdate, TeardownFails, OpenFails, StartTransfer,
      ReadChunk, WriteOrTimeoutFails, PayloadRejected, PayloadAccepted,
      EnsureMounted, MountMissing, Restart
<1>3. QED
  BY <1>2 DEF HeaderFails, ProgressTick, StorageFault, vars, storage

\* Of one step: a percentage moves up to 99 at most.
LEMMA ProgressStep ==
  ASSUME StoreInvariant, [Next]_vars, session = "transfer",
         session' = "transfer"
  PROVE  progress' \in progress .. k_transfer_progress_max
<1>1. /\ updating /\ ~HeaderVerified
      /\ progress \in 0 .. k_transfer_progress_max
  BY NextProgressResult
  DEF StoreInvariant, Safety, SessionOwnsLockAndProgress, HeaderVerified
<1>2. progress \in progress .. k_transfer_progress_max
  BY <1>1 DEF k_transfer_progress_max
<1>3. ProgressTick \/ progress' = progress
  BY <1>1
  DEF Next, SessionStep, StartUpdate, HeaderFails, TeardownFails, OpenFails,
      StartTransfer, ReadChunk, WriteOrTimeoutFails, PayloadRejected,
      PayloadAccepted, TransferFails, FinishUpdate, EnsureMounted,
      MountMissing, StorageFault, Restart, vars
<1>4. QED
  BY <1>2, <1>3, NextProgressResult DEF ProgressTick

\* Of one step: what the end of an update leaves in the image file.
LEMMA EndOfUpdateStep ==
  ASSUME StoreInvariant, [Next]_vars, session # "none", session' = "none",
         restarts' = restarts
  PROVE  \/ /\ session = "transfer" /\ Verified(image)
            /\ image' \in Beginnings(image)
         \/ /\ activation' = "Failed"
            /\ \/ image' = NoImage
               \/ session = "peek" /\ image' = image
               \/ fs = "ro" /\ image' \in Beginnings(image)
<1>1. /\ updating /\ restarts' # restarts + 1
      /\ fs \in {"rw", "ro"}
  <2>1. updating /\ fs \in {"rw", "ro"}
    BY DEF StoreInvariant, TypeOK, StoreType, Safety, SessionOwnsLockAndProgress
  <2>2. restarts' # restarts + 1
    BY DEF StoreInvariant, TypeOK
  <2>3. QED
    BY <2>1, <2>2
<1>2. \/ HeaderFails \/ TeardownFails \/ OpenFails
      \/ \E n \in 0 .. Chunks, written \in BOOLEAN : StartTransfer(n, written)
      \/ WriteOrTimeoutFails \/ PayloadRejected \/ PayloadAccepted
  BY <1>1
  DEF Next, SessionStep, StartUpdate, ReadChunk, ProgressTick, EnsureMounted,
      MountMissing, StorageFault, Restart, vars, transfer
<1>3. CASE HeaderFails \/ TeardownFails \/ OpenFails
  BY <1>3
  DEF HeaderFails, TeardownFails, OpenFails, HeaderVerified, FinishUpdate,
      storage
<1>4. ASSUME NEW n \in 0 .. Chunks, NEW written \in BOOLEAN,
             StartTransfer(n, written)
      PROVE  activation' = "Failed" /\ image' = NoImage
  BY <1>4 DEF StartTransfer, TransferFails, Discard, FinishUpdate
<1>5. CASE WriteOrTimeoutFails \/ PayloadRejected
  BY <1>1, <1>5
  DEF WriteOrTimeoutFails, PayloadRejected, TransferFails, Discard, FinishUpdate
<1>6. CASE PayloadAccepted
  BY <1>6 DEF PayloadAccepted, PayloadVerified
<1>7. QED
  BY <1>2, <1>3, <1>4, <1>5, <1>6

\* In every reachable state of a store that is updated and mounted by itself the
\* lock, the mounts, the image and what is published agree.
THEOREM StoreIsSafe == Spec => []StoreInvariant
BY InvariantInitially, InvariantStep, PTL DEF Spec

-----------------------------------------------------------------------------
(* Runs beside updates: the inductive invariant *)

\* A run and an update are never under way together, which neither guard says
\* alone: start_ist looks at the lock, start_update at the stage.
RunExcludesUpdate == phase # "ready" => ~updating

DaemonInvariant == StoreInvariant /\ RunExcludesUpdate /\ TestedIsChecked

-----------------------------------------------------------------------------
(* The steps of the daemon *)

\* Seen from the store, a step of the daemon is one of its own or none.
LEMMA StepOfTheStore == [ComposedNext]_allVars => [Next]_vars
<1> SUFFICES ASSUME [ComposedNext]_allVars PROVE [Next]_vars
  OBVIOUS
<1>1. ASSUME NEW u \in Uploads, RequestUpdate(u) PROVE Next
  BY <1>1 DEF RequestUpdate, Next
<1>2. CASE RefusedRun
  BY <1>2 DEF RefusedRun, Next
<1>3. CASE BeginRun
  BY <1>3 DEF BeginRun, MountForRun, Next
<1>4. CASE RunStep
  BY <1>4 DEF RunStep
<1>5. CASE UpdateStep
  BY <1>5 DEF UpdateStep, Next
<1>6. CASE StoreStep
  BY <1>6 DEF StoreStep, Next
<1>7. CASE RestartAll
  BY <1>7 DEF RestartAll, Next
<1>8. CASE UNCHANGED allVars
  BY <1>8 DEF allVars
<1>9. QED
  BY <1>1, <1>2, <1>3, <1>4, <1>5, <1>6, <1>7, <1>8 DEF ComposedNext

LEMMA DaemonInitially == ComposedInit => DaemonInvariant
<1> SUFFICES ASSUME ComposedInit PROVE DaemonInvariant
  OBVIOUS
<1>1. StoreInvariant
  BY InvariantInitially DEF ComposedInit
<1>2. RunExcludesUpdate /\ TestedIsChecked
  BY DEF ComposedInit, Run!Init, RunExcludesUpdate, TestedIsChecked
<1>3. QED
  BY <1>1, <1>2 DEF DaemonInvariant

\* A handler of an update runs in a session, which holds the lock.
LEMMA SessionHoldsLock ==
  ASSUME StoreInvariant, SessionStep
  PROVE  updating
<1>1. session # "none"
  BY DEF SessionStep, HeaderFails, TeardownFails, OpenFails, StartTransfer,
         ReadChunk, WriteOrTimeoutFails, PayloadRejected, PayloadAccepted,
         HeaderVerified
<1>2. QED
  BY <1>1 DEF StoreInvariant, Safety, SessionOwnsLockAndProgress

\* During a run nothing is unmounted or mounted.
LEMMA DaemonStep ==
  DaemonInvariant /\ [ComposedNext]_allVars => DaemonInvariant'
<1> SUFFICES ASSUME DaemonInvariant, [ComposedNext]_allVars
             PROVE  DaemonInvariant'
  OBVIOUS
<1> USE DEF RunExcludesUpdate, TestedIsChecked
<1>1. StoreInvariant'
  BY StepOfTheStore, InvariantStep DEF DaemonInvariant
<1>2. RunExcludesUpdate' /\ TestedIsChecked'
  <2>1. ASSUME NEW u \in Uploads, RequestUpdate(u)
        PROVE  RunExcludesUpdate' /\ TestedIsChecked'
    BY <2>1 DEF RequestUpdate, CanUpdate
  <2>2. CASE RefusedRun
    BY <2>2 DEF RefusedRun, CanStart
  <2>3. CASE BeginRun
    <3>1. updating' = updating
      BY <2>3 DEF BeginRun, MountForRun, EnsureMounted, vars
    <3>2. QED
      BY <2>3, <3>1 DEF BeginRun, CanStart
  <2>4. CASE RunStep
    <3>1. phase # "ready" /\ UNCHANGED <<updating, mounted, checked>>
      BY <2>4
      DEF RunStep, vars, Run!Arm, Run!Armed, Run!Test, Run!Release,
          Run!Refuse, Run!Save, Run!End, Run!Move
    <3>2. QED
      BY <3>1 DEF DaemonInvariant
  <2>5. CASE UpdateStep
    <3>1. phase = "ready" /\ phase' = phase
      BY <2>5, SessionHoldsLock DEF UpdateStep, DaemonInvariant
    <3>2. QED
      BY <3>1
  <2>6. CASE StoreStep
    BY <2>6 DEF StoreStep, ProgressTick, StorageFault, DaemonInvariant
  <2>7. CASE RestartAll
    BY <2>7 DEF RestartAll
  <2>8. CASE UNCHANGED allVars
    BY <2>8 DEF allVars, vars, DaemonInvariant
  <2>9. QED
    BY <2>1, <2>2, <2>3, <2>4, <2>5, <2>6, <2>7, <2>8 DEF ComposedNext
<1>3. QED
  BY <1>1, <1>2 DEF DaemonInvariant

\* Each step of the daemon is one of the run protocol or leaves it alone.
LEMMA ProtocolStep ==
  DaemonInvariant /\ [ComposedNext]_allVars => [Run!Next]_(Run!vars)
<1> SUFFICES ASSUME DaemonInvariant, [ComposedNext]_allVars
             PROVE  [Run!Next]_(Run!vars)
  OBVIOUS
<1> USE DEF Run!Next, Run!vars
<1>1. ASSUME NEW u \in Uploads, RequestUpdate(u) PROVE Run!Update
  BY <1>1 DEF RequestUpdate, CanUpdate, StartUpdate, Run!Update
<1>2. CASE RefusedRun
  BY <1>2 DEF RefusedRun, EnsureMounted
<1>3. CASE BeginRun
  <2>1. updating' = updating
    BY <1>3 DEF BeginRun, MountForRun, EnsureMounted, vars
  <2>2. Run!Begin
    BY <1>3, <2>1 DEF BeginRun, CanStart, Run!Begin, Run!Move
  <2>3. QED
    BY <2>2
<1>4. CASE RunStep
  BY <1>4 DEF RunStep
<1>5. CASE UpdateStep
  <2>1. updating /\ phase = "ready" /\ phase' = phase
    BY <1>5, SessionHoldsLock
    DEF UpdateStep, DaemonInvariant, RunExcludesUpdate
  <2>2. StoreInvariant'
    BY StepOfTheStore, InvariantStep DEF DaemonInvariant
  <2>3. updating' \in BOOLEAN
    BY <2>2 DEF StoreInvariant, TypeOK, UpdateType
  <2>4. QED
    BY <2>1, <2>3 DEF Run!Update
<1>6. CASE StoreStep
  BY <1>6 DEF StoreStep, ProgressTick, StorageFault
<1>7. CASE RestartAll
  BY <1>7 DEF RestartAll, Restart, Run!Restart
<1>8. CASE UNCHANGED allVars
  BY <1>8 DEF allVars, vars
<1>9. QED
  BY <1>1, <1>2, <1>3, <1>4, <1>5, <1>6, <1>7, <1>8 DEF ComposedNext

-----------------------------------------------------------------------------
(* The theorems about the daemon *)

\* The inductive invariant of the daemon holds in every reachable state.
THEOREM DaemonIsSafe == ComposedSpec => []DaemonInvariant
BY DaemonInitially, DaemonStep, PTL DEF ComposedSpec

\* The update lock and the progress interface belong to the session.
THEOREM SessionHasItsLock == ComposedSpec => []SessionOwnsLockAndProgress
<1>1. DaemonInvariant => SessionOwnsLockAndProgress
  BY DEF DaemonInvariant, StoreInvariant, Safety
<1>2. QED
  BY <1>1, DaemonIsSafe, PTL

\* The image is never overwritten under a mount.
THEOREM OverwrittenUnmounted == ComposedSpec => []NeverOverwrittenWhileMounted
<1>1. DaemonInvariant => NeverOverwrittenWhileMounted
  BY DEF DaemonInvariant, StoreInvariant, Safety
<1>2. QED
  BY <1>1, DaemonIsSafe, PTL

\* What is mounted is of the image on disk, and Active means all of it.
THEOREM ActiveIsMounted == ComposedSpec => []ActiveMeansMounted
<1>1. DaemonInvariant => ActiveMeansMounted
  BY DEF DaemonInvariant, StoreInvariant, Safety, Published
<1>2. QED
  BY <1>1, DaemonIsSafe, PTL

\* The version published with Active is that of what is mounted.
THEOREM ActiveVersionIsRight == ComposedSpec => []ActiveVersionIsMounted
<1>1. DaemonInvariant => ActiveVersionIsMounted
  BY DEF DaemonInvariant, StoreInvariant, Safety, Published
<1>2. QED
  BY <1>1, DaemonIsSafe, PTL

\* However an update ends, it leaves an image as good only if all that was read
\* of it was verified: on any storage, and after any number of restarts.
THEOREM UnverifiedImagesGo == ComposedSpec => OnlyVerifiedImagesStay
<1>1. DaemonInvariant /\ [ComposedNext]_allVars
        => [session # "none" /\ session' = "none" /\ restarts' = restarts
              => \/ /\ session = "transfer" /\ Verified(image)
                    /\ image' \in Beginnings(image)
                 \/ /\ activation' = "Failed"
                    /\ \/ image' = NoImage
                       \/ session = "peek" /\ image' = image
                       \/ fs = "ro" /\ image' \in Beginnings(image)]_vars
  BY StepOfTheStore, EndOfUpdateStep DEF DaemonInvariant
<1>2. QED
  BY <1>1, DaemonIsSafe, PTL DEF ComposedSpec, OnlyVerifiedImagesStay

\* What kist_itm is launched from is what the signature check has read.
THEOREM CheckedIsTested == ComposedSpec => []TestedIsChecked
<1>1. DaemonInvariant => TestedIsChecked
  BY DEF DaemonInvariant
<1>2. QED
  BY <1>1, DaemonIsSafe, PTL

\* A refused header disturbs neither the image nor its mounts.
THEOREM HeaderIsCheckedFirst == ComposedSpec => RefusedHeaderDisturbsNothing
<1>1. DaemonInvariant /\ [ComposedNext]_allVars
        => [session = "peek" /\ ~upload.header /\ restarts' = restarts
              => UNCHANGED <<image, mounted>>]_vars
  BY StepOfTheStore, RefusedHeaderStep DEF DaemonInvariant
<1>2. QED
  BY <1>1, DaemonIsSafe, PTL DEF ComposedSpec, RefusedHeaderDisturbsNothing

\* The percentage of a transfer goes up, and not to 100.
THEOREM ProgressGoesUp == ComposedSpec => ProgressNeverGoesBack
<1>1. DaemonInvariant /\ [ComposedNext]_allVars
        => [session = "transfer" /\ session' = "transfer"
              => progress' \in progress .. k_transfer_progress_max]_vars
  BY StepOfTheStore, ProgressStep DEF DaemonInvariant
<1>2. QED
  BY <1>1, DaemonIsSafe, PTL DEF ComposedSpec, ProgressNeverGoesBack

\* Runs and updates together implement RunProtocol.
THEOREM DaemonFollowsProtocol == ComposedSpec => RunFollowsProtocol
<1>1. ComposedInit => Run!Init
  BY DEF ComposedInit
<1>2. QED
  BY <1>1, ProtocolStep, DaemonIsSafe, PTL
  DEF ComposedSpec, RunFollowsProtocol, Run!Spec
=============================================================================
