------------------------ MODULE ResultsArchive_proofs ------------------------
(***************************************************************************)
(* The archive of a run, for every set of result files, length of them and *)
(* number of runs: nothing is lost on its way into the archive, a client   *)
(* keeps what it was handed, and the session of many turns is the one step *)
(* that the run state machine takes it for.                                *)
(***************************************************************************)
EXTENDS ResultsArchive, TLAPS

-----------------------------------------------------------------------------
(* The inductive invariant *)

\* Only the object of a run is asked for an archive.
RunHasObject == /\ ~object => phase = "failed"
                /\ object => run > 0

\* A run starts from a directory that was wiped, if it could be.
NothingBeforeTheArchive == fs = "rw" /\ phase \in {"run", "asked"} => path = 0

\* What is served while the service is idle: a closed archive of this run.
OnlyWholeIsLeft ==
    fs = "rw" /\ object /\ Idle /\ path # 0 =>
        inodes[path].whole /\ inodes[path].run = run

\* The archive that is being written is this run's, open, and nobody's yet.
ArchiveIsOpen ==
    phase = "archiving" =>
        /\ path # 0 /\ inodes[path].run = run /\ ~inodes[path].whole
        /\ \A fd \in served : fd.inode # path

\* Every file there is awaits its turn, or is in the archive and could not be
\* removed.
ListedOrPacked ==
    phase = "archiving" =>
        /\ todo \subseteq Present /\ Present \subseteq todo \cup Packed
        /\ fs = "rw" => Present = todo

\* A file only grows once the archive was asked for.
AskedIsThere ==
    \A f \in Files :
        phase = "asked" \/ (phase = "archiving" /\ f \in todo) =>
            asked[f] <= size[f]

\* What had its turn is in the archive as far as it went when it was asked for.
PackedInItsTurn ==
    phase = "archiving" =>
        \A f \in Files \ todo : inodes[path].packed[f] >= asked[f]

\* The entry that is open holds what was read of the file, and no more than
\* the header announced.
EntryIsOpen ==
    phase = "archiving" /\ entry # NoEntry =>
        /\ entry \in todo /\ pos \in 0 .. size[entry] /\ declared >= 0
        /\ declared >= asked[entry]
        /\ inodes[path].packed[entry] = Min({pos, declared})

\* No entry is open between sessions.
NoEntryIsOpen == phase # "archiving" => entry = NoEntry

Safety == /\ RunHasObject /\ NothingBeforeTheArchive /\ OnlyWholeIsLeft
          /\ ArchiveIsOpen /\ ListedOrPacked /\ AskedIsThere /\ PackedInItsTurn
          /\ EntryIsOpen /\ NoEntryIsOpen
          /\ PackedBeforeRemoved /\ ServedArchiveIsFinal

ArchiveInvariant == TypeOK /\ Safety

-----------------------------------------------------------------------------
(* The operators *)

\* The smaller of two numbers, as the header and the file bound an entry.
LEMMA MinOfTwo ==
  ASSUME NEW a \in Int, NEW b \in Int
  PROVE  Min({a, b}) = IF a <= b THEN a ELSE b
<1>1. \A m \in {a, b} : (\A y \in {a, b} : m <= y) =>
          m = IF a <= b THEN a ELSE b
  OBVIOUS
<1>2. \E m \in {a, b} : \A y \in {a, b} : m <= y
  OBVIOUS
<1>3. QED
  BY <1>1, <1>2 DEF Min

\* What a turn of the session changes of the archives.
Entered(q, i, f, n) == [q EXCEPT ![i].packed[f] = n]

Closed(q, i) == [q EXCEPT ![i].whole = TRUE]

LEMMA EntryWritten ==
  ASSUME NEW q \in Seq(Archives), NEW i \in 1 .. Len(q), NEW f \in Files,
         NEW n \in Absent .. MaxBlocks
  PROVE  LET r == Entered(q, i, f, n) IN
         /\ r \in Seq(Archives) /\ Len(r) = Len(q)
         /\ \A k \in 1 .. Len(q) : k # i => r[k] = q[k]
         /\ r[i].run = q[i].run /\ r[i].whole = q[i].whole
         /\ r[i].packed = [q[i].packed EXCEPT ![f] = n]
<1> DEFINE a == [q[i] EXCEPT !.packed = [q[i].packed EXCEPT ![f] = n]]
<1>1. q[i] \in Archives
  OBVIOUS
<1>2. [q[i].packed EXCEPT ![f] = n] \in [Files -> Absent .. MaxBlocks]
  BY <1>1 DEF Archives
<1>3. a \in Archives
  BY <1>1, <1>2 DEF Archives
<1>4. /\ a.run = q[i].run /\ a.whole = q[i].whole
      /\ a.packed = [q[i].packed EXCEPT ![f] = n]
  BY <1>1, <1>2 DEF Archives
<1>5. Entered(q, i, f, n) = [q EXCEPT ![i] = a]
  BY DEF Entered
<1> HIDE DEF a
<1>6. QED
  BY <1>3, <1>4, <1>5

LEMMA ArchiveClosed ==
  ASSUME NEW q \in Seq(Archives), NEW i \in 1 .. Len(q)
  PROVE  LET r == Closed(q, i) IN
         /\ r \in Seq(Archives) /\ Len(r) = Len(q)
         /\ \A k \in 1 .. Len(q) : k # i => r[k] = q[k]
         /\ r[i].run = q[i].run /\ r[i].whole
         /\ r[i].packed = q[i].packed
<1> DEFINE a == [q[i] EXCEPT !.whole = TRUE]
<1>1. q[i] \in Archives
  OBVIOUS
<1>2. a \in Archives
  BY <1>1 DEF Archives
<1>3. a.run = q[i].run /\ a.whole /\ a.packed = q[i].packed
  BY <1>1 DEF Archives
<1>4. Closed(q, i) = [q EXCEPT ![i] = a]
  BY DEF Closed
<1> HIDE DEF a
<1>5. /\ Closed(q, i) \in Seq(Archives) /\ Len(Closed(q, i)) = Len(q)
      /\ \A k \in 1 .. Len(q) : k # i => Closed(q, i)[k] = q[k]
      /\ Closed(q, i)[i] = a
  BY <1>2, <1>4
<1>6. QED
  BY <1>3, <1>5

\* A new archive.
LEMMA ArchiveOpened ==
  ASSUME TypeOK, run > 0, NEW new,
         new = [run |-> run, packed |-> NoFiles, whole |-> FALSE]
  PROVE  /\ new \in Archives /\ new.run = run /\ ~new.whole
         /\ \A f \in Files : new.packed[f] = Absent
<1>1. Absent \in Absent .. MaxBlocks
  BY BoundsAssumption DEF Absent
<1>2. run \in 1 .. MaxRuns
  BY BoundsAssumption DEF TypeOK
<1>3. QED
  BY <1>1, <1>2 DEF Archives, NoFiles

-----------------------------------------------------------------------------
(* The steps *)

LEMMA InitiallySafe == Init => ArchiveInvariant
<1> SUFFICES ASSUME Init PROVE ArchiveInvariant
  OBVIOUS
<1>1. NoFiles \in [Files -> Absent .. MaxBlocks]
  BY BoundsAssumption DEF NoFiles, Absent
<1>2. inodes \in Seq(Archives) /\ path \in 0 .. Len(inodes)
  BY DEF Init
<1>3. run \in 0 .. MaxRuns /\ {declared, pos} \subseteq Absent .. MaxBlocks
  BY BoundsAssumption DEF Init, Absent
<1>4. TypeOK
  BY <1>1, <1>2, <1>3 DEF Init, TypeOK
<1>5. PackedBeforeRemoved /\ ServedArchiveIsFinal
  BY DEF Init, PackedBeforeRemoved, ServedArchiveIsFinal
<1>6. QED
  BY <1>4, <1>5
     DEF Init, ArchiveInvariant, Safety, RunHasObject, NothingBeforeTheArchive,
         OnlyWholeIsLeft, ArchiveIsOpen, ListedOrPacked, AskedIsThere,
         PackedInItsTurn, EntryIsOpen, NoEntryIsOpen, Idle

LEMMA StartRunIsSafe == ArchiveInvariant /\ StartRun => ArchiveInvariant'
<1> SUFFICES ASSUME ArchiveInvariant, StartRun PROVE ArchiveInvariant'
  OBVIOUS
<1> USE DEF ArchiveInvariant, Safety
<1>1. NoFiles \in [Files -> Absent .. MaxBlocks]
  BY BoundsAssumption DEF NoFiles, Absent
<1>2. TypeOK'
  BY <1>1, BoundsAssumption DEF TypeOK, StartRun, session, WipedArchive
<1>3. RunHasObject' /\ NothingBeforeTheArchive'
  BY BoundsAssumption
     DEF RunHasObject, NothingBeforeTheArchive, StartRun, TypeOK, WipedArchive
<1>4. ServedArchiveIsFinal'
  BY DEF ServedArchiveIsFinal, StartRun
<1>5. NoEntryIsOpen'
  BY DEF NoEntryIsOpen, StartRun, session, Idle
<1>6. QED
  BY <1>2, <1>3, <1>4, <1>5
     DEF StartRun, OnlyWholeIsLeft, ArchiveIsOpen, ListedOrPacked, Idle,
         AskedIsThere, PackedInItsTurn, EntryIsOpen, PackedBeforeRemoved

LEMMA WriteIsSafe ==
  ASSUME ArchiveInvariant, NEW f \in Files, Write(f)
  PROVE  ArchiveInvariant'
<1> USE DEF ArchiveInvariant, Safety
<1>1. /\ size' \in [Files -> Absent .. MaxBlocks]
      /\ \A g \in Files : size'[g] >= size[g] /\ size'[g] <= MaxBlocks
      /\ phase # "run" => Present' = Present
  BY BoundsAssumption DEF Write, TypeOK, Absent, Present
<1>2. TypeOK'
  BY <1>1 DEF TypeOK, Write, service, session
<1>3. ListedOrPacked' /\ PackedBeforeRemoved'
  BY <1>1 DEF ListedOrPacked, PackedBeforeRemoved, Packed, Write, service,
              session
<1>4. AskedIsThere'
  BY <1>1 DEF AskedIsThere, Write, service, session, TypeOK, Absent
<1>5. EntryIsOpen'
  BY <1>1 DEF EntryIsOpen, Write, service, session, TypeOK, Absent
<1>6. QED
  BY <1>2, <1>3, <1>4, <1>5
     DEF Write, service, session, RunHasObject, NothingBeforeTheArchive, Idle,
         OnlyWholeIsLeft, ArchiveIsOpen, PackedInItsTurn, NoEntryIsOpen,
         ServedArchiveIsFinal

LEMMA ArchiveResultsIsSafe ==
  ArchiveInvariant /\ ArchiveResults => ArchiveInvariant'
<1> SUFFICES ASSUME ArchiveInvariant, ArchiveResults PROVE ArchiveInvariant'
  OBVIOUS
<1> USE DEF ArchiveInvariant, Safety
<1>1. TypeOK'
  BY DEF TypeOK, ArchiveResults, session, Present
<1>2. AskedIsThere'
  BY DEF AskedIsThere, ArchiveResults, session, TypeOK, Absent
<1>3. QED
  BY <1>1, <1>2
     DEF ArchiveResults, session, RunHasObject, NothingBeforeTheArchive, Idle,
         OnlyWholeIsLeft, ArchiveIsOpen, ListedOrPacked, PackedInItsTurn,
         EntryIsOpen, NoEntryIsOpen, PackedBeforeRemoved, ServedArchiveIsFinal

LEMMA OpenIsSafe == ArchiveInvariant /\ Open => ArchiveInvariant'
<1> SUFFICES ASSUME ArchiveInvariant, Open PROVE ArchiveInvariant'
  OBVIOUS
<1> USE DEF ArchiveInvariant, Safety
<1> DEFINE new == [run |-> run, packed |-> NoFiles, whole |-> FALSE]
<1>1. path = 0 /\ run > 0
  BY DEF Open, NothingBeforeTheArchive, RunHasObject
<1>2. /\ new \in Archives /\ new.run = run /\ ~new.whole
      /\ \A f \in Files : new.packed[f] = Absent
  BY <1>1, ArchiveOpened
<1>3. inodes' = Append(inodes, new) /\ path' = Len(inodes) + 1
  BY <1>1 DEF Open
<1> HIDE DEF new
<1>4. /\ inodes' \in Seq(Archives) /\ Len(inodes') = Len(inodes) + 1
      /\ inodes'[path'] = new
      /\ \A i \in 1 .. Len(inodes) : inodes'[i] = inodes[i]
  BY <1>2, <1>3 DEF TypeOK
<1>5. TypeOK'
  BY <1>3, <1>4 DEF TypeOK, Open, Present
<1>6. ArchiveIsOpen'
  BY <1>2, <1>3, <1>4 DEF ArchiveIsOpen, Open, TypeOK
<1>7. ListedOrPacked'
  BY DEF ListedOrPacked, Open, Present
<1>8. AskedIsThere'
  BY DEF AskedIsThere, Open
<1>9. PackedInItsTurn' /\ PackedBeforeRemoved'
  BY <1>2, <1>4
     DEF PackedInItsTurn, PackedBeforeRemoved, AskedIsThere, Open, Present,
         TypeOK, Absent
<1>10. ServedArchiveIsFinal'
  BY <1>4 DEF ServedArchiveIsFinal, Open, TypeOK
<1>11. QED
  BY <1>5, <1>6, <1>7, <1>8, <1>9, <1>10
     DEF Open, RunHasObject, NothingBeforeTheArchive, OnlyWholeIsLeft, Idle,
         EntryIsOpen, NoEntryIsOpen

LEMMA BeginEntryIsSafe ==
  ASSUME ArchiveInvariant, NEW f \in Files, BeginEntry(f)
  PROVE  ArchiveInvariant'
<1> USE DEF ArchiveInvariant, Safety
<1>1. path \in 1 .. Len(inodes) /\ 0 \in Absent .. MaxBlocks
  BY BoundsAssumption DEF BeginEntry, ArchiveIsOpen, TypeOK, Absent
<1>2. /\ inodes' \in Seq(Archives) /\ Len(inodes') = Len(inodes)
      /\ \A k \in 1 .. Len(inodes) : k # path => inodes'[k] = inodes[k]
      /\ inodes'[path].run = inodes[path].run
      /\ inodes'[path].whole = inodes[path].whole
      /\ inodes'[path].packed = [inodes[path].packed EXCEPT ![f] = 0]
  <2>1. inodes' = Entered(inodes, path, f, 0)
    BY DEF BeginEntry, Entered
  <2>2. inodes \in Seq(Archives)
    BY DEF TypeOK
  <2>3. QED
    BY <1>1, <2>1, <2>2, EntryWritten
<1>3. /\ size[f] \in 0 .. MaxBlocks
      /\ inodes[path].packed \in [Files -> Absent .. MaxBlocks]
  <2>1. f \in Present /\ size \in [Files -> Absent .. MaxBlocks]
    BY DEF BeginEntry, ListedOrPacked, TypeOK
  <2>2. inodes[path] \in Archives
    BY <1>1 DEF TypeOK
  <2>3. QED
    BY <2>1, <2>2, BoundsAssumption DEF Present, Absent, Archives
<1>4. TypeOK'
  BY <1>1, <1>2, <1>3 DEF TypeOK, BeginEntry, service
<1>5. ArchiveIsOpen' /\ ListedOrPacked'
  BY <1>2, <1>3
     DEF ArchiveIsOpen, ListedOrPacked, BeginEntry, service, Present, Packed,
         Absent
<1>6. PackedInItsTurn' /\ PackedBeforeRemoved'
  BY <1>2, <1>3
     DEF PackedInItsTurn, PackedBeforeRemoved, ListedOrPacked, BeginEntry,
         service, Present
<1>7. EntryIsOpen'
  <2>1. inodes'[path].packed[f] = 0
    BY <1>2, <1>3
  <2>2. Min({0, size[f]}) = 0
    BY <1>3, MinOfTwo
  <2>3. asked[f] <= size[f]
    BY DEF AskedIsThere, BeginEntry
  <2>4. QED
    BY <1>3, <2>1, <2>2, <2>3 DEF EntryIsOpen, BeginEntry, service
<1>8. ServedArchiveIsFinal'
  BY <1>2 DEF ServedArchiveIsFinal, ArchiveIsOpen, BeginEntry, TypeOK
<1>9. QED
  BY <1>4, <1>5, <1>6, <1>7, <1>8
     DEF BeginEntry, service, RunHasObject, NothingBeforeTheArchive, Idle,
         OnlyWholeIsLeft, AskedIsThere, NoEntryIsOpen

LEMMA PumpMoreIsSafe == ArchiveInvariant /\ PumpMore => ArchiveInvariant'
<1> SUFFICES ASSUME ArchiveInvariant, PumpMore PROVE ArchiveInvariant'
  OBVIOUS
<1> USE DEF ArchiveInvariant, Safety
<1> DEFINE n == Min({pos + 1, declared})
<1>1. /\ path \in 1 .. Len(inodes) /\ entry \in Files
      /\ pos \in 0 .. size[entry] - 1 /\ size[entry] \in 0 .. MaxBlocks
      /\ declared \in 0 .. MaxBlocks
  BY BoundsAssumption
     DEF PumpMore, ArchiveIsOpen, EntryIsOpen, TypeOK, Absent
<1>2. n = (IF pos + 1 <= declared THEN pos + 1 ELSE declared)
  BY <1>1, MinOfTwo
<1>3. n \in 0 .. MaxBlocks /\ Min({pos, declared}) \in 0 .. n
  <2>1. Min({pos, declared}) = IF pos <= declared THEN pos ELSE declared
    BY <1>1, MinOfTwo
  <2>2. QED
    BY <1>1, <1>2, <2>1, BoundsAssumption
<1>4. inodes' = Entered(inodes, path, entry, n)
  BY DEF PumpMore, Entered
<1> HIDE DEF n
<1>5. /\ inodes' \in Seq(Archives) /\ Len(inodes') = Len(inodes)
      /\ \A k \in 1 .. Len(inodes) : k # path => inodes'[k] = inodes[k]
      /\ inodes'[path].run = inodes[path].run
      /\ inodes'[path].whole = inodes[path].whole
      /\ inodes'[path].packed = [inodes[path].packed EXCEPT ![entry] = n]
  <2>1. inodes \in Seq(Archives) /\ n \in Absent .. MaxBlocks
    BY <1>3, BoundsAssumption DEF TypeOK, Absent
  <2>2. QED
    BY <1>1, <1>4, <2>1, EntryWritten
<1>6. /\ inodes[path].packed \in [Files -> Absent .. MaxBlocks]
      /\ inodes[path].packed[entry] = Min({pos, declared})
  <2>1. inodes[path] \in Archives
    BY <1>1 DEF TypeOK
  <2>2. QED
    BY <2>1 DEF PumpMore, EntryIsOpen, Archives
<1>7. /\ Packed' = Packed
      /\ \A f \in Files : inodes'[path].packed[f] >= inodes[path].packed[f]
  <2>1. path' = path
    BY DEF PumpMore
  <2>2. /\ inodes'[path].packed[entry] = n
        /\ \A f \in Files \ {entry} :
               inodes'[path].packed[f] = inodes[path].packed[f]
    BY <1>1, <1>5, <1>6
  <2>3. inodes[path].packed \in [Files -> Int] /\ n \in Int
    BY <1>3, <1>6, BoundsAssumption DEF Absent
  <2>4. QED
    BY <1>3, <1>6, <2>1, <2>2, <2>3 DEF Packed, Absent
<1>8. TypeOK'
  <2>1. pos' \in Absent .. MaxBlocks
    BY <1>1, BoundsAssumption DEF PumpMore, Absent
  <2>2. QED
    BY <1>1, <1>5, <2>1 DEF TypeOK, PumpMore, service
<1>9. ArchiveIsOpen' /\ ListedOrPacked'
  BY <1>5, <1>7 DEF ArchiveIsOpen, ListedOrPacked, PumpMore, service, Present
<1>10. PackedInItsTurn' /\ PackedBeforeRemoved'
  <2>1. /\ asked \in [Files -> Int] /\ inodes[path].packed \in [Files -> Int]
        /\ inodes'[path].packed \in [Files -> Int]
    <3>1. n \in Int /\ Absent .. MaxBlocks \subseteq Int
      BY <1>3, BoundsAssumption DEF Absent
    <3>2. asked \in [Files -> Absent .. MaxBlocks]
      BY DEF TypeOK
    <3>3. QED
      BY <1>5, <1>6, <3>1, <3>2
  <2>2. QED
    BY <1>7, <2>1
       DEF PackedInItsTurn, PackedBeforeRemoved, PumpMore, service, Present
<1>11. EntryIsOpen'
  <2>1. inodes'[path].packed[entry] = n
    BY <1>1, <1>5, <1>6
  <2>2. QED
    BY <1>1, <2>1 DEF EntryIsOpen, PumpMore, service, n
<1>12. ServedArchiveIsFinal'
  BY <1>5 DEF ServedArchiveIsFinal, ArchiveIsOpen, PumpMore, TypeOK
<1>13. QED
  BY <1>8, <1>9, <1>10, <1>11, <1>12
     DEF PumpMore, service, RunHasObject, NothingBeforeTheArchive, Idle,
         OnlyWholeIsLeft, AskedIsThere, NoEntryIsOpen

LEMMA PumpDoneIsSafe == ArchiveInvariant /\ PumpDone => ArchiveInvariant'
<1> SUFFICES ASSUME ArchiveInvariant, PumpDone PROVE ArchiveInvariant'
  OBVIOUS
<1> USE DEF ArchiveInvariant, Safety
<1>1. /\ path \in 1 .. Len(inodes) /\ entry \in todo /\ entry \in Files
      /\ pos = size[entry] /\ size[entry] \in 0 .. MaxBlocks
      /\ declared \in 0 .. MaxBlocks /\ declared >= asked[entry]
  BY BoundsAssumption
     DEF PumpDone, ReadAll, ArchiveIsOpen, EntryIsOpen, TypeOK, Absent
<1>2. inodes[path].packed[entry] = IF pos <= declared THEN pos ELSE declared
  BY <1>1, MinOfTwo DEF PumpDone, EntryIsOpen
<1>3. entry \in Packed /\ inodes[path].packed[entry] >= asked[entry]
  BY <1>1, <1>2 DEF Packed, AskedIsThere, PumpDone, Absent, TypeOK
<1>4. /\ size' \in [Files -> Absent .. MaxBlocks]
      /\ \A f \in Files \ {entry} : size'[f] = size[f]
      /\ Present' = IF fs = "rw" THEN Present \ {entry} ELSE Present
  BY <1>1, BoundsAssumption DEF PumpDone, TypeOK, Absent, Present
<1>5. TypeOK'
  BY <1>4 DEF TypeOK, PumpDone, service
<1>6. ListedOrPacked'
  BY <1>3, <1>4 DEF ListedOrPacked, PumpDone, service, Packed
<1>7. AskedIsThere'
  BY <1>4 DEF AskedIsThere, PumpDone, service
<1>8. PackedInItsTurn' /\ PackedBeforeRemoved'
  <2>1. PackedInItsTurn'
    BY <1>3 DEF PackedInItsTurn, PumpDone, service
  <2>2. \A f \in Files : f \in Present' => f \in Present
    BY <1>4
  <2>3. \A f \in Files : f \notin Present' => f \notin Present \/ f = entry
    BY <1>4
  <2>4. QED
    BY <1>1, <1>3, <2>1, <2>3
       DEF PackedBeforeRemoved, PumpDone, service, TypeOK
<1>9. QED
  BY <1>5, <1>6, <1>7, <1>8
     DEF PumpDone, service, RunHasObject, NothingBeforeTheArchive, Idle,
         OnlyWholeIsLeft, ArchiveIsOpen, EntryIsOpen, NoEntryIsOpen,
         ServedArchiveIsFinal

LEMMA FinishOkIsSafe == ArchiveInvariant /\ FinishOk => ArchiveInvariant'
<1> SUFFICES ASSUME ArchiveInvariant, FinishOk PROVE ArchiveInvariant'
  OBVIOUS
<1> USE DEF ArchiveInvariant, Safety
<1>1. path \in 1 .. Len(inodes)
  BY DEF FinishOk, ArchiveIsOpen, TypeOK
<1>2. inodes' = Closed(inodes, path)
  BY DEF FinishOk, Closed
<1>3. /\ inodes' \in Seq(Archives) /\ Len(inodes') = Len(inodes)
      /\ \A k \in 1 .. Len(inodes) : k # path => inodes'[k] = inodes[k]
      /\ inodes'[path].run = inodes[path].run /\ inodes'[path].whole
      /\ inodes'[path].packed = inodes[path].packed
  <2>1. inodes \in Seq(Archives)
    BY DEF TypeOK
  <2>2. QED
    BY <1>1, <1>2, <2>1, ArchiveClosed
<1>4. entry = NoEntry /\ todo = {} /\ phase' = "ok" /\ object
  BY DEF FinishOk, EntryIsOpen, RunHasObject
<1>5. UNCHANGED <<fs, size, late, path, run, object, asked, todo, entry,
                  declared, pos, served>>
  BY DEF FinishOk, session
<1>6. phase = "archiving"
  BY DEF FinishOk
<1>7. TypeOK'
  BY <1>1, <1>3, <1>4, <1>5 DEF TypeOK
<1>8. OnlyWholeIsLeft'
  BY <1>3, <1>5, <1>6 DEF OnlyWholeIsLeft, ArchiveIsOpen
<1>9. PackedBeforeRemoved'
  BY <1>1, <1>3, <1>4, <1>5, <1>6
     DEF PackedBeforeRemoved, PackedInItsTurn, Present
<1>10. ServedArchiveIsFinal'
  BY <1>3, <1>5, <1>6 DEF ServedArchiveIsFinal, ArchiveIsOpen, TypeOK
<1>11. QED
  BY <1>4, <1>5, <1>6, <1>7, <1>8, <1>9, <1>10
     DEF RunHasObject, NothingBeforeTheArchive, ArchiveIsOpen, ListedOrPacked,
         AskedIsThere, PackedInItsTurn, EntryIsOpen, NoEntryIsOpen

LEMMA FinishIsSafe == ArchiveInvariant /\ Finish => ArchiveInvariant'
<1> SUFFICES ASSUME ArchiveInvariant, Finish PROVE ArchiveInvariant'
  OBVIOUS
<1> USE DEF ArchiveInvariant, Safety
<1>1. TypeOK'
  BY DEF TypeOK, Finish, PartialRemoved
<1>2. OnlyWholeIsLeft'
  BY DEF OnlyWholeIsLeft, NothingBeforeTheArchive, Finish, PartialRemoved
<1>3. QED
  BY <1>1, <1>2
     DEF Finish, RunHasObject, NothingBeforeTheArchive, ArchiveIsOpen,
         ListedOrPacked, AskedIsThere, PackedInItsTurn, EntryIsOpen,
         NoEntryIsOpen, PackedBeforeRemoved, ServedArchiveIsFinal

LEMMA GetResultsFdIsSafe == ArchiveInvariant /\ GetResultsFd => ArchiveInvariant'
<1> SUFFICES ASSUME ArchiveInvariant, GetResultsFd PROVE ArchiveInvariant'
  OBVIOUS
<1> USE DEF ArchiveInvariant, Safety
<1> DEFINE fd == [inode |-> path, was |-> inodes[path], run |-> run, fs |-> fs]
<1>1. /\ path \in 1 .. Len(inodes) /\ run \in 1 .. MaxRuns
      /\ inodes[path] \in Archives
  BY BoundsAssumption DEF GetResultsFd, CanServe, RunHasObject, TypeOK
<1>2. TypeOK'
  BY <1>1 DEF TypeOK, GetResultsFd, directory, service, session
<1>3. fs = "rw" => inodes[path].whole /\ inodes[path].run = run
  BY DEF GetResultsFd, CanServe, OnlyWholeIsLeft
<1>4. ServedArchiveIsFinal'
  BY <1>3 DEF ServedArchiveIsFinal, GetResultsFd, directory, service
<1>5. QED
  BY <1>2, <1>4
     DEF GetResultsFd, CanServe, directory, service, session, RunHasObject,
         NothingBeforeTheArchive, OnlyWholeIsLeft, Idle, ArchiveIsOpen,
         ListedOrPacked, AskedIsThere, PackedInItsTurn, EntryIsOpen,
         NoEntryIsOpen, PackedBeforeRemoved, Present, Packed

LEMMA FileSystemFaultIsSafe ==
  ArchiveInvariant /\ FileSystemFault => ArchiveInvariant'
  BY DEF ArchiveInvariant, Safety, TypeOK, FileSystemFault, directory, service,
         session, RunHasObject, NothingBeforeTheArchive, OnlyWholeIsLeft,
         ArchiveIsOpen, ListedOrPacked, AskedIsThere, PackedInItsTurn,
         EntryIsOpen, NoEntryIsOpen, PackedBeforeRemoved, ServedArchiveIsFinal,
         Idle, Present, Packed

LEMMA CrashIsSafe == ArchiveInvariant /\ Crash => ArchiveInvariant'
  BY DEF ArchiveInvariant, Safety, TypeOK, Crash, directory, RunHasObject,
         NothingBeforeTheArchive, OnlyWholeIsLeft, ArchiveIsOpen,
         ListedOrPacked, AskedIsThere, PackedInItsTurn, EntryIsOpen,
         NoEntryIsOpen, PackedBeforeRemoved, ServedArchiveIsFinal

LEMMA StutterIsSafe == ArchiveInvariant /\ UNCHANGED vars => ArchiveInvariant'
  BY DEF ArchiveInvariant, Safety, TypeOK, vars, directory, service, session,
         RunHasObject, NothingBeforeTheArchive, OnlyWholeIsLeft, Idle,
         ArchiveIsOpen, ListedOrPacked, AskedIsThere, PackedInItsTurn,
         EntryIsOpen, NoEntryIsOpen, PackedBeforeRemoved, ServedArchiveIsFinal,
         Present, Packed

-----------------------------------------------------------------------------
(* The theorems *)

\* The invariant holds in every state of the directory, the session and what
\* the clients hold.
THEOREM ArchiveIsSafe == Spec => []ArchiveInvariant
<1>1. ArchiveInvariant /\ [Next]_vars => ArchiveInvariant'
  BY StartRunIsSafe, WriteIsSafe, ArchiveResultsIsSafe, OpenIsSafe,
     BeginEntryIsSafe, PumpMoreIsSafe, PumpDoneIsSafe, FinishOkIsSafe,
     FinishIsSafe, GetResultsFdIsSafe, FileSystemFaultIsSafe, CrashIsSafe,
     StutterIsSafe
     DEF Next, Step
<1>2. QED
  BY InitiallySafe, <1>1, PTL DEF Spec

\* Every variable of ResultsArchive has its type.
THEOREM ArchiveTypeCorrect == Spec => []TypeOK
  BY ArchiveIsSafe, PTL DEF ArchiveInvariant

\* ArchiveSession removes a result file only once the archive holds all that
\* was in it when IstService asked, whatever a hook appends meanwhile.
THEOREM NothingIsLost == Spec => []PackedBeforeRemoved
  BY ArchiveIsSafe, PTL DEF ArchiveInvariant, Safety

\* What GetResultsFd handed out is a whole archive of the run at whose object
\* it was asked, and neither a session nor a run changes it afterwards.
THEOREM ServedIsFinal == Spec => []ServedArchiveIsFinal
  BY ArchiveIsSafe, PTL DEF ArchiveInvariant, Safety

-----------------------------------------------------------------------------
(* The contract *)

\* ArchiveNow depends on the archive that has the name alone.
LEMMA ArchiveNowKept ==
  ASSUME path' = path, path # 0,
         inodes'[path].whole = inodes[path].whole, Packed' = Packed
  PROVE  ArchiveNow' = ArchiveNow
  BY DEF ArchiveNow

\* A step that leaves the directory as it looks from the run is none of the
\* contract.
LEMMA ContractStutters ==
  ASSUME fs' = fs, phase' = phase, object' = object, ArchiveNow' = ArchiveNow,
         phase = "archiving" => (todo \cup Packed)' = todo \cup Packed,
         phase # "archiving" => Present' = Present
  PROVE  UNCHANGED Contract!vars
  BY DEF Contract!vars

LEMMA StartRunFollows ==
  ASSUME ArchiveInvariant, StartRun PROVE Contract!StartRun
<1>1. /\ (IF object THEN phase ELSE "started") \in {"started", "ok", "failed"}
      /\ phase # "archiving" /\ phase' = "run" /\ object' /\ fs' = fs
  BY DEF StartRun, Idle
<1>2. CASE fs = "rw"
  <2>1. Present' = {} /\ ArchiveNow' = [is |-> "absent", files |-> {}]
    BY <1>2 DEF StartRun, NoFiles, Present, WipedArchive, ArchiveNow
  <2>2. QED
    BY <1>1, <1>2, <2>1 DEF Contract!StartRun, Contract!NoArchive
<1>3. CASE fs # "rw"
  <2>1. Present' = Present /\ ArchiveNow' = ArchiveNow
    BY <1>3 DEF StartRun, Present, ArchiveNow, Packed
  <2>2. QED
    BY <1>1, <1>3, <2>1 DEF Contract!StartRun
<1>4. QED
  BY <1>2, <1>3

LEMMA WriteFollows ==
  ASSUME ArchiveInvariant, NEW f \in Files, Write(f)
  PROVE  Contract!Write \/ UNCHANGED Contract!vars
<1>1. /\ Present \subseteq Present'
      /\ phase # "run" => Present' = Present
  BY DEF ArchiveInvariant, TypeOK, Write, Present, Absent
<1>2. /\ ArchiveNow' = ArchiveNow /\ (todo \cup Packed)' = todo \cup Packed
      /\ phase' = phase /\ object' = object /\ fs' = fs /\ fs = "rw"
  BY DEF Write, service, session, ArchiveNow, Packed
<1>3. CASE phase = "run"
  <2>1. object
    BY <1>3 DEF ArchiveInvariant, Safety, RunHasObject
  <2>2. QED
    BY <1>1, <1>2, <1>3, <2>1 DEF Contract!Write
<1>4. CASE phase # "run"
  BY <1>1, <1>2, <1>4, ContractStutters
<1>5. QED
  BY <1>3, <1>4

LEMMA ArchiveResultsFollows ==
  ASSUME ArchiveInvariant, ArchiveResults PROVE Contract!Ask
<1>1. object /\ phase = "run" /\ phase' = "asked" /\ object' = object
  BY DEF ArchiveInvariant, Safety, RunHasObject, ArchiveResults
<1>2. Present' = Present /\ ArchiveNow' = ArchiveNow /\ fs' = fs
  BY DEF ArchiveResults, Present, ArchiveNow, Packed
<1>3. QED
  BY <1>1, <1>2 DEF Contract!Ask

LEMMA OpenFollows == ASSUME ArchiveInvariant, Open PROVE Contract!OpenArchive
<1> DEFINE new == [run |-> run, packed |-> NoFiles, whole |-> FALSE]
<1>1. path = 0 /\ object /\ run > 0
  BY DEF ArchiveInvariant, Safety, Open, NothingBeforeTheArchive, RunHasObject
<1>2. new \in Archives /\ ~new.whole /\ \A f \in Files : new.packed[f] = Absent
  BY <1>1, ArchiveOpened DEF ArchiveInvariant
<1>3. inodes' = Append(inodes, new) /\ path' = Len(inodes) + 1
  BY <1>1 DEF Open
<1> HIDE DEF new
<1>4. inodes'[path'] = new /\ path' # 0
  BY <1>2, <1>3 DEF ArchiveInvariant, TypeOK
<1>5. Packed' = {} /\ ArchiveNow' = [is |-> "partial", files |-> {}]
  BY <1>2, <1>4 DEF Packed, ArchiveNow
<1>6. /\ phase = "asked" /\ phase' = "archiving" /\ object' = object
      /\ fs = "rw" /\ fs' = fs /\ todo' = Present /\ Present # {}
  BY DEF Open
<1>7. QED
  BY <1>1, <1>5, <1>6 DEF Contract!OpenArchive

LEMMA BeginEntryFollows ==
  ASSUME ArchiveInvariant, NEW f \in Files, BeginEntry(f)
  PROVE  UNCHANGED Contract!vars
<1>1. path \in 1 .. Len(inodes) /\ ~inodes[path].whole
  BY DEF ArchiveInvariant, Safety, BeginEntry, ArchiveIsOpen, TypeOK
<1>2. /\ inodes'[path].whole = inodes[path].whole
      /\ inodes'[path].packed = [inodes[path].packed EXCEPT ![f] = 0]
  <2>1. inodes' = Entered(inodes, path, f, 0)
    BY DEF BeginEntry, Entered
  <2>2. inodes \in Seq(Archives) /\ 0 \in Absent .. MaxBlocks
    BY BoundsAssumption DEF ArchiveInvariant, TypeOK, Absent
  <2>3. QED
    BY <1>1, <2>1, <2>2, EntryWritten
<1>3. inodes[path].packed \in [Files -> Absent .. MaxBlocks]
  <2>1. inodes[path] \in Archives
    BY <1>1 DEF ArchiveInvariant, TypeOK
  <2>2. QED
    BY <2>1 DEF Archives
<1>4. path' = path /\ path # 0
  BY <1>1 DEF BeginEntry
<1>5. Packed' = Packed \cup {f}
  BY <1>2, <1>3, <1>4 DEF Packed, Absent
<1>6. ArchiveNow' = ArchiveNow
  BY <1>1, <1>2, <1>4 DEF ArchiveNow
<1>7. (todo \cup Packed)' = todo \cup Packed
  BY <1>5 DEF BeginEntry
<1>8. QED
  BY <1>6, <1>7, ContractStutters DEF BeginEntry, service

LEMMA PumpMoreFollows ==
  ASSUME ArchiveInvariant, ArchiveInvariant', PumpMore
  PROVE  UNCHANGED Contract!vars
<1> USE DEF ArchiveInvariant, Safety
<1> DEFINE n == Min({pos + 1, declared})
<1>1. /\ path \in 1 .. Len(inodes) /\ entry \in Files
      /\ pos \in 0 .. size[entry] - 1 /\ size[entry] \in 0 .. MaxBlocks
      /\ declared \in 0 .. MaxBlocks
  BY BoundsAssumption
     DEF PumpMore, ArchiveIsOpen, EntryIsOpen, TypeOK, Absent
<1>2. n \in 0 .. MaxBlocks /\ Min({pos, declared}) \in 0 .. MaxBlocks
  <2>1. /\ n = IF pos + 1 <= declared THEN pos + 1 ELSE declared
        /\ Min({pos, declared}) = IF pos <= declared THEN pos ELSE declared
    BY <1>1, MinOfTwo
  <2>2. QED
    BY <1>1, <2>1, BoundsAssumption
<1>3. inodes' = Entered(inodes, path, entry, n)
  BY DEF PumpMore, Entered
<1> HIDE DEF n
<1>4. /\ inodes'[path].whole = inodes[path].whole
      /\ inodes'[path].packed = [inodes[path].packed EXCEPT ![entry] = n]
  <2>1. inodes \in Seq(Archives) /\ n \in Absent .. MaxBlocks
    BY <1>2, BoundsAssumption DEF TypeOK, Absent
  <2>2. QED
    BY <1>1, <1>3, <2>1, EntryWritten
<1>5. /\ inodes[path].packed \in [Files -> Absent .. MaxBlocks]
      /\ inodes[path].packed[entry] = Min({pos, declared})
  <2>1. inodes[path] \in Archives
    BY <1>1 DEF TypeOK
  <2>2. QED
    BY <2>1 DEF PumpMore, EntryIsOpen, Archives
<1>6. path' = path /\ path # 0
  BY <1>1 DEF PumpMore
<1>7. Packed' = Packed
  <2>1. \A f \in Files \ {entry} :
            inodes'[path].packed[f] = inodes[path].packed[f]
    BY <1>4, <1>5
  <2>2. inodes'[path].packed[entry] = n
    BY <1>1, <1>4, <1>5
  <2>3. QED
    BY <1>2, <1>5, <1>6, <2>1, <2>2 DEF Packed, Absent
<1>8. ArchiveNow' = ArchiveNow
  BY <1>4, <1>6, <1>7, ArchiveNowKept
<1>9. QED
  BY <1>7, <1>8, ContractStutters DEF PumpMore, service

LEMMA PumpDoneFollows ==
  ASSUME ArchiveInvariant, PumpDone PROVE UNCHANGED Contract!vars
<1>1. /\ entry \in todo /\ entry \in Files /\ pos \in Nat /\ declared \in Nat
      /\ inodes[path].packed[entry] = Min({pos, declared})
  BY BoundsAssumption
     DEF ArchiveInvariant, Safety, PumpDone, EntryIsOpen, TypeOK, Absent
<1>2. entry \in Packed
  BY <1>1, MinOfTwo DEF Packed, Absent
<1>3. Packed' = Packed /\ ArchiveNow' = ArchiveNow
  BY DEF PumpDone, Packed, ArchiveNow
<1>4. (todo \cup Packed)' = todo \cup Packed
  BY <1>1, <1>2, <1>3 DEF PumpDone
<1>5. QED
  BY <1>3, <1>4, ContractStutters DEF PumpDone, service

LEMMA FinishOkFollows ==
  ASSUME ArchiveInvariant, FinishOk PROVE Contract!FinishArchive(TRUE)
<1>1. path \in 1 .. Len(inodes) /\ object /\ Present = {}
  BY DEF ArchiveInvariant, Safety, FinishOk, ArchiveIsOpen, TypeOK,
         RunHasObject, ListedOrPacked
<1>2. inodes'[path].whole /\ inodes'[path].packed = inodes[path].packed
  <2>1. inodes' = Closed(inodes, path) /\ inodes \in Seq(Archives)
    BY DEF FinishOk, Closed, ArchiveInvariant, TypeOK
  <2>2. QED
    BY <1>1, <2>1, ArchiveClosed
<1>3. /\ phase = "archiving" /\ phase' = "ok" /\ path' = path
      /\ object' = object /\ fs = "rw" /\ fs' = fs /\ todo = {}
      /\ size' = size
  BY DEF FinishOk
<1>4. Packed' = Packed /\ Present' = Present
  BY <1>2, <1>3 DEF Packed, Present
<1>5. ArchiveNow' = [is |-> "whole", files |-> Packed]
  BY <1>1, <1>2, <1>3, <1>4 DEF ArchiveNow
<1>6. QED
  BY <1>1, <1>3, <1>4, <1>5 DEF Contract!FinishArchive

LEMMA FinishFollows ==
  ASSUME ArchiveInvariant, Finish PROVE Contract!FinishArchive(FALSE)
<1>1. /\ object /\ object' = object /\ phase' = "failed" /\ fs' = fs
      /\ Present' = Present
  BY DEF ArchiveInvariant, Safety, Finish, RunHasObject, Present
<1>2. CASE phase = "archiving"
  <2>1. Present \subseteq todo \cup Packed
    BY <1>2 DEF ArchiveInvariant, Safety, ListedOrPacked
  <2>2. ArchiveNow' = IF fs = "rw" THEN [is |-> "absent", files |-> {}]
                                  ELSE ArchiveNow
    BY <1>2 DEF Finish, PartialRemoved, ArchiveNow, Packed
  <2>3. QED
    BY <1>1, <1>2, <2>1, <2>2 DEF Contract!FinishArchive, Contract!NoArchive
<1>3. CASE phase # "archiving"
  <2>1. phase = "asked" /\ ArchiveNow' = ArchiveNow
    BY <1>3 DEF Finish, ArchiveNow, Packed
  <2>2. QED
    BY <1>1, <2>1 DEF Contract!FinishArchive
<1>4. QED
  BY <1>2, <1>3

LEMMA GetResultsFdFollows ==
  ASSUME GetResultsFd PROVE UNCHANGED Contract!vars
<1>1. /\ ArchiveNow' = ArchiveNow /\ Packed' = Packed /\ Present' = Present
      /\ todo' = todo /\ phase' = phase /\ object' = object /\ fs' = fs
  BY DEF GetResultsFd, directory, service, session, ArchiveNow, Packed, Present
<1>2. QED
  BY <1>1, ContractStutters

LEMMA FaultFollows == ASSUME FileSystemFault PROVE Contract!Fault
<1>1. /\ ArchiveNow' = ArchiveNow /\ Packed' = Packed /\ Present' = Present
      /\ todo' = todo /\ phase' = phase /\ object' = object
      /\ fs = "rw" /\ fs' = "ro"
  BY DEF FileSystemFault, directory, service, session, ArchiveNow, Packed,
         Present
<1>2. QED
  BY <1>1 DEF Contract!Fault

LEMMA CrashFollows ==
  ASSUME ArchiveInvariant, Crash PROVE Contract!Crash
<1>1. /\ ArchiveNow' = ArchiveNow /\ Present' = Present
      /\ phase' = "failed" /\ ~object' /\ fs' = fs
  BY DEF Crash, directory, ArchiveNow, Packed, Present
<1>2. phase = "archiving" => Present \subseteq todo \cup Packed
  BY DEF ArchiveInvariant, Safety, ListedOrPacked
<1>3. QED
  BY <1>1, <1>2 DEF Contract!Crash

\* Each turn of ArchiveSession, and all that interleaves with the turns, is a
\* step of the contract that IstService relies on or none of it; the one answer
\* of the session is the one step that IstService takes it for.
THEOREM SessionFollowsContract ==
  Spec => Contract!Init /\ [][Contract!Next]_(Contract!vars)
<1>1. Init => Contract!Init
  <2> SUFFICES ASSUME Init PROVE Contract!Init
    OBVIOUS
  <2>1. Present = {} /\ ArchiveNow = [is |-> "absent", files |-> {}]
    BY DEF Init, Present, NoFiles, ArchiveNow
  <2>2. QED
    BY <2>1 DEF Init, Contract!Init, Contract!NoArchive
<1>2. ArchiveInvariant /\ ArchiveInvariant' /\ [Next]_vars
        => [Contract!Next]_(Contract!vars)
  <2> SUFFICES ASSUME ArchiveInvariant, ArchiveInvariant', [Next]_vars
               PROVE  [Contract!Next]_(Contract!vars)
    OBVIOUS
  <2>1. CASE StartRun
    BY <2>1, StartRunFollows DEF Contract!Next
  <2>2. ASSUME NEW f \in Files, Write(f) PROVE [Contract!Next]_(Contract!vars)
    BY <2>2, WriteFollows DEF Contract!Next
  <2>3. CASE ArchiveResults
    BY <2>3, ArchiveResultsFollows DEF Contract!Next
  <2>4. CASE Open
    BY <2>4, OpenFollows DEF Contract!Next
  <2>5. ASSUME NEW f \in Files, BeginEntry(f)
        PROVE  [Contract!Next]_(Contract!vars)
    BY <2>5, BeginEntryFollows
  <2>6. CASE PumpMore \/ PumpDone
    BY <2>6, PumpMoreFollows, PumpDoneFollows
  <2>7. CASE FinishOk \/ Finish
    BY <2>7, FinishOkFollows, FinishFollows DEF Contract!Next
  <2>8. CASE GetResultsFd
    BY <2>8, GetResultsFdFollows
  <2>9. CASE FileSystemFault
    BY <2>9, FaultFollows DEF Contract!Next
  <2>10. CASE Crash
    BY <2>10, CrashFollows DEF Contract!Next
  <2>11. CASE UNCHANGED vars
    <3>1. /\ ArchiveNow' = ArchiveNow /\ Packed' = Packed /\ Present' = Present
          /\ todo' = todo /\ phase' = phase /\ object' = object /\ fs' = fs
      BY <2>11 DEF vars, directory, service, session, ArchiveNow, Packed, Present
    <3>2. QED
      BY <3>1, ContractStutters
  <2>12. QED
    BY <2>1, <2>2, <2>3, <2>4, <2>5, <2>6, <2>7, <2>8, <2>9, <2>10, <2>11
       DEF Next, Step
<1>3. QED
  BY <1>1, <1>2, ArchiveIsSafe, PTL DEF Spec
=============================================================================
