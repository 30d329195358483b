----------------------------- MODULE Collateral ------------------------------
(***************************************************************************)
(* What a run checks before it touches the board: the signatures of        *)
(* kist_itm and its libraries (collect_files_to_verify, FileVerifier and   *)
(* SignatureVerifySession of src/src/signature_verify.cpp), then the CPU   *)
(* sockets of the inventory (discover_cpus of src/src/ist_main.cpp and     *)
(* IstService::on_cpu_discovery_done).                                     *)
(*                                                                         *)
(* The session takes one turn of the event loop per file opened and block  *)
(* read; any read or open may fail on the way.  A configuration and what   *)
(* it finds on disk are chosen in Init and stay.                           *)
(***************************************************************************)
EXTENDS Integers, SequencesExt

CONSTANTS
    Names,      \* the entries that the library directory may have
    Blocks,     \* blocks in a file
    MaxPaths    \* bound on the CPUs that the inventory lists

ASSUME BoundsAssumption == Blocks \in Nat /\ MaxPaths \in Nat

VARIABLES
    (* the configuration and the disk *)
    key,        \* the verification key: "good", "bad", "absent"
    binary,     \* kist_itm: "missing", or the state of its signature
    lib,        \* the library directory: "none" configured, "directory",
                \* "file", or an "error", also when there is nothing
    entries,    \* what is in it
    discovers,  \* no socket list was given, and there is a discoverer
    (* the session, then the discovery *)
    turn,       \* "enumerate", "verify", "discover", "over"
    todo,       \* targets to verify
    current,    \* the one being read, NoFile
    pos,        \* blocks read from it
    verdict,    \* what the callback was told: "none", "ok", "failed"
    paths,      \* what the inventory listed, a socket number or Unparsable
    sockets,    \* custom_socket_list
    answers,    \* how often the run was told to go on or to fail
    outcome,    \* "none", "launch", or the reason of the failure
    (* history *)
    faults      \* did a read or an open fail on the way?

disk    == <<key, binary, lib, entries, discovers>>
session == <<turn, todo, current, pos, verdict>>
result  == <<paths, sockets, answers, outcome>>

vars == <<disk, session, result, faults>>

Unparsable == -1
NoFile == "none"

\* kist_itm and what lies outside of the directory have names of their own.
ASSUME NamesAssumption ==
    /\ IsFiniteSet(Names)
    /\ Names \cap {"binary", "outside", "nowhere", NoFile} = {}

Signatures == {"absent", "bad", "good"}

Targets == Names \cup {"binary", "outside", "nowhere"}

Entry ==
    [is : {"absent", "other"}] \cup [is : {"regular"}, sig : Signatures]
        \cup [is : {"link"}, to : Targets]

Init ==
    /\ key \in {"good", "bad", "absent"}
    /\ binary \in Signatures \cup {"missing"}
    /\ lib \in {"none", "directory", "file", "error"}
    /\ entries \in [Names -> Entry]
    /\ lib # "directory" => \A n \in Names : entries[n].is = "absent"
    /\ discovers \in BOOLEAN
    /\ turn = "enumerate" /\ todo = {} /\ current = NoFile /\ pos = 0
    /\ verdict = "none" /\ faults = FALSE
    /\ paths = <<>> /\ sockets = <<>> /\ answers = 0 /\ outcome = "none"

Regular == {n \in Names : entries[n].is = "regular"}
Links == {n \in Names : entries[n].is = "link"}

-----------------------------------------------------------------------------
(* signature_verify.cpp *)

\* collect_files_to_verify finds a key, signatures and a directory.
Collectable ==
    /\ key # "absent" /\ binary # "absent" /\ lib # "error"
    /\ \A n \in Regular : entries[n].sig # "absent"

\* fs::canonical: a chain of links is followed to its end, if it has one.
Canonical(link) ==
    LET Follow(f) == IF f \in Links THEN entries[f].to ELSE f
        after[k \in Nat] == IF k = 0 THEN link ELSE Follow(after[k - 1])
    IN  after[Cardinality(Names)]

\* Mutant: a link is as good as the entry that it names.
LinksLookFine ==
    \A link \in Links : entries[link].to \in Names \cup {"binary"}

\* verified_real holds kist_itm, when there is one, and the regular libraries.
LinksWithinVerifiedSet ==
    LET verified == Regular \cup IF binary = "missing" THEN {} ELSE {"binary"}
    IN  \A link \in Links : Canonical(link) \in verified

\* Mutant: the callback is only called for a verification that succeeds.
ToldOnSuccess(ok) == ok /\ ~discovers

\* A verification that succeeds may be followed by the discovery.
Told(ok) == ~ok \/ ~discovers

\* finish(ok), and on_signature_verify_done.
Finish(ok, fault) ==
    /\ verdict' = IF ok THEN "ok" ELSE "failed"
    /\ turn' = IF ok /\ discovers THEN "discover" ELSE "over"
    /\ IF Told(ok)
       THEN /\ answers' = answers + 1
            /\ outcome' = IF ok THEN "launch" ELSE "signature"
       ELSE UNCHANGED <<answers, outcome>>
    /\ todo' = {} /\ current' = NoFile /\ pos' = 0
    /\ faults' = (faults \/ fault)
    /\ UNCHANGED <<disk, paths, sockets>>

Enumerate ==
    /\ turn = "enumerate" /\ Collectable /\ LinksWithinVerifiedSet
    /\ turn' = "verify" /\ todo' = {"binary"} \cup Regular
    /\ UNCHANGED <<disk, current, pos, verdict, result, faults>>

EnumerateFails ==
    /\ turn = "enumerate"
    /\ \/ ~(Collectable /\ LinksWithinVerifiedSet) /\ Finish(FALSE, FALSE)
       \/ Finish(FALSE, TRUE)

Signature(f) == IF f = "binary" THEN binary ELSE entries[f].sig

\* FileVerifier::init.  The binary comes first, libraries as the directory
\* lists them.
Opens(f) ==
    /\ turn = "verify" /\ current = NoFile
    /\ f \in todo /\ ("binary" \in todo => f = "binary")

Readable(f) == key = "good" /\ Signature(f) # "missing"

OpenFile(f) ==
    /\ Opens(f) /\ Readable(f)
    /\ current' = f /\ pos' = 0
    /\ UNCHANGED <<disk, turn, todo, verdict, result, faults>>

OpenFails(f) ==
    /\ Opens(f)
    /\ \/ ~Readable(f) /\ Finish(FALSE, FALSE)
       \/ Finish(FALSE, TRUE)

\* FileVerifier::pump
PumpMore ==
    /\ current # NoFile /\ pos < Blocks
    /\ pos' = pos + 1
    /\ UNCHANGED <<disk, turn, todo, current, verdict, result, faults>>

DigestMatches == Signature(current) = "good" /\ pos = Blocks

\* A read that fails looks like the end of the file.
PumpLast(fault) ==
    /\ current # NoFile /\ (fault \/ pos = Blocks)
    /\ IF DigestMatches
       THEN /\ todo' = todo \ {current} /\ current' = NoFile
            /\ faults' = (faults \/ fault)
            /\ UNCHANGED <<disk, turn, pos, verdict, result>>
       ELSE Finish(FALSE, fault)

AllVerified ==
    /\ turn = "verify" /\ current = NoFile /\ todo = {}
    /\ Finish(TRUE, FALSE)

-----------------------------------------------------------------------------
(* The discovery *)

\* std::sort: fewer than k elements are less than the k-th, and at least k are
\* not greater.
Sorted(seq) ==
    LET Less(id) == {i \in DOMAIN seq : seq[i] < id}
        UpTo(id) == {i \in DOMAIN seq : seq[i] <= id}
    IN  [k \in DOMAIN seq |->
            CHOOSE id \in Range(seq) :
                Cardinality(Less(id)) < k /\ k <= Cardinality(UpTo(id))]

\* Mutant: paths that name the same socket are counted twice.
UniqueKept(seq) == seq

\* std::unique drops an element equal to the one before it.
Unique(seq) ==
    FoldLeft(LAMBDA acc, id :
                 IF acc # <<>> /\ Last(acc) = id THEN acc ELSE Append(acc, id),
             <<>>, seq)

\* on_cpu_discovery_done
Answer(reason, list) ==
    /\ turn' = "over" /\ answers' = answers + 1
    /\ outcome' = reason /\ sockets' = list
    /\ UNCHANGED <<disk, todo, current, pos, verdict, faults>>

\* An ObjectMapper call that fails lists nothing.
OnCpuDiscoveryDone ==
    /\ turn = "discover"
    /\ paths' \in BoundedSeq({Unparsable} \cup 0 .. MaxPaths, MaxPaths)
    /\ LET ids == Unique(Sorted(paths')) IN
       IF paths' = <<>> THEN Answer("no_cpus", <<>>)
       ELSE IF Unparsable \in Range(paths') THEN Answer("parse", <<>>)
       ELSE IF \E i \in DOMAIN ids : ids[i] # i - 1
       THEN Answer("non_contiguous", <<>>)
       ELSE Answer("launch", ids)

Step ==
    \/ Enumerate \/ EnumerateFails
    \/ \E f \in Names \cup {"binary"} : OpenFile(f) \/ OpenFails(f)
    \/ PumpMore
    \/ \E fault \in BOOLEAN : PumpLast(fault)
    \/ AllVerified
    \/ OnCpuDiscoveryDone

Next == Step

\* The event loop runs the turn that was posted, the bus answers a call.
Spec == Init /\ [][Next]_vars /\ WF_vars(Step)

-----------------------------------------------------------------------------
(* Properties *)

\* Every variable has its type.
TypeOK ==
    /\ key \in {"good", "bad", "absent"}
    /\ binary \in Signatures \cup {"missing"}
    /\ entries \in [Names -> Entry]
    /\ turn \in {"enumerate", "verify", "discover", "over"}
    /\ todo \subseteq Names \cup {"binary"}
    /\ current \in todo \cup {NoFile}
    /\ pos \in 0 .. Blocks /\ answers \in {0, 1}
    /\ verdict \in {"none", "ok", "failed"}
    /\ {discovers, faults} \subseteq BOOLEAN

Promise == INSTANCE OneShot
    WITH asked <- 1, answered <- answers, busy <- turn # "over"

\* The run that asked is told once to go on or to fail, whatever is on the
\* disk and whichever turn fails.
KeepsPromise == Promise!Spec

\* The reference: a good key, kist_itm and every library signed, every link to
\* a link or to one of them, and no links that lead only to each other.
Genuine ==
    /\ key = "good" /\ binary = "good" /\ lib # "error"
    /\ \A n \in Regular : entries[n].sig = "good"
    /\ \A n \in Links : entries[n].to \in Links \cup Regular \cup {"binary"}
    /\ \A S \in SUBSET Links : S # {} => \E n \in S : entries[n].to \notin S

\* Nothing is launched that is not verified, however the links chain, whatever
\* read fails and over however many turns; and without a failure everything
\* that is verified passes.
VerdictIsReference ==
    /\ verdict = "ok" => Genuine
    /\ verdict = "failed" => ~Genuine \/ faults

\* A run goes on exactly when the paths found, of which several may name one
\* socket, name the sockets 0 to n - 1, and it tests each of those once
\* ("collapse duplicate socket numbers so the count and contiguity check
\* reflect physical sockets").
SocketsAreTheInventory ==
    turn = "over" /\ verdict = "ok" /\ discovers =>
        LET ids == Range(paths) IN
        /\ outcome = "launch" <=>
             ids # {} /\ ids = 0 .. Cardinality(ids) - 1
        /\ outcome = "launch" =>
             sockets = [i \in 1 .. Cardinality(ids) |-> i - 1]
=============================================================================
