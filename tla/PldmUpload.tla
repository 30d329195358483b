----------------------------- MODULE PldmUpload ------------------------------
(***************************************************************************)
(* The bytes of an upload, where VectorManager.tla only tells good from    *)
(* bad: PldmHeaderPeekSession reads until the package header is there and  *)
(* checks it, TransferSession writes the rest to the image (both in        *)
(* src/src/vector_manager.cpp).  The pipe delivers any number of bytes at  *)
(* a time, so a read ends anywhere in the header or in the payload.        *)
(*                                                                         *)
(* The layout of DSP0267 is scaled down: a byte is one of Base digits, the *)
(* integers have one or two of them, identifiers and checksums are short.  *)
(* Offsets start at 0, as they do there.                                   *)
(***************************************************************************)
EXTENDS Integers, SequencesExt

CONSTANT Base   \* how many values a byte has

ASSUME BaseAssumption == Base \in Nat \ (0 .. 5)

VARIABLES
    genuine,   \* the package before one of its bytes was changed
    stream,    \* the bytes that the client sends
    received,  \* how many of them were read
    state,     \* "peek", "transfer", and the end: "complete", "failed"
    comp,      \* offset, size and checksum of the payload, from the header
    image,     \* the bytes in the image file
    cut        \* did the client stop early?

vars == <<genuine, stream, received, state, comp, image, cut>>

\* revision, header size, length of the package version
k_pldm_header_prefix_size == 3
k_pldm_min_header_size == 4
k_pldm_max_header_size == Base * (Base - 1)
\* location (2), size, length of the component version; an opaque length
k_comp_info_fixed_size == 4
k_comp_info_opaque_len_size == 1
trailer_size == 2

k_ist_vectors_component_uuid == <<2, 3>>

Byte == 0 .. Base - 1

\* A vector holds nothing of use past its end.
At(data, i) == IF i < Len(data) THEN data[i + 1] ELSE Base - 1

U16(data, i) == At(data, i) + Base * At(data, i + 1)

\* crc32_update
Crc(data) ==
    LET crc[k \in 0 .. Len(data)] ==
            IF k = 0 THEN 0 ELSE (crc[k - 1] + data[k]) % Base
    IN  crc[Len(data)]

Digits(n) == <<n % Base, n \div Base>>

-----------------------------------------------------------------------------
(* The uploads *)

\* A well-formed package has so many components of one byte each, and version
\* strings of so many bytes.
HeaderLength(count, version) == 14 + version + count * (5 + version)

VersionString(version) == [i \in 1 .. version |-> 1]

Component(i, count, version) ==
    Digits(HeaderLength(count, version) + i - 1) \o <<1, version>>
        \o VersionString(version) \o <<0>>

Components(count, version) ==
    LET first[k \in 0 .. count] ==
            IF k = 0 THEN <<>> ELSE first[k - 1] \o Component(k, count, version)
    IN  first[count]

HeaderBody(count, version) ==
    <<4>> \o Digits(HeaderLength(count, version))
        \o <<version>> \o VersionString(version)
        \o <<1>> \o Digits(4) \o k_ist_vectors_component_uuid
        \o <<0>> \o Digits(count) \o Components(count, version)

Package(count, version) ==
    LET body == HeaderBody(count, version)
        payload == SubSeq(<<1, 2>>, 1, count)
    IN  [header |-> body \o <<Crc(body), Crc(payload)>>, payload |-> payload]

Packages == {Package(count, version) : count \in 0 .. 2, version \in 0 .. 1}

\* One byte changed, and the checksum made to agree with that or not.
Changed(header, i, byte, agree) ==
    LET new == [header EXCEPT ![i] = byte]
        at == U16(new, 1) - trailer_size
    IN  IF agree /\ at \in 1 .. Len(header) - 1
        THEN [new EXCEPT ![at + 1] = Crc(SubSeq(new, 1, at))]
        ELSE new

Init ==
    /\ genuine \in Packages
    /\ \E i \in DOMAIN genuine.header, byte \in Byte, agree \in BOOLEAN :
           stream = Changed(genuine.header, i, byte, agree) \o genuine.payload
    /\ received = 0 /\ state = "peek"
    /\ comp = [offset |-> 0, size |-> 0, crc |-> 0]
    /\ image = <<>> /\ cut = FALSE

-----------------------------------------------------------------------------
(* The header *)

HeaderSize(data) == U16(data, 1)

HasUuid(data, size) ==
    \E i \in 0 .. size - Len(k_ist_vectors_component_uuid) :
        \A k \in DOMAIN k_ist_vectors_component_uuid :
            At(data, i + k - 1) = k_ist_vectors_component_uuid[k]

\* check_ist_component_uuid
Check(data) ==
    LET size == HeaderSize(data) IN
    IF Len(data) < k_pldm_header_prefix_size THEN "need_more_data"
    ELSE IF size \notin k_pldm_min_header_size .. k_pldm_max_header_size
    THEN "invalid_header"
    ELSE IF Len(data) < size THEN "need_more_data"
    ELSE IF HasUuid(data, size) THEN "ok" ELSE "component_uuid_mismatch"

Unwalkable == -1

\* The offset after so many device records.
AfterRecords(data, size, start, count) ==
    LET after[k \in 0 .. count] ==
            IF k = 0 THEN start
            ELSE LET at == after[k - 1] IN
                 IF at = Unwalkable \/ at + 2 > size \/ U16(data, at) = 0
                 THEN Unwalkable
                 ELSE at + U16(data, at)
    IN  after[count]

\* Mutant: the version string of a component is not skipped.
ComponentEndUnversioned(data, at) ==
    at + k_comp_info_fixed_size + k_comp_info_opaque_len_size

ComponentEnd(data, at) ==
    at + k_comp_info_fixed_size + At(data, at + 3) + k_comp_info_opaque_len_size

\* Mutant: a component that ends behind the header is read all the same.
ComponentFitsPart(at, size) == at < size

ComponentFits(at, size) == at + k_comp_info_fixed_size <= size

\* Where the last of so many components ends, 0 when they cannot be walked.
PackageEnd(data, size, start, count) ==
    LET walk[k \in 0 .. count] ==
            IF k = 0 THEN [at |-> start, end |-> 0]
            ELSE LET at == walk[k - 1].at IN
                 IF at = Unwalkable \/ ~ComponentFits(at, size)
                 THEN [at |-> Unwalkable, end |-> 0]
                 ELSE [at |-> ComponentEnd(data, at),
                       end |-> Max({walk[k - 1].end,
                                    U16(data, at) + At(data, at + 2)})]
    IN  walk[count].end

\* package_size_from_header
PackageSize(data, size) ==
    LET records == k_pldm_min_header_size + At(data, 3)
        downstream == AfterRecords(data, size, records + 1, At(data, records))
    IN  IF \/ records >= size
           \/ downstream = Unwalkable \/ downstream >= size
           \/ At(data, downstream) # 0 \/ downstream + 3 > size
        THEN 0
        ELSE PackageEnd(data, size, downstream + 3, U16(data, downstream + 1))

Trailer(data) == HeaderSize(data) - trailer_size

\* validate_pldm_header
Valid(data) ==
    /\ At(data, 0) >= 4
    /\ HeaderSize(data) >= k_pldm_min_header_size + trailer_size
    /\ At(data, Trailer(data)) = Crc(SubSeq(data, 1, Trailer(data)))

ComponentOf(data) ==
    LET size == HeaderSize(data)
        end == PackageSize(data, size)
    IN  [offset |-> size, crc |-> At(data, Trailer(data) + 1),
         size |-> IF end > size THEN end - size ELSE 0]

-----------------------------------------------------------------------------
(* PldmHeaderPeekSession::on_read, and TransferSession::start *)

Fail == state' = "failed" /\ image' = <<>> /\ UNCHANGED comp

\* Mutant: what came behind the header in the same read is not written.
FirstPayloadDropped(data) == <<>>

FirstPayload(data) == SubSeq(data, HeaderSize(data) + 1, Len(data))

Peek(n) ==
    /\ state = "peek" /\ received + n <= Len(stream)
    /\ received' = received + n
    /\ LET prefix == SubSeq(stream, 1, received') IN
       CASE Check(prefix) = "need_more_data" -> UNCHANGED <<state, comp, image>>
         [] Check(prefix) = "ok" /\ Valid(prefix) ->
                /\ state' = "transfer"
                /\ comp' = ComponentOf(prefix)
                /\ image' = FirstPayload(prefix)
         [] OTHER -> Fail
    /\ UNCHANGED <<genuine, stream, cut>>

\* TransferSession::on_read
Read(n) ==
    /\ state = "transfer" /\ received + n <= Len(stream)
    /\ received' = received + n
    /\ image' = image \o SubSeq(stream, received + 1, received')
    /\ UNCHANGED <<genuine, stream, state, comp, cut>>

\* The client closes the pipe: verify_and_finish, with the header peeked at.
Eof ==
    /\ state \in {"peek", "transfer"}
    /\ cut' = (received < Len(stream))
    /\ IF state = "transfer" /\ Crc(image) = comp.crc
       THEN state' = "complete" /\ UNCHANGED <<comp, image>>
       ELSE Fail
    /\ UNCHANGED <<genuine, stream, received>>

\* on_timeout of either session, and a write that fails.
Abort ==
    /\ state \in {"peek", "transfer"}
    /\ cut' = TRUE /\ Fail
    /\ UNCHANGED <<genuine, stream, received>>

Next ==
    \/ \E n \in 1 .. Len(stream) : Peek(n) \/ Read(n)
    \/ Eof \/ Abort

Spec == Init /\ [][Next]_vars

-----------------------------------------------------------------------------
(* Properties *)

\* Every variable has its type.
TypeOK ==
    /\ genuine \in Packages
    /\ stream \in Seq(Byte) /\ received \in 0 .. Len(stream)
    /\ state \in {"peek", "transfer", "complete", "failed"}
    /\ comp \in [offset : Nat, size : Nat, crc : Byte]
    /\ image \in Seq(Byte) /\ cut \in BOOLEAN

\* The decision and what is taken from the header are those of the whole
\* upload, however it was cut into reads: nothing behind the header, where the
\* buffer ends in one place or another, has a part in them.
ChunkingDoesNotMatter ==
    /\ state \in {"transfer", "complete"} =>
           Check(stream) = "ok" /\ Valid(stream) /\ comp = ComponentOf(stream)
    /\ state = "failed" /\ ~cut =>
           \/ ~(Check(stream) = "ok" /\ Valid(stream))
           \/ ComponentOf(stream).crc # Crc(FirstPayload(stream))

\* Of a package as the vendor made it the size of the payload is known, to the
\* byte, over all its components.
SizeIsExact ==
    state = "transfer" /\ stream = genuine.header \o genuine.payload =>
        /\ comp.offset = Len(genuine.header)
        /\ comp.size = Len(genuine.payload)

\* The image is what follows the header, none of it missing or twice where
\* the peek ends and the transfer begins; once verified, of a package as the
\* vendor made it the image is the payload.
ImageIsThePayload ==
    /\ state \in {"transfer", "complete"} =>
           image = SubSeq(stream, comp.offset + 1, received)
    /\ state = "complete" /\ stream = genuine.header \o genuine.payload =>
           image = genuine.payload
=============================================================================
