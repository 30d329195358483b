-------------------------- MODULE PldmUpload_proofs --------------------------
(***************************************************************************)
(* The header decides, and the image is the payload, however an upload is  *)
(* cut into reads: for every number of values that a byte has.             *)
(***************************************************************************)
EXTENDS PldmUpload, FiniteSetTheorems, SequenceTheorems, TLAPS

-----------------------------------------------------------------------------
(* Recursion over 0 .. n *)

\* A set that holds 0 and the successor of all it holds is Nat.
LEMMA NatSetInduction ==
  ASSUME NEW S \in SUBSET Nat, 0 \in S, \A n \in S : n + 1 \in S
  PROVE  S = Nat
<1>1. SUFFICES ASSUME S # Nat PROVE FALSE
  OBVIOUS
<1> DEFINE T == Nat \ S
<1>2. T \subseteq Nat /\ T # {}
  BY <1>1
<1>3. \E x \in T : \A y \in T : <<y, x>> \notin OpToRel(<, Nat)
  <2> HIDE DEF T
  <2>1. QED
    BY <1>2, NatLessThanWellFounded, WFMin
<1>4. PICK x \in T : \A y \in T : <<y, x>> \notin OpToRel(<, Nat)
  BY <1>3
<1>5. x \in Nat /\ x \notin S /\ x # 0
  BY <1>4
<1>6. x - 1 \in Nat /\ <<x - 1, x>> \in OpToRel(<, Nat)
  BY <1>5 DEF OpToRel
<1>7. (x - 1) + 1 \in S
  BY <1>4, <1>6
<1>8. (x - 1) + 1 = x
  BY <1>5
<1>9. QED
  BY <1>5, <1>7, <1>8

\* The ways to take n steps from a: F gives the result of the k-th.
Walks(F, a, T, n) ==
    {g \in [0 .. n -> T] :
        g[0] = a /\ \A k \in 1 .. n : g[k] = F[<<g[k - 1], k>>]}

\* Functions that start alike and go on alike.
Alike(n, g, h) ==
    /\ n \in Nat
    /\ g = [k \in 0 .. n |-> g[k]] /\ h = [k \in 0 .. n |-> h[k]]
    /\ g[0] = h[0]
    /\ \A k \in 1 .. n : g[k - 1] = h[k - 1] => g[k] = h[k]

LEMMA AlikeAreEqual == \A n, g, h : Alike(n, g, h) => g = h
<1> SUFFICES ASSUME NEW n, NEW g, NEW h, Alike(n, g, h) PROVE g = h
  OBVIOUS
<1> USE DEF Alike
<1> DEFINE S == {k \in Nat : k <= n => g[k] = h[k]}
<1>1. 0 \in S
  OBVIOUS
<1>2. ASSUME NEW k \in S PROVE k + 1 \in S
  <2>1. SUFFICES ASSUME k + 1 <= n PROVE g[k + 1] = h[k + 1]
    OBVIOUS
  <2>2. k \in Nat /\ g[k] = h[k] /\ k + 1 \in 1 .. n /\ (k + 1) - 1 = k
    BY <2>1
  <2>3. QED
    BY <2>2
<1>3. S = Nat
  <2> HIDE DEF S
  <2>1. S \in SUBSET Nat
    BY DEF S
  <2>2. QED
    BY <1>1, <1>2, <2>1, NatSetInduction
<1>4. \A k \in 0 .. n : g[k] = h[k]
  BY <1>3
<1>5. QED
  BY <1>4

LEMMA WalkExists ==
  \A T, a, F, n : (n \in Nat /\ a \in T /\ F \in [T \X (1 .. n) -> T])
                      => Walks(F, a, T, n) # {}
<1> SUFFICES ASSUME NEW T, NEW a \in T, NEW N \in Nat,
                    NEW F \in [T \X (1 .. N) -> T]
             PROVE  Walks(F, a, T, N) # {}
  OBVIOUS
<1> DEFINE S == {n \in Nat : n <= N => Walks(F, a, T, n) # {}}
<1>1. 0 \in S
  <2>1. [k \in 0 .. 0 |-> a] \in Walks(F, a, T, 0)
    BY DEF Walks
  <2>2. QED
    BY <2>1
<1>2. ASSUME NEW n \in S PROVE n + 1 \in S
  <2>1. SUFFICES ASSUME n + 1 <= N PROVE Walks(F, a, T, n + 1) # {}
    OBVIOUS
  <2>2. n \in Nat /\ Walks(F, a, T, n) # {}
    BY <2>1
  <2>3. PICK g \in Walks(F, a, T, n) : TRUE
    BY <2>2
  <2>4. g \in [0 .. n -> T] /\ g[0] = a /\ \A k \in 1 .. n : g[k] = F[<<g[k - 1], k>>]
    BY <2>3 DEF Walks
  <2> DEFINE last == F[<<g[n], n + 1>>]
             h == [k \in 0 .. n + 1 |-> IF k = n + 1 THEN last ELSE g[k]]
  <2>5. last \in T
    <3>1. <<g[n], n + 1>> \in T \X (1 .. N)
      BY <2>1, <2>2, <2>4
    <3>2. QED
      BY <3>1
  <2>6. h[n + 1] = F[<<h[(n + 1) - 1], n + 1>>] /\ h[0] = a
    <3>1. h[n + 1] = last /\ h[0] = a
      BY <2>2, <2>4
    <3>2. h[(n + 1) - 1] = g[n]
      <4> HIDE DEF last
      <4>1. QED
        BY <2>2
    <3>3. QED
      BY <3>1, <3>2
  <2>7. \A k \in 1 .. n : h[k] = F[<<h[k - 1], k>>]
    BY <2>2, <2>4
  <2>8. h \in [0 .. n + 1 -> T]
    <3> HIDE DEF last
    <3>1. QED
      BY <2>2, <2>4, <2>5
  <2> HIDE DEF h, last
  <2>9. \A k \in 1 .. n + 1 : h[k] = F[<<h[k - 1], k>>]
    <3>1. \A k \in 1 .. n + 1 : k \in 1 .. n \/ k = n + 1
      BY <2>2
    <3>2. QED
      BY <2>6, <2>7, <3>1
  <2>10. h \in Walks(F, a, T, n + 1)
    BY <2>6, <2>8, <2>9 DEF Walks
  <2>11. QED
    BY <2>10
<1>3. S = Nat
  <2> HIDE DEF S
  <2>1. S \in SUBSET Nat
    BY DEF S
  <2>2. QED
    BY <1>1, <1>2, <2>1, NatSetInduction
<1>4. QED
  BY <1>3

-----------------------------------------------------------------------------
(* Reads of a buffer *)

LEMMA BytesAreNumbers ==
  /\ Byte \subseteq Nat /\ Base \in Nat /\ Base > 5
  /\ {0, 1, 2, 3, 4, 5} \subseteq Byte /\ Base - 1 \in Byte
  BY BaseAssumption DEF Byte

LEMMA AtIsByte ==
  ASSUME NEW data \in Seq(Byte), NEW i \in Nat
  PROVE  At(data, i) \in Byte /\ U16(data, i) \in Nat
<1>1. \A k \in Nat : At(data, k) \in Byte
  <2>1. ASSUME NEW k \in Nat PROVE At(data, k) \in Byte
    <3>1. CASE k < Len(data)
      <4>1. k + 1 \in 1 .. Len(data)
        BY <3>1
      <4>2. QED
        BY <3>1, <4>1 DEF At
    <3>2. CASE ~(k < Len(data))
      BY <3>2, BytesAreNumbers DEF At
    <3>3. QED
      BY <3>1, <3>2
  <2>2. QED
    BY <2>1
<1>2. At(data, i) \in Byte /\ At(data, i + 1) \in Byte
  BY <1>1
<1>3. At(data, i) \in Nat /\ At(data, i + 1) \in Nat /\ Base \in Nat
  BY <1>2, BytesAreNumbers
<1>4. \A b, c \in Nat : b + Base * c \in Nat
  BY <1>3
<1>5. QED
  BY <1>2, <1>3, <1>4 DEF U16

\* Two buffers with the same header.
Agree(data, full, size) == \A i \in Nat : i < size => At(data, i) = At(full, i)

LEMMA PrefixAgrees ==
  ASSUME NEW full \in Seq(Byte), NEW r \in 0 .. Len(full)
  PROVE  /\ SubSeq(full, 1, r) \in Seq(Byte) /\ Len(SubSeq(full, 1, r)) = r
         /\ Agree(SubSeq(full, 1, r), full, r)
<1>1. r \in Nat /\ r <= Len(full) /\ \A i \in 1 .. r : full[i] \in Byte
  OBVIOUS
<1>2. /\ SubSeq(full, 1, r) \in Seq(Byte) /\ Len(SubSeq(full, 1, r)) = r
      /\ \A i \in 1 .. r : SubSeq(full, 1, r)[i] = full[i]
  BY <1>1, SubSeqProperties
<1>3. ASSUME NEW i \in Nat, i < r
      PROVE  At(SubSeq(full, 1, r), i) = At(full, i)
  <2>1. i + 1 \in 1 .. r /\ i < Len(full)
    BY <1>1, <1>3
  <2>2. QED
    BY <1>2, <1>3, <2>1 DEF At
<1>4. QED
  BY <1>2, <1>3 DEF Agree

LEMMA AgreeU16 ==
  ASSUME NEW data, NEW full, NEW size \in Nat, Agree(data, full, size),
         NEW i \in Nat, i + 2 <= size
  PROVE  U16(data, i) = U16(full, i)
  BY DEF Agree, U16

-----------------------------------------------------------------------------
(* The checksum *)

CrcStep(data) == [p \in Byte \X (1 .. Len(data)) |-> (p[1] + data[p[2]]) % Base]

LEMMA CrcByByte ==
  ASSUME NEW data \in Seq(Byte)
  PROVE  \E g \in Walks(CrcStep(data), 0, Byte, Len(data)) : Crc(data) = g[Len(data)]
<1> DEFINE n == Len(data)
<1>1. \A b \in Byte, k \in 1 .. n : (b + data[k]) % Base \in Byte
  <2>1. ASSUME NEW b \in Byte, NEW k \in 1 .. n PROVE (b + data[k]) % Base \in Byte
    <3>1. b \in Nat /\ data[k] \in Nat
      <4>1. b \in Byte /\ data[k] \in Byte
        OBVIOUS
      <4>2. QED
        BY <4>1, BytesAreNumbers
    <3>2. (b + data[k]) % Base \in 0 .. Base - 1
      BY <3>1, BytesAreNumbers
    <3>3. QED
      BY <3>2 DEF Byte
  <2>2. QED
    BY <2>1
<1>2. CrcStep(data) \in [Byte \X (1 .. n) -> Byte]
  BY <1>1 DEF CrcStep
<1>3. n \in Nat /\ 0 \in Byte
  BY BytesAreNumbers
<1>4. PICK g \in Walks(CrcStep(data), 0, Byte, n) : TRUE
  BY <1>2, <1>3, WalkExists
<1>5. /\ g \in [0 .. n -> Byte] /\ g[0] = 0
      /\ \A k \in 1 .. n : g[k] = (g[k - 1] + data[k]) % Base
  <2>1. /\ g \in [0 .. n -> Byte] /\ g[0] = 0
        /\ \A k \in 1 .. n : g[k] = CrcStep(data)[<<g[k - 1], k>>]
    BY <1>4 DEF Walks
  <2>2. \A k \in 1 .. n : <<g[k - 1], k>> \in Byte \X (1 .. n)
    BY <1>3, <2>1
  <2>3. QED
    BY <2>1, <2>2 DEF CrcStep
<1> DEFINE crc[k \in 0 .. Len(data)] ==
               IF k = 0 THEN 0 ELSE (crc[k - 1] + data[k]) % Base
<1>6. Crc(data) = crc[Len(data)]
  BY Zenon DEF Crc
<1>7. g = [k \in 0 .. Len(data) |->
               IF k = 0 THEN 0 ELSE (g[k - 1] + data[k]) % Base]
  <2>1. \A k \in 0 .. n : k # 0 => k \in 1 .. n
    BY <1>3
  <2>2. QED
    BY <1>5, <2>1
<1>8. crc = [k \in 0 .. Len(data) |->
               IF k = 0 THEN 0 ELSE (crc[k - 1] + data[k]) % Base]
  BY <1>7, Zenon
<1> HIDE DEF crc
<1>9. crc = g
  <2>1. /\ crc = [k \in 0 .. n |-> crc[k]] /\ g = [k \in 0 .. n |-> g[k]]
        /\ crc[0] = g[0]
    BY <1>3, <1>5, <1>8
  <2>2. ASSUME NEW k \in 1 .. n, crc[k - 1] = g[k - 1] PROVE crc[k] = g[k]
    <3>1. k \in 0 .. n /\ k # 0
      BY <1>3
    <3>2. crc[k] = (crc[k - 1] + data[k]) % Base
      BY <1>8, <3>1
    <3>3. QED
      BY <1>5, <2>2, <3>2
  <2>3. Alike(n, crc, g)
    BY <1>3, <2>1, <2>2 DEF Alike
  <2>4. QED
    BY <2>3, AlikeAreEqual
<1>10. QED
  BY <1>6, <1>9

LEMMA CrcIsByte == ASSUME NEW data \in Seq(Byte) PROVE Crc(data) \in Byte
  BY CrcByByte DEF Walks

-----------------------------------------------------------------------------
(* The walk through the header *)

Ends == Nat \cup {Unwalkable}

RecordEnd(data, size, at) ==
    IF at = Unwalkable \/ at + 2 > size \/ U16(data, at) = 0
    THEN Unwalkable ELSE at + U16(data, at)

IsRecordWalk(g, data, size, start, count) ==
    /\ g \in [0 .. count -> Ends] /\ g[0] = start
    /\ \A k \in 1 .. count : g[k] = RecordEnd(data, size, g[k - 1])

LEMMA RecordEndType ==
  ASSUME NEW data \in Seq(Byte), NEW size \in Nat, NEW at \in Ends
  PROVE  RecordEnd(data, size, at) \in Ends
<1>1. CASE at = Unwalkable
  BY <1>1 DEF RecordEnd, Ends
<1>2. CASE at \in Nat
  BY <1>2, AtIsByte DEF RecordEnd, Ends
<1>3. QED
  BY <1>1, <1>2 DEF Ends

LEMMA RecordsByStep ==
  ASSUME NEW data \in Seq(Byte), NEW size \in Nat, NEW start \in Nat,
         NEW count \in Nat
  PROVE  \E g : /\ IsRecordWalk(g, data, size, start, count)
               /\ AfterRecords(data, size, start, count) = g[count]
<1> DEFINE F == [p \in Ends \X (1 .. count) |-> RecordEnd(data, size, p[1])]
<1>1. F \in [Ends \X (1 .. count) -> Ends] /\ start \in Ends
  BY RecordEndType DEF Ends
<1>2. PICK g \in Walks(F, start, Ends, count) : TRUE
  <2> HIDE DEF F
  <2>1. QED
    BY <1>1, WalkExists
<1>3. IsRecordWalk(g, data, size, start, count)
  <2>1. /\ g \in [0 .. count -> Ends] /\ g[0] = start
        /\ \A k \in 1 .. count : g[k] = F[<<g[k - 1], k>>]
    BY <1>2 DEF Walks
  <2>2. \A k \in 1 .. count : <<g[k - 1], k>> \in Ends \X (1 .. count)
    BY <2>1
  <2>3. QED
    BY <2>1, <2>2 DEF IsRecordWalk
<1> DEFINE after[k \in 0 .. count] ==
               IF k = 0 THEN start
               ELSE LET at == after[k - 1] IN
                    IF at = Unwalkable \/ at + 2 > size \/ U16(data, at) = 0
                    THEN Unwalkable ELSE at + U16(data, at)
<1>4. AfterRecords(data, size, start, count) = after[count]
  BY Zenon DEF AfterRecords
<1>5. g = [k \in 0 .. count |->
               IF k = 0 THEN start
               ELSE LET at == g[k - 1] IN
                    IF at = Unwalkable \/ at + 2 > size \/ U16(data, at) = 0
                    THEN Unwalkable ELSE at + U16(data, at)]
  <2>1. \A k \in 0 .. count : k # 0 => k \in 1 .. count
    OBVIOUS
  <2>2. QED
    BY <1>3, <2>1 DEF IsRecordWalk, RecordEnd
<1>6. after = [k \in 0 .. count |->
               IF k = 0 THEN start
               ELSE LET at == after[k - 1] IN
                    IF at = Unwalkable \/ at + 2 > size \/ U16(data, at) = 0
                    THEN Unwalkable ELSE at + U16(data, at)]
  BY <1>5, Zenon
<1> HIDE DEF after
<1>7. Alike(count, after, g)
  <2>1. /\ after = [k \in 0 .. count |-> after[k]] /\ g = [k \in 0 .. count |-> g[k]]
        /\ after[0] = g[0]
    BY <1>3, <1>6 DEF IsRecordWalk
  <2>2. ASSUME NEW k \in 1 .. count, after[k - 1] = g[k - 1] PROVE after[k] = g[k]
    <3>1. k \in 0 .. count /\ k # 0
      OBVIOUS
    <3>2. after[k] = RecordEnd(data, size, after[k - 1])
      BY <1>6, <3>1 DEF RecordEnd
    <3>3. QED
      BY <1>3, <2>2, <3>2 DEF IsRecordWalk
  <2>3. QED
    BY <2>1, <2>2 DEF Alike
<1>8. QED
  BY <1>3, <1>4, <1>7, AlikeAreEqual

LEMMA AgreeOnRecords ==
  ASSUME NEW data \in Seq(Byte), NEW full \in Seq(Byte), NEW size \in Nat,
         Agree(data, full, size), NEW start \in Nat, NEW count \in Nat
  PROVE  /\ AfterRecords(data, size, start, count) = AfterRecords(full, size, start, count)
         /\ AfterRecords(data, size, start, count) \in Ends
<1>1. PICK g : /\ IsRecordWalk(g, data, size, start, count)
               /\ AfterRecords(data, size, start, count) = g[count]
  BY RecordsByStep
<1>2. PICK h : /\ IsRecordWalk(h, full, size, start, count)
               /\ AfterRecords(full, size, start, count) = h[count]
  BY RecordsByStep
<1>3. \A at \in Ends : RecordEnd(data, size, at) = RecordEnd(full, size, at)
  <2>1. ASSUME NEW at \in Nat
        PROVE  RecordEnd(data, size, at) = RecordEnd(full, size, at)
    <3>1. CASE at + 2 > size
      BY <3>1 DEF RecordEnd
    <3>2. CASE at + 2 <= size
      BY <3>2, AgreeU16 DEF RecordEnd
    <3>3. QED
      BY <3>1, <3>2
  <2>2. QED
    BY <2>1 DEF Ends, RecordEnd
<1>4. Alike(count, g, h)
  BY <1>1, <1>2, <1>3 DEF Alike, IsRecordWalk
<1>5. QED
  BY <1>1, <1>2, <1>4, AlikeAreEqual DEF IsRecordWalk

Spots == [at : Ends, end : Nat]

AfterComponent(data, size, spot) ==
    IF spot.at = Unwalkable \/ ~ComponentFits(spot.at, size)
    THEN [at |-> Unwalkable, end |-> 0]
    ELSE [at |-> ComponentEnd(data, spot.at),
          end |-> Max({spot.end, U16(data, spot.at) + At(data, spot.at + 2)})]

IsComponentWalk(g, data, size, start, count) ==
    /\ g \in [0 .. count -> Spots] /\ g[0] = [at |-> start, end |-> 0]
    /\ \A k \in 1 .. count : g[k] = AfterComponent(data, size, g[k - 1])

LEMMA MaxOfTwo ==
  ASSUME NEW a \in Nat, NEW b \in Nat
  PROVE  Max({a, b}) = IF a < b THEN b ELSE a
<1> DEFINE m == IF a < b THEN b ELSE a
<1>1. m \in {a, b} /\ \A y \in {a, b} : m >= y
  OBVIOUS
<1>2. \A x \in {a, b} : (\A y \in {a, b} : x >= y) => x = m
  OBVIOUS
<1> HIDE DEF m
<1>3. QED
  BY <1>1, <1>2 DEF Max, m

LEMMA AfterComponentType ==
  ASSUME NEW data \in Seq(Byte), NEW size \in Nat, NEW spot \in Spots
  PROVE  AfterComponent(data, size, spot) \in Spots
<1>1. CASE spot.at = Unwalkable \/ ~ComponentFits(spot.at, size)
  BY <1>1 DEF AfterComponent, Spots, Ends
<1>2. CASE ~(spot.at = Unwalkable \/ ~ComponentFits(spot.at, size))
  <2>1. spot.at \in Nat /\ spot.end \in Nat
    BY <1>2 DEF Spots, Ends
  <2> DEFINE at == spot.at
  <2> HIDE DEF at
  <2>2. at \in Nat /\ at + 2 \in Nat /\ at + 3 \in Nat
    BY <2>1 DEF at
  <2>3. /\ U16(data, at) \in Nat /\ At(data, at + 2) \in Nat
        /\ At(data, at + 3) \in Nat
    BY <2>2, AtIsByte, BytesAreNumbers
  <2>4. U16(data, at) + At(data, at + 2) \in Nat
    BY <2>3
  <2>5. Max({spot.end, U16(data, at) + At(data, at + 2)}) \in Nat
    BY <2>1, <2>4, MaxOfTwo
  <2>6. ComponentEnd(data, at) \in Nat
    BY <2>2, <2>3 DEF ComponentEnd, k_comp_info_fixed_size, k_comp_info_opaque_len_size
  <2>7. QED
    BY <1>2, <2>5, <2>6 DEF AfterComponent, Spots, Ends, at
<1>3. QED
  BY <1>1, <1>2

LEMMA ComponentsByStep ==
  ASSUME NEW data \in Seq(Byte), NEW size \in Nat, NEW start \in Nat,
         NEW count \in Nat
  PROVE  \E g : /\ IsComponentWalk(g, data, size, start, count)
               /\ PackageEnd(data, size, start, count) = g[count].end
<1> DEFINE F == [p \in Spots \X (1 .. count) |-> AfterComponent(data, size, p[1])]
           first == [at |-> start, end |-> 0]
<1>1. F \in [Spots \X (1 .. count) -> Spots] /\ first \in Spots
  BY AfterComponentType DEF Spots, Ends
<1>2. PICK g \in Walks(F, first, Spots, count) : TRUE
  <2> HIDE DEF F, first
  <2>1. QED
    BY <1>1, WalkExists
<1>3. IsComponentWalk(g, data, size, start, count)
  <2>1. /\ g \in [0 .. count -> Spots] /\ g[0] = first
        /\ \A k \in 1 .. count : g[k] = F[<<g[k - 1], k>>]
    BY <1>2 DEF Walks
  <2>2. \A k \in 1 .. count : <<g[k - 1], k>> \in Spots \X (1 .. count)
    <3>1. \A k \in 1 .. count : k - 1 \in 0 .. count
      OBVIOUS
    <3> HIDE DEF F, first
    <3>2. QED
      BY <2>1, <3>1
  <2>3. QED
    BY <2>1, <2>2 DEF IsComponentWalk
<1> DEFINE walk[k \in 0 .. count] ==
               IF k = 0 THEN [at |-> start, end |-> 0]
               ELSE LET at == walk[k - 1].at IN
                    IF at = Unwalkable \/ ~ComponentFits(at, size)
                    THEN [at |-> Unwalkable, end |-> 0]
                    ELSE [at |-> ComponentEnd(data, at),
                          end |-> Max({walk[k - 1].end,
                                       U16(data, at) + At(data, at + 2)})]
<1>4. PackageEnd(data, size, start, count) = walk[count].end
  BY Zenon DEF PackageEnd
<1>5. g = [k \in 0 .. count |->
               IF k = 0 THEN [at |-> start, end |-> 0]
               ELSE LET at == g[k - 1].at IN
                    IF at = Unwalkable \/ ~ComponentFits(at, size)
                    THEN [at |-> Unwalkable, end |-> 0]
                    ELSE [at |-> ComponentEnd(data, at),
                          end |-> Max({g[k - 1].end,
                                       U16(data, at) + At(data, at + 2)})]]
  <2>1. \A k \in 0 .. count : k # 0 => k \in 1 .. count
    OBVIOUS
  <2>2. g = [k \in 0 .. count |-> IF k = 0 THEN [at |-> start, end |-> 0]
                                 ELSE AfterComponent(data, size, g[k - 1])]
    BY <1>3, <2>1 DEF IsComponentWalk
  <2>3. QED
    BY <2>2, Zenon DEF AfterComponent
<1>6. walk = [k \in 0 .. count |->
               IF k = 0 THEN [at |-> start, end |-> 0]
               ELSE LET at == walk[k - 1].at IN
                    IF at = Unwalkable \/ ~ComponentFits(at, size)
                    THEN [at |-> Unwalkable, end |-> 0]
                    ELSE [at |-> ComponentEnd(data, at),
                          end |-> Max({walk[k - 1].end,
                                       U16(data, at) + At(data, at + 2)})]]
  BY <1>5, Zenon
<1>7. walk = [k \in 0 .. count |-> IF k = 0 THEN [at |-> start, end |-> 0]
                                  ELSE AfterComponent(data, size, walk[k - 1])]
  <2> HIDE DEF walk
  <2>1. QED
    BY <1>6, Zenon DEF AfterComponent
<1> HIDE DEF walk
<1>8. Alike(count, walk, g)
  <2>1. /\ walk = [k \in 0 .. count |-> walk[k]] /\ g = [k \in 0 .. count |-> g[k]]
        /\ walk[0] = g[0]
    BY <1>3, <1>7 DEF IsComponentWalk
  <2>2. ASSUME NEW k \in 1 .. count, walk[k - 1] = g[k - 1] PROVE walk[k] = g[k]
    <3>1. k \in 0 .. count /\ k # 0
      OBVIOUS
    <3>2. walk[k] = AfterComponent(data, size, walk[k - 1])
      BY <1>7, <3>1
    <3>3. QED
      BY <1>3, <2>2, <3>2 DEF IsComponentWalk
  <2>3. QED
    BY <2>1, <2>2 DEF Alike
<1>9. QED
  BY <1>3, <1>4, <1>8, AlikeAreEqual

LEMMA AgreeOnComponents ==
  ASSUME NEW data \in Seq(Byte), NEW full \in Seq(Byte), NEW size \in Nat,
         Agree(data, full, size), NEW start \in Nat, NEW count \in Nat
  PROVE  /\ PackageEnd(data, size, start, count) = PackageEnd(full, size, start, count)
         /\ PackageEnd(data, size, start, count) \in Nat
<1>1. PICK g : /\ IsComponentWalk(g, data, size, start, count)
               /\ PackageEnd(data, size, start, count) = g[count].end
  BY ComponentsByStep
<1>2. PICK h : /\ IsComponentWalk(h, full, size, start, count)
               /\ PackageEnd(full, size, start, count) = h[count].end
  BY ComponentsByStep
<1>3. ASSUME NEW spot \in Spots
      PROVE  AfterComponent(data, size, spot) = AfterComponent(full, size, spot)
  <2>1. CASE spot.at = Unwalkable \/ ~ComponentFits(spot.at, size)
    BY <2>1 DEF AfterComponent
  <2>2. CASE ~(spot.at = Unwalkable \/ ~ComponentFits(spot.at, size))
    <3>1. spot.at \in Nat /\ spot.at + 4 <= size
      BY <2>2 DEF Spots, Ends, ComponentFits, k_comp_info_fixed_size
    <3>2. /\ U16(data, spot.at) = U16(full, spot.at)
          /\ At(data, spot.at + 2) = At(full, spot.at + 2)
          /\ At(data, spot.at + 3) = At(full, spot.at + 3)
      <4> DEFINE at == spot.at
      <4>1. at \in Nat /\ at + 2 \in Nat /\ at + 3 \in Nat /\ at + 4 <= size
        BY <3>1
      <4> HIDE DEF at
      <4>2. at + 2 <= size /\ at + 2 < size /\ at + 3 < size
        BY <4>1
      <4>3. /\ At(data, at + 2) = At(full, at + 2)
            /\ At(data, at + 3) = At(full, at + 3)
        BY <4>1, <4>2 DEF Agree
      <4>4. U16(data, at) = U16(full, at)
        BY <4>1, <4>2, AgreeU16
      <4>5. QED
        BY <4>3, <4>4 DEF at
    <3>3. QED
      BY <3>2 DEF AfterComponent, ComponentEnd
  <2>3. QED
    BY <2>1, <2>2
<1>4. Alike(count, g, h)
  BY <1>1, <1>2, <1>3 DEF Alike, IsComponentWalk
<1>5. g = h /\ g[count] \in Spots
  BY <1>1, <1>4, AlikeAreEqual DEF IsComponentWalk
<1>6. QED
  BY <1>1, <1>2, <1>5 DEF Spots

\* package_size_from_header looks at nothing behind the header.
LEMMA AgreeOnPackageSize ==
  ASSUME NEW data \in Seq(Byte), NEW full \in Seq(Byte), NEW size \in Nat,
         size >= k_pldm_min_header_size, Agree(data, full, size)
  PROVE  /\ PackageSize(data, size) = PackageSize(full, size)
         /\ PackageSize(data, size) \in Nat
<1> DEFINE rec(d) == k_pldm_min_header_size + At(d, 3)
           down(d) == AfterRecords(d, size, rec(d) + 1, At(d, rec(d)))
           bad(d) == \/ rec(d) >= size
                     \/ down(d) = Unwalkable \/ down(d) >= size
                     \/ At(d, down(d)) # 0 \/ down(d) + 3 > size
           end(d) == PackageEnd(d, size, down(d) + 3, U16(d, down(d) + 1))
<1>1. \A d : PackageSize(d, size) = IF bad(d) THEN 0 ELSE end(d)
  BY DEF PackageSize
<1>2. rec(data) = rec(full) /\ rec(data) \in Nat
  <2>1. At(data, 3) = At(full, 3)
    BY DEF Agree, k_pldm_min_header_size
  <2>2. At(data, 3) \in Nat
    BY AtIsByte, BytesAreNumbers
  <2>3. QED
    BY <2>1, <2>2 DEF k_pldm_min_header_size
<1> HIDE DEF rec
<1>3. CASE rec(data) >= size
  BY <1>1, <1>2, <1>3
<1>4. CASE rec(data) < size
  <2>1. At(data, rec(data)) = At(full, rec(data)) /\ At(data, rec(data)) \in Nat
    BY <1>2, <1>4, AtIsByte, BytesAreNumbers DEF Agree
  <2>2. down(data) = down(full) /\ down(data) \in Ends
    <3>1. rec(data) + 1 \in Nat
      BY <1>2
    <3>2. QED
      BY <1>2, <2>1, <3>1, AgreeOnRecords
  <2> HIDE DEF down
  <2>3. CASE down(data) = Unwalkable \/ down(data) >= size
    BY <1>1, <2>2, <2>3
  <2>4. CASE ~(down(data) = Unwalkable \/ down(data) >= size)
    <3>1. down(data) \in Nat /\ down(data) < size
      BY <2>2, <2>4 DEF Ends
    <3>2. At(data, down(data)) = At(full, down(data))
      BY <3>1 DEF Agree
    <3>3. bad(data) <=> bad(full)
      BY <1>2, <2>2, <3>2
    <3>4. CASE bad(data)
      BY <1>1, <3>3, <3>4
    <3>5. CASE ~bad(data)
      <4>1. down(data) + 3 <= size
        BY <3>1, <3>5
      <4>2. U16(data, down(data) + 1) = U16(full, down(data) + 1)
        <5>1. down(data) + 1 \in Nat /\ (down(data) + 1) + 2 <= size
          BY <3>1, <4>1
        <5>2. QED
          BY <5>1, AgreeU16
      <4>3. down(data) + 3 \in Nat /\ U16(data, down(data) + 1) \in Nat
        <5>1. down(data) + 1 \in Nat /\ down(data) + 3 \in Nat
          BY <3>1
        <5>2. QED
          BY <5>1, AtIsByte
      <4>4. end(data) = end(full) /\ end(data) \in Nat
        BY <2>2, <4>2, <4>3, AgreeOnComponents
      <4> HIDE DEF bad, end
      <4>5. QED
        BY <1>1, <3>3, <3>5, <4>4
    <3>6. QED
      BY <3>4, <3>5
  <2>5. QED
    BY <2>3, <2>4
<1>5. QED
  BY <1>2, <1>3, <1>4

-----------------------------------------------------------------------------
(* The header decides *)

LEMMA HeaderSizeType ==
  ASSUME NEW data \in Seq(Byte) PROVE HeaderSize(data) \in Nat
  BY AtIsByte DEF HeaderSize

LEMMA AgreeOnUuid ==
  ASSUME NEW data, NEW full, NEW size \in Nat, Agree(data, full, size)
  PROVE  HasUuid(data, size) <=> HasUuid(full, size)
<1>1. /\ Len(k_ist_vectors_component_uuid) = 2
      /\ DOMAIN k_ist_vectors_component_uuid = {1, 2}
  BY DEF k_ist_vectors_component_uuid
<1>2. ASSUME NEW i \in 0 .. size - 2, NEW k \in {1, 2}
      PROVE  At(data, i + k - 1) = At(full, i + k - 1)
  <2>1. i + k - 1 \in Nat /\ i + k - 1 < size
    OBVIOUS
  <2>2. QED
    BY <2>1 DEF Agree
<1>3. QED
  BY <1>1, <1>2 DEF HasUuid

\* validate_pldm_header and the component: only the header counts.
LEMMA AgreeOnHeader ==
  ASSUME NEW full \in Seq(Byte), NEW r \in 0 .. Len(full),
         HeaderSize(full) >= k_pldm_min_header_size, HeaderSize(full) <= r
  PROVE  LET data == SubSeq(full, 1, r) IN
         /\ HeaderSize(data) = HeaderSize(full)
         /\ Valid(data) <=> Valid(full)
         /\ ComponentOf(data) = ComponentOf(full)
         /\ ComponentOf(data) \in [offset : Nat, size : Nat, crc : Byte]
<1> DEFINE data == SubSeq(full, 1, r)
           size == HeaderSize(full)
           t == Trailer(full)
<1>1. data \in Seq(Byte) /\ Len(data) = r /\ Agree(data, full, r)
  BY PrefixAgrees
<1>2. size \in Nat /\ r \in Nat /\ size >= 4 /\ size <= r
  BY HeaderSizeType DEF k_pldm_min_header_size
<1>3. t \in Nat /\ t >= 2 /\ t < size /\ t + 1 < size
  BY <1>2 DEF Trailer, trailer_size
<1>4. SubSeq(data, 1, t) = SubSeq(full, 1, t)
  <2>1. r \in 1 .. Len(full) /\ 1 \in 1 .. Len(full) /\ t \in 1 .. (r - 1) + 1
        /\ 1 \in 1 .. (r - 1) + 1
    BY <1>2, <1>3
  <2> HIDE DEF t
  <2>2. SubSeq(SubSeq(full, 1, r), 1, t) = SubSeq(full, (1 + 1) - 1, (1 + t) - 1)
    BY <2>1, SubSeqOfSubSeq
  <2>3. (1 + 1) - 1 = 1 /\ (1 + t) - 1 = t
    BY <1>3
  <2>4. QED
    BY <2>2, <2>3
<1> HIDE DEF data
<1>5. Agree(data, full, size)
  BY <1>1, <1>2 DEF Agree
<1>6. HeaderSize(data) = size
  <2>1. U16(data, 1) = U16(full, 1)
    BY <1>2, <1>5, AgreeU16
  <2>2. QED
    BY <2>1 DEF HeaderSize
<1>7. Trailer(data) = t
  BY <1>6 DEF Trailer
<1>8. /\ At(data, 0) = At(full, 0) /\ At(data, t) = At(full, t)
      /\ At(data, t + 1) = At(full, t + 1)
  BY <1>2, <1>3, <1>5 DEF Agree
<1>9. PackageSize(data, size) = PackageSize(full, size) /\ PackageSize(data, size) \in Nat
  BY <1>1, <1>2, <1>5, AgreeOnPackageSize DEF k_pldm_min_header_size
<1>10. Valid(data) <=> Valid(full)
  BY <1>4, <1>6, <1>7, <1>8 DEF Valid
<1>11. ComponentOf(data) = ComponentOf(full)
  BY <1>6, <1>7, <1>8, <1>9 DEF ComponentOf
<1>12. ComponentOf(full) \in [offset : Nat, size : Nat, crc : Byte]
  <2>1. At(full, t + 1) \in Byte
    BY <1>3, AtIsByte
  <2>2. PackageSize(full, size) \in Nat
    BY <1>9
  <2>3. (IF PackageSize(full, size) > size THEN PackageSize(full, size) - size ELSE 0) \in Nat
    BY <1>2, <2>2
  <2>4. QED
    BY <1>2, <2>1, <2>3 DEF ComponentOf
<1>13. QED
  BY <1>6, <1>10, <1>11, <1>12 DEF data

\* check_ist_component_uuid asks for more until it can decide, and decides as
\* on the whole upload.
LEMMA CheckOfPrefix ==
  ASSUME NEW full \in Seq(Byte), NEW r \in 0 .. Len(full),
         Check(SubSeq(full, 1, r)) # "need_more_data"
  PROVE  /\ Check(full) = Check(SubSeq(full, 1, r))
         /\ Check(full) = "ok" => /\ HeaderSize(full) >= k_pldm_min_header_size
                                  /\ HeaderSize(full) <= r
<1> DEFINE data == SubSeq(full, 1, r)
           size == HeaderSize(full)
<1>1. data \in Seq(Byte) /\ Len(data) = r /\ Agree(data, full, r)
  BY PrefixAgrees
<1>2. r \in Nat /\ r >= 3 /\ Len(full) >= r /\ Len(full) \in Nat
  BY <1>1 DEF Check, k_pldm_header_prefix_size
<1> HIDE DEF data
<1>3. HeaderSize(data) = size
  BY <1>1, <1>2, AgreeU16 DEF HeaderSize
<1>4. size \in Nat
  BY HeaderSizeType
<1> HIDE DEF size
<1>5. CASE size \notin k_pldm_min_header_size .. k_pldm_max_header_size
  BY <1>1, <1>2, <1>3, <1>5 DEF Check, data, size, k_pldm_header_prefix_size
<1>6. CASE size \in k_pldm_min_header_size .. k_pldm_max_header_size
  <2>1. size <= r
    BY <1>1, <1>2, <1>3, <1>4, <1>6 DEF Check, data
  <2>2. size >= k_pldm_min_header_size
    BY <1>4, <1>6 DEF k_pldm_min_header_size
  <2>3. HasUuid(data, size) <=> HasUuid(full, size)
    <3>1. Agree(data, full, size)
      BY <1>1, <1>2, <1>4, <2>1 DEF Agree
    <3>2. QED
      BY <1>4, <3>1, AgreeOnUuid
  <2>4. ~(Len(full) < size) /\ ~(Len(full) < k_pldm_header_prefix_size)
        /\ ~(Len(data) < size) /\ ~(Len(data) < k_pldm_header_prefix_size)
    BY <1>1, <1>2, <1>4, <2>1 DEF k_pldm_header_prefix_size
  <2>5. Check(full) = Check(data)
    BY <1>3, <1>6, <2>3, <2>4 DEF Check, size
  <2>6. QED
    BY <2>1, <2>2, <2>5 DEF data, size
<1>7. QED
  BY <1>5, <1>6

-----------------------------------------------------------------------------
(* Where the parts of a package are *)

Holds(data, o, part) ==
    /\ o + Len(part) <= Len(data)
    /\ \A j \in Nat : j < Len(part) => At(data, o + j) = At(part, j)

LEMMA AtOfConcat ==
  ASSUME NEW s \in Seq(Byte), NEW t \in Seq(Byte), NEW i \in Nat,
         i < Len(s) + Len(t)
  PROVE  At(s \o t, i) = IF i < Len(s) THEN At(s, i) ELSE At(t, i - Len(s))
<1>1. /\ Len(s \o t) = Len(s) + Len(t)
      /\ \A k \in 1 .. Len(s) + Len(t) :
             (s \o t)[k] = IF k <= Len(s) THEN s[k] ELSE t[k - Len(s)]
  BY ConcatProperties
<1>2. Len(s) \in Nat /\ Len(t) \in Nat /\ i + 1 \in 1 .. Len(s) + Len(t)
  OBVIOUS
<1>3. At(s \o t, i) = IF i + 1 <= Len(s) THEN s[i + 1] ELSE t[i + 1 - Len(s)]
  BY <1>1, <1>2 DEF At
<1>4. CASE i < Len(s)
  BY <1>2, <1>3, <1>4 DEF At
<1>5. CASE ~(i < Len(s))
  <2>1. i - Len(s) \in Nat /\ i - Len(s) < Len(t) /\ i + 1 - Len(s) = (i - Len(s)) + 1
    BY <1>2, <1>5
  <2>2. At(t, i - Len(s)) = t[i + 1 - Len(s)]
    BY <2>1 DEF At
  <2>3. QED
    BY <1>2, <1>3, <1>5, <2>2
<1>6. QED
  BY <1>4, <1>5

LEMMA HoldsItself == ASSUME NEW s \in Seq(Byte) PROVE Holds(s, 0, s)
<1>1. \A j \in Nat : 0 + j = j
  OBVIOUS
<1>2. 0 + Len(s) <= Len(s)
  OBVIOUS
<1>3. QED
  BY <1>1, <1>2 DEF Holds

LEMMA HoldsTheRest ==
  ASSUME NEW s \in Seq(Byte), NEW t \in Seq(Byte)
  PROVE  /\ s \o t \in Seq(Byte) /\ Len(s \o t) = Len(s) + Len(t)
         /\ Holds(s \o t, Len(s), t)
<1>1. s \o t \in Seq(Byte) /\ Len(s \o t) = Len(s) + Len(t)
  BY ConcatProperties
<1>2. ASSUME NEW j \in Nat, j < Len(t) PROVE At(s \o t, Len(s) + j) = At(t, j)
  <2>1. Len(s) \in Nat /\ Len(t) \in Nat
    OBVIOUS
  <2>2. Len(s) + j \in Nat /\ Len(s) + j < Len(s) + Len(t)
        /\ ~(Len(s) + j < Len(s)) /\ (Len(s) + j) - Len(s) = j
    BY <1>2, <2>1
  <2>3. QED
    BY <2>2, AtOfConcat
<1>3. QED
  BY <1>1, <1>2 DEF Holds

LEMMA HoldsStill ==
  \A s, t \in Seq(Byte) : \A o \in Nat : \A part \in Seq(Byte) :
      Holds(s, o, part) => Holds(s \o t, o, part)
<1> SUFFICES ASSUME NEW s \in Seq(Byte), NEW t \in Seq(Byte), NEW o \in Nat,
                    NEW part \in Seq(Byte), Holds(s, o, part)
             PROVE  Holds(s \o t, o, part)
  OBVIOUS
<1>1. Len(s \o t) = Len(s) + Len(t)
  BY ConcatProperties
<1>2. Len(s) \in Nat /\ Len(t) \in Nat /\ Len(part) \in Nat
      /\ o + Len(part) <= Len(s)
  BY DEF Holds
<1>3. ASSUME NEW j \in Nat, j < Len(part) PROVE At(s \o t, o + j) = At(part, j)
  <2>1. o + j \in Nat /\ o + j < Len(s) /\ o + j < Len(s) + Len(t)
    BY <1>2, <1>3
  <2>2. At(s \o t, o + j) = At(s, o + j)
    BY <2>1, AtOfConcat
  <2>3. QED
    BY <1>3, <2>2 DEF Holds
<1>4. QED
  BY <1>1, <1>2, <1>3 DEF Holds

LEMMA HoldsWithin ==
  ASSUME NEW data \in Seq(Byte), NEW o \in Nat, NEW part \in Seq(Byte),
         NEW oo \in Nat, NEW inner \in Seq(Byte),
         Holds(data, o, part), Holds(part, oo, inner)
  PROVE  Holds(data, o + oo, inner)
<1>1. /\ Len(data) \in Nat /\ Len(part) \in Nat /\ Len(inner) \in Nat
      /\ o + Len(part) <= Len(data) /\ oo + Len(inner) <= Len(part)
  BY DEF Holds
<1>2. ASSUME NEW j \in Nat, j < Len(inner)
      PROVE  At(data, (o + oo) + j) = At(inner, j)
  <2>1. oo + j \in Nat /\ oo + j < Len(part) /\ (o + oo) + j = o + (oo + j)
    BY <1>1, <1>2
  <2>2. At(data, o + (oo + j)) = At(part, oo + j) /\ At(part, oo + j) = At(inner, j)
    BY <1>2, <2>1 DEF Holds
  <2>3. QED
    BY <2>1, <2>2
<1>3. (o + oo) + Len(inner) <= Len(data)
  BY <1>1
<1>4. QED
  BY <1>2, <1>3 DEF Holds

LEMMA Single ==
  ASSUME NEW b \in Byte
  PROVE  /\ <<b>> \in Seq(Byte) /\ Len(<<b>>) = 1
         /\ \A data, o : Holds(data, o, <<b>>) /\ o \in Nat => At(data, o) = b
<1>1. <<b>> \in Seq(Byte) /\ Len(<<b>>) = 1 /\ At(<<b>>, 0) = b
  BY DEF At
<1>2. ASSUME NEW data, NEW o \in Nat, Holds(data, o, <<b>>) PROVE At(data, o) = b
  <2>1. At(data, o + 0) = At(<<b>>, 0)
    BY <1>1, <1>2 DEF Holds
  <2>2. QED
    BY <1>1, <2>1
<1>3. QED
  BY <1>1, <1>2

LEMMA DigitsOfNumber ==
  ASSUME NEW n \in 0 .. 35
  PROVE  /\ Digits(n) \in Seq(Byte) /\ Len(Digits(n)) = 2
         /\ \A data, o : Holds(data, o, Digits(n)) /\ o \in Nat => U16(data, o) = n
<1> DEFINE low == n % Base
           high == n \div Base
<1>1. Base \in Nat /\ Base >= 6
  BY BytesAreNumbers
<1>2. high \in Int /\ low \in 0 .. Base - 1 /\ n = Base * high + low
  BY <1>1
<1>3. high \in 0 .. Base - 1
  <2> HIDE DEF low, high
  <2>1. high >= 0
    <3>1. SUFFICES ASSUME high < 0 PROVE FALSE
      BY <1>2
    <3>2. Base * high <= 0 - Base
      BY <1>1, <1>2, <3>1, Z3
    <3>3. QED
      BY <1>1, <1>2, <3>2
  <2>2. high < Base
    <3>1. SUFFICES ASSUME high >= Base PROVE FALSE
      BY <1>1, <1>2
    <3>2. Base * high >= 36
      BY <1>1, <1>2, <3>1, Z3
    <3>3. QED
      BY <1>1, <1>2, <3>2
  <2>3. QED
    BY <1>1, <1>2, <2>1, <2>2
<1>4. Digits(n) = <<low, high>>
  BY DEF Digits
<1> HIDE DEF low, high
<1>5. low \in Byte /\ high \in Byte
  BY <1>2, <1>3 DEF Byte
<1>6. /\ Digits(n) \in Seq(Byte) /\ Len(Digits(n)) = 2
      /\ At(Digits(n), 0) = low /\ At(Digits(n), 1) = high
  BY <1>4, <1>5 DEF At
<1>7. ASSUME NEW data, NEW o \in Nat, Holds(data, o, Digits(n)) PROVE U16(data, o) = n
  <2>1. At(data, o + 0) = low /\ At(data, o + 1) = high
    BY <1>6, <1>7 DEF Holds
  <2>2. At(data, o) = low
    BY <2>1
  <2>3. low \in Int /\ high \in Int /\ n = low + Base * high
    BY <1>1, <1>2, <1>3
  <2>4. QED
    BY <2>1, <2>2, <2>3 DEF U16
<1>8. QED
  BY <1>6, <1>7

Counts == 0 .. 2
Versions == 0 .. 1

LEMMA HeaderLengths ==
  ASSUME NEW count \in Counts, NEW version \in Versions
  PROVE  /\ HeaderLength(count, version) \in 14 .. 27
         /\ count * (5 + version) \in 0 .. 12
         /\ HeaderLength(count, version) = 14 + version + count * (5 + version)
         /\ 1 * (5 + version) = 5 + version /\ 0 * (5 + version) = 0
         /\ 2 * (5 + version) = (5 + version) + (5 + version)
<1>1. count \in {0, 1, 2} /\ version \in {0, 1}
  BY DEF Counts, Versions
<1>2. QED
  BY <1>1 DEF HeaderLength

LEMMA VersionStringType ==
  ASSUME NEW version \in Versions
  PROVE  /\ VersionString(version) \in Seq(Byte)
         /\ Len(VersionString(version)) = version
<1>1. version \in Nat /\ 1 \in Byte
  BY BytesAreNumbers DEF Versions
<1>2. QED
  BY <1>1 DEF VersionString

\* What the walk reads of the i-th component.
LEMMA ComponentHolds ==
  ASSUME NEW count \in Counts, NEW version \in Versions, NEW i \in 1 .. count
  PROVE  LET c == Component(i, count, version) IN
         /\ c \in Seq(Byte) /\ Len(c) = 5 + version
         /\ Holds(c, 0, Digits(HeaderLength(count, version) + i - 1))
         /\ Holds(c, 2, <<1>>) /\ Holds(c, 3, <<version>>)
<1> DEFINE n == HeaderLength(count, version) + i - 1
           a == Digits(n)
           b == a \o <<1, version>>
           d == b \o VersionString(version)
           c == d \o <<0>>
<1>1. n \in 0 .. 35 /\ version \in Nat
  BY HeaderLengths DEF Counts, Versions
<1>2. 0 \in Byte /\ 1 \in Byte /\ version \in Byte
  BY BytesAreNumbers DEF Versions
<1> HIDE DEF n
<1>3. a \in Seq(Byte) /\ Len(a) = 2 /\ Holds(a, 0, a)
  BY <1>1, DigitsOfNumber, HoldsItself
<1> HIDE DEF a
<1>4. <<1, version>> \in Seq(Byte) /\ Len(<<1, version>>) = 2
  BY <1>2
<1>5. Holds(<<1, version>>, 0, <<1>>) /\ Holds(<<1, version>>, 1, <<version>>)
  BY <1>2 DEF Holds, At
<1>6. /\ b \in Seq(Byte) /\ Len(b) = 4 /\ Holds(b, 2, <<1, version>>)
      /\ Holds(b, 0, a)
  <2> DEFINE r == <<1, version>>
  <2>1. r \in Seq(Byte) /\ Len(r) = 2
    BY <1>4
  <2> HIDE DEF r
  <2>2. b = a \o r
    BY DEF r
  <2> HIDE DEF b
  <2>3. b \in Seq(Byte) /\ Len(b) = 2 + 2 /\ Holds(b, 2, r)
    BY <1>3, <2>1, <2>2, HoldsTheRest
  <2>4. Holds(b, 0, a)
    BY <1>3, <2>1, <2>2, HoldsStill
  <2>5. QED
    BY <2>3, <2>4 DEF r
<1> HIDE DEF b
<1>7. Holds(b, 2, <<1>>) /\ Holds(b, 3, <<version>>)
  <2>1. Holds(b, 2 + 0, <<1>>) /\ Holds(b, 2 + 1, <<version>>)
    BY <1>2, <1>4, <1>5, <1>6, Single, HoldsWithin
  <2>2. QED
    BY <2>1
<1>8. /\ d \in Seq(Byte) /\ Len(d) = 4 + version
      /\ Holds(d, 0, a) /\ Holds(d, 2, <<1>>) /\ Holds(d, 3, <<version>>)
  <2>1. VersionString(version) \in Seq(Byte) /\ Len(VersionString(version)) = version
    BY VersionStringType
  <2>2. d \in Seq(Byte) /\ Len(d) = 4 + version
    BY <1>6, <2>1, HoldsTheRest
  <2>3. <<1>> \in Seq(Byte) /\ <<version>> \in Seq(Byte)
    BY <1>2
  <2>4. QED
    BY <1>3, <1>6, <1>7, <2>1, <2>2, <2>3, HoldsStill
<1> HIDE DEF d
<1>9. /\ c \in Seq(Byte) /\ Len(c) = 5 + version
      /\ Holds(c, 0, a) /\ Holds(c, 2, <<1>>) /\ Holds(c, 3, <<version>>)
  <2>1. <<0>> \in Seq(Byte) /\ Len(<<0>>) = 1
    BY <1>2
  <2>2. c \in Seq(Byte) /\ Len(c) = (4 + version) + 1
    BY <1>8, <2>1, HoldsTheRest
  <2>3. <<1>> \in Seq(Byte) /\ <<version>> \in Seq(Byte)
    BY <1>2
  <2>4. Holds(c, 0, a) /\ Holds(c, 2, <<1>>) /\ Holds(c, 3, <<version>>)
    BY <1>3, <1>8, <2>1, <2>3, HoldsStill
  <2>5. QED
    BY <1>1, <2>2, <2>4
<1> HIDE DEF c
<1>10. c = Component(i, count, version)
  BY DEF c, d, b, a, n, Component
<1>11. QED
  BY <1>9, <1>10 DEF a, n

LEMMA ComponentsByOne ==
  ASSUME NEW count \in Counts, NEW version \in Versions
  PROVE  /\ count = 0 => Components(count, version) = <<>>
         /\ count = 1 => Components(count, version) =
                            <<>> \o Component(1, count, version)
         /\ count = 2 => Components(count, version) =
                            (<<>> \o Component(1, count, version))
                                \o Component(2, count, version)
<1> DEFINE c1 == <<>> \o Component(1, count, version)
           c2 == c1 \o Component(2, count, version)
           g == [k \in 0 .. count |-> IF k = 0 THEN <<>> ELSE IF k = 1 THEN c1 ELSE c2]
           first[k \in 0 .. count] ==
               IF k = 0 THEN <<>> ELSE first[k - 1] \o Component(k, count, version)
<1>1. count \in Nat /\ count <= 2
  BY DEF Counts
<1>2. Components(count, version) = first[count]
  BY Zenon DEF Components
<1>3. g = [k \in 0 .. count |->
              IF k = 0 THEN <<>> ELSE g[k - 1] \o Component(k, count, version)]
  <2>1. g = [k \in 0 .. count |-> g[k]] /\ g[0] = <<>>
    BY <1>1
  <2>2. 1 \in 0 .. count => g[1] = c1
    OBVIOUS
  <2>3. 2 \in 0 .. count => g[2] = c2
    OBVIOUS
  <2> HIDE DEF g
  <2>4. 1 \in 0 .. count => g[1] = g[0] \o Component(1, count, version)
    BY <2>1, <2>2
  <2>5. 2 \in 0 .. count => g[2] = g[1] \o Component(2, count, version)
    <3>1. 2 \in 0 .. count => 1 \in 0 .. count
      BY <1>1
    <3>2. QED
      BY <2>2, <2>3, <3>1
  <2>6. ASSUME NEW k \in 0 .. count, k # 0
        PROVE  g[k] = g[k - 1] \o Component(k, count, version)
    <3>1. k = 1 \/ k = 2
      BY <1>1, <2>6
    <3>2. 1 - 1 = 0 /\ 2 - 1 = 1
      OBVIOUS
    <3>3. CASE k = 1
      BY <2>4, <3>2, <3>3
    <3>4. CASE k = 2
      BY <2>5, <3>2, <3>4
    <3>5. QED
      BY <3>1, <3>3, <3>4
  <2>7. QED
    BY <2>1, <2>6
<1>4. first = [k \in 0 .. count |->
              IF k = 0 THEN <<>> ELSE first[k - 1] \o Component(k, count, version)]
  BY <1>3, Zenon
<1> HIDE DEF first
<1>5. first[0] = <<>>
  BY <1>1, <1>4
<1>6. count >= 1 => first[1] = c1
  <2>1. SUFFICES ASSUME count >= 1 PROVE first[1] = c1
    OBVIOUS
  <2>2. 1 \in 0 .. count /\ 1 # 0 /\ 1 - 1 = 0
    BY <1>1, <2>1
  <2>3. first[1] = first[1 - 1] \o Component(1, count, version)
    BY <1>4, <2>2
  <2>4. QED
    BY <1>5, <2>2, <2>3
<1>7. count = 2 => first[2] = c2
  <2>1. SUFFICES ASSUME count = 2 PROVE first[2] = c2
    OBVIOUS
  <2>2. 2 \in 0 .. count /\ 2 # 0 /\ 2 - 1 = 1
    BY <1>1, <2>1
  <2>3. first[2] = first[2 - 1] \o Component(2, count, version)
    BY <1>4, <2>2
  <2>4. first[1] = c1
    BY <1>6, <2>1
  <2> HIDE DEF c1
  <2>5. QED
    BY <2>2, <2>3, <2>4
<1>8. QED
  BY <1>1, <1>2, <1>5, <1>6, <1>7

LEMMA ComponentsHold ==
  ASSUME NEW count \in Counts, NEW version \in Versions
  PROVE  LET all == Components(count, version) IN
         /\ all \in Seq(Byte) /\ Len(all) = count * (5 + version)
         /\ \A i \in 1 .. count :
                Holds(all, (i - 1) * (5 + version), Component(i, count, version))
<1> DEFINE all == Components(count, version)
           c(i) == Component(i, count, version)
           l == 5 + version
<1>1. l \in Nat /\ 0 * l = 0 /\ 1 * l = l /\ 2 * l = l + l
  BY HeaderLengths DEF Versions
<1>2. \A i \in 1 .. count : c(i) \in Seq(Byte) /\ Len(c(i)) = l
  BY ComponentHolds
<1>3. <<>> \in Seq(Byte) /\ Len(<<>>) = 0
  OBVIOUS
<1>4. CASE count = 0
  <2>1. all = <<>> /\ 1 .. count = {}
    BY <1>4, ComponentsByOne
  <2>2. QED
    BY <1>1, <1>3, <1>4, <2>1
<1>5. CASE count > 0
  <2> DEFINE one == <<>> \o c(1)
  <2>1. 1 \in 1 .. count
    BY <1>5 DEF Counts
  <2>2. one \in Seq(Byte) /\ Len(one) = l /\ Holds(one, 0, c(1))
    <3>1. c(1) \in Seq(Byte) /\ Len(c(1)) = l
      BY <1>2, <2>1
    <3> HIDE DEF c
    <3>2. one \in Seq(Byte) /\ Len(one) = 0 + l /\ Holds(one, 0, c(1))
      BY <1>3, <3>1, HoldsTheRest
    <3>3. QED
      BY <1>1, <3>2
  <2>3. CASE count = 1
    <3>1. all = one /\ \A i \in 1 .. count : i = 1
      BY <2>3, ComponentsByOne
    <3>2. QED
      BY <1>1, <2>2, <2>3, <3>1
  <2>4. CASE count = 2
    <3>1. all = one \o c(2) /\ \A i \in 1 .. count : i = 1 \/ i = 2
      BY <2>4, ComponentsByOne
    <3>2. c(2) \in Seq(Byte) /\ Len(c(2)) = l /\ c(1) \in Seq(Byte)
      BY <1>2, <2>1, <2>4
    <3> HIDE DEF all, one, c
    <3>3. /\ all \in Seq(Byte) /\ Len(all) = l + l
          /\ Holds(all, l, c(2)) /\ Holds(all, 0, c(1))
      BY <2>2, <3>1, <3>2, HoldsTheRest, HoldsStill
    <3>4. (1 - 1) * l = 0 /\ (2 - 1) * l = l
      BY <1>1
    <3>5. \A i \in 1 .. count : Holds(all, (i - 1) * l, c(i))
      BY <3>1, <3>3, <3>4
    <3>6. QED
      BY <1>1, <2>4, <3>3, <3>5 DEF all, c
  <2>5. QED
    BY <1>5, <2>3, <2>4 DEF Counts
<1>6. QED
  BY <1>4, <1>5 DEF Counts

\* A buffer that is known to have these parts at these offsets.
Known(data, parts) ==
    /\ data \in Seq(Byte) /\ parts \subseteq Nat \X Seq(Byte)
    /\ \A p \in parts : Holds(data, p[1], p[2])

LEMMA KnownGrows ==
  ASSUME NEW s, NEW t \in Seq(Byte), NEW parts, Known(s, parts)
  PROVE  /\ Known(s \o t, parts \cup {<<Len(s), t>>})
         /\ Len(s \o t) = Len(s) + Len(t)
<1>1. s \in Seq(Byte) /\ Len(s) \in Nat
  BY DEF Known
<1>2. /\ s \o t \in Seq(Byte) /\ Len(s \o t) = Len(s) + Len(t)
      /\ Holds(s \o t, Len(s), t)
  BY <1>1, HoldsTheRest
<1>3. ASSUME NEW p \in parts PROVE Holds(s \o t, p[1], p[2])
  <2>1. p[1] \in Nat /\ p[2] \in Seq(Byte) /\ Holds(s, p[1], p[2])
    BY DEF Known
  <2>2. QED
    BY <1>1, <2>1, HoldsStill
<1>4. parts \cup {<<Len(s), t>>} \subseteq Nat \X Seq(Byte)
  BY <1>1 DEF Known
<1>5. QED
  BY <1>2, <1>3, <1>4 DEF Known

LEMMA KnownPart ==
  \A data, parts, o, part :
      (Known(data, parts) /\ <<o, part>> \in parts) => Holds(data, o, part)
  BY DEF Known

\* The parts of a package up to its checksums.
Parts(count, version) ==
    { <<1, Digits(HeaderLength(count, version))>>, <<3, <<version>>>>,
      <<4 + version, <<1>>>>, <<5 + version, Digits(4)>>,
      <<9 + version, <<0>>>>, <<10 + version, Digits(count)>>,
      <<12 + version, Components(count, version)>> }

LEMMA BodyHolds ==
  ASSUME NEW count \in Counts, NEW version \in Versions
  PROVE  LET body == HeaderBody(count, version) IN
         /\ body \in Seq(Byte) /\ Len(body) = HeaderLength(count, version) - 2
         /\ \A p \in Parts(count, version) : Holds(body, p[1], p[2])
<1> DEFINE t1 == <<4>>
           t2 == Digits(HeaderLength(count, version))
           t3 == <<version>>
           t4 == VersionString(version)
           t5 == <<1>>
           t6 == Digits(4)
           t7 == k_ist_vectors_component_uuid
           t8 == <<0>>
           t9 == Digits(count)
           t10 == Components(count, version)
           l == count * (5 + version)
<1>1. /\ t1 \in Seq(Byte) /\ Len(t1) = 1 /\ t3 \in Seq(Byte) /\ Len(t3) = 1
      /\ t5 \in Seq(Byte) /\ Len(t5) = 1 /\ t8 \in Seq(Byte) /\ Len(t8) = 1
      /\ t7 \in Seq(Byte) /\ Len(t7) = 2
  <2>1. version \in Byte
    BY BytesAreNumbers DEF Versions
  <2>2. QED
    BY <2>1, BytesAreNumbers DEF k_ist_vectors_component_uuid
<1>2. /\ t2 \in Seq(Byte) /\ Len(t2) = 2 /\ t6 \in Seq(Byte) /\ Len(t6) = 2
      /\ t9 \in Seq(Byte) /\ Len(t9) = 2
  <2>1. HeaderLength(count, version) \in 0 .. 35 /\ 4 \in 0 .. 35 /\ count \in 0 .. 35
    BY HeaderLengths DEF Counts
  <2>2. QED
    BY <2>1, DigitsOfNumber
<1>3. t4 \in Seq(Byte) /\ Len(t4) = version /\ t10 \in Seq(Byte) /\ Len(t10) = l
  BY VersionStringType, ComponentsHold
<1>4. /\ HeaderLength(count, version) = 14 + version + l /\ l \in Nat
      /\ version \in Nat
  BY HeaderLengths DEF Versions
<1> DEFINE b1 == t1
           b2 == b1 \o t2
           b3 == b2 \o t3
           b4 == b3 \o t4
           b5 == b4 \o t5
           b6 == b5 \o t6
           b7 == b6 \o t7
           b8 == b7 \o t8
           b9 == b8 \o t9
           b10 == b9 \o t10
           p2 == {} \cup {<<1, t2>>}
           p3 == p2 \cup {<<3, t3>>}
           p4 == p3 \cup {<<4, t4>>}
           p5 == p4 \cup {<<4 + version, t5>>}
           p6 == p5 \cup {<<5 + version, t6>>}
           p7 == p6 \cup {<<7 + version, t7>>}
           p8 == p7 \cup {<<9 + version, t8>>}
           p9 == p8 \cup {<<10 + version, t9>>}
           p10 == p9 \cup {<<12 + version, t10>>}
<1>5. HeaderBody(count, version) = b10
  BY DEF HeaderBody
<1>6. Parts(count, version) \subseteq p10
  BY DEF Parts
<1> HIDE DEF t1, t2, t3, t4, t5, t6, t7, t8, t9, t10, l
<1>7. Known(b1, {}) /\ Len(b1) = 1
  BY <1>1 DEF Known
<1>8. Known(b2, p2) /\ Len(b2) = 3
  <2> HIDE DEF b1
  <2>1. t2 \in Seq(Byte) /\ Len(t2) = 2 /\ Known(b1, {})
    BY <1>2, <1>7
  <2>2. /\ Known(b1 \o t2, {} \cup {<<Len(b1), t2>>})
        /\ Len(b1 \o t2) = Len(b1) + Len(t2)
    BY <2>1, KnownGrows
  <2>3. QED
    BY <1>4, <1>7, <2>1, <2>2
<1>9. Known(b3, p3) /\ Len(b3) = 4
  <2> HIDE DEF b2, p2
  <2>1. t3 \in Seq(Byte) /\ Len(t3) = 1 /\ Known(b2, p2)
    BY <1>1, <1>8
  <2>2. /\ Known(b2 \o t3, p2 \cup {<<Len(b2), t3>>})
        /\ Len(b2 \o t3) = Len(b2) + Len(t3)
    BY <2>1, KnownGrows
  <2>3. QED
    BY <1>4, <1>8, <2>1, <2>2
<1>10. Known(b4, p4) /\ Len(b4) = 4 + version
  <2> HIDE DEF b3, p3
  <2>1. t4 \in Seq(Byte) /\ Len(t4) = version /\ Known(b3, p3)
    BY <1>3, <1>9
  <2>2. /\ Known(b3 \o t4, p3 \cup {<<Len(b3), t4>>})
        /\ Len(b3 \o t4) = Len(b3) + Len(t4)
    BY <2>1, KnownGrows
  <2>3. QED
    BY <1>4, <1>9, <2>1, <2>2
<1>11. Known(b5, p5) /\ Len(b5) = 5 + version
  <2> HIDE DEF b4, p4
  <2>1. t5 \in Seq(Byte) /\ Len(t5) = 1 /\ Known(b4, p4)
    BY <1>1, <1>10
  <2>2. /\ Known(b4 \o t5, p4 \cup {<<Len(b4), t5>>})
        /\ Len(b4 \o t5) = Len(b4) + Len(t5)
    BY <2>1, KnownGrows
  <2>3. QED
    BY <1>4, <1>10, <2>1, <2>2
<1>12. Known(b6, p6) /\ Len(b6) = 7 + version
  <2> HIDE DEF b5, p5
  <2>1. t6 \in Seq(Byte) /\ Len(t6) = 2 /\ Known(b5, p5)
    BY <1>2, <1>11
  <2>2. /\ Known(b5 \o t6, p5 \cup {<<Len(b5), t6>>})
        /\ Len(b5 \o t6) = Len(b5) + Len(t6)
    BY <2>1, KnownGrows
  <2>3. QED
    BY <1>4, <1>11, <2>1, <2>2
<1>13. Known(b7, p7) /\ Len(b7) = 9 + version
  <2> HIDE DEF b6, p6
  <2>1. t7 \in Seq(Byte) /\ Len(t7) = 2 /\ Known(b6, p6)
    BY <1>1, <1>12
  <2>2. /\ Known(b6 \o t7, p6 \cup {<<Len(b6), t7>>})
        /\ Len(b6 \o t7) = Len(b6) + Len(t7)
    BY <2>1, KnownGrows
  <2>3. QED
    BY <1>4, <1>12, <2>1, <2>2
<1>14. Known(b8, p8) /\ Len(b8) = 10 + version
  <2> HIDE DEF b7, p7
  <2>1. t8 \in Seq(Byte) /\ Len(t8) = 1 /\ Known(b7, p7)
    BY <1>1, <1>13
  <2>2. /\ Known(b7 \o t8, p7 \cup {<<Len(b7), t8>>})
        /\ Len(b7 \o t8) = Len(b7) + Len(t8)
    BY <2>1, KnownGrows
  <2>3. QED
    BY <1>4, <1>13, <2>1, <2>2
<1>15. Known(b9, p9) /\ Len(b9) = 12 + version
  <2> HIDE DEF b8, p8
  <2>1. t9 \in Seq(Byte) /\ Len(t9) = 2 /\ Known(b8, p8)
    BY <1>2, <1>14
  <2>2. /\ Known(b8 \o t9, p8 \cup {<<Len(b8), t9>>})
        /\ Len(b8 \o t9) = Len(b8) + Len(t9)
    BY <2>1, KnownGrows
  <2>3. QED
    BY <1>4, <1>14, <2>1, <2>2
<1>16. Known(b10, p10) /\ Len(b10) = 12 + version + l
  <2> HIDE DEF b9, p9
  <2>1. t10 \in Seq(Byte) /\ Len(t10) = l /\ Known(b9, p9)
    BY <1>3, <1>15
  <2>2. /\ Known(b9 \o t10, p9 \cup {<<Len(b9), t10>>})
        /\ Len(b9 \o t10) = Len(b9) + Len(t10)
    BY <2>1, KnownGrows
  <2>3. QED
    BY <1>4, <1>15, <2>1, <2>2
<1>17. QED
  <2> HIDE DEF b10, p10
  <2>1. Len(b10) = (14 + version + l) - 2
    BY <1>4, <1>16
  <2>2. QED
    BY <1>4, <1>5, <1>6, <1>16, <2>1 DEF Known

Payload(count) == SubSeq(<<1, 2>>, 1, count)

LEMMA PayloadType ==
  ASSUME NEW count \in Counts
  PROVE  /\ Payload(count) \in Seq(Byte) /\ Len(Payload(count)) = count
         /\ \A i \in 1 .. count : Payload(count)[i] = i
<1>1. <<1, 2>>[1] = 1 /\ <<1, 2>>[2] = 2 /\ 1 \in Byte /\ 2 \in Byte
  BY BytesAreNumbers
<1>2. \A i \in 1 .. count : i = 1 \/ i = 2
  BY DEF Counts
<1>3. \A i \in 1 .. count : <<1, 2>>[i] \in Byte /\ <<1, 2>>[i] = i
  BY <1>1, <1>2
<1>4. count \in Int /\ (1 <= count \/ count = 0) /\ count - 1 + 1 = count
      /\ \A i \in 1 .. count : 1 + i - 1 = i
  BY DEF Counts
<1> DEFINE s == <<1, 2>>
<1> HIDE DEF s
<1>5. /\ SubSeq(s, 1, count) \in Seq(Byte)
      /\ Len(SubSeq(s, 1, count)) = IF 1 <= count THEN count - 1 + 1 ELSE 0
      /\ \A i \in 1 .. count - 1 + 1 : SubSeq(s, 1, count)[i] = s[1 + i - 1]
  BY <1>3, <1>4, SubSeqProperties DEF s
<1>6. QED
  BY <1>3, <1>4, <1>5 DEF Payload, s

LEMMA PackageHolds ==
  ASSUME NEW count \in Counts, NEW version \in Versions
  PROVE  LET p == Package(count, version)
             full == p.header \o p.payload
             n == HeaderLength(count, version)
         IN  /\ p.header \in Seq(Byte) /\ Len(p.header) = n
             /\ p.payload = Payload(count)
             /\ full \in Seq(Byte) /\ Len(full) = n + count
             /\ \A part \in Parts(count, version) : Holds(full, part[1], part[2])
             /\ At(full, n - 1) = Crc(Payload(count))
<1> DEFINE n == HeaderLength(count, version)
           body == HeaderBody(count, version)
           c1 == Crc(body)
           c2 == Crc(Payload(count))
           sums == <<c1, c2>>
           header == body \o sums
           full == header \o Payload(count)
<1>1. Package(count, version) = [header |-> header, payload |-> Payload(count)]
  BY DEF Package, Payload
<1>2. n \in Nat /\ n >= 14 /\ count \in Nat
  BY HeaderLengths DEF Counts
<1>3. /\ body \in Seq(Byte) /\ Len(body) = n - 2
      /\ \A p \in Parts(count, version) : Holds(body, p[1], p[2])
  BY BodyHolds
<1>4. Payload(count) \in Seq(Byte) /\ Len(Payload(count)) = count
  BY PayloadType
<1> HIDE DEF body, n
<1>5. c1 \in Byte /\ c2 \in Byte
  BY <1>3, <1>4, CrcIsByte
<1>6. sums \in Seq(Byte) /\ Len(sums) = 2 /\ Holds(sums, 1, <<c2>>) /\ <<c2>> \in Seq(Byte)
  <2> HIDE DEF c1, c2
  <2>1. QED
    BY <1>5 DEF Holds, At
<1> HIDE DEF sums
<1>7. header \in Seq(Byte) /\ Len(header) = n /\ Holds(header, n - 2, sums)
  <2>1. header \in Seq(Byte) /\ Len(header) = Len(body) + Len(sums)
        /\ Holds(header, Len(body), sums)
    BY <1>3, <1>6, HoldsTheRest
  <2>2. QED
    BY <1>2, <1>3, <1>6, <2>1
<1> DEFINE parts == Parts(count, version)
<1>8. /\ \A p \in parts : p[1] \in Nat /\ p[2] \in Seq(Byte)
  <2>1. /\ 4 + version \in Nat /\ 5 + version \in Nat /\ 9 + version \in Nat
        /\ 10 + version \in Nat /\ 12 + version \in Nat
    BY DEF Versions
  <2>2. n \in 0 .. 35 /\ 4 \in 0 .. 35 /\ count \in 0 .. 35
    BY HeaderLengths DEF n, Counts
  <2>3. Digits(n) \in Seq(Byte) /\ Digits(4) \in Seq(Byte) /\ Digits(count) \in Seq(Byte)
    BY <2>2, DigitsOfNumber
  <2>4. Components(count, version) \in Seq(Byte)
    BY ComponentsHold
  <2>5. <<version>> \in Seq(Byte) /\ <<1>> \in Seq(Byte) /\ <<0>> \in Seq(Byte)
    <3>1. version \in Byte
      BY BytesAreNumbers DEF Versions
    <3>2. QED
      BY <3>1, BytesAreNumbers
  <2>6. QED
    BY <2>1, <2>3, <2>4, <2>5 DEF Parts, n
<1> HIDE DEF parts
<1>9. \A p \in parts : Holds(header, p[1], p[2])
  BY <1>3, <1>6, <1>8, HoldsStill DEF parts
<1>10. Holds(header, n - 1, <<c2>>)
  <2>1. n - 2 \in Nat /\ (n - 2) + 1 = n - 1
    BY <1>2
  <2> HIDE DEF header, c2
  <2>2. Holds(header, (n - 2) + 1, <<c2>>)
    BY <1>6, <1>7, <2>1, HoldsWithin
  <2>3. QED
    BY <2>1, <2>2
<1> HIDE DEF header
<1>11. full \in Seq(Byte) /\ Len(full) = n + count
  BY <1>4, <1>7, HoldsTheRest
<1>12. \A p \in parts : Holds(full, p[1], p[2])
  BY <1>4, <1>7, <1>8, <1>9, HoldsStill
<1>13. At(full, n - 1) = c2
  <2>1. n - 1 \in Nat
    BY <1>2
  <2>2. Holds(full, n - 1, <<c2>>)
    BY <1>4, <1>6, <1>7, <1>10, <2>1, HoldsStill
  <2>3. QED
    BY <1>5, <2>1, <2>2, Single
<1>14. QED
  BY <1>1, <1>4, <1>7, <1>11, <1>12, <1>13 DEF parts, n

\* package_size_from_header on a package as it was made.
LEMMA PackageMeasured ==
  ASSUME NEW count \in Counts, NEW version \in Versions
  PROVE  LET p == Package(count, version)
             n == HeaderLength(count, version)
         IN  ComponentOf(p.header \o p.payload) =
                 [offset |-> n, crc |-> Crc(Payload(count)), size |-> count]
<1> DEFINE n == HeaderLength(count, version)
           full == Package(count, version).header \o Package(count, version).payload
           all == Components(count, version)
           l == 5 + version
<1>1. /\ full \in Seq(Byte) /\ Len(full) = n + count
      /\ \A part \in Parts(count, version) : Holds(full, part[1], part[2])
      /\ At(full, n - 1) = Crc(Payload(count))
  BY PackageHolds
<1>2. /\ n \in 14 .. 27 /\ version \in Nat /\ version \in Byte /\ count \in Nat
      /\ n = 14 + version + count * l /\ l = 5 + version /\ count * l \in Nat
      /\ 1 * l = l /\ 0 * l = 0 /\ 2 * l = l + l
  BY HeaderLengths, BytesAreNumbers DEF Versions, Counts
<1> HIDE DEF full, n
<1>3. /\ Holds(full, 1, Digits(n)) /\ Holds(full, 3, <<version>>)
      /\ Holds(full, 4 + version, <<1>>) /\ Holds(full, 5 + version, Digits(4))
      /\ Holds(full, 9 + version, <<0>>) /\ Holds(full, 10 + version, Digits(count))
      /\ Holds(full, 12 + version, all)
  BY <1>1 DEF Parts, n
<1>4. HeaderSize(full) = n
  <2>1. n \in 0 .. 35
    BY <1>2
  <2>2. QED
    BY <1>3, <2>1, DigitsOfNumber DEF HeaderSize
<1>5. At(full, 3) = version
  BY <1>2, <1>3, Single
<1>6. At(full, 4 + version) = 1 /\ At(full, 9 + version) = 0
  <2>1. 1 \in Byte /\ 0 \in Byte /\ 4 + version \in Nat /\ 9 + version \in Nat
    BY <1>2, BytesAreNumbers
  <2>2. QED
    BY <1>3, <2>1, Single
<1>7. U16(full, 5 + version) = 4 /\ U16(full, 10 + version) = count
  <2>1. /\ 4 \in 0 .. 35 /\ count \in 0 .. 35
        /\ 5 + version \in Nat /\ 10 + version \in Nat
    BY <1>2 DEF Counts
  <2>2. QED
    BY <1>3, <2>1, DigitsOfNumber
<1>8. AfterRecords(full, n, 5 + version, 1) = 9 + version
  <2>1. 5 + version \in Nat /\ n \in Nat
    BY <1>2
  <2>2. PICK g : /\ IsRecordWalk(g, full, n, 5 + version, 1)
                 /\ AfterRecords(full, n, 5 + version, 1) = g[1]
    BY <1>1, <2>1, RecordsByStep
  <2>3. g[0] = 5 + version /\ g[1] = RecordEnd(full, n, g[1 - 1])
    BY <2>2 DEF IsRecordWalk
  <2>4. g[1] = RecordEnd(full, n, 5 + version)
    BY <2>3
  <2>5. RecordEnd(full, n, 5 + version) = (5 + version) + 4
    BY <1>2, <1>7 DEF RecordEnd, Unwalkable
  <2>6. QED
    BY <1>2, <2>2, <2>4, <2>5
<1>9. ASSUME NEW i \in 1 .. count
      PROVE  LET at == 12 + version + (i - 1) * l IN
             /\ at \in Nat /\ at + l <= n
             /\ U16(full, at) = n + i - 1 /\ At(full, at + 2) = 1
             /\ At(full, at + 3) = version
  <2> DEFINE c == Component(i, count, version)
             o == (i - 1) * l
             base == 12 + version
             at == base + o
  <2>1. /\ c \in Seq(Byte) /\ Len(c) = l
        /\ Holds(c, 0, Digits(n + i - 1)) /\ Holds(c, 2, <<1>>) /\ Holds(c, 3, <<version>>)
    BY ComponentHolds DEF n
  <2>2. all \in Seq(Byte) /\ Holds(all, o, c)
    BY ComponentsHold
  <2>3. o \in Nat /\ o + l <= count * l /\ base \in Nat
    <3>1. (count = 1 \/ count = 2) /\ (i = 1 \/ i = 2)
      BY DEF Counts
    <3>2. QED
      BY <1>2, <3>1
  <2>4. at \in Nat /\ at + l <= n
    <3> HIDE DEF o, l
    <3>1. QED
      BY <1>2, <2>3
  <2>5. Holds(full, at, c)
    <3> HIDE DEF o, l, c, all, base
    <3>1. Holds(full, base, all)
      BY <1>3 DEF base
    <3>2. QED
      BY <1>1, <2>1, <2>2, <2>3, <3>1, HoldsWithin
  <2>6. n + i - 1 \in 0 .. 35
    BY <1>2 DEF Counts
  <2> HIDE DEF c, at, l
  <2>7. U16(full, at) = n + i - 1
    <3> DEFINE m == n + i - 1
    <3>1. m \in 0 .. 35 /\ Holds(c, 0, Digits(m))
      BY <2>1, <2>6
    <3> HIDE DEF m
    <3>2. Digits(m) \in Seq(Byte)
      BY <3>1, DigitsOfNumber
    <3>3. Holds(full, at + 0, Digits(m))
      BY <1>1, <2>1, <2>4, <2>5, <3>1, <3>2, HoldsWithin
    <3>4. at + 0 = at
      BY <2>4
    <3>5. U16(full, at) = m
      BY <2>4, <3>1, <3>3, <3>4, DigitsOfNumber
    <3>6. QED
      BY <3>5 DEF m
  <2>8. At(full, at + 2) = 1 /\ At(full, at + 3) = version
    <3>1. <<1>> \in Seq(Byte) /\ <<version>> \in Seq(Byte) /\ 1 \in Byte
      BY <1>2, BytesAreNumbers
    <3>2. Holds(full, at + 2, <<1>>) /\ Holds(full, at + 3, <<version>>)
      BY <1>1, <2>1, <2>4, <2>5, <3>1, HoldsWithin
    <3>3. at + 2 \in Nat /\ at + 3 \in Nat
      BY <2>4
    <3>4. QED
      BY <1>2, <3>1, <3>2, <3>3, Single
  <2>9. QED
    BY <2>4, <2>7, <2>8 DEF at
<1>10. PackageEnd(full, n, 12 + version, count) = IF count = 0 THEN 0 ELSE n + count
  <2>1. 12 + version \in Nat /\ n \in Nat
    BY <1>2
  <2>2. PICK g : /\ IsComponentWalk(g, full, n, 12 + version, count)
                 /\ PackageEnd(full, n, 12 + version, count) = g[count].end
    <3> DEFINE start == 12 + version
    <3>1. start \in Nat /\ n \in Nat /\ count \in Nat /\ full \in Seq(Byte)
      BY <1>1, <1>2, <2>1
    <3> HIDE DEF start
    <3>2. \E g : /\ IsComponentWalk(g, full, n, start, count)
                /\ PackageEnd(full, n, start, count) = g[count].end
      BY <3>1, ComponentsByStep
    <3>3. QED
      BY <3>2 DEF start
  <2>3. g[0] = [at |-> 12 + version, end |-> 0]
    BY <2>2 DEF IsComponentWalk
  <2>4. ASSUME NEW i \in 1 .. count, NEW e \in Nat, e < n + i,
               g[i - 1] = [at |-> 12 + version + (i - 1) * l, end |-> e]
        PROVE  g[i] = [at |-> 12 + version + (i - 1) * l + l, end |-> n + i]
    <3> DEFINE at == 12 + version + (i - 1) * l
    <3>1. g[i] = AfterComponent(full, n, [at |-> at, end |-> e])
      BY <2>2, <2>4 DEF IsComponentWalk
    <3>2. /\ at \in Nat /\ at + l <= n
          /\ U16(full, at) = n + i - 1 /\ At(full, at + 2) = 1
          /\ At(full, at + 3) = version
      BY <1>9
    <3> HIDE DEF at, l
    <3>3. at # Unwalkable /\ ComponentFits(at, n)
      BY <1>2, <3>2 DEF Unwalkable, ComponentFits, k_comp_info_fixed_size
    <3>4. ComponentEnd(full, at) = at + l
      BY <1>2, <3>2 DEF ComponentEnd, k_comp_info_fixed_size, k_comp_info_opaque_len_size
    <3>5. Max({e, U16(full, at) + At(full, at + 2)}) = n + i
      <4>1. U16(full, at) + At(full, at + 2) = n + i
        BY <1>2, <3>2
      <4>2. n + i \in Nat
        BY <1>2
      <4>3. QED
        BY <2>4, <4>1, <4>2, MaxOfTwo
    <3>6. QED
      BY <3>1, <3>3, <3>4, <3>5 DEF AfterComponent, at
  <2>5. CASE count = 0
    BY <2>2, <2>3, <2>5
  <2>6. CASE count >= 1
    <3>1. g[1] = [at |-> 12 + version + l, end |-> n + 1]
      <4>1. 1 \in 1 .. count /\ 0 < n + 1 /\ 1 - 1 = 0
            /\ 12 + version + 0 * l = 12 + version
        BY <1>2, <2>6
      <4>2. g[1 - 1] = [at |-> 12 + version + (1 - 1) * l, end |-> 0]
        BY <2>3, <4>1
      <4>3. g[1] = [at |-> 12 + version + (1 - 1) * l + l, end |-> n + 1]
        BY <2>4, <4>1, <4>2
      <4>4. QED
        BY <4>1, <4>3
    <3>2. CASE count = 1
      BY <2>2, <3>1, <3>2
    <3>3. CASE count = 2
      <4>1. 2 \in 1 .. count /\ n + 1 < n + 2 /\ n + 1 \in Nat /\ 2 - 1 = 1
            /\ 12 + version + 1 * l = 12 + version + l
        BY <1>2, <3>3
      <4>2. g[2 - 1] = [at |-> 12 + version + (2 - 1) * l, end |-> n + 1]
        BY <3>1, <4>1
      <4>3. g[2] = [at |-> 12 + version + (2 - 1) * l + l, end |-> n + 2]
        BY <2>4, <4>1, <4>2
      <4>4. QED
        BY <2>2, <3>3, <4>3
    <3>4. QED
      BY <2>6, <3>2, <3>3 DEF Counts
  <2>7. QED
    BY <1>2, <2>5, <2>6
<1>11. PackageSize(full, n) = IF count = 0 THEN 0 ELSE n + count
  <2>1. k_pldm_min_header_size + At(full, 3) = 4 + version /\ (4 + version) + 1 = 5 + version
    BY <1>2, <1>5 DEF k_pldm_min_header_size
  <2>2. /\ 4 + version < n /\ 9 + version # Unwalkable /\ 9 + version < n
        /\ (9 + version) + 3 <= n /\ (9 + version) + 3 = 12 + version
        /\ (9 + version) + 1 = 10 + version
    BY <1>2 DEF Unwalkable
  <2>3. QED
    BY <1>2, <1>6, <1>7, <1>8, <1>10, <2>1, <2>2 DEF PackageSize
<1>12. Trailer(full) + 1 = n - 1
  BY <1>2, <1>4 DEF Trailer, trailer_size
<1>13. ComponentOf(full) =
           [offset |-> n, crc |-> Crc(Payload(count)), size |-> count]
  <2>1. (IF PackageSize(full, n) > n THEN PackageSize(full, n) - n ELSE 0) = count
    BY <1>2, <1>11
  <2>2. QED
    BY <1>1, <1>4, <1>12, <2>1 DEF ComponentOf
<1>14. QED
  BY <1>13 DEF full, n

\* A payload is told from the payloads that begin like it.
LEMMA CrcOfPayload ==
  ASSUME NEW count \in Counts
  PROVE  Crc(Payload(count)) = IF count = 2 THEN 3 ELSE count
<1> DEFINE data == Payload(count)
<1>1. /\ data \in Seq(Byte) /\ Len(data) = count
      /\ \A i \in 1 .. count : data[i] = i
  BY PayloadType
<1> HIDE DEF data
<1>2. PICK g \in Walks(CrcStep(data), 0, Byte, count) : Crc(data) = g[count]
  BY <1>1, CrcByByte
<1>3. /\ g \in [0 .. count -> Byte] /\ g[0] = 0
      /\ \A k \in 1 .. count : g[k] = CrcStep(data)[<<g[k - 1], k>>]
  BY <1>2 DEF Walks
<1>4. ASSUME NEW k \in 1 .. count PROVE g[k] = (g[k - 1] + k) % Base
  <2>1. g[k - 1] \in Byte
    BY <1>3 DEF Counts
  <2>2. <<g[k - 1], k>> \in Byte \X (1 .. Len(data))
    BY <1>1, <2>1
  <2>3. g[k] = (g[k - 1] + data[k]) % Base
    BY <1>3, <2>2 DEF CrcStep
  <2>4. QED
    BY <1>1, <2>3
<1>5. 1 % Base = 1 /\ 3 % Base = 3
  BY BytesAreNumbers
<1>6. count >= 1 => g[1] = 1
  <2>1. SUFFICES ASSUME count >= 1 PROVE g[1] = 1
    OBVIOUS
  <2>2. 1 \in 1 .. count /\ 1 - 1 = 0 /\ 0 + 1 = 1
    BY <2>1 DEF Counts
  <2>3. QED
    BY <1>3, <1>4, <1>5, <2>2
<1>7. count = 2 => g[2] = 3
  <2>1. SUFFICES ASSUME count = 2 PROVE g[2] = 3
    OBVIOUS
  <2>2. 2 \in 1 .. count /\ 2 - 1 = 1 /\ 1 + 2 = 3
    BY <2>1
  <2>3. QED
    BY <1>4, <1>5, <1>6, <2>1, <2>2
<1>8. count = 0 \/ count = 1 \/ count = 2
  BY DEF Counts
<1>9. QED
  BY <1>2, <1>3, <1>6, <1>7, <1>8 DEF data

LEMMA BeginningOfPayload ==
  ASSUME NEW count \in Counts, NEW m \in 0 .. count,
         Crc(Payload(m)) = Crc(Payload(count))
  PROVE  m = count
<1>1. m \in Counts /\ count \in {0, 1, 2} /\ m \in {0, 1, 2} /\ m <= count
  BY DEF Counts
<1>2. QED
  BY <1>1, CrcOfPayload

-----------------------------------------------------------------------------
(* The inductive invariant *)

\* Nothing is decided before the header is there; what is decided then holds of
\* the whole upload; the image has all that was received behind the header.
DecidedOnTheHeader ==
    /\ state = "peek" =>
           /\ Check(SubSeq(stream, 1, received)) = "need_more_data"
           /\ image = <<>>
    /\ state \in {"transfer", "complete"} =>
           /\ Check(stream) = "ok" /\ Valid(stream) /\ comp = ComponentOf(stream)
           /\ HeaderSize(stream) <= received
           /\ image = SubSeq(stream, HeaderSize(stream) + 1, received)
    /\ state = "complete" => Crc(image) = comp.crc
    /\ state = "failed" /\ ~cut =>
           \/ ~(Check(stream) = "ok" /\ Valid(stream))
           \/ ComponentOf(stream).crc # Crc(FirstPayload(stream))

UploadInvariant == TypeOK /\ DecidedOnTheHeader

LEMMA PackageType ==
  ASSUME NEW p \in Packages
  PROVE  p.header \in Seq(Byte) /\ p.payload \in Seq(Byte)
<1>1. PICK count \in Counts, version \in Versions : p = Package(count, version)
  BY DEF Packages, Counts, Versions
<1>2. QED
  BY <1>1, PackageHolds, PayloadType

LEMMA ChangedType ==
  ASSUME NEW header \in Seq(Byte), NEW i \in DOMAIN header, NEW byte \in Byte,
         NEW agree \in BOOLEAN
  PROVE  Changed(header, i, byte, agree) \in Seq(Byte)
<1> DEFINE new == [header EXCEPT ![i] = byte]
           at == U16(new, 1) - trailer_size
<1>1. new \in Seq(Byte) /\ Len(new) = Len(header)
  BY ExceptSeq
<1> HIDE DEF new
<1>2. CASE agree /\ at \in 1 .. Len(header) - 1
  <2>1. at + 1 \in 1 .. Len(new)
    BY <1>1, <1>2
  <2>2. SubSeq(new, 1, at) \in Seq(Byte)
    <3>1. at \in 0 .. Len(new)
      BY <1>1, <1>2
    <3> HIDE DEF at
    <3>2. QED
      BY <1>1, <3>1, PrefixAgrees
  <2>3. Crc(SubSeq(new, 1, at)) \in Byte
    BY <2>2, CrcIsByte
  <2> DEFINE sum == Crc(SubSeq(new, 1, at))
             spot == at + 1
  <2>4. sum \in Byte /\ spot \in 1 .. Len(new)
    BY <2>1, <2>3
  <2>5. Changed(header, i, byte, agree) = [new EXCEPT ![spot] = sum]
    BY <1>2 DEF Changed, new
  <2> HIDE DEF sum, spot
  <2>6. QED
    BY <1>1, <2>4, <2>5, ExceptSeq
<1>3. CASE ~(agree /\ at \in 1 .. Len(header) - 1)
  BY <1>1, <1>3 DEF Changed, new
<1>4. QED
  BY <1>2, <1>3

LEMMA NothingDecidedYet == Init => UploadInvariant
<1> SUFFICES ASSUME Init PROVE UploadInvariant
  OBVIOUS
<1>1. genuine \in Packages /\ received = 0 /\ state = "peek" /\ image = <<>>
      /\ cut = FALSE /\ comp = [offset |-> 0, size |-> 0, crc |-> 0]
  BY DEF Init
<1>2. stream \in Seq(Byte)
  <2>1. PICK i \in DOMAIN genuine.header, byte \in Byte, agree \in BOOLEAN :
            stream = Changed(genuine.header, i, byte, agree) \o genuine.payload
    BY DEF Init
  <2>2. genuine.header \in Seq(Byte) /\ genuine.payload \in Seq(Byte)
    BY <1>1, PackageType
  <2>3. Changed(genuine.header, i, byte, agree) \in Seq(Byte)
    BY <2>2, ChangedType
  <2>4. QED
    BY <2>1, <2>2, <2>3, ConcatProperties
<1>3. TypeOK
  <2>1. 0 \in Byte /\ <<>> \in Seq(Byte)
    BY BytesAreNumbers
  <2>2. 0 \in 0 .. Len(stream)
    BY <1>2
  <2>3. comp \in [offset : Nat, size : Nat, crc : Byte]
    BY <1>1, <2>1
  <2>4. QED
    BY <1>1, <1>2, <2>1, <2>2, <2>3 DEF TypeOK
<1>4. Check(SubSeq(stream, 1, received)) = "need_more_data"
  <2>1. Len(SubSeq(stream, 1, 0)) = 0
    <3>1. 0 \in 0 .. Len(stream)
      BY <1>2
    <3>2. QED
      BY <1>2, <3>1, PrefixAgrees
  <2>2. QED
    BY <1>1, <2>1 DEF Check, k_pldm_header_prefix_size
<1>5. QED
  BY <1>1, <1>3, <1>4 DEF UploadInvariant, DecidedOnTheHeader

-----------------------------------------------------------------------------
(* The steps *)

LEMMA FailIsSafe ==
  ASSUME UploadInvariant, Fail, UNCHANGED <<genuine, stream>>,
         received' \in 0 .. Len(stream), cut' \in BOOLEAN,
         cut' \/ ~(Check(stream) = "ok" /\ Valid(stream))
             \/ ComponentOf(stream).crc # Crc(FirstPayload(stream))
  PROVE  UploadInvariant'
<1>1. state' = "failed" /\ image' = <<>> /\ comp' = comp
  BY DEF Fail
<1>2. TypeOK'
  BY <1>1 DEF TypeOK, UploadInvariant
<1>3. DecidedOnTheHeader'
  BY <1>1 DEF DecidedOnTheHeader
<1>4. QED
  BY <1>2, <1>3 DEF UploadInvariant

LEMMA PeekIsSafe ==
  ASSUME UploadInvariant, NEW n \in 1 .. Len(stream), Peek(n)
  PROVE  UploadInvariant'
<1> DEFINE r == received + n
           prefix == SubSeq(stream, 1, r)
           size == HeaderSize(stream)
<1>1. /\ state = "peek" /\ received' = r /\ UNCHANGED <<genuine, stream, cut>>
      /\ genuine \in Packages /\ stream \in Seq(Byte) /\ cut \in BOOLEAN
      /\ comp \in [offset : Nat, size : Nat, crc : Byte] /\ image = <<>>
  BY DEF Peek, UploadInvariant, TypeOK, DecidedOnTheHeader
<1>2. r \in 0 .. Len(stream) /\ r \in Nat
  BY DEF Peek, UploadInvariant, TypeOK
<1>3. prefix = SubSeq(stream, 1, received')
  BY <1>1
<1>4. prefix \in Seq(Byte) /\ Len(prefix) = r
  BY <1>1, <1>2, PrefixAgrees
<1> HIDE DEF r
<1>5. CASE Check(prefix) = "need_more_data"
  <2>1. UNCHANGED <<state, comp, image>>
    BY <1>3, <1>5 DEF Peek
  <2>2. TypeOK'
    BY <1>1, <1>2, <2>1 DEF TypeOK, UploadInvariant
  <2>3. Check(SubSeq(stream, 1, received))' = "need_more_data"
    BY <1>1, <1>5
  <2>4. QED
    BY <1>1, <2>1, <2>2, <2>3 DEF UploadInvariant, DecidedOnTheHeader
<1>6. CASE Check(prefix) # "need_more_data"
  <2>1. Check(stream) = Check(prefix)
    BY <1>1, <1>2, <1>6, CheckOfPrefix
  <2>2. CASE Check(prefix) = "ok" /\ Valid(prefix)
    <3>1. /\ state' = "transfer" /\ comp' = ComponentOf(prefix)
          /\ image' = FirstPayload(prefix)
      BY <1>3, <1>6, <2>2 DEF Peek
    <3>2. size >= k_pldm_min_header_size /\ size <= r /\ size \in Nat
      BY <1>1, <1>2, <1>6, <2>1, <2>2, CheckOfPrefix, HeaderSizeType
    <3>3. /\ HeaderSize(prefix) = size /\ Valid(stream)
          /\ ComponentOf(prefix) = ComponentOf(stream)
          /\ ComponentOf(prefix) \in [offset : Nat, size : Nat, crc : Byte]
      BY <1>1, <1>2, <2>2, <3>2, AgreeOnHeader
    <3>4. FirstPayload(prefix) = SubSeq(stream, size + 1, r)
      <4>1. FirstPayload(prefix) = SubSeq(prefix, size + 1, r)
        BY <1>4, <3>3 DEF FirstPayload
      <4>2. CASE size = r
        <5>1. r + 1 \in Int /\ r \in Int /\ r < r + 1
          BY <1>2
        <5>2. SubSeq(prefix, r + 1, r) = <<>> /\ SubSeq(stream, r + 1, r) = <<>>
          BY <5>1, SubSeqEmpty
        <5>3. QED
          BY <4>1, <4>2, <5>2
      <4>3. CASE size < r
        <5>1. /\ 1 \in 1 .. Len(stream) /\ r \in 1 .. Len(stream)
              /\ size + 1 \in 1 .. r - 1 + 1 /\ r \in 1 .. r - 1 + 1
          BY <1>1, <1>2, <3>2, <4>3
        <5> HIDE DEF size
        <5>2. SubSeq(SubSeq(stream, 1, r), size + 1, r)
                  = SubSeq(stream, 1 + (size + 1) - 1, 1 + r - 1)
          BY <1>1, <5>1, SubSeqOfSubSeq
        <5>3. 1 + (size + 1) - 1 = size + 1 /\ 1 + r - 1 = r
          BY <1>2, <3>2
        <5>4. QED
          BY <4>1, <5>2, <5>3
      <4>4. QED
        BY <1>2, <3>2, <4>2, <4>3
    <3>5. image' \in Seq(Byte)
      <4>1. \A i \in size + 1 .. r : stream[i] \in Byte
        BY <1>1, <1>2, <3>2
      <4>2. size + 1 \in Int /\ r \in Int
        BY <1>2, <3>2
      <4> HIDE DEF size
      <4>3. QED
        BY <3>1, <3>4, <4>1, <4>2, SubSeqProperties
    <3>6. TypeOK'
      BY <1>1, <1>2, <3>1, <3>3, <3>5 DEF TypeOK
    <3>7. DecidedOnTheHeader'
      BY <1>1, <2>1, <2>2, <3>1, <3>2, <3>3, <3>4 DEF DecidedOnTheHeader
    <3>8. QED
      BY <3>6, <3>7 DEF UploadInvariant
  <2>3. CASE ~(Check(prefix) = "ok" /\ Valid(prefix))
    <3>1. Fail
      BY <1>3, <1>6, <2>3 DEF Peek
    <3>2. ~(Check(stream) = "ok" /\ Valid(stream))
      <4>1. SUFFICES ASSUME Check(stream) = "ok" PROVE ~Valid(stream)
        OBVIOUS
      <4>2. size >= k_pldm_min_header_size /\ size <= r
        BY <1>1, <1>2, <1>6, <4>1, CheckOfPrefix
      <4>3. QED
        BY <1>1, <1>2, <2>1, <2>3, <4>1, <4>2, AgreeOnHeader
    <3>3. QED
      BY <1>1, <1>2, <3>1, <3>2, FailIsSafe
  <2>4. QED
    BY <2>2, <2>3
<1>7. QED
  BY <1>5, <1>6

LEMMA ReadIsSafe ==
  ASSUME UploadInvariant, NEW n \in 1 .. Len(stream), Read(n)
  PROVE  UploadInvariant'
<1> DEFINE r == received + n
           size == HeaderSize(stream)
<1>1. /\ state = "transfer" /\ received' = r
      /\ UNCHANGED <<genuine, stream, state, comp, cut>>
      /\ image' = image \o SubSeq(stream, received + 1, r)
  BY DEF Read
<1>2. /\ received \in Nat /\ r \in received .. Len(stream) /\ stream \in Seq(Byte)
      /\ image \in Seq(Byte)
  BY DEF Read, UploadInvariant, TypeOK
<1>3. size \in Nat /\ size <= received /\ image = SubSeq(stream, size + 1, received)
  BY <1>1, <1>2, HeaderSizeType DEF UploadInvariant, DecidedOnTheHeader
<1>4. image' = SubSeq(stream, size + 1, r)
  <2>1. /\ size + 1 \in 1 .. Len(stream) + 1
        /\ received \in (size + 1) - 1 .. Len(stream)
    BY <1>2, <1>3
  <2> HIDE DEF size, r
  <2>2. SubSeq(stream, size + 1, received) \o SubSeq(stream, received + 1, r)
            = SubSeq(stream, size + 1, r)
    BY <1>2, <2>1, ConcatAdjacentSubSeq
  <2>3. QED
    BY <1>1, <1>3, <2>2
<1>5. image' \in Seq(Byte)
  <2>1. \A i \in size + 1 .. r : stream[i] \in Byte
    BY <1>2, <1>3
  <2>2. size + 1 \in Int /\ r \in Int
    BY <1>2, <1>3
  <2> HIDE DEF size, r
  <2>3. QED
    BY <1>4, <2>1, <2>2, SubSeqProperties
<1>6. TypeOK'
  BY <1>1, <1>2, <1>5 DEF TypeOK, UploadInvariant
<1>7. DecidedOnTheHeader'
  <2>1. size <= r
    BY <1>2, <1>3
  <2> HIDE DEF r
  <2>2. QED
    BY <1>1, <1>4, <2>1 DEF DecidedOnTheHeader, UploadInvariant
<1>8. QED
  BY <1>6, <1>7 DEF UploadInvariant

LEMMA EofIsSafe == UploadInvariant /\ Eof => UploadInvariant'
<1> SUFFICES ASSUME UploadInvariant, Eof PROVE UploadInvariant'
  OBVIOUS
<1>1. /\ state \in {"peek", "transfer"} /\ cut' = (received < Len(stream))
      /\ UNCHANGED <<genuine, stream, received>>
  BY DEF Eof
<1>2. received \in 0 .. Len(stream) /\ stream \in Seq(Byte)
  BY DEF UploadInvariant, TypeOK
<1>3. CASE state = "transfer" /\ Crc(image) = comp.crc
  <2>1. state' = "complete" /\ UNCHANGED <<comp, image>>
    BY <1>3 DEF Eof
  <2>2. TypeOK'
    BY <1>1, <2>1 DEF TypeOK, UploadInvariant
  <2>3. DecidedOnTheHeader'
    BY <1>1, <1>3, <2>1 DEF DecidedOnTheHeader, UploadInvariant
  <2>4. QED
    BY <2>2, <2>3 DEF UploadInvariant
<1>4. CASE ~(state = "transfer" /\ Crc(image) = comp.crc)
  <2>1. Fail
    BY <1>4 DEF Eof
  <2>2. ASSUME ~cut'
        PROVE  \/ ~(Check(stream) = "ok" /\ Valid(stream))
               \/ ComponentOf(stream).crc # Crc(FirstPayload(stream))
    <3>1. received = Len(stream)
      <4>1. ~(received < Len(stream))
        BY <1>1, <2>2, Zenon
      <4>2. Len(stream) \in Nat
        BY <1>2
      <4>3. QED
        BY <1>2, <4>1, <4>2
    <3>2. CASE state = "peek"
      <4>1. SubSeq(stream, 1, Len(stream)) = stream
        BY <1>2, SubSeqFull
      <4>2. QED
        BY <3>1, <3>2, <4>1 DEF UploadInvariant, DecidedOnTheHeader
    <3>3. CASE state = "transfer"
      BY <1>4, <3>1, <3>3 DEF UploadInvariant, DecidedOnTheHeader, FirstPayload
    <3>4. QED
      BY <1>1, <3>2, <3>3
  <2>3. cut' \in BOOLEAN
    BY <1>1
  <2>4. QED
    BY <1>1, <1>2, <2>1, <2>2, <2>3, FailIsSafe
<1>5. QED
  BY <1>3, <1>4

LEMMA AbortIsSafe == UploadInvariant /\ Abort => UploadInvariant'
<1> SUFFICES ASSUME UploadInvariant, Abort PROVE UploadInvariant'
  OBVIOUS
<1>1. Fail /\ cut' = TRUE /\ UNCHANGED <<genuine, stream, received>>
  BY DEF Abort
<1>2. received' \in 0 .. Len(stream)
  BY <1>1 DEF UploadInvariant, TypeOK
<1>3. QED
  BY <1>1, <1>2, FailIsSafe

-----------------------------------------------------------------------------
(* The theorems *)

\* The invariant holds after every read.
THEOREM UploadIsSafe == Spec => []UploadInvariant
<1>1. UploadInvariant /\ [Next]_vars => UploadInvariant'
  <2> SUFFICES ASSUME UploadInvariant, [Next]_vars PROVE UploadInvariant'
    OBVIOUS
  <2>1. CASE UNCHANGED vars
    BY <2>1 DEF vars, UploadInvariant, TypeOK, DecidedOnTheHeader
  <2>2. QED
    BY <2>1, PeekIsSafe, ReadIsSafe, EofIsSafe, AbortIsSafe DEF Next
<1>2. QED
  BY NothingDecidedYet, <1>1, PTL DEF Spec

\* Every variable of PldmUpload has its type.
THEOREM UploadTypeCorrect == Spec => []TypeOK
  BY UploadIsSafe, PTL DEF UploadInvariant

\* PldmHeaderPeekSession and TransferSession decide as on the whole upload,
\* however the pipe cuts it into reads.
THEOREM ReadsDoNotMatter == Spec => []ChunkingDoesNotMatter
<1>1. UploadInvariant => ChunkingDoesNotMatter
  BY DEF UploadInvariant, DecidedOnTheHeader, ChunkingDoesNotMatter
<1>2. QED
  BY <1>1, UploadIsSafe, PTL

LEMMA GenuinePackage ==
  ASSUME UploadInvariant, stream = genuine.header \o genuine.payload,
         state \in {"transfer", "complete"}
  PROVE  \E count \in Counts :
             LET n == Len(genuine.header) IN
             /\ genuine.payload = Payload(count) /\ Len(genuine.payload) = count
             /\ HeaderSize(stream) = n /\ Len(stream) = n + count
             /\ comp = [offset |-> n, crc |-> Crc(Payload(count)), size |-> count]
<1>1. PICK count \in Counts, version \in Versions : genuine = Package(count, version)
  BY DEF UploadInvariant, TypeOK, Packages, Counts, Versions
<1>2. /\ Len(genuine.header) = HeaderLength(count, version)
      /\ genuine.payload = Payload(count)
      /\ Len(stream) = HeaderLength(count, version) + count
  BY <1>1, PackageHolds
<1>3. Len(Payload(count)) = count
  BY PayloadType
<1>4. ComponentOf(stream) = [offset |-> HeaderLength(count, version),
                             crc |-> Crc(Payload(count)), size |-> count]
  BY <1>1, PackageMeasured
<1>5. comp = ComponentOf(stream)
  BY DEF UploadInvariant, DecidedOnTheHeader
<1>6. HeaderSize(stream) = ComponentOf(stream).offset
  BY DEF ComponentOf
<1>7. QED
  BY <1>2, <1>3, <1>4, <1>5, <1>6

\* package_size_from_header walks a package as the vendor made it to its end:
\* the size is that of the payload.
THEOREM SizeIsThePayloads == Spec => []SizeIsExact
<1>1. UploadInvariant => SizeIsExact
  <2> SUFFICES ASSUME UploadInvariant, state = "transfer",
                      stream = genuine.header \o genuine.payload
               PROVE  /\ comp.offset = Len(genuine.header)
                      /\ comp.size = Len(genuine.payload)
    BY DEF SizeIsExact
  <2>1. PICK count \in Counts :
            /\ Len(genuine.payload) = count
            /\ comp = [offset |-> Len(genuine.header),
                       crc |-> Crc(Payload(count)), size |-> count]
    BY GenuinePackage
  <2>2. QED
    BY <2>1
<1>2. QED
  BY <1>1, UploadIsSafe, PTL

\* The image is the bytes behind the header, across the hand-over from the peek
\* to the transfer; an image that is verified is the whole payload.
THEOREM PayloadIsTheImage == Spec => []ImageIsThePayload
<1>1. UploadInvariant => ImageIsThePayload
  <2> SUFFICES ASSUME UploadInvariant PROVE ImageIsThePayload
    OBVIOUS
  <2>1. ASSUME state \in {"transfer", "complete"}
        PROVE  image = SubSeq(stream, comp.offset + 1, received)
    <3>1. comp.offset = HeaderSize(stream)
      BY <2>1 DEF UploadInvariant, DecidedOnTheHeader, ComponentOf
    <3>2. QED
      BY <2>1, <3>1 DEF UploadInvariant, DecidedOnTheHeader
  <2>2. ASSUME state = "complete", stream = genuine.header \o genuine.payload
        PROVE  image = genuine.payload
    <3> DEFINE n == Len(genuine.header)
               m == received - n
    <3>1. PICK count \in Counts :
              /\ genuine.payload = Payload(count)
              /\ HeaderSize(stream) = n /\ Len(stream) = n + count
              /\ comp = [offset |-> n, crc |-> Crc(Payload(count)), size |-> count]
      BY <2>2, GenuinePackage
    <3>2. genuine.header \in Seq(Byte) /\ genuine.payload \in Seq(Byte)
      BY PackageType DEF UploadInvariant, TypeOK
    <3>3. n \in Nat /\ count \in Nat /\ received \in Nat /\ n <= received
          /\ received <= n + count
      <4>1. received \in 0 .. Len(stream) /\ HeaderSize(stream) <= received
        BY <2>2 DEF UploadInvariant, DecidedOnTheHeader, TypeOK
      <4>2. n \in Nat /\ count \in Nat
        BY <3>2 DEF Counts
      <4> HIDE DEF n
      <4>3. QED
        BY <3>1, <4>1, <4>2
    <3>4. m \in 0 .. count /\ received = n + m
      <4> HIDE DEF n
      <4>1. QED
        BY <3>3
    <3>5. image = SubSeq(stream, n + 1, received) /\ Crc(image) = Crc(Payload(count))
      BY <2>2, <3>1 DEF UploadInvariant, DecidedOnTheHeader
    <3>6. image = Payload(m)
      <4>1. /\ image \in Seq(Byte) /\ Len(image) = m
            /\ \A i \in 1 .. m : image[i] = stream[n + i]
        <5>1. \A i \in n + 1 .. received : stream[i] \in Byte
          <6>1. stream \in Seq(Byte)
            BY DEF UploadInvariant, TypeOK
          <6> HIDE DEF n
          <6>2. QED
            BY <3>1, <3>3, <6>1
        <5>2. n + 1 \in Int /\ received \in Int /\ received - (n + 1) + 1 = m
              /\ (n + 1 <= received \/ m = 0) /\ m \in Nat
              /\ \A i \in 1 .. m : n + 1 + i - 1 = n + i
          <6> HIDE DEF n
          <6>1. QED
            BY <3>3
        <5> HIDE DEF n, m
        <5>3. /\ SubSeq(stream, n + 1, received) \in Seq(Byte)
              /\ Len(SubSeq(stream, n + 1, received)) =
                    IF n + 1 <= received THEN received - (n + 1) + 1 ELSE 0
              /\ \A i \in 1 .. received - (n + 1) + 1 :
                    SubSeq(stream, n + 1, received)[i] = stream[n + 1 + i - 1]
          BY <5>1, <5>2, SubSeqProperties
        <5>4. QED
          BY <3>5, <5>2, <5>3
      <4>2. \A i \in 1 .. m : stream[n + i] = Payload(count)[i]
        <5>1. \A i \in 1 .. m : n + i \in 1 .. n + count /\ ~(n + i <= n)
                  /\ n + i - n = i
          <6> HIDE DEF n, m
          <6>1. QED
            BY <3>3, <3>4
        <5>2. Len(genuine.payload) = count
          BY <3>1, PayloadType
        <5>3. \A i \in 1 .. n + count :
                  (genuine.header \o genuine.payload)[i] =
                      IF i <= n THEN genuine.header[i] ELSE genuine.payload[i - n]
          BY <3>2, <5>2, ConcatProperties
        <5>4. ASSUME NEW i \in 1 .. m PROVE stream[n + i] = Payload(count)[i]
          <6> DEFINE j == n + i
                     full == genuine.header \o genuine.payload
          <6>1. j \in 1 .. n + count /\ ~(j <= n) /\ j - n = i
            BY <5>1
          <6>2. full[j] = IF j <= n THEN genuine.header[j] ELSE genuine.payload[j - n]
            BY <5>3, <6>1
          <6> HIDE DEF j, full, n
          <6>3. full[j] = genuine.payload[i]
            BY <6>1, <6>2
          <6>4. QED
            BY <2>2, <3>1, <6>3 DEF j, full
        <5>5. QED
          BY <5>4
      <4>3. /\ Payload(m) \in Seq(Byte) /\ Len(Payload(m)) = m
            /\ \A i \in 1 .. m : Payload(m)[i] = i /\ Payload(count)[i] = i
        <5>1. m \in Counts /\ \A i \in 1 .. m : i \in 1 .. count
          <6> HIDE DEF m
          <6>1. QED
            BY <3>4 DEF Counts
        <5> HIDE DEF m
        <5>2. QED
          BY <5>1, PayloadType
      <4> HIDE DEF n, m
      <4>4. QED
        BY <4>1, <4>2, <4>3, SeqEqual
    <3>7. m = count
      BY <3>4, <3>5, <3>6, BeginningOfPayload
    <3>8. QED
      BY <3>1, <3>6, <3>7
  <2>3. QED
    BY <2>1, <2>2 DEF ImageIsThePayload
<1>2. QED
  BY <1>1, UploadIsSafe, PTL
=============================================================================
