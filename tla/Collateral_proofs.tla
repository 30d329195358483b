-------------------------- MODULE Collateral_proofs --------------------------
(***************************************************************************)
(* What is launched was verified, for every library directory, however its *)
(* links chain, and every length of the files.                             *)
(***************************************************************************)
EXTENDS Collateral, FiniteSetTheorems, TLAPS

-----------------------------------------------------------------------------
(* Recursion over the natural numbers *)

\* A set that holds 0 and the successor of all it holds is Nat.
LEMMA NatSetInduction ==
  ASSUME NEW S \in SUBSET Nat, 0 \in S, \A n \in S : n + 1 \in S
  PROVE  S = Nat
<1>1. SUFFICES ASSUME S # Nat PROVE FALSE
  OBVIOUS
<1> DEFINE T == Nat \ S
<1>2. T \subseteq Nat /\ T # {}
  BY <1>1
<1>3. \E x \in T : \A y \in T : <<y, x>> \notin OpToRel(<, Nat)
  <2> HIDE DEF T
  <2>1. QED
    BY <1>2, NatLessThanWellFounded, WFMin
<1>4. PICK x \in T : \A y \in T : <<y, x>> \notin OpToRel(<, Nat)
  BY <1>3
<1>5. x \in Nat /\ x \notin S /\ x # 0
  BY <1>4
<1>6. x - 1 \in Nat /\ <<x - 1, x>> \in OpToRel(<, Nat)
  BY <1>5 DEF OpToRel
<1>7. x - 1 \in S
  BY <1>4, <1>6
<1>8. (x - 1) + 1 \in S
  BY <1>7
<1>9. (x - 1) + 1 = x
  BY <1>5
<1>10. QED
  BY <1>5, <1>8, <1>9

\* The first steps of an iteration.
Iterates(F, a, T, n) ==
    {g \in [0 .. n -> T] : g[0] = a /\ \A k \in 1 .. n : g[k] = F[g[k - 1]]}

LEMMA IteratesAgree ==
  ASSUME NEW T, NEW a \in T, NEW F \in [T -> T], NEW m \in Nat, NEW n \in Nat,
         NEW g \in Iterates(F, a, T, m), NEW h \in Iterates(F, a, T, n)
  PROVE  \A k \in Nat : k <= m /\ k <= n => g[k] = h[k]
<1> DEFINE S == {k \in Nat : k <= m /\ k <= n => g[k] = h[k]}
<1>1. 0 \in S
  BY DEF Iterates
<1>2. ASSUME NEW k \in S PROVE k + 1 \in S
  <2>1. CASE k + 1 <= m /\ k + 1 <= n
    <3>1. k \in Nat /\ g[k] = h[k] /\ k + 1 \in 1 .. m /\ k + 1 \in 1 .. n
      BY <2>1
    <3>2. g[k + 1] = F[g[(k + 1) - 1]] /\ h[k + 1] = F[h[(k + 1) - 1]]
      BY <3>1 DEF Iterates
    <3>3. QED
      BY <3>1, <3>2
  <2>2. CASE ~(k + 1 <= m /\ k + 1 <= n)
    BY <2>2
  <2>3. QED
    BY <2>1, <2>2
<1>3. S = Nat
  <2> HIDE DEF S
  <2>1. S \in SUBSET Nat
    BY DEF S
  <2>2. QED
    BY <1>1, <1>2, <2>1, NatSetInduction
<1>4. QED
  BY <1>3

LEMMA IteratesExist ==
  ASSUME NEW T, NEW a \in T, NEW F \in [T -> T]
  PROVE  \A n \in Nat : Iterates(F, a, T, n) # {}
<1> DEFINE S == {n \in Nat : Iterates(F, a, T, n) # {}}
<1>1. 0 \in S
  <2>1. [k \in 0 .. 0 |-> a] \in Iterates(F, a, T, 0)
    BY DEF Iterates
  <2>2. QED
    BY <2>1
<1>2. ASSUME NEW n \in S PROVE n + 1 \in S
  <2>1. n \in Nat /\ Iterates(F, a, T, n) # {}
    OBVIOUS
  <2>2. PICK g \in Iterates(F, a, T, n) : TRUE
    BY <2>1
  <2>3. g \in [0 .. n -> T] /\ g[0] = a /\ \A k \in 1 .. n : g[k] = F[g[k - 1]]
    BY <2>2 DEF Iterates
  <2> DEFINE h == [k \in 0 .. n + 1 |-> IF k = n + 1 THEN F[g[n]] ELSE g[k]]
  <2>4. h \in [0 .. n + 1 -> T] /\ h[0] = a
    BY <2>1, <2>3
  <2>5. \A k \in 1 .. n + 1 : h[k] = F[h[k - 1]]
    <3>1. h[n + 1] = F[h[(n + 1) - 1]]
      BY <2>1
    <3>2. \A k \in 1 .. n : h[k] = F[h[k - 1]]
      BY <2>1, <2>3
    <3> HIDE DEF h
    <3>3. QED
      BY <2>1, <3>1, <3>2
  <2>6. h \in Iterates(F, a, T, n + 1)
    BY <2>4, <2>5 DEF Iterates
  <2>7. QED
    BY <2>1, <2>6
<1>3. S = Nat
  <2> HIDE DEF S
  <2>1. S \in SUBSET Nat
    BY DEF S
  <2>2. QED
    BY <1>1, <1>2, <2>1, NatSetInduction
<1>4. QED
  BY <1>3

\* A function can be iterated.
LEMMA NatRecursion ==
  ASSUME NEW T, NEW a \in T, NEW F \in [T -> T]
  PROVE  \E g \in [Nat -> T] : g[0] = a /\ \A k \in Nat : g[k + 1] = F[g[k]]
<1> DEFINE p(n) == CHOOSE h : h \in Iterates(F, a, T, n)
           g == [n \in Nat |-> p(n)[n]]
<1>1. \A n \in Nat : p(n) \in Iterates(F, a, T, n)
  BY IteratesExist
<1> HIDE DEF p
<1>2. g \in [Nat -> T] /\ g[0] = a
  BY <1>1 DEF Iterates
<1>3. ASSUME NEW k \in Nat PROVE g[k + 1] = F[g[k]]
  <2>1. p(k + 1)[k + 1] = F[p(k + 1)[(k + 1) - 1]]
    BY <1>1 DEF Iterates
  <2>2. p(k + 1)[k] = p(k)[k]
    BY <1>1, IteratesAgree
  <2>3. QED
    BY <2>1, <2>2
<1>4. QED
  BY <1>2, <1>3

Iterated(T, a, F) ==
    \E g \in [Nat -> T] : g[0] = a /\ \A k \in Nat : g[k + 1] = F[g[k]]

LEMMA Iteration ==
  \A T, a, F : (a \in T /\ F \in [T -> T]) => Iterated(T, a, F)
<1>1. ASSUME NEW T, NEW a, NEW F, a \in T, F \in [T -> T]
      PROVE  Iterated(T, a, F)
  BY <1>1, NatRecursion DEF Iterated
<1>2. QED
  BY <1>1

-----------------------------------------------------------------------------
(* fs::canonical *)

OneLink(f) == IF f \in Links THEN entries[f].to ELSE f

\* The chain that fs::canonical follows.
IsChain(g, link) ==
    /\ g \in [Nat -> Targets] /\ g[0] = link
    /\ \A k \in Nat : g[k + 1] = OneLink(g[k])

LEMMA LinksAreNames ==
  ASSUME entries \in [Names -> Entry]
  PROVE  /\ Links \subseteq Names /\ Regular \subseteq Names
         /\ Links \cap Regular = {} /\ "binary" \notin Names
         /\ \A f \in Targets : OneLink(f) \in Targets
<1>1. \A n \in Links : entries[n] \in Entry /\ entries[n].is = "link"
  BY DEF Links
<1>2. \A n \in Links : entries[n].to \in Targets
  BY <1>1 DEF Entry
<1>3. QED
  BY <1>2, NamesAssumption DEF Links, Regular, OneLink

LEMMA CanonicalIsOnTheChain ==
  ASSUME entries \in [Names -> Entry], NEW link \in Links
  PROVE  \E g : IsChain(g, link) /\ Canonical(link) = g[Cardinality(Names)]
<1> DEFINE F == [f \in Targets |-> OneLink(f)]
<1>1. link \in Targets /\ F \in [Targets -> Targets]
  BY LinksAreNames DEF Targets
<1>2. PICK g \in [Nat -> Targets] : g[0] = link /\ \A k \in Nat : g[k + 1] = F[g[k]]
  <2> HIDE DEF F
  <2>1. QED
    BY <1>1, NatRecursion
<1>3. IsChain(g, link)
  BY <1>2 DEF IsChain
<1>4. g = [k \in Nat |-> IF k = 0 THEN link ELSE
                           IF g[k - 1] \in Links THEN entries[g[k - 1]].to
                                                 ELSE g[k - 1]]
  <2> DEFINE h == [k \in Nat |-> IF k = 0 THEN link ELSE
                           IF g[k - 1] \in Links THEN entries[g[k - 1]].to
                                                 ELSE g[k - 1]]
  <2>1. ASSUME NEW k \in Nat PROVE g[k] = h[k]
    <3>1. CASE k = 0
      BY <1>2, <3>1
    <3>2. CASE k # 0
      <4>1. k - 1 \in Nat /\ (k - 1) + 1 = k
        BY <3>2
      <4>2. g[(k - 1) + 1] = OneLink(g[k - 1])
        BY <1>3, <4>1 DEF IsChain
      <4>3. QED
        BY <3>2, <4>1, <4>2 DEF OneLink
    <3>3. QED
      BY <3>1, <3>2
  <2>2. g = [k \in Nat |-> g[k]]
    BY <1>2
  <2>3. h = [k \in Nat |-> h[k]]
    OBVIOUS
  <2> HIDE DEF h
  <2>4. g = h
    BY <2>1, <2>2, <2>3
  <2>5. QED
    BY <2>4 DEF h
<1> DEFINE Follow(f) == IF f \in Links THEN entries[f].to ELSE f
           after[k \in Nat] == IF k = 0 THEN link ELSE Follow(after[k - 1])
<1>5. after = [k \in Nat |-> IF k = 0 THEN link ELSE
                               IF after[k - 1] \in Links
                               THEN entries[after[k - 1]].to ELSE after[k - 1]]
  BY <1>4, Zenon
<1>6. Canonical(link) = after[Cardinality(Names)]
  BY Zenon DEF Canonical
<1> HIDE DEF after
<1>7. \A k \in Nat : after[k] = g[k]
  <2> DEFINE S == {k \in Nat : after[k] = g[k]}
  <2>1. 0 \in S
    BY <1>2, <1>5
  <2>2. ASSUME NEW k \in S PROVE k + 1 \in S
    <3>1. k \in Nat /\ k + 1 \in Nat /\ k + 1 # 0 /\ (k + 1) - 1 = k
      OBVIOUS
    <3>2. after[k + 1] = OneLink(after[k])
      BY <1>5, <3>1 DEF OneLink
    <3>3. g[k + 1] = OneLink(g[k])
      BY <1>3 DEF IsChain
    <3>4. QED
      BY <3>1, <3>2, <3>3
  <2>3. S = Nat
    <3> HIDE DEF S
    <3>1. S \in SUBSET Nat
      BY DEF S
    <3>2. QED
      BY <2>1, <2>2, <3>1, NatSetInduction
  <2>4. QED
    BY <2>3
<1>8. Cardinality(Names) \in Nat
  BY NamesAssumption, FS_CardinalityType
<1>9. QED
  BY <1>3, <1>6, <1>7, <1>8

\* A chain does not leave a set that no link leaves.
LEMMA ChainStaysIn ==
  ASSUME NEW link, NEW g, IsChain(g, link),
         NEW S, link \in S, \A f \in S : OneLink(f) \in S
  PROVE  \A k \in Nat : g[k] \in S
<1> DEFINE N == {k \in Nat : g[k] \in S}
<1>1. 0 \in N /\ \A k \in N : k + 1 \in N
  BY DEF IsChain
<1>2. N = Nat
  <2> HIDE DEF N
  <2>1. N \in SUBSET Nat
    BY DEF N
  <2>2. QED
    BY <1>1, <2>1, NatSetInduction
<1>3. QED
  BY <1>2

\* A chain that reached something else than a link stays there.
LEMMA ChainStops ==
  ASSUME NEW link, NEW g, IsChain(g, link), NEW m \in Nat, g[m] \notin Links
  PROVE  \A k \in Nat : k >= m => g[k] = g[m]
<1> DEFINE N == {k \in Nat : g[m + k] = g[m]}
<1>1. 0 \in N
  OBVIOUS
<1>2. ASSUME NEW k \in N PROVE k + 1 \in N
  <2>1. m + k \in Nat /\ m + (k + 1) = (m + k) + 1 /\ g[m + k] = g[m]
    OBVIOUS
  <2>2. g[(m + k) + 1] = OneLink(g[m + k])
    BY <2>1 DEF IsChain
  <2>3. QED
    BY <2>1, <2>2 DEF OneLink
<1>3. N = Nat
  <2> HIDE DEF N
  <2>1. N \in SUBSET Nat
    BY DEF N
  <2>2. QED
    BY <1>1, <1>2, <2>1, NatSetInduction
<1>4. ASSUME NEW k \in Nat, k >= m PROVE g[k] = g[m]
  <2>1. k - m \in Nat /\ m + (k - m) = k
    BY <1>4
  <2>2. \A d \in Nat : g[m + d] = g[m]
    BY <1>3
  <2> HIDE DEF N
  <2>3. QED
    BY <2>1, <2>2
<1>5. QED
  BY <1>4

LinksLeadOn ==
    \A n \in Links : entries[n].to \in Links \cup Regular \cup {"binary"}

NoLinksAmongThemselves ==
    \A S \in SUBSET Links : S # {} => \E n \in S : entries[n].to \notin S

\* A chain of links that never ends meets one of them twice, and those between
\* lead only to each other: there are more steps than names.
LEMMA EndlessChainLoops ==
  ASSUME entries \in [Names -> Entry], NoLinksAmongThemselves,
         NEW link \in Links, NEW g, IsChain(g, link)
  PROVE  \E k \in 0 .. Cardinality(Names) : g[k] \notin Links
<1> DEFINE c == Cardinality(Names)
<1>1. SUFFICES ASSUME \A k \in 0 .. c : g[k] \in Links PROVE FALSE
  OBVIOUS
<1>2. c \in Nat /\ IsFiniteSet(Names)
  BY NamesAssumption, FS_CardinalityType
<1> HIDE DEF c
<1>3. \E x, y \in 0 .. c : x # y /\ g[x] = g[y]
  <2> DEFINE f == [k \in 0 .. c |-> g[k]]
  <2>1. f \in [0 .. c -> Names]
    BY <1>1, LinksAreNames
  <2>2. IsFiniteSet(0 .. c) /\ Cardinality(0 .. c) = c + 1
    BY <1>2, FS_Interval
  <2>3. Cardinality(Names) < Cardinality(0 .. c)
    BY <1>2, <2>2 DEF c
  <2> HIDE DEF f
  <2>4. \E x, y \in 0 .. c : x # y /\ f[x] = f[y]
    BY <1>2, <2>1, <2>2, <2>3, FS_PigeonHole
  <2>5. QED
    BY <2>4 DEF f
<1>4. PICK i \in 0 .. c, k \in 0 .. c : i < k /\ g[i] = g[k]
  BY <1>2, <1>3
<1> DEFINE S == {g[m] : m \in i .. k - 1}
<1>5. S \in SUBSET Links /\ S # {}
  <2>1. i \in i .. k - 1 /\ \A m \in i .. k - 1 : m \in 0 .. c
    BY <1>2, <1>4
  <2>2. QED
    BY <1>1, <2>1
<1>6. ASSUME NEW n \in S PROVE entries[n].to \in S
  <2>1. PICK m \in i .. k - 1 : n = g[m]
    OBVIOUS
  <2>2. m \in Nat /\ m \in 0 .. c /\ m + 1 \in i .. k
    BY <1>2, <1>4
  <2>3. g[m + 1] = entries[n].to
    BY <1>1, <2>1, <2>2 DEF IsChain, OneLink
  <2>4. CASE m + 1 = k
    <3>1. i \in i .. k - 1
      BY <1>2, <1>4
    <3>2. QED
      BY <1>4, <2>3, <2>4, <3>1
  <2>5. CASE m + 1 # k
    <3>1. m + 1 \in i .. k - 1
      BY <1>2, <1>4, <2>2, <2>5
    <3>2. QED
      BY <2>3, <3>1
  <2>6. QED
    BY <2>4, <2>5
<1> HIDE DEF S
<1>7. QED
  BY <1>5, <1>6 DEF NoLinksAmongThemselves

\* verified_real holds what fs::canonical makes of every link exactly when each
\* leads on, and no links lead only to each other.
LEMMA CanonicalDecides ==
  ASSUME entries \in [Names -> Entry], binary # "missing"
  PROVE  LinksWithinVerifiedSet <=> LinksLeadOn /\ NoLinksAmongThemselves
<1> DEFINE V == Regular \cup {"binary"}
           c == Cardinality(Names)
<1>1. V \cap Links = {} /\ Links \subseteq Names
  BY LinksAreNames
<1>2. c \in Nat
  BY NamesAssumption, FS_CardinalityType
<1>3. LinksWithinVerifiedSet <=> \A n \in Links : Canonical(n) \in V
  BY DEF LinksWithinVerifiedSet
<1> HIDE DEF V, c
<1>4. ASSUME LinksWithinVerifiedSet PROVE LinksLeadOn
  <2> SUFFICES ASSUME NEW n \in Links, entries[n].to \notin Links
               PROVE  entries[n].to \in V
    BY DEF LinksLeadOn, V
  <2>1. PICK g : IsChain(g, n) /\ Canonical(n) = g[c]
    BY CanonicalIsOnTheChain DEF c
  <2>2. g[0 + 1] = entries[n].to
    <3>1. 0 \in Nat /\ g[0] = n
      BY <2>1 DEF IsChain
    <3>2. QED
      BY <2>1, <3>1 DEF IsChain, OneLink
  <2>3. c >= 1
    <3>1. c # 0
      BY <1>1, NamesAssumption, FS_EmptySet DEF c
    <3>2. QED
      BY <1>2, <3>1
  <2>4. g[c] = g[1]
    BY <1>2, <2>1, <2>2, <2>3, ChainStops
  <2>5. QED
    BY <1>3, <1>4, <2>1, <2>2, <2>4
<1>5. ASSUME LinksWithinVerifiedSet PROVE NoLinksAmongThemselves
  <2> SUFFICES ASSUME NEW S \in SUBSET Links, S # {},
                      \A n \in S : entries[n].to \in S
               PROVE  FALSE
    BY DEF NoLinksAmongThemselves
  <2>1. PICK n \in S : TRUE
    OBVIOUS
  <2>2. PICK g : IsChain(g, n) /\ Canonical(n) = g[c]
    BY CanonicalIsOnTheChain DEF c
  <2>3. g[c] \in S
    BY <1>2, <2>1, <2>2, ChainStaysIn DEF OneLink
  <2>4. QED
    BY <1>1, <1>3, <1>5, <2>1, <2>2, <2>3
<1>6. ASSUME LinksLeadOn, NoLinksAmongThemselves, NEW n \in Links
      PROVE  Canonical(n) \in V
  <2>1. PICK g : IsChain(g, n) /\ Canonical(n) = g[c]
    BY CanonicalIsOnTheChain DEF c
  <2>2. PICK k \in 0 .. c : g[k] \notin Links
    BY <1>6, <2>1, EndlessChainLoops DEF c
  <2>3. g[k] \in Links \cup V
    <3>1. \A f \in Links \cup V : OneLink(f) \in Links \cup V
      BY <1>6 DEF OneLink, LinksLeadOn, V
    <3>2. n \in Links \cup V /\ k \in Nat
      BY <1>2
    <3>3. QED
      BY <2>1, <3>1, <3>2, ChainStaysIn
  <2>4. g[c] = g[k]
    BY <1>2, <2>1, <2>2, ChainStops
  <2>5. QED
    BY <2>1, <2>2, <2>3, <2>4
<1>7. QED
  BY <1>3, <1>4, <1>5, <1>6

-----------------------------------------------------------------------------
(* The inductive invariant *)

Verifiable == Collectable /\ LinksWithinVerifiedSet

ToVerify == {"binary"} \cup Regular

Good(f) == key = "good" /\ Signature(f) = "good"

\* The callback is called when nothing is left to do, and once.
ToldAtTheEnd ==
    /\ answers = IF turn = "over" THEN 1 ELSE 0
    /\ verdict = "none" <=> turn \in {"enumerate", "verify"}
    /\ turn = "discover" => verdict = "ok"

\* What is being read is still to verify.
ReadsInItsTurn ==
    /\ todo \subseteq ToVerify
    /\ turn # "verify" => current = NoFile
    /\ current # NoFile => current \in todo /\ key = "good"

\* What is no longer to verify is good.
VerifiedSoFar ==
    turn = "verify" => Verifiable /\ \A f \in ToVerify \ todo : Good(f)

OkIsGood == verdict = "ok" => Verifiable /\ \A f \in ToVerify : Good(f)

FailedIsBad ==
    verdict = "failed" =>
        faults \/ ~Verifiable \/ \E f \in ToVerify : ~Good(f)

VerificationInvariant ==
    /\ TypeOK /\ ToldAtTheEnd /\ ReadsInItsTurn /\ VerifiedSoFar
    /\ OkIsGood /\ FailedIsBad

-----------------------------------------------------------------------------
(* The steps *)

\* The configuration and what is on the disk stay.
LEMMA DiskStays ==
  ASSUME UNCHANGED disk
  PROVE  /\ (Verifiable' <=> Verifiable) /\ ToVerify' = ToVerify
         /\ key' = key /\ binary' = binary /\ entries' = entries
         /\ \A f : Good(f)' <=> Good(f)
  BY DEF disk, Verifiable, Collectable, LinksWithinVerifiedSet, Canonical,
         ToVerify, Regular, Links, Good, Signature

LEMMA InitiallyUnverified == Init => VerificationInvariant
<1> SUFFICES ASSUME Init PROVE VerificationInvariant
  OBVIOUS
<1>1. TypeOK
  <2>1. pos \in 0 .. Blocks
    BY BoundsAssumption DEF Init
  <2>2. {discovers, faults} \subseteq BOOLEAN
    <3>1. discovers \in BOOLEAN /\ faults \in BOOLEAN
      BY DEF Init
    <3>2. QED
      BY <3>1
  <2>3. QED
    BY <2>1, <2>2, Zenon DEF Init, TypeOK
<1>2. ToldAtTheEnd
  BY DEF Init, ToldAtTheEnd
<1>3. ReadsInItsTurn /\ VerifiedSoFar /\ OkIsGood /\ FailedIsBad
  BY DEF Init, ReadsInItsTurn, VerifiedSoFar, OkIsGood, FailedIsBad
<1>4. QED
  BY <1>1, <1>2, <1>3 DEF VerificationInvariant

\* finish(ok), if ok is right or a read or an open failed.
LEMMA FinishIsSafe ==
  ASSUME VerificationInvariant, turn \in {"enumerate", "verify"},
         NEW ok \in BOOLEAN, NEW fault \in BOOLEAN, Finish(ok, fault),
         ok => Verifiable /\ \A f \in ToVerify : Good(f),
         ~ok => fault \/ ~Verifiable \/ \E f \in ToVerify : ~Good(f)
  PROVE  VerificationInvariant'
<1> USE DEF VerificationInvariant
<1>1. UNCHANGED disk
  BY DEF Finish
<1>2. verdict = "none" /\ answers = 0
  BY DEF ToldAtTheEnd
<1>3. TypeOK' /\ ToldAtTheEnd'
  BY <1>2, BoundsAssumption
     DEF TypeOK, ToldAtTheEnd, Finish, Told, disk
<1>4. ReadsInItsTurn' /\ VerifiedSoFar'
  BY DEF ReadsInItsTurn, VerifiedSoFar, Finish
<1>5. OkIsGood' /\ FailedIsBad'
  BY <1>1, DiskStays DEF OkIsGood, FailedIsBad, Finish
<1>6. QED
  BY <1>3, <1>4, <1>5

LEMMA EnumerateIsSafe ==
  VerificationInvariant /\ Enumerate => VerificationInvariant'
<1> SUFFICES ASSUME VerificationInvariant, Enumerate PROVE VerificationInvariant'
  OBVIOUS
<1> USE DEF VerificationInvariant
<1>1. UNCHANGED disk /\ Verifiable
  BY DEF Enumerate, Verifiable
<1>2. TypeOK' /\ ToldAtTheEnd'
  BY DEF TypeOK, ToldAtTheEnd, ReadsInItsTurn, Enumerate, disk, result, Regular
<1>3. todo' = ToVerify /\ current' = NoFile
  BY DEF Enumerate, ToVerify, ReadsInItsTurn
<1>4. ReadsInItsTurn' /\ VerifiedSoFar'
  BY <1>1, <1>3, DiskStays DEF ReadsInItsTurn, VerifiedSoFar
<1>5. OkIsGood' /\ FailedIsBad'
  BY <1>1, DiskStays DEF OkIsGood, FailedIsBad, ToldAtTheEnd, Enumerate
<1>6. QED
  BY <1>2, <1>4, <1>5

LEMMA EnumerateFailsIsSafe ==
  VerificationInvariant /\ EnumerateFails => VerificationInvariant'
  BY FinishIsSafe DEF EnumerateFails, Verifiable

LEMMA OpenFileIsSafe ==
  ASSUME VerificationInvariant, NEW f \in Names \cup {"binary"}, OpenFile(f)
  PROVE  VerificationInvariant'
<1> USE DEF VerificationInvariant
<1>1. UNCHANGED disk
  BY DEF OpenFile
<1>2. TypeOK' /\ ToldAtTheEnd' /\ ReadsInItsTurn'
  BY BoundsAssumption
     DEF TypeOK, ToldAtTheEnd, ReadsInItsTurn, OpenFile, Opens, Readable, disk,
         result, ToVerify, Regular
<1>3. VerifiedSoFar' /\ OkIsGood' /\ FailedIsBad'
  BY <1>1, DiskStays DEF VerifiedSoFar, OkIsGood, FailedIsBad, OpenFile
<1>4. QED
  BY <1>2, <1>3

LEMMA OpenFailsIsSafe ==
  ASSUME VerificationInvariant, NEW f \in Names \cup {"binary"}, OpenFails(f)
  PROVE  VerificationInvariant'
<1>1. turn = "verify" /\ f \in ToVerify
  BY DEF OpenFails, Opens, VerificationInvariant, ReadsInItsTurn
<1>2. ~Readable(f) => ~Good(f)
  BY DEF Readable, Good
<1>3. QED
  BY <1>1, <1>2, FinishIsSafe DEF OpenFails

LEMMA PumpMoreIsSafe ==
  VerificationInvariant /\ PumpMore => VerificationInvariant'
<1> SUFFICES ASSUME VerificationInvariant, PumpMore PROVE VerificationInvariant'
  OBVIOUS
<1> USE DEF VerificationInvariant
<1>1. UNCHANGED disk
  BY DEF PumpMore
<1>2. TypeOK' /\ ToldAtTheEnd' /\ ReadsInItsTurn'
  BY BoundsAssumption
     DEF TypeOK, ToldAtTheEnd, ReadsInItsTurn, PumpMore, disk, result,
         ToVerify, Regular
<1>3. VerifiedSoFar' /\ OkIsGood' /\ FailedIsBad'
  BY <1>1, DiskStays DEF VerifiedSoFar, OkIsGood, FailedIsBad, PumpMore
<1>4. QED
  BY <1>2, <1>3

LEMMA PumpLastIsSafe ==
  ASSUME VerificationInvariant, NEW fault \in BOOLEAN, PumpLast(fault)
  PROVE  VerificationInvariant'
<1>1. turn = "verify" /\ current \in ToVerify /\ key = "good"
  BY DEF PumpLast, VerificationInvariant, ReadsInItsTurn, TypeOK
<1>2. CASE DigestMatches
  <2> USE DEF VerificationInvariant
  <2>1. UNCHANGED disk /\ Good(current) /\ todo' = todo \ {current}
    BY <1>1, <1>2 DEF PumpLast, Good, DigestMatches
  <2>2. TypeOK' /\ ToldAtTheEnd' /\ ReadsInItsTurn'
    BY <1>1, <1>2
       DEF TypeOK, ToldAtTheEnd, ReadsInItsTurn, PumpLast, disk, result,
           ToVerify, Regular
  <2>3. VerifiedSoFar' /\ OkIsGood' /\ FailedIsBad'
    BY <1>1, <1>2, <2>1, DiskStays
       DEF VerifiedSoFar, OkIsGood, FailedIsBad, PumpLast, ToldAtTheEnd
  <2>4. QED
    BY <2>2, <2>3
<1>3. CASE ~DigestMatches
  <2>1. Finish(FALSE, fault) /\ (fault \/ ~Good(current))
    BY <1>3 DEF PumpLast, DigestMatches, Good
  <2>2. QED
    BY <1>1, <2>1, FinishIsSafe
<1>4. QED
  BY <1>2, <1>3

LEMMA AllVerifiedIsSafe ==
  VerificationInvariant /\ AllVerified => VerificationInvariant'
<1> SUFFICES ASSUME VerificationInvariant, AllVerified
             PROVE  VerificationInvariant'
  OBVIOUS
<1>1. turn = "verify" /\ todo = {} /\ Finish(TRUE, FALSE)
  BY DEF AllVerified
<1>2. Verifiable /\ \A f \in ToVerify : Good(f)
  BY <1>1 DEF VerificationInvariant, VerifiedSoFar
<1>3. QED
  BY <1>1, <1>2, FinishIsSafe

LEMMA DiscoveryIsSafe ==
  VerificationInvariant /\ OnCpuDiscoveryDone => VerificationInvariant'
<1> SUFFICES ASSUME VerificationInvariant, OnCpuDiscoveryDone
             PROVE  VerificationInvariant'
  OBVIOUS
<1> USE DEF VerificationInvariant
<1>1. /\ turn = "discover" /\ turn' = "over" /\ answers' = answers + 1
      /\ UNCHANGED <<disk, todo, current, pos, verdict, faults>>
  BY DEF OnCpuDiscoveryDone, Answer
<1>2. TypeOK' /\ ToldAtTheEnd' /\ ReadsInItsTurn'
  BY <1>1 DEF TypeOK, ToldAtTheEnd, ReadsInItsTurn, disk, ToVerify, Regular
<1>3. VerifiedSoFar' /\ OkIsGood' /\ FailedIsBad'
  BY <1>1, DiskStays DEF VerifiedSoFar, OkIsGood, FailedIsBad
<1>4. QED
  BY <1>2, <1>3

LEMMA StutterIsSafe ==
  VerificationInvariant /\ UNCHANGED vars => VerificationInvariant'
<1> SUFFICES ASSUME VerificationInvariant, UNCHANGED vars
             PROVE  VerificationInvariant'
  OBVIOUS
<1> USE DEF VerificationInvariant
<1>1. UNCHANGED disk
  BY DEF vars
<1>2. TypeOK' /\ ToldAtTheEnd' /\ ReadsInItsTurn'
  BY DEF TypeOK, ToldAtTheEnd, ReadsInItsTurn, vars, disk, session, result,
         ToVerify, Regular
<1>3. VerifiedSoFar' /\ OkIsGood' /\ FailedIsBad'
  BY <1>1, DiskStays DEF VerifiedSoFar, OkIsGood, FailedIsBad, vars, session
<1>4. QED
  BY <1>2, <1>3

-----------------------------------------------------------------------------
(* The theorems *)

\* The invariant holds at every turn of the session.
THEOREM VerificationIsSafe == Spec => []VerificationInvariant
<1>1. VerificationInvariant /\ [Next]_vars => VerificationInvariant'
  BY EnumerateIsSafe, EnumerateFailsIsSafe, OpenFileIsSafe, OpenFailsIsSafe,
     PumpMoreIsSafe, PumpLastIsSafe, AllVerifiedIsSafe, DiscoveryIsSafe,
     StutterIsSafe
     DEF Next, Step
<1>2. QED
  BY InitiallyUnverified, <1>1, PTL DEF Spec

\* Every variable of Collateral has its type.
THEOREM CollateralTypeCorrect == Spec => []TypeOK
  BY VerificationIsSafe, PTL DEF VerificationInvariant

\* SignatureVerifySession says yes only to what is signed and within the
\* verified set, and no only to what is not, or after a failure: for every
\* directory, with chains and loops of links of every length.
THEOREM VerdictIsGenuine == Spec => []VerdictIsReference
<1>1. VerificationInvariant => VerdictIsReference
  <2> SUFFICES ASSUME VerificationInvariant PROVE VerdictIsReference
    OBVIOUS
  <2>1. entries \in [Names -> Entry]
    BY DEF VerificationInvariant, TypeOK
  <2>2. binary # "missing" =>
            (LinksWithinVerifiedSet <=> LinksLeadOn /\ NoLinksAmongThemselves)
    BY <2>1, CanonicalDecides
  <2>3. (\A f \in ToVerify : Good(f)) <=>
            /\ key = "good" /\ binary = "good"
            /\ \A n \in Regular : entries[n].sig = "good"
    BY <2>1, LinksAreNames DEF ToVerify, Good, Signature
  <2>4. Genuine <=> Verifiable /\ \A f \in ToVerify : Good(f)
    BY <2>2, <2>3
       DEF Genuine, Verifiable, Collectable, LinksLeadOn, NoLinksAmongThemselves
  <2>5. QED
    BY <2>4 DEF VerificationInvariant, OkIsGood, FailedIsBad, VerdictIsReference
<1>2. QED
  BY <1>1, VerificationIsSafe, PTL

\* Each turn of the verification or the discovery is a step of OneShot: the run
\* is told once, when nothing of either is left.
THEOREM RunIsToldOnce == Spec => Promise!Init /\ [][Promise!Next]_(Promise!vars)
<1>1. Init => Promise!Init
  BY DEF Init, Promise!Init
<1>2. VerificationInvariant /\ VerificationInvariant' /\ [Next]_vars
        => [Promise!Next]_(Promise!vars)
  <2> SUFFICES ASSUME VerificationInvariant, VerificationInvariant', [Next]_vars
               PROVE  [Promise!Next]_(Promise!vars)
    OBVIOUS
  <2>1. /\ answers = IF turn = "over" THEN 1 ELSE 0
        /\ answers' = IF turn' = "over" THEN 1 ELSE 0
    BY DEF VerificationInvariant, ToldAtTheEnd
  <2>2. turn = "over" => turn' = "over"
    <3> SUFFICES ASSUME turn = "over" PROVE turn' = "over"
      OBVIOUS
    <3>1. current = NoFile
      BY DEF VerificationInvariant, ReadsInItsTurn
    <3>2. UNCHANGED vars
      BY <3>1 DEF Next, Step, Enumerate, EnumerateFails, OpenFile, OpenFails,
                  Opens, PumpMore, PumpLast, AllVerified, OnCpuDiscoveryDone
    <3>3. QED
      BY <3>2 DEF vars, session
  <2>3. CASE turn' = "over" /\ turn # "over"
    BY <2>1, <2>3 DEF Promise!Next, Promise!Answer
  <2>4. CASE turn' # "over"
    BY <2>1, <2>2, <2>4 DEF Promise!Next, Promise!Work
  <2>5. CASE turn = "over"
    BY <2>1, <2>2, <2>5 DEF Promise!vars
  <2>6. QED
    BY <2>3, <2>4, <2>5
<1>3. QED
  BY <1>1, <1>2, VerificationIsSafe, PTL DEF Spec

-----------------------------------------------------------------------------
(* std::sort *)

LEMMA LeastOf ==
  ASSUME NEW S \in SUBSET Nat, S # {}
  PROVE  \E m \in S : \A y \in S : m <= y
<1>1. \E x \in S : \A y \in S : <<y, x>> \notin OpToRel(<, Nat)
  BY NatLessThanWellFounded, WFMin
<1>2. PICK x \in S : \A y \in S : <<y, x>> \notin OpToRel(<, Nat)
  BY <1>1
<1>3. ASSUME NEW y \in S PROVE x <= y
  <2>1. x \in Nat /\ y \in Nat
    OBVIOUS
  <2>2. ~(y < x)
    BY <1>2, <2>1 DEF OpToRel
  <2>3. QED
    BY <2>1, <2>2
<1>4. QED
  BY <1>3

LEMMA GreatestOf ==
  ASSUME NEW S \in SUBSET Nat, S # {}, NEW n \in Nat, \A y \in S : y <= n
  PROVE  \E m \in S : \A y \in S : y <= m
<1> DEFINE T == {n - y : y \in S}
<1>1. T \in SUBSET Nat /\ T # {}
  <2>1. \A y \in S : n - y \in Nat
    OBVIOUS
  <2>2. QED
    BY <2>1
<1>2. PICK t \in T : \A u \in T : t <= u
  <2> HIDE DEF T
  <2>1. QED
    BY <1>1, LeastOf
<1>3. PICK m \in S : t = n - m
  OBVIOUS
<1>4. ASSUME NEW y \in S PROVE y <= m
  <2>1. n - y \in T
    OBVIOUS
  <2>2. t <= n - y
    BY <1>2, <2>1
  <2>3. QED
    BY <1>3, <2>2
<1>5. QED
  BY <1>4

Less(seq, id) == {i \in DOMAIN seq : seq[i] < id}
UpTo(seq, id) == {i \in DOMAIN seq : seq[i] <= id}

IsKth(seq, k, id) ==
    Cardinality(Less(seq, id)) < k /\ k <= Cardinality(UpTo(seq, id))

LEMMA OneTo ==
  ASSUME NEW n \in Nat
  PROVE  IsFiniteSet(1 .. n) /\ Cardinality(1 .. n) = n
<1>1. /\ IsFiniteSet(1 .. n)
      /\ Cardinality(1 .. n) = IF 1 > n THEN 0 ELSE n - 1 + 1
  BY FS_Interval
<1>2. QED
  BY <1>1

LEMMA CountsAreNumbers ==
  ASSUME NEW seq \in Seq(Nat), NEW S \in SUBSET DOMAIN seq
  PROVE  /\ IsFiniteSet(S) /\ Cardinality(S) \in 0 .. Len(seq)
         /\ \A T \in SUBSET S : Cardinality(T) <= Cardinality(S)
<1>1. DOMAIN seq = 1 .. Len(seq) /\ Len(seq) \in Nat
  OBVIOUS
<1>2. IsFiniteSet(1 .. Len(seq)) /\ Cardinality(1 .. Len(seq)) = Len(seq)
  BY <1>1, OneTo
<1>3. IsFiniteSet(S) /\ Cardinality(S) <= Len(seq)
  BY <1>1, <1>2, FS_Subset
<1>4. QED
  BY <1>1, <1>3, FS_CardinalityType, FS_Subset

\* There is a k-th element, and only one.
LEMMA KthExists ==
  ASSUME NEW seq \in Seq(Nat), NEW k \in 1 .. Len(seq)
  PROVE  \E id \in Range(seq) : IsKth(seq, k, id)
<1> DEFINE S == {id \in Range(seq) : k <= Cardinality(UpTo(seq, id))}
<1>1. /\ Range(seq) \subseteq Nat /\ \A i \in DOMAIN seq : seq[i] \in Range(seq)
      /\ DOMAIN seq = 1 .. Len(seq) /\ Len(seq) \in Nat
  BY DEF Range
<1>2. S # {}
  <2>1. \E id \in Range(seq) : \A i \in DOMAIN seq : seq[i] <= id
    <3> DEFINE N == {n \in Nat :
                        n <= Len(seq) => \E b \in Nat : \A i \in 1 .. n : seq[i] <= b}
    <3>1. 0 \in N
      OBVIOUS
    <3>2. ASSUME NEW n \in N PROVE n + 1 \in N
      <4>1. SUFFICES ASSUME n + 1 <= Len(seq)
                     PROVE  \E b \in Nat : \A i \in 1 .. n + 1 : seq[i] <= b
        OBVIOUS
      <4>2. PICK b \in Nat : \A i \in 1 .. n : seq[i] <= b
        BY <1>1, <4>1
      <4>3. seq[n + 1] \in Nat
        BY <1>1, <4>1
      <4>4. CASE seq[n + 1] <= b
        <5>1. \A i \in 1 .. n + 1 : i \in 1 .. n \/ i = n + 1
          OBVIOUS
        <5>2. \A i \in 1 .. n + 1 : seq[i] <= b
          BY <4>2, <4>4, <5>1
        <5>3. QED
          BY <5>2
      <4>5. CASE seq[n + 1] > b
        <5>1. \A i \in 1 .. n : seq[i] \in Nat
          BY <1>1, <4>1
        <5>2. \A i \in 1 .. n : seq[i] <= seq[n + 1]
          BY <4>2, <4>3, <4>5, <5>1
        <5>3. \A i \in 1 .. n + 1 : i \in 1 .. n \/ i = n + 1
          OBVIOUS
        <5>4. \A i \in 1 .. n + 1 : seq[i] <= seq[n + 1]
          BY <4>3, <5>2, <5>3
        <5>5. QED
          BY <4>3, <5>4
      <4>6. seq[n + 1] <= b \/ seq[n + 1] > b
        BY <4>2, <4>3
      <4>7. QED
        BY <4>4, <4>5, <4>6
    <3>3. N = Nat
      <4> HIDE DEF N
      <4>1. N \in SUBSET Nat
        BY DEF N
      <4>2. QED
        BY <3>1, <3>2, <4>1, NatSetInduction
    <3>4. PICK b \in Nat : \A i \in 1 .. Len(seq) : seq[i] <= b
      <4>1. \A n \in Nat : n \in N
        BY <3>3
      <4>2. Len(seq) <= Len(seq) /\ Len(seq) \in N
        <5> HIDE DEF N
        <5>1. QED
          BY <1>1, <4>1
      <4>3. QED
        BY <4>2
    <3>5. Range(seq) # {} /\ \A y \in Range(seq) : y <= b
      BY <1>1, <3>4 DEF Range
    <3>6. PICK m \in Range(seq) : \A y \in Range(seq) : y <= m
      BY <1>1, <3>5, GreatestOf
    <3>7. QED
      BY <1>1, <3>6
  <2>2. PICK id \in Range(seq) : \A i \in DOMAIN seq : seq[i] <= id
    BY <2>1
  <2>3. UpTo(seq, id) = 1 .. Len(seq)
    BY <1>1, <2>2 DEF UpTo
  <2>4. Cardinality(UpTo(seq, id)) = Len(seq)
    BY <1>1, <2>3, OneTo
  <2>5. QED
    BY <1>1, <2>4
<1>3. PICK id \in S : \A y \in S : id <= y
  <2>1. S \in SUBSET Nat
    BY <1>1
  <2> HIDE DEF S
  <2>2. QED
    BY <1>2, <2>1, LeastOf
<1>4. id \in Range(seq) /\ id \in Nat /\ k <= Cardinality(UpTo(seq, id))
  BY <1>1
<1>5. Cardinality(Less(seq, id)) < k
  <2>1. SUFFICES ASSUME ~(Cardinality(Less(seq, id)) < k) PROVE FALSE
    OBVIOUS
  <2>2. Less(seq, id) \in SUBSET DOMAIN seq
    BY DEF Less
  <2>3. Cardinality(Less(seq, id)) \in Nat
    BY <2>2, CountsAreNumbers, <1>1
  <2>4. Cardinality(Less(seq, id)) >= k /\ Cardinality(Less(seq, id)) # 0
    BY <1>1, <2>1, <2>3
  <2>5. Less(seq, id) # {}
    BY <2>4, FS_EmptySet
  <2> DEFINE W == {seq[i] : i \in Less(seq, id)}
  <2>6. W \in SUBSET Nat /\ W # {} /\ \A y \in W : y <= id
    <3>1. \A i \in Less(seq, id) : seq[i] \in Nat /\ seq[i] <= id
      BY <1>1, <1>4 DEF Less
    <3>2. QED
      BY <2>5, <3>1
  <2>7. PICK w \in W : \A y \in W : y <= w
    <3> HIDE DEF W
    <3>1. QED
      BY <1>4, <2>6, GreatestOf
  <2>8. w \in Range(seq) /\ w \in Nat /\ w < id
    BY <1>1 DEF Less
  <2>9. UpTo(seq, w) = Less(seq, id)
    <3>1. ASSUME NEW i \in DOMAIN seq PROVE seq[i] <= w <=> seq[i] < id
      <4>1. seq[i] \in Nat
        BY <1>1
      <4>2. seq[i] < id => seq[i] \in W
        BY DEF Less
      <4>3. QED
        BY <1>4, <2>7, <2>8, <4>1, <4>2
    <3>2. QED
      BY <3>1 DEF UpTo, Less
  <2>10. w \in S
    BY <2>4, <2>8, <2>9
  <2>11. QED
    BY <1>3, <1>4, <2>8, <2>10
<1>6. QED
  BY <1>4, <1>5 DEF IsKth

LEMMA KthIsOrdered ==
  ASSUME NEW seq \in Seq(Nat), NEW i \in 1 .. Len(seq), NEW k \in 1 .. Len(seq),
         i <= k, NEW a \in Range(seq), NEW b \in Range(seq),
         IsKth(seq, i, a), IsKth(seq, k, b)
  PROVE  a <= b
<1>1. a \in Nat /\ b \in Nat /\ \A j \in DOMAIN seq : seq[j] \in Nat
  BY DEF Range
<1>2. SUFFICES ASSUME b < a PROVE FALSE
  BY <1>1
<1>3. UpTo(seq, b) \subseteq Less(seq, a) /\ Less(seq, a) \in SUBSET DOMAIN seq
  BY <1>1, <1>2 DEF UpTo, Less
<1>4. /\ Cardinality(UpTo(seq, b)) <= Cardinality(Less(seq, a))
      /\ Cardinality(Less(seq, a)) \in Int /\ Cardinality(UpTo(seq, b)) \in Int
  BY <1>3, CountsAreNumbers
<1>5. QED
  BY <1>4 DEF IsKth

\* Every element is the k-th for some k.
LEMMA EveryElementIsKth ==
  ASSUME NEW seq \in Seq(Nat), NEW j \in 1 .. Len(seq)
  PROVE  \E k \in 1 .. Len(seq) : IsKth(seq, k, seq[j])
<1> DEFINE n == Cardinality(Less(seq, seq[j]))
<1>1. /\ seq[j] \in Nat /\ \A i \in DOMAIN seq : seq[i] \in Nat
      /\ DOMAIN seq = 1 .. Len(seq) /\ Len(seq) \in Nat
  OBVIOUS
<1>2. /\ Less(seq, seq[j]) \cup {j} \in SUBSET UpTo(seq, seq[j])
      /\ UpTo(seq, seq[j]) \in SUBSET DOMAIN seq
      /\ Less(seq, seq[j]) \in SUBSET DOMAIN seq /\ j \notin Less(seq, seq[j])
  BY <1>1 DEF Less, UpTo
<1>3. n \in Nat /\ Cardinality(Less(seq, seq[j]) \cup {j}) = n + 1
  BY <1>1, <1>2, CountsAreNumbers, FS_AddElement
<1>4. /\ n + 1 <= Cardinality(UpTo(seq, seq[j]))
      /\ Cardinality(UpTo(seq, seq[j])) \in 0 .. Len(seq)
  BY <1>2, <1>3, CountsAreNumbers
<1>5. n + 1 \in 1 .. Len(seq) /\ IsKth(seq, n + 1, seq[j])
  BY <1>1, <1>3, <1>4 DEF IsKth
<1>6. QED
  BY <1>5

LEMMA SortedIsSorted ==
  ASSUME NEW seq \in Seq(Nat)
  PROVE  /\ Sorted(seq) \in Seq(Nat) /\ Len(Sorted(seq)) = Len(seq)
         /\ Range(Sorted(seq)) = Range(seq)
         /\ \A i, k \in 1 .. Len(seq) : i <= k => Sorted(seq)[i] <= Sorted(seq)[k]
<1> DEFINE kth(k) == CHOOSE id \in Range(seq) : IsKth(seq, k, id)
<1>1. Sorted(seq) = [k \in DOMAIN seq |-> kth(k)]
  BY DEF Sorted, IsKth, Less, UpTo
<1>2. \A k \in 1 .. Len(seq) : kth(k) \in Range(seq) /\ IsKth(seq, k, kth(k))
  BY KthExists
<1> HIDE DEF kth
<1>3. DOMAIN seq = 1 .. Len(seq) /\ Range(seq) \subseteq Nat /\ Len(seq) \in Nat
  BY DEF Range
<1>4. Sorted(seq) \in Seq(Nat) /\ Len(Sorted(seq)) = Len(seq)
  BY <1>1, <1>2, <1>3
<1>5. \A i, k \in 1 .. Len(seq) : i <= k => Sorted(seq)[i] <= Sorted(seq)[k]
  BY <1>1, <1>2, <1>3, KthIsOrdered
<1>6. Range(Sorted(seq)) \subseteq Range(seq)
  BY <1>1, <1>2, <1>3 DEF Range
<1>7. ASSUME NEW j \in 1 .. Len(seq) PROVE seq[j] \in Range(Sorted(seq))
  <2>1. PICK k \in 1 .. Len(seq) : IsKth(seq, k, seq[j])
    BY EveryElementIsKth
  <2>2. seq[j] \in Range(seq) /\ k <= k
    BY <1>3, <2>1 DEF Range
  <2>3. seq[j] <= kth(k) /\ kth(k) <= seq[j]
    BY <1>2, <2>1, <2>2, KthIsOrdered
  <2>4. kth(k) = seq[j]
    BY <1>2, <1>3, <2>2, <2>3
  <2>5. QED
    BY <1>1, <1>3, <2>4 DEF Range
<1>8. QED
  BY <1>3, <1>4, <1>5, <1>6, <1>7 DEF Range

-----------------------------------------------------------------------------
(* std::unique *)

LEMMA MaxOfInterval ==
  ASSUME NEW n \in Nat, n > 0 PROVE Max(1 .. n) = n
<1>1. n \in 1 .. n /\ \A y \in 1 .. n : n >= y
  OBVIOUS
<1>2. \A m \in 1 .. n : (\A y \in 1 .. n : m >= y) => m = n
  BY <1>1
<1>3. QED
  BY <1>1, <1>2 DEF Max

LEMMA MaxIsIn ==
  ASSUME NEW n \in Nat, NEW S \in SUBSET (1 .. n), S # {}
  PROVE  Max(S) \in S
<1>1. \E m \in S : \A y \in S : y <= m
  <2>1. S \in SUBSET Nat /\ \A y \in S : y <= n
    OBVIOUS
  <2>2. QED
    BY <2>1, GreatestOf
<1>2. \E m \in S : \A y \in S : m >= y
  BY <1>1
<1>3. QED
  BY <1>2 DEF Max

Folds(Op, base, n, A) == base \in A /\ Op \in [A \X (1 .. n) -> A]

\* A fold over the subsets of 1 .. n, greatest element last.
IsFold(h, Op, base, n, A) ==
    /\ h \in [SUBSET (1 .. n) -> A] /\ h[{}] = base
    /\ \A s \in SUBSET (1 .. n) :
           s # {} => h[s] = Op[<<h[s \ {Max(s)}], Max(s)>>]

LEMMA FoldExists ==
  ASSUME NEW n \in Nat, NEW A, NEW base, NEW Op, Folds(Op, base, n, A)
  PROVE  \E h : IsFold(h, Op, base, n, A)
<1> DEFINE D == SUBSET (1 .. n)
           T == [D -> A]
           Turn(G, s) == IF s = {} THEN base ELSE Op[<<G[s \ {Max(s)}], Max(s)>>]
           F == [G \in T |-> [s \in D |-> Turn(G, s)]]
           start == [s \in D |-> base]
<1>1. \A s \in D : s # {} => Max(s) \in 1 .. n /\ Max(s) \in s /\ s \ {Max(s)} \in D
  BY MaxIsIn
<1>2. F \in [T -> T]
  <2>1. ASSUME NEW G \in T, NEW s \in D PROVE Turn(G, s) \in A
    <3>1. CASE s = {}
      BY <3>1 DEF Folds
    <3>2. CASE s # {}
      <4>1. G[s \ {Max(s)}] \in A
        BY <1>1, <3>2
      <4>2. QED
        BY <1>1, <3>2, <4>1 DEF Folds
    <3>3. QED
      BY <3>1, <3>2
  <2> HIDE DEF Turn, D
  <2>2. QED
    BY <2>1
<1>3. start \in T
  BY DEF Folds
<1>4. Iterated(T, start, F)
  <2> HIDE DEF T, F, start
  <2>1. QED
    BY <1>2, <1>3, Iteration, Zenon
<1>5. PICK g \in [Nat -> T] : g[0] = start /\ \A k \in Nat : g[k + 1] = F[g[k]]
  BY <1>4 DEF Iterated
<1>6. \A s \in D : IsFiniteSet(s) /\ Cardinality(s) \in Nat
  BY OneTo, FS_Subset, FS_CardinalityType
<1> DEFINE h == [s \in D |-> g[Cardinality(s)][s]]
<1>7. h \in [D -> A]
  BY <1>6
<1>8. h[{}] = base
  <2>1. h[{}] = g[0][{}]
    BY FS_EmptySet
  <2>2. QED
    BY <1>5, <2>1
<1>9. ASSUME NEW s \in D, s # {} PROVE h[s] = Op[<<h[s \ {Max(s)}], Max(s)>>]
  <2> DEFINE r == s \ {Max(s)}
             c == Cardinality(r)
  <2>1. c \in Nat /\ Cardinality(s) = c + 1 /\ r \in D
    <3>1. c = Cardinality(s) - 1 /\ r \in D
      BY <1>1, <1>6, <1>9, FS_RemoveElement
    <3>2. c \in Nat
      BY <1>6, <3>1
    <3>3. QED
      BY <1>6, <3>1, <3>2
  <2>2. g[c] \in T /\ g[c + 1] = F[g[c]]
    BY <1>5, <2>1
  <2>3. g[c + 1][s] = Turn(g[c], s)
    <3> HIDE DEF Turn, c, D
    <3>1. QED
      BY <2>2
  <2>4. g[c + 1][s] = Op[<<g[c][r], Max(s)>>]
    BY <1>9, <2>3
  <2> HIDE DEF r, c
  <2>5. h[s] = g[c + 1][s] /\ h[r] = g[c][r]
    <3>1. c = Cardinality(r)
      BY DEF c
    <3>2. QED
      BY <2>1, <3>1
  <2>6. QED
    BY <2>4, <2>5 DEF r
<1>10. QED
  BY <1>7, <1>8, <1>9 DEF IsFold

Kept(acc, id) == IF acc # <<>> /\ Last(acc) = id THEN acc ELSE Append(acc, id)

\* Unique, element by element.
LEMMA UniqueByElement ==
  ASSUME NEW seq \in Seq(Nat)
  PROVE  \E u \in [0 .. Len(seq) -> Seq(Nat)] :
             /\ u[0] = <<>> /\ Unique(seq) = u[Len(seq)]
             /\ \A k \in 1 .. Len(seq) : u[k] = Kept(u[k - 1], seq[k])
<1> DEFINE n == Len(seq)
           A == Seq(Nat)
           D == SUBSET (1 .. n)
           Op == [p \in A \X (1 .. n) |-> Kept(p[1], seq[p[2]])]
<1>1. n \in Nat /\ DOMAIN seq = 1 .. n /\ \A i \in 1 .. n : seq[i] \in Nat
  OBVIOUS
<1>2. Op \in [A \X (1 .. n) -> A]
  <2>1. \A acc \in A, i \in 1 .. n : Kept(acc, seq[i]) \in A
    BY <1>1 DEF Kept
  <2>2. QED
    BY <2>1
<1>3. PICK h : IsFold(h, Op, <<>>, n, A)
  <2>1. Folds(Op, <<>>, n, A)
    BY <1>2 DEF Folds
  <2> HIDE DEF A, Op, n
  <2>2. QED
    BY <1>1, <2>1, FoldExists
<1>4. \A s \in D : s # {} =>
          /\ Max(s) \in 1 .. n /\ s \ {Max(s)} \in D
          /\ h[s] = Kept(h[s \ {Max(s)}], seq[Max(s)])
  <2>1. ASSUME NEW s \in D, s # {}
        PROVE  /\ Max(s) \in 1 .. n /\ s \ {Max(s)} \in D
               /\ h[s] = Kept(h[s \ {Max(s)}], seq[Max(s)])
    <3>1. Max(s) \in 1 .. n /\ s \ {Max(s)} \in D
      BY <1>1, <2>1, MaxIsIn
    <3>2. <<h[s \ {Max(s)}], Max(s)>> \in A \X (1 .. n)
      BY <1>3, <3>1 DEF IsFold
    <3>3. QED
      BY <1>3, <2>1, <3>1, <3>2 DEF IsFold
  <2>2. QED
    BY <2>1
<1> DEFINE iter[s \in SUBSET (DOMAIN seq)] ==
               IF s = {} THEN <<>>
               ELSE IF iter[s \ {Max(s)}] # <<>>
                       /\ Last(iter[s \ {Max(s)}]) = seq[Max(s)]
                    THEN iter[s \ {Max(s)}]
                    ELSE Append(iter[s \ {Max(s)}], seq[Max(s)])
<1>5. Unique(seq) = iter[DOMAIN seq]
  BY Zenon DEF Unique, FoldLeft, MapThenFoldSet
<1>6. h = [s \in SUBSET (DOMAIN seq) |->
               IF s = {} THEN <<>>
               ELSE IF h[s \ {Max(s)}] # <<>>
                       /\ Last(h[s \ {Max(s)}]) = seq[Max(s)]
                    THEN h[s \ {Max(s)}]
                    ELSE Append(h[s \ {Max(s)}], seq[Max(s)])]
  BY <1>1, <1>3, <1>4 DEF IsFold, Kept
<1>7. iter = [s \in SUBSET (DOMAIN seq) |->
               IF s = {} THEN <<>>
               ELSE IF iter[s \ {Max(s)}] # <<>>
                       /\ Last(iter[s \ {Max(s)}]) = seq[Max(s)]
                    THEN iter[s \ {Max(s)}]
                    ELSE Append(iter[s \ {Max(s)}], seq[Max(s)])]
  BY <1>6, Zenon
<1> HIDE DEF iter
<1>8. \A k \in 1 .. n : /\ 1 .. k \in D /\ 1 .. k # {} /\ Max(1 .. k) = k
                      /\ (1 .. k) \ {Max(1 .. k)} = 1 .. k - 1 /\ 1 .. k - 1 \in D
  <2>1. ASSUME NEW k \in 1 .. n
        PROVE  /\ 1 .. k \in D /\ 1 .. k # {} /\ Max(1 .. k) = k
               /\ (1 .. k) \ {Max(1 .. k)} = 1 .. k - 1 /\ 1 .. k - 1 \in D
    <3>1. Max(1 .. k) = k
      BY <1>1, MaxOfInterval
    <3>2. 1 .. k # {} /\ (1 .. k) \ {k} = 1 .. k - 1
      <4>1. k \in Nat /\ k \in 1 .. k
        BY <1>1
      <4>2. \A i : i \in (1 .. k) \ {k} <=> i \in 1 .. k - 1
        BY <4>1
      <4>3. QED
        BY <4>1, <4>2
    <3>3. 1 .. k \in D /\ 1 .. k - 1 \in D
      BY <1>1
    <3>4. QED
      BY <3>1, <3>2, <3>3
  <2>2. QED
    BY <2>1
<1>9. iter[1 .. 0] = <<>> /\ \A k \in 1 .. n : iter[1 .. k] = Kept(iter[1 .. k - 1], seq[k])
  <2>1. 1 .. 0 = {} /\ 1 .. 0 \in D
    OBVIOUS
  <2>2. iter[1 .. 0] = <<>>
    BY <1>1, <1>7, <2>1
  <2>3. ASSUME NEW k \in 1 .. n PROVE iter[1 .. k] = Kept(iter[1 .. k - 1], seq[k])
    <3> DEFINE s == 1 .. k
    <3>1. /\ s \in SUBSET (DOMAIN seq) /\ s # {} /\ Max(s) = k
          /\ s \ {Max(s)} = 1 .. k - 1
      BY <1>1, <1>8
    <3> HIDE DEF s
    <3>2. iter[s] = Kept(iter[s \ {Max(s)}], seq[Max(s)])
      BY <1>7, <3>1 DEF Kept
    <3>3. QED
      BY <3>1, <3>2 DEF s
  <2>4. QED
    BY <2>2, <2>3
<1> DEFINE u == [k \in 0 .. n |-> iter[1 .. k]]
<1>10. \A k \in Nat : k <= n => iter[1 .. k] \in A
  <2> DEFINE N == {k \in Nat : k <= n => iter[1 .. k] \in A}
  <2>1. 0 \in N
    <3>1. iter[1 .. 0] \in A
      BY <1>9
    <3>2. QED
      BY <3>1
  <2>2. ASSUME NEW k \in N PROVE k + 1 \in N
    <3>1. SUFFICES ASSUME k + 1 <= n PROVE iter[1 .. k + 1] \in A
      OBVIOUS
    <3>2. k + 1 \in 1 .. n /\ (k + 1) - 1 = k /\ iter[1 .. k] \in A
      BY <1>1, <3>1
    <3>3. iter[1 .. k + 1] = Kept(iter[1 .. k], seq[k + 1])
      BY <1>9, <3>2
    <3>4. QED
      BY <1>1, <3>2, <3>3 DEF Kept
  <2>3. N = Nat
    <3> HIDE DEF N
    <3>1. N \in SUBSET Nat
      BY DEF N
    <3>2. QED
      BY <2>1, <2>2, <3>1, NatSetInduction
  <2>4. QED
    BY <2>3
<1>11. u \in [0 .. n -> A]
  BY <1>1, <1>10
<1>12. u[0] = <<>> /\ Unique(seq) = u[n]
  BY <1>1, <1>5, <1>9
<1>13. \A k \in 1 .. n : u[k] = Kept(u[k - 1], seq[k])
  BY <1>1, <1>9
<1>14. QED
  BY <1>11, <1>12, <1>13

Ascends(seq) == \A i, k \in DOMAIN seq : i <= k => seq[i] <= seq[k]
Climbs(seq) == \A i, k \in DOMAIN seq : i < k => seq[i] < seq[k]

\* What Unique keeps of the first k elements of seq.
KeepsOnce(acc, seq, k) ==
    /\ acc \in Seq(Nat) /\ Climbs(acc)
    /\ \A i \in 1 .. Len(acc) : \E m \in 1 .. k : acc[i] = seq[m]
    /\ \A m \in 1 .. k : \E i \in 1 .. Len(acc) : acc[i] = seq[m]
    /\ k > 0 => Len(acc) > 0 /\ acc[Len(acc)] = seq[k]

LEMMA KeptKeepsOnce ==
  ASSUME NEW seq \in Seq(Nat), Ascends(seq), NEW k \in Nat, k + 1 \in 1 .. Len(seq),
         NEW acc, KeepsOnce(acc, seq, k)
  PROVE  KeepsOnce(Kept(acc, seq[k + 1]), seq, k + 1)
<1> DEFINE id == seq[k + 1]
           l == Len(acc)
<1>1. /\ acc \in Seq(Nat) /\ l \in Nat /\ id \in Nat
      /\ \A i \in 1 .. l : acc[i] \in Nat /\ \E m \in 1 .. k : acc[i] = seq[m]
      /\ \A m \in 1 .. k : \E i \in 1 .. l : acc[i] = seq[m]
      /\ \A i, j \in 1 .. l : i < j => acc[i] < acc[j]
      /\ DOMAIN acc = 1 .. l
  <2>1. acc \in Seq(Nat) /\ l \in Nat /\ DOMAIN acc = 1 .. l /\ id \in Nat
    BY DEF KeepsOnce
  <2>2. \A i \in 1 .. l : acc[i] \in Nat
    BY <2>1
  <2>3. \A i, j \in 1 .. l : i < j => acc[i] < acc[j]
    BY <2>1 DEF KeepsOnce, Climbs
  <2> HIDE DEF id
  <2>4. QED
    BY <2>1, <2>2, <2>3 DEF KeepsOnce
<1>2. \A m \in 1 .. k : seq[m] <= id /\ seq[m] \in Nat
  BY DEF Ascends
<1>3. \A m \in 1 .. k + 1 : m \in 1 .. k \/ m = k + 1
  OBVIOUS
<1>4. CASE acc # <<>> /\ Last(acc) = id
  <2>1. l > 0 /\ acc[l] = id /\ Kept(acc, id) = acc
    BY <1>1, <1>4 DEF Kept, Last
  <2>2. \A i \in 1 .. l : \E m \in 1 .. k + 1 : acc[i] = seq[m]
    BY <1>1
  <2>3. \A m \in 1 .. k + 1 : \E i \in 1 .. l : acc[i] = seq[m]
    <3>1. l \in 1 .. l
      BY <1>1, <2>1
    <3>2. QED
      BY <1>1, <1>3, <2>1, <3>1
  <2>4. Climbs(acc)
    BY DEF KeepsOnce
  <2>5. QED
    BY <1>1, <2>1, <2>2, <2>3, <2>4 DEF KeepsOnce
<1>5. CASE ~(acc # <<>> /\ Last(acc) = id)
  <2> DEFINE new == Append(acc, id)
  <2>1. /\ Kept(acc, id) = new /\ new \in Seq(Nat) /\ Len(new) = l + 1
        /\ new[l + 1] = id /\ \A i \in 1 .. l : new[i] = acc[i]
        /\ DOMAIN new = 1 .. l + 1
    BY <1>1, <1>5 DEF Kept
  <2>2. \A i \in 1 .. l + 1 : i \in 1 .. l \/ i = l + 1
    BY <1>1
  <2>3. \A i \in 1 .. l : acc[i] < id
    <3>1. CASE l = 0
      BY <3>1
    <3>2. CASE l > 0
      <4>1. acc[l] # id /\ acc[l] <= id /\ acc[l] \in Nat
        <5>1. l \in 1 .. l
          BY <1>1, <3>2
        <5>2. acc # <<>> /\ Last(acc) = acc[l]
          BY <1>1, <3>2 DEF Last
        <5>3. QED
          BY <1>1, <1>2, <1>5, <5>1, <5>2
      <4>2. ASSUME NEW i \in 1 .. l PROVE acc[i] < id
        <5>1. l \in 1 .. l /\ (i < l \/ i = l)
          <6>1. l \in Nat
            BY <1>1
          <6> HIDE DEF l
          <6>2. QED
            BY <3>2, <6>1
        <5>2. i < l => acc[i] < acc[l]
          BY <1>1, <5>1
        <5>3. acc[i] \in Nat /\ id \in Nat /\ acc[l] \in Nat
          BY <1>1, <5>1
        <5> HIDE DEF l, id
        <5>4. QED
          BY <4>1, <5>1, <5>2, <5>3
      <4>3. QED
        BY <4>2
    <3>3. QED
      <4>1. l \in Nat
        BY <1>1
      <4>2. l = 0 \/ l > 0
        BY <4>1
      <4>3. QED
        BY <3>1, <3>2, <4>2
  <2> HIDE DEF new, l, id
  <2>4. Climbs(new)
    <3>1. ASSUME NEW i \in 1 .. l + 1, NEW j \in 1 .. l + 1, i < j
          PROVE  new[i] < new[j]
      <4>1. i \in 1 .. l
        BY <1>1, <3>1
      <4>2. QED
        BY <1>1, <2>1, <2>2, <2>3, <3>1, <4>1
    <3>2. QED
      BY <2>1, <3>1 DEF Climbs
  <2>5. \A i \in 1 .. l + 1 : \E m \in 1 .. k + 1 : new[i] = seq[m]
    <3>1. ASSUME NEW i \in 1 .. l PROVE \E m \in 1 .. k + 1 : new[i] = seq[m]
      <4>1. PICK m \in 1 .. k : acc[i] = seq[m]
        BY <1>1
      <4>2. m \in 1 .. k + 1
        OBVIOUS
      <4>3. QED
        BY <2>1, <4>1, <4>2
    <3>2. k + 1 \in 1 .. k + 1 /\ new[l + 1] = seq[k + 1]
      BY <2>1 DEF id
    <3>3. QED
      BY <2>2, <3>1, <3>2
  <2>6. \A m \in 1 .. k + 1 : \E i \in 1 .. l + 1 : new[i] = seq[m]
    <3>1. ASSUME NEW m \in 1 .. k PROVE \E i \in 1 .. l + 1 : new[i] = seq[m]
      <4>1. PICK i \in 1 .. l : acc[i] = seq[m]
        BY <1>1
      <4>2. i \in 1 .. l + 1
        BY <1>1
      <4>3. QED
        BY <2>1, <4>1, <4>2
    <3>2. l + 1 \in 1 .. l + 1 /\ new[l + 1] = seq[k + 1]
      BY <1>1, <2>1 DEF id
    <3>3. QED
      BY <1>3, <3>1, <3>2
  <2>7. QED
    BY <1>1, <2>1, <2>4, <2>5, <2>6 DEF KeepsOnce, id
<1>6. QED
  BY <1>4, <1>5

\* std::unique makes a sorted list a list of distinct elements.
LEMMA UniqueKeepsOnce ==
  ASSUME NEW seq \in Seq(Nat), Ascends(seq)
  PROVE  KeepsOnce(Unique(seq), seq, Len(seq))
<1>1. PICK u \in [0 .. Len(seq) -> Seq(Nat)] :
          /\ u[0] = <<>> /\ Unique(seq) = u[Len(seq)]
          /\ \A k \in 1 .. Len(seq) : u[k] = Kept(u[k - 1], seq[k])
  BY UniqueByElement
<1> DEFINE N == {k \in Nat : k <= Len(seq) => KeepsOnce(u[k], seq, k)}
<1>2. 0 \in N
  BY <1>1 DEF KeepsOnce, Climbs
<1>3. ASSUME NEW k \in N PROVE k + 1 \in N
  <2>1. SUFFICES ASSUME k + 1 <= Len(seq) PROVE KeepsOnce(u[k + 1], seq, k + 1)
    OBVIOUS
  <2>2. k \in Nat /\ k + 1 \in 1 .. Len(seq) /\ (k + 1) - 1 = k
    BY <2>1
  <2>3. KeepsOnce(u[k], seq, k)
    BY <2>1, <2>2
  <2>4. u[k + 1] = Kept(u[k], seq[k + 1])
    BY <1>1, <2>2
  <2>5. QED
    BY <2>2, <2>3, <2>4, KeptKeepsOnce
<1>4. N = Nat
  <2> HIDE DEF N
  <2>1. N \in SUBSET Nat
    BY DEF N
  <2>2. QED
    BY <1>2, <1>3, <2>1, NatSetInduction
<1>5. Len(seq) \in N
  BY <1>4
<1>6. QED
  BY <1>1, <1>5

-----------------------------------------------------------------------------
(* The contiguity check *)

LEMMA ClimbingCounts ==
  ASSUME NEW ids \in Seq(Nat), Climbs(ids)
  PROVE  Cardinality(Range(ids)) = Len(ids)
<1> DEFINE n == Len(ids)
<1>1. n \in Nat /\ DOMAIN ids = 1 .. n
  OBVIOUS
<1>2. ids \in [1 .. n -> Range(ids)]
  BY <1>1 DEF Range
<1>3. \A i, k \in 1 .. n : ids[i] = ids[k] => i = k
  <2>1. ASSUME NEW i \in 1 .. n, NEW k \in 1 .. n, ids[i] = ids[k] PROVE i = k
    <3>1. ids[i] \in Nat /\ ids[k] \in Nat /\ i \in Nat /\ k \in Nat
      BY <1>1
    <3>2. (i < k => ids[i] < ids[k]) /\ (k < i => ids[k] < ids[i])
      BY <1>1 DEF Climbs
    <3>3. QED
      BY <2>1, <3>1, <3>2
  <2>2. QED
    BY <2>1
<1>4. \A x \in Range(ids) : \E i \in 1 .. n : ids[i] = x
  BY <1>1 DEF Range
<1>5. ids \in Bijection(1 .. n, Range(ids))
  BY <1>2, <1>3, <1>4 DEF Bijection, Injection, Surjection, IsInjective
<1>6. QED
  BY <1>1, <1>5, FS_CountingElements DEF ExistsBijection

\* The check of on_cpu_discovery_done compares with the index; it is the check
\* that the set is an initial segment.
LEMMA ContiguityIsByIndex ==
  ASSUME NEW ids \in Seq(Nat), Climbs(ids)
  PROVE  (\A i \in DOMAIN ids : ids[i] = i - 1) <=> Range(ids) = 0 .. Len(ids) - 1
<1> DEFINE n == Len(ids)
<1>1. n \in Nat /\ DOMAIN ids = 1 .. n /\ \A i \in 1 .. n : ids[i] \in Nat
  OBVIOUS
<1> HIDE DEF n
<1>2. ASSUME \A i \in 1 .. n : ids[i] = i - 1 PROVE Range(ids) = 0 .. n - 1
  <2>1. Range(ids) \subseteq 0 .. n - 1
    BY <1>1, <1>2 DEF Range
  <2>2. ASSUME NEW x \in 0 .. n - 1 PROVE x \in Range(ids)
    <3>1. x + 1 \in 1 .. n /\ (x + 1) - 1 = x
      BY <1>1
    <3>2. ids[x + 1] = x
      BY <1>2, <3>1
    <3>3. QED
      BY <1>1, <3>1, <3>2 DEF Range
  <2>3. QED
    BY <2>1, <2>2
<1>3. ASSUME Range(ids) = 0 .. n - 1, NEW i \in 1 .. n PROVE ids[i] = i - 1
  <2>1. \A k \in Nat : k + 1 \in 1 .. n => ids[k + 1] >= k
    <3> DEFINE N == {k \in Nat : k + 1 \in 1 .. n => ids[k + 1] >= k}
    <3>1. 0 \in N
      BY <1>1
    <3>2. ASSUME NEW k \in N PROVE k + 1 \in N
      <4>1. SUFFICES ASSUME (k + 1) + 1 \in 1 .. n PROVE ids[(k + 1) + 1] >= k + 1
        OBVIOUS
      <4>2. k \in Nat /\ k + 1 \in 1 .. n /\ ids[k + 1] >= k
        BY <1>1, <4>1
      <4>3. ids[k + 1] < ids[(k + 1) + 1]
        BY <1>1, <4>1, <4>2 DEF Climbs
      <4>4. QED
        BY <1>1, <4>1, <4>2, <4>3
    <3>3. N = Nat
      <4> HIDE DEF N
      <4>1. N \in SUBSET Nat
        BY DEF N
      <4>2. QED
        BY <3>1, <3>2, <4>1, NatSetInduction
    <3>4. QED
      BY <3>3
  <2>2. \A k \in Nat : n - k \in 1 .. n => ids[n - k] <= n - k - 1
    <3> DEFINE N == {k \in Nat : n - k \in 1 .. n => ids[n - k] <= n - k - 1}
    <3>1. 0 \in N
      <4>1. SUFFICES ASSUME n \in 1 .. n PROVE ids[n] <= n - 1
        BY <1>1
      <4>2. ids[n] \in 0 .. n - 1
        BY <1>1, <1>3, <4>1 DEF Range
      <4>3. QED
        BY <1>1, <4>2
    <3>2. ASSUME NEW k \in N PROVE k + 1 \in N
      <4>1. SUFFICES ASSUME n - (k + 1) \in 1 .. n
                     PROVE  ids[n - (k + 1)] <= n - (k + 1) - 1
        OBVIOUS
      <4>2. k \in Nat /\ n - k \in 1 .. n /\ ids[n - k] <= n - k - 1
        BY <1>1, <4>1
      <4>3. ids[n - (k + 1)] < ids[n - k]
        <5>1. n - (k + 1) < n - k
          BY <1>1, <4>2
        <5>2. QED
          BY <1>1, <4>1, <4>2, <5>1 DEF Climbs
      <4>4. QED
        BY <1>1, <4>1, <4>2, <4>3
    <3>3. N = Nat
      <4> HIDE DEF N
      <4>1. N \in SUBSET Nat
        BY DEF N
      <4>2. QED
        BY <3>1, <3>2, <4>1, NatSetInduction
    <3>4. QED
      BY <3>3
  <2>3. i - 1 \in Nat /\ (i - 1) + 1 = i /\ n - i \in Nat /\ n - (n - i) = i
    BY <1>1
  <2>4. ids[i] >= i - 1
    <3>1. (i - 1) + 1 \in 1 .. n
      BY <2>3
    <3>2. ids[(i - 1) + 1] >= i - 1
      BY <2>1, <2>3, <3>1
    <3>3. QED
      BY <2>3, <3>2
  <2>5. ids[i] <= i - 1
    <3>1. n - (n - i) \in 1 .. n
      BY <2>3
    <3>2. ids[n - (n - i)] <= n - (n - i) - 1
      BY <2>2, <2>3, <3>1
    <3>3. QED
      BY <2>3, <3>2
  <2>6. QED
    BY <1>1, <2>4, <2>5
<1>4. QED
  BY <1>1, <1>2, <1>3 DEF n

\* What the list of distinct sockets says of the paths.
LEMMA DistinctSockets ==
  ASSUME NEW seq \in Seq(Nat)
  PROVE  /\ Unique(Sorted(seq)) \in Seq(Nat)
         /\ Climbs(Unique(Sorted(seq)))
         /\ Range(Unique(Sorted(seq))) = Range(seq)
         /\ Cardinality(Range(seq)) = Len(Unique(Sorted(seq)))
<1> DEFINE sorted == Sorted(seq)
           ids == Unique(sorted)
<1>1. sorted \in Seq(Nat) /\ Range(sorted) = Range(seq) /\ Ascends(sorted)
  BY SortedIsSorted DEF Ascends
<1> HIDE DEF sorted
<1>2. KeepsOnce(ids, sorted, Len(sorted))
  BY <1>1, UniqueKeepsOnce
<1> HIDE DEF ids
<1>3. ids \in Seq(Nat) /\ Climbs(ids)
  BY <1>2 DEF KeepsOnce
<1>4. Range(ids) = Range(sorted)
  <2>1. DOMAIN ids = 1 .. Len(ids) /\ DOMAIN sorted = 1 .. Len(sorted)
    BY <1>1, <1>3
  <2>2. Range(ids) = {ids[i] : i \in 1 .. Len(ids)}
    BY <2>1 DEF Range
  <2>3. Range(sorted) = {sorted[m] : m \in 1 .. Len(sorted)}
    BY <2>1 DEF Range
  <2>4. \A i \in 1 .. Len(ids) : ids[i] \in {sorted[m] : m \in 1 .. Len(sorted)}
    BY <1>2 DEF KeepsOnce
  <2>5. \A m \in 1 .. Len(sorted) : sorted[m] \in {ids[i] : i \in 1 .. Len(ids)}
    BY <1>2, Zenon DEF KeepsOnce
  <2>6. QED
    BY <2>2, <2>3, <2>4, <2>5
<1>5. Cardinality(Range(ids)) = Len(ids)
  BY <1>3, ClimbingCounts
<1>6. QED
  BY <1>1, <1>3, <1>4, <1>5 DEF ids, sorted

LEMMA DiscoveryTestsTheInventory ==
  OnCpuDiscoveryDone => SocketsAreTheInventory'
<1> SUFFICES ASSUME OnCpuDiscoveryDone PROVE SocketsAreTheInventory'
  OBVIOUS
<1> DEFINE found == Range(paths')
           ids == Unique(Sorted(paths'))
<1>1. paths' \in BoundedSeq({Unparsable} \cup 0 .. MaxPaths, MaxPaths)
  BY DEF OnCpuDiscoveryDone
<1>2. PICK n \in 0 .. MaxPaths : paths' \in [1 .. n -> {Unparsable} \cup 0 .. MaxPaths]
  BY <1>1 DEF BoundedSeq, SeqOf
<1>3. n \in Nat /\ MaxPaths \in Nat /\ Unparsable \notin Nat
  BY BoundsAssumption DEF Unparsable
<1>4. SUFFICES
        /\ outcome' = "launch" <=> found # {} /\ found = 0 .. Cardinality(found) - 1
        /\ outcome' = "launch" =>
             sockets' = [i \in 1 .. Cardinality(found) |-> i - 1]
  BY DEF SocketsAreTheInventory
<1>5. CASE paths' = <<>>
  <2>1. outcome' = "no_cpus"
    BY <1>5 DEF OnCpuDiscoveryDone, Answer
  <2>2. found = {}
    BY <1>5 DEF Range
  <2>3. QED
    BY <2>1, <2>2
<1>6. CASE Unparsable \in found
  <2>1. outcome' = "parse"
    <3>1. paths' # <<>>
      BY <1>6 DEF Range
    <3>2. QED
      BY <1>6, <3>1 DEF OnCpuDiscoveryDone, Answer
  <2>2. found # 0 .. Cardinality(found) - 1
    <3>1. \A m : Unparsable \notin 0 .. m
      BY <1>3
    <3>2. QED
      BY <1>6, <3>1
  <2>3. QED
    BY <2>1, <2>2
<1>7. CASE paths' # <<>> /\ Unparsable \notin found
  <2>1. DOMAIN paths' = 1 .. n /\ found = {paths'[i] : i \in 1 .. n}
    BY <1>2 DEF Range
  <2>2. paths' \in Seq(Nat)
    <3>1. \A i \in 1 .. n : paths'[i] \in Nat
      BY <1>2, <1>7, <2>1
    <3>2. paths' \in [1 .. n -> Nat]
      BY <1>2, <3>1
    <3>3. QED
      BY <1>3, <3>2
  <2>3. /\ ids \in Seq(Nat) /\ Climbs(ids) /\ Range(ids) = found
        /\ Cardinality(found) = Len(ids)
    BY <2>2, DistinctSockets
  <2>4. found # {}
    <3>1. n # 0
      BY <1>2, <1>7
    <3>2. 1 \in 1 .. n
      BY <1>3, <3>1
    <3>3. QED
      BY <2>1, <3>2
  <2>5. IF \E i \in DOMAIN ids : ids[i] # i - 1
        THEN outcome' = "non_contiguous"
        ELSE outcome' = "launch" /\ sockets' = ids
    BY <1>7, Zenon DEF OnCpuDiscoveryDone, Answer
  <2> HIDE DEF found, ids
  <2>6. (\A i \in DOMAIN ids : ids[i] = i - 1) <=> found = 0 .. Cardinality(found) - 1
    BY <2>3, ContiguityIsByIndex
  <2>7. ASSUME \A i \in DOMAIN ids : ids[i] = i - 1
        PROVE  ids = [i \in 1 .. Cardinality(found) |-> i - 1]
    <3>1. DOMAIN ids = 1 .. Cardinality(found) /\ ids = [i \in DOMAIN ids |-> ids[i]]
      BY <2>3
    <3>2. QED
      BY <2>7, <3>1
  <2>8. QED
    BY <2>4, <2>5, <2>6, <2>7
<1>8. QED
  BY <1>5, <1>6, <1>7

\* For every list of paths, in every order and with every repetition: the run
\* goes on exactly when they name sockets 0 to n - 1, and it tests these.
THEOREM InventoryIsTested == Spec => []SocketsAreTheInventory
<1>1. Init => SocketsAreTheInventory
  BY DEF Init, SocketsAreTheInventory
<1>2. SocketsAreTheInventory /\ [Next]_vars => SocketsAreTheInventory'
  <2> SUFFICES ASSUME SocketsAreTheInventory, [Next]_vars
               PROVE  SocketsAreTheInventory'
    OBVIOUS
  <2>1. CASE OnCpuDiscoveryDone
    BY <2>1, DiscoveryTestsTheInventory
  <2>2. CASE UNCHANGED <<turn, verdict, discovers, paths, outcome, sockets>>
    BY <2>2 DEF SocketsAreTheInventory
  <2>3. ASSUME turn' = "verify" PROVE SocketsAreTheInventory'
    BY <2>3 DEF SocketsAreTheInventory
  <2>4. ASSUME NEW ok \in BOOLEAN, NEW fault, Finish(ok, fault)
        PROVE  SocketsAreTheInventory'
    <3>1. verdict' = "failed" \/ discovers' # TRUE \/ turn' = "discover"
      BY <2>4 DEF Finish, disk
    <3>2. QED
      BY <3>1 DEF SocketsAreTheInventory
  <2>5. CASE UNCHANGED vars
    BY <2>2, <2>5 DEF vars, session, disk, result
  <2>6. CASE Enumerate
    BY <2>3, <2>6 DEF Enumerate
  <2>7. CASE EnumerateFails
    BY <2>4, <2>7 DEF EnumerateFails
  <2>8. ASSUME NEW f \in Names \cup {"binary"}, OpenFile(f) \/ OpenFails(f)
        PROVE  SocketsAreTheInventory'
    BY <2>2, <2>4, <2>8 DEF OpenFile, OpenFails, disk, result
  <2>9. CASE PumpMore
    BY <2>2, <2>9 DEF PumpMore, disk, result
  <2>10. ASSUME NEW fault \in BOOLEAN, PumpLast(fault)
         PROVE  SocketsAreTheInventory'
    BY <2>2, <2>4, <2>10 DEF PumpLast, disk, result
  <2>11. CASE AllVerified
    BY <2>4, <2>11 DEF AllVerified
  <2>12. QED
    BY <2>1, <2>5, <2>6, <2>7, <2>8, <2>9, <2>10, <2>11 DEF Next, Step
<1>3. QED
  BY <1>1, <1>2, PTL DEF Spec
=============================================================================
