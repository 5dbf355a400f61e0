---------------------------- MODULE ImagesProofs ----------------------------
(***************************************************************************)
(* Proofs about module Images.                                             *)
(*                                                                         *)
(* The chain of parents and what materialization makes of it are recursive *)
(* functions.  The induction theorems of the library take an operator and  *)
(* cannot be used here, but that every set of natural numbers has a least  *)
(* element can: Induction and Recursion below follow from it, stated with  *)
(* sets and functions.                                                     *)
(***************************************************************************)
EXTENDS Images, TLAPS, FiniteSetTheorems, SequenceTheorems, WellFoundedInduction

-----------------------------------------------------------------------------
(* Induction and recursion over the natural numbers.                       *)

\* Every set of natural numbers that is not empty has a least element.
LEMMA Least ==
  ASSUME NEW T, T \subseteq Nat, T # {}
  PROVE  \E x \in T : \A y \in T : ~(y < x)
<1> DEFINE R == {ss \in Nat \X Nat : ss[1] < ss[2]}
<1>1. IsWellFoundedOn(R, Nat)
  BY NatLessThanWellFounded, Zenon DEF OpToRel
<1>2. PICK x \in T : \A y \in T : ~(<<y, x>> \in R)
  <2> HIDE DEF R
  <2> QED BY <1>1, WFMin, Zenon
<1>3. \A y \in T : y < x => <<y, x>> \in R
  BY SMT
<1> HIDE DEF R
<1> QED BY <1>2, <1>3, Zenon

\* Induction over 0..m: a set that has 0, and with a number the next, has them all.
LEMMA Induction ==
  ASSUME NEW S, NEW m \in Nat, 0 \in S,
         \A n \in 1..m : n - 1 \in S => n \in S
  PROVE  0..m \subseteq S
<1> DEFINE T == {n \in Nat : n <= m /\ n \notin S}
<1> SUFFICES ASSUME T # {} PROVE FALSE
  BY SMT
<1>1. T \subseteq Nat
  BY Zenon
<1>2. PICK x \in T : \A y \in T : ~(y < x)
  <2> HIDE DEF T
  <2> QED BY <1>1, Least, Zenon
<1>3. x \in Nat /\ x <= m /\ x \notin S /\ x # 0
  BY Zenon
<1>4. x \in 1..m /\ x - 1 < x /\ x - 1 \in Nat /\ x - 1 <= m
  BY <1>3, SMT
<1>5. x - 1 \in S
  BY <1>2, <1>4, Zenon
<1> QED BY <1>3, <1>4, <1>5, Zenon

\* f has the first value v, and H[k] gives the k-th from the one before.
Unfolds(f, m, v, H) == f[0] = v /\ \A k \in 1..m : f[k] = H[k][f[k - 1]]

\* A function over 0..m that is given by its first value and by how one value
\* follows from the one before exists.
LEMMA Recursion ==
  ASSUME NEW V, NEW v \in V, NEW m \in Nat, NEW H \in [1..m -> [V -> V]]
  PROVE  \E f \in [0..m -> V] : Unfolds(f, m, v, H)
<1> DEFINE Good(n, g) ==
             g \in [0..n -> V] /\ g[0] = v /\ \A k \in 1..n : g[k] = H[k][g[k - 1]]
           S == {n \in Nat : n <= m => \E g : Good(n, g)}
<1>1. 0 \in S
  <2>1. Good(0, [k \in 0..0 |-> v])
    BY SMT
  <2> QED BY <2>1
<1>2. ASSUME NEW n \in 1..m, n - 1 \in S PROVE n \in S
  <2>1. PICK g : Good(n - 1, g)
    BY <1>2, SMT
  <2> DEFINE h == [k \in 0..n |-> IF k = n THEN H[n][g[n - 1]] ELSE g[k]]
  <2>2. H[n][g[n - 1]] \in V
    BY <2>1, SMT
  <2>3. h \in [0..n -> V] /\ h[0] = v
    BY <2>1, <2>2, SMT
  <2>4. \A k \in 1..n : h[k] = H[k][h[k - 1]]
    <3> TAKE k \in 1..n
    <3>1. CASE k = n
      BY <3>1, SMT
    <3>2. CASE k # n
      BY <3>2, <2>1, SMT
    <3> QED BY <3>1, <3>2
  <2>5. Good(n, h)
    <3> HIDE DEF h
    <3> QED BY <2>3, <2>4, Zenon
  <2>6. \E g1 : Good(n, g1)
    BY <2>5, Zenon
  <2> HIDE DEF Good
  <2> QED BY <2>6, SMT
<1>3. 0..m \subseteq S
  <2> HIDE DEF S
  <2> QED BY <1>1, <1>2, Induction, Zenon
<1>4. \E g : Good(m, g)
  <2> HIDE DEF Good
  <2> QED BY <1>3, SMT
<1> QED BY <1>4, Zenon DEF Unfolds

-----------------------------------------------------------------------------
(* The recursive functions of module Images.                               *)

\* Ends: chunks laid one after the other.
LEMMA EndsDef ==
  ASSUME NEW sizes \in Seq(Nat)
  PROVE  /\ Ends(sizes) \in [0..Len(sizes) -> Nat]
         /\ Ends(sizes)[0] = 0
         /\ \A i \in 1..Len(sizes) : Ends(sizes)[i] = Ends(sizes)[i - 1] + sizes[i]
<1> DEFINE m == Len(sizes)
           H == [i \in 1..m |-> [w \in Nat |-> w + sizes[i]]]
           Is(f) == f = [i \in 0..m |-> IF i = 0 THEN 0 ELSE f[i - 1] + sizes[i]]
<1>1. m \in Nat /\ \A i \in 1..m : sizes[i] \in Nat
  BY SMT
<1>2. H \in [1..m -> [Nat -> Nat]]
  BY <1>1, SMT
<1>3. PICK f \in [0..m -> Nat] : Unfolds(f, m, 0, H)
  <2>1. 0 \in Nat
    OBVIOUS
  <2> HIDE DEF H, m
  <2> QED BY <1>1, <1>2, <2>1, Recursion, Zenon
<1>4. \A k \in 1..m : f[k] = f[k - 1] + sizes[k]
  <2> TAKE k \in 1..m
  <2>1. f[k - 1] \in Nat
    <3> HIDE DEF m
    <3> QED BY <1>1, <1>3, SMT
  <2>2. H[k][f[k - 1]] = f[k - 1] + sizes[k]
    BY <2>1, Zenon
  <2> QED BY <1>3, <2>2, Zenon DEF Unfolds
<1>5. Is(f)
  <2> HIDE DEF m, H
  <2> QED BY <1>1, <1>3, <1>4, SMT DEF Unfolds
<1>6. Ends(sizes) = CHOOSE g : Is(g)
  BY Zenon DEF Ends
<1>7. Is(Ends(sizes))
  <2> HIDE DEF Is
  <2> QED BY <1>5, <1>6, Zenon
<1> DEFINE e == Ends(sizes)
           S == {i \in Nat : e[i] \in Nat}
<1> HIDE DEF e
<1>8. e = [i \in 0..m |-> IF i = 0 THEN 0 ELSE e[i - 1] + sizes[i]]
  BY <1>7, Zenon DEF e
<1> HIDE DEF m
<1>9. e[0] = 0 /\ \A i \in 1..m : e[i] = e[i - 1] + sizes[i]
  BY <1>8, <1>1, SMT
<1>10. 0..m \subseteq S
  <2>1. 0 \in S
    BY <1>9, SMT
  <2>2. ASSUME NEW n \in 1..m, n - 1 \in S PROVE n \in S
    <3>1. n \in Nat /\ e[n - 1] \in Nat
      BY <2>2, <1>1, SMT
    <3>2. e[n] = e[n - 1] + sizes[n] /\ sizes[n] \in Nat
      BY <1>9, <1>1, Zenon
    <3>3. e[n] \in Nat
      BY <3>1, <3>2, SMT
    <3> QED BY <3>1, <3>3, Zenon
  <2> HIDE DEF S
  <2> QED BY <2>1, <2>2, <1>1, Induction, Zenon
<1>11. e \in [0..m -> Nat]
  BY <1>8, <1>10, Zenon
<1> QED BY <1>9, <1>11, Zenon DEF e, m

\* The parent that an image names is a directory.
ParentsOK(s) == \A p \in Dir : s[p] # None /\ s[p].delta => s[p].parent \in Dir

ChainSets == [Dir -> SUBSET (Dir \cup {None})]

\* Chains(s)[n] from w, Chains(s)[n - 1].
ChainOf(s, p, w) ==
  IF s[p] = None THEN {p, None}
  ELSE IF s[p].delta THEN {p} \cup w[s[p].parent]
  ELSE {p}

ChainStep(s, w) == [p \in Dir |-> ChainOf(s, p, w)]

\* The bound on the length of a chain is a number, and not zero.
LEMMA FuelNat == Fuel \in Nat /\ Fuel >= 2
<1>1. Cardinality(Path) \in Nat
  BY ImagesAssumption, FS_CardinalityType, Zenon
<1> QED BY <1>1, SMT DEF Fuel

\* ChainStep keeps to sets of directories.
LEMMA ChainStepType ==
  ASSUME NEW s, ParentsOK(s), NEW w \in ChainSets
  PROVE  ChainStep(s, w) \in ChainSets
<1>1. ASSUME NEW p \in Dir, s[p] # None, s[p].delta
      PROVE  w[s[p].parent] \in SUBSET (Dir \cup {None})
  BY <1>1 DEF ParentsOK, ChainSets
<1> QED BY <1>1, Zenon DEF ChainStep, ChainOf, ChainSets

\* Chains unfolds to its definition.
LEMMA ChainsDef ==
  ASSUME NEW s, ParentsOK(s)
  PROVE  /\ Chains(s) \in [0..Fuel -> ChainSets]
         /\ Chains(s)[0] = [p \in Dir |-> {p, None}]
         /\ \A n \in 1..Fuel : Chains(s)[n] = ChainStep(s, Chains(s)[n - 1])
<1> DEFINE v == [p \in Dir |-> {p, None}]
           H == [n \in 1..Fuel |-> [w \in ChainSets |-> ChainStep(s, w)]]
           Is(f) == f = [n \in 0..Fuel |->
                      [p \in Dir |->
                        IF n = 0 \/ s[p] = None THEN {p, None}
                        ELSE IF s[p].delta THEN {p} \cup f[n - 1][s[p].parent]
                        ELSE {p}]]
           Is2(f) == f = [n \in 0..Fuel |-> IF n = 0 THEN v ELSE ChainStep(s, f[n - 1])]
<1>1. v \in ChainSets
  BY Zenon DEF ChainSets
<1>2. H \in [1..Fuel -> [ChainSets -> ChainSets]]
  BY ChainStepType, Zenon
<1>3. PICK f \in [0..Fuel -> ChainSets] : Unfolds(f, Fuel, v, H)
  <2> HIDE DEF H, v
  <2> QED BY <1>1, <1>2, FuelNat, Recursion, Zenon
<1>4. \A k \in 1..Fuel : f[k] = ChainStep(s, f[k - 1])
  <2> TAKE k \in 1..Fuel
  <2>1. f[k - 1] \in ChainSets
    BY FuelNat, SMT
  <2>2. H[k][f[k - 1]] = ChainStep(s, f[k - 1])
    BY <2>1, Zenon
  <2> QED BY <1>3, <2>2, Zenon DEF Unfolds
<1>5. \A g : Is(g) <=> Is2(g)
  <2> TAKE g
  <2> DEFINE A == [n \in 0..Fuel |->
                      [p \in Dir |->
                        IF n = 0 \/ s[p] = None THEN {p, None}
                        ELSE IF s[p].delta THEN {p} \cup g[n - 1][s[p].parent]
                        ELSE {p}]]
             B == [n \in 0..Fuel |-> IF n = 0 THEN v ELSE ChainStep(s, g[n - 1])]
  <2>1. ASSUME NEW n \in 0..Fuel PROVE A[n] = B[n]
    BY Zenon DEF ChainStep, ChainOf
  <2>2. A = B
    <3> HIDE DEF v
    <3> QED BY <2>1, Zenon
  <2> QED BY <2>2, Zenon
<1>6. Is2(f)
  <2>1. \A k \in 0..Fuel : k = 0 \/ k \in 1..Fuel
    BY FuelNat, SMT
  <2> HIDE DEF v, H
  <2> QED BY <1>3, <1>4, <2>1, Zenon DEF Unfolds
<1>7. Chains(s) = CHOOSE g : Is(g)
  BY Zenon DEF Chains
<1>8. Is(Chains(s))
  <2> HIDE DEF Is, Is2
  <2> QED BY <1>5, <1>6, <1>7, Zenon
<1>9. Is2(Chains(s))
  <2> HIDE DEF Is, Is2
  <2> QED BY <1>5, <1>8, Zenon
<1> DEFINE c == Chains(s)
           S == {n \in Nat : c[n] \in ChainSets}
<1> HIDE DEF c
<1>10. c = [n \in 0..Fuel |-> IF n = 0 THEN v ELSE ChainStep(s, c[n - 1])]
  BY <1>9, Zenon DEF c
<1>11. 0 \in 0..Fuel /\ \A n \in 1..Fuel : n \in 0..Fuel /\ n # 0
  BY FuelNat, SMT
<1> HIDE DEF v
<1>12. c[0] = v /\ \A n \in 1..Fuel : c[n] = ChainStep(s, c[n - 1])
  BY <1>10, <1>11, Zenon
<1>13. 0..Fuel \subseteq S
  <2>1. 0 \in S
    BY <1>12, <1>1, Zenon
  <2>2. ASSUME NEW n \in 1..Fuel, n - 1 \in S PROVE n \in S
    <3>1. n \in Nat
      BY SMT
    <3> QED BY <3>1, <2>2, <1>12, ChainStepType, ZenonT(60)
  <2> HIDE DEF S
  <2> QED BY <2>1, <2>2, FuelNat, Induction, Zenon
<1>14. c \in [0..Fuel -> ChainSets]
  BY <1>10, <1>13, Zenon
<1> QED BY <1>12, <1>14, Zenon DEF c, v

-----------------------------------------------------------------------------
(* What an image is made of.                                               *)

\* Entry e has the contents of entry f at the same address.
Same(e, f) == e.ptr = f.ptr /\ e.size = f.size /\ e.crc = f.crc

\* A device.bin in which every chunk of the manifest is what its CRC says.
ChunkIn(bytes, e) ==
  e.off + e.size <= Len(bytes) /\ \A j \in 1..e.size : bytes[e.off + j] = e.crc[j]

Holds(bytes, es) == \A k \in 1..Len(es) : ChunkIn(bytes, es[k])

\* The bytes that device.patch has for device.bin.
Covered(img, i) == \E rec \in img.recs : Covers(rec, i)

PatchByte(img, i) ==
  LET rec == CHOOSE rec \in img.recs : Covers(rec, i) IN img.patch[rec.poff + i - rec.off]

\* A byte of chunk e of a delta image: the patch has it, or the parent has the chunk.
ByteOK(img, par, e, j) ==
  IF Covered(img, e.off + j) THEN PatchByte(img, e.off + j) = e.crc[j]
  ELSE \E m \in 1..Len(par.entries) : Same(par.entries[m], e)

DeltaOK(img, par) ==
  \A k \in 1..Len(img.entries) : \A j \in 1..img.entries[k].size :
    ByteOK(img, par, img.entries[k], j)

ManifestOK(es) ==
  /\ \A k \in 1..Len(es) : Len(es[k].crc) = es[k].size
  /\ \A k, m \in 1..Len(es) : es[k].ptr = es[m].ptr => k = m

RecordsOK(img) == \A rec \in img.recs : rec.poff + rec.size <= Len(img.patch)

\* What an image that is not a delta is materialized from.
Own(img) == IF img.compressed THEN img.zst ELSE img.device

ImageOK(img) ==
  /\ img \in Image
  /\ ManifestOK(img.entries)
  /\ RecordsOK(img)
  /\ img.delta => img.parent \in Path /\ ~img.compressed
  /\ ~img.delta => Own(img) \in Seq(Byte) /\ Holds(Own(img), img.entries)

StoreOK(s) ==
  /\ s \in [Dir -> Image \cup {None}]
  /\ \A q \in Dir : s[q] # None => ImageOK(s[q])

\* The largest of some numbers and 0 is one of them, and the others are not larger.
LEMMA MaxOf ==
  ASSUME NEW m \in Nat, NEW g \in [1..m -> Nat], NEW T, T = {0} \cup {g[k] : k \in 1..m}
  PROVE  Max(T) \in Nat /\ \A k \in 1..m : g[k] <= Max(T)
<1> DEFINE S == {n \in Nat : n <= m => \E x \in T : \A k \in 1..n : g[k] <= x}
<1>0. T \subseteq Nat
  BY SMT
<1>1. 0 \in S
  BY SMT
<1>2. ASSUME NEW n \in 1..m, n - 1 \in S PROVE n \in S
  <2>1. PICK x \in T : \A k \in 1..(n - 1) : g[k] <= x
    BY <1>2, SMT
  <2>2. x \in Nat /\ g[n] \in Nat /\ g[n] \in T
    BY <1>0, SMT
  <2>3. CASE g[n] <= x
    <3>1. \A k \in 1..n : g[k] <= x
      BY <2>1, <2>2, <2>3, SMT
    <3> QED BY <3>1, SMT
  <2>4. CASE g[n] > x
    <3>1. \A k \in 1..n : g[k] <= g[n]
      BY <2>1, <2>2, <2>4, SMT
    <3> QED BY <3>1, <2>2, SMT
  <2> QED BY <2>2, <2>3, <2>4, SMT
<1>3. 0..m \subseteq S
  <2> HIDE DEF S
  <2> QED BY <1>1, <1>2, Induction, Zenon
<1>4. m \in 0..m /\ m <= m
  BY SMT
<1>5. PICK x \in T : \A k \in 1..m : g[k] <= x
  BY <1>3, <1>4, Zenon
<1>6. \A y \in T : x >= y
  BY <1>5, <1>0, SMT
<1>7. Max(T) \in T /\ \A y \in T : Max(T) >= y
  BY <1>6, Zenon DEF Max
<1> QED BY <1>7, <1>0, SMT

\* device.bin after ApplyDelta is long enough for every chunk of the manifest.
LEMMA TotalOf ==
  ASSUME NEW es \in Seq(Entry), NEW t,
         t = Max({0} \cup {e.off + e.size : e \in ToSet(es)})
  PROVE  t \in Nat /\ \A k \in 1..Len(es) : es[k].off + es[k].size <= t
<1> DEFINE m == Len(es)
           g == [k \in 1..m |-> es[k].off + es[k].size]
           T == {0} \cup {g[k] : k \in 1..m}
<1>1. m \in Nat /\ \A k \in 1..m : es[k] \in Entry
  BY SMT
<1>2. \A k \in 1..m : es[k].off \in Nat /\ es[k].size \in Nat
  <2> TAKE k \in 1..m
  <2>1. es[k] \in Entry
    BY <1>1, Zenon
  <2> QED BY <2>1, Zenon DEF Entry
<1>3. g \in [1..m -> Nat]
  BY <1>2, SMT
<1>4. {0} \cup {e.off + e.size : e \in ToSet(es)} = T
  <2>1. DOMAIN es = 1..m
    BY SMT
  <2> QED BY <2>1, Zenon DEF ToSet
<1> HIDE DEF m
<1>5. Max(T) \in Nat /\ \A k \in 1..m : g[k] <= Max(T)
  <2> HIDE DEF g
  <2> QED BY <1>1, <1>3, MaxOf
<1>6. t = Max(T)
  BY <1>4, Zenon
<1> QED BY <1>5, <1>6, Zenon DEF m

-----------------------------------------------------------------------------
(* Materialization.                                                        *)

DeviceFiles == [Dir -> Seq(Byte) \cup {None}]

\* Devices(s)[n] from w, Devices(s)[n - 1].
DeviceStep(s, w) ==
  [p \in Dir |->
    IF s[p] = None THEN None
    ELSE IF s[p].delta /\ w[s[p].parent] = None THEN None
    ELSE Rebuilt(s[p], w[s[p].parent])]

\* What the records of delta.bin leave of a device.bin.
LEMMA PatchType ==
  ASSUME NEW bytes \in Seq(Byte), NEW img, ImageOK(img)
  PROVE  /\ Patch(bytes, img.recs, img.patch) \in Seq(Byte)
         /\ Len(Patch(bytes, img.recs, img.patch)) = Len(bytes)
         /\ \A i \in 1..Len(bytes) :
              Patch(bytes, img.recs, img.patch)[i]
                = IF Covered(img, i) THEN PatchByte(img, i) ELSE bytes[i]
<1> DEFINE m == Len(bytes)
           out == [i \in 1..m |-> IF Covered(img, i) THEN PatchByte(img, i) ELSE bytes[i]]
<1>1. Patch(bytes, img.recs, img.patch) = out
  BY Zenon DEF Patch, Covered, PatchByte
<1>2. m \in Nat /\ \A i \in 1..m : bytes[i] \in Byte
  BY SMT
<1>3. img.recs \subseteq Record /\ img.patch \in Seq(Byte)
  BY Zenon DEF ImageOK, Image
<1>4. ASSUME NEW i \in 1..m, Covered(img, i) PROVE PatchByte(img, i) \in Byte
  <2> DEFINE rec == CHOOSE rec \in img.recs : Covers(rec, i)
  <2>1. rec \in img.recs /\ Covers(rec, i)
    BY <1>4, Zenon DEF Covered
  <2>2. PatchByte(img, i) = img.patch[rec.poff + i - rec.off]
    BY Zenon DEF PatchByte
  <2> HIDE DEF rec
  <2>3. rec.poff \in Nat /\ rec.off \in Nat /\ rec.size \in Nat
    BY <2>1, <1>3, Zenon DEF Record
  <2>4. rec.off < i /\ i <= rec.off + rec.size /\ rec.poff + rec.size <= Len(img.patch)
    BY <2>1, Zenon DEF Covers, ImageOK, RecordsOK
  <2>5. rec.poff + i - rec.off \in 1..Len(img.patch)
    BY <2>3, <2>4, <1>2, <1>3, SMTT(60)
  <2> QED BY <2>2, <2>5, <1>3, SMT
<1>5. out \in [1..m -> Byte]
  BY <1>2, <1>4, Zenon
<1>6. out \in Seq(Byte) /\ Len(out) = m
  <2> HIDE DEF out
  <2> QED BY <1>2, <1>5, SMT
<1>7. \A i \in 1..m : out[i] = IF Covered(img, i) THEN PatchByte(img, i) ELSE bytes[i]
  BY Zenon
<1> HIDE DEF out
<1> QED BY <1>1, <1>6, <1>7, Zenon

\* ApplyDelta makes a device.bin long enough for the manifest: the patch where it
\* has a byte, elsewhere the parent's.
LEMMA ApplyDeltaIs ==
  ASSUME NEW img, ImageOK(img), NEW base \in Seq(Byte)
  PROVE  /\ ApplyDelta(img, base) \in Seq(Byte)
         /\ \A k \in 1..Len(img.entries) :
              img.entries[k].off + img.entries[k].size <= Len(ApplyDelta(img, base))
         /\ \A i \in 1..Len(ApplyDelta(img, base)) :
              /\ Covered(img, i) => ApplyDelta(img, base)[i] = PatchByte(img, i)
              /\ ~Covered(img, i) /\ i <= Len(base) => ApplyDelta(img, base)[i] = base[i]
<1> DEFINE total == Max({0} \cup {e.off + e.size : e \in ToSet(img.entries)})
           b == Resize(base, total)
           out == Patch(b, img.recs, img.patch)
<1>1. img.entries \in Seq(Entry)
  BY Zenon DEF ImageOK, Image
<1>2. /\ total \in Nat
      /\ \A k \in 1..Len(img.entries) : img.entries[k].off + img.entries[k].size <= total
  <2> HIDE DEF total
  <2>1. total = Max({0} \cup {e.off + e.size : e \in ToSet(img.entries)})
    BY Zenon DEF total
  <2> QED BY <1>1, <2>1, TotalOf, Zenon
<1>3. ApplyDelta(img, base) = out
  BY Zenon DEF ApplyDelta
<1> HIDE DEF total
<1>4. b \in [1..total -> Byte]
  BY <1>2, ImagesAssumption, SMT DEF Resize
<1>5. b \in Seq(Byte) /\ Len(b) = total
  <2> HIDE DEF b
  <2> QED BY <1>2, <1>4, SMT
<1>6. \A i \in 1..total : i <= Len(base) => b[i] = base[i]
  BY Zenon DEF Resize
<1> HIDE DEF b
<1>7. out \in Seq(Byte) /\ Len(out) = Len(b)
  BY <1>5, PatchType, Zenon
<1>8. \A i \in 1..Len(b) : out[i] = IF Covered(img, i) THEN PatchByte(img, i) ELSE b[i]
  BY <1>5, PatchType, Zenon
<1> HIDE DEF out
<1> QED BY <1>2, <1>3, <1>5, <1>6, <1>7, <1>8, Zenon

\* Rebuilt makes a file, or finds none.
LEMMA RebuiltType ==
  ASSUME NEW img, ImageOK(img), NEW base, img.delta => base \in Seq(Byte)
  PROVE  Rebuilt(img, base) \in Seq(Byte) \cup {None}
<1>1. /\ img.zst \in Seq(Byte) \cup {None}
      /\ img.device \in Seq(Byte) \cup {None}
  BY Zenon DEF ImageOK, Image
<1>2. img.delta => ApplyDelta(img, base) \in Seq(Byte)
  BY ApplyDeltaIs, Zenon
<1> QED BY <1>1, <1>2, Zenon DEF Rebuilt

\* The parent of a delta image in a good store is a directory of an image.
LEMMA StoreParents == ASSUME NEW s, StoreOK(s) PROVE ParentsOK(s)
BY Zenon DEF StoreOK, ImageOK, ParentsOK, Dir

\* DeviceStep makes files, or finds none.
LEMMA DeviceStepType ==
  ASSUME NEW s, StoreOK(s), NEW w \in DeviceFiles
  PROVE  DeviceStep(s, w) \in DeviceFiles
<1>1. ASSUME NEW p \in Dir, s[p] # None, ~(s[p].delta /\ w[s[p].parent] = None)
      PROVE  Rebuilt(s[p], w[s[p].parent]) \in Seq(Byte) \cup {None}
  <2>1. ImageOK(s[p])
    BY <1>1, Zenon DEF StoreOK
  <2>2. s[p].delta => w[s[p].parent] \in Seq(Byte) \cup {None}
    BY <1>1, StoreParents, Zenon DEF ParentsOK, DeviceFiles
  <2>3. s[p].delta => w[s[p].parent] \in Seq(Byte)
    BY <1>1, <2>2, Zenon
  <2> QED BY <2>1, <2>3, RebuiltType, Zenon
<1> QED BY <1>1, Zenon DEF DeviceStep, DeviceFiles

\* Devices unfolds to its definition.
LEMMA DevicesDef ==
  ASSUME NEW s, StoreOK(s)
  PROVE  /\ Devices(s) \in [0..Fuel -> DeviceFiles]
         /\ Devices(s)[0] = [p \in Dir |-> None]
         /\ \A n \in 1..Fuel : Devices(s)[n] = DeviceStep(s, Devices(s)[n - 1])
<1> DEFINE v == [p \in Dir |-> None]
           H == [n \in 1..Fuel |-> [w \in DeviceFiles |-> DeviceStep(s, w)]]
           Is(f) == f = [n \in 0..Fuel |->
                      [p \in Dir |->
                        IF n = 0 \/ s[p] = None THEN None
                        ELSE IF s[p].delta /\ f[n - 1][s[p].parent] = None THEN None
                        ELSE Rebuilt(s[p], f[n - 1][s[p].parent])]]
           Is2(f) == f = [n \in 0..Fuel |-> IF n = 0 THEN v ELSE DeviceStep(s, f[n - 1])]
<1>1. v \in DeviceFiles
  BY Zenon DEF DeviceFiles
<1>2. H \in [1..Fuel -> [DeviceFiles -> DeviceFiles]]
  BY DeviceStepType, Zenon
<1>3. PICK f \in [0..Fuel -> DeviceFiles] : Unfolds(f, Fuel, v, H)
  <2> HIDE DEF H, v
  <2> QED BY <1>1, <1>2, FuelNat, Recursion, Zenon
<1>4. \A k \in 1..Fuel : f[k] = DeviceStep(s, f[k - 1])
  <2> TAKE k \in 1..Fuel
  <2>1. f[k - 1] \in DeviceFiles
    BY FuelNat, SMT
  <2>2. H[k][f[k - 1]] = DeviceStep(s, f[k - 1])
    BY <2>1, Zenon
  <2> QED BY <1>3, <2>2, Zenon DEF Unfolds
<1>5. \A g : Is(g) <=> Is2(g)
  <2> TAKE g
  <2> DEFINE A == [n \in 0..Fuel |->
                      [p \in Dir |->
                        IF n = 0 \/ s[p] = None THEN None
                        ELSE IF s[p].delta /\ g[n - 1][s[p].parent] = None THEN None
                        ELSE Rebuilt(s[p], g[n - 1][s[p].parent])]]
             B == [n \in 0..Fuel |-> IF n = 0 THEN v ELSE DeviceStep(s, g[n - 1])]
  <2>1. ASSUME NEW n \in 0..Fuel PROVE A[n] = B[n]
    BY Zenon DEF DeviceStep
  <2>2. A = B
    <3> HIDE DEF v
    <3> QED BY <2>1, Zenon
  <2> QED BY <2>2, Zenon
<1>6. Is2(f)
  <2>1. \A k \in 0..Fuel : k = 0 \/ k \in 1..Fuel
    BY FuelNat, SMT
  <2> HIDE DEF v, H
  <2> QED BY <1>3, <1>4, <2>1, Zenon DEF Unfolds
<1>7. Devices(s) = CHOOSE g : Is(g)
  BY Zenon DEF Devices
<1>8. Is2(Devices(s))
  <2> HIDE DEF Is, Is2
  <2> QED BY <1>5, <1>6, <1>7, Zenon
<1> DEFINE c == Devices(s)
           S == {n \in Nat : c[n] \in DeviceFiles}
<1> HIDE DEF c
<1>10. c = [n \in 0..Fuel |-> IF n = 0 THEN v ELSE DeviceStep(s, c[n - 1])]
  BY <1>8, Zenon DEF c
<1>11. 0 \in 0..Fuel /\ \A n \in 1..Fuel : n \in 0..Fuel /\ n # 0
  BY FuelNat, SMT
<1> HIDE DEF v
<1>12. c[0] = v /\ \A n \in 1..Fuel : c[n] = DeviceStep(s, c[n - 1])
  BY <1>10, <1>11, Zenon
<1>13. 0..Fuel \subseteq S
  <2>1. 0 \in S
    BY <1>12, <1>1, Zenon
  <2>2. ASSUME NEW n \in 1..Fuel, n - 1 \in S PROVE n \in S
    <3>1. n \in Nat
      BY SMT
    <3>2. c[n - 1] \in DeviceFiles
      BY <2>2, Zenon
    <3>3. DeviceStep(s, c[n - 1]) \in DeviceFiles
      <4> HIDE DEF c, S
      <4> QED BY <3>2, DeviceStepType, Zenon
    <3>4. c[n] = DeviceStep(s, c[n - 1])
      BY <1>12, Zenon
    <3>5. c[n] \in DeviceFiles
      BY <3>3, <3>4, Zenon
    <3> QED BY <3>1, <3>5, Zenon
  <2> HIDE DEF S
  <2> QED BY <2>1, <2>2, FuelNat, Induction, Zenon
<1>14. c \in [0..Fuel -> DeviceFiles]
  BY <1>10, <1>13, Zenon
<1> QED BY <1>12, <1>14, Zenon DEF c, v

-----------------------------------------------------------------------------
(* Chains of parents.                                                      *)

\* The chain of an image: itself, and its parent's where it has one.
LEMMA ChainNext ==
  ASSUME NEW s, ParentsOK(s), NEW p \in Dir, NEW n \in 1..Fuel
  PROVE  Chains(s)[n][p] = ChainOf(s, p, Chains(s)[n - 1])
<1>1. Chains(s)[n] = ChainStep(s, Chains(s)[n - 1])
  BY ChainsDef, Zenon
<1> QED BY <1>1, Zenon DEF ChainStep

\* With no steps allowed a chain is not complete; an image is in its own chain.
LEMMA ChainIs ==
  ASSUME NEW s, ParentsOK(s), NEW p \in Dir
  PROVE  /\ Chains(s)[0][p] = {p, None}
         /\ \A n \in 0..Fuel : p \in Chains(s)[n][p] /\ Chains(s)[n][p] \subseteq Dir \cup {None}
<1>1. Chains(s)[0][p] = {p, None}
  BY ChainsDef, Zenon
<1>3. ASSUME NEW n \in 0..Fuel PROVE p \in Chains(s)[n][p]
  <2>1. n = 0 \/ n \in 1..Fuel
    BY FuelNat, SMT
  <2>2. CASE n \in 1..Fuel
    <3>1. Chains(s)[n][p] = ChainOf(s, p, Chains(s)[n - 1])
      BY <2>2, ChainNext, Zenon
    <3> QED BY <3>1, Zenon DEF ChainOf
  <2> QED BY <2>1, <2>2, <1>1, Zenon
<1>4. ASSUME NEW n \in 0..Fuel PROVE Chains(s)[n][p] \subseteq Dir \cup {None}
  <2>1. Chains(s)[n] \in ChainSets
    BY ChainsDef, Zenon
  <2> QED BY <2>1, Zenon DEF ChainSets
<1> QED BY <1>1, <1>3, <1>4, Zenon

\* A chain has None when an image of it is not there.
LEMMA ChainNone ==
  ASSUME NEW s, ParentsOK(s), NEW p \in Dir, NEW n \in 0..Fuel,
         NEW x \in Chains(s)[n][p], x \in Dir, s[x] = None
  PROVE  None \in Chains(s)[n][p]
<1> DEFINE C == Chains(s)
           P(k) == \A q \in Dir : x \in C[k][q] => None \in C[k][q]
           S == {k \in Nat : P(k)}
<1> HIDE DEF C
<1>1. 0 \in S
  BY ChainIs, ZenonT(60) DEF C
<1>2. ASSUME NEW k \in 1..Fuel, k - 1 \in S PROVE k \in S
  <2>1. ASSUME NEW q \in Dir, x \in C[k][q] PROVE None \in C[k][q]
    <3>1. C[k][q] = ChainOf(s, q, C[k - 1])
      BY ChainNext, Zenon DEF C
    <3>2. s[q] # None /\ s[q].delta => s[q].parent \in Dir
      BY Zenon DEF ParentsOK
    <3>3. \A r \in Dir : x \in C[k - 1][r] => None \in C[k - 1][r]
      BY <1>2, Zenon
    <3>4. CASE s[q] = None
      BY <3>1, <3>4, Zenon DEF ChainOf
    <3>5. CASE s[q] # None
      <4>1. x # q
        BY <3>5, Zenon
      <4>2. CASE s[q].delta
        <5>1. C[k][q] = {q} \cup C[k - 1][s[q].parent]
          BY <3>1, <3>5, <4>2, Zenon DEF ChainOf
        <5> QED BY <2>1, <3>2, <3>3, <3>5, <4>1, <4>2, <5>1, Zenon
      <4>3. CASE ~s[q].delta
        <5>1. C[k][q] = {q}
          BY <3>1, <3>5, <4>3, Zenon DEF ChainOf
        <5> QED BY <2>1, <4>1, <5>1, Zenon
      <4> QED BY <4>2, <4>3, Zenon
    <3> QED BY <3>4, <3>5, Zenon
  <2>2. k \in Nat
    BY SMT
  <2> QED BY <2>1, <2>2, Zenon
<1>3. 0..Fuel \subseteq S
  <2> HIDE DEF S
  <2> QED BY <1>1, <1>2, FuelNat, Induction, Zenon
<1> QED BY <1>3, Zenon DEF C

\* A chain that is complete has the parent of every image it has.
LEMMA ChainClosed ==
  ASSUME NEW s, ParentsOK(s), NEW p \in Dir, NEW n \in 0..Fuel, None \notin Chains(s)[n][p],
         NEW x \in Chains(s)[n][p], s[x].delta
  PROVE  s[x].parent \in Chains(s)[n][p]
<1> DEFINE C == Chains(s)
           P(k) == \A q \in Dir :
                     x \in C[k][q] /\ None \notin C[k][q] => s[x].parent \in C[k][q]
           S == {k \in Nat : P(k)}
<1> HIDE DEF C
<1>0. \A k \in 0..Fuel, q \in Dir : q \in C[k][q]
  BY ChainIs, Zenon DEF C
<1>1. 0 \in S
  BY ChainIs, Zenon DEF C
<1>2. ASSUME NEW k \in 1..Fuel, k - 1 \in S PROVE k \in S
  <2>1. ASSUME NEW q \in Dir, x \in C[k][q], None \notin C[k][q]
        PROVE  s[x].parent \in C[k][q]
    <3>1. C[k][q] = ChainOf(s, q, C[k - 1])
      BY ChainNext, Zenon DEF C
    <3>2. s[q] # None /\ s[q].delta => s[q].parent \in Dir
      BY Zenon DEF ParentsOK
    <3>3. k - 1 \in 0..Fuel
      BY FuelNat, SMT
    <3>4. CASE x = q
      BY <2>1, <3>1, <3>2, <3>3, <3>4, <1>0, Zenon DEF ChainOf
    <3>5. CASE x # q
      BY <1>2, <2>1, <3>1, <3>2, <3>5, Zenon DEF ChainOf
    <3> QED BY <3>4, <3>5, Zenon
  <2>2. k \in Nat
    BY SMT
  <2> QED BY <2>1, <2>2, Zenon
<1>3. 0..Fuel \subseteq S
  <2> HIDE DEF S
  <2> QED BY <1>1, <1>2, FuelNat, Induction, Zenon
<1> QED BY <1>3, Zenon DEF C

\* A chain that is complete is the same however many more steps are allowed.
LEMMA ChainMono ==
  ASSUME NEW s, ParentsOK(s), NEW p \in Dir, NEW n \in 1..Fuel, None \notin Chains(s)[n - 1][p]
  PROVE  Chains(s)[n][p] = Chains(s)[n - 1][p]
<1> DEFINE C == Chains(s)
           P(k) == \A q \in Dir : None \notin C[k][q] => C[k + 1][q] = C[k][q]
           S == {k \in Nat : k < Fuel => P(k)}
<1> HIDE DEF C
<1>1. 0 \in S
  BY ChainIs, Zenon DEF C
<1>2. ASSUME NEW k \in 1..Fuel, k - 1 \in S PROVE k \in S
  <2>0. k \in Nat /\ k - 1 < Fuel /\ (k - 1) + 1 = k
    BY FuelNat, SMT
  <2>1. ASSUME NEW q \in Dir, None \notin C[k][q], k < Fuel PROVE C[k + 1][q] = C[k][q]
    <3>0. k + 1 \in 1..Fuel /\ (k + 1) - 1 = k
      BY <2>1, FuelNat, SMT
    <3>1. C[k][q] = ChainOf(s, q, C[k - 1])
      BY ChainNext, Zenon DEF C
    <3>2. C[k + 1][q] = ChainOf(s, q, C[(k + 1) - 1])
      BY <3>0, ChainNext, Zenon DEF C
    <3>3. s[q] # None /\ s[q].delta => s[q].parent \in Dir
      BY Zenon DEF ParentsOK
    <3>4. \A r \in Dir : None \notin C[k - 1][r] => C[k][r] = C[k - 1][r]
      BY <1>2, <2>0, Zenon
    <3> QED BY <2>1, <3>0, <3>1, <3>2, <3>3, <3>4, Zenon DEF ChainOf
  <2> QED BY <2>0, <2>1, Zenon
<1>3. 0..Fuel \subseteq S
  <2> HIDE DEF S
  <2> QED BY <1>1, <1>2, FuelNat, Induction, Zenon
<1>4. n - 1 \in 0..Fuel /\ n - 1 < Fuel /\ (n - 1) + 1 = n
  BY FuelNat, SMT
<1> QED BY <1>3, <1>4, Zenon DEF C

\* Directory x has the same parent in both stores, or is missing in both.
LinkSame(s, t, x) ==
  /\ s[x] = None <=> t[x] = None
  /\ s[x] # None => (s[x].delta <=> t[x].delta) /\ s[x].parent = t[x].parent

\* A chain depends only on the images it has.
LEMMA ChainAgree ==
  ASSUME NEW s, ParentsOK(s), NEW t, ParentsOK(t), NEW p \in Dir, NEW n \in 0..Fuel,
         \A x \in Chains(s)[n][p] \cap Dir : LinkSame(s, t, x)
  PROVE  Chains(t)[n][p] = Chains(s)[n][p]
<1> DEFINE C == Chains(s)
           D == Chains(t)
           P(k) == \A q \in Dir :
                     (\A x \in C[k][q] \cap Dir : LinkSame(s, t, x)) => D[k][q] = C[k][q]
           S == {k \in Nat : P(k)}
<1> HIDE DEF C, D
<1>0. \A k \in 0..Fuel, q \in Dir : q \in C[k][q]
  BY ChainIs, Zenon DEF C
<1>1. 0 \in S
  <2>1. \A q \in Dir : C[0][q] = {q, None} /\ D[0][q] = {q, None}
    BY ChainIs, Zenon DEF C, D
  <2> QED BY <2>1, Zenon
<1>2. ASSUME NEW k \in 1..Fuel, k - 1 \in S PROVE k \in S
  <2>0. k \in Nat /\ k \in 0..Fuel /\ k - 1 \in 0..Fuel
    BY FuelNat, SMT
  <2>1. ASSUME NEW q \in Dir, \A x \in C[k][q] \cap Dir : LinkSame(s, t, x)
        PROVE  D[k][q] = C[k][q]
    <3>1. C[k][q] = ChainOf(s, q, C[k - 1])
      BY ChainNext, Zenon DEF C
    <3>2. D[k][q] = ChainOf(t, q, D[k - 1])
      BY ChainNext, Zenon DEF D
    <3>3. LinkSame(s, t, q)
      BY <2>0, <2>1, <1>0, Zenon
    <3>4. CASE s[q] = None
      BY <3>1, <3>2, <3>3, <3>4, Zenon DEF ChainOf, LinkSame
    <3>5. CASE s[q] # None /\ ~s[q].delta
      <4>1. C[k][q] = {q}
        BY <3>1, <3>5, Zenon DEF ChainOf
      <4>2. t[q] # None /\ ~t[q].delta
        BY <3>3, <3>5, Zenon DEF LinkSame
      <4>3. D[k][q] = {q}
        BY <3>2, <4>2, Zenon DEF ChainOf
      <4> QED BY <4>1, <4>3, Zenon
    <3>6. CASE s[q] # None /\ s[q].delta
      <4> DEFINE r == s[q].parent
      <4>1. C[k][q] = {q} \cup C[k - 1][r]
        BY <3>1, <3>6, Zenon DEF ChainOf
      <4>2. t[q] # None /\ t[q].delta /\ t[q].parent = r
        BY <3>3, <3>6, Zenon DEF LinkSame
      <4>3. D[k][q] = {q} \cup D[k - 1][r]
        BY <3>2, <4>2, Zenon DEF ChainOf
      <4>4. r \in Dir
        BY <3>6, Zenon DEF ParentsOK
      <4>5. \A x \in C[k - 1][r] \cap Dir : LinkSame(s, t, x)
        BY <2>1, <4>1, Zenon
      <4> HIDE DEF r
      <4>6. D[k - 1][r] = C[k - 1][r]
        BY <1>2, <4>4, <4>5, Zenon
      <4> QED BY <4>1, <4>3, <4>6, Zenon
    <3> QED BY <3>4, <3>5, <3>6, Zenon
  <2> QED BY <2>0, <2>1, Zenon
<1>3. 0..Fuel \subseteq S
  <2> HIDE DEF S
  <2> QED BY <1>1, <1>2, FuelNat, Induction, Zenon
<1> QED BY <1>3, Zenon DEF C, D

-----------------------------------------------------------------------------
(* What materialization makes of an image.                                 *)

\* A chunk of img is in the parent with the same contents but lies elsewhere.
Moved(img, par) ==
  \E k \in 1..Len(img.entries), m \in 1..Len(par.entries) :
    Same(par.entries[m], img.entries[k]) /\ par.entries[m].off # img.entries[k].off

\* The fields of an entry of a manifest.
LEMMA EntryFields ==
  ASSUME NEW es \in Seq(Entry), NEW k \in 1..Len(es)
  PROVE  /\ es[k].ptr \in Address /\ es[k].size \in Nat /\ es[k].off \in Nat
         /\ es[k].crc \in Seq(Byte)
<1>1. es[k] \in Entry
  BY SMT
<1> QED BY <1>1, Zenon DEF Entry

\* ApplyDelta on a device.bin that has the parent's chunks makes one that has the
\* image's, unless a chunk has moved.
LEMMA ApplyHolds ==
  ASSUME NEW img, ImageOK(img), NEW par, ImageOK(par), DeltaOK(img, par), ~Moved(img, par),
         NEW base \in Seq(Byte), Holds(base, par.entries)
  PROVE  /\ ApplyDelta(img, base) \in Seq(Byte)
         /\ Holds(ApplyDelta(img, base), img.entries)
<1> DEFINE out == ApplyDelta(img, base)
           es == img.entries
           ps == par.entries
<1>1. out \in Seq(Byte)
  BY ApplyDeltaIs, Zenon
<1>2. \A k \in 1..Len(es) : es[k].off + es[k].size <= Len(out)
  BY ApplyDeltaIs, Zenon
<1>3. \A i \in 1..Len(out) :
        /\ Covered(img, i) => out[i] = PatchByte(img, i)
        /\ ~Covered(img, i) /\ i <= Len(base) => out[i] = base[i]
  BY ApplyDeltaIs, Zenon
<1>4. es \in Seq(Entry) /\ ps \in Seq(Entry)
  BY Zenon DEF ImageOK, Image
<1> HIDE DEF out
<1>5. ASSUME NEW k \in 1..Len(es), NEW j \in 1..es[k].size PROVE out[es[k].off + j] = es[k].crc[j]
  <2> DEFINE e == es[k]
  <2>1. e.size \in Nat /\ e.off \in Nat
    BY <1>4, EntryFields, Zenon
  <2>2. ByteOK(img, par, e, j)
    BY Zenon DEF DeltaOK
  <2>3. e.off + e.size <= Len(out)
    BY <1>2, Zenon
  <2>4. j \in 1..e.size
    BY Zenon
  <2> HIDE DEF e
  <2>5. e.off + j \in 1..Len(out)
    BY <1>1, <2>1, <2>3, <2>4, SMT
  <2>6. CASE Covered(img, e.off + j)
    BY <2>2, <2>5, <2>6, <1>3, Zenon DEF ByteOK, e
  <2>7. CASE ~Covered(img, e.off + j)
    <3>1. PICK m \in 1..Len(ps) : Same(ps[m], e)
      BY <2>2, <2>7, Zenon DEF ByteOK
    <3>2. ps[m].off = e.off
      BY <3>1, Zenon DEF Moved, e
    <3>3. ps[m].size = e.size /\ ps[m].crc = e.crc
      BY <3>1, Zenon DEF Same
    <3>4. ChunkIn(base, ps[m])
      BY Zenon DEF Holds
    <3>5. e.off + e.size <= Len(base) /\ base[e.off + j] = e.crc[j]
      BY <2>4, <3>2, <3>3, <3>4, Zenon DEF ChunkIn
    <3>6. e.off + j <= Len(base)
      BY <2>1, <2>4, <3>5, SMT
    <3> QED BY <2>5, <2>7, <3>5, <3>6, <1>3, Zenon DEF e
  <2> QED BY <2>6, <2>7, Zenon
<1> QED BY <1>1, <1>2, <1>5, Zenon DEF Holds, ChunkIn, out

\* A complete chain whose links are as WriteDelta made them.
LinksIntact(s, c) ==
  \A x \in c : s[x].delta => DeltaOK(s[x], s[s[x].parent])

NoneMoved(s, c) ==
  \A x \in c : s[x].delta => ~Moved(s[x], s[s[x].parent])

\* An image whose chain is complete, intact and without moved chunks materializes to
\* a device.bin that has every chunk of its manifest.
LEMMA Rebuild ==
  ASSUME NEW s, StoreOK(s), NEW p \in Dir, NEW n \in 0..Fuel, None \notin Chains(s)[n][p],
         LinksIntact(s, Chains(s)[n][p]), NoneMoved(s, Chains(s)[n][p])
  PROVE  Devices(s)[n][p] \in Seq(Byte) /\ Holds(Devices(s)[n][p], s[p].entries)
<1> DEFINE C == Chains(s)
           D == Devices(s)
           P(k) == \A q \in Dir :
                     None \notin C[k][q] /\ LinksIntact(s, C[k][q]) /\ NoneMoved(s, C[k][q])
                       => D[k][q] \in Seq(Byte) /\ Holds(D[k][q], s[q].entries)
           S == {k \in Nat : P(k)}
<1>0. ParentsOK(s)
  BY StoreParents
<1> HIDE DEF C, D
<1>a. \A k \in 0..Fuel, q \in Dir : q \in C[k][q]
  BY <1>0, ChainIs, Zenon DEF C
<1>1. 0 \in S
  <2>1. \A q \in Dir : C[0][q] = {q, None}
    BY <1>0, ChainIs, Zenon DEF C
  <2> QED BY <2>1, Zenon
<1>2. ASSUME NEW k \in 1..Fuel, k - 1 \in S PROVE k \in S
  <2>0. k \in Nat /\ k \in 0..Fuel /\ k - 1 \in 0..Fuel
    BY FuelNat, SMT
  <2>1. ASSUME NEW q \in Dir, None \notin C[k][q], LinksIntact(s, C[k][q]), NoneMoved(s, C[k][q])
        PROVE  D[k][q] \in Seq(Byte) /\ Holds(D[k][q], s[q].entries)
    <3>1. C[k][q] = ChainOf(s, q, C[k - 1])
      BY <1>0, ChainNext, Zenon DEF C
    <3>2. D[k] = DeviceStep(s, D[k - 1])
      BY DevicesDef, Zenon DEF D
    <3>3. s[q] # None
      BY <2>1, <3>1, Zenon DEF ChainOf
    <3>4. ImageOK(s[q]) /\ q \in C[k][q]
      BY <3>3, <2>0, <1>a, Zenon DEF StoreOK
    <3>5. CASE ~s[q].delta
      <4>1. D[k][q] = Own(s[q])
        BY <3>2, <3>3, <3>5, Zenon DEF DeviceStep, Rebuilt, Own
      <4> QED BY <3>4, <3>5, <4>1, Zenon DEF ImageOK
    <3>6. CASE s[q].delta
      <4> DEFINE r == s[q].parent
      <4>1. C[k][q] = {q} \cup C[k - 1][r]
        BY <3>1, <3>3, <3>6, Zenon DEF ChainOf
      <4>2. r \in Dir /\ r \in C[k - 1][r]
        BY <1>0, <1>a, <2>0, <3>3, <3>6, Zenon DEF ParentsOK
      <4>3. DeltaOK(s[q], s[r]) /\ ~Moved(s[q], s[r])
        BY <2>1, <3>4, <3>6, Zenon DEF LinksIntact, NoneMoved
      <4>4. ~s[q].compressed
        BY <3>4, <3>6, Zenon DEF ImageOK
      <4>5. D[k][q] = IF D[k - 1][r] = None THEN None ELSE ApplyDelta(s[q], D[k - 1][r])
        BY <3>2, <3>3, <3>6, <4>4, Zenon DEF DeviceStep, Rebuilt
      <4> HIDE DEF r
      <4>6. None \notin C[k - 1][r] /\ LinksIntact(s, C[k - 1][r]) /\ NoneMoved(s, C[k - 1][r])
        BY <2>1, <4>1, Zenon DEF LinksIntact, NoneMoved
      <4>7. D[k - 1][r] \in Seq(Byte) /\ Holds(D[k - 1][r], s[r].entries)
        BY <1>2, <4>2, <4>6, Zenon
      <4>8. s[r] # None
        <5>1. s[r] = None => None \in C[k - 1][r]
          BY <1>0, <2>0, <4>2, ChainNone, Zenon DEF C
        <5> QED BY <5>1, <4>6, Zenon
      <4>9. ImageOK(s[r])
        BY <4>2, <4>8, Zenon DEF StoreOK
      <4>10. D[k - 1][r] # None
        BY <4>7, ImagesAssumption, Zenon
      <4> QED BY <3>4, <4>3, <4>5, <4>7, <4>9, <4>10, ApplyHolds, Zenon
    <3> QED BY <3>5, <3>6, Zenon
  <2> QED BY <2>0, <2>1, Zenon
<1>3. 0..Fuel \subseteq S
  <2> HIDE DEF S
  <2> QED BY <1>1, <1>2, FuelNat, Induction, Zenon
<1> QED BY <1>3, Zenon DEF C, D

-----------------------------------------------------------------------------
(* Chunks laid one after the other.                                        *)

\* The ends are in order.
LEMMA EndsMono ==
  ASSUME NEW sizes \in Seq(Nat), NEW k \in 0..Len(sizes), NEW i \in 0..k
  PROVE  Ends(sizes)[i] <= Ends(sizes)[k]
<1> DEFINE E == Ends(sizes)
           m == Len(sizes)
           S == {n \in Nat : \A h \in 0..n : E[h] <= E[n]}
<1>1. /\ E \in [0..m -> Nat] /\ m \in Nat
      /\ \A n \in 1..m : E[n] = E[n - 1] + sizes[n] /\ sizes[n] \in Nat
  BY EndsDef, SMT
<1> HIDE DEF E, m
<1>2. 0 \in S
  BY <1>1, SMT
<1>3. ASSUME NEW n \in 1..m, n - 1 \in S PROVE n \in S
  <2>1. n \in Nat /\ n - 1 \in 0..m /\ n \in 0..m
    BY <1>1, SMT
  <2>2. E[n - 1] \in Nat /\ E[n] = E[n - 1] + sizes[n] /\ sizes[n] \in Nat
    BY <1>1, <2>1, Zenon
  <2>3. ASSUME NEW h \in 0..n PROVE E[h] <= E[n]
    <3>1. CASE h = n
      BY <3>1, <2>2, SMT
    <3>2. CASE h # n
      <4>1. h \in 0..(n - 1) /\ h \in 0..m
        BY <3>2, <1>1, SMT
      <4>2. E[h] <= E[n - 1] /\ E[h] \in Nat
        BY <1>1, <1>3, <4>1, Zenon
      <4> QED BY <2>2, <4>2, SMT
    <3> QED BY <3>1, <3>2
  <2> QED BY <2>1, <2>3, Zenon
<1>4. 0..m \subseteq S
  <2> HIDE DEF S
  <2> QED BY <1>1, <1>2, <1>3, Induction, Zenon
<1> QED BY <1>4, Zenon DEF E, m

\* Byte j lies in the i-th chunk.
InChunk(sizes, i, j) == Ends(sizes)[i - 1] < j /\ j <= Ends(sizes)[i]

\* A byte lies in one chunk at most.
LEMMA ChunkUnique ==
  ASSUME NEW sizes \in Seq(Nat), NEW i \in 1..Len(sizes), NEW k \in 1..Len(sizes),
         NEW j \in Nat, InChunk(sizes, i, j), InChunk(sizes, k, j)
  PROVE  i = k
<1>0. Len(sizes) \in Nat
  BY SMT
<1>a. i - 1 \in 0..Len(sizes) /\ k - 1 \in 0..Len(sizes) /\ i \in 0..Len(sizes) /\ k \in 0..Len(sizes)
  BY <1>0, SMT
<1>b. /\ Ends(sizes)[i] \in Nat /\ Ends(sizes)[i - 1] \in Nat
      /\ Ends(sizes)[k] \in Nat /\ Ends(sizes)[k - 1] \in Nat
  BY <1>a, EndsDef, Zenon
<1>1. i < k => Ends(sizes)[i] <= Ends(sizes)[k - 1]
  <2>1. i < k => i \in 0..(k - 1)
    BY SMT
  <2> QED BY <2>1, <1>a, EndsMono, Zenon
<1>2. k < i => Ends(sizes)[k] <= Ends(sizes)[i - 1]
  <2>1. k < i => k \in 0..(i - 1)
    BY SMT
  <2> QED BY <2>1, <1>a, EndsMono, Zenon
<1>3. /\ Ends(sizes)[i - 1] < j /\ j <= Ends(sizes)[i]
      /\ Ends(sizes)[k - 1] < j /\ j <= Ends(sizes)[k]
  BY Zenon DEF InChunk
<1>4. \A x, y, z \in Nat : ~(x <= y /\ y < z /\ z <= x)
  BY SMT
<1>5. ~(i < k) /\ ~(k < i)
  BY <1>1, <1>2, <1>3, <1>4, <1>b, Zenon
<1> QED BY <1>5, <1>0, SMT

\* Every byte before the last end lies in a chunk.
LEMMA ChunkExists ==
  ASSUME NEW sizes \in Seq(Nat), NEW j \in 1..Ends(sizes)[Len(sizes)]
  PROVE  \E i \in 1..Len(sizes) : InChunk(sizes, i, j)
<1> DEFINE E == Ends(sizes)
           m == Len(sizes)
           T == {n \in Nat : n <= m /\ j <= E[n]}
<1>1. E \in [0..m -> Nat] /\ m \in Nat /\ E[0] = 0
  BY EndsDef, SMT
<1> HIDE DEF E, m
<1>2. E[m] \in Nat
  BY <1>1, SMT
<1>3. j \in 1..E[m]
  BY Zenon DEF E, m
<1>4. m \in T
  BY <1>1, <1>2, <1>3, SMT
<1>5. PICK i \in T : \A y \in T : ~(y < i)
  <2>1. T \subseteq Nat
    BY Zenon
  <2> HIDE DEF T
  <2> QED BY <1>4, <2>1, Least, Zenon
<1>6. i \in Nat /\ i <= m /\ j <= E[i]
  BY Zenon
<1>7. i # 0
  BY <1>1, <1>2, <1>3, <1>6, SMT
<1>8. i \in 1..m /\ i - 1 < i /\ i - 1 \in Nat /\ i - 1 <= m /\ i - 1 \in 0..m
  BY <1>1, <1>6, <1>7, SMT
<1>9. ~(j <= E[i - 1])
  BY <1>5, <1>8, Zenon
<1>10. E[i - 1] < j
  <2>1. E[i - 1] \in Nat
    BY <1>1, <1>8, Zenon
  <2> QED BY <2>1, <1>2, <1>3, <1>9, SMT
<1> QED BY <1>6, <1>8, <1>10, Zenon DEF InChunk, E, m

\* The chunks of a manifest do not overlap.
Laid(es) ==
  \A i, k \in 1..Len(es) : i < k => es[i].off + es[i].size <= es[k].off

-----------------------------------------------------------------------------
(* The operations on an image.                                             *)

\* b is a with another device.bin, or with the compressed flag changed.
Kin(a, b) ==
  /\ b.entries = a.entries /\ (b.delta <=> a.delta) /\ b.parent = a.parent
  /\ b.recs = a.recs /\ b.patch = a.patch

\* The fields of an image.
LEMMA ImageFields ==
  ASSUME NEW img \in Image
  PROVE  /\ img.entries \in Seq(Entry) /\ img.compressed \in BOOLEAN /\ img.delta \in BOOLEAN
         /\ img.device \in Seq(Byte) \cup {None} /\ img.zst \in Seq(Byte) \cup {None}
         /\ img.parent \in Path \cup {None} /\ img.recs \in SUBSET Record /\ img.patch \in Seq(Byte)
BY Zenon DEF Image

\* An image given by its fields.
LEMMA ImageRecord ==
  ASSUME NEW es \in Seq(Entry), NEW c \in BOOLEAN, NEW d \in BOOLEAN,
         NEW dev \in Seq(Byte) \cup {None}, NEW z \in Seq(Byte) \cup {None},
         NEW par \in Path \cup {None}, NEW rs \in SUBSET Record, NEW pt \in Seq(Byte)
  PROVE  [entries |-> es, compressed |-> c, delta |-> d, device |-> dev,
          zst |-> z, parent |-> par, recs |-> rs, patch |-> pt] \in Image
<1> DEFINE B == Seq(Byte)
           C == Seq(Entry)
<1> HIDE DEF B, C
<1>1. es \in C /\ dev \in B \cup {None} /\ z \in B \cup {None} /\ pt \in B
  BY Zenon DEF B, C
<1>2. [entries |-> es, compressed |-> c, delta |-> d, device |-> dev,
       zst |-> z, parent |-> par, recs |-> rs, patch |-> pt]
        \in [entries : C, compressed : BOOLEAN, delta : BOOLEAN,
             device : B \cup {None}, zst : B \cup {None},
             parent : Path \cup {None}, recs : SUBSET Record, patch : B]
  BY <1>1, Zenon
<1> QED BY <1>2, Zenon DEF Image, B, C

\* What materialization and DropDevice make of an image, and what WriteDelta adds.
With(img, d) == [img EXCEPT !.device = d, !.compressed = FALSE]
Without(img) == [img EXCEPT !.device = None]
Linked(img, q, rs, pt) == [img EXCEPT !.delta = TRUE, !.parent = q, !.recs = rs, !.patch = pt]

\* An image has these fields and no others.
LEMMA ImageIs ==
  ASSUME NEW img \in Image
  PROVE  \E f1, f2, f3, f4, f5, f6, f7, f8 :
           img = [entries |-> f1, compressed |-> f2, delta |-> f3, device |-> f4,
                  zst |-> f5, parent |-> f6, recs |-> f7, patch |-> f8]
BY ZenonT(60) DEF Image

\* With, field by field.
LEMMA WithRecord ==
  ASSUME NEW img \in Image, NEW d
  PROVE  With(img, d)
           = [entries |-> img.entries, compressed |-> FALSE, delta |-> img.delta, device |-> d,
              zst |-> img.zst, parent |-> img.parent, recs |-> img.recs, patch |-> img.patch]
<1>1. PICK f1, f2, f3, f4, f5, f6, f7, f8 :
        img = [entries |-> f1, compressed |-> f2, delta |-> f3, device |-> f4,
               zst |-> f5, parent |-> f6, recs |-> f7, patch |-> f8]
  BY ImageIs
<1>2. /\ img.entries = f1 /\ img.compressed = f2 /\ img.delta = f3 /\ img.device = f4
      /\ img.zst = f5 /\ img.parent = f6 /\ img.recs = f7 /\ img.patch = f8
  BY <1>1, SMT
<1> DEFINE no == FALSE
<1> HIDE DEF no
<1>3. [img EXCEPT !.device = d, !.compressed = no]
        = [entries |-> f1, compressed |-> no, delta |-> f3, device |-> d,
           zst |-> f5, parent |-> f6, recs |-> f7, patch |-> f8]
  <2> DEFINE r1 == [entries |-> f1, compressed |-> f2, delta |-> f3, device |-> d,
                   zst |-> f5, parent |-> f6, recs |-> f7, patch |-> f8]
             r2 == [entries |-> f1, compressed |-> no, delta |-> f3, device |-> d,
                   zst |-> f5, parent |-> f6, recs |-> f7, patch |-> f8]
  <2>1. [img EXCEPT !.device = d] = r1
    BY <1>1, SMT
  <2>2. [r1 EXCEPT !.compressed = no] = r2
    BY <1>1, SMT
  <2>3. [img EXCEPT !.device = d, !.compressed = no]
        = [[img EXCEPT !.device = d] EXCEPT !.compressed = no]
    BY Zenon
  <2> HIDE DEF r1, r2
  <2>4. [img EXCEPT !.device = d, !.compressed = no] = r2
    BY <2>1, <2>2, <2>3, Zenon
  <2> QED BY <2>4, Zenon DEF r2
<1>7. With(img, d)
        = [entries |-> f1, compressed |-> FALSE, delta |-> f3, device |-> d,
           zst |-> f5, parent |-> f6, recs |-> f7, patch |-> f8]
  BY <1>3, Zenon DEF With, no
<1> QED BY <1>2, <1>7, Zenon

\* Without, field by field.
LEMMA WithoutRecord ==
  ASSUME NEW img \in Image
  PROVE  Without(img)
           = [entries |-> img.entries, compressed |-> img.compressed, delta |-> img.delta,
              device |-> None, zst |-> img.zst, parent |-> img.parent, recs |-> img.recs,
              patch |-> img.patch]
<1>1. PICK f1, f2, f3, f4, f5, f6, f7, f8 :
        img = [entries |-> f1, compressed |-> f2, delta |-> f3, device |-> f4,
               zst |-> f5, parent |-> f6, recs |-> f7, patch |-> f8]
  BY ImageIs
<1>2. /\ img.entries = f1 /\ img.compressed = f2 /\ img.delta = f3 /\ img.device = f4
      /\ img.zst = f5 /\ img.parent = f6 /\ img.recs = f7 /\ img.patch = f8
  BY <1>1, SMT
<1>4. [img EXCEPT !.device = None]
        = [entries |-> f1, compressed |-> f2, delta |-> f3, device |-> None,
           zst |-> f5, parent |-> f6, recs |-> f7, patch |-> f8]
  BY <1>1, SMT
<1>8. Without(img)
        = [entries |-> f1, compressed |-> f2, delta |-> f3, device |-> None,
           zst |-> f5, parent |-> f6, recs |-> f7, patch |-> f8]
  BY <1>4, Zenon DEF Without
<1> QED BY <1>2, <1>8, Zenon

\* CompressDevice, field by field.
LEMMA CompressRecord ==
  ASSUME NEW img \in Image
  PROVE  CompressDevice(img)
           = [entries |-> img.entries, compressed |-> TRUE, delta |-> img.delta,
              device |-> img.device, zst |-> img.device, parent |-> img.parent,
              recs |-> img.recs, patch |-> img.patch]
<1>1. PICK f1, f2, f3, f4, f5, f6, f7, f8 :
        img = [entries |-> f1, compressed |-> f2, delta |-> f3, device |-> f4,
               zst |-> f5, parent |-> f6, recs |-> f7, patch |-> f8]
  BY ImageIs
<1>2. /\ img.entries = f1 /\ img.compressed = f2 /\ img.delta = f3 /\ img.device = f4
      /\ img.zst = f5 /\ img.parent = f6 /\ img.recs = f7 /\ img.patch = f8
  BY <1>1, SMT
<1> DEFINE yes == TRUE
<1> HIDE DEF yes
<1>5. [img EXCEPT !.zst = img.device, !.compressed = yes]
        = [entries |-> f1, compressed |-> yes, delta |-> f3, device |-> f4,
           zst |-> img.device, parent |-> f6, recs |-> f7, patch |-> f8]
  <2> DEFINE r1 == [entries |-> f1, compressed |-> f2, delta |-> f3, device |-> f4,
                   zst |-> img.device, parent |-> f6, recs |-> f7, patch |-> f8]
             r2 == [entries |-> f1, compressed |-> yes, delta |-> f3, device |-> f4,
                   zst |-> img.device, parent |-> f6, recs |-> f7, patch |-> f8]
  <2>1. [img EXCEPT !.zst = img.device] = r1
    BY <1>1, SMT
  <2>2. [r1 EXCEPT !.compressed = yes] = r2
    BY <1>1, SMT
  <2>3. [img EXCEPT !.zst = img.device, !.compressed = yes]
        = [[img EXCEPT !.zst = img.device] EXCEPT !.compressed = yes]
    BY Zenon
  <2> HIDE DEF r1, r2
  <2>4. [img EXCEPT !.zst = img.device, !.compressed = yes] = r2
    BY <2>1, <2>2, <2>3, Zenon
  <2> QED BY <2>4, Zenon DEF r2
<1>9. CompressDevice(img)
        = [entries |-> f1, compressed |-> TRUE, delta |-> f3, device |-> f4,
           zst |-> img.device, parent |-> f6, recs |-> f7, patch |-> f8]
  BY <1>5, Zenon DEF CompressDevice, yes
<1> QED BY <1>2, <1>9, Zenon

\* Linked, field by field.
LEMMA LinkedRecord ==
  ASSUME NEW img \in Image, NEW q, NEW rs, NEW pt
  PROVE  Linked(img, q, rs, pt)
           = [entries |-> img.entries, compressed |-> img.compressed, delta |-> TRUE,
              device |-> img.device, zst |-> img.zst, parent |-> q, recs |-> rs, patch |-> pt]
<1>1. PICK f1, f2, f3, f4, f5, f6, f7, f8 :
        img = [entries |-> f1, compressed |-> f2, delta |-> f3, device |-> f4,
               zst |-> f5, parent |-> f6, recs |-> f7, patch |-> f8]
  BY ImageIs
<1>2. /\ img.entries = f1 /\ img.compressed = f2 /\ img.delta = f3 /\ img.device = f4
      /\ img.zst = f5 /\ img.parent = f6 /\ img.recs = f7 /\ img.patch = f8
  BY <1>1, SMT
<1> DEFINE yes == TRUE
<1> HIDE DEF yes
<1>6. [img EXCEPT !.delta = yes, !.parent = q, !.recs = rs, !.patch = pt]
        = [entries |-> f1, compressed |-> f2, delta |-> yes, device |-> f4,
           zst |-> f5, parent |-> q, recs |-> rs, patch |-> pt]
  <2> DEFINE r1 == [entries |-> f1, compressed |-> f2, delta |-> yes, device |-> f4,
                   zst |-> f5, parent |-> f6, recs |-> f7, patch |-> f8]
             r2 == [entries |-> f1, compressed |-> f2, delta |-> yes, device |-> f4,
                   zst |-> f5, parent |-> q, recs |-> f7, patch |-> f8]
             r3 == [entries |-> f1, compressed |-> f2, delta |-> yes, device |-> f4,
                   zst |-> f5, parent |-> q, recs |-> rs, patch |-> f8]
             r4 == [entries |-> f1, compressed |-> f2, delta |-> yes, device |-> f4,
                   zst |-> f5, parent |-> q, recs |-> rs, patch |-> pt]
  <2>1. [img EXCEPT !.delta = yes] = r1
    BY <1>1, SMT
  <2>2. [r1 EXCEPT !.parent = q] = r2
    BY <1>1, SMT
  <2>3. [r2 EXCEPT !.recs = rs] = r3
    BY <1>1, SMT
  <2>4. [r3 EXCEPT !.patch = pt] = r4
    BY <1>1, SMT
  <2>5. [img EXCEPT !.delta = yes, !.parent = q, !.recs = rs, !.patch = pt]
        = [[[[img EXCEPT !.delta = yes] EXCEPT !.parent = q] EXCEPT !.recs = rs] EXCEPT !.patch = pt]
    BY Zenon
  <2> HIDE DEF r1, r2, r3, r4
  <2>6. [img EXCEPT !.delta = yes, !.parent = q, !.recs = rs, !.patch = pt] = r4
    BY <2>1, <2>2, <2>3, <2>4, <2>5, Zenon
  <2> QED BY <2>6, Zenon DEF r4
<1>10. Linked(img, q, rs, pt)
        = [entries |-> f1, compressed |-> f2, delta |-> TRUE, device |-> f4,
           zst |-> f5, parent |-> q, recs |-> rs, patch |-> pt]
  BY <1>6, Zenon DEF Linked, yes
<1> QED BY <1>2, <1>10, Zenon

\* Materialization changes device.bin and the compressed flag.
LEMMA WithIs ==
  ASSUME NEW img \in Image, NEW d \in Seq(Byte) \cup {None}
  PROVE  /\ With(img, d) \in Image /\ Kin(img, With(img, d))
         /\ With(img, d).device = d /\ ~With(img, d).compressed
<1> DEFINE rec == [entries |-> img.entries, compressed |-> FALSE, delta |-> img.delta, device |-> d,
                   zst |-> img.zst, parent |-> img.parent, recs |-> img.recs, patch |-> img.patch]
<1>1. With(img, d) = rec
  BY WithRecord, Zenon
<1>2. rec \in Image
  BY ImageFields, ImageRecord, Zenon
<1>3. Kin(img, rec) /\ rec.device = d /\ ~rec.compressed
  BY Zenon DEF Kin
<1> HIDE DEF rec
<1> QED BY <1>1, <1>2, <1>3, Zenon

\* An image of which only device.bin and the compressed flag have changed is still
\* good when it materializes from the same bytes.
LEMMA KinOK ==
  ASSUME NEW a, ImageOK(a), NEW b \in Image, Kin(a, b),
         a.delta => ~b.compressed, ~a.delta => Own(b) = Own(a)
  PROVE  ImageOK(b)
<1>1. ManifestOK(b.entries)
  BY Zenon DEF ImageOK, Kin
<1>2. RecordsOK(b)
  BY Zenon DEF ImageOK, Kin, RecordsOK
<1>3. b.delta => b.parent \in Path /\ ~b.compressed
  BY Zenon DEF ImageOK, Kin
<1>4. ~b.delta => Own(b) \in Seq(Byte) /\ Holds(Own(b), b.entries)
  BY Zenon DEF ImageOK, Kin
<1> QED BY <1>1, <1>2, <1>3, <1>4, Zenon DEF ImageOK

\* Stores that differ only in device.bin and compressed flags.
Alike(s, t, q) == (s[q] = None <=> t[q] = None) /\ (s[q] # None => Kin(s[q], t[q]))

\* An image that materializes has a complete chain.
LEMMA DeviceChain ==
  ASSUME NEW s, StoreOK(s), NEW p \in Dir, NEW n \in 0..Fuel, Devices(s)[n][p] # None
  PROVE  None \notin Chains(s)[n][p]
<1> DEFINE C == Chains(s)
           D == Devices(s)
           P(k) == \A q \in Dir : D[k][q] # None => None \notin C[k][q]
           S == {k \in Nat : P(k)}
<1>0. ParentsOK(s)
  BY StoreParents
<1> HIDE DEF C, D
<1>1. 0 \in S
  <2>1. \A q \in Dir : D[0][q] = None
    BY DevicesDef, Zenon DEF D
  <2> QED BY <2>1, Zenon
<1>2. ASSUME NEW k \in 1..Fuel, k - 1 \in S PROVE k \in S
  <2>1. ASSUME NEW q \in Dir, D[k][q] # None PROVE None \notin C[k][q]
    <3>1. C[k][q] = ChainOf(s, q, C[k - 1])
      BY <1>0, ChainNext, Zenon DEF C
    <3>2. D[k] = DeviceStep(s, D[k - 1])
      BY DevicesDef, Zenon DEF D
    <3>3. s[q] # None
      BY <2>1, <3>2, Zenon DEF DeviceStep
    <3>4. q # None
      BY ImagesAssumption, Zenon
    <3>5. CASE ~s[q].delta
      <4>1. C[k][q] = {q}
        BY <3>1, <3>3, <3>5, Zenon DEF ChainOf
      <4> QED BY <3>4, <4>1, Zenon
    <3>6. CASE s[q].delta
      <4> DEFINE r == s[q].parent
      <4>1. C[k][q] = {q} \cup C[k - 1][r]
        BY <3>1, <3>3, <3>6, Zenon DEF ChainOf
      <4>2. r \in Dir
        BY <1>0, <3>3, <3>6, Zenon DEF ParentsOK
      <4>3. D[k - 1][r] # None
        BY <2>1, <3>2, <3>3, <3>6, Zenon DEF DeviceStep
      <4> HIDE DEF r
      <4>4. None \notin C[k - 1][r]
        BY <1>2, <4>2, <4>3, Zenon
      <4> QED BY <3>4, <4>1, <4>4, Zenon
    <3> QED BY <3>5, <3>6, Zenon
  <2>2. k \in Nat
    BY SMT
  <2> QED BY <2>1, <2>2, Zenon
<1>3. 0..Fuel \subseteq S
  <2> HIDE DEF S
  <2> QED BY <1>1, <1>2, FuelNat, Induction, Zenon
<1> QED BY <1>3, Zenon DEF C, D

\* The last allowed step.
LEMMA FuelIn == Fuel \in 0..Fuel /\ Fuel \in 1..Fuel /\ Fuel - 1 \in 0..Fuel
BY FuelNat, SMT

\* EnsureDeviceMaterialized leaves good images, with the manifests, parents and
\* patches they had.
LEMMA MaterializedIs ==
  ASSUME NEW s, StoreOK(s), NEW p \in Dir
  PROVE  /\ StoreOK(Materialized(s, p).store)
         /\ \A q \in Dir : Alike(s, Materialized(s, p).store, q)
         /\ Materialized(s, p).ok <=> Devices(s)[Fuel][p] # None
         /\ Materialized(s, p).ok =>
              /\ s[p] # None
              /\ Materialized(s, p).store[p].device = Devices(s)[Fuel][p]
              /\ ~Materialized(s, p).store[p].compressed
<1> DEFINE D == Devices(s)[Fuel]
           W == IF D[p] = None THEN {} ELSE Chain(s, p)
           t == [q \in Dir |->
                  IF q \in W THEN [s[q] EXCEPT !.device = D[q], !.compressed = FALSE] ELSE s[q]]
<1>0. ParentsOK(s)
  BY StoreParents
<1>1. Materialized(s, p) = [ok |-> D[p] # None, store |-> t]
  BY Zenon DEF Materialized
<1>2. Materialized(s, p).store = t /\ (Materialized(s, p).ok <=> D[p] # None)
  <2> DEFINE o == D[p] # None
  <2>1. Materialized(s, p) = [ok |-> o, store |-> t]
    BY <1>1, Zenon
  <2> HIDE DEF o, t
  <2>2. [ok |-> o, store |-> t].ok = o /\ [ok |-> o, store |-> t].store = t
    BY Zenon
  <2>3. Materialized(s, p).ok = o /\ Materialized(s, p).store = t
    BY <2>1, <2>2, Zenon
  <2> QED BY <2>3, Zenon DEF o
<1>3. D \in DeviceFiles /\ D = DeviceStep(s, Devices(s)[Fuel - 1])
  BY DevicesDef, FuelIn, Zenon
<1>4. ASSUME NEW q \in Dir, q \in W PROVE s[q] # None
  <2>1. D[p] # None /\ q \in Chains(s)[Fuel][p]
    BY <1>4, Zenon DEF Chain
  <2>2. None \notin Chains(s)[Fuel][p]
    BY <2>1, FuelIn, DeviceChain, Zenon
  <2> QED BY <2>1, <2>2, <1>0, FuelIn, ChainNone, Zenon
<1>5. D[p] # None => p \in W
  BY <1>0, FuelIn, ChainIs, Zenon DEF Chain
<1>6. \A q \in Dir : s[q] # None /\ ~s[q].delta => D[q] = Own(s[q])
  BY <1>3, Zenon DEF DeviceStep, Rebuilt, Own
<1>7. \A q \in Dir : D[q] \in Seq(Byte) \cup {None}
  BY <1>3, Zenon DEF DeviceFiles
<1> HIDE DEF W, D
<1>8. ASSUME NEW q \in Dir, q \in W
      PROVE  /\ t[q] \in Image /\ ImageOK(t[q]) /\ Kin(s[q], t[q])
             /\ t[q].device = D[q] /\ ~t[q].compressed
  <2>1. ImageOK(s[q]) /\ s[q] \in Image
    BY <1>4, <1>8, Zenon DEF StoreOK, ImageOK
  <2>2. t[q] = With(s[q], D[q])
    BY <1>8, Zenon DEF With
  <2> HIDE DEF t
  <2>3. /\ t[q] \in Image /\ Kin(s[q], t[q])
        /\ t[q].device = D[q] /\ ~t[q].compressed
    <3>1. s[q] \in Image /\ D[q] \in Seq(Byte) \cup {None}
      BY <2>1, <1>7, Zenon
    <3>2. /\ With(s[q], D[q]) \in Image /\ Kin(s[q], With(s[q], D[q]))
          /\ With(s[q], D[q]).device = D[q] /\ ~With(s[q], D[q]).compressed
      BY <3>1, WithIs, Zenon
    <3> QED BY <2>2, <3>2, Zenon
  <2>4. ~s[q].delta => Own(t[q]) = Own(s[q])
    BY <2>3, <1>4, <1>6, <1>8, Zenon DEF Own
  <2>5. ImageOK(t[q])
    BY <2>1, <2>3, <2>4, KinOK, Zenon
  <2> QED BY <2>3, <2>5, Zenon
<1>9. ASSUME NEW q \in Dir, q \notin W PROVE t[q] = s[q]
  BY <1>9, Zenon
<1>10. t = [q \in Dir |-> t[q]]
  BY Zenon
<1> HIDE DEF t
<1>11. t \in [Dir -> Image \cup {None}]
  BY <1>8, <1>9, <1>10, Zenon DEF StoreOK
<1>12. ASSUME NEW q \in Dir, t[q] # None PROVE ImageOK(t[q])
  BY <1>8, <1>9, <1>12, Zenon DEF StoreOK
<1>13. StoreOK(t)
  BY <1>11, <1>12, Zenon DEF StoreOK
<1>14. ASSUME NEW q \in Dir PROVE Alike(s, t, q)
  <2>1. CASE q \in W
    <3>1. t[q] # None
      BY <2>1, <1>8, ImagesAssumption, Zenon
    <3> QED BY <2>1, <3>1, <1>4, <1>8, Zenon DEF Alike
  <2>2. CASE q \notin W
    BY <2>2, <1>9, Zenon DEF Alike, Kin
  <2> QED BY <2>1, <2>2
<1>15. D[p] # None => s[p] # None /\ t[p].device = D[p] /\ ~t[p].compressed
  BY <1>4, <1>5, <1>8, Zenon
<1> QED BY <1>2, <1>13, <1>14, <1>15, Zenon DEF D

\* CompressDevice on an image just snapshotted.
LEMMA CompressOK ==
  ASSUME NEW img, ImageOK(img), ~img.delta, ~img.compressed
  PROVE  /\ ImageOK(CompressDevice(img)) /\ Kin(img, CompressDevice(img))
         /\ Own(CompressDevice(img)) = Own(img)
<1> DEFINE rec == [entries |-> img.entries, compressed |-> TRUE, delta |-> img.delta,
                   device |-> img.device, zst |-> img.device, parent |-> img.parent,
                   recs |-> img.recs, patch |-> img.patch]
<1>0. img \in Image
  BY Zenon DEF ImageOK
<1>1. CompressDevice(img) = rec
  BY <1>0, CompressRecord, Zenon
<1>2. rec \in Image
  BY <1>0, ImageFields, ImageRecord, Zenon
<1>3. Kin(img, rec) /\ Own(rec) = Own(img)
  BY Zenon DEF Kin, Own
<1> HIDE DEF rec
<1>4. ImageOK(rec)
  BY <1>2, <1>3, KinOK, Zenon
<1> QED BY <1>1, <1>3, <1>4, Zenon

\* What the device held when the image was taken.
TruthOK(img, bytes) ==
  /\ bytes \in Seq(Byte)
  /\ \A k \in 1..Len(img.entries) :
       img.entries[k].crc = Slice(bytes, img.entries[k].off, img.entries[k].size)

\* A slice of a file.
LEMMA SliceIs ==
  ASSUME NEW bytes \in Seq(Byte), NEW off \in Nat, NEW size \in Nat, off + size <= Len(bytes)
  PROVE  /\ Slice(bytes, off, size) \in Seq(Byte) /\ Len(Slice(bytes, off, size)) = size
         /\ \A j \in 1..size : Slice(bytes, off, size)[j] = bytes[off + j]
<1>1. SubSeq(bytes, off + 1, off + size) \in Seq(Byte)
  BY SMT
<1>2. Len(SubSeq(bytes, off + 1, off + size)) = size
  BY SMT
<1>3. \A j \in 1..size : SubSeq(bytes, off + 1, off + size)[j] = bytes[off + j]
  BY SMT
<1> QED BY <1>1, <1>2, <1>3, Zenon DEF Slice

\* The sizes of the allocations of a layout.
LEMMA LayoutIs ==
  ASSUME NEW l \in Layouts
  PROVE  /\ Len(l) \in Nat
         /\ \A i \in 1..Len(l) : l[i].ptr \in Address /\ l[i].size \in Nat
         /\ \A i, j \in 1..Len(l) : l[i].ptr = l[j].ptr => i = j
         /\ SizesOf(l) \in Seq(Nat) /\ Len(SizesOf(l)) = Len(l)
         /\ \A i \in 1..Len(l) : SizesOf(l)[i] = l[i].size
<1> DEFINE A == [ptr : Address, size : Nat]
<1>1. l \in Seq(A)
  BY ImagesAssumption, Zenon
<1>2. \A i, j \in DOMAIN l : l[i].ptr = l[j].ptr => i = j
  BY ImagesAssumption, Zenon
<1>a. \A x \in A : x.ptr \in Address /\ x.size \in Nat
  BY Zenon
<1> HIDE DEF A
<1>3. Len(l) \in Nat /\ DOMAIN l = 1..Len(l) /\ \A i \in 1..Len(l) : l[i] \in A
  BY <1>1, SMT
<1>4. \A i \in 1..Len(l) : l[i].ptr \in Address /\ l[i].size \in Nat
  BY <1>3, <1>a, Zenon
<1> DEFINE m == Len(l)
           z == [i \in 1..m |-> l[i].size]
<1>5. SizesOf(l) = z
  BY Zenon DEF SizesOf
<1>6. z \in [1..m -> Nat]
  BY <1>4, Zenon
<1>7. m \in Nat
  BY <1>3
<1>8. \A i \in 1..m : z[i] = l[i].size
  BY Zenon
<1> HIDE DEF z, m
<1>9. z \in Seq(Nat) /\ Len(z) = m
  BY <1>6, <1>7, SMT
<1> QED BY <1>2, <1>3, <1>4, <1>5, <1>8, <1>9, Zenon DEF m

\* The manifest of a snapshot: chunks one after the other, each with its contents.
LEMMA EntriesIs ==
  ASSUME NEW l \in Layouts, NEW bytes \in [1..TotalSize(l) -> Byte]
  PROVE  /\ bytes \in Seq(Byte)
         /\ Entries(l, bytes) \in Seq(Entry) /\ ManifestOK(Entries(l, bytes))
         /\ Laid(Entries(l, bytes)) /\ Holds(bytes, Entries(l, bytes))
         /\ \A k \in 1..Len(Entries(l, bytes)) :
              Entries(l, bytes)[k].crc
                = Slice(bytes, Entries(l, bytes)[k].off, Entries(l, bytes)[k].size)
<1> DEFINE sz == SizesOf(l)
           E == Ends(sz)
           m == Len(l)
           es == Entries(l, bytes)
<1>1. /\ m \in Nat /\ sz \in Seq(Nat) /\ Len(sz) = m
      /\ \A i \in 1..m : l[i].ptr \in Address /\ l[i].size \in Nat /\ sz[i] = l[i].size
      /\ \A i, j \in 1..m : l[i].ptr = l[j].ptr => i = j
  BY LayoutIs, Zenon
<1> HIDE DEF sz, m
<1>2. E \in [0..m -> Nat] /\ \A i \in 1..m : E[i] = E[i - 1] + sz[i]
  BY <1>1, EndsDef, Zenon
<1>3. \A k \in 0..m : \A i \in 0..k : E[i] <= E[k]
  BY <1>1, EndsMono, Zenon
<1>4. TotalSize(l) = E[m]
  BY Zenon DEF TotalSize, sz, m
<1>5. es = [i \in 1..m |-> [ptr |-> l[i].ptr, size |-> l[i].size, off |-> E[i - 1],
                            crc |-> Slice(bytes, E[i - 1], l[i].size)]]
  BY Zenon DEF Entries, sz, m
<1> HIDE DEF es, E
<1>6. E[m] \in Nat
  BY <1>1, <1>2, SMT
<1>7. bytes \in Seq(Byte) /\ Len(bytes) = E[m]
  <2>1. bytes \in [1..E[m] -> Byte]
    BY <1>4, Zenon
  <2> QED BY <2>1, <1>6, SMT
<1>8. ASSUME NEW i \in 1..m
      PROVE  /\ es[i].ptr = l[i].ptr /\ es[i].size = l[i].size /\ es[i].off = E[i - 1]
             /\ es[i].crc = Slice(bytes, E[i - 1], l[i].size)
  BY <1>5, Zenon
<1>9. ASSUME NEW i \in 1..m
      PROVE  /\ E[i - 1] \in Nat /\ l[i].size \in Nat /\ E[i - 1] + l[i].size <= E[m]
             /\ E[i] = E[i - 1] + l[i].size
  <2>1. i \in 0..m /\ i - 1 \in 0..m /\ m \in 0..m
    BY <1>1, SMT
  <2>2. E[i] = E[i - 1] + l[i].size /\ l[i].size \in Nat
    BY <1>1, <1>2, Zenon
  <2>3. E[i - 1] \in Nat
    BY <1>2, <2>1, Zenon
  <2>4. E[i] <= E[m]
    BY <1>3, <2>1, Zenon
  <2> QED BY <2>2, <2>3, <2>4, Zenon
<1>10. ASSUME NEW i \in 1..m
       PROVE  /\ es[i].crc \in Seq(Byte) /\ Len(es[i].crc) = es[i].size
              /\ \A j \in 1..es[i].size : bytes[es[i].off + j] = es[i].crc[j]
  <2>1. /\ E[i - 1] \in Nat /\ l[i].size \in Nat /\ E[i - 1] + l[i].size <= Len(bytes)
    BY <1>7, <1>9, Zenon
  <2>2. /\ Slice(bytes, E[i - 1], l[i].size) \in Seq(Byte)
        /\ Len(Slice(bytes, E[i - 1], l[i].size)) = l[i].size
        /\ \A j \in 1..l[i].size : Slice(bytes, E[i - 1], l[i].size)[j] = bytes[E[i - 1] + j]
    BY <1>7, <2>1, SliceIs, ZenonT(60)
  <2> QED BY <2>2, <1>8, Zenon
<1>11. es \in [1..m -> Entry]
  <2>1. ASSUME NEW i \in 1..m PROVE es[i] \in Entry
    <3> DEFINE c == Slice(bytes, E[i - 1], l[i].size)
    <3>1. es[i] = [ptr |-> l[i].ptr, size |-> l[i].size, off |-> E[i - 1], crc |-> c]
      BY <1>5, Zenon
    <3>2. l[i].ptr \in Address /\ l[i].size \in Nat /\ E[i - 1] \in Nat /\ c \in Seq(Byte)
      BY <1>1, <1>8, <1>9, <1>10, ZenonT(60)
    <3> HIDE DEF c
    <3>3. [ptr |-> l[i].ptr, size |-> l[i].size, off |-> E[i - 1], crc |-> c] \in Entry
      BY <3>2, Zenon DEF Entry
    <3> QED BY <3>1, <3>3, Zenon
  <2> QED BY <1>5, <2>1, Zenon
<1>12. es \in Seq(Entry) /\ Len(es) = m
  BY <1>1, <1>11, SMT
<1>13. ManifestOK(es)
  BY <1>1, <1>8, <1>10, <1>12, Zenon DEF ManifestOK
<1>14. Laid(es)
  <2>1. ASSUME NEW i \in 1..m, NEW k \in 1..m, i < k PROVE es[i].off + es[i].size <= es[k].off
    <3>1. i \in 0..(k - 1) /\ k - 1 \in 0..m
      BY <1>1, <2>1, SMT
    <3>2. E[i] <= E[k - 1]
      BY <1>3, <3>1, Zenon
    <3>3. es[i].off + es[i].size = E[i] /\ es[k].off = E[k - 1]
      BY <1>8, <1>9, Zenon
    <3> QED BY <3>2, <3>3, Zenon
  <2> QED BY <1>12, <2>1, Zenon DEF Laid
<1>15. Holds(bytes, es)
  <2>1. ASSUME NEW k \in 1..m PROVE ChunkIn(bytes, es[k])
    <3>1. es[k].off + es[k].size <= Len(bytes)
      BY <1>7, <1>8, <1>9, Zenon
    <3> QED BY <3>1, <1>10, Zenon DEF ChunkIn
  <2> QED BY <1>12, <2>1, Zenon DEF Holds
<1>16. \A k \in 1..m : es[k].crc = Slice(bytes, es[k].off, es[k].size)
  BY <1>8, Zenon
<1> QED BY <1>7, <1>12, <1>13, <1>14, <1>15, <1>16, Zenon DEF es

\* A snapshot is a good image.
LEMMA NewImageOK ==
  ASSUME NEW l \in Layouts, NEW bytes \in [1..TotalSize(l) -> Byte],
         NEW img, img = NewImage(Entries(l, bytes), bytes)
  PROVE  /\ ImageOK(img) /\ ~img.delta /\ ~img.compressed
         /\ img.entries = Entries(l, bytes) /\ Own(img) = bytes /\ TruthOK(img, bytes)
<1> DEFINE es == Entries(l, bytes)
<1>1. /\ bytes \in Seq(Byte) /\ es \in Seq(Entry) /\ ManifestOK(es) /\ Holds(bytes, es)
      /\ \A k \in 1..Len(es) : es[k].crc = Slice(bytes, es[k].off, es[k].size)
  BY EntriesIs, Zenon
<1> HIDE DEF es
<1> DEFINE f == FALSE
           p == <<>>
           rs == {}
<1>2. /\ f \in BOOLEAN /\ rs \in SUBSET Record
      /\ None \in Path \cup {None} /\ None \in Seq(Byte) \cup {None}
      /\ bytes \in Seq(Byte) \cup {None}
  BY <1>1, Zenon
<1>3. p \in Seq(Byte)
  BY SMT
<1>4. img = [entries |-> es, compressed |-> f, delta |-> f, device |-> bytes,
             zst |-> None, parent |-> None, recs |-> rs, patch |-> p]
  BY Zenon DEF NewImage, es
<1> HIDE DEF f, p, rs
<1>a. [entries |-> es, compressed |-> f, delta |-> f, device |-> bytes,
       zst |-> None, parent |-> None, recs |-> rs, patch |-> p] \in Image
  BY <1>1, <1>2, <1>3, ImageRecord, Zenon
<1>5. img \in Image
  BY <1>4, <1>a, Zenon
<1>6. /\ img.entries = es /\ img.compressed = f /\ img.delta = f /\ img.device = bytes
      /\ img.recs = rs
  BY <1>4, SMT
<1>7. ~img.compressed /\ ~img.delta /\ Own(img) = bytes /\ img.recs = {}
  BY <1>6, Zenon DEF f, rs, Own
<1>8. ImageOK(img)
  BY <1>1, <1>5, <1>6, <1>7, Zenon DEF ImageOK, RecordsOK
<1>9. TruthOK(img, bytes)
  BY <1>1, <1>6, Zenon DEF TruthOK
<1> QED BY <1>6, <1>7, <1>8, <1>9, Zenon DEF es

\* Two chunks of a manifest that have a byte in common are the same.
LEMMA LaidUnique ==
  ASSUME NEW es \in Seq(Entry), Laid(es), NEW i \in 1..Len(es), NEW k \in 1..Len(es), NEW x \in Nat,
         es[i].off < x, x <= es[i].off + es[i].size, es[k].off < x, x <= es[k].off + es[k].size
  PROVE  i = k
<1>1. /\ es[i].off \in Nat /\ es[i].size \in Nat /\ es[k].off \in Nat /\ es[k].size \in Nat
  BY EntryFields, Zenon
<1>2. (i < k => es[i].off + es[i].size <= es[k].off) /\ (k < i => es[k].off + es[k].size <= es[i].off)
  BY Zenon DEF Laid
<1>3. \A a, b, c, y \in Nat : ~(a + b <= c /\ c < y /\ y <= a + b)
  BY SMT
<1>4. ~(i < k) /\ ~(k < i)
  BY <1>1, <1>2, <1>3, Zenon
<1>5. i \in Nat /\ k \in Nat
  BY SMT
<1> QED BY <1>4, <1>5, SMT

\* What WriteDelta adds to an image: the records and the patch for the chunks that the
\* parent has not.
LEMMA DeltaImageIs ==
  ASSUME NEW img, ImageOK(img), ~img.delta, ~img.compressed, Laid(img.entries),
         NEW p \in Path, NEW par, ImageOK(par)
  PROVE  /\ ImageOK(DeltaImage(img, p, par))
         /\ DeltaImage(img, p, par).entries = img.entries
         /\ DeltaImage(img, p, par).delta =>
              DeltaImage(img, p, par).parent = p /\ DeltaOK(DeltaImage(img, p, par), par)
<1> DEFINE es == img.entries
           m == Len(es)
           dev == img.device
           changed == {i \in 1..m : Changed(es[i], par)}
           sz == [i \in 1..m |-> IF i \in changed THEN es[i].size ELSE 0]
           end == Ends(sz)
           Rec(i) == [off |-> es[i].off, size |-> es[i].size, poff |-> end[i - 1]]
           recs == {Rec(i) : i \in changed}
           At(j) == CHOOSE rec \in recs : rec.poff < j /\ j <= rec.poff + rec.size
           patch == [j \in 1..end[m] |-> dev[At(j).off + j - At(j).poff]]
<1>1. DeltaImage(img, p, par) = IF changed = {} THEN img ELSE Linked(img, p, recs, patch)
  BY Zenon DEF DeltaImage, Linked
<1>2. CASE changed = {}
  BY <1>1, <1>2, Zenon
<1>3. CASE changed # {}
  <2>0. img \in Image /\ es \in Seq(Entry) /\ ManifestOK(es)
    BY Zenon DEF ImageOK, Image
  <2>a. dev \in Seq(Byte) /\ Holds(dev, es)
    BY Zenon DEF ImageOK, Own
  <2>b. m \in Nat
    BY <2>0, SMT
  <2>c. par.entries \in Seq(Entry)
    BY Zenon DEF ImageOK, Image
  <2> HIDE DEF es, dev, m
  <2>1. \A i \in 1..m : es[i].off \in Nat /\ es[i].size \in Nat
    BY <2>0, EntryFields, Zenon DEF m
  <2>2. sz \in [1..m -> Nat]
    BY <2>1, SMT
  <2>3. sz \in Seq(Nat) /\ Len(sz) = m
    <3> HIDE DEF sz
    <3> QED BY <2>2, <2>b, SMT
  <2>4. changed \subseteq 1..m /\ \A i \in changed : sz[i] = es[i].size
    BY Zenon
  <2>5. \A i \in 1..m : i \notin changed => sz[i] = 0
    BY Zenon
  <2> HIDE DEF sz
  <2>6. end \in [0..m -> Nat] /\ \A i \in 1..m : end[i] = end[i - 1] + sz[i]
    BY <2>3, EndsDef, Zenon
  <2>7. \A k \in 0..m : \A i \in 0..k : end[i] <= end[k]
    BY <2>3, EndsMono, Zenon
  <2>8. \A i, k \in 1..m : \A j \in Nat : InChunk(sz, i, j) /\ InChunk(sz, k, j) => i = k
    BY <2>3, ChunkUnique, Zenon
  <2>9. \A j \in 1..end[m] : \E i \in 1..m : InChunk(sz, i, j)
    BY <2>3, ChunkExists, Zenon
  <2>10. \A i, j : InChunk(sz, i, j) <=> end[i - 1] < j /\ j <= end[i]
    BY Zenon DEF InChunk
  <2> HIDE DEF end
  <2>11. ASSUME NEW i \in 1..m PROVE end[i - 1] \in Nat /\ end[i] \in Nat /\ end[m] \in Nat /\ end[i] <= end[m]
    <3>1. i \in 0..m /\ i - 1 \in 0..m /\ m \in 0..m
      BY <2>b, SMT
    <3> QED BY <2>6, <2>7, <3>1, Zenon
  <2>12. end[m] \in Nat
    BY <2>6, <2>b, SMT
  <2>13. ASSUME NEW i \in changed
         PROVE  /\ i \in 1..m /\ end[i] = end[i - 1] + es[i].size
                /\ Rec(i) \in recs /\ Rec(i) \in Record
                /\ Rec(i).off = es[i].off /\ Rec(i).size = es[i].size /\ Rec(i).poff = end[i - 1]
    <3>1. i \in 1..m /\ end[i] = end[i - 1] + es[i].size
      BY <2>4, <2>6, Zenon
    <3>2. es[i].off \in Nat /\ es[i].size \in Nat /\ end[i - 1] \in Nat
      BY <2>1, <2>11, <3>1, Zenon
    <3>3. Rec(i) \in Record
      BY <3>2, Zenon DEF Record
    <3>4. Rec(i).off = es[i].off /\ Rec(i).size = es[i].size /\ Rec(i).poff = end[i - 1]
      BY Zenon
    <3>5. Rec(i) \in recs
      BY Zenon
    <3> HIDE DEF recs, Rec, changed
    <3> QED BY <3>1, <3>3, <3>4, <3>5, Zenon
  <2>14. \A rec \in recs : \E i \in changed : rec = Rec(i)
    BY Zenon
  <2>15. ASSUME NEW i \in changed PROVE Changed(es[i], par)
    BY Zenon
  <2>16. ASSUME NEW i \in 1..m, i \notin changed PROVE ~Changed(es[i], par)
    BY <2>16, Zenon
  <2> HIDE DEF changed, Rec, recs
  <2>17. ASSUME NEW j \in 1..end[m] PROVE \E i \in changed : InChunk(sz, i, j)
    <3>1. PICK i \in 1..m : InChunk(sz, i, j)
      BY <2>9, Zenon
    <3>2. i \in changed
      <4> SUFFICES ASSUME i \notin changed PROVE FALSE
        OBVIOUS
      <4>1. end[i] = end[i - 1] + 0 /\ end[i - 1] < j /\ j <= end[i]
        BY <2>5, <2>6, <2>10, <3>1, Zenon
      <4>2. end[i - 1] \in Nat /\ j \in Nat
        BY <2>11, <2>12, SMT
      <4> QED BY <4>1, <4>2, SMT
    <3> QED BY <3>1, <3>2, Zenon
  <2>18. ASSUME NEW i \in changed, NEW j \in Nat, InChunk(sz, i, j) PROVE At(j) = Rec(i)
    <3>1. end[i - 1] < j /\ j <= end[i - 1] + es[i].size
      BY <2>10, <2>13, <2>18, Zenon
    <3>2. Rec(i) \in recs /\ Rec(i).poff < j /\ j <= Rec(i).poff + Rec(i).size
      BY <2>13, <3>1, Zenon
    <3>3. At(j) \in recs /\ At(j).poff < j /\ j <= At(j).poff + At(j).size
      BY <3>2, Zenon
    <3> HIDE DEF At
    <3>4. PICK k \in changed : At(j) = Rec(k)
      BY <2>14, <3>3, Zenon
    <3>5. end[k - 1] < j /\ j <= end[k - 1] + es[k].size
      BY <2>13, <3>3, <3>4, Zenon
    <3>6. InChunk(sz, k, j)
      BY <2>10, <2>13, <3>5, Zenon
    <3>7. i = k
      BY <2>8, <2>13, <2>18, <3>6, Zenon
    <3> QED BY <3>4, <3>7, Zenon
  <2>19. ASSUME NEW i \in changed, NEW j \in 1..end[m], InChunk(sz, i, j)
         PROVE  patch[j] = dev[es[i].off + j - end[i - 1]]
    <3>1. j \in Nat
      BY <2>12, SMT
    <3>2. At(j) = Rec(i)
      BY <2>18, <2>19, <3>1, Zenon
    <3>3. patch[j] = dev[At(j).off + j - At(j).poff]
      BY Zenon
    <3> HIDE DEF patch, At
    <3> QED BY <2>13, <3>2, <3>3, Zenon
  <2>20. patch = [j \in 1..end[m] |-> patch[j]]
    <3> HIDE DEF At
    <3> QED BY SMT
  <2> HIDE DEF patch, At
  <2>21. ASSUME NEW j \in 1..end[m] PROVE patch[j] \in Byte
    <3>1. PICK i \in changed : InChunk(sz, i, j)
      BY <2>17, Zenon
    <3>2. ChunkIn(dev, es[i])
      BY <2>a, <2>13, Zenon DEF Holds, m
    <3>3. end[i - 1] < j /\ j <= end[i - 1] + es[i].size /\ es[i].off + es[i].size <= Len(dev)
      BY <2>10, <2>13, <3>1, <3>2, Zenon DEF ChunkIn
    <3>4. end[i - 1] \in Nat /\ es[i].off \in Nat /\ es[i].size \in Nat
      BY <2>1, <2>11, <2>13, Zenon
    <3>5. j \in Nat /\ Len(dev) \in Nat
      BY <2>12, <2>a, SMT
    <3>6. es[i].off + j - end[i - 1] \in 1..Len(dev)
      BY <3>3, <3>4, <3>5, SMTT(60)
    <3>7. dev[es[i].off + j - end[i - 1]] \in Byte
      BY <2>a, <3>6, SMT
    <3> QED BY <2>19, <3>1, <3>7, Zenon
  <2>22. patch \in [1..end[m] -> Byte]
    BY <2>20, <2>21, Zenon
  <2>23. patch \in Seq(Byte) /\ Len(patch) = end[m]
    BY <2>12, <2>22, SMT
  <2> DEFINE new == Linked(img, p, recs, patch)
             rec8 == [entries |-> es, compressed |-> img.compressed, delta |-> TRUE,
                      device |-> dev, zst |-> img.zst, parent |-> p, recs |-> recs, patch |-> patch]
  <2>24. new = rec8
    BY <2>0, LinkedRecord, Zenon DEF es, dev
  <2>25. recs \in SUBSET Record
    BY <2>13, <2>14, Zenon
  <2>26. rec8 \in Image
    BY <2>0, <2>23, <2>25, ImageFields, ImageRecord, Zenon DEF es, dev
  <2>27. /\ rec8.entries = es /\ rec8.delta /\ rec8.recs = recs /\ rec8.patch = patch
         /\ rec8.parent = p /\ (rec8.compressed <=> img.compressed)
    BY Zenon
  <2> HIDE DEF rec8, new
  <2>28. /\ new \in Image /\ new.entries = es /\ new.delta /\ new.recs = recs /\ new.patch = patch
         /\ new.parent = p /\ ~new.compressed
    BY <2>24, <2>26, <2>27, Zenon
  <2>29. RecordsOK(new)
    <3>1. ASSUME NEW rec \in recs PROVE rec.poff + rec.size <= Len(patch)
      <4>1. PICK i \in changed : rec = Rec(i)
        BY <2>14, Zenon
      <4> QED BY <4>1, <2>11, <2>13, <2>23, Zenon
    <3> QED BY <3>1, <2>28, Zenon DEF RecordsOK
  <2>30. ImageOK(new)
    BY <2>0, <2>28, <2>29, Zenon DEF ImageOK
  <2>31. ASSUME NEW k \in 1..m, NEW j \in 1..es[k].size PROVE ByteOK(new, par, es[k], j)
    <3> DEFINE x == es[k].off + j
    <3>1. es[k].off \in Nat /\ es[k].size \in Nat /\ j \in Nat /\ 0 < j /\ j <= es[k].size
      BY <2>1, SMT
    <3>2. x \in Nat /\ es[k].off < x /\ x <= es[k].off + es[k].size
      BY <3>1, SMT
    <3>3. CASE Covered(new, x)
      <4> DEFINE rec == CHOOSE rec \in new.recs : Covers(rec, x)
      <4>1. rec \in recs /\ Covers(rec, x)
        BY <3>3, <2>28, Zenon DEF Covered
      <4>2. PatchByte(new, x) = patch[rec.poff + x - rec.off]
        BY <2>28, Zenon DEF PatchByte
      <4> HIDE DEF rec, x
      <4>3. PICK i \in changed : rec = Rec(i)
        BY <2>14, <4>1, Zenon
      <4>4. es[i].off < x /\ x <= es[i].off + es[i].size
        BY <2>13, <4>1, <4>3, Zenon DEF Covers
      <4>5. i = k
        BY <2>0, <2>13, <3>2, <4>4, LaidUnique, Zenon DEF es, m
      <4>6. k \in changed /\ rec.poff = end[k - 1] /\ rec.off = es[k].off
        BY <2>13, <4>3, <4>5, Zenon
      <4>7. end[k - 1] \in Nat /\ end[k] <= end[m] /\ end[k] = end[k - 1] + es[k].size
        BY <2>11, <2>13, <4>6, Zenon
      <4>8. rec.poff + x - rec.off = end[k - 1] + j
        BY <3>1, <4>6, <4>7, SMT DEF x
      <4>9. /\ end[k - 1] + j \in 1..end[m]
            /\ end[k - 1] < end[k - 1] + j /\ end[k - 1] + j <= end[k]
        BY <3>1, <4>7, <2>12, SMT
      <4>10. InChunk(sz, k, end[k - 1] + j)
        BY <2>10, <4>9, Zenon
      <4>11. patch[end[k - 1] + j] = dev[es[k].off + (end[k - 1] + j) - end[k - 1]]
        BY <2>19, <4>6, <4>9, <4>10, Zenon
      <4>12. es[k].off + (end[k - 1] + j) - end[k - 1] = es[k].off + j
        BY <3>1, <4>7, SMT
      <4>13. dev[es[k].off + j] = es[k].crc[j]
        BY <2>a, Zenon DEF Holds, ChunkIn, m
      <4>14. PatchByte(new, x) = es[k].crc[j]
        BY <4>2, <4>8, <4>11, <4>12, <4>13, Zenon
      <4> QED BY <3>3, <4>14, Zenon DEF ByteOK, x
    <3>4. CASE ~Covered(new, x)
      <4>1. k \notin changed
        <5> SUFFICES ASSUME k \in changed PROVE FALSE
          OBVIOUS
        <5>1. Covers(Rec(k), x) /\ Rec(k) \in recs
          BY <2>13, <3>2, Zenon DEF Covers
        <5> QED BY <3>4, <5>1, <2>28, Zenon DEF Covered
      <4>2. \E pe \in ToSet(par.entries) : pe.ptr = es[k].ptr /\ pe.size = es[k].size /\ pe.crc = es[k].crc
        BY <2>16, <4>1, Zenon DEF Changed
      <4>3. DOMAIN par.entries = 1..Len(par.entries)
        BY <2>c, SMT
      <4>4. \E i \in 1..Len(par.entries) : Same(par.entries[i], es[k])
        BY <4>2, <4>3, Zenon DEF ToSet, Same
      <4> QED BY <3>4, <4>4, Zenon DEF ByteOK
    <3> QED BY <3>3, <3>4, Zenon
  <2>32. DeltaOK(new, par)
    BY <2>28, <2>31, Zenon DEF DeltaOK, m
  <2>33. DeltaImage(img, p, par) = new
    BY <1>1, <1>3, Zenon DEF new
  <2> QED BY <2>28, <2>30, <2>32, <2>33, Zenon DEF es
<1> QED BY <1>2, <1>3, Zenon

-----------------------------------------------------------------------------
(* ProcessImage.                                                           *)

\* Whether a delta fits its parent depends on neither's device.bin nor flags.
LEMMA DeltaKin ==
  ASSUME NEW a, NEW b, NEW c, NEW d, Kin(a, c), Kin(b, d), DeltaOK(a, b)
  PROVE  DeltaOK(c, d)
BY ZenonT(60) DEF Kin, DeltaOK, ByteOK, Covered, PatchByte

\* Alike goes from store to store.
LEMMA AlikeTrans ==
  ASSUME NEW s, NEW t, NEW u, NEW q, Alike(s, t, q), Alike(t, u, q)
  PROVE  Alike(s, u, q)
BY Zenon DEF Alike, Kin

\* The store with another image in directory d.
Put(s, d, img) == [s EXCEPT ![d] = img]

Differs(t, s, d, img) == t[d] = img /\ \A q \in Dir : q # d => t[q] = s[q]

\* Only directory d changes.
LEMMA PutIs ==
  ASSUME NEW s, StoreOK(s), NEW d \in Dir, NEW img
  PROVE  Differs(Put(s, d, img), s, d, img)
<1>1. s \in [Dir -> Image \cup {None}]
  BY Zenon DEF StoreOK
<1> QED BY <1>1, Zenon DEF Put, Differs

\* A good image is there.
LEMMA ImageThere ==
  ASSUME NEW img, ImageOK(img)
  PROVE  img # None
BY ImagesAssumption, Zenon DEF ImageOK

\* A store of which one directory is given a good image, or none.
LEMMA StoreWith ==
  ASSUME NEW s, StoreOK(s), NEW d \in Dir, NEW img, img = None \/ ImageOK(img)
  PROVE  StoreOK(Put(s, d, img))
<1> DEFINE t == Put(s, d, img)
<1>1. s \in [Dir -> Image \cup {None}] /\ img \in Image \cup {None}
  BY Zenon DEF StoreOK, ImageOK
<1>2. t \in [Dir -> Image \cup {None}]
  BY <1>1, Zenon DEF Put
<1>3. Differs(t, s, d, img)
  BY PutIs, Zenon
<1> HIDE DEF t
<1>4. \A q \in Dir : t[q] # None => ImageOK(t[q])
  BY <1>3, Zenon DEF StoreOK, Differs
<1>5. StoreOK(t)
  BY <1>2, <1>4, Zenon DEF StoreOK
<1> QED BY <1>5, Zenon DEF t

\* EnsureDeviceMaterialized succeeds only on an image that is there.
LEMMA MaterializedThere ==
  ASSUME NEW s, StoreOK(s), NEW p \in Dir, Materialized(s, p).ok
  PROVE  s[p] # None
<1>1. Devices(s)[Fuel][p] # None
  BY MaterializedIs, ZenonT(60)
<1>2. None \notin Chains(s)[Fuel][p]
  BY <1>1, FuelIn, DeviceChain, Zenon
<1>3. p \in Chains(s)[Fuel][p]
  BY StoreParents, FuelIn, ChainIs, Zenon
<1> QED BY <1>2, <1>3, StoreParents, FuelIn, ChainNone, Zenon

\* The staging directory after the stages of the pipeline on a snapshot of bytes:
\* the manifest is the snapshot's, and a delta fits the parent.
Staged(r, s, parent, es) ==
  /\ StoreOK(r.store)
  /\ \A q \in Path : Alike(s, r.store, q)
  /\ r.store[Staging] # None /\ r.store[Staging].entries = es
  /\ r.ok /\ r.store[Staging].delta =>
       /\ parent \in Path /\ r.store[Staging].parent = parent /\ s[parent] # None
       /\ DeltaOK(r.store[Staging], r.store[parent])

\* WriteDelta on the staging directory.
LEMMA WriteDeltaIs ==
  ASSUME NEW s, StoreOK(s), s[Staging] # None, ~s[Staging].delta, Laid(s[Staging].entries),
         NEW p \in Path
  PROVE  Staged(WriteDelta(s, Staging, p), s, p, s[Staging].entries)
<1> DEFINE es == s[Staging].entries
           up == Materialized(s, p)
           own == Materialized(up.store, Staging)
           img == own.store[Staging]
           par == own.store[p]
           new == DeltaImage(img, p, par)
           t == Put(own.store, Staging, new)
           r == WriteDelta(s, Staging, p)
<1>0. p \in Dir /\ Staging \in Dir /\ p # Staging /\ Path \subseteq Dir /\ Staging \notin Path
  BY ImagesAssumption, Zenon DEF Dir
<1>1. r = IF ~up.ok THEN up ELSE IF ~own.ok THEN own ELSE [ok |-> TRUE, store |-> t]
  BY Zenon DEF WriteDelta, Put
<1>2. /\ StoreOK(up.store) /\ (\A q \in Dir : Alike(s, up.store, q))
      /\ (up.ok => s[p] # None)
  <2>1. StoreOK(up.store)
    BY <1>0, MaterializedIs, Zenon
  <2>2. \A q \in Dir : Alike(s, up.store, q)
    BY <1>0, MaterializedIs, Zenon
  <2>3. up.ok => s[p] # None
    BY <1>0, MaterializedThere, Zenon
  <2> QED BY <2>1, <2>2, <2>3
<1>3. /\ StoreOK(own.store) /\ (\A q \in Dir : Alike(up.store, own.store, q))
      /\ own.ok => ~own.store[Staging].compressed
  <2> HIDE DEF up
  <2> QED BY <1>0, <1>2, MaterializedIs, Zenon
<1> HIDE DEF up, own
<1>4. \A q \in Dir : Alike(s, own.store, q)
  BY <1>2, <1>3, AlikeTrans, Zenon
<1>5. /\ up.store[Staging] # None /\ up.store[Staging].entries = es /\ ~up.store[Staging].delta
      /\ own.store[Staging] # None /\ own.store[Staging].entries = es /\ ~own.store[Staging].delta
  BY <1>0, <1>2, <1>4, Zenon DEF Alike, Kin
<1>6. CASE ~up.ok
  <2>1. r = up
    BY <1>1, <1>6, Zenon
  <2> HIDE DEF r
  <2> QED BY <2>1, <1>0, <1>2, <1>5, <1>6, Zenon DEF Staged, r
<1>7. CASE up.ok /\ ~own.ok
  <2>1. r = own
    BY <1>1, <1>7, Zenon
  <2> HIDE DEF r
  <2> QED BY <2>1, <1>0, <1>3, <1>4, <1>5, <1>7, Zenon DEF Staged, r
<1>8. CASE up.ok /\ own.ok
  <2>1. r = [ok |-> TRUE, store |-> t]
    BY <1>1, <1>8, Zenon
  <2>2. r.store = t
    <3> HIDE DEF t, r
    <3> QED BY <2>1, Zenon
  <2>3. s[p] # None /\ par # None
    BY <1>0, <1>2, <1>4, <1>8, Zenon DEF Alike
  <2>4. ImageOK(par) /\ ImageOK(img) /\ ~img.delta /\ ~img.compressed /\ img.entries = es
    BY <1>0, <1>3, <1>5, <1>8, <2>3, Zenon DEF StoreOK
  <2> HIDE DEF img, par, r
  <2>5. ImageOK(new) /\ new.entries = es /\ (new.delta => new.parent = p /\ DeltaOK(new, par))
    BY <2>4, DeltaImageIs, Zenon
  <2> HIDE DEF new
  <2>6. StoreOK(t) /\ t[Staging] = new /\ new # None /\ \A q \in Dir : q # Staging => t[q] = own.store[q]
    <3>1. StoreOK(t)
      BY <1>0, <1>3, <2>5, StoreWith, Zenon
    <3>2. Differs(t, own.store, Staging, new)
      BY <1>0, <1>3, PutIs, Zenon
    <3>3. new # None
      BY <2>5, ImageThere, Zenon
    <3> HIDE DEF t
    <3> QED BY <3>1, <3>2, <3>3, Zenon DEF Differs
  <2> HIDE DEF t
  <2>7. t[p] = par
    BY <1>0, <2>6, Zenon DEF par
  <2>8. \A q \in Path : Alike(s, t, q)
    BY <1>0, <1>4, <2>6, Zenon DEF Alike
  <2>9. Staged(r, s, p, es)
    BY <2>2, <2>3, <2>5, <2>6, <2>7, <2>8, Zenon DEF Staged
  <2> QED BY <2>9, Zenon DEF r
<1> QED BY <1>6, <1>7, <1>8, Zenon

\* The snapshot in the staging directory, and ProcessImage on it.
Snapshot(s, l, bytes, compress, parent) ==
  ProcessImage(Put(s, Staging, NewImage(Entries(l, bytes), bytes)), Staging, compress, parent)

\* ProcessImage on a snapshot.
LEMMA ProcessIs ==
  ASSUME NEW s, StoreOK(s), NEW l \in Layouts, NEW bytes \in [1..TotalSize(l) -> Byte],
         NEW compress \in BOOLEAN, NEW parent \in Path \cup {None},
         NEW r, r = Snapshot(s, l, bytes, compress, parent)
  PROVE  Staged(r, s, parent, Entries(l, bytes))
<1> DEFINE es == Entries(l, bytes)
           img == NewImage(es, bytes)
           t == Put(s, Staging, img)
           c == IF compress THEN Put(t, Staging, CompressDevice(t[Staging])) ELSE t
           yes == TRUE
<1>0. Staging \in Dir /\ Path \subseteq Dir /\ Staging \notin Path
  BY ImagesAssumption, Zenon DEF Dir
<1>1. r = IF parent = None THEN [ok |-> yes, store |-> c] ELSE WriteDelta(c, Staging, parent)
  BY Zenon DEF ProcessImage, Put, Snapshot
<1> HIDE DEF yes
<1>2. ImageOK(img) /\ ~img.delta /\ ~img.compressed /\ img.entries = es
  BY NewImageOK, Zenon
<1>3. Laid(es)
  BY EntriesIs, Zenon
<1> HIDE DEF img, es
<1>4. StoreOK(t) /\ t[Staging] = img /\ img # None /\ \A q \in Dir : q # Staging => t[q] = s[q]
  <2>1. StoreOK(t)
    BY <1>0, <1>2, StoreWith, Zenon
  <2>2. Differs(t, s, Staging, img)
    BY <1>0, PutIs, Zenon
  <2>3. img # None
    BY <1>2, ImageThere, Zenon
  <2> HIDE DEF t
  <2> QED BY <2>1, <2>2, <2>3, Zenon DEF Differs
<1> HIDE DEF t
<1>5. /\ StoreOK(c) /\ c[Staging] # None /\ ~c[Staging].delta /\ c[Staging].entries = es
      /\ \A q \in Dir : q # Staging => c[q] = s[q]
  <2>1. CASE compress
    <3> DEFINE z == CompressDevice(img)
    <3>1. ImageOK(z) /\ ~z.delta /\ z.entries = es
      BY <1>2, CompressOK, Zenon DEF Kin
    <3>2. c = Put(t, Staging, z)
      BY <1>4, <2>1, Zenon
    <3> HIDE DEF z, c
    <3>3. StoreOK(c) /\ c[Staging] = z /\ z # None /\ \A q \in Dir : q # Staging => c[q] = t[q]
      <4>1. StoreOK(Put(t, Staging, z))
        BY <1>0, <1>4, <3>1, StoreWith, Zenon
      <4>2. Differs(Put(t, Staging, z), t, Staging, z)
        BY <1>0, <1>4, PutIs, Zenon
      <4>3. z # None
        BY <3>1, ImageThere, Zenon
      <4> QED BY <3>2, <4>1, <4>2, <4>3, Zenon DEF Differs
    <3> QED BY <1>4, <3>1, <3>3, Zenon
  <2>2. CASE ~compress
    BY <1>2, <1>4, <2>2, Zenon
  <2> QED BY <2>1, <2>2, Zenon
<1> HIDE DEF c
<1>6. \A q \in Path : Alike(s, c, q) /\ s[q] = c[q]
  BY <1>0, <1>5, Zenon DEF Alike, Kin
<1>7. CASE parent = None
  <2>1. r = [ok |-> yes, store |-> c]
    BY <1>1, <1>7, Zenon
  <2>2. r.store = c
    BY <2>1, SMT
  <2> QED BY <1>5, <1>6, <2>2, Zenon DEF Staged, es
<1>8. CASE parent # None
  <2>1. r = WriteDelta(c, Staging, parent) /\ parent \in Path
    BY <1>1, <1>8, Zenon
  <2>2. Staged(r, c, parent, es)
    BY <1>3, <1>5, <2>1, WriteDeltaIs, Zenon
  <2>3. \A q \in Path : Alike(s, r.store, q)
    BY <1>6, <2>2, AlikeTrans, Zenon DEF Staged
  <2> QED BY <1>6, <2>2, <2>3, Zenon DEF Staged, es
<1> QED BY <1>7, <1>8, Zenon

-----------------------------------------------------------------------------
(* The inductive invariant.                                                *)

\* The chain of q, if it is complete, is as WriteDelta made it.
LinksOK(s, q) == None \notin Chain(s, q) => LinksIntact(s, Chain(s, q))

\* Every directory but p is the same in both stores.
Elsewhere(s, t, p) == \A q \in Dir : q # p => t[q] = s[q]

\* Every image is well formed and its CRCs are those of the memory at the checkpoint;
\* every delta of an image that is not stale fits the parent it names.
IInv ==
  /\ StoreOK(store) /\ store[Staging] = None
  /\ truth \in [Path -> Seq(Byte) \cup {None}]
  /\ \A p \in Path : store[p] # None => TruthOK(store[p], truth[p])
  /\ stale \subseteq Path
  /\ \A p \in Path \ stale : LinksOK(store, p)

\* The images of the chain of a finalized image are finalized ones.
LEMMA ChainPath ==
  ASSUME NEW s, StoreOK(s), NEW p \in Path, NEW n \in 0..Fuel
  PROVE  Chains(s)[n][p] \subseteq Path \cup {None}
<1> DEFINE C == Chains(s)
           P(k) == \A q \in Path : C[k][q] \subseteq Path \cup {None}
           S == {k \in Nat : P(k)}
<1>0. ParentsOK(s) /\ Path \subseteq Dir
  BY StoreParents, Zenon DEF Dir
<1> HIDE DEF C
<1>1. 0 \in S
  <2>1. \A q \in Path : C[0][q] = {q, None}
    BY <1>0, ChainIs, Zenon DEF C
  <2>2. P(0)
    BY <2>1, ZenonT(60)
  <2> QED BY <2>2, SMT
<1>2. ASSUME NEW k \in 1..Fuel, k - 1 \in S PROVE k \in S
  <2>1. ASSUME NEW q \in Path PROVE C[k][q] \subseteq Path \cup {None}
    <3>1. C[k][q] = ChainOf(s, q, C[k - 1])
      BY <1>0, ChainNext, Zenon DEF C
    <3>2. s[q] # None /\ s[q].delta => s[q].parent \in Path
      BY <1>0, Zenon DEF StoreOK, ImageOK
    <3>3. \A r \in Path : C[k - 1][r] \subseteq Path \cup {None}
      BY <1>2, Zenon
    <3>4. CASE s[q] # None /\ s[q].delta
      <4>1. C[k][q] = {q} \cup C[k - 1][s[q].parent]
        BY <3>1, <3>4, Zenon DEF ChainOf
      <4>2. C[k - 1][s[q].parent] \subseteq Path \cup {None}
        BY <3>2, <3>3, <3>4, Zenon
      <4> QED BY <4>1, <4>2, Zenon
    <3>5. CASE ~(s[q] # None /\ s[q].delta)
      <4>1. C[k][q] = {q, None} \/ C[k][q] = {q}
        BY <3>1, <3>5, Zenon DEF ChainOf
      <4> QED BY <4>1, Zenon
    <3> QED BY <3>4, <3>5, Zenon
  <2>2. k \in Nat
    BY SMT
  <2> QED BY <2>1, <2>2, Zenon
<1>3. 0..Fuel \subseteq S
  <2> HIDE DEF S
  <2> QED BY <1>1, <1>2, FuelNat, Induction, Zenon
<1> QED BY <1>3, Zenon DEF C

\* The images of a complete chain are there, and their parents are in it.
LEMMA ChainFull ==
  ASSUME NEW s, StoreOK(s), NEW q \in Dir, None \notin Chain(s, q), NEW x \in Chain(s, q)
  PROVE  x \in Dir /\ s[x] # None /\ (s[x].delta => s[x].parent \in Chain(s, q) /\ s[x].parent \in Dir)
<1>0. ParentsOK(s)
  BY StoreParents
<1> DEFINE c == Chains(s)[Fuel][q]
<1>1. Chain(s, q) = c
  BY Zenon DEF Chain
<1>2. c \subseteq Dir \cup {None}
  BY <1>0, FuelIn, ChainIs, Zenon
<1>3. x \in Dir
  BY <1>1, <1>2, Zenon
<1>4. s[x] # None
  BY <1>0, <1>1, <1>3, FuelIn, ChainNone, Zenon
<1>5. ASSUME s[x].delta PROVE s[x].parent \in c
  BY <1>0, <1>1, <1>5, FuelIn, ChainClosed, Zenon
<1>6. s[x].delta => s[x].parent \in Dir
  BY <1>0, <1>3, <1>4, Zenon DEF ParentsOK
<1> QED BY <1>1, <1>3, <1>4, <1>5, <1>6, Zenon

\* Chains and links depend on neither device.bin nor the compressed flag.
LEMMA AlikeLinks ==
  ASSUME NEW s, StoreOK(s), NEW t, StoreOK(t), \A q \in Dir : Alike(s, t, q), NEW p \in Dir
  PROVE  Chain(t, p) = Chain(s, p) /\ (LinksOK(s, p) => LinksOK(t, p))
<1>0. ParentsOK(s) /\ ParentsOK(t)
  BY StoreParents
<1>1. \A x \in Dir : LinkSame(s, t, x)
  BY Zenon DEF LinkSame, Alike, Kin
<1>2. Chains(t)[Fuel][p] = Chains(s)[Fuel][p]
  BY <1>0, <1>1, FuelIn, ChainAgree, Zenon
<1>3. Chain(t, p) = Chain(s, p)
  BY <1>2, Zenon DEF Chain
<1>4. ASSUME LinksOK(s, p), None \notin Chain(s, p), NEW x \in Chain(s, p), t[x].delta
      PROVE  DeltaOK(t[x], t[t[x].parent])
  <2>1. x \in Dir /\ s[x] # None /\ (s[x].delta => s[x].parent \in Chain(s, p) /\ s[x].parent \in Dir)
    BY <1>4, ChainFull, Zenon
  <2>2. s[x].delta /\ s[x].parent = t[x].parent /\ Kin(s[x], t[x])
    BY <2>1, <1>4, Zenon DEF Alike, Kin
  <2>3. s[s[x].parent] # None
    BY <2>1, <2>2, <1>4, ChainFull, Zenon
  <2>4. Kin(s[s[x].parent], t[s[x].parent])
    BY <2>1, <2>2, <2>3, Zenon DEF Alike
  <2>5. DeltaOK(s[x], s[s[x].parent])
    BY <1>4, <2>2, Zenon DEF LinksOK, LinksIntact
  <2>6. DeltaOK(t[x], t[s[x].parent])
    <3> DEFINE a == s[x]
               b == s[a.parent]
               c == t[x]
               d == t[a.parent]
    <3>1. Kin(a, c) /\ Kin(b, d) /\ DeltaOK(a, b)
      BY <2>2, <2>4, <2>5, Zenon
    <3>2. DeltaOK(c, d)
      <4> HIDE DEF a, b, c, d
      <4> QED BY <3>1, DeltaKin, Zenon
    <3> QED BY <3>2, Zenon
  <2> QED BY <2>2, <2>6, Zenon
<1> QED BY <1>3, <1>4, Zenon DEF LinksOK, LinksIntact

\* Chains and links of images that are not made from p do not depend on p.
LEMMA OthersLinks ==
  ASSUME NEW s, StoreOK(s), NEW t, StoreOK(t), NEW p \in Dir, Elsewhere(s, t, p),
         NEW q \in Dir, p \notin Chain(s, q)
  PROVE  Chain(t, q) = Chain(s, q) /\ (LinksOK(s, q) <=> LinksOK(t, q))
<1>0. ParentsOK(s) /\ ParentsOK(t)
  BY StoreParents
<1>1. \A x \in Chains(s)[Fuel][q] \cap Dir : LinkSame(s, t, x)
  BY Zenon DEF LinkSame, Elsewhere, Chain
<1>2. Chains(t)[Fuel][q] = Chains(s)[Fuel][q]
  BY <1>0, <1>1, FuelIn, ChainAgree, ZenonT(60)
<1>3. Chain(t, q) = Chain(s, q)
  BY <1>2, Zenon DEF Chain
<1>4. ASSUME None \notin Chain(s, q), NEW x \in Chain(s, q)
      PROVE  t[x] = s[x] /\ (s[x].delta => t[s[x].parent] = s[s[x].parent])
  <2>1. x \in Dir /\ (s[x].delta => s[x].parent \in Chain(s, q) /\ s[x].parent \in Dir)
    BY <1>4, ChainFull, Zenon
  <2> QED BY <2>1, <1>4, Zenon DEF Elsewhere
<1> QED BY <1>3, <1>4, Zenon DEF LinksOK, LinksIntact

\* What the device held says nothing of device.bin.
LEMMA TruthKin ==
  ASSUME NEW a, NEW b, b.entries = a.entries, NEW bytes, TruthOK(a, bytes)
  PROVE  TruthOK(b, bytes)
BY Zenon DEF TruthOK

\* An operation that changes only device.bin files and compressed flags keeps the invariant.
LEMMA AlikeStep ==
  ASSUME IInv, StoreOK(store'), \A q \in Dir : Alike(store, store', q), UNCHANGED <<truth, stale>>
  PROVE  IInv'
<1>0. StoreOK(store) /\ Staging \in Dir /\ Path \subseteq Dir
  BY Zenon DEF IInv, Dir
<1>1. store'[Staging] = None
  BY <1>0, Zenon DEF IInv, Alike
<1>2. truth' = truth /\ stale' = stale
  BY Zenon
<1>3. ASSUME NEW p \in Path, store'[p] # None PROVE TruthOK(store'[p], truth'[p])
  <2>1. store[p] # None /\ store'[p].entries = store[p].entries
    BY <1>0, <1>3, Zenon DEF Alike, Kin
  <2>2. TruthOK(store[p], truth[p])
    BY <2>1, Zenon DEF IInv
  <2>3. TruthOK(store'[p], truth[p])
    BY <2>1, <2>2, TruthKin, Zenon
  <2> QED BY <1>2, <2>3, Zenon
<1>4. ASSUME NEW p \in Path \ stale PROVE LinksOK(store', p)
  <2>1. LinksOK(store, p) /\ p \in Dir
    BY <1>0, Zenon DEF IInv
  <2> QED BY <1>0, <2>1, AlikeLinks, Zenon
<1> QED BY <1>1, <1>2, <1>3, <1>4, Zenon DEF IInv

\* restore, validate and rollback: Materialize keeps the invariant.
LEMMA MaterializeStep ==
  ASSUME IInv, NEW p \in Path, Materialize(p)
  PROVE  IInv'
<1>0. StoreOK(store) /\ p \in Dir
  BY Zenon DEF IInv, Dir
<1>1. store' = Materialized(store, p).store /\ UNCHANGED <<truth, stale>>
  BY Zenon DEF Materialize
<1>2. StoreOK(Materialized(store, p).store)
  BY <1>0, MaterializedIs, Zenon
<1>3. \A q \in Dir : Alike(store, Materialized(store, p).store, q)
  BY <1>0, MaterializedIs, Zenon
<1> QED BY <1>1, <1>2, <1>3, AlikeStep, Zenon

\* An image without device.bin, which it can be made from again, is good.
LEMMA WithoutOK ==
  ASSUME NEW img, ImageOK(img), img.compressed \/ img.delta
  PROVE  ImageOK(Without(img)) /\ Kin(img, Without(img))
<1> DEFINE c == img.compressed
           d == img.delta
           es == img.entries
           z == img.zst
           par == img.parent
           rs == img.recs
           pt == img.patch
           rec == [entries |-> es, compressed |-> c, delta |-> d, device |-> None, zst |-> z,
                   parent |-> par, recs |-> rs, patch |-> pt]
<1>0. img \in Image
  BY Zenon DEF ImageOK
<1>1. Without(img) = rec
  BY <1>0, WithoutRecord, Zenon
<1>2. /\ es \in Seq(Entry) /\ c \in BOOLEAN /\ d \in BOOLEAN
      /\ None \in Seq(Byte) \cup {None} /\ z \in Seq(Byte) \cup {None}
      /\ par \in Path \cup {None} /\ rs \in SUBSET Record /\ pt \in Seq(Byte)
  BY <1>0, ImageFields, Zenon
<1>3. rec \in Image
  <2> HIDE DEF c, d, es, z, par, rs, pt
  <2> QED BY <1>2, ImageRecord, ZenonT(60)
<1>4. Kin(img, rec) /\ (rec.compressed <=> img.compressed) /\ rec.zst = img.zst
  BY Zenon DEF Kin
<1> HIDE DEF rec, c, d, es, z, par, rs, pt
<1>5. img.delta => ~rec.compressed
  BY <1>4, Zenon DEF ImageOK
<1>6. ~img.delta => Own(rec) = Own(img)
  BY <1>4, Zenon DEF Own
<1>7. ImageOK(rec)
  BY <1>3, <1>4, <1>5, <1>6, KinOK, Zenon
<1> QED BY <1>1, <1>4, <1>7, Zenon

\* Deleting a device.bin that can be made again keeps the invariant.
LEMMA DropStep ==
  ASSUME IInv, NEW p \in Path, DropDevice(p)
  PROVE  IInv'
<1> DEFINE img == store[p]
           new == Without(img)
           t == Put(store, p, new)
<1>0. StoreOK(store) /\ p \in Dir
  BY Zenon DEF IInv, Dir
<1>1. img # None /\ (img.compressed \/ img.delta) /\ UNCHANGED <<truth, stale>>
  BY Zenon DEF DropDevice
<1>2. store' = t
  BY Zenon DEF DropDevice, Put, Without
<1>3. ImageOK(img)
  BY <1>0, <1>1, Zenon DEF StoreOK
<1>4. ImageOK(new) /\ Kin(img, new)
  <2> HIDE DEF img
  <2> QED BY <1>1, <1>3, WithoutOK, Zenon
<1>5. new # None
  <2> HIDE DEF new
  <2> QED BY <1>4, ImageThere, Zenon
<1> HIDE DEF new
<1>6. StoreOK(t)
  BY <1>0, <1>4, StoreWith, Zenon
<1>7. Differs(t, store, p, new)
  BY <1>0, PutIs, Zenon
<1> HIDE DEF t
<1>8. ASSUME NEW q \in Dir PROVE Alike(store, t, q)
  <2>1. CASE q = p
    BY <1>1, <1>4, <1>5, <1>7, <2>1, Zenon DEF Differs, Alike
  <2>2. CASE q # p
    BY <1>7, <2>2, Zenon DEF Differs, Alike, Kin
  <2> QED BY <2>1, <2>2
<1> QED BY <1>1, <1>2, <1>6, <1>8, AlikeStep, Zenon

\* Removing an image keeps the invariant: the chains that had it are not complete.
LEMMA RemoveStep ==
  ASSUME IInv, NEW p \in Path, GCRemove(p)
  PROVE  IInv'
<1>0. StoreOK(store) /\ p \in Dir /\ Path \subseteq Dir /\ Staging \in Dir /\ p # Staging
  BY ImagesAssumption, Zenon DEF IInv, Dir
<1>1. store' = Put(store, p, None) /\ truth' = truth /\ stale' = stale
  BY Zenon DEF GCRemove, Put
<1>2. StoreOK(store')
  <2>1. StoreOK(Put(store, p, None))
    BY <1>0, StoreWith, Zenon
  <2> QED BY <1>1, <2>1, Zenon
<1>3. store'[p] = None /\ \A q \in Dir : q # p => store'[q] = store[q]
  <2>1. Differs(Put(store, p, None), store, p, None)
    BY <1>0, PutIs, Zenon
  <2> QED BY <1>1, <2>1, Zenon DEF Differs
<1>4. store'[Staging] = None
  BY <1>0, <1>3, Zenon DEF IInv
<1>5. ASSUME NEW q \in Path, store'[q] # None PROVE TruthOK(store'[q], truth'[q])
  BY <1>0, <1>1, <1>3, <1>5, Zenon DEF IInv
<1>6. ASSUME NEW q \in Path \ stale PROVE LinksOK(store', q)
  <2>1. LinksOK(store, q) /\ q \in Dir
    BY <1>0, Zenon DEF IInv
  <2>2. CASE None \in Chain(store', q)
    BY <2>2, Zenon DEF LinksOK
  <2>3. CASE None \notin Chain(store', q)
    <3>1. p \notin Chain(store', q)
      BY <1>2, <1>3, <2>1, <2>3, ChainFull, Zenon
    <3>2. Elsewhere(store', store, p)
      BY <1>3, Zenon DEF Elsewhere
    <3>3. LinksOK(store', q) <=> LinksOK(store, q)
      BY <1>0, <1>2, <2>1, <3>1, <3>2, OthersLinks, Zenon
    <3> QED BY <2>1, <3>3, Zenon
  <2> QED BY <2>2, <2>3, Zenon
<1> QED BY <1>1, <1>2, <1>4, <1>5, <1>6, Zenon DEF IInv

\* Finalize replaces p by the staging directory, which is gone then.
LEMMA FinalizeIs ==
  ASSUME NEW s, StoreOK(s), NEW p \in Path, s[Staging] # None,
         NEW t, t = [s EXCEPT ![p] = s[Staging], ![Staging] = None],
         NEW u, u = Put(s, Staging, None)
  PROVE  /\ StoreOK(t) /\ StoreOK(u) /\ Differs(u, s, Staging, None)
         /\ Differs(t, u, p, s[Staging]) /\ t[Staging] = None
<1> DEFINE img == s[Staging]
           v == Put(s, p, img)
<1>0. p \in Dir /\ Staging \in Dir /\ p # Staging
  BY ImagesAssumption, Zenon DEF Dir
<1>1. t = Put(v, Staging, None)
  BY Zenon DEF Put
<1>2. ImageOK(img)
  BY <1>0, Zenon DEF StoreOK
<1> HIDE DEF img
<1>3. StoreOK(v) /\ Differs(v, s, p, img)
  BY <1>0, <1>2, StoreWith, PutIs, Zenon
<1> HIDE DEF v
<1>4. StoreOK(Put(v, Staging, None)) /\ Differs(Put(v, Staging, None), v, Staging, None)
  BY <1>0, <1>3, StoreWith, PutIs, Zenon
<1>5. StoreOK(Put(s, Staging, None)) /\ Differs(Put(s, Staging, None), s, Staging, None)
  BY <1>0, StoreWith, PutIs, Zenon
<1>6. StoreOK(t) /\ Differs(t, v, Staging, None) /\ StoreOK(u) /\ Differs(u, s, Staging, None)
  BY <1>1, <1>4, <1>5, Zenon
<1>7. t[p] = img /\ t[Staging] = None
  BY <1>0, <1>3, <1>6, Zenon DEF Differs
<1>8. ASSUME NEW q \in Dir, q # p PROVE t[q] = u[q]
  <2>1. CASE q = Staging
    BY <1>6, <2>1, Zenon DEF Differs
  <2>2. CASE q # Staging
    <3>1. t[q] = v[q] /\ v[q] = s[q] /\ u[q] = s[q]
      BY <1>3, <1>6, <1>8, <2>2, Zenon DEF Differs
    <3> QED BY <3>1, Zenon
  <2> QED BY <2>1, <2>2
<1>9. Differs(t, u, p, img)
  BY <1>7, <1>8, Zenon DEF Differs
<1> QED BY <1>6, <1>7, <1>9, Zenon DEF img

\* A checkpoint that fails in the pipeline keeps the invariant: only the parents'
\* device.bin files have changed.
LEMMA FailedStep ==
  ASSUME IInv, NEW p \in Path, NEW l \in Layouts, NEW bytes \in [1..TotalSize(l) -> Byte],
         NEW compress \in BOOLEAN, NEW parent \in Path \cup {None},
         Checkpoint(p, l, bytes, compress, parent),
         NEW r, r = Snapshot(store, l, bytes, compress, parent), ~r.ok
  PROVE  IInv'
<1>0. StoreOK(store) /\ Staging \in Dir /\ store[Staging] = None
  BY Zenon DEF IInv, Dir
<1>1. Staged(r, store, parent, Entries(l, bytes))
  BY <1>0, ProcessIs, Zenon
<1>2. store' = Put(r.store, Staging, None) /\ UNCHANGED <<truth, stale>>
  BY Zenon DEF Checkpoint, Snapshot, Put
<1>3. StoreOK(Put(r.store, Staging, None))
  BY <1>0, <1>1, StoreWith, Zenon DEF Staged
<1>4. Differs(Put(r.store, Staging, None), r.store, Staging, None)
  BY <1>0, <1>1, PutIs, Zenon DEF Staged
<1>5. ASSUME NEW q \in Dir PROVE Alike(store, store', q)
  <2>1. CASE q = Staging
    BY <1>0, <1>2, <1>4, <2>1, Zenon DEF Differs, Alike
  <2>2. CASE q # Staging
    <3>1. q \in Path /\ store'[q] = r.store[q]
      BY <1>2, <1>4, <2>2, Zenon DEF Differs, Dir
    <3> QED BY <1>1, <3>1, Zenon DEF Staged, Alike
  <2> QED BY <2>1, <2>2
<1> QED BY <1>2, <1>3, <1>5, AlikeStep, Zenon

\* A new image whose chain has no stale image and not its own path: its links are as
\* WriteDelta made them.
LEMMA NewLinks ==
  ASSUME NEW s, StoreOK(s), NEW u, StoreOK(u), NEW t, StoreOK(t), NEW p \in Path,
         Differs(u, s, Staging, None), Differs(t, u, p, s[Staging]), s[Staging] # None,
         NEW par \in Path, s[Staging].parent = par, s[Staging].delta,
         DeltaOK(s[Staging], s[par]), p \notin Chain(s, Staging),
         par \in Chain(s, Staging) => LinksOK(u, par)
  PROVE  LinksOK(t, p)
<1> DEFINE img == s[Staging]
           m == Fuel - 1
           c == Chains(s)[m][par]
<1>0. /\ ParentsOK(s) /\ ParentsOK(u) /\ ParentsOK(t) /\ p \in Dir /\ par \in Dir /\ Staging \in Dir
      /\ p # Staging /\ par # Staging
  BY StoreParents, ImagesAssumption, Zenon DEF Dir
<1>1. t[p] = img /\ \A q \in Dir : q # p /\ q # Staging => t[q] = s[q]
  BY <1>0, Zenon DEF Differs
<1>2. Chain(s, Staging) = {Staging} \cup c
  <2>1. Chains(s)[Fuel][Staging] = ChainOf(s, Staging, Chains(s)[m])
    BY <1>0, FuelIn, ChainNext, Zenon
  <2> QED BY <2>1, Zenon DEF Chain, ChainOf
<1>3. c \subseteq Path \cup {None} /\ par \in c
  BY <1>0, FuelIn, ChainPath, ChainIs, Zenon
<1>4. p \notin c /\ par # p
  BY <1>2, <1>3, Zenon
<1>5. \A x \in c \cap Dir : LinkSame(s, t, x)
  <2>1. ASSUME NEW x \in c \cap Dir PROVE t[x] = s[x]
    <3>1. x # p /\ x # Staging
      BY <1>3, <1>4, ImagesAssumption, Zenon DEF Dir
    <3> QED BY <1>1, <3>1, Zenon
  <2> QED BY <2>1, Zenon DEF LinkSame
<1>a. m \in 0..Fuel
  BY FuelIn, Zenon
<1>6. Chains(t)[m][par] = c
  <2>1. ParentsOK(s) /\ ParentsOK(t) /\ par \in Dir
    BY <1>0, Zenon
  <2>2. \A x \in Chains(s)[m][par] \cap Dir : LinkSame(s, t, x)
    BY <1>5, Zenon
  <2> HIDE DEF m, c
  <2>3. Chains(t)[m][par] = Chains(s)[m][par]
    BY <1>a, <2>1, <2>2, ChainAgree, SMT
  <2> QED BY <2>3, Zenon DEF c
<1>7. Chain(t, p) = {p} \cup c
  <2>1. Chains(t)[Fuel][p] = ChainOf(t, p, Chains(t)[m])
    BY <1>0, FuelIn, ChainNext, Zenon
  <2> QED BY <1>1, <1>6, <2>1, Zenon DEF Chain, ChainOf
<1> SUFFICES ASSUME None \notin c PROVE LinksIntact(t, {p} \cup c)
  BY <1>7, Zenon DEF LinksOK
<1>8. Chain(t, par) = c
  <2>1. None \notin Chains(t)[Fuel - 1][par]
    BY <1>6, Zenon
  <2>2. Chains(t)[Fuel][par] = Chains(t)[Fuel - 1][par]
    <3> HIDE DEF c, m
    <3> QED BY <1>0, <2>1, FuelIn, ChainMono, ZenonT(60)
  <2> QED BY <1>6, <2>2, Zenon DEF Chain
<1>9. LinksOK(t, par)
  <2>1. Elsewhere(t, u, p)
    BY Zenon DEF Differs, Elsewhere
  <2>2. LinksOK(u, par)
    BY <1>2, <1>3, Zenon
  <2>3. p \notin Chain(t, par)
    BY <1>4, <1>8, Zenon
  <2>4. LinksOK(t, par) <=> LinksOK(u, par)
    <3> HIDE DEF c, m, img
    <3>1. StoreOK(t) /\ StoreOK(u) /\ p \in Dir /\ par \in Dir
      BY <1>0, Zenon
    <3> QED BY <3>1, <2>1, <2>3, OthersLinks, SMTT(60)
  <2> QED BY <2>2, <2>4, Zenon
<1>10. t[par] = s[par]
  BY <1>0, <1>1, <1>4, Zenon
<1>11. DeltaOK(t[p], t[t[p].parent])
  BY <1>1, <1>10, Zenon
<1>12. \A x \in c : t[x].delta => DeltaOK(t[x], t[t[x].parent])
  BY <1>8, <1>9, Zenon DEF LinksOK, LinksIntact
<1> QED BY <1>11, <1>12, Zenon DEF LinksIntact

\* A checkpoint that succeeds keeps the invariant.
LEMMA FinalizedStep ==
  ASSUME IInv, NEW p \in Path, NEW l \in Layouts, NEW bytes \in [1..TotalSize(l) -> Byte],
         NEW compress \in BOOLEAN, NEW parent \in Path \cup {None},
         Checkpoint(p, l, bytes, compress, parent),
         NEW r, r = Snapshot(store, l, bytes, compress, parent), r.ok
  PROVE  IInv'
<1> DEFINE s == r.store
           img == s[Staging]
           u == Put(s, Staging, None)
<1>0. /\ StoreOK(store) /\ Staging \in Dir /\ store[Staging] = None /\ p \in Dir /\ Path \subseteq Dir
      /\ p # Staging /\ Staging \notin Path
  BY ImagesAssumption, Zenon DEF IInv, Dir
<1>1. Staged(r, store, parent, Entries(l, bytes))
  BY <1>0, ProcessIs, Zenon
<1>2. StoreOK(s) /\ img # None /\ img.entries = Entries(l, bytes) /\ \A q \in Path : Alike(store, s, q)
  BY <1>1, Zenon DEF Staged
<1>3. img.delta => /\ parent \in Path /\ img.parent = parent /\ store[parent] # None
                   /\ DeltaOK(img, s[parent])
  BY <1>1, Zenon DEF Staged
<1>4. store' = [s EXCEPT ![p] = img, ![Staging] = None]
  BY Zenon DEF Checkpoint, Snapshot, Put
<1>5. truth' = [truth EXCEPT ![p] = bytes]
  BY Zenon DEF Checkpoint, Snapshot, Put
<1>6. stale' = {q \in Path \ {p} : q \in stale \/ p \in Chain(store, q)}
                 \cup {q \in {p} : Chain(s, Staging) \cap (stale \cup {p}) # {}}
  BY Zenon DEF Checkpoint, Snapshot, Put
<1> HIDE DEF s
<1>7. /\ StoreOK(store') /\ StoreOK(u) /\ Differs(u, s, Staging, None)
      /\ Differs(store', u, p, img) /\ store'[Staging] = None
  BY <1>2, <1>4, FinalizeIs, Zenon
<1> HIDE DEF u
<1>8. ASSUME NEW q \in Dir PROVE Alike(store, u, q)
  <2>1. CASE q = Staging
    BY <1>0, <1>7, <2>1, Zenon DEF Differs, Alike
  <2>2. CASE q # Staging
    <3>1. q \in Path /\ u[q] = s[q]
      BY <1>7, <2>2, Zenon DEF Differs, Dir
    <3> QED BY <1>2, <3>1, Zenon DEF Alike
  <2> QED BY <2>1, <2>2
<1>9. ASSUME NEW q \in Path PROVE Chain(u, q) = Chain(store, q) /\ (q \notin stale => LinksOK(u, q))
  <2>1. q \in Dir /\ (q \notin stale => LinksOK(store, q))
    BY <1>0, Zenon DEF IInv
  <2>2. Chain(u, q) = Chain(store, q) /\ (LinksOK(store, q) => LinksOK(u, q))
    BY <1>0, <1>7, <1>8, <2>1, AlikeLinks, Zenon
  <2> QED BY <2>1, <2>2, Zenon
<1>10. truth' \in [Path -> Seq(Byte) \cup {None}] /\ truth'[p] = bytes
       /\ \A q \in Path : q # p => truth'[q] = truth[q]
  <2>1. bytes \in Seq(Byte) \cup {None}
    BY EntriesIs, Zenon
  <2>2. truth \in [Path -> Seq(Byte) \cup {None}]
    BY Zenon DEF IInv
  <2> QED BY <1>5, <2>1, <2>2, Zenon
<1>11. ASSUME NEW q \in Path, store'[q] # None PROVE TruthOK(store'[q], truth'[q])
  <2>1. CASE q = p
    <3>1. TruthOK(img, bytes)
      BY <1>2, EntriesIs, Zenon DEF TruthOK
    <3> QED BY <1>7, <1>10, <2>1, <3>1, Zenon DEF Differs
  <2>2. CASE q # p
    <3>1. store'[q] = u[q] /\ q \in Dir
      BY <1>0, <1>7, <2>2, Zenon DEF Differs
    <3>2. store[q] # None /\ u[q].entries = store[q].entries
      BY <1>8, <1>11, <3>1, Zenon DEF Alike, Kin
    <3>3. TruthOK(store[q], truth[q])
      BY <3>2, Zenon DEF IInv
    <3>4. TruthOK(u[q], truth[q])
      BY <3>2, <3>3, TruthKin, Zenon
    <3> QED BY <1>10, <2>2, <3>1, <3>4, Zenon
  <2> QED BY <2>1, <2>2
<1>12. stale' \subseteq Path
  BY <1>6, Zenon
<1>13. ASSUME NEW q \in Path, q # p, q \notin stale' PROVE LinksOK(store', q)
  <2>1. q \notin stale /\ p \notin Chain(store, q)
    BY <1>6, <1>13, Zenon
  <2>2. LinksOK(u, q) /\ p \notin Chain(u, q) /\ q \in Dir
    BY <1>0, <1>9, <2>1, Zenon
  <2>3. Elsewhere(u, store', p)
    BY <1>7, Zenon DEF Differs, Elsewhere
  <2>4. LinksOK(u, q) <=> LinksOK(store', q)
    BY <1>0, <1>7, <2>2, <2>3, OthersLinks, Zenon
  <2> QED BY <2>2, <2>4, Zenon
<1>14. ASSUME p \notin stale' PROVE LinksOK(store', p)
  <2>1. \A x \in Chain(s, Staging) : x \notin stale /\ x # p
    BY <1>6, <1>14, Zenon
  <2>2. CASE ~img.delta
    <3>1. store'[p] = img
      BY <1>7, Zenon DEF Differs
    <3>2. ParentsOK(store')
      BY <1>7, StoreParents, Zenon
    <3>3. Chains(store')[Fuel][p] = ChainOf(store', p, Chains(store')[Fuel - 1])
      BY <1>0, <3>2, FuelIn, ChainNext, Zenon
    <3>4. Chain(store', p) = {p}
      BY <1>2, <2>2, <3>1, <3>3, Zenon DEF Chain, ChainOf
    <3> QED BY <2>2, <3>1, <3>4, Zenon DEF LinksOK, LinksIntact
  <2>3. CASE img.delta
    <3>1. parent \in Path /\ img.parent = parent /\ DeltaOK(img, s[parent])
      BY <1>3, <2>3, Zenon
    <3>2. parent \in Chain(s, Staging) => LinksOK(u, parent)
      BY <1>9, <2>1, <3>1, Zenon
    <3>3. p \notin Chain(s, Staging)
      BY <2>1, Zenon
    <3> QED BY <1>2, <1>7, <2>3, <3>1, <3>2, <3>3, NewLinks, Zenon
  <2> QED BY <2>2, <2>3, Zenon
<1> QED BY <1>7, <1>10, <1>11, <1>12, <1>13, <1>14, Zenon DEF IInv

\* The invariant holds in the first state.
LEMMA InitIInv == Init => IInv
<1> SUFFICES ASSUME Init PROVE IInv
  OBVIOUS
<1>1. store = [p \in Dir |-> None] /\ truth = [p \in Path |-> None] /\ stale = {}
  BY Zenon DEF Init
<1>2. Staging \in Dir /\ Path \subseteq Dir
  BY Zenon DEF Dir
<1>3. StoreOK(store) /\ \A q \in Dir : store[q] = None
  BY <1>1, Zenon DEF StoreOK
<1>4. truth \in [Path -> Seq(Byte) \cup {None}]
  BY <1>1, Zenon
<1>5. ASSUME NEW q \in Path PROVE LinksOK(store, q)
  <2>1. q \in Dir /\ store[q] = None
    BY <1>2, <1>3, Zenon
  <2>2. None \in Chain(store, q)
    <3>1. ParentsOK(store)
      BY <1>3, StoreParents, Zenon
    <3>2. Chains(store)[Fuel][q] = ChainOf(store, q, Chains(store)[Fuel - 1])
      BY <2>1, <3>1, FuelIn, ChainNext, Zenon
    <3> QED BY <2>1, <3>2, Zenon DEF Chain, ChainOf
  <2> QED BY <2>2, Zenon DEF LinksOK
<1> QED BY <1>1, <1>2, <1>3, <1>4, <1>5, Zenon DEF IInv

\* Every operation keeps the invariant.
LEMMA NextIInv == IInv /\ [Next]_vars => IInv'
<1> SUFFICES ASSUME IInv, [Next]_vars PROVE IInv'
  OBVIOUS
<1>1. ASSUME NEW p \in Path, NEW l \in Layouts, NEW bytes \in [1..TotalSize(l) -> Byte],
             NEW compress \in BOOLEAN, NEW parent \in Path \cup {None},
             Checkpoint(p, l, bytes, compress, parent)
      PROVE  IInv'
  <2> DEFINE r == Snapshot(store, l, bytes, compress, parent)
  <2>1. CASE r.ok
    BY <1>1, <2>1, FinalizedStep, Zenon
  <2>2. CASE ~r.ok
    BY <1>1, <2>2, FailedStep, Zenon
  <2> QED BY <2>1, <2>2
<1>2. ASSUME NEW p \in Path, Materialize(p) PROVE IInv'
  BY <1>2, MaterializeStep, Zenon
<1>3. ASSUME NEW p \in Path, DropDevice(p) PROVE IInv'
  BY <1>3, DropStep, Zenon
<1>4. ASSUME NEW p \in Path, GCRemove(p) PROVE IInv'
  BY <1>4, RemoveStep, Zenon
<1>5. CASE UNCHANGED vars
  BY <1>5, Zenon DEF vars, IInv
<1> QED BY <1>1, <1>2, <1>3, <1>4, <1>5, Zenon DEF Next

\* The invariant holds always.
LEMMA AlwaysIInv == Spec => []IInv
BY InitIInv, NextIInv, PTL DEF Spec

-----------------------------------------------------------------------------
(* The properties.                                                         *)

\* A chunk of device.bin that agrees with the manifest is the slice with the CRC's bytes.
LEMMA ChunkSlice ==
  ASSUME NEW bytes \in Seq(Byte), NEW es \in Seq(Entry), ManifestOK(es), NEW k \in 1..Len(es),
         ChunkIn(bytes, es[k])
  PROVE  Slice(bytes, es[k].off, es[k].size) = es[k].crc
<1> DEFINE off == es[k].off
           size == es[k].size
           crc == es[k].crc
           sl == Slice(bytes, off, size)
<1>1. off \in Nat /\ size \in Nat /\ crc \in Seq(Byte) /\ Len(crc) = size
  BY EntryFields, Zenon DEF ManifestOK
<1>2. off + size <= Len(bytes) /\ \A j \in 1..size : bytes[off + j] = crc[j]
  BY Zenon DEF ChunkIn
<1> HIDE DEF off, size, crc
<1>3. sl \in Seq(Byte) /\ Len(sl) = size /\ \A j \in 1..size : sl[j] = bytes[off + j]
  BY <1>1, <1>2, SliceIs, Zenon
<1> HIDE DEF sl
<1>4. \A j \in 1..size : sl[j] = crc[j]
  BY <1>2, <1>3, Zenon
<1>5. sl = crc
  BY <1>1, <1>3, <1>4, SMT
<1> QED BY <1>5, Zenon DEF sl, off, size, crc

\* Where no chunk is Shifted, none is Moved.
LEMMA NotShifted ==
  ASSUME StoreOK(store), NEW p \in Dir, None \notin Chain(store, p),
         \A q \in Chain(store, p) : store[q].delta => ~Shifted(q)
  PROVE  NoneMoved(store, Chain(store, p))
<1>1. ASSUME NEW x \in Chain(store, p), store[x].delta, Moved(store[x], store[store[x].parent])
      PROVE  FALSE
  <2> DEFINE es == store[x].entries
             par == store[store[x].parent]
             ps == par.entries
  <2>1. /\ x \in Dir /\ store[x] # None
        /\ store[x].parent \in Chain(store, p) /\ store[x].parent \in Dir
    BY <1>1, ChainFull, Zenon
  <2>2. par # None
    BY <2>1, ChainFull, Zenon
  <2>3. es \in Seq(Entry) /\ ps \in Seq(Entry)
    BY <2>1, <2>2, ImageFields, Zenon DEF StoreOK, ImageOK
  <2>4. PICK k \in 1..Len(es), m \in 1..Len(ps) : Same(ps[m], es[k]) /\ ps[m].off # es[k].off
    BY <1>1, Zenon DEF Moved
  <2> HIDE DEF es, ps
  <2>5. DOMAIN es = 1..Len(es) /\ DOMAIN ps = 1..Len(ps)
    BY <2>3, SMT
  <2>6. es[k] \in ToSet(es) /\ ps[m] \in ToSet(ps)
    BY <2>5, Zenon DEF ToSet
  <2>7. Shifted(x)
    BY <2>4, <2>6, Zenon DEF Shifted, Same, es, ps
  <2> QED BY <1>1, <2>7, Zenon
<1> QED BY <1>1, Zenon DEF NoneMoved

\* An image that is not stale, with its chain complete and no chunk moved, materializes to
\* what the device held.
LEMMA RestorableOne ==
  ASSUME IInv, NEW p \in Path, Intact(p)
  PROVE  /\ store[p] # None
         /\ Materialized(store, p).ok
         /\ \A e \in ToSet(store[p].entries) :
              Slice(DeviceOf(p), e.off, e.size) = Slice(truth[p], e.off, e.size)
<1> DEFINE D == Devices(store)[Fuel][p]
           es == store[p].entries
<1>a. /\ p \in Path \ stale /\ None \notin Chain(store, p)
      /\ \A q \in Chain(store, p) : store[q].delta => ~Shifted(q)
  BY Zenon DEF Intact
<1>0. StoreOK(store) /\ ParentsOK(store) /\ p \in Dir
  BY StoreParents, Zenon DEF IInv, Dir
<1>1. p \in Chain(store, p)
  BY <1>0, FuelIn, ChainIs, Zenon DEF Chain
<1>2. store[p] # None
  BY <1>a, <1>0, <1>1, ChainFull, Zenon
<1>3. LinksIntact(store, Chain(store, p))
  BY <1>a, Zenon DEF IInv, LinksOK
<1>4. NoneMoved(store, Chain(store, p))
  BY <1>a, <1>0, NotShifted, Zenon
<1>5. D \in Seq(Byte) /\ Holds(D, es)
  BY <1>a, <1>0, <1>3, <1>4, FuelIn, Rebuild, Zenon DEF Chain
<1>6. D # None
  BY <1>5, ImagesAssumption, Zenon
<1>7. Materialized(store, p).ok
  BY <1>0, <1>6, MaterializedIs, Zenon
<1>8. DeviceOf(p) = D
  BY <1>0, <1>7, MaterializedIs, Zenon DEF DeviceOf
<1> HIDE DEF D
<1>9. es \in Seq(Entry) /\ ManifestOK(es)
  BY <1>0, <1>2, ImageFields, Zenon DEF StoreOK, ImageOK
<1>10. ASSUME NEW e \in ToSet(es) PROVE Slice(D, e.off, e.size) = Slice(truth[p], e.off, e.size)
  <2>1. DOMAIN es = 1..Len(es)
    BY <1>9, SMT
  <2>2. PICK k \in 1..Len(es) : e = es[k]
    BY <2>1, Zenon DEF ToSet
  <2>3. es[k].crc = Slice(truth[p], es[k].off, es[k].size)
    BY <1>2, Zenon DEF IInv, TruthOK
  <2>4. ChunkIn(D, es[k])
    BY <1>5, Zenon DEF Holds
  <2> HIDE DEF es
  <2>5. Slice(D, es[k].off, es[k].size) = es[k].crc
    BY <1>5, <1>9, <2>4, ChunkSlice, Zenon
  <2> QED BY <2>2, <2>3, <2>5, Zenon
<1> QED BY <1>2, <1>7, <1>8, <1>10, Zenon

\* Whatever has been checkpointed, restored, compressed, deleted or removed since, an
\* image whose ancestors are there and are the ones it was made from materializes to what
\* the device held when it was taken (WriteDelta, ApplyDelta, EnsureDeviceMaterialized),
\* unless an unchanged chunk has moved.
THEOREM ImagesRestorable == Spec => []Restorable
<1>1. IInv => Restorable
  BY RestorableOne, Zenon DEF Restorable
<1> QED BY <1>1, AlwaysIInv, PTL

\* The first n values of f are different; they are all among those of g.
Distinct(f, n) == \A i, j \in 1..n : f[i] = f[j] => i = j
Among(f, g, n) == \A i \in 1..n : \E j \in 1..n : g[j] = f[i]

\* n different values that are all among n others are all of those.
LEMMA SameMembers ==
  ASSUME NEW n \in Nat, NEW f, NEW g, Distinct(f, n), Among(f, g, n)
  PROVE  Among(g, f, n)
<1> DEFINE J == 1..n
           h == [i \in J |-> CHOOSE j \in J : g[j] = f[i]]
<1>1. h \in [J -> J] /\ \A i \in J : g[h[i]] = f[i]
  BY Zenon DEF Among
<1> HIDE DEF h
<1>2. IsFiniteSet(J)
  BY FS_Interval, SMT
<1> HIDE DEF J
<1>3. \A i, j \in J : f[i] = f[j] => i = j
  BY Zenon DEF J, Distinct
<1>a. ASSUME NEW i \in J, NEW j \in J, h[i] = h[j] PROVE i = j
  <2>1. g[h[i]] = f[i] /\ g[h[j]] = f[j]
    BY <1>1, Zenon
  <2>2. f[i] = f[j]
    BY <1>a, <2>1, Zenon
  <2> QED BY <1>3, <2>2, Zenon
<1>b. DOMAIN h = J
  BY <1>1, Zenon
<1>4. h \in Injection(J, J)
  BY <1>1, <1>a, <1>b, Zenon DEF Injection, IsInjective
<1>5. h \in Surjection(J, J)
  BY <1>2, <1>4, FS_Injection, Zenon
<1>6. \A j \in J : \E i \in J : h[i] = j
  BY <1>5, Zenon DEF Surjection
<1>7. ASSUME NEW j \in J PROVE \E i \in J : f[i] = g[j]
  <2>1. PICK i \in J : h[i] = j
    BY <1>6, Zenon
  <2>2. g[h[i]] = f[i]
    BY <1>1, Zenon
  <2> QED BY <2>1, <2>2, Zenon
<1> QED BY <1>7, Zenon DEF J, Among

\* What an image says that the device held: addresses and CRCs.
Listing(es) == {<<es[k].ptr, es[k].crc>> : k \in 1..Len(es)}

\* What an intact image materializes to is what its manifest lists.
LEMMA ContentsIs ==
  ASSUME IInv, NEW p \in Path, Intact(p)
  PROVE  Contents(p) = Listing(store[p].entries)
<1> DEFINE es == store[p].entries
           n == Len(es)
           D == DeviceOf(p)
<1>0. /\ store[p] # None
      /\ \A e \in ToSet(es) : Slice(D, e.off, e.size) = Slice(truth[p], e.off, e.size)
  BY RestorableOne, Zenon
<1>1. es \in Seq(Entry)
  BY <1>0, ImageFields, Zenon DEF IInv, StoreOK, ImageOK, Dir
<1>2. DOMAIN es = 1..n
  BY <1>1, SMT
<1>4. Contents(p) = {<<e.ptr, Slice(D, e.off, e.size)>> : e \in ToSet(es)}
  BY Zenon DEF Contents
<1>5. ToSet(es) = {es[k] : k \in 1..n}
  BY <1>2, Zenon DEF ToSet
<1>3. \A k \in 1..n : es[k].crc = Slice(D, es[k].off, es[k].size)
  <2> TAKE k \in 1..n
  <2>1. es[k].crc = Slice(truth[p], es[k].off, es[k].size)
    BY <1>0, Zenon DEF IInv, TruthOK
  <2>2. es[k] \in ToSet(es)
    BY <1>5, Zenon
  <2> HIDE DEF es, D
  <2> QED BY <1>0, <2>1, <2>2, Zenon
<1> HIDE DEF es, n, D
<1>6. {<<e.ptr, Slice(D, e.off, e.size)>> : e \in ToSet(es)}
        = {<<es[k].ptr, es[k].crc>> : k \in 1..n}
  <2>1. ASSUME NEW e \in ToSet(es)
        PROVE  \E k \in 1..n : <<e.ptr, Slice(D, e.off, e.size)>> = <<es[k].ptr, es[k].crc>>
    <3>1. PICK k \in 1..n : e = es[k]
      BY <1>5, Zenon
    <3> QED BY <3>1, <1>3, Zenon
  <2>2. ASSUME NEW k \in 1..n
        PROVE  \E e \in ToSet(es) : <<es[k].ptr, es[k].crc>> = <<e.ptr, Slice(D, e.off, e.size)>>
    <3>1. es[k] \in ToSet(es)
      BY <1>5, Zenon
    <3> QED BY <3>1, <1>3, Zenon
  <2> QED BY <2>1, <2>2, SMT
<1> QED BY <1>4, <1>6, Zenon DEF Listing, es, n, D

\* The smaller of two equal numbers.
LEMMA MinSame == ASSUME NEW n \in Nat PROVE Min({n, n}) = n
<1>1. n <= n
  BY SMT
<1> QED BY <1>1, Zenon DEF Min

\* Manifests without drift list the same: the entries of the left one are all in the
\* right one, and as they are as many, with different addresses, those are all it has.
LEMMA DriftListing ==
  ASSUME NEW l, ImageOK(l), NEW r, ImageOK(r), ~Drift(l, r)
  PROVE  Listing(l.entries) = Listing(r.entries)
<1> DEFINE es == l.entries
           fs == r.entries
           n == Len(es)
           f == [i \in 1..n |-> es[i].ptr]
           g == [i \in 1..n |-> fs[i].ptr]
<1>1. es \in Seq(Entry) /\ fs \in Seq(Entry) /\ ManifestOK(es) /\ ManifestOK(fs)
  BY ImageFields, Zenon DEF ImageOK
<1>2. Len(fs) = n
  BY Zenon DEF Drift
<1>3. n \in Nat /\ DOMAIN fs = 1..n
  BY <1>1, <1>2, SMT
<1>4. Min({n, n}) = n
  BY <1>3, MinSame, Zenon
<1>5. ASSUME NEW i \in 1..n PROVE \E j \in 1..n : Same(fs[j], es[i])
  <2>1. \E e \in ToSet(fs) : e.ptr = es[i].ptr /\ e.size = es[i].size /\ e.crc = es[i].crc
    BY <1>2, <1>4, <1>5, Zenon DEF Drift
  <2> QED BY <2>1, <1>3, Zenon DEF ToSet, Same
<1>6. \A i, j \in 1..n : es[i].ptr = es[j].ptr => i = j
  BY <1>1, Zenon DEF ManifestOK
<1>7. \A i, j \in 1..n : fs[i].ptr = fs[j].ptr => i = j
  BY <1>1, <1>2, Zenon DEF ManifestOK
<1> HIDE DEF es, fs, n
<1>8. \A i \in 1..n : f[i] = es[i].ptr /\ g[i] = fs[i].ptr
  BY Zenon
<1> HIDE DEF f, g
<1>9. Distinct(f, n)
  BY <1>6, <1>8, Zenon DEF Distinct
<1>10. ASSUME NEW i \in 1..n PROVE \E j \in 1..n : g[j] = f[i]
  <2>1. PICK j \in 1..n : Same(fs[j], es[i])
    BY <1>5, Zenon
  <2>2. g[j] = f[i]
    BY <1>8, <2>1, Zenon DEF Same
  <2> QED BY <2>2, Zenon
<1>11. Among(g, f, n)
  <2>1. Among(f, g, n)
    BY <1>10, Zenon DEF Among
  <2> QED BY <1>3, <1>9, <2>1, SameMembers, Zenon
<1>12. ASSUME NEW j \in 1..n PROVE \E i \in 1..n : Same(fs[j], es[i])
  <2>1. PICK i \in 1..n : f[i] = g[j]
    BY <1>11, Zenon DEF Among
  <2>2. PICK k \in 1..n : Same(fs[k], es[i])
    BY <1>5, Zenon
  <2>3. fs[k].ptr = fs[j].ptr
    BY <1>8, <2>1, <2>2, Zenon DEF Same
  <2>4. k = j
    BY <1>7, <2>3, Zenon
  <2> QED BY <2>2, <2>4, Zenon
<1> DEFINE E == {<<es[k].ptr, es[k].crc>> : k \in 1..n}
           F == {<<fs[k].ptr, fs[k].crc>> : k \in 1..n}
<1>13. ASSUME NEW x \in E PROVE x \in F
  <2>1. PICK i \in 1..n : x = <<es[i].ptr, es[i].crc>>
    BY <1>13, Zenon
  <2>2. PICK j \in 1..n : Same(fs[j], es[i])
    BY <1>5, Zenon
  <2>3. x = <<fs[j].ptr, fs[j].crc>>
    BY <2>1, <2>2, Zenon DEF Same
  <2> QED BY <2>3, Zenon
<1>14. ASSUME NEW x \in F PROVE x \in E
  <2>1. PICK j \in 1..n : x = <<fs[j].ptr, fs[j].crc>>
    BY <1>14, Zenon
  <2>2. PICK i \in 1..n : Same(fs[j], es[i])
    BY <1>12, Zenon
  <2>3. x = <<es[i].ptr, es[i].crc>>
    BY <2>1, <2>2, Zenon DEF Same
  <2> QED BY <2>3, Zenon
<1>15. E = F
  <2> HIDE DEF E, F
  <2> QED BY <1>13, <1>14, Zenon
<1> QED BY <1>2, <1>15, Zenon DEF Listing, es, fs, n

\* Two images between which "cudackpt diff" reports nothing (CompareImages) materialize to
\* the same memory, although it goes through the entries of the left one only and reads
\* neither device.bin, provided that both are intact: ancestors there and not replaced,
\* no unchanged chunk moved.
THEOREM ImagesNoDriftIsSame == Spec => []NoDriftIsSame
<1>1. ASSUME IInv, NEW p \in Path, NEW q \in Path, Intact(p), Intact(q),
             ~Drift(store[p], store[q])
      PROVE  Contents(p) = Contents(q)
  <2>0. store[p] # None /\ store[q] # None
    BY <1>1, RestorableOne, Zenon
  <2>1. ImageOK(store[p]) /\ ImageOK(store[q])
    BY <1>1, <2>0, Zenon DEF IInv, StoreOK, Dir
  <2>2. Listing(store[p].entries) = Listing(store[q].entries)
    BY <1>1, <2>1, DriftListing, Zenon
  <2> QED BY <1>1, <2>2, ContentsIs, Zenon
<1>2. IInv => NoDriftIsSame
  BY <1>1, Zenon DEF NoDriftIsSame
<1> QED BY <1>2, AlwaysIInv, PTL

=============================================================================
