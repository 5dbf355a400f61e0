--------------------------- MODULE ManifestProofs ---------------------------
(***************************************************************************)
(* Each side reads from manifest.bin what it wrote, for manifests of any   *)
(* length, for every sequence of the stages of the pipeline, and for every *)
(* width of the allocation counter.                                        *)
(***************************************************************************)
EXTENDS Manifest, SequenceTheorems, FiniteSetTheorems, TLAPS

-----------------------------------------------------------------------------
(* Words of a file.                                                        *)

\* A sequence of entries.  Nothing is said of the fields: the offset is a sum over
\* the entries before, and no reader looks at it.
IsEntry(e) ==
  e = [ptr |-> e.ptr, size |-> e.size, offset |-> e.offset, crc |-> e.crc,
       seq |-> e.seq, hash |-> e.hash]

IsList(es) ==
  /\ Len(es) \in Nat
  /\ es = [i \in 1..Len(es) |-> es[i]]
  /\ \A i \in 1..Len(es) : IsEntry(es[i])

\* A function on 1..n is a sequence of length n.
LEMMA FunctionIsSeq ==
  ASSUME NEW n \in Nat, NEW f, f = [i \in 1..n |-> f[i]]
  PROVE  /\ f \in Seq({f[i] : i \in 1..n})
         /\ Len(f) = n
<1>1. f \in [1..n -> {f[i] : i \in 1..n}]
  OBVIOUS
<1>2. f \in Seq({f[i] : i \in 1..n})
  BY <1>1, SeqDef
<1>3. Len(f) = n
  BY <1>1, <1>2, LenProperties
<1> QED
  BY <1>2, <1>3

\* g consists of the words of h and then those of b.
Joined(g, h, b) ==
  /\ Len(g) = Len(h) + Len(b)
  /\ \A k \in 1..Len(h) : g[k] = h[k]
  /\ \A k \in 1..Len(b) : g[Len(h) + k] = b[k]

\* b consists of n rows of w words, one after the other.
InRows(b, rows, n, w) ==
  /\ Len(b) = n * w
  /\ \A i \in 1..n, j \in 1..w : b[(i - 1) * w + j] = rows[i][j]

\* Word j of row i is found where the rows before it end: the index arithmetic of
\* the readers is the inverse of that of the writers.
LEMMA BodyWords ==
  ASSUME NEW n \in Nat, NEW rows, Len(rows) = n, NEW w \in {8, 16}
  PROVE  /\ \E S : Body(rows, w) \in Seq(S)
         /\ InRows(Body(rows, w), rows, n, w)
<1> DEFINE b == Body(rows, w)
<1>1. n * w \in Nat
  OBVIOUS
<1>2. b = [k \in 1..(n * w) |-> b[k]]
  BY DEF Body
<1>3. ASSUME NEW i \in 1..n, NEW j \in 1..w
      PROVE  b[(i - 1) * w + j] = rows[i][j]
  <2> DEFINE k == (i - 1) * w + j
  <2>1. k \in 1..(n * w) /\ (k - 1) \div w = i - 1 /\ (k - 1) % w = j - 1
    <3>1. CASE w = 8
      BY <3>1
    <3>2. CASE w = 16
      BY <3>2
    <3> QED
      BY <3>1, <3>2
  <2> HIDE DEF k
  <2>2. b[k] = rows[((k - 1) \div w) + 1][((k - 1) % w) + 1]
    BY <2>1 DEF Body
  <2>3. i - 1 + 1 = i /\ j - 1 + 1 = j
    OBVIOUS
  <2>4. b[k] = rows[i][j]
    BY <2>1, <2>2, <2>3
  <2> QED
    BY <2>4 DEF k
<1> HIDE DEF b
<1>4. b \in Seq({b[k] : k \in 1..(n * w)}) /\ Len(b) = n * w
  BY <1>1, <1>2, FunctionIsSeq
<1> QED
  BY <1>3, <1>4 DEF b, InRows

\* The words of a header followed by a body.
LEMMA HeaderWords ==
  ASSUME NEW b, NEW h, NEW g, \E S : b \in Seq(S), \E S : h \in Seq(S), g = h \o b
  PROVE  Joined(g, h, b)
<1> PICK S : b \in Seq(S)
  OBVIOUS
<1> PICK T : h \in Seq(T)
  OBVIOUS
<1>1. b \in Seq(S \cup T) /\ h \in Seq(S \cup T)
  BY SeqMonotonic
<1>2. Len(b) \in Nat /\ Len(h) \in Nat
  BY LenProperties
<1>3. /\ Len(h \o b) = Len(h) + Len(b)
      /\ \A k \in 1..(Len(h) + Len(b)) :
           (h \o b)[k] = IF k <= Len(h) THEN h[k] ELSE b[k - Len(h)]
  BY <1>1, ConcatProperties
<1>4. ASSUME NEW k \in 1..Len(b)
      PROVE  (h \o b)[Len(h) + k] = b[k]
  <2>1. Len(h) + k \in 1..(Len(h) + Len(b)) /\ ~(Len(h) + k <= Len(h)) /\ Len(h) + k - Len(h) = k
    BY <1>2
  <2> QED
    BY <1>3, <2>1
<1>5. ASSUME NEW k \in 1..Len(h)
      PROVE  (h \o b)[k] = h[k]
  BY <1>2, <1>3
<1> QED
  BY <1>3, <1>4, <1>5 DEF Joined

-----------------------------------------------------------------------------
(* Flags.                                                                  *)

\* A set of flags survives its packing into the high half of the version word,
\* and the version its packing into the low half.
LEMMA FlagsRoundTrip ==
  ASSUME NEW f \in SUBSET Flag, NEW v \in {1, 2}
  PROVE  /\ FlagsOf(VersionAndFlags(v, f)) = f
         /\ VersionAndFlags(v, f) % 65536 = v
<1> DEFINE n == Bit(f, 1) + Bit(f, 2) + Bit(f, 4) + Bit(f, 8)
           x == VersionAndFlags(v, f)
<1>1. /\ Bit(f, 1) \in {0, 1} /\ Bit(f, 2) \in {0, 2}
      /\ Bit(f, 4) \in {0, 4} /\ Bit(f, 8) \in {0, 8}
  BY DEF Bit
<1>2. n \in 0..15 /\ x = v + 65536 * n
  BY <1>1 DEF VersionAndFlags, FlagCompressed, FlagSparse, FlagDedup, FlagDelta
<1>3. /\ n \div 1 % 2 = 1 <=> Bit(f, 1) = 1
      /\ n \div 2 % 2 = 1 <=> Bit(f, 2) = 2
      /\ n \div 4 % 2 = 1 <=> Bit(f, 4) = 4
      /\ n \div 8 % 2 = 1 <=> Bit(f, 8) = 8
  BY <1>1
<1>4. \A b \in {1, 2, 4, 8} : b \in f <=> Bit(f, b) = b
  BY DEF Bit
<1> HIDE DEF n, x
<1>5. x \div 65536 = n /\ x % 65536 = v
  BY <1>2
<1>6. \A b \in {1, 2, 4, 8} : n \div b % 2 = 1 <=> b \in f
  BY <1>3, <1>4
<1>7. Flag = {1, 2, 4, 8}
  BY DEF Flag, FlagCompressed, FlagSparse, FlagDedup, FlagDelta
<1>8. \A b \in Flag : (x \div 65536) \div b % 2 = 1 <=> b \in f
  BY <1>5, <1>6, <1>7
<1>9. FlagsOf(x) = f
  <2>1. \A b \in Flag : b \in FlagsOf(x) <=> (x \div 65536) \div b % 2 = 1
    BY DEF FlagsOf
  <2>2. FlagsOf(x) \subseteq Flag
    BY DEF FlagsOf
  <2> HIDE DEF FlagsOf
  <2>3. \A b \in Flag : b \in FlagsOf(x) <=> b \in f
    BY <1>8, <2>1
  <2> QED
    BY <2>2, <2>3, Zenon
<1> QED
  BY <1>5, <1>9 DEF x

-----------------------------------------------------------------------------
(* What ReadManifest makes of a file that WriteManifestFlags wrote.        *)

\* An entry of version 1 has no content hash.
AsRead(e, v) ==
  [ptr |-> e.ptr, size |-> e.size, offset |-> e.offset, crc |-> e.crc,
   seq |-> e.seq, hash |-> IF v >= 2 THEN e.hash ELSE 0]

\* The words of one entry.
LEMMA EntryWords ==
  ASSUME NEW e, NEW v \in {1, 2}
  PROVE  /\ writeEntry(e, v)[1] = e.ptr /\ writeEntry(e, v)[3] = e.size
         /\ writeEntry(e, v)[5] = e.offset /\ writeEntry(e, v)[7] = e.crc
         /\ writeEntry(e, v)[8] = e.seq
         /\ v >= 2 => writeEntry(e, v)[9] = e.hash
<1> DEFINE c == ChunkEntry(e)
           x == <<e.hash, 0, 0, 0, 0, 0, 0, 0>>
           g == writeEntry(e, v)
<1>1. /\ \E S : c \in Seq(S)
      /\ Len(c) = 8
      /\ c[1] = e.ptr /\ c[3] = e.size /\ c[5] = e.offset /\ c[7] = e.crc /\ c[8] = e.seq
  <2>1. c \in Seq({e.ptr, e.size, e.offset, e.crc, e.seq, 0})
    BY DEF ChunkEntry
  <2>2. Len(c) = 8
    BY DEF ChunkEntry
  <2>3. c[1] = e.ptr /\ c[3] = e.size /\ c[5] = e.offset /\ c[7] = e.crc /\ c[8] = e.seq
    BY DEF ChunkEntry
  <2> HIDE DEF c
  <2> QED
    BY <2>1, <2>2, <2>3
<1>2. (\E S : x \in Seq(S)) /\ Len(x) = 8 /\ x[1] = e.hash
  <2>1. x \in Seq({e.hash, 0})
    OBVIOUS
  <2>2. Len(x) = 8 /\ x[1] = e.hash
    OBVIOUS
  <2> HIDE DEF x
  <2> QED
    BY <2>1, <2>2
<1>3. CASE v = 2
  <2>1. g = c \o x
    BY <1>3 DEF writeEntry
  <2> HIDE DEF c, x, g
  <2>2. Joined(g, c, x)
    BY <1>1, <1>2, <2>1, HeaderWords
  <2>3. g[9] = x[1] /\ \A k \in {1, 3, 5, 7, 8} : g[k] = c[k]
    BY <1>1, <1>2, <2>2 DEF Joined
  <2> QED
    BY <1>1, <1>2, <2>3 DEF g
<1>4. CASE v = 1
  <2>1. writeEntry(e, v) = c \o <<>>
    BY <1>4 DEF writeEntry
  <2> HIDE DEF c
  <2>2. c \o <<>> = c
    BY <1>1, ConcatEmptySeq
  <2> QED
    BY <1>1, <1>4, <2>1, <2>2
<1> QED
  BY <1>3, <1>4

GoFile(g, es, f, v) ==
  /\ Len(g) = 5 + Len(es) * Words(v)
  /\ g[1] = Magic /\ g[2] = VersionAndFlags(v, f) /\ g[3] = Len(es)
  /\ \A i \in 1..Len(es), j \in 1..Words(v) :
       g[5 + (i - 1) * Words(v) + j] = writeEntry(es[i], v)[j]

\* The length and the header of a file that the orchestrator wrote, and the place
\* of the words of each entry.
LEMMA GoFileWords ==
  ASSUME NEW es, Len(es) \in Nat, NEW f, NEW v \in {1, 2}
  PROVE  GoFile(WriteManifestFlags(es, f, v), es, f, v)
<1> DEFINE n == Len(es)
           w == Words(v)
           rows == [i \in 1..n |-> writeEntry(es[i], v)]
           b == Body(rows, w)
           h == <<Magic, VersionAndFlags(v, f), n, TotalBytes(es), 0>>
           g == WriteManifestFlags(es, f, v)
<1>1. n \in Nat /\ w \in {8, 16}
  BY DEF Words
<1>2. /\ \E S : h \in Seq(S)
      /\ Len(h) = 5 /\ h[1] = Magic /\ h[2] = VersionAndFlags(v, f) /\ h[3] = n
  <2>1. h \in Seq({Magic, VersionAndFlags(v, f), n, TotalBytes(es), 0})
    OBVIOUS
  <2>2. Len(h) = 5 /\ h[1] = Magic /\ h[2] = VersionAndFlags(v, f) /\ h[3] = n
    OBVIOUS
  <2> HIDE DEF h
  <2> QED
    BY <2>1, <2>2
<1>3. g = h \o b
  BY DEF WriteManifestFlags
<1>4. \A i \in 1..n : rows[i] = writeEntry(es[i], v)
  OBVIOUS
<1>5. rows = [i \in 1..n |-> rows[i]]
  OBVIOUS
<1> HIDE DEF rows, n, w, h, g
<1>6. Len(rows) = n
  BY <1>1, <1>5, FunctionIsSeq
<1>7. (\E S : b \in Seq(S)) /\ InRows(b, rows, n, w)
  BY <1>1, <1>6, BodyWords
<1> HIDE DEF b
<1>8. Joined(g, h, b)
  BY <1>2, <1>3, <1>7, HeaderWords
<1>9. ASSUME NEW i \in 1..n, NEW j \in 1..w
      PROVE  g[5 + (i - 1) * w + j] = writeEntry(es[i], v)[j]
  <2>1. /\ (i - 1) * w + j \in 1..(n * w)
        /\ 5 + (i - 1) * w + j = 5 + ((i - 1) * w + j)
    <3>1. CASE w = 8
      BY <1>1, <3>1
    <3>2. CASE w = 16
      BY <1>1, <3>2
    <3> QED
      BY <1>1, <3>1, <3>2
  <2>2. g[5 + ((i - 1) * w + j)] = b[(i - 1) * w + j]
    BY <1>2, <1>7, <1>8, <2>1 DEF Joined, InRows
  <2> QED
    BY <1>4, <1>7, <2>1, <2>2 DEF InRows
<1>10. /\ Len(g) = 5 + n * w
       /\ g[1] = Magic /\ g[2] = VersionAndFlags(v, f) /\ g[3] = n
  BY <1>2, <1>7, <1>8 DEF Joined, InRows
<1> QED
  BY <1>9, <1>10 DEF g, n, w, GoFile

\* What ReadManifest returns for a file that WriteManifestFlags wrote.
LEMMA GoRoundTrip ==
  ASSUME NEW es, Len(es) \in Nat, NEW f \in SUBSET Flag, NEW v \in {1, 2}
  PROVE  ReadManifest(WriteManifestFlags(es, f, v)) =
           [ok |-> TRUE, flags |-> f, version |-> v,
            entries |-> [i \in 1..Len(es) |-> AsRead(es[i], v)]]
<1> DEFINE g == WriteManifestFlags(es, f, v)
           n == Len(es)
           w == Words(v)
<1>1. /\ Len(g) = 5 + n * w
      /\ g[1] = Magic /\ g[2] = VersionAndFlags(v, f) /\ g[3] = n
      /\ \A i \in 1..n, j \in 1..w : g[5 + (i - 1) * w + j] = writeEntry(es[i], v)[j]
  <2>1. GoFile(g, es, f, v)
    BY GoFileWords
  <2> HIDE DEF g
  <2> QED
    BY <2>1 DEF GoFile
<1>2. n \in Nat /\ w = IF v = 2 THEN 16 ELSE 8
  BY DEF Words
<1>3. FlagsOf(g[2]) = f /\ g[2] % 65536 = v
  BY <1>1, FlagsRoundTrip
<1>4. ~(Len(g) < 5 \/ g[1] # Magic) /\ ~(Len(g) < 5 + n * w)
  BY <1>1, <1>2
<1> HIDE DEF g, n
<1>5. ASSUME NEW i \in 1..n
      PROVE  EntryAt(g, 5 + (i - 1) * w, v >= 2) = AsRead(es[i], v)
  <2> DEFINE k == 5 + (i - 1) * w
  <2>1. \A j \in 1..w : g[k + j] = writeEntry(es[i], v)[j]
    BY <1>1
  <2>2. 1 \in 1..w /\ 3 \in 1..w /\ 5 \in 1..w /\ 7 \in 1..w /\ 8 \in 1..w
        /\ (v >= 2 => 9 \in 1..w)
    BY <1>2
  <2> HIDE DEF k, w
  <2>3. /\ g[k + 1] = es[i].ptr /\ g[k + 3] = es[i].size /\ g[k + 5] = es[i].offset
        /\ g[k + 7] = es[i].crc /\ g[k + 8] = es[i].seq
        /\ v >= 2 => g[k + 9] = es[i].hash
    <3> DEFINE r == writeEntry(es[i], v)
    <3>1. /\ r[1] = es[i].ptr /\ r[3] = es[i].size /\ r[5] = es[i].offset
          /\ r[7] = es[i].crc /\ r[8] = es[i].seq
          /\ v >= 2 => r[9] = es[i].hash
      BY EntryWords, Zenon
    <3> HIDE DEF r
    <3>2. \A j \in 1..w : g[k + j] = r[j]
      BY <2>1 DEF r
    <3> QED
      BY <2>2, <3>1, <3>2
  <2>4. EntryAt(g, k, v >= 2) = AsRead(es[i], v)
    BY <2>3 DEF EntryAt, AsRead
  <2> QED
    BY <2>4 DEF k
<1> HIDE DEF w
<1>6. [i \in 1..n |-> EntryAt(g, 5 + (i - 1) * w, v >= 2)] = [i \in 1..n |-> AsRead(es[i], v)]
  BY <1>5
<1>7. ReadManifest(g) = [ok |-> TRUE, flags |-> f, version |-> v,
                         entries |-> [i \in 1..n |-> EntryAt(g, 5 + (i - 1) * w, v >= 2)]]
  <2>1. g[2] % 65536 = v /\ g[3] = n /\ Words(v) = w
    BY <1>1, <1>3 DEF w
  <2>2. ReadManifest(g) =
          IF Len(g) < 5 + n * w THEN Failed
          ELSE [ok |-> TRUE, flags |-> FlagsOf(g[2]), version |-> v,
                entries |-> [i \in 1..n |-> EntryAt(g, 5 + (i - 1) * w, v >= 2)]]
    <3> DEFINE u == g[2] % 65536
               E == [i \in 1..g[3] |-> EntryAt(g, 5 + (i - 1) * Words(u), u >= 2)]
    <3>1. ReadManifest(g) =
            IF Len(g) < 5 \/ g[1] # Magic THEN Failed
            ELSE IF Len(g) < 5 + g[3] * Words(u) THEN Failed
            ELSE [ok |-> TRUE, flags |-> FlagsOf(g[2]), version |-> u, entries |-> E]
      BY DEF ReadManifest
    <3>2. u = v /\ E = [i \in 1..n |-> EntryAt(g, 5 + (i - 1) * w, v >= 2)]
      BY <2>1
    <3> HIDE DEF E, u
    <3>3. Len(g) < 5 + g[3] * Words(u) <=> Len(g) < 5 + n * w
      BY <2>1, <3>2
    <3> QED
      BY <1>4, <3>1, <3>2, <3>3
  <2> QED
    BY <1>3, <1>4, <2>2
<1> QED
  BY <1>6, <1>7 DEF g, n

-----------------------------------------------------------------------------
(* The shim's file, and what the orchestrator and the shim make of it.     *)

ShimFile(g, es) ==
  /\ Len(g) = 6 + Len(es) * 8
  /\ g[1] = Magic /\ g[2] = 2 /\ g[3] = Len(es)
  /\ \A i \in 1..Len(es), j \in 1..8 : g[6 + (i - 1) * 8 + j] = ChunkEntry(es[i])[j]

\* The length and the header of a file that the shim wrote, and the place of the
\* words of each entry.
LEMMA ShimFileWords ==
  ASSUME NEW es, Len(es) \in Nat
  PROVE  ShimFile(ShimManifest(es), es)
<1> DEFINE n == Len(es)
           rows == [i \in 1..n |-> ChunkEntry(es[i])]
           b == Body(rows, 8)
           h == <<Magic, VersionAndFlags(2, {}), n, 0, TotalBytes(es), 0>>
           g == ShimManifest(es)
<1>1. VersionAndFlags(2, {}) = 2
  BY DEF VersionAndFlags, Bit
<1>2. /\ \E S : h \in Seq(S)
      /\ Len(h) = 6 /\ h[1] = Magic /\ h[2] = VersionAndFlags(2, {}) /\ h[3] = n
  <2>1. h \in Seq({Magic, VersionAndFlags(2, {}), n, TotalBytes(es), 0})
    OBVIOUS
  <2>2. Len(h) = 6 /\ h[1] = Magic /\ h[2] = VersionAndFlags(2, {}) /\ h[3] = n
    OBVIOUS
  <2> HIDE DEF h
  <2> QED
    BY <2>1, <2>2
<1>3. g = h \o b
  BY DEF ShimManifest
<1>4. \A i \in 1..n : rows[i] = ChunkEntry(es[i])
  OBVIOUS
<1>5. rows = [i \in 1..n |-> rows[i]]
  OBVIOUS
<1>6. n \in Nat
  OBVIOUS
<1> HIDE DEF rows, n, h, g
<1>7. Len(rows) = n
  BY <1>5, <1>6, FunctionIsSeq
<1>8. (\E S : b \in Seq(S)) /\ InRows(b, rows, n, 8)
  BY <1>6, <1>7, BodyWords
<1> HIDE DEF b
<1>9. Joined(g, h, b)
  BY <1>2, <1>3, <1>8, HeaderWords
<1>10. ASSUME NEW i \in 1..n, NEW j \in 1..8
       PROVE  g[6 + (i - 1) * 8 + j] = ChunkEntry(es[i])[j]
  <2>1. /\ (i - 1) * 8 + j \in 1..(n * 8)
        /\ 6 + (i - 1) * 8 + j = 6 + ((i - 1) * 8 + j)
    BY <1>6
  <2>2. g[6 + ((i - 1) * 8 + j)] = b[(i - 1) * 8 + j]
    BY <1>2, <1>8, <1>9, <2>1 DEF Joined, InRows
  <2> QED
    BY <1>4, <1>8, <2>1, <2>2 DEF InRows
<1>11. /\ Len(g) = 6 + n * 8
       /\ g[1] = Magic /\ g[2] = 2 /\ g[3] = n
  BY <1>1, <1>2, <1>8, <1>9 DEF Joined, InRows
<1> QED
  BY <1>10, <1>11 DEF g, n, ShimFile

\* The orchestrator, which expects 64 bytes for an entry, reads a file of the shim
\* only if it has no entries.
LEMMA GoReadsEmptyShimFile ==
  ASSUME NEW g, NEW es, IsList(es), ShimFile(g, es), ReadManifest(g).ok
  PROVE  ReadManifest(g) = [ok |-> TRUE, flags |-> {}, version |-> 2, entries |-> es]
<1> DEFINE n == Len(es)
           E == [i \in 1..n |-> EntryAt(g, 5 + (i - 1) * 16, 2 >= 2)]
<1>1. n \in Nat /\ Len(g) = 6 + n * 8 /\ g[1] = Magic /\ g[2] = 2 /\ g[3] = n
  BY DEF ShimFile, IsList
<1>2. FlagsOf(2) = {}
  BY DEF FlagsOf, Flag, FlagCompressed, FlagSparse, FlagDedup, FlagDelta
<1>3. ReadManifest(g) =
        IF Len(g) < 5 + n * 16 THEN Failed
        ELSE [ok |-> TRUE, flags |-> FlagsOf(2), version |-> 2, entries |-> E]
  <2>1. g[2] % 65536 = 2 /\ Words(2) = 16 /\ ~(Len(g) < 5 \/ g[1] # Magic)
    BY <1>1 DEF Words
  <2> DEFINE u == g[2] % 65536
             F == [i \in 1..g[3] |-> EntryAt(g, 5 + (i - 1) * Words(u), u >= 2)]
  <2>2. ReadManifest(g) =
          IF Len(g) < 5 \/ g[1] # Magic THEN Failed
          ELSE IF Len(g) < 5 + g[3] * Words(u) THEN Failed
          ELSE [ok |-> TRUE, flags |-> FlagsOf(g[2]), version |-> u, entries |-> F]
    BY DEF ReadManifest
  <2>3. u = 2 /\ F = E
    BY <1>1, <2>1
  <2> HIDE DEF E, F, u
  <2>4. Len(g) < 5 + g[3] * Words(u) <=> Len(g) < 5 + n * 16
    BY <1>1, <2>1, <2>3
  <2> QED
    BY <1>1, <2>1, <2>2, <2>3, <2>4
<1> HIDE DEF E
<1>4. ~(Len(g) < 5 + n * 16)
  BY <1>3 DEF Failed
<1>5. n = 0
  BY <1>1, <1>4
<1>6. E = es
  BY <1>5 DEF E, IsList
<1> QED
  BY <1>2, <1>3, <1>4, <1>6

\* What ShimRead returns for a file of the shim: the entries, sorted.
LEMMA ShimRoundTrip ==
  ASSUME NEW g, NEW es, IsList(es), ShimFile(g, es), \A i \in 1..Len(es) : es[i].hash = 0
  PROVE  ShimRead(g) = [ok |-> TRUE, entries |-> RestoreOrder(es)]
<1> DEFINE n == Len(es)
           E == [i \in 1..n |-> EntryAt(g, 6 + (i - 1) * 8, FALSE)]
<1>1. n \in Nat /\ Len(g) = 6 + n * 8 /\ g[1] = Magic /\ g[2] = 2 /\ g[3] = n
  BY DEF ShimFile, IsList
<1>2. ASSUME NEW i \in 1..n
      PROVE  EntryAt(g, 6 + (i - 1) * 8, FALSE) = es[i]
  <2> DEFINE k == 6 + (i - 1) * 8
             c == ChunkEntry(es[i])
  <2>1. \A j \in 1..8 : g[k + j] = c[j]
    BY DEF ShimFile
  <2>2. /\ c[1] = es[i].ptr /\ c[3] = es[i].size /\ c[5] = es[i].offset
        /\ c[7] = es[i].crc /\ c[8] = es[i].seq
    BY DEF ChunkEntry
  <2> HIDE DEF k, c
  <2>3. EntryAt(g, k, FALSE) =
          [ptr |-> es[i].ptr, size |-> es[i].size, offset |-> es[i].offset,
           crc |-> es[i].crc, seq |-> es[i].seq, hash |-> es[i].hash]
    BY <2>1, <2>2 DEF EntryAt
  <2> QED
    BY <2>3 DEF k, IsList, IsEntry
<1>3. E = es
  BY <1>2 DEF IsList
<1>4. ~(Len(g) < 6 \/ g[1] # Magic \/ Len(g) < 6 + g[3] * 8)
  BY <1>1
<1>5. ShimRead(g) = [ok |-> TRUE, entries |-> RestoreOrder(E)]
  BY <1>1, <1>4 DEF ShimRead
<1> QED
  BY <1>3, <1>5

-----------------------------------------------------------------------------
(* Sorting.                                                                *)

Sortable(es) ==
  /\ Len(es) \in Nat
  /\ es = [i \in 1..Len(es) |-> es[i]]
  /\ \A i \in 1..Len(es) : es[i].seq \in Nat

\* The size of an interval.
LEMMA CountTo ==
  ASSUME NEW n \in Nat
  PROVE  IsFiniteSet(1..n) /\ Cardinality(1..n) = n
<1>1. 1 \in Int /\ n \in Int
  OBVIOUS
<1>2. IsFiniteSet(1..n) /\ Cardinality(1..n) = IF 1 > n THEN 0 ELSE n - 1 + 1
  BY <1>1, FS_Interval, Zenon
<1>3. (IF 1 > n THEN 0 ELSE n - 1 + 1) = n
  OBVIOUS
<1> QED
  BY <1>2, <1>3

\* Ranks are places of the sequence, and an entry that comes before another one
\* has a lower rank.
LEMMA RankIsPlace ==
  ASSUME NEW es, Sortable(es)
  PROVE  /\ \A j \in 1..Len(es) : Rank(es, j) \in 1..Len(es)
         /\ \A i, j \in 1..Len(es) : Before(es, i, j) => Rank(es, i) < Rank(es, j)
<1> DEFINE N == 1..Len(es)
           D(j) == {i \in N : Before(es, i, j)}
<1>1. Len(es) \in Nat /\ DOMAIN es = N /\ \A i \in N : es[i].seq \in Nat
  BY DEF Sortable
<1>2. IsFiniteSet(N) /\ Cardinality(N) = Len(es)
  BY <1>1, CountTo
<1>3. ASSUME NEW j \in N
      PROVE  /\ IsFiniteSet(D(j)) /\ Cardinality(D(j)) \in Nat
             /\ Cardinality(D(j)) < Len(es) /\ j \notin D(j)
             /\ Rank(es, j) = Cardinality(D(j)) + 1
  <2>1. D(j) \in SUBSET N /\ j \notin D(j)
    BY <1>1 DEF Before
  <2> HIDE DEF D
  <2>2. IsFiniteSet(D(j)) /\ Cardinality(D(j)) <= Cardinality(N) /\ Cardinality(D(j)) # Cardinality(N)
    BY <1>2, <2>1, FS_Subset
  <2>3. Cardinality(D(j)) \in Nat
    BY <2>2, FS_CardinalityType
  <2>4. Rank(es, j) = Cardinality(D(j)) + 1
    BY <1>1 DEF Rank, D
  <2> QED
    BY <1>1, <1>2, <2>1, <2>2, <2>3, <2>4
<1>4. ASSUME NEW i \in N, NEW j \in N, Before(es, i, j)
      PROVE  Cardinality(D(i)) < Cardinality(D(j))
  <2>1. D(i) \in SUBSET D(j)
    BY <1>1, <1>4 DEF Before
  <2>2. i \in D(j)
    BY <1>4
  <2>3. i \notin D(i)
    BY <1>3
  <2>4. IsFiniteSet(D(j)) /\ Cardinality(D(i)) \in Nat /\ Cardinality(D(j)) \in Nat
    BY <1>3
  <2> HIDE DEF D
  <2>5. Cardinality(D(i)) <= Cardinality(D(j)) /\ Cardinality(D(i)) # Cardinality(D(j))
    BY <2>1, <2>2, <2>3, <2>4, FS_Subset
  <2> QED
    BY <2>4, <2>5
<1> HIDE DEF D
<1>5. \A j \in N : Rank(es, j) \in 1..Len(es)
  BY <1>1, <1>3
<1>6. \A i, j \in N : Before(es, i, j) => Rank(es, i) < Rank(es, j)
  BY <1>3, <1>4
<1> QED
  BY <1>5, <1>6

\* Every place is the rank of exactly one entry.
LEMMA RankIsPermutation ==
  ASSUME NEW es, Sortable(es)
  PROVE  /\ \A i, j \in 1..Len(es) : Rank(es, i) = Rank(es, j) => i = j
         /\ \A k \in 1..Len(es) : \E j \in 1..Len(es) : Rank(es, j) = k
<1> DEFINE N == 1..Len(es)
           r == [j \in N |-> Rank(es, j)]
<1>1. Len(es) \in Nat /\ \A i \in N : es[i].seq \in Nat
  BY DEF Sortable
<1>2. \A i, j \in N : i # j => Before(es, i, j) \/ Before(es, j, i)
  BY <1>1 DEF Before
<1>3. \A j \in N : Rank(es, j) \in N /\ Rank(es, j) \in Int
  BY <1>1, RankIsPlace
<1>4. \A i, j \in N : Before(es, i, j) => Rank(es, i) < Rank(es, j)
  BY RankIsPlace
<1>5. \A i, j \in N : Rank(es, i) = Rank(es, j) => i = j
  BY <1>2, <1>3, <1>4
<1>6. IsFiniteSet(N)
  BY <1>1, FS_Interval
<1>7. r \in Injection(N, N)
  BY <1>3, <1>5 DEF Injection, IsInjective
<1> HIDE DEF N
<1>8. r \in Surjection(N, N)
  BY <1>6, <1>7, FS_Injection
<1>9. \A k \in N : \E j \in N : Rank(es, j) = k
  BY <1>8 DEF Surjection
<1> QED
  BY <1>5, <1>9 DEF N

\* The sort of ckpt_restore_load loses and repeats no entry, and leaves entries
\* alone that are in order.
LEMMA RestoreOrderIsSort ==
  ASSUME NEW es, Sortable(es)
  PROVE  /\ ToSet(RestoreOrder(es)) = ToSet(es)
         /\ Len(RestoreOrder(es)) = Len(es)
         /\ (\A i, j \in DOMAIN es : i < j => es[i].seq < es[j].seq) => RestoreOrder(es) = es
<1> DEFINE N == 1..Len(es)
           at(k) == CHOOSE j \in N : Rank(es, j) = k
           R == RestoreOrder(es)
<1>1. /\ Len(es) \in Nat /\ DOMAIN es = N /\ es = [i \in N |-> es[i]]
      /\ \A i \in N : es[i].seq \in Nat
  BY DEF Sortable
<1>2. R = [k \in N |-> es[at(k)]]
  BY <1>1 DEF RestoreOrder
<1>3. \A k \in N : at(k) \in N /\ Rank(es, at(k)) = k
  BY RankIsPermutation
<1>4. \A j \in N : Rank(es, j) \in N /\ at(Rank(es, j)) = j
  <2>1. \A j \in N : Rank(es, j) \in N
    BY RankIsPlace
  <2> QED
    BY <1>3, <2>1, RankIsPermutation
<1> HIDE DEF at, R
<1>5. Len(R) = Len(es)
  <2>1. R = [k \in N |-> R[k]]
    BY <1>2
  <2> QED
    BY <1>1, <2>1, FunctionIsSeq
<1>6. ToSet(R) = ToSet(es)
  <2>1. DOMAIN R = N /\ \A k \in N : R[k] = es[at(k)]
    BY <1>2
  <2>2. \A k \in N : \E j \in N : R[k] = es[j]
    BY <1>3, <2>1
  <2>3. \A j \in N : \E k \in N : es[j] = R[k]
    BY <1>4, <2>1
  <2> QED
    BY <1>1, <2>1, <2>2, <2>3 DEF ToSet
<1>7. ASSUME \A i, j \in N : i < j => es[i].seq < es[j].seq
      PROVE  R = es
  <2>1. ASSUME NEW j \in N
        PROVE  Rank(es, j) = j
    <3>1. {i \in N : Before(es, i, j)} = 1..(j - 1)
      <4>1. ASSUME NEW i \in N
            PROVE  Before(es, i, j) <=> i < j
        <5>1. i < j \/ i = j \/ j < i
          BY <1>1
        <5>2. i < j => es[i].seq < es[j].seq
          BY <1>7
        <5>3. j < i => es[j].seq < es[i].seq
          BY <1>7
        <5> QED
          BY <1>1, <5>1, <5>2, <5>3 DEF Before
      <4> QED
        BY <1>1, <4>1
    <3>2. Cardinality(1..(j - 1)) = j - 1
      <4>1. j - 1 \in Nat
        BY <1>1
      <4> QED
        BY <4>1, CountTo
    <3>3. Rank(es, j) = Cardinality(1..(j - 1)) + 1
      BY <1>1, <3>1 DEF Rank
    <3> QED
      BY <1>1, <3>2, <3>3
  <2>2. \A k \in N : at(k) = k
    BY <1>4, <2>1
  <2> QED
    BY <1>1, <1>2, <2>2
<1> QED
  BY <1>1, <1>5, <1>6, <1>7 DEF R

-----------------------------------------------------------------------------
(* The inductive invariant.                                                *)

\* What the entries of the manifest are: version 1 has no content hashes.
GivenInv ==
  /\ version \in {1, 2} /\ flags \in SUBSET Flag
  /\ IsList(given)
  /\ version = 1 => \A i \in 1..Len(given) : given[i].hash = 0

\* The shim writes a file only once, and before the pipeline.
ShimInv ==
  by = "shim" =>
    /\ file = ShimManifest(given)
    /\ flags = {} /\ version = 2
    /\ \A i \in 1..Len(given) : given[i].hash = 0 /\ given[i].seq \in Nat

ManifestInv ==
  /\ by \in {"nobody", "go", "shim"}
  /\ by = "nobody" => file = <<>>
  /\ GivenInv
  /\ ShimInv
  /\ GoReadsGo

\* What a snapshot lays out is a list of entries without content hashes.
LEMMA LaidIsList ==
  ASSUME NEW as \in Allocs
  PROVE  /\ IsList(Laid(as))
         /\ \A i \in 1..Len(Laid(as)) : Laid(as)[i].hash = 0 /\ Laid(as)[i].seq \in Nat
<1> DEFINE A == [ptr : Ptr, size : Size, seq : 1..MaxCounter]
           L == Laid(as)
<1>1. PICK n \in 0..MaxCount : as \in [1..n -> A]
  BY DEF Allocs, BoundedSeq, SeqOf
<1>2. n \in Nat /\ DOMAIN as = 1..n /\ \A i \in 1..n : as[i].seq \in Nat
  <2>1. \A i \in 1..n : as[i] \in A
    BY <1>1
  <2>2. \A a \in A : a.seq \in Nat
    OBVIOUS
  <2>3. n \in Nat /\ DOMAIN as = 1..n
    BY <1>1, ManifestAssumption
  <2> QED
    BY <2>1, <2>2, <2>3
<1>3. /\ L = [i \in 1..n |-> L[i]]
      /\ \A i \in 1..n : L[i] =
           [ptr |-> as[i].ptr, size |-> as[i].size,
            offset |-> TotalBytes(SubSeq(as, 1, i - 1)),
            crc |-> as[i].ptr + as[i].size, seq |-> as[i].seq % Word32, hash |-> 0]
  BY <1>2 DEF Laid
<1> HIDE DEF L
<1>4. Len(L) = n
  BY <1>2, <1>3, FunctionIsSeq
<1>5. \A i \in 1..n : IsEntry(L[i]) /\ L[i].hash = 0 /\ L[i].seq = as[i].seq % Word32
  <2> TAKE i \in 1..n
  <2>1. PICK p, z, o, c, q : L[i] = [ptr |-> p, size |-> z, offset |-> o, crc |-> c, seq |-> q, hash |-> 0]
                             /\ q = as[i].seq % Word32
    BY <1>3, ZenonT(60)
  <2> QED
    BY <2>1 DEF IsEntry
<1>6. \A i \in 1..n : as[i].seq % Word32 \in Nat
  <2>1. \A a \in Nat, m \in Nat \ {0} : a % m \in Nat
    OBVIOUS
  <2> QED
    BY <1>2, <2>1, ManifestAssumption
<1> QED
  BY <1>2, <1>3, <1>4, <1>5, <1>6 DEF L, IsList

\* A list whose hashes the version has room for is read as it is.
LEMMA ReadAsWritten ==
  ASSUME NEW es, IsList(es), NEW v \in {1, 2},
         v = 1 => \A i \in 1..Len(es) : es[i].hash = 0
  PROVE  [i \in 1..Len(es) |-> AsRead(es[i], v)] = es
<1>1. ASSUME NEW i \in 1..Len(es)
      PROVE  AsRead(es[i], v) = es[i]
  <2>1. IsEntry(es[i])
    BY DEF IsList
  <2>2. (IF v >= 2 THEN es[i].hash ELSE 0) = es[i].hash
    OBVIOUS
  <2>3. AsRead(es[i], v) = [ptr |-> es[i].ptr, size |-> es[i].size, offset |-> es[i].offset,
                            crc |-> es[i].crc, seq |-> es[i].seq, hash |-> es[i].hash]
    BY <2>2 DEF AsRead
  <2> QED
    BY <2>1, <2>3 DEF IsEntry
<1> QED
  BY <1>1 DEF IsList

\* A manifest that the orchestrator can read is the one the state stands for:
\* also when the shim wrote it, since then it is empty.
LEMMA ReadableIsGiven ==
  ASSUME ManifestInv, ReadManifest(file).ok
  PROVE  /\ by # "nobody"
         /\ ReadManifest(file) = [ok |-> TRUE, flags |-> flags, version |-> version,
                                  entries |-> given]
<1>1. CASE by = "nobody"
  <2>1. file = <<>> /\ Len(<<>>) = 0
    BY <1>1 DEF ManifestInv
  <2>2. ReadManifest(file) = Failed
    BY <2>1 DEF ReadManifest
  <2> QED
    BY <2>2 DEF Failed
<1>2. CASE by = "go"
  BY <1>2 DEF ManifestInv, GoReadsGo
<1>3. CASE by = "shim"
  <2>1. IsList(given) /\ file = ShimManifest(given) /\ flags = {} /\ version = 2
    BY <1>3 DEF ManifestInv, GivenInv, ShimInv
  <2>2. ShimFile(file, given)
    BY <2>1, ShimFileWords DEF IsList
  <2>3. ReadManifest(file) = [ok |-> TRUE, flags |-> {}, version |-> 2, entries |-> given]
    BY <2>1, <2>2, GoReadsEmptyShimFile
  <2> QED
    BY <1>3, <2>1, <2>3
<1> QED
  BY <1>1, <1>2, <1>3 DEF ManifestInv

\* Rewriting a manifest with other flags.
LEMMA RewriteKeeps ==
  ASSUME ManifestInv, NEW fs \in SUBSET Flag,
         file' = WriteManifestFlags(given, fs, version),
         by' = "go", flags' = fs, given' = given, version' = version
  PROVE  ManifestInv'
<1>1. ReadManifest(file') = [ok |-> TRUE, flags |-> fs, version |-> version,
                             entries |-> [i \in 1..Len(given) |-> AsRead(given[i], version)]]
  BY GoRoundTrip DEF ManifestInv, GivenInv, IsList
<1>2. [i \in 1..Len(given) |-> AsRead(given[i], version)] = given
  BY ReadAsWritten DEF ManifestInv, GivenInv
<1>3. GoReadsGo'
  BY <1>1, <1>2 DEF GoReadsGo
<1>4. GivenInv'
  BY DEF ManifestInv, GivenInv
<1> QED
  BY <1>3, <1>4 DEF ManifestInv, ShimInv

\* Before anything is written there is no file.
LEMMA ManifestInit ==
  Init => ManifestInv
<1> SUFFICES ASSUME Init PROVE ManifestInv
  OBVIOUS
<1>1. Len(<<>>) = 0 /\ <<>> = [i \in 1..0 |-> <<>>[i]]
  OBVIOUS
<1>2. IsList(<<>>)
  BY <1>1 DEF IsList
<1> QED
  BY <1>2 DEF Init, ManifestInv, GivenInv, ShimInv, GoReadsGo

\* The snapshot's manifest is the shim's layout of what was laid out.
LEMMA ShimWriteKeeps ==
  ASSUME ManifestInv, NEW as \in Allocs, ShimWrite(as)
  PROVE  ManifestInv'
<1>1. /\ IsList(given')
      /\ \A i \in 1..Len(given') : given'[i].hash = 0 /\ given'[i].seq \in Nat
  BY LaidIsList DEF ShimWrite
<1>2. /\ file' = ShimManifest(given') /\ by' = "shim" /\ flags' = {} /\ version' = 2
  BY DEF ShimWrite
<1>3. GivenInv'
  BY <1>1, <1>2 DEF GivenInv
<1>4. ShimInv'
  BY <1>1, <1>2 DEF ShimInv
<1> QED
  BY <1>2, <1>3, <1>4 DEF ManifestInv, GoReadsGo

\* A manifest that the orchestrator writes anew reads back, in either version.
LEMMA GoWriteKeeps ==
  ASSUME ManifestInv, NEW as \in Allocs, NEW v \in {1, 2}, GoWrite(as, v)
  PROVE  ManifestInv'
<1> DEFINE L == Laid(as)
<1>1. IsList(L) /\ \A i \in 1..Len(L) : L[i].hash = 0
  BY LaidIsList
<1>2. file' = WriteManifestFlags(L, {}, v) /\ by' = "go" /\ given' = L /\ flags' = {} /\ version' = v
  BY DEF GoWrite
<1> HIDE DEF L
<1>3. ReadManifest(file') = [ok |-> TRUE, flags |-> {}, version |-> v,
                             entries |-> [i \in 1..Len(L) |-> AsRead(L[i], v)]]
  BY <1>1, <1>2, GoRoundTrip DEF IsList
<1>4. [i \in 1..Len(L) |-> AsRead(L[i], v)] = L
  BY <1>1, ReadAsWritten
<1>5. GoReadsGo'
  BY <1>2, <1>3, <1>4 DEF GoReadsGo
<1>6. GivenInv'
  BY <1>1, <1>2 DEF GivenInv
<1> QED
  BY <1>2, <1>5, <1>6 DEF ManifestInv, ShimInv

\* A stage that adds its flag keeps the flags and entries of the stages before.
LEMMA GoSetFlagKeeps ==
  ASSUME ManifestInv, NEW f \in Flag, GoSetFlag(f)
  PROVE  ManifestInv'
<1>1. ReadManifest(file).ok
  BY DEF GoSetFlag
<1>2. ReadManifest(file) = [ok |-> TRUE, flags |-> flags, version |-> version, entries |-> given]
  BY <1>1, ReadableIsGiven
<1>3. /\ file' = WriteManifestFlags(given, flags \cup {f}, version)
      /\ by' = "go" /\ flags' = flags \cup {f} /\ given' = given /\ version' = version
  BY <1>2 DEF GoSetFlag
<1>4. flags \cup {f} \in SUBSET Flag
  BY DEF ManifestInv, GivenInv
<1> QED
  BY <1>3, <1>4, RewriteKeeps

\* Decompression takes away its own flag only.
LEMMA GoDecompressKeeps ==
  ASSUME ManifestInv, GoDecompress
  PROVE  ManifestInv'
<1>1. ReadManifest(file).ok
  BY DEF GoDecompress
<1>2. ReadManifest(file) = [ok |-> TRUE, flags |-> flags, version |-> version, entries |-> given]
  BY <1>1, ReadableIsGiven
<1>3. /\ file' = WriteManifestFlags(given, flags \ {FlagCompressed}, version)
      /\ by' = "go" /\ flags' = flags \ {FlagCompressed} /\ given' = given /\ version' = version
  BY <1>2 DEF GoDecompress
<1>4. flags \ {FlagCompressed} \in SUBSET Flag
  BY DEF ManifestInv, GivenInv
<1> QED
  BY <1>3, <1>4, RewriteKeeps

\* The content hashes that DedupDevice computes.
Hashed(es) == [i \in DOMAIN es |-> [es[i] EXCEPT !.hash = es[i].crc]]

\* Hashes change nothing but the hashes.
LEMMA HashedEntries ==
  ASSUME NEW es, IsList(es)
  PROVE  /\ IsList(Hashed(es)) /\ Len(Hashed(es)) = Len(es)
         /\ \A i \in 1..Len(es) : AsRead(Hashed(es)[i], 1) = AsRead(es[i], 1)
<1> DEFINE n == Len(es)
           H == Hashed(es)
<1>1. n \in Nat /\ DOMAIN es = 1..n /\ \A i \in 1..n : IsEntry(es[i])
  BY DEF IsList
<1>2. H = [i \in 1..n |-> H[i]] /\ \A i \in 1..n : H[i] = [es[i] EXCEPT !.hash = es[i].crc]
  BY <1>1 DEF Hashed
<1> HIDE DEF H
<1>3. Len(H) = n
  BY <1>1, <1>2, FunctionIsSeq
<1>4. ASSUME NEW i \in 1..n
      PROVE  IsEntry(H[i]) /\ AsRead(H[i], 1) = AsRead(es[i], 1)
  <2>1. PICK p, z, o, c, q, h : es[i] = [ptr |-> p, size |-> z, offset |-> o, crc |-> c,
                                         seq |-> q, hash |-> h]
    BY <1>1 DEF IsEntry
  <2>2. H[i] = [ptr |-> p, size |-> z, offset |-> o, crc |-> c, seq |-> q, hash |-> c]
    BY <1>2, <2>1
  <2> QED
    BY <2>1, <2>2 DEF IsEntry, AsRead
<1> QED
  BY <1>1, <1>2, <1>3, <1>4 DEF IsList, H

\* Content hashes are written in version 2 and dropped in version 1.
LEMMA GoDedupKeeps ==
  ASSUME ManifestInv, GoDedup
  PROVE  ManifestInv'
<1> DEFINE fs == flags \cup {FlagDedup}
           H == Hashed(given)
<1>1. ReadManifest(file).ok
  BY DEF GoDedup
<1>2. ReadManifest(file) = [ok |-> TRUE, flags |-> flags, version |-> version, entries |-> given]
  BY <1>1, ReadableIsGiven
<1>3. /\ file' = WriteManifestFlags(H, fs, version)
      /\ by' = "go" /\ flags' = fs /\ version' = version
      /\ given' = IF version >= 2 THEN H ELSE given
  BY <1>2 DEF GoDedup, Hashed
<1>4. fs \in SUBSET Flag /\ version \in {1, 2} /\ IsList(given)
  BY DEF ManifestInv, GivenInv, Flag
<1>5. /\ IsList(H) /\ Len(H) = Len(given)
      /\ \A i \in 1..Len(given) : AsRead(H[i], 1) = AsRead(given[i], 1)
  BY <1>4, HashedEntries
<1> HIDE DEF H, fs
<1>6. ReadManifest(file') = [ok |-> TRUE, flags |-> fs, version |-> version,
                             entries |-> [i \in 1..Len(H) |-> AsRead(H[i], version)]]
  BY <1>3, <1>4, <1>5, GoRoundTrip DEF IsList
<1>7. [i \in 1..Len(H) |-> AsRead(H[i], version)] = given'
  <2>1. CASE version = 2
    <3>1. [i \in 1..Len(H) |-> AsRead(H[i], version)] = H
      BY <1>4, <1>5, <2>1, ReadAsWritten
    <3> QED
      BY <1>3, <2>1, <3>1
  <2>2. CASE version = 1
    <3>1. [i \in 1..Len(H) |-> AsRead(H[i], version)]
            = [i \in 1..Len(given) |-> AsRead(given[i], version)]
      BY <1>5, <2>2
    <3>2. [i \in 1..Len(given) |-> AsRead(given[i], version)] = given
      BY <1>4, ReadAsWritten DEF ManifestInv, GivenInv
    <3> QED
      BY <1>3, <2>2, <3>1, <3>2
  <2> QED
    BY <1>4, <2>1, <2>2
<1>8. GoReadsGo'
  BY <1>3, <1>6, <1>7 DEF GoReadsGo
<1>9. GivenInv'
  BY <1>3, <1>4, <1>5 DEF ManifestInv, GivenInv
<1> QED
  BY <1>3, <1>8, <1>9 DEF ManifestInv, ShimInv

\* The invariant of manifest.bin.
THEOREM ManifestInvariant == Spec => []ManifestInv
<1>1. Init => ManifestInv
  BY ManifestInit
<1>2. ManifestInv /\ [Next]_vars => ManifestInv'
  <2> SUFFICES ASSUME ManifestInv, [Next]_vars PROVE ManifestInv'
    OBVIOUS
  <2>1. ASSUME NEW as \in Allocs, ShimWrite(as) PROVE ManifestInv'
    BY <2>1, ShimWriteKeeps
  <2>2. ASSUME NEW as \in Allocs, NEW v \in {1, 2}, GoWrite(as, v) PROVE ManifestInv'
    BY <2>2, GoWriteKeeps
  <2>3. ASSUME NEW f \in Flag \ {FlagDedup}, GoSetFlag(f) PROVE ManifestInv'
    BY <2>3, GoSetFlagKeeps
  <2>4. CASE GoDedup
    BY <2>4, GoDedupKeeps
  <2>5. CASE GoDecompress
    BY <2>5, GoDecompressKeeps
  <2>6. CASE UNCHANGED vars
    BY <2>6 DEF vars, ManifestInv, GivenInv, ShimInv, GoReadsGo
  <2> QED
    BY <2>1, <2>2, <2>3, <2>4, <2>5, <2>6 DEF Next
<1> QED
  BY <1>1, <1>2, PTL DEF Spec

\* ReadManifest of pkg/image returns what WriteManifestFlags was given, in both
\* versions, after any sequence of the stages that rewrite the manifest.
THEOREM OrchestratorReadsItsOwn == Spec => []GoReadsGo
<1>1. ManifestInv => GoReadsGo
  BY DEF ManifestInv
<1> QED
  BY <1>1, ManifestInvariant, PTL

\* ckpt_restore_load reads every allocation that ckpt_snapshot_write wrote, none
\* twice, and in the order of the counter unless it wrapped.
THEOREM ShimReadsItsOwn == Spec => []ShimReadsShim
<1>1. ManifestInv => ShimReadsShim
  <2> SUFFICES ASSUME ManifestInv, by = "shim" PROVE ShimReadsShim
    BY DEF ShimReadsShim
  <2>1. /\ IsList(given) /\ file = ShimManifest(given)
        /\ \A i \in 1..Len(given) : given[i].hash = 0 /\ given[i].seq \in Nat
    BY DEF ManifestInv, GivenInv, ShimInv
  <2>2. ShimFile(file, given)
    BY <2>1, ShimFileWords DEF IsList
  <2>3. ShimRead(file) = [ok |-> TRUE, entries |-> RestoreOrder(given)]
    BY <2>1, <2>2, ShimRoundTrip
  <2>4. Sortable(given)
    BY <2>1 DEF IsList, Sortable
  <2>5. /\ ToSet(RestoreOrder(given)) = ToSet(given)
        /\ Len(RestoreOrder(given)) = Len(given)
        /\ (\A i, j \in DOMAIN given : i < j => given[i].seq < given[j].seq)
             => RestoreOrder(given) = given
    BY <2>4, RestoreOrderIsSort
  <2> QED
    BY <2>3, <2>5 DEF ShimReadsShim
<1> QED
  BY <1>1, ManifestInvariant, PTL
=============================================================================
