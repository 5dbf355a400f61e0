------------------------------ MODULE Manifest ------------------------------
(***************************************************************************)
(* manifest.bin, the one file that both halves of the system read and      *)
(* write: the shim (shim/snapshot.cu, shim/restore.cu) as C structures and *)
(* the orchestrator (pkg/image/format.go) field by field.  A file is the   *)
(* sequence of its 32-bit words; 64-bit fields take two, low word first,   *)
(* and the values here fit the low one.                                    *)
(***************************************************************************)
EXTENDS Integers, Sequences, FiniteSets, SequencesExt

CONSTANTS
  Ptr,        \* addresses, numbers
  Size,       \* sizes of an allocation
  MaxCounter, \* bound on the tracker's allocation counter next_seq_
  Word32,     \* the counter is cut to 32 bits in the file: 2^32, less in a run
  MaxCount    \* bound on the allocations of a manifest

Magic == 1129009236
FlagCompressed == 1
FlagSparse == 2
FlagDedup == 4
FlagDelta == 8
Flag == {FlagCompressed, FlagSparse, FlagDedup, FlagDelta}

ASSUME ManifestAssumption ==
  /\ Ptr \subseteq Nat \ {0} /\ Size \subseteq Nat \ {0}
  /\ MaxCounter \in Nat /\ MaxCount \in Nat /\ Word32 \in Nat \ {0}

VARIABLES
  file,    \* the words of manifest.bin
  by,      \* who wrote it last
  given,   \* ghost: the entries it stands for
  flags,   \* ghost: the flags it stands for
  version  \* ghost: its version

vars == <<file, by, given, flags, version>>

-----------------------------------------------------------------------------
(* Layout.                                                                 *)

Bit(f, b) == IF b \in f THEN b ELSE 0

\* Two 16-bit fields of the header.
VersionAndFlags(v, f) ==
  v + 65536 * (Bit(f, FlagCompressed) + Bit(f, FlagSparse) + Bit(f, FlagDedup) + Bit(f, FlagDelta))

\* struct ChunkEntry, which is also an entry of version 1.
ChunkEntry(e) == <<e.ptr, 0, e.size, 0, e.offset, 0, e.crc, e.seq>>

\* writeEntry: version 2 adds the 32 bytes of ContentHash.
Words(v) == IF v >= 2 THEN 16 ELSE 8
writeEntry(e, v) == ChunkEntry(e) \o IF v >= 2 THEN <<e.hash, 0, 0, 0, 0, 0, 0, 0>> ELSE <<>>

\* Rows of w words each, one after the other.
Body(rows, w) ==
  [k \in 1..(Len(rows) * w) |-> rows[((k - 1) \div w) + 1][((k - 1) % w) + 1]]

TotalBytes(es) == FoldSeq(LAMBDA e, n : n + e.size, 0, es)

\* WriteManifestFlags: the header is written without padding.
WriteManifestFlags(es, f, v) ==
  <<Magic, VersionAndFlags(v, f), Len(es), TotalBytes(es), 0>>
    \o Body([i \in 1..Len(es) |-> writeEntry(es[i], v)], Words(v))

\* ckpt_snapshot_write: the compiler aligns the 64-bit total, so that there is a
\* word of padding before it; the version is 2 and the entries are ChunkEntry.
ShimManifest(es) ==
  <<Magic, VersionAndFlags(2, {}), Len(es), 0, TotalBytes(es), 0>>
    \o Body([i \in 1..Len(es) |-> ChunkEntry(es[i])], 8)

-----------------------------------------------------------------------------
(* Readers.                                                                *)

Failed == [ok |-> FALSE]

FlagsOf(word) == {b \in Flag : (word \div 65536) \div b % 2 = 1}

\* The entry that starts after k words.
EntryAt(f, k, hashed) ==
  [ptr |-> f[k + 1], size |-> f[k + 3], offset |-> f[k + 5], crc |-> f[k + 7],
   seq |-> f[k + 8], hash |-> IF hashed THEN f[k + 9] ELSE 0]

ReadManifest(f) ==
  IF Len(f) < 5 \/ f[1] # Magic THEN Failed
  ELSE LET v == f[2] % 65536
       IN  IF Len(f) < 5 + f[3] * Words(v) THEN Failed
           ELSE [ok |-> TRUE, flags |-> FlagsOf(f[2]), version |-> v,
                 entries |-> [i \in 1..f[3] |-> EntryAt(f, 5 + (i - 1) * Words(v), v >= 2)]]

\* The place of entry j in a stable sort by the allocation counter.
Before(es, i, j) == es[i].seq < es[j].seq \/ (es[i].seq = es[j].seq /\ i < j)
Rank(es, j) == Cardinality({i \in DOMAIN es : Before(es, i, j)}) + 1

\* Mutant: the entries are sorted the other way round.
RestoreOrderDescending(es) ==
  [k \in DOMAIN es |-> es[CHOOSE j \in DOMAIN es : Rank(es, j) = Len(es) + 1 - k]]

\* ckpt_restore_load sorts by the allocation counter, stably, so that memory is
\* asked for again in the order in which the application did.
RestoreOrder(es) == [k \in DOMAIN es |-> es[CHOOSE j \in DOMAIN es : Rank(es, j) = k]]

\* ckpt_restore_load reads what ckpt_snapshot_write wrote.
ShimRead(f) ==
  IF Len(f) < 6 \/ f[1] # Magic \/ Len(f) < 6 + f[3] * 8 THEN Failed
  ELSE [ok |-> TRUE,
        entries |-> RestoreOrder([i \in 1..f[3] |-> EntryAt(f, 6 + (i - 1) * 8, FALSE)])]

-----------------------------------------------------------------------------

\* Allocations as ckpt_snapshot_write lays them out: in device.bin one follows
\* the other.  The CRC is any word.
Laid(as) ==
  [i \in DOMAIN as |->
    [ptr |-> as[i].ptr, size |-> as[i].size,
     offset |-> TotalBytes(SubSeq(as, 1, i - 1)),
     crc |-> as[i].ptr + as[i].size, seq |-> as[i].seq % Word32, hash |-> 0]]

\* allocs_snapshot: one allocation per address, in the order of the counter.
Allocs ==
  {as \in BoundedSeq([ptr : Ptr, size : Size, seq : 1..MaxCounter], MaxCount) :
     \A i, j \in DOMAIN as : i < j => as[i].ptr # as[j].ptr /\ as[i].seq < as[j].seq}

Init ==
  /\ file = <<>> /\ by = "nobody"
  /\ given = <<>> /\ flags = {} /\ version = 2

ShimWrite(as) ==
  /\ by = "nobody"
  /\ file' = ShimManifest(Laid(as))
  /\ by' = "shim" /\ given' = Laid(as) /\ flags' = {} /\ version' = 2

\* WriteManifest, as the mock shim of pkg/rpc and the tests call it.
GoWrite(as, v) ==
  /\ by = "nobody"
  /\ file' = WriteManifestFlags(Laid(as), {}, v)
  /\ by' = "go" /\ given' = Laid(as) /\ flags' = {} /\ version' = v

\* Mutant: a stage of the pipeline forgets the flags of the stages before it.
GoSetFlagOnly(f) ==
  LET m == ReadManifest(file)
  IN  /\ m.ok
      /\ file' = WriteManifestFlags(m.entries, {f}, m.version)
      /\ by' = "go" /\ flags' = flags \cup {f}
      /\ UNCHANGED <<given, version>>

\* CompressDevice, ApplySparse and WriteDelta read the manifest and write it
\* back with one more flag.
GoSetFlag(f) ==
  LET m == ReadManifest(file)
  IN  /\ m.ok
      /\ file' = WriteManifestFlags(m.entries, m.flags \cup {f}, m.version)
      /\ by' = "go" /\ flags' = flags \cup {f}
      /\ UNCHANGED <<given, version>>

\* DedupDevice also fills in the content hashes, here a function of the CRC.
GoDedup ==
  LET m == ReadManifest(file)
      hashed(es) == [i \in DOMAIN es |-> [es[i] EXCEPT !.hash = es[i].crc]]
  IN  /\ m.ok
      /\ file' = WriteManifestFlags(hashed(m.entries), m.flags \cup {FlagDedup}, m.version)
      /\ by' = "go" /\ flags' = flags \cup {FlagDedup}
      /\ given' = IF version >= 2 THEN hashed(given) ELSE given
      /\ UNCHANGED version

\* DecompressDevice clears its flag.
GoDecompress ==
  LET m == ReadManifest(file)
  IN  /\ m.ok /\ FlagCompressed \in m.flags
      /\ file' = WriteManifestFlags(m.entries, m.flags \ {FlagCompressed}, m.version)
      /\ by' = "go" /\ flags' = flags \ {FlagCompressed}
      /\ UNCHANGED <<given, version>>

Next ==
  \/ \E as \in Allocs : ShimWrite(as) \/ \E v \in {1, 2} : GoWrite(as, v)
  \/ \E f \in Flag \ {FlagDedup} : GoSetFlag(f)
  \/ GoDedup
  \/ GoDecompress

Spec == Init /\ [][Next]_vars

-----------------------------------------------------------------------------
(* Properties.                                                             *)

\* What the orchestrator wrote it reads back, after any sequence of pipeline
\* stages and in both versions: every field of every entry, and the flags.
GoReadsGo ==
  by = "go" => ReadManifest(file) = [ok |-> TRUE, flags |-> flags, version |-> version,
                                     entries |-> given]

\* What the shim wrote it reads back: every allocation, and in the order in which
\* they were made unless the 32-bit counter wrapped between them.
ShimReadsShim ==
  LET m == ShimRead(file)
      Unwrapped == \A i, j \in DOMAIN given : i < j => given[i].seq < given[j].seq
  IN  by = "shim" => /\ m.ok
                     /\ ToSet(m.entries) = ToSet(given) /\ Len(m.entries) = Len(given)
                     /\ Unwrapped => m.entries = given

\* README.md, line 174: manifest.bin is one versioned header and chunk index, so
\* the orchestrator reads what the shim wrote.
GoReadsShim ==
  by = "shim" => ReadManifest(file).ok /\ ReadManifest(file).entries = given
=============================================================================
