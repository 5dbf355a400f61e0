------------------------------- MODULE Images -------------------------------
(***************************************************************************)
(* Finalized images and what the pipeline of pkg/image does to them:       *)
(* compression, delta against a parent image, materialization of           *)
(* device.bin (which follows the chain of parents and rewrites their files *)
(* too), and removal by the image GC.  Sparse and dedup add side files     *)
(* that nothing reads back and are left out.                               *)
(*                                                                         *)
(* Each operation runs alone here; module Checkpoint has the interleaving. *)
(***************************************************************************)
EXTENDS Integers, Sequences, SequencesExt, FiniteSetsExt

CONSTANTS
  Path,     \* image directories
  Byte,     \* values of a byte of device memory
  Address,  \* device pointers
  Layouts,  \* the allocations an application may have: sequences of [ptr, size]
  MaxCheckpoints,  \* bound on successful checkpoints
  Staging,  \* the directory that WriteStaging fills
  None      \* a file or directory that is not there

Dir == Path \cup {Staging}

\* A record of the manifest; the CRC of a chunk stands for its bytes.
Entry == [ptr : Address, size : Nat, off : Nat, crc : Seq(Byte)]

\* A record of delta.bin: size bytes at poff in device.patch go to off in device.bin.
Record == [off : Nat, size : Nat, poff : Nat]

\* An image: entries of the manifest, its flags, device.bin (or None), device.zst,
\* delta.bin (the parent's name and the records, which do not overlap, so that
\* their order does not matter) and device.patch.
Image ==
  [entries : Seq(Entry), compressed : BOOLEAN, delta : BOOLEAN,
   device : Seq(Byte) \cup {None}, zst : Seq(Byte) \cup {None},
   parent : Path \cup {None}, recs : SUBSET Record, patch : Seq(Byte)]

\* The tracker lists an address once, and Resize pads with zeros.
ASSUME ImagesAssumption ==
  /\ IsFiniteSet(Path) /\ Staging \notin Path
  /\ None \notin Dir /\ None \notin Image /\ None \notin Seq(Byte)
  /\ 0 \in Byte
  /\ \A l \in Layouts :
       /\ l \in Seq([ptr : Address, size : Nat])
       /\ \A i, j \in DOMAIN l : l[i].ptr = l[j].ptr => i = j
  /\ MaxCheckpoints \in Nat

VARIABLES
  store,  \* store[p]: the files of image p, or None
  truth,  \* ghost: what the device held when p was last checkpointed, or None
  stale,  \* ghost: images with an ancestor whose path has been checkpointed to since
  made    \* successful checkpoints so far

vars == <<store, truth, stale, made>>

\* What ckpt_snapshot_write leaves in the directory.
NewImage(es, bytes) ==
  [entries |-> es, compressed |-> FALSE, delta |-> FALSE, device |-> bytes,
   zst |-> None, parent |-> None, recs |-> {}, patch |-> <<>>]

Init ==
  /\ store = [p \in Dir |-> None]
  /\ truth = [p \in Path |-> None]
  /\ stale = {}
  /\ made = 0

-----------------------------------------------------------------------------

Slice(bytes, off, n) == SubSeq(bytes, off + 1, off + n)

\* Ends(sizes)[i]: where the i-th of some chunks laid one after the other ends.
Ends(sizes) ==
  LET end[i \in 0..Len(sizes)] == IF i = 0 THEN 0 ELSE end[i - 1] + sizes[i]
  IN  end

SizesOf(l) == [i \in 1..Len(l) |-> l[i].size]

TotalSize(l) == Ends(SizesOf(l))[Len(l)]

\* The manifest of ckpt_snapshot_write.
Entries(l, bytes) ==
  LET end == Ends(SizesOf(l))
  IN  [i \in 1..Len(l) |->
        [ptr |-> l[i].ptr, size |-> l[i].size, off |-> end[i - 1],
         crc |-> Slice(bytes, end[i - 1], l[i].size)]]

\* device.bin grown with zeros or cut to total bytes.
Resize(bytes, total) ==
  [i \in 1..total |-> IF i <= Len(bytes) THEN bytes[i] ELSE 0]

Covers(rec, i) == rec.off < i /\ i <= rec.off + rec.size

\* copy(base[DeviceOff:...], patch[PatchOffset:...]) for every record.
Patch(bytes, recs, patch) ==
  [i \in 1..Len(bytes) |->
    IF \E rec \in recs : Covers(rec, i)
      THEN LET rec == CHOOSE rec \in recs : Covers(rec, i) IN patch[rec.poff + i - rec.off]
      ELSE bytes[i]]

\* ApplyDelta on the device.bin of the parent.
ApplyDelta(img, base) ==
  LET total == Max({0} \cup {e.off + e.size : e \in ToSet(img.entries)})
  IN  Patch(Resize(base, total), img.recs, img.patch)

\* A chain of parents longer than Fuel goes round in a circle: the process would
\* run out of stack.
Fuel == Cardinality(Path) + 2

\* Chains(s)[n][p]: the images that p's device.bin is made from, p included, and
\* None if one is not there or the chain has more than n of them.
Chains(s) ==
  LET chain[n \in 0..Fuel] ==
        [p \in Dir |->
          IF n = 0 \/ s[p] = None THEN {p, None}
          ELSE IF s[p].delta THEN {p} \cup chain[n - 1][s[p].parent]
          ELSE {p}]
  IN  chain

Chain(s, p) == Chains(s)[Fuel][p]

\* device.bin of an image that is there once its parent has been materialized:
\* ApplyDelta, over which DecompressDevice writes.
Rebuilt(img, base) ==
  IF img.compressed THEN img.zst
  ELSE IF img.delta THEN ApplyDelta(img, base)
  ELSE img.device

\* Devices(s)[n][p]: device.bin after EnsureDeviceMaterialized(p), which calls itself
\* for the parents, or None where it fails.
Devices(s) ==
  LET device[n \in 0..Fuel] ==
        [p \in Dir |->
          IF n = 0 \/ s[p] = None THEN None
          ELSE IF s[p].delta /\ device[n - 1][s[p].parent] = None THEN None
          ELSE Rebuilt(s[p], device[n - 1][s[p].parent])]
  IN  device

\* EnsureDeviceMaterialized.  It can only fail at the image without a parent, or
\* before, and has not written anything then; else it writes device.bin of every
\* image of the chain, and clears the flag of one that was compressed.
Materialized(s, p) ==
  LET device == Devices(s)[Fuel]
      written == IF device[p] = None THEN {} ELSE Chain(s, p)
  IN  [ok |-> device[p] # None,
       store |-> [q \in Dir |->
         IF q \in written THEN [s[q] EXCEPT !.device = device[q], !.compressed = FALSE] ELSE s[q]]]

\* CompressDevice; device.bin stays.
CompressDevice(img) == [img EXCEPT !.zst = img.device, !.compressed = TRUE]

\* Mutant: chunks of the same size are taken to be the same.
ChangedSize(e, parent) == ~\E pe \in ToSet(parent.entries) : pe.ptr = e.ptr /\ pe.size = e.size

\* A chunk goes into the patch unless the parent has the address with the same
\* size and CRC.
Changed(e, parent) ==
  ~\E pe \in ToSet(parent.entries) : pe.ptr = e.ptr /\ pe.size = e.size /\ pe.crc = e.crc

\* WriteDelta once both images are materialized.
DeltaImage(img, p, parent) ==
  LET es == img.entries
      changed == {i \in 1..Len(es) : Changed(es[i], parent)}
      end == Ends([i \in 1..Len(es) |-> IF i \in changed THEN es[i].size ELSE 0])
      recs == {[off |-> es[i].off, size |-> es[i].size, poff |-> end[i - 1]] : i \in changed}
      At(j) == CHOOSE rec \in recs : rec.poff < j /\ j <= rec.poff + rec.size
  IN  IF changed = {} THEN img
      ELSE [img EXCEPT
              !.delta = TRUE, !.parent = p, !.recs = recs,
              !.patch = [j \in 1..end[Len(es)] |-> img.device[At(j).off + j - At(j).poff]]]

WriteDelta(s, dir, p) ==
  LET up == Materialized(s, p)
      own == Materialized(up.store, dir)
  IN  IF ~up.ok THEN up
      ELSE IF ~own.ok THEN own
      ELSE [ok |-> TRUE,
            store |-> [own.store EXCEPT ![dir] = DeltaImage(own.store[dir], p, own.store[p])]]

\* ProcessImage with the two options that change how device.bin is read.
ProcessImage(s, dir, compress, parent) ==
  LET c == IF compress THEN [s EXCEPT ![dir] = CompressDevice(s[dir])] ELSE s
  IN  IF parent = None THEN [ok |-> TRUE, store |-> c] ELSE WriteDelta(c, dir, parent)

-----------------------------------------------------------------------------

\* A checkpoint to p: snapshot into the staging directory, ProcessImage, and
\* Finalize, which replaces p; on an error the staging directory is removed,
\* and what was done to the parents stays.
Checkpoint(p, l, bytes, compress, parent) ==
  LET r == ProcessImage([store EXCEPT ![Staging] = NewImage(Entries(l, bytes), bytes)],
                        Staging, compress, parent)
  IN  /\ made < MaxCheckpoints
      /\ made' = IF r.ok THEN made + 1 ELSE made
      /\ store' = IF r.ok THEN [r.store EXCEPT ![p] = r.store[Staging], ![Staging] = None]
                          ELSE [r.store EXCEPT ![Staging] = None]
      /\ truth' = IF r.ok THEN [truth EXCEPT ![p] = bytes] ELSE truth
      /\ stale' = IF r.ok
                    THEN {q \in Path \ {p} : q \in stale \/ p \in Chain(store, q)}
                           \cup {q \in {p} : Chain(r.store, Staging) \cap (stale \cup {p}) # {}}
                    ELSE stale

\* restore, gpu-restore, validate and rollback materialize the image first.
Materialize(p) ==
  /\ store[p] # None
  /\ store' = Materialized(store, p).store
  /\ UNCHANGED <<truth, stale, made>>

\* An operator deletes device.bin where it can be made again, as the tests in
\* materialize_test.go do: PreflightRestore asks for it only in an image that is
\* neither compressed nor a delta.
DropDevice(p) ==
  /\ store[p] # None
  /\ store[p].compressed \/ store[p].delta
  /\ store' = [store EXCEPT ![p].device = None]
  /\ UNCHANGED <<truth, stale, made>>

\* The image GC removes an image that has reached MaxAge, whoever its children.
GCRemove(p) ==
  /\ store[p] # None
  /\ store' = [store EXCEPT ![p] = None]
  /\ UNCHANGED <<truth, stale, made>>

Next ==
  \E p \in Path :
    \/ \E l \in Layouts : \E bytes \in [1..TotalSize(l) -> Byte] :
         \E compress \in BOOLEAN : \E parent \in Path \cup {None} :
           Checkpoint(p, l, bytes, compress, parent)
    \/ Materialize(p)
    \/ DropDevice(p)
    \/ GCRemove(p)

Spec == Init /\ [][Next]_vars

-----------------------------------------------------------------------------
(* CompareImages (pkg/control/drift.go); the fields of meta.bin are left out. *)

\* Mutant: the number of entries is not compared.
DriftUncounted(l, r) ==
  \/ <<l.compressed, l.delta>> # <<r.compressed, r.delta>>
  \/ \E i \in 1..Min({Len(l.entries), Len(r.entries)}) :
       ~\E e \in ToSet(r.entries) :
          e.ptr = l.entries[i].ptr /\ e.size = l.entries[i].size /\ e.crc = l.entries[i].crc

\* Whether "cudackpt diff" reports something: the flags, the number of entries,
\* or one of the first entries of the left manifest, as many as the shorter of
\* the two has, whose address the right one has not, or with another size or CRC.
Drift(l, r) ==
  \/ <<l.compressed, l.delta>> # <<r.compressed, r.delta>>
  \/ Len(l.entries) # Len(r.entries)
  \/ \E i \in 1..Min({Len(l.entries), Len(r.entries)}) :
       ~\E e \in ToSet(r.entries) :
          e.ptr = l.entries[i].ptr /\ e.size = l.entries[i].size /\ e.crc = l.entries[i].crc

-----------------------------------------------------------------------------
(* Properties.                                                             *)

\* A chunk of a delta image has the bytes it has in the parent, and is left out of
\* the patch, but lies elsewhere in device.bin.
Shifted(p) ==
  \E e \in ToSet(store[p].entries), pe \in ToSet(store[store[p].parent].entries) :
    pe.ptr = e.ptr /\ pe.size = e.size /\ pe.crc = e.crc /\ pe.off # e.off

\* The ancestors of p are there, are the ones it was made from, and no unchanged chunk
\* lies elsewhere in one of them.
Intact(p) ==
  LET chain == Chain(store, p)
  IN  /\ p \notin stale
      /\ None \notin chain
      /\ \A q \in chain : store[q].delta => ~Shifted(q)

\* device.bin of p once it has been materialized.
DeviceOf(p) == Materialized(store, p).store[p].device

\* docs/OPERATIONS.md, line 56, "Materialize device.bin from compression or delta
\* parent": as long as the ancestors of an image are there and are the ones it
\* was made from, whatever has been checkpointed, restored, compressed or
\* deleted since, it materializes, and every chunk holds what the device held
\* when the checkpoint was taken.  It does not where an unchanged chunk has moved:
\* ApplyDelta takes it from its new place in the parent's device.bin.
Restorable ==
  \A p \in Path : Intact(p) =>
    /\ Materialized(store, p).ok
    /\ \A e \in ToSet(store[p].entries) :
         Slice(DeviceOf(p), e.off, e.size) = Slice(truth[p], e.off, e.size)

\* What a restore of p puts on the device: the chunks of its device.bin, by address.
Contents(p) ==
  {<<e.ptr, Slice(DeviceOf(p), e.off, e.size)>> : e \in ToSet(store[p].entries)}

\* docs/CLI.md, line 82, "report drift": two images without drift restore the same
\* memory, however their manifests order it and from whatever parents, patches and
\* compressed files it is made; although only the left manifest is gone through, and
\* device.bin is not read.  It is said of images that Restorable is said of: with a
\* replaced parent, or an unchanged chunk that has moved, images with equal manifests
\* materialize to different memory, and diff does not see it.
NoDriftIsSame ==
  \A p, q \in Path :
    Intact(p) /\ Intact(q) /\ ~Drift(store[p], store[q]) => Contents(p) = Contents(q)
=============================================================================
