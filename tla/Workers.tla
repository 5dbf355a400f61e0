------------------------------- MODULE Workers -------------------------------
(***************************************************************************)
(* How SNAPSHOT and RESTORE move the contents of device memory:            *)
(* coalesce_allocs (shim/coalesce.cpp), the pool of pinned host buffers    *)
(* (shim/pinned_pool.cpp), and the worker threads of shim/snapshot.cu and  *)
(* shim/restore.cu, which claim tasks from a shared index.  Requests on    *)
(* several connections run at once and share the pool.                     *)
(*                                                                         *)
(* Memory is made of cells, and the contents of a cell stand for where     *)
(* they came from: the cell at address a holds a.  0 is a cell that has    *)
(* not been written.                                                       *)
(***************************************************************************)
EXTENDS Integers, Sequences, FiniteSets

CONSTANTS
  Task,       \* numbers of the SNAPSHOT and RESTORE requests served at the same time
  MaxWorkers, \* min(8, hardware_concurrency)
  Addr,       \* device addresses, positive numbers
  Lists,      \* what allocs_snapshot may return: sequences of [base, size, ctx]
  Images,     \* images that may be on disk when the first request comes
  MaxAllocs,  \* bound on the allocations of a request
  MaxRuns,    \* bound on requests
  MaxFaults   \* bound on driver calls and file operations that fail

Span(a) == a.base..(a.base + a.size - 1)
Alloc == [base : Nat, size : Nat \ {0}, ctx : Nat]
Entry == [base : Nat, size : Nat \ {0}, off : Nat]

Extent == {"whole", "short"}

\* device.bin f is long enough for entry e.
Readable(f, e) == e.off + e.size <= Len(f)

\* It has what belongs to e.
Stored(f, e) == Readable(f, e) /\ \A k \in 1..e.size : f[e.off + k] = e.base + k - 1

\* im may be on disk: the entries, device.bin, whether manifest.bin has all of
\* its bytes, and as a ghost whether all that was to be written is there.  What
\* device.bin has is right.
Sound(im) ==
  /\ im \in [entries : Seq(Entry), bytes : Seq(Nat), manifest : Extent, made : Extent]
  /\ Len(im.entries) <= MaxAllocs
  /\ \A i \in 1..Len(im.entries) :
       Span(im.entries[i]) \subseteq Addr /\ (Readable(im.bytes, im.entries[i]) => Stored(im.bytes, im.entries[i]))

\* If not all is there, part of manifest.bin is missing or device.bin is too short
\* for an entry.
Marked(im) ==
  im.made = "short" =>
    im.manifest = "short" \/ \E i \in 1..Len(im.entries) : ~Readable(im.bytes, im.entries[i])

ASSUME WorkersAssumption ==
  /\ Task \subseteq Nat
  /\ MaxWorkers \in Nat \ {0}
  /\ Addr \subseteq Nat \ {0}
  /\ \A l \in Lists :
       l \in Seq(Alloc) /\ Len(l) <= MaxAllocs /\ \A i \in 1..Len(l) : Span(l[i]) \subseteq Addr
  /\ \A im \in Images : Sound(im) /\ Marked(im)
  /\ MaxAllocs \in Nat /\ MaxRuns \in Nat /\ MaxFaults \in Nat

VARIABLES
  pool,      \* PinnedPool::blocks_, with the contents of the buffers
  image,     \* the image on disk: see Sound
  pc,        \* pc[s]: where the request is; its answer when it has ended
  kind,      \* kind[s]: SNAPSHOT or RESTORE
  list,      \* list[s]: the allocations it moves
  blocks,    \* blocks[s]: one per task: the coalesced allocations, or the entries
  host,      \* host[s][i]: the pinned buffer of task i, 0 for none
  err,       \* err[s]: the tasks whose err_code is set
  next,      \* next[s]: the shared index
  fail,      \* fail[s]: the shared flag
  worker,    \* worker[s][w]: where worker w is, and its i
  pos,       \* pos[s]: index of the request's own loop over the tasks
  file,      \* file[s]: device.bin: what SNAPSHOT has given to its stream, or as RESTORE
             \* opened it (a later checkpoint makes another file)
  manifest,  \* manifest[s]: the entries so far
  mem,       \* mem[s]: device memory as RESTORE has written it
  runs, faults,
  made,      \* ghost: made[s]: whether the image that s made, or opened, has all its bytes
  lost,      \* ghost: buffers that a failed request had and did not release
  peak       \* ghost: the most buffers that requests have held at the same time

request == <<kind, list, blocks>>
output == <<file, manifest, mem>>
disk == <<image, made>>
ghosts == <<lost, peak>>
vars == <<pool, disk, pc, request, host, err, next, fail, worker, pos, output, runs, faults, ghosts>>

Worker == 1..MaxWorkers
Ended == {"idle", "ok", "err"}
Off == [at |-> "off", i |-> 0]
Blank == [a \in Addr |-> 0]

\* No request has come; there is an image to restore from.  Snapshots make others.
Init ==
  /\ pool = <<>> /\ image \in Images
  /\ pc = [s \in Task |-> "idle"] /\ kind = [s \in Task |-> "snapshot"]
  /\ list = [s \in Task |-> <<>>] /\ blocks = [s \in Task |-> <<>>]
  /\ host = [s \in Task |-> <<>>] /\ err = [s \in Task |-> {}]
  /\ next = [s \in Task |-> 1] /\ fail = [s \in Task |-> FALSE]
  /\ worker = [s \in Task |-> [w \in Worker |-> Off]]
  /\ pos = [s \in Task |-> 1]
  /\ file = [s \in Task |-> <<>>] /\ manifest = [s \in Task |-> <<>>]
  /\ mem = [s \in Task |-> Blank]
  /\ runs = 0 /\ faults = 0
  /\ made = [s \in Task |-> "whole"]
  /\ lost = {} /\ peak = 0

-----------------------------------------------------------------------------
(* The pool.  A buffer is known by its place in blocks_, which only grows. *)

Held(s) == {host[s][i] : i \in DOMAIN host[s]} \ {0}
InUse == UNION {Held(s) : s \in Task}

\* What a copy of size cells from address base moves.
Cells(base, size) == [k \in 1..size |-> base + k - 1]

Buffer(n) == [cap |-> n, free |-> FALSE, data |-> [k \in 1..n |-> 0]]

\* Mutant: a buffer of exactly the size is passed over.
FitsLarger(n) == {b \in DOMAIN pool : pool[b].free /\ pool[b].cap > n}

Fits(n) == {b \in DOMAIN pool : pool[b].free /\ pool[b].cap >= n}

\* The contents cells at the beginning of buffer x.
Filled(x, cells) ==
  [x EXCEPT !.data = [k \in DOMAIN @ |-> IF k \in DOMAIN cells THEN cells[k] ELSE @[k]]]

First(b, S) == b \in S /\ \A c \in S : b <= c
Larger(m, n) == IF m < n THEN n ELSE m

\* Mutant: the pool is kept at one buffer, and acquire waits for it.
AcquireWaits(n, b, cells) ==
  /\ IF Fits(n) # {}
       THEN First(b, Fits(n)) /\ pool' = [pool EXCEPT ![b] = Filled([@ EXCEPT !.free = FALSE], cells)]
       ELSE pool = <<>> /\ b = 1 /\ pool' = <<Filled(Buffer(n), cells)>>
  /\ peak' = Larger(peak, Cardinality(InUse \cup {b}))

\* PinnedPool::acquire, under mu_, gives buffer b: the first that fits, or a new
\* one from cuMemHostAlloc.  Its first contents are cells.
Acquire(n, b, cells) ==
  /\ IF Fits(n) # {}
       THEN First(b, Fits(n)) /\ pool' = [pool EXCEPT ![b] = Filled([@ EXCEPT !.free = FALSE], cells)]
       ELSE b = Len(pool) + 1 /\ pool' = Append(pool, Filled(Buffer(n), cells))
  /\ peak' = Larger(peak, Cardinality(InUse \cup {b}))

\* PinnedPool::release.  The next to acquire it may write to it at any time: its
\* contents count as lost.
Release(b) == IF b = 0 THEN pool ELSE [pool EXCEPT ![b] = [Buffer(@.cap) EXCEPT !.free = TRUE]]

\* The first n cells of buffer b.
Contents(b, n) == [k \in 1..n |-> IF b # 0 /\ k <= pool[b].cap THEN pool[b].data[k] ELSE 0]

-----------------------------------------------------------------------------

Fault == faults < MaxFaults /\ faults' = faults + 1

\* The request returns and its locals are gone; the buffers in bs are never
\* released.
ReturnWith(s, answer, bs) ==
  /\ pc' = [pc EXCEPT ![s] = answer]
  /\ lost' = lost \cup bs
  /\ list' = [list EXCEPT ![s] = <<>>] /\ blocks' = [blocks EXCEPT ![s] = <<>>]
  /\ host' = [host EXCEPT ![s] = <<>>] /\ err' = [err EXCEPT ![s] = {}]
  /\ next' = [next EXCEPT ![s] = 1] /\ fail' = [fail EXCEPT ![s] = FALSE]
  /\ pos' = [pos EXCEPT ![s] = 1]
  /\ file' = [file EXCEPT ![s] = <<>>] /\ manifest' = [manifest EXCEPT ![s] = <<>>]
  /\ mem' = [mem EXCEPT ![s] = Blank]
  /\ UNCHANGED <<kind, worker, runs>>

Return(s, answer) == ReturnWith(s, answer, Held(s))

Stay == UNCHANGED <<request, err, next, fail, output>>

Ready == {s \in Task : pc[s] \in Ended}

\* As many workers as there are tasks, at least one.
Started(n) == [w \in Worker |-> IF w = 1 \/ w <= n THEN [at |-> "claim", i |-> 0] ELSE Off]

\* A request begins, under the least number that is free as accept gives it:
\* it is to move l, in the tasks bs if they are known, and device.bin is f.
Begin(s, k, l, bs, f) ==
  /\ First(s, Ready)
  /\ runs < MaxRuns
  /\ runs' = runs + 1
  /\ kind' = [kind EXCEPT ![s] = k]
  /\ list' = [list EXCEPT ![s] = l] /\ blocks' = [blocks EXCEPT ![s] = bs]
  /\ host' = [host EXCEPT ![s] = [i \in DOMAIN bs |-> 0]]
  /\ file' = [file EXCEPT ![s] = f]
  /\ UNCHANGED <<pool, image, err, next, fail, worker, pos, manifest, mem, faults, ghosts>>

\* ckpt_snapshot_write with the allocations listed after the quiesce.
BeginSnapshot(s, l) ==
  /\ Begin(s, "snapshot", l, <<>>, <<>>)
  /\ pc' = [pc EXCEPT ![s] = "coalesce"]
  /\ UNCHANGED made

\* ckpt_restore_load with the entries of the image, which are in the order of their
\* sequence numbers, the order RESTORE sorts them in.  A manifest.bin that ends
\* before its last entry is not used.
BeginRestore(s) ==
  /\ \/ /\ image.manifest = "whole"
        /\ Begin(s, "restore", image.entries, image.entries, image.bytes)
        /\ pc' = [pc EXCEPT ![s] = "fill"]
     \/ /\ image.manifest = "short"
        /\ Begin(s, "restore", <<>>, <<>>, image.bytes)
        /\ pc' = [pc EXCEPT ![s] = "reject"]
  /\ made' = [made EXCEPT ![s] = image.made]

\* The read of manifest.bin has failed.
Reject(s) ==
  /\ pc[s] = "reject"
  /\ Return(s, "err")
  /\ UNCHANGED <<pool, disk, faults, peak>>

\* Allocation a, number i of the listing, goes on where block b ends, in the same
\* context.
Adjoins(b, a) == a.ctx = b.ctx /\ a.base = b.base + b.size

Extended(b, a, i) == [b EXCEPT !.size = @ + a.size, !.last = i]

\* A block of its own, at off in device.bin; its parts are first to last of the listing.
NewBlock(a, i, off) ==
  [base |-> a.base, size |-> a.size, ctx |-> a.ctx, off |-> off, first |-> i, last |-> i]

\* One turn of coalesce_allocs: allocations that follow one another in the listing
\* and in memory become one block, and tasks[i].offset is the sum of the sizes before.
Coalesce(s) ==
  LET i == pos[s]
      a == list[s][i]
      bs == blocks[s]
      n == Len(bs)
  IN  /\ pc[s] = "coalesce" /\ i \in DOMAIN list[s]
      /\ \/ /\ n > 0 /\ Adjoins(bs[n], a)
            /\ blocks' = [blocks EXCEPT ![s][n] = Extended(@, a, i)]
         \/ /\ n > 0 /\ ~Adjoins(bs[n], a)
            /\ blocks' = [blocks EXCEPT ![s] = Append(@, NewBlock(a, i, bs[n].off + bs[n].size))]
         \/ /\ n = 0
            /\ blocks' = [blocks EXCEPT ![s] = <<NewBlock(a, i, 0)>>]
      /\ pos' = [pos EXCEPT ![s] = @ + 1]
      /\ UNCHANGED <<pool, disk, pc, kind, list, host, err, next, fail, worker, output, runs, faults, ghosts>>

\* The loop that prepares the tasks has ended: the workers are started.
Launch(s) ==
  /\ \/ /\ pc[s] = "coalesce" /\ pos[s] \notin DOMAIN list[s]
        /\ host' = [host EXCEPT ![s] = [i \in DOMAIN blocks[s] |-> 0]]
     \/ /\ pc[s] = "fill" /\ pos[s] \notin DOMAIN blocks[s]
        /\ UNCHANGED host
  /\ pc' = [pc EXCEPT ![s] = "join"] /\ pos' = [pos EXCEPT ![s] = 1]
  /\ worker' = [worker EXCEPT ![s] = Started(Len(blocks[s]))]
  /\ Stay /\ UNCHANGED <<pool, disk, runs, faults, ghosts>>

\* Mutant: RESTORE goes on although the read came to the end of device.bin.
FillUnread(s) ==
  LET i == pos[s]
      e == blocks[s][i]
  IN  /\ pc[s] = "fill" /\ i \in DOMAIN blocks[s]
      /\ \E b \in 1..(Len(pool) + 1) :
           /\ Acquire(e.size, b, [k \in 1..e.size |-> IF e.off + k <= Len(file[s]) THEN file[s][e.off + k] ELSE 0])
           /\ host' = [host EXCEPT ![s][i] = b]
      /\ pos' = [pos EXCEPT ![s] = i + 1]
      /\ Stay /\ UNCHANGED <<pc, worker, runs, faults, lost, disk>>

\* RESTORE makes the allocation of each entry at its address, acquires a buffer and
\* reads the entry's bytes of device.bin into it.  It fails if the allocation or
\* the buffer cannot be had, and with the buffer if the read fails or comes to the
\* end of the file.
Fill(s) ==
  LET i == pos[s]
      e == blocks[s][i]
  IN  /\ pc[s] = "fill" /\ i \in DOMAIN blocks[s]
      /\ \/ /\ Readable(file[s], e)
            /\ \E b \in 1..(Len(pool) + 1) :
                 /\ Acquire(e.size, b, [k \in 1..e.size |-> file[s][e.off + k]])
                 /\ host' = [host EXCEPT ![s][i] = b]
            /\ pos' = [pos EXCEPT ![s] = i + 1]
            /\ Stay /\ UNCHANGED <<pc, worker, runs, faults, lost>>
         \/ Fault /\ Return(s, "err") /\ UNCHANGED <<pool, peak>>
         \/ /\ \E b \in 1..(Len(pool) + 1) :
                 Acquire(e.size, b, <<>>) /\ ReturnWith(s, "err", Held(s) \cup {b})
            /\ Fault \/ (~Readable(file[s], e) /\ UNCHANGED faults)
      /\ UNCHANGED disk

-----------------------------------------------------------------------------
(* snap_worker and restore_htod_worker.                                    *)

WorkerAt(s, w, l) == worker[s][w].at = l

WorkerGoto(s, w, l, i) == worker' = [worker EXCEPT ![s][w] = [at |-> l, i |-> i]]

\* Mutant: the index is read and then written.
ClaimShared(s, w) ==
  /\ WorkerAt(s, w, "claim")
  /\ WorkerGoto(s, w, "take", next[s])
  /\ next' = [next EXCEPT ![s] = IF \E v \in Worker \ {w} : WorkerAt(s, v, "claim") THEN @ ELSE @ + 1]
  /\ UNCHANGED <<pool, disk, pc, request, host, err, fail, pos, output, runs, faults, ghosts>>

\* next->fetch_add(1)
Claim(s, w) ==
  /\ WorkerAt(s, w, "claim")
  /\ WorkerGoto(s, w, "take", next[s])
  /\ next' = [next EXCEPT ![s] = @ + 1]
  /\ UNCHANGED <<pool, disk, pc, request, host, err, fail, pos, output, runs, faults, ghosts>>

\* Mutant: only the flag is set.
TaskFailsNoCode(s, w) ==
  /\ Fault
  /\ fail' = [fail EXCEPT ![s] = TRUE]
  /\ WorkerGoto(s, w, "off", 0)
  /\ UNCHANGED err

\* A task fails: its err_code is set, then the flag, and the worker returns.
TaskFails(s, w) ==
  /\ Fault
  /\ err' = [err EXCEPT ![s] = @ \cup {worker[s][w].i}]
  /\ fail' = [fail EXCEPT ![s] = TRUE]
  /\ WorkerGoto(s, w, "off", 0)

\* No task is left, or another worker has failed: return.  Else SNAPSHOT's worker
\* acquires a buffer; RESTORE's tasks have one.
Take(s, w) ==
  LET i == worker[s][w].i
      stop == i \notin DOMAIN blocks[s] \/ fail[s]
  IN  /\ WorkerAt(s, w, "take")
      /\ \/ /\ stop
            /\ WorkerGoto(s, w, "off", 0)
            /\ UNCHANGED <<pool, host, err, fail, faults, peak>>
         \/ /\ ~stop /\ kind[s] = "restore"
            /\ WorkerGoto(s, w, "copy", i)
            /\ UNCHANGED <<pool, host, err, fail, faults, peak>>
         \/ /\ ~stop /\ kind[s] = "snapshot"
            /\ \E b \in 1..(Len(pool) + 1) :
                 /\ Acquire(blocks[s][i].size, b, <<>>)
                 /\ host' = [host EXCEPT ![s][i] = b]
            /\ WorkerGoto(s, w, "copy", i)
            /\ UNCHANGED <<err, fail, faults>>
         \/ /\ ~stop /\ kind[s] = "snapshot" /\ Fits(blocks[s][i].size) = {}
            /\ TaskFails(s, w)
            /\ UNCHANGED <<pool, host, peak>>
      /\ UNCHANGED <<disk, pc, request, next, pos, output, runs, lost>>

\* cuMemcpyDtoH into the buffer, or cuMemcpyHtoD out of it.  On an error the
\* buffer stays with the task.
Copy(s, w) ==
  LET i == worker[s][w].i
      b == blocks[s][i]
  IN  /\ WorkerAt(s, w, "copy")
      /\ \/ /\ kind[s] = "snapshot"
            /\ pool' = [pool EXCEPT ![host[s][i]] = Filled(@, Cells(b.base, b.size))]
            /\ WorkerGoto(s, w, "claim", 0)
            /\ UNCHANGED <<mem, err, fail, faults>>
         \/ /\ kind[s] = "restore"
            /\ mem' = [mem EXCEPT ![s] =
                 [a \in Addr |-> IF a \in Span(b)
                                   THEN Contents(host[s][i], b.size)[a - b.base + 1] ELSE @[a]]]
            /\ WorkerGoto(s, w, "claim", 0)
            /\ UNCHANGED <<pool, err, fail, faults>>
         \/ TaskFails(s, w) /\ UNCHANGED <<pool, mem>>
      /\ UNCHANGED <<disk, pc, request, host, next, pos, file, manifest, runs, ghosts>>

-----------------------------------------------------------------------------

\* All workers are joined.  If the flag is set, the first task with an err_code
\* gives the error that is returned.  SNAPSHOT then opens device.bin.
Join(s) ==
  /\ pc[s] = "join"
  /\ \A w \in Worker : WorkerAt(s, w, "off")
  /\ \/ /\ fail[s] /\ err[s] # {}
        /\ Return(s, "err") /\ UNCHANGED <<faults, peak>>
     \/ /\ ~fail[s] \/ err[s] = {}
        /\ pc' = [pc EXCEPT ![s] = "drain"]
        /\ Stay /\ UNCHANGED <<host, worker, pos, runs, faults, ghosts>>
     \/ /\ ~fail[s] /\ kind[s] = "snapshot"
        /\ Fault /\ Return(s, "err") /\ UNCHANGED peak
  /\ UNCHANGED <<pool, disk>>

\* The manifest entries of the parts of block b of the listing l.
PartEntries(l, b) ==
  [k \in 1..(b.last - b.first + 1) |->
    LET part == l[b.first + k - 1]
    IN  [base |-> part.base, size |-> part.size, off |-> b.off + part.base - b.base]]

\* One turn of the loop over the tasks: SNAPSHOT gives the buffer to the stream of
\* device.bin and enters its parts; both release it.  The stream is never asked
\* whether it wrote: how much of it the file gets is settled in Finish, which
\* closes it.
Drain(s) ==
  LET i == pos[s]
      b == blocks[s][i]
  IN  /\ pc[s] = "drain" /\ i \in DOMAIN blocks[s]
      /\ IF kind[s] = "snapshot"
           THEN /\ file' = [file EXCEPT ![s] = @ \o Contents(host[s][i], b.size)]
                /\ manifest' = [manifest EXCEPT ![s] = @ \o PartEntries(list[s], b)]
           ELSE UNCHANGED <<file, manifest>>
      /\ pool' = Release(host[s][i])
      /\ host' = [host EXCEPT ![s][i] = 0]
      /\ pos' = [pos EXCEPT ![s] = @ + 1]
      /\ UNCHANGED <<disk, pc, request, err, next, fail, worker, mem, runs, faults, ghosts>>

\* What SNAPSHOT s leaves on disk: of device.bin the first n bytes, of manifest.bin
\* all or not.  A stream that has failed writes no more.
OnDisk(s, n, m) ==
  [entries |-> manifest[s], bytes |-> SubSeq(file[s], 1, n), manifest |-> m,
   made |-> IF n = Len(file[s]) /\ m = "whole" THEN "whole" ELSE "short"]

\* The manifest and the sidecars are written, or the context is synchronized.  A
\* file that cannot be opened is an error; device.bin or manifest.bin that could not
\* be written to the end, for want of space, is not noticed.
Finish(s) ==
  /\ pc[s] = "drain" /\ pos[s] \notin DOMAIN blocks[s]
  /\ \/ /\ Return(s, "ok") /\ kind[s] = "restore"
        /\ UNCHANGED <<disk, faults>>
     \/ /\ Return(s, "ok") /\ kind[s] = "snapshot"
        /\ \E n \in 0..Len(file[s]), m \in Extent : image' = OnDisk(s, n, m)
        /\ made' = [made EXCEPT ![s] = image'.made]
        /\ IF image'.made = "whole" THEN UNCHANGED faults ELSE Fault
     \/ Fault /\ Return(s, "err") /\ UNCHANGED disk
  /\ UNCHANGED <<pool, peak>>

-----------------------------------------------------------------------------

Step(s) ==
  \/ Coalesce(s) \/ Reject(s) \/ Fill(s) \/ Launch(s) \/ Join(s) \/ Drain(s) \/ Finish(s)
  \/ \E w \in Worker : Claim(s, w) \/ Take(s, w) \/ Copy(s, w)

Next ==
  \E s \in Task : Step(s) \/ BeginRestore(s) \/ \E l \in Lists : BeginSnapshot(s, l)

\* As long as a thread of a request can go on, one does.
Spec == Init /\ [][Next]_vars /\ WF_vars(\E s \in Task : Step(s))

-----------------------------------------------------------------------------
(* Properties.                                                             *)

\* Allocation i of request s is where it belongs, with its own contents: for
\* SNAPSHOT in device.bin at the offset of its manifest entry, for RESTORE at
\* its address.
Moved(s, i) ==
  LET a == list[s][i]
  IN  IF kind[s] = "snapshot"
        THEN \E k \in DOMAIN manifest[s] :
               LET e == manifest[s][k]
               IN  e.base = a.base /\ e.size = a.size /\ Stored(file[s], e)
        ELSE \A x \in Span(a) : mem[s][x] = x

\* The answer, and whether an ok was given for an image without all its bytes.
Answer(s) ==
  IF pc[s] \notin Ended THEN "busy" ELSE IF pc[s] = "ok" /\ made[s] = "short" THEN "short" ELSE pc[s]

Promise == INSTANCE Transfer WITH
  todo <- [s \in Task |-> {i \in DOMAIN list[s] : ~Moved(s, i)}],
  result <- [s \in Task |-> Answer(s)]

\* SNAPSHOT and RESTORE do what Transfer promises: they answer ok only when every
\* allocation, found again through the manifest, has its own contents, although
\* blocks are coalesced, claimed by several workers from one index and passed
\* through buffers that other requests use before and after.  One case is excepted,
\* and Transfer says so: SNAPSHOT does not check its writes and answers ok also
\* when the disk did not take all of device.bin or manifest.bin.
ImplementsTransfer == Promise!Spec

\* What SNAPSHOT answered ok for without having written all of it, no RESTORE
\* answers ok for: wherever device.bin or manifest.bin was cut off, RESTORE comes
\* to the end of a file before it has read the last entry.
ShortIsRefused == \A s \in Task : kind[s] = "restore" /\ pc[s] = "ok" => made[s] = "whole"

\* A pinned buffer belongs to one task of one request, from acquire to release; a
\* buffer that nobody has is free, and only a request that failed takes buffers
\* with it.
BuffersAccounted ==
  /\ \A b \in DOMAIN pool : pool[b].free <=> b \notin InUse \cup lost
  /\ InUse \cap lost = {}
  /\ \A s, t \in Task : \A i \in DOMAIN host[s], j \in DOMAIN host[t] :
       host[s][i] = host[t][j] /\ host[s][i] # 0 => s = t /\ i = j

\* Pinned memory does not grow with the number of requests: there are never more
\* buffers of a size than were in use at one time, besides those lost.
PoolBounded ==
  \A n \in {pool[b].cap : b \in DOMAIN pool} :
    Cardinality({b \in DOMAIN pool : pool[b].cap = n}) <= peak + Cardinality(lost)

\* Every request is answered: the workers find the end of the tasks, or the flag,
\* and no request waits for a buffer of another.
TransferEnds == Ready # Task ~> Ready = Task
=============================================================================
