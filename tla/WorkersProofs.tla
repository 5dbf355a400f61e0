---------------------------- MODULE WorkersProofs ----------------------------
(***************************************************************************)
(* Proofs about module Workers: every pinned buffer is accounted for, the  *)
(* pool does not grow with the requests, and what SNAPSHOT and RESTORE     *)
(* answer ok has been moved, for every number of requests, workers and     *)
(* allocations.                                                            *)
(***************************************************************************)
EXTENDS Workers, TLAPS, FiniteSetTheorems

-----------------------------------------------------------------------------
(* Types.                                                                  *)

BlockRec == [base : Nat, size : Nat \ {0}, ctx : Nat, off : Nat, first : Nat, last : Nat]
BufferRec == [cap : Nat, free : BOOLEAN, data : Seq(Nat)]
WorkerRec == [at : {"off", "claim", "take", "copy"}, i : Nat]

ControlType ==
  /\ pc \in [Task -> Ended \cup {"coalesce", "reject", "fill", "join", "drain"}]
  /\ kind \in [Task -> {"snapshot", "restore"}]
  /\ next \in [Task -> Nat \ {0}] /\ pos \in [Task -> Nat \ {0}]
  /\ worker \in [Task -> [Worker -> WorkerRec]]

FailType == fail \in [Task -> BOOLEAN] /\ err \in [Task -> SUBSET Nat]

DataType ==
  /\ list \in [Task -> Seq(Alloc) \cup Seq(Entry)]
  /\ blocks \in [Task -> Seq(BlockRec) \cup Seq(Entry)]
  /\ file \in [Task -> Seq(Nat)] /\ manifest \in [Task -> Seq(Entry)]
  /\ mem \in [Task -> [Addr -> Nat]]

PoolType ==
  /\ pool \in Seq(BufferRec)
  /\ \A b \in 1..Len(pool) : Len(pool[b].data) = pool[b].cap
  /\ host \in [Task -> Seq(Nat)]
  /\ lost \subseteq 1..Len(pool) /\ peak \in Nat

Types == ControlType /\ FailType /\ DataType /\ PoolType

-----------------------------------------------------------------------------
(* The pool and the image.                                                 *)

Has(s, i, b) == i \in DOMAIN host[s] /\ host[s][i] = b /\ b # 0

\* Every buffer is free, or lost, or that of one task of one request.
OwnInv ==
  /\ \A s \in Task, i \in Nat, b \in Nat : Has(s, i, b) => b <= Len(pool) /\ pool[b].free = FALSE /\ b \notin lost
  /\ \A b \in lost : pool[b].free = FALSE
  /\ \A b \in 1..Len(pool) : pool[b].free = FALSE => b \in lost \/ \E s \in Task, i \in Nat : Has(s, i, b)
  /\ \A s, t \in Task, i, j \in Nat, b \in Nat : Has(s, i, b) /\ Has(t, j, b) => s = t /\ i = j

OfCap(n) == {b \in 1..Len(pool) : pool[b].cap = n}

\* The buffers of any one size.
CapInv == \A n \in Nat : Cardinality(OfCap(n)) <= peak + Cardinality(lost)

-----------------------------------------------------------------------------
(* One request.                                                            *)

\* Task i's buffer holds what is at its addresses.
Loaded(s, i) ==
  LET b == blocks[s][i]
      h == host[s][i]
  IN  /\ h # 0 /\ b.size <= pool[h].cap
      /\ \A k \in 1..b.size : pool[h].data[k] = b.base + k - 1

\* The device has what belongs at task i's addresses.
Written(s, i) == \A x \in Span(blocks[s][i]) : mem[s][x] = x

Busy(s, w) == worker[s][w].at \in {"take", "copy"}

\* A worker is at task i.
AtTask(s, i) == \E w \in Worker : Busy(s, w) /\ worker[s][w].i = i

\* Between requests there is nothing, and before the workers run no result.
QuietInv(s) ==
  /\ pc[s] \in Ended =>
       /\ list[s] = <<>> /\ blocks[s] = <<>> /\ host[s] = <<>> /\ pos[s] = 1
       /\ file[s] = <<>>
  /\ pc[s] \in Ended \cup {"coalesce", "fill"} => next[s] = 1 /\ fail[s] = FALSE /\ err[s] = {}
  /\ pc[s] # "drain" => manifest[s] = <<>>
  /\ pc[s] \in {"coalesce", "join"} /\ kind[s] = "snapshot" => file[s] = <<>>
  /\ pc[s] \in Ended \cup {"coalesce", "fill"} => mem[s] = Blank
  /\ pc[s] = "coalesce" => kind[s] = "snapshot" /\ host[s] = <<>>
  /\ pc[s] = "fill" => kind[s] = "restore"
  /\ pc[s] # "join" => \A w \in Worker : worker[s][w].at = "off"

\* What is to be moved.
ListInv(s) ==
  /\ Len(list[s]) <= MaxAllocs
  /\ \A i \in 1..Len(list[s]) : Span(list[s][i]) \subseteq Addr
  /\ kind[s] = "restore" => list[s] \in Seq(Entry) /\ blocks[s] = list[s]
  /\ kind[s] = "snapshot" => list[s] \in Seq(Alloc) /\ blocks[s] \in Seq(BlockRec)

\* How many allocations of the listing have been gone through.
Listed(s) == IF pc[s] = "coalesce" THEN pos[s] - 1 ELSE Len(list[s])

\* The parts of block b, some of the first m of the listing l, are inside it.
Covers(b, l, m) ==
  /\ 1 <= b.first /\ b.first <= b.last /\ b.last <= m
  /\ \A i \in b.first..b.last :
       b.base <= l[i].base /\ l[i].base + l[i].size <= b.base + b.size

\* The blocks bs follow one another in device.bin and in the listing l, of which
\* they take the first m.
Layout(bs, l, m) ==
  /\ m \in 0..Len(l)
  /\ \A j \in 1..Len(bs) : Covers(bs[j], l, m)
  /\ \A j \in 2..Len(bs) :
       bs[j].first = bs[j - 1].last + 1 /\ bs[j].off = bs[j - 1].off + bs[j - 1].size
  /\ Len(bs) > 0 => bs[1].first = 1 /\ bs[1].off = 0 /\ bs[Len(bs)].last = m
  /\ Len(bs) = 0 => m = 0

LayoutInv(s) == kind[s] = "snapshot" => Layout(blocks[s], list[s], Listed(s))

\* Which tasks have a buffer.
HostInv(s) ==
  /\ pc[s] \in {"fill", "join", "drain"} => Len(host[s]) = Len(blocks[s])
  /\ pc[s] = "fill" => \A i \in 1..Len(host[s]) : IF i < pos[s] THEN Loaded(s, i) ELSE host[s][i] = 0
  /\ pc[s] = "fill" =>
       pos[s] <= Len(blocks[s]) + 1 /\ \A i \in 1..Len(blocks[s]) : Readable(file[s], blocks[s][i]) => Stored(file[s], blocks[s][i])
  /\ pc[s] = "join" /\ kind[s] = "restore" => \A i \in 1..Len(host[s]) : Loaded(s, i)
  /\ pc[s] = "join" /\ kind[s] = "snapshot" =>
       \A i \in 1..Len(host[s]) :
         /\ i >= next[s] => host[s][i] = 0
         /\ \A w \in Worker : worker[s][w].at = "take" /\ worker[s][w].i = i => host[s][i] = 0

\* The workers: each claimed task has one, until it has been done or something failed.
WorkInv(s) ==
  /\ \A w \in Worker : Busy(s, w) => 1 <= worker[s][w].i /\ worker[s][w].i < next[s]
  /\ \A w, v \in Worker : Busy(s, w) /\ Busy(s, v) /\ worker[s][w].i = worker[s][v].i => w = v
  /\ \A w \in Worker : worker[s][w].at = "copy" =>
       /\ worker[s][w].i \in 1..Len(host[s])
       /\ host[s][worker[s][w].i] # 0
       /\ blocks[s][worker[s][w].i].size <= pool[host[s][worker[s][w].i]].cap
  /\ pc[s] = "join" => pos[s] = 1
  /\ pc[s] = "join" /\ fail[s] = FALSE =>
       /\ \A i \in 1..Len(host[s]) : i < next[s] =>
            AtTask(s, i) \/ IF kind[s] = "snapshot" THEN Loaded(s, i) ELSE Written(s, i)
       /\ (\E w \in Worker : worker[s][w].at # "off") \/ Len(host[s]) < next[s]
  /\ fail[s] = TRUE => err[s] # {}

\* Of the blocks bs of the listing l, those before p are in the file f and their
\* parts in the manifest es, each of which finds its bytes.
Drained(f, es, bs, l, p) ==
  /\ Len(f) = IF p = 1 THEN 0 ELSE bs[p - 1].off + bs[p - 1].size
  /\ Len(es) = IF p = 1 THEN 0 ELSE bs[p - 1].last
  /\ \A i \in 1..Len(es) : es[i].base = l[i].base /\ es[i].size = l[i].size /\ Stored(f, es[i])

\* What has been written when the request goes through its tasks at the end.
DrainInv(s) ==
  pc[s] = "drain" =>
    /\ pos[s] <= Len(blocks[s]) + 1
    /\ kind[s] = "restore" => \A i \in 1..Len(blocks[s]) : Written(s, i)
    /\ kind[s] = "snapshot" =>
         /\ \A i \in 1..Len(blocks[s]) : i >= pos[s] => Loaded(s, i)
         /\ Drained(file[s], manifest[s], blocks[s], list[s], pos[s])

TaskInv(s) == QuietInv(s) /\ ListInv(s) /\ LayoutInv(s) /\ HostInv(s) /\ WorkInv(s) /\ DrainInv(s)

WorkersInv == Types /\ OwnInv /\ CapInv /\ Sound(image) /\ \A s \in Task : TaskInv(s)

-----------------------------------------------------------------------------
(* A step of one request leaves the others alone.                          *)

\* Nothing of request t changes.
Same(t) ==
  /\ pc'[t] = pc[t] /\ kind'[t] = kind[t] /\ list'[t] = list[t] /\ blocks'[t] = blocks[t]
  /\ host'[t] = host[t] /\ err'[t] = err[t] /\ next'[t] = next[t] /\ fail'[t] = fail[t]
  /\ worker'[t] = worker[t] /\ pos'[t] = pos[t]
  /\ file'[t] = file[t] /\ manifest'[t] = manifest[t] /\ mem'[t] = mem[t]

\* Its buffers keep their contents.
Kept(t) == \A i \in 1..Len(host[t]) : host[t][i] # 0 => pool'[host[t][i]] = pool[host[t][i]]

\* What is said of a request stays true in steps of the others.
LEMMA Frame ==
  ASSUME NEW t \in Task, TaskInv(t), Same(t), Kept(t)
  PROVE  TaskInv(t)'
<1> USE DEF TaskInv, Same
<1>1. QuietInv(t)'
  BY DEF QuietInv
<1>2. ListInv(t)'
  BY DEF ListInv
<1>3. LayoutInv(t)'
  BY DEF LayoutInv, Listed
<1>4. ASSUME NEW i \in 1..Len(host[t])
      PROVE  Loaded(t, i)' <=> Loaded(t, i)
  BY SMTT(60) DEF Loaded, Kept
<1>5. ASSUME NEW i PROVE Written(t, i)' <=> Written(t, i)
  BY DEF Written
<1>6. HostInv(t)'
  BY <1>4 DEF HostInv
<1>7. WorkInv(t)'
  <2>1. \A w \in Worker : worker[t][w].at = "copy" =>
          pool'[host[t][worker[t][w].i]] = pool[host[t][worker[t][w].i]]
    BY DEF WorkInv, Kept
  <2>2. \A i : AtTask(t, i)' <=> AtTask(t, i)
    BY DEF AtTask, Busy
  <2> QED
    BY <1>4, <1>5, <2>1, <2>2, SMTT(60) DEF WorkInv, Busy
<1>8. DrainInv(t)'
  BY <1>4, <1>5 DEF DrainInv, HostInv
<1> QED
  BY <1>1, <1>2, <1>3, <1>6, <1>7, <1>8

-----------------------------------------------------------------------------
(* The pool.                                                               *)

\* A function on 1..m is a sequence of length m.
LEMMA SeqOfFunction ==
  ASSUME NEW S, NEW m \in Nat, NEW f \in [1..m -> S]
  PROVE  f \in Seq(S) /\ Len(f) = m /\ DOMAIN f = 1..m
OBVIOUS

\* Append adds one element and moves none.
LEMMA AppendFacts ==
  ASSUME NEW S, NEW q \in Seq(S), NEW e \in S
  PROVE  /\ Append(q, e) \in Seq(S) /\ Len(Append(q, e)) = Len(q) + 1
         /\ \A i \in 1..Len(q) : Append(q, e)[i] = q[i]
         /\ Append(q, e)[Len(q) + 1] = e
OBVIOUS

\* Filled changes the contents only.
LEMMA FilledFacts ==
  ASSUME NEW x \in BufferRec, Len(x.data) = x.cap, NEW m \in Nat, NEW c \in [1..m -> Nat]
  PROVE  /\ Filled(x, c) \in BufferRec
         /\ Filled(x, c).cap = x.cap /\ Filled(x, c).free = x.free
         /\ Len(Filled(x, c).data) = x.cap
         /\ m <= x.cap => \A k \in 1..m : Filled(x, c).data[k] = c[k]
<1> DEFINE d == [k \in DOMAIN x.data |-> IF k \in DOMAIN c THEN c[k] ELSE x.data[k]]
<1>1. x.data \in Seq(Nat) /\ DOMAIN x.data = 1..x.cap /\ x.cap \in Nat
  BY DEF BufferRec
<1>2. d \in Seq(Nat) /\ Len(d) = x.cap
  <2>1. \A k \in 1..x.cap : x.data[k] \in Nat
    BY <1>1
  <2>2. d \in [1..x.cap -> Nat]
    BY <1>1, <2>1
  <2> HIDE DEF d
  <2> QED
    BY <1>1, <2>2, SeqOfFunction
<1>3. Filled(x, c) = [x EXCEPT !.data = d]
  BY DEF Filled
<1>4. \A k \in 1..m : m <= x.cap => d[k] = c[k]
  BY <1>1
<1> HIDE DEF d
<1> QED
  BY <1>2, <1>3, <1>4 DEF BufferRec

\* A new pinned buffer.
LEMMA BufferFacts ==
  ASSUME NEW n \in Nat
  PROVE  /\ Buffer(n) \in BufferRec /\ Buffer(n).cap = n /\ Buffer(n).free = FALSE
         /\ Len(Buffer(n).data) = n
<1> DEFINE d == [k \in 1..n |-> 0]
<1>1. d \in Seq(Nat) /\ Len(d) = n
  OBVIOUS
<1> HIDE DEF d
<1> QED
  BY <1>1 DEF Buffer, BufferRec, d

\* Buffer b was free or is new, now has n cells at least, with c in the first of
\* them, and no other buffer has changed.
Gives(n, b, m, c) ==
  /\ pool' \in Seq(BufferRec) /\ Len(pool) <= Len(pool') /\ b <= Len(pool')
  /\ \A x \in 1..Len(pool') : Len(pool'[x].data) = pool'[x].cap
  /\ \A x \in 1..Len(pool') : x # b => x <= Len(pool) /\ pool'[x] = pool[x]
  /\ b <= Len(pool) => pool[b].free = TRUE /\ pool'[b].cap = pool[b].cap
  /\ pool'[b].free = FALSE /\ n <= pool'[b].cap
  /\ \A k \in 1..m : pool'[b].data[k] = c[k]

\* acquire gives a buffer that was free or is new, large enough, and leaves the others alone.
LEMMA AcquireFacts ==
  ASSUME PoolType, NEW n \in Nat, NEW b \in 1..(Len(pool) + 1), NEW m \in Nat,
         NEW c \in [1..m -> Nat], m <= n, Acquire(n, b, c)
  PROVE  Gives(n, b, m, c)
<1> USE DEF Gives
<1>0. pool \in Seq(BufferRec) /\ \A x \in 1..Len(pool) : pool[x] \in BufferRec /\ Len(pool[x].data) = pool[x].cap
  BY DEF PoolType
<1>1. CASE Fits(n) # {}
  <2>1. b \in DOMAIN pool /\ pool[b].free /\ pool[b].cap >= n
    BY <1>1 DEF Acquire, First, Fits
  <2>2. b \in 1..Len(pool) /\ pool[b] \in BufferRec
    BY <1>0, <2>1
  <2>3. pool[b].free = TRUE
    BY <2>1, <2>2, Zenon DEF BufferRec
  <2> DEFINE x0 == [pool[b] EXCEPT !.free = FALSE]
  <2>4. x0 \in BufferRec /\ x0.cap = pool[b].cap /\ x0.free = FALSE /\ Len(x0.data) = x0.cap
    BY <1>0, <2>2 DEF BufferRec
  <2> HIDE DEF x0
  <2> DEFINE y == Filled(x0, c)
  <2>5. pool' = [pool EXCEPT ![b] = y]
    BY <1>1 DEF Acquire, x0
  <2>6. pool[b].cap \in Nat /\ n <= pool[b].cap
    BY <2>1, <2>2 DEF BufferRec
  <2>7. /\ y \in BufferRec /\ y.cap = pool[b].cap /\ y.free = FALSE /\ Len(y.data) = y.cap
        /\ \A k \in 1..m : y.data[k] = c[k]
    <3>1. m <= x0.cap
      BY <2>4, <2>6
    <3> QED
      BY <2>4, <3>1, FilledFacts
  <2> HIDE DEF y
  <2>8. pool' \in Seq(BufferRec) /\ Len(pool') = Len(pool) /\ pool'[b] = y
        /\ \A x \in 1..Len(pool) : x # b => pool'[x] = pool[x]
    BY <1>0, <2>2, <2>5, <2>7
  <2>9. \A x \in 1..Len(pool') : Len(pool'[x].data) = pool'[x].cap
    BY <1>0, <2>7, <2>8
  <2>10. ASSUME NEW x \in 1..Len(pool'), x # b
         PROVE  x <= Len(pool) /\ pool'[x] = pool[x]
    <3>1. Len(pool) \in Nat
      BY <1>0
    <3>2. Len(pool') = Len(pool)
      BY <2>8
    <3>3. x \in 1..Len(pool) /\ x <= Len(pool)
      BY <3>1, <3>2
    <3>4. \A z \in 1..Len(pool) : z # b => pool'[z] = pool[z]
      BY <2>8
    <3> QED
      BY <2>10, <3>3, <3>4
  <2>11. Len(pool) <= Len(pool') /\ b <= Len(pool') /\ n <= pool'[b].cap
    BY <2>2, <2>6, <2>7, <2>8
  <2> QED
    BY <2>3, <2>7, <2>8, <2>9, <2>10, <2>11
<1>2. CASE Fits(n) = {}
  <2> DEFINE y == Filled(Buffer(n), c)
  <2>1. b = Len(pool) + 1 /\ pool' = Append(pool, y)
    BY <1>2 DEF Acquire
  <2>2. /\ y \in BufferRec /\ y.cap = n /\ y.free = FALSE /\ Len(y.data) = y.cap
        /\ \A k \in 1..m : y.data[k] = c[k]
    <3>1. Buffer(n) \in BufferRec /\ Buffer(n).cap = n /\ Buffer(n).free = FALSE /\ Len(Buffer(n).data) = n
      BY BufferFacts
    <3> QED
      BY <3>1, FilledFacts
  <2> HIDE DEF y
  <2>3. pool' \in Seq(BufferRec) /\ Len(pool') = Len(pool) + 1 /\ pool'[b] = y
        /\ \A x \in 1..Len(pool) : pool'[x] = pool[x]
    BY <1>0, <2>1, <2>2
  <2> QED
    BY <1>0, <2>1, <2>2, <2>3
<1> QED
  BY <1>1, <1>2

\* The buffers in use are those that some task has.
LEMMA InUseFacts ==
  ASSUME PoolType
  PROVE  \A b : b \in InUse <=> \E s \in Task, i \in Nat : Has(s, i, b)
<1>1. \A s \in Task : DOMAIN host[s] \subseteq Nat
  BY DEF PoolType
<1> QED
  BY <1>1 DEF InUse, Held, Has

\* The buffers in use and the lost ones are finitely many.
LEMMA FiniteFacts ==
  ASSUME PoolType, OwnInv
  PROVE  /\ InUse \subseteq 1..Len(pool) /\ IsFiniteSet(InUse) /\ IsFiniteSet(lost)
         /\ Cardinality(lost) \in Nat
         /\ \A n : IsFiniteSet(OfCap(n)) /\ Cardinality(OfCap(n)) \in Nat
<1>1. Len(pool) \in Nat /\ lost \subseteq 1..Len(pool) /\ host \in [Task -> Seq(Nat)]
  BY DEF PoolType
<1>2. InUse \subseteq 1..Len(pool)
  <2> SUFFICES ASSUME NEW b \in InUse PROVE b \in 1..Len(pool)
    OBVIOUS
  <2>1. PICK s \in Task, i \in Nat : Has(s, i, b)
    BY InUseFacts
  <2>2. b \in Nat /\ b # 0
    BY <1>1, <2>1 DEF Has
  <2> QED
    BY <1>1, <2>1, <2>2 DEF OwnInv
<1>3. IsFiniteSet(1..Len(pool))
  BY <1>1, FS_Interval
<1>4. \A n : OfCap(n) \subseteq 1..Len(pool)
  BY DEF OfCap
<1> QED
  BY <1>1, <1>2, <1>3, <1>4, FS_Subset, FS_CardinalityType

\* A new buffer of a size is made only when all of that size are in use or lost.
LEMMA AcquireBounded ==
  ASSUME PoolType, OwnInv, CapInv, NEW n \in Nat, NEW b \in 1..(Len(pool) + 1), NEW m \in Nat,
         NEW c \in [1..m -> Nat], m <= n, Acquire(n, b, c)
  PROVE  /\ peak' \in Nat /\ peak <= peak'
         /\ \A k \in Nat : Cardinality(OfCap(k)') <= peak' + Cardinality(lost)
<1> DEFINE used == InUse \cup {b}
<1>1. IsFiniteSet(used) /\ Cardinality(used) \in Nat
  BY FiniteFacts, FS_AddElement, FS_CardinalityType
<1>2. peak' \in Nat /\ peak <= peak' /\ Cardinality(used) <= peak'
  BY <1>1 DEF Acquire, Larger, PoolType
<1>3. /\ pool' \in Seq(BufferRec) /\ Len(pool) <= Len(pool') /\ b <= Len(pool')
      /\ \A x \in 1..Len(pool') : x # b => x <= Len(pool) /\ pool'[x] = pool[x]
      /\ b <= Len(pool) => pool'[b].cap = pool[b].cap
  <2>1. Gives(n, b, m, c)
    BY AcquireFacts
  <2> QED
    BY <2>1 DEF Gives
<1>4. Len(pool) \in Nat /\ Len(pool') \in Nat
  BY <1>3 DEF PoolType
<1>5. SUFFICES ASSUME NEW k \in Nat PROVE Cardinality(OfCap(k)') <= peak' + Cardinality(lost)
  BY <1>2
<1>6. CASE OfCap(k)' = OfCap(k)
  <2>1. Cardinality(OfCap(k)) <= peak + Cardinality(lost)
    BY DEF CapInv
  <2>2. Cardinality(OfCap(k)) \in Nat /\ Cardinality(lost) \in Nat /\ peak \in Nat
    BY FiniteFacts DEF PoolType
  <2> QED
    BY <1>2, <1>6, <2>1, <2>2
<1>7. CASE OfCap(k)' # OfCap(k)
  <2>1. b = Len(pool) + 1
    <3> SUFFICES ASSUME b # Len(pool) + 1 PROVE FALSE
      OBVIOUS
    <3>1. b \in 1..Len(pool) /\ Len(pool') = Len(pool)
      <4>1. Len(pool') # Len(pool) => Len(pool') \in 1..Len(pool') /\ Len(pool') # b /\ ~(Len(pool') <= Len(pool))
        BY <1>3, <1>4
      <4> QED
        BY <1>3, <1>4, <4>1
    <3>2. \A x \in 1..Len(pool) : pool'[x].cap = pool[x].cap
      BY <1>3, <3>1
    <3> QED
      BY <1>7, <3>1, <3>2 DEF OfCap
  <2>2. Fits(n) = {} /\ pool' = Append(pool, Filled(Buffer(n), c))
    <3>1. \A x \in Fits(n) : x <= Len(pool)
      BY <1>4 DEF Fits, PoolType
    <3> QED
      BY <1>4, <2>1, <3>1 DEF Acquire, First
  <2>3. Filled(Buffer(n), c) \in BufferRec /\ Filled(Buffer(n), c).cap = n
    <3>1. Buffer(n) \in BufferRec /\ Buffer(n).cap = n /\ Len(Buffer(n).data) = n
      BY BufferFacts
    <3> QED
      BY <3>1, FilledFacts
  <2>4. Len(pool') = Len(pool) + 1 /\ pool'[b].cap = n
        /\ \A x \in 1..Len(pool) : pool'[x] = pool[x]
    BY <2>1, <2>2, <2>3, AppendFacts DEF PoolType
  <2>5. OfCap(k)' \subseteq OfCap(k) \cup {b} /\ (k # n => OfCap(k)' \subseteq OfCap(k))
        /\ OfCap(k) \subseteq OfCap(k)'
    <3>1. OfCap(k)' = {x \in 1..(Len(pool) + 1) : pool'[x].cap = k}
      BY <2>4 DEF OfCap
    <3>2. \A x \in 1..(Len(pool) + 1) : x # b => x \in 1..Len(pool) /\ pool'[x].cap = pool[x].cap
      BY <1>4, <2>1, <2>4
    <3>3. \A x \in 1..Len(pool) : x \in 1..(Len(pool) + 1) /\ x # b
      BY <1>4, <2>1
    <3> QED
      BY <2>4, <3>1, <3>2, <3>3 DEF OfCap
  <2>6. k = n
    BY <1>7, <2>5
  <2>7. OfCap(n) \subseteq InUse \cup lost
    <3> SUFFICES ASSUME NEW x \in OfCap(n) PROVE x \in InUse \cup lost
      OBVIOUS
    <3>1. x \in 1..Len(pool) /\ pool[x] \in BufferRec /\ pool[x].cap = n
      BY DEF OfCap, PoolType
    <3>2. ~pool[x].free
      BY <2>2, <3>1 DEF Fits, PoolType
    <3>3. pool[x].free = FALSE
      BY <3>1, <3>2, Zenon DEF BufferRec
    <3> QED
      BY <3>1, <3>3, InUseFacts DEF OwnInv
  <2>8. OfCap(k)' \subseteq used \cup lost
    BY <2>5, <2>6, <2>7
  <2>9. IsFiniteSet(lost) /\ Cardinality(lost) \in Nat
    BY FiniteFacts
  <2>10. IsFiniteSet(used \cup lost) /\ Cardinality(used \cup lost) <= Cardinality(used) + Cardinality(lost)
    <3> HIDE DEF used
    <3>1. /\ IsFiniteSet(used \cup lost) /\ IsFiniteSet(used \cap lost)
          /\ Cardinality(used \cup lost) = Cardinality(used) + Cardinality(lost) - Cardinality(used \cap lost)
      BY <1>1, <2>9, FS_Union, FS_Intersection
    <3>2. Cardinality(used \cap lost) \in Nat /\ Cardinality(used \cup lost) \in Nat
      BY <3>1, FS_CardinalityType
    <3> QED
      BY <1>1, <2>9, <3>1, <3>2
  <2>11. Cardinality(OfCap(k)') <= Cardinality(used \cup lost)
    BY <2>8, <2>10, FS_Subset
  <2>12. Cardinality(OfCap(k)') \in Nat /\ Cardinality(used \cup lost) \in Nat
    BY <2>8, <2>10, FS_Subset, FS_CardinalityType
  <2> QED
    BY <1>1, <1>2, <2>9, <2>10, <2>11, <2>12
<1> QED
  BY <1>6, <1>7

-----------------------------------------------------------------------------
(* Who has which buffer.                                                   *)

\* A task has only buffers of the pool.
LEMMA HasType ==
  ASSUME PoolType, OwnInv, NEW s \in Task, NEW i \in Nat, NEW b, Has(s, i, b)
  PROVE  b \in 1..Len(pool) /\ i \in 1..Len(host[s])
<1>1. host[s] \in Seq(Nat)
  BY DEF PoolType
<1>2. i \in 1..Len(host[s]) /\ b \in Nat /\ b # 0
  BY <1>1 DEF Has
<1> QED
  BY <1>2 DEF OwnInv, PoolType

\* What acquire gives nobody had.
LEMMA GivesUnused ==
  ASSUME PoolType, OwnInv, NEW b \in 1..(Len(pool) + 1), NEW n, NEW m, NEW c, Gives(n, b, m, c)
  PROVE  b \notin lost /\ \A s \in Task, i \in Nat : ~Has(s, i, b)
<1>1. b \in lost => b \in 1..Len(pool) /\ pool[b].free = FALSE
  BY DEF PoolType, OwnInv
<1>2. \A s \in Task, i \in Nat : Has(s, i, b) => b \in 1..Len(pool) /\ pool[b].free = FALSE
  BY HasType DEF OwnInv
<1> QED
  BY <1>1, <1>2 DEF Gives, PoolType

\* Ownership in a step that neither acquires nor releases.
LEMMA OwnKeep ==
  ASSUME PoolType, OwnInv, lost' = lost, Len(pool') = Len(pool),
         \A b \in 1..Len(pool) : pool'[b].free = pool[b].free,
         \A s \in Task, i \in Nat : \A b : Has(s, i, b)' <=> Has(s, i, b)
  PROVE  OwnInv'
<1>1. lost \subseteq 1..Len(pool) /\ Len(pool) \in Nat
  BY DEF PoolType
<1>2. \A s \in Task, i \in Nat, b \in Nat : Has(s, i, b)' => b <= Len(pool') /\ pool'[b].free = FALSE /\ b \notin lost'
  <2> SUFFICES ASSUME NEW s \in Task, NEW i \in Nat, NEW b \in Nat, Has(s, i, b)'
               PROVE  b <= Len(pool') /\ pool'[b].free = FALSE /\ b \notin lost'
    OBVIOUS
  <2>1. Has(s, i, b)
    OBVIOUS
  <2>2. b \in 1..Len(pool)
    BY <2>1, HasType
  <2> QED
    BY <1>1, <2>1, <2>2 DEF OwnInv
<1>3. \A b \in lost' : pool'[b].free = FALSE
  BY <1>1 DEF OwnInv
<1>4. \A b \in 1..Len(pool') : pool'[b].free = FALSE => b \in lost' \/ \E s \in Task, i \in Nat : Has(s, i, b)'
  BY DEF OwnInv
<1>5. \A s, t \in Task, i, j \in Nat, b \in Nat : Has(s, i, b)' /\ Has(t, j, b)' => s = t /\ i = j
  BY DEF OwnInv
<1> QED
  BY <1>2, <1>3, <1>4, <1>5 DEF OwnInv

\* Ownership in a step in which a task acquires a buffer.
LEMMA OwnAcquire ==
  ASSUME PoolType, OwnInv, NEW s \in Task, NEW i \in 1..Len(host[s]), host[s][i] = 0,
         NEW b \in 1..(Len(pool) + 1), NEW n, NEW m, NEW c, Gives(n, b, m, c),
         host' = [host EXCEPT ![s][i] = b], lost' = lost
  PROVE  OwnInv'
<1>0. lost \subseteq 1..Len(pool) /\ Len(pool) \in Nat /\ host \in [Task -> Seq(Nat)] /\ i \in Nat /\ b # 0
  BY DEF PoolType
<1>1. b \notin lost /\ \A t \in Task, j \in Nat : ~Has(t, j, b)
  BY GivesUnused
<1>2. ASSUME NEW t \in Task, NEW j \in Nat, NEW x
      PROVE  Has(t, j, x)' <=> Has(t, j, x) \/ (t = s /\ j = i /\ x = b)
  BY <1>0, SMTT(60) DEF Has
<1>3. \A t \in Task, j \in Nat, x \in Nat :
        Has(t, j, x)' => x <= Len(pool') /\ pool'[x].free = FALSE /\ x \notin lost
  <2> SUFFICES ASSUME NEW t \in Task, NEW j \in Nat, NEW x \in Nat, Has(t, j, x)'
               PROVE  x <= Len(pool') /\ pool'[x].free = FALSE /\ x \notin lost
    OBVIOUS
  <2>1. CASE x = b
    BY <1>1, <2>1 DEF Gives
  <2>2. CASE x # b
    <3>1. Has(t, j, x)
      BY <1>2, <2>2
    <3>2. x \in 1..Len(pool) /\ pool[x].free = FALSE /\ x \notin lost
      BY <3>1, HasType DEF OwnInv
    <3>3. x \in 1..Len(pool')
      BY <1>0, <3>2 DEF Gives
    <3> QED
      BY <2>2, <3>2, <3>3 DEF Gives
  <2> QED
    BY <2>1, <2>2
<1>4. \A x \in lost : pool'[x].free = FALSE
  <2> SUFFICES ASSUME NEW x \in lost PROVE pool'[x].free = FALSE
    OBVIOUS
  <2>1. x # b /\ x \in 1..Len(pool) /\ x \in 1..Len(pool') /\ pool[x].free = FALSE
    BY <1>0, <1>1 DEF Gives, OwnInv
  <2> QED
    BY <2>1 DEF Gives
<1>5. \A x \in 1..Len(pool') : pool'[x].free = FALSE => x \in lost \/ \E t \in Task, j \in Nat : Has(t, j, x)'
  <2> SUFFICES ASSUME NEW x \in 1..Len(pool'), pool'[x].free = FALSE
               PROVE  x \in lost \/ \E t \in Task, j \in Nat : Has(t, j, x)'
    OBVIOUS
  <2>1. CASE x = b
    BY <1>0, <1>2, <2>1
  <2>2. CASE x # b
    <3>1. x \in 1..Len(pool) /\ pool[x].free = FALSE
      BY <2>2 DEF Gives
    <3> QED
      BY <1>2, <3>1 DEF OwnInv
  <2> QED
    BY <2>1, <2>2
<1>6. \A t, u \in Task, j, k \in Nat, x \in Nat : Has(t, j, x)' /\ Has(u, k, x)' => t = u /\ j = k
  BY <1>1, <1>2 DEF OwnInv
<1> QED
  BY <1>3, <1>4, <1>5, <1>6 DEF OwnInv

\* Ownership in a step in which a task releases its buffer.
LEMMA OwnRelease ==
  ASSUME PoolType, OwnInv, NEW s \in Task, NEW i \in 1..Len(host[s]),
         pool' = Release(host[s][i]), host' = [host EXCEPT ![s][i] = 0], lost' = lost
  PROVE  /\ OwnInv'
         /\ pool' \in Seq(BufferRec) /\ Len(pool') = Len(pool)
         /\ \A x \in 1..Len(pool) : Len(pool'[x].data) = pool'[x].cap /\ pool'[x].cap = pool[x].cap
         /\ \A x \in 1..Len(pool) : x # host[s][i] => pool'[x] = pool[x]
<1> DEFINE h == host[s][i]
<1>0. lost \subseteq 1..Len(pool) /\ Len(pool) \in Nat /\ host \in [Task -> Seq(Nat)] /\ i \in Nat
      /\ pool \in Seq(BufferRec)
  BY DEF PoolType
<1>1. ASSUME NEW t \in Task, NEW j \in Nat, NEW x
      PROVE  Has(t, j, x)' <=> Has(t, j, x) /\ ~(t = s /\ j = i)
  BY <1>0 DEF Has
<1>2. CASE h = 0
  <2>1. pool' = pool
    BY <1>2 DEF Release
  <2>2. \A t \in Task, j \in Nat : \A x : Has(t, j, x)' <=> Has(t, j, x)
    BY <1>1, <1>2 DEF Has
  <2> QED
    BY <1>0, <2>1, <2>2, OwnKeep DEF PoolType
<1>3. CASE h # 0
  <2>1. Has(s, i, h)
    BY <1>0, <1>3 DEF Has
  <2>2. h \in 1..Len(pool)
    BY <1>0, <2>1, HasType
  <2> HIDE DEF h
  <2> DEFINE y == [Buffer(pool[h].cap) EXCEPT !.free = TRUE]
  <2>3. pool[h] \in BufferRec /\ pool[h].cap \in Nat
    <3>1. pool[h] \in BufferRec
      BY <1>0, <2>2
    <3> QED
      BY <3>1 DEF BufferRec
  <2>4. y \in BufferRec /\ y.cap = pool[h].cap /\ y.free = TRUE /\ Len(y.data) = y.cap
    <3>1. /\ Buffer(pool[h].cap) \in BufferRec /\ Buffer(pool[h].cap).cap = pool[h].cap
          /\ Len(Buffer(pool[h].cap).data) = pool[h].cap
      BY <2>3, BufferFacts
    <3> QED
      BY <3>1 DEF BufferRec
  <2>5. pool' = [pool EXCEPT ![h] = y]
    BY <1>3 DEF Release, h
  <2> HIDE DEF y
  <2>6. pool' \in Seq(BufferRec) /\ Len(pool') = Len(pool) /\ pool'[h] = y
        /\ \A x \in 1..Len(pool) : x # h => pool'[x] = pool[x]
    BY <1>0, <2>2, <2>4, <2>5
  <2>7. \A x \in 1..Len(pool) : Len(pool'[x].data) = pool'[x].cap /\ pool'[x].cap = pool[x].cap
    BY <2>4, <2>6 DEF PoolType
  <2>8. h \notin lost /\ h \in Nat /\ \A t \in Task, j \in Nat : Has(t, j, h) => t = s /\ j = i
    BY <1>0, <2>1, <2>2 DEF OwnInv
  <2>9. \A t \in Task, j \in Nat, x \in Nat :
          Has(t, j, x)' => x <= Len(pool') /\ pool'[x].free = FALSE /\ x \notin lost
    <3> SUFFICES ASSUME NEW t \in Task, NEW j \in Nat, NEW x \in Nat, Has(t, j, x)'
                 PROVE  x <= Len(pool') /\ pool'[x].free = FALSE /\ x \notin lost
      OBVIOUS
    <3>1. Has(t, j, x) /\ ~(t = s /\ j = i)
      BY <1>1
    <3>3. x # h
      BY <2>8, <3>1
    <3>2. x \in 1..Len(pool) /\ pool[x].free = FALSE /\ x \notin lost
      BY <3>1, HasType DEF OwnInv
    <3> QED
      BY <1>0, <2>6, <3>2, <3>3
  <2>10. \A x \in lost : pool'[x].free = FALSE
    BY <1>0, <2>6, <2>8 DEF OwnInv
  <2>11. \A x \in 1..Len(pool') : pool'[x].free = FALSE => x \in lost \/ \E t \in Task, j \in Nat : Has(t, j, x)'
    <3> SUFFICES ASSUME NEW x \in 1..Len(pool'), pool'[x].free = FALSE, x \notin lost
                 PROVE  \E t \in Task, j \in Nat : Has(t, j, x)'
      OBVIOUS
    <3>1. x # h /\ pool[x].free = FALSE
      BY <2>4, <2>6
    <3>2. PICK t \in Task, j \in Nat : Has(t, j, x)
      BY <2>6, <3>1 DEF OwnInv
    <3>3. ~(t = s /\ j = i)
      BY <2>1, <3>1, <3>2 DEF Has
    <3> QED
      BY <1>1, <3>2, <3>3
  <2>12. \A t, u \in Task, j, k \in Nat, x \in Nat : Has(t, j, x)' /\ Has(u, k, x)' => t = u /\ j = k
    BY <1>1 DEF OwnInv
  <2> QED
    BY <2>6, <2>7, <2>9, <2>10, <2>11, <2>12 DEF OwnInv, h
<1> QED
  BY <1>2, <1>3

\* The buffers of a request are those its tasks have.
LEMMA HeldFacts ==
  ASSUME PoolType, OwnInv, NEW s \in Task
  PROVE  /\ \A b : b \in Held(s) <=> \E i \in Nat : Has(s, i, b)
         /\ Held(s) \subseteq 1..Len(pool)
<1>1. DOMAIN host[s] \subseteq Nat
  BY DEF PoolType
<1>2. \A b : b \in Held(s) <=> \E i \in Nat : Has(s, i, b)
  BY <1>1 DEF Held, Has
<1> QED
  BY <1>2, HasType

\* A request ends; what it had, and more if it had more, is lost.
LEMMA OwnReturn ==
  ASSUME PoolType, OwnInv, NEW s \in Task, NEW more \in SUBSET Nat,
         host' = [host EXCEPT ![s] = <<>>], lost' = lost \cup (Held(s) \cup more),
         pool' \in Seq(BufferRec), Len(pool) <= Len(pool'), more \subseteq 1..Len(pool'),
         \A b \in more : pool'[b].free = FALSE,
         \A b \in 1..Len(pool') : b \notin more => b <= Len(pool) /\ pool'[b].free = pool[b].free,
         \A b \in more, t \in Task, i \in Nat : ~Has(t, i, b)
  PROVE  OwnInv' /\ lost' \subseteq 1..Len(pool') /\ lost \subseteq lost'
<1>0. lost \subseteq 1..Len(pool) /\ Len(pool) \in Nat /\ Len(pool') \in Nat /\ host \in [Task -> Seq(Nat)]
  BY DEF PoolType
<1>1. ASSUME NEW t \in Task, NEW i \in Nat, NEW b
      PROVE  Has(t, i, b)' <=> Has(t, i, b) /\ t # s
  BY <1>0 DEF Has
<1>2. lost' \subseteq 1..Len(pool')
  <2>1. Held(s) \subseteq 1..Len(pool)
    BY HeldFacts
  <2>2. 1..Len(pool) \subseteq 1..Len(pool')
    BY <1>0
  <2> QED
    BY <1>0, <2>1, <2>2
<1>3. \A t \in Task, i \in Nat, b \in Nat :
        Has(t, i, b)' => b <= Len(pool') /\ pool'[b].free = FALSE /\ b \notin lost'
  <2> SUFFICES ASSUME NEW t \in Task, NEW i \in Nat, NEW b \in Nat, Has(t, i, b)'
               PROVE  b <= Len(pool') /\ pool'[b].free = FALSE /\ b \notin lost'
    OBVIOUS
  <2>1. Has(t, i, b) /\ t # s
    BY <1>1
  <2>2. b \in 1..Len(pool) /\ pool[b].free = FALSE /\ b \notin lost
    BY <2>1, HasType DEF OwnInv
  <2>3. b \notin Held(s)
    BY <2>1, HeldFacts DEF OwnInv
  <2>4. b \notin more
    BY <2>1
  <2> QED
    BY <1>0, <2>2, <2>3, <2>4
<1>4. \A b \in lost' : pool'[b].free = FALSE
  <2> SUFFICES ASSUME NEW b \in lost', b \notin more PROVE pool'[b].free = FALSE
    OBVIOUS
  <2>1. b \in 1..Len(pool) /\ pool[b].free = FALSE
    <3>1. CASE b \in lost
      BY <1>0, <3>1 DEF OwnInv
    <3>2. CASE b \in Held(s)
      <4>1. PICK i \in Nat : Has(s, i, b)
        BY <3>2, HeldFacts
      <4>2. b \in 1..Len(pool)
        BY <4>1, HasType
      <4> QED
        BY <4>1, <4>2 DEF OwnInv
    <3> QED
      BY <3>1, <3>2
  <2> QED
    BY <1>0, <2>1
<1>5. \A b \in 1..Len(pool') : pool'[b].free = FALSE => b \in lost' \/ \E t \in Task, i \in Nat : Has(t, i, b)'
  <2> SUFFICES ASSUME NEW b \in 1..Len(pool'), pool'[b].free = FALSE, b \notin lost'
               PROVE  \E t \in Task, i \in Nat : Has(t, i, b)'
    OBVIOUS
  <2>1. b \in 1..Len(pool) /\ pool[b].free = FALSE /\ b \notin lost /\ b \notin Held(s)
    BY <1>0
  <2>2. PICK t \in Task, i \in Nat : Has(t, i, b)
    BY <2>1 DEF OwnInv
  <2>3. t # s
    BY <2>1, <2>2, HeldFacts
  <2> QED
    BY <1>1, <2>2, <2>3
<1>6. \A t, u \in Task, i, j \in Nat, b \in Nat : Has(t, i, b)' /\ Has(u, j, b)' => t = u /\ i = j
  BY <1>1 DEF OwnInv
<1> QED
  BY <1>2, <1>3, <1>4, <1>5, <1>6 DEF OwnInv

\* The bound on the buffers of a size stays when no buffer comes.
LEMMA CapKeep ==
  ASSUME PoolType, OwnInv, CapInv, Len(pool') = Len(pool),
         \A b \in 1..Len(pool) : pool'[b].cap = pool[b].cap,
         peak' = peak, lost \subseteq lost', lost' \subseteq 1..Len(pool)
  PROVE  CapInv'
<1> SUFFICES ASSUME NEW n \in Nat PROVE Cardinality(OfCap(n)') <= peak' + Cardinality(lost')
  BY DEF CapInv
<1>1. OfCap(n)' = OfCap(n)
  BY DEF OfCap
<1>2. IsFiniteSet(lost')
  <2>1. Len(pool) \in Nat
    BY DEF PoolType
  <2>2. IsFiniteSet(1..Len(pool))
    BY <2>1, FS_Interval
  <2> QED
    BY <2>2, FS_Subset
<1>3. Cardinality(lost) <= Cardinality(lost') /\ Cardinality(lost) \in Nat /\ Cardinality(lost') \in Nat
  BY <1>2, FiniteFacts, FS_Subset, FS_CardinalityType
<1>4. Cardinality(OfCap(n)) <= peak + Cardinality(lost) /\ Cardinality(OfCap(n)) \in Nat /\ peak \in Nat
  BY FiniteFacts DEF CapInv, PoolType
<1> QED
  BY <1>1, <1>3, <1>4

-----------------------------------------------------------------------------
(* The first state, and the end of a request.                              *)

\* A request that has ended, or none.
Blanked(s) ==
  /\ pc[s] \in Ended /\ list[s] = <<>> /\ blocks[s] = <<>> /\ host[s] = <<>> /\ err[s] = {}
  /\ next[s] = 1 /\ fail[s] = FALSE /\ pos[s] = 1
  /\ file[s] = <<>> /\ manifest[s] = <<>> /\ mem[s] = Blank
  /\ \A w \in Worker : worker[s][w].at = "off"

\* Nothing needs to be said of a request that has not begun.
LEMMA BlankedInv == ASSUME NEW s \in Task, Blanked(s) PROVE TaskInv(s)
<1> USE WorkersAssumption DEF Blanked, Ended
<1>1. QuietInv(s)
  BY DEF QuietInv
<1>2. ListInv(s)
  BY DEF ListInv
<1>3. LayoutInv(s)
  BY DEF LayoutInv, Layout, Listed
<1>4. HostInv(s) /\ DrainInv(s)
  BY DEF HostInv, DrainInv
<1>5. WorkInv(s)
  BY DEF WorkInv, Busy
<1> QED
  BY <1>1, <1>2, <1>3, <1>4, <1>5 DEF TaskInv

\* The same of the next state.
LEMMA BlankedNext == ASSUME NEW s \in Task, Blanked(s)' PROVE TaskInv(s)'
<1> USE WorkersAssumption DEF Blanked, Ended
<1>1. QuietInv(s)'
  BY DEF QuietInv
<1>2. ListInv(s)'
  BY DEF ListInv
<1>3. LayoutInv(s)'
  BY DEF LayoutInv, Layout, Listed
<1>4. HostInv(s)' /\ DrainInv(s)'
  BY DEF HostInv, DrainInv
<1>5. WorkInv(s)'
  BY DEF WorkInv, Busy
<1> QED
  BY <1>1, <1>2, <1>3, <1>4, <1>5 DEF TaskInv

\* Memory in which nothing has been written.
LEMMA BlankType == Blank \in [Addr -> Nat]
BY DEF Blank

\* The invariant holds at first.
LEMMA WorkersInit == Init => WorkersInv
<1> SUFFICES ASSUME Init PROVE WorkersInv
  OBVIOUS
<1>1. ControlType /\ FailType
  BY DEF Init, ControlType, FailType, Ended, Off, WorkerRec
<1>2. DataType
  BY BlankType DEF Init, DataType
<1>3. PoolType
  BY DEF Init, PoolType
<1>4. OwnInv
  BY DEF Init, OwnInv, Has
<1>5. CapInv
  <2>1. \A n : OfCap(n) = {}
    BY DEF Init, OfCap
  <2>2. Cardinality({}) = 0
    BY FS_EmptySet
  <2>3. lost = {} /\ peak = 0
    BY DEF Init
  <2> QED
    BY <2>1, <2>2, <2>3 DEF CapInv
<1>6. Sound(image)
  BY WorkersAssumption DEF Init
<1>7. \A s \in Task : TaskInv(s)
  BY BlankedInv DEF Init, Blanked, Ended, Off
<1> QED
  BY <1>1, <1>2, <1>3, <1>4, <1>5, <1>6, <1>7 DEF WorkersInv, Types

\* The request s ends with an answer.
LEMMA ReturnTask ==
  ASSUME Types, NEW s \in Task, NEW answer \in {"ok", "err"}, NEW bs, ReturnWith(s, answer, bs),
         \A w \in Worker : worker[s][w].at = "off"
  PROVE  /\ ControlType' /\ FailType' /\ DataType' /\ host' \in [Task -> Seq(Nat)]
         /\ TaskInv(s)'
         /\ \A t \in Task \ {s} : Same(t)
<1> USE DEF Types, ReturnWith
<1>1. ControlType'
  BY DEF ControlType, Ended
<1>2. FailType'
  BY Zenon DEF FailType
<1>3. DataType'
  BY BlankType DEF DataType
<1>4. host' \in [Task -> Seq(Nat)]
  BY DEF PoolType
<1>5. Blanked(s)'
  BY DEF Blanked, Ended, ControlType, FailType, DataType, PoolType
<1>6. TaskInv(s)'
  BY <1>5, BlankedNext
<1>7. \A t \in Task \ {s} : Same(t)
  BY DEF Same, ControlType, FailType, DataType, PoolType
<1> QED
  BY <1>1, <1>2, <1>3, <1>4, <1>6, <1>7

-----------------------------------------------------------------------------
(* The steps.                                                              *)

\* Writing to a buffer leaves the contents of the tasks that do not have it.
LEMMA KeptFacts ==
  ASSUME PoolType, OwnInv, NEW t \in Task, NEW b, \A i \in Nat : ~Has(t, i, b),
         \A x \in 1..Len(pool) : x # b => pool'[x] = pool[x]
  PROVE  Kept(t)
<1> SUFFICES ASSUME NEW i \in 1..Len(host[t]), host[t][i] # 0
             PROVE  pool'[host[t][i]] = pool[host[t][i]]
  BY DEF Kept
<1>1. Has(t, i, host[t][i]) /\ i \in Nat
  BY DEF Has, PoolType
<1>2. host[t][i] \in 1..Len(pool) /\ host[t][i] # b
  BY <1>1, HasType
<1> QED
  BY <1>2

\* A step of one request keeps the invariant if it keeps the request's own part and the pool's.
LEMMA Combine ==
  ASSUME WorkersInv, NEW s \in Task, Types', OwnInv', CapInv', Sound(image)', TaskInv(s)',
         \A t \in Task \ {s} : Same(t) /\ Kept(t)
  PROVE  WorkersInv'
<1>1. \A t \in Task : TaskInv(t)'
  BY Frame DEF WorkersInv
<1> QED
  BY <1>1 DEF WorkersInv

\* A step that leaves the pool, its ghosts, the image and all buffers where they are.
LEMMA CombineQuiet ==
  ASSUME WorkersInv, NEW s \in Task, ControlType', FailType', DataType',
         host' \in [Task -> Seq(Nat)], UNCHANGED <<pool, image, lost, peak>>,
         \A t \in Task, i \in Nat : \A b : Has(t, i, b)' <=> Has(t, i, b),
         TaskInv(s)', \A t \in Task \ {s} : Same(t)
  PROVE  WorkersInv'
<1> USE DEF WorkersInv, Types
<1>1. Types'
  BY DEF PoolType
<1>2. OwnInv'
  BY OwnKeep DEF PoolType
<1>3. CapInv'
  BY CapKeep DEF PoolType
<1>4. Sound(image)'
  OBVIOUS
<1>5. \A t \in Task \ {s} : Kept(t)
  BY DEF Kept
<1> QED
  BY <1>1, <1>2, <1>3, <1>4, <1>5, Combine

\* A SNAPSHOT begins: no task and no block yet.
LEMMA BeginSnapshotInv ==
  ASSUME WorkersInv, NEW s \in Task, NEW l \in Lists, BeginSnapshot(s, l)
  PROVE  WorkersInv'
<1> USE DEF WorkersInv, Types, BeginSnapshot, Begin
<1>0. pc[s] \in Ended /\ TaskInv(s)
  BY DEF First, Ready
<1>1. l \in Seq(Alloc) /\ Len(l) <= MaxAllocs /\ \A i \in 1..Len(l) : Span(l[i]) \subseteq Addr
  BY WorkersAssumption
<1>2. ControlType'
  BY DEF ControlType
<1>3. FailType'
  BY DEF FailType
<1>4. DataType'
  BY <1>1 DEF DataType
<1>5. [i \in DOMAIN <<>> |-> 0] = <<>>
  OBVIOUS
<1>6. host' = [host EXCEPT ![s] = <<>>] /\ host[s] = <<>>
  BY <1>0, <1>5 DEF TaskInv, QuietInv
<1>7. host' = host /\ host \in [Task -> Seq(Nat)]
  BY <1>6 DEF PoolType
<1>8. \A t \in Task \ {s} : Same(t)
  BY <1>7 DEF Same, ControlType, DataType
<1>9. TaskInv(s)'
  <2>1. /\ pc'[s] = "coalesce" /\ kind'[s] = "snapshot" /\ list'[s] = l /\ blocks'[s] = <<>> /\ file'[s] = <<>>
        /\ host'[s] = <<>>
    BY <1>6, <1>7 DEF ControlType, DataType
  <2>2. /\ pos'[s] = 1 /\ next'[s] = 1 /\ fail'[s] = FALSE /\ err'[s] = {} /\ manifest'[s] = <<>> /\ mem'[s] = Blank
        /\ \A w \in Worker : worker'[s][w].at = "off"
    BY <1>0 DEF TaskInv, QuietInv, Ended
  <2>3. QuietInv(s)'
    BY <2>1, <2>2 DEF QuietInv, Ended
  <2>4. ListInv(s)'
    <3>1. <<>> \in Seq(BlockRec)
      OBVIOUS
    <3> QED
      BY <1>1, <2>1, <3>1 DEF ListInv
  <2>5. LayoutInv(s)'
    BY <1>1, <2>1, <2>2 DEF LayoutInv, Layout, Listed
  <2>6. HostInv(s)' /\ DrainInv(s)'
    BY <2>1 DEF HostInv, DrainInv
  <2>7. WorkInv(s)'
    BY <2>1, <2>2 DEF WorkInv, Busy
  <2> QED
    BY <2>3, <2>4, <2>5, <2>6, <2>7 DEF TaskInv
<1>10. \A t \in Task, i \in Nat : \A b : Has(t, i, b)' <=> Has(t, i, b)
  BY <1>7 DEF Has
<1> QED
  BY <1>2, <1>3, <1>4, <1>7, <1>8, <1>9, <1>10, CombineQuiet DEF ghosts

\* A RESTORE begins with the tasks l: those of the image, or none.
LEMMA BeginTasks ==
  ASSUME WorkersInv, NEW s \in Task, NEW l, NEW at,
         Begin(s, "restore", l, l, image.bytes), pc' = [pc EXCEPT ![s] = at],
         \/ l = image.entries /\ at = "fill"
         \/ l = <<>> /\ at = "reject"
  PROVE  WorkersInv'
<1> USE DEF WorkersInv, Types, Begin
<1>0. pc[s] \in Ended /\ TaskInv(s)
  BY DEF First, Ready
<1>1. /\ l \in Seq(Entry) /\ Len(l) <= MaxAllocs /\ image.bytes \in Seq(Nat)
      /\ \A i \in 1..Len(l) : Span(l[i]) \subseteq Addr /\ (Readable(image.bytes, l[i]) => Stored(image.bytes, l[i]))
  <2>1. Sound(image)
    OBVIOUS
  <2>2. image.bytes \in Seq(Nat)
    BY <2>1 DEF Sound
  <2>3. CASE l = image.entries
    <3>1. l \in Seq(Entry) /\ Len(l) <= MaxAllocs
      BY <2>1, <2>3 DEF Sound
    <3>2. \A i \in 1..Len(l) : Span(l[i]) \subseteq Addr /\ (Readable(image.bytes, l[i]) => Stored(image.bytes, l[i]))
      BY <2>1, <2>3 DEF Sound
    <3> QED
      BY <2>2, <3>1, <3>2
  <2>4. CASE l = <<>>
    BY <2>2, <2>4, WorkersAssumption
  <2> QED
    BY <2>3, <2>4
<1>a. at \in {"fill", "reject"}
  OBVIOUS
<1>2. ControlType'
  BY <1>a DEF ControlType
<1>3. FailType'
  BY DEF FailType
<1>4. DataType'
  BY <1>1 DEF DataType
<1> DEFINE z == [i \in DOMAIN l |-> 0]
<1>5. z \in Seq(Nat) /\ Len(z) = Len(l) /\ \A i \in 1..Len(l) : z[i] = 0
  BY <1>1
<1>6. host' = [host EXCEPT ![s] = z] /\ host \in [Task -> Seq(Nat)] /\ host[s] = <<>>
  BY <1>0 DEF TaskInv, QuietInv, PoolType
<1> HIDE DEF z
<1>7. host' \in [Task -> Seq(Nat)] /\ host'[s] = z /\ \A t \in Task \ {s} : host'[t] = host[t]
  BY <1>5, <1>6
<1>8. \A t \in Task \ {s} : Same(t)
  BY <1>7 DEF Same, ControlType, DataType
<1>9. TaskInv(s)'
  <2>1. /\ pc'[s] = at /\ kind'[s] = "restore" /\ list'[s] = l /\ blocks'[s] = l
        /\ file'[s] = image.bytes /\ host'[s] = z
    BY <1>7 DEF ControlType, DataType
  <2>2. /\ pos'[s] = 1 /\ next'[s] = 1 /\ fail'[s] = FALSE /\ err'[s] = {} /\ manifest'[s] = <<>> /\ mem'[s] = Blank
        /\ \A w \in Worker : worker'[s][w].at = "off"
    BY <1>0 DEF TaskInv, QuietInv, Ended
  <2>3. QuietInv(s)'
    BY <1>a, <2>1, <2>2 DEF QuietInv, Ended
  <2>4. ListInv(s)'
    BY <1>1, <2>1 DEF ListInv
  <2>5. LayoutInv(s)' /\ DrainInv(s)'
    BY <1>a, <2>1 DEF LayoutInv, DrainInv
  <2>6. HostInv(s)'
    <3>1. Len(host'[s]) = Len(blocks'[s]) /\ \A i \in 1..Len(host'[s]) : host'[s][i] = 0 /\ ~(i < pos'[s])
      BY <1>5, <2>1, <2>2
    <3>2. pos'[s] <= Len(blocks'[s]) + 1
      BY <1>1, <2>1, <2>2
    <3>3. \A i \in 1..Len(blocks'[s]) : Readable(file'[s], blocks'[s][i]) => Stored(file'[s], blocks'[s][i])
      BY <1>1, <2>1
    <3> QED
      BY <1>a, <2>1, <3>1, <3>2, <3>3, ZenonT(60) DEF HostInv
  <2>7. WorkInv(s)'
    BY <1>a, <2>1, <2>2 DEF WorkInv, Busy
  <2> QED
    BY <2>3, <2>4, <2>5, <2>6, <2>7 DEF TaskInv
<1>10. \A t \in Task, i \in Nat : \A b : Has(t, i, b)' <=> Has(t, i, b)
  BY <1>1, <1>5, <1>6, <1>7 DEF Has
<1> QED
  BY <1>2, <1>3, <1>4, <1>7, <1>8, <1>9, <1>10, CombineQuiet DEF ghosts

\* A RESTORE begins: one task for every entry of the image.
LEMMA BeginRestoreInv ==
  ASSUME WorkersInv, NEW s \in Task, BeginRestore(s)
  PROVE  WorkersInv'
<1>1. CASE image.manifest = "whole"
  <2>1. Begin(s, "restore", image.entries, image.entries, image.bytes) /\ pc' = [pc EXCEPT ![s] = "fill"]
    BY <1>1 DEF BeginRestore
  <2> QED
    BY <2>1, BeginTasks
<1>2. CASE image.manifest = "short"
  <2>1. Begin(s, "restore", <<>>, <<>>, image.bytes) /\ pc' = [pc EXCEPT ![s] = "reject"]
    BY <1>2 DEF BeginRestore
  <2> QED
    BY <2>1, BeginTasks
<1> QED
  BY <1>1, <1>2 DEF BeginRestore

-----------------------------------------------------------------------------
(* Coalescing.                                                             *)

\* The fields of a block.
LEMMA BlockFacts ==
  ASSUME NEW b \in BlockRec
  PROVE  /\ b.base \in Nat /\ b.size \in Nat \ {0} /\ b.off \in Nat /\ b.ctx \in Nat
         /\ b.first \in Nat /\ b.last \in Nat
BY DEF BlockRec

\* The fields of an allocation.
LEMMA AllocFacts ==
  ASSUME NEW a \in Alloc
  PROVE  a.base \in Nat /\ a.size \in Nat \ {0} /\ a.ctx \in Nat
BY DEF Alloc

\* The fields of a block to which an adjoining allocation is added.
LEMMA ExtendedFacts ==
  ASSUME NEW b \in BlockRec, NEW a \in Alloc, NEW i \in Nat
  PROVE  LET x == Extended(b, a, i)
         IN  /\ x \in BlockRec /\ x.base = b.base /\ x.size = b.size + a.size
             /\ x.off = b.off /\ x.first = b.first /\ x.last = i
<1>1. b.size + a.size \in Nat \ {0}
  BY BlockFacts, AllocFacts
<1> DEFINE z == b.size + a.size
<1>2. Extended(b, a, i) = [b EXCEPT !.size = z, !.last = i]
  BY DEF Extended
<1> HIDE DEF z
<1> QED
  BY <1>1, <1>2 DEF BlockRec, z

\* The fields of a block of one allocation.
LEMMA NewBlockFacts ==
  ASSUME NEW a \in Alloc, NEW i \in Nat, NEW off \in Nat
  PROVE  LET x == NewBlock(a, i, off)
         IN  /\ x \in BlockRec /\ x.base = a.base /\ x.size = a.size
             /\ x.off = off /\ x.first = i /\ x.last = i
BY AllocFacts DEF NewBlock, BlockRec

\* A block covers no less when more of the listing is known.
LEMMA CoversMore ==
  ASSUME NEW b \in BlockRec, NEW l, NEW m \in Nat, Covers(b, l, m)
  PROVE  Covers(b, l, m + 1)
BY BlockFacts DEF Covers

\* The last block takes in the allocation after its end.
LEMMA CoversExtended ==
  ASSUME NEW b \in BlockRec, NEW l \in Seq(Alloc), NEW m \in Nat, m + 1 <= Len(l),
         Covers(b, l, m), b.last = m, l[m + 1].base = b.base + b.size
  PROVE  Covers(Extended(b, l[m + 1], m + 1), l, m + 1)
<1> DEFINE x == Extended(b, l[m + 1], m + 1)
<1>1. \A i \in 1..(m + 1) : l[i] \in Alloc
  OBVIOUS
<1>2. \A i \in 1..(m + 1) : l[i].base \in Nat /\ l[i].size \in Nat
  BY <1>1, AllocFacts
<1>3. l[m + 1] \in Alloc /\ m + 1 \in Nat
  BY <1>1
<1>4. x.base = b.base /\ x.size = b.size + l[m + 1].size /\ x.first = b.first /\ x.last = m + 1
  BY <1>3, ExtendedFacts
<1> HIDE DEF x
<1>5. b.base \in Nat /\ b.size \in Nat /\ b.first \in Nat /\ 1 <= b.first /\ b.first <= m
  BY BlockFacts DEF Covers
<1>6. ASSUME NEW i \in x.first..x.last
      PROVE  x.base <= l[i].base /\ l[i].base + l[i].size <= x.base + x.size
  <2>1. i \in b.first..(m + 1) /\ i \in 1..(m + 1)
    BY <1>4, <1>5
  <2>2. CASE i = m + 1
    BY <1>2, <1>4, <1>5, <2>1, <2>2
  <2>3. CASE i # m + 1
    <3>1. i \in b.first..b.last
      BY <2>1, <2>3, <1>5
    <3>2. b.base <= l[i].base /\ l[i].base + l[i].size <= b.base + b.size
      BY <3>1 DEF Covers
    <3>3. l[i].base \in Nat /\ l[i].size \in Nat /\ l[m + 1].size \in Nat
      BY <1>2, <2>1
    <3> QED
      BY <1>4, <1>5, <3>2, <3>3, SMTT(60)
  <2> QED
    BY <2>2, <2>3
<1>7. 1 <= x.first /\ x.first <= x.last /\ x.last <= m + 1
  BY <1>4, <1>5
<1>8. Covers(x, l, m + 1)
  BY <1>6, <1>7 DEF Covers
<1> QED
  BY <1>8 DEF x

\* An allocation is a block of its own.
LEMMA CoversNew ==
  ASSUME NEW l \in Seq(Alloc), NEW m \in Nat, m + 1 <= Len(l), NEW off \in Nat
  PROVE  Covers(NewBlock(l[m + 1], m + 1, off), l, m + 1)
<1> DEFINE x == NewBlock(l[m + 1], m + 1, off)
<1>1. l[m + 1] \in Alloc
  OBVIOUS
<1>2. l[m + 1].base \in Nat /\ l[m + 1].size \in Nat
  BY <1>1, AllocFacts
<1>3. x.base = l[m + 1].base /\ x.size = l[m + 1].size /\ x.first = m + 1 /\ x.last = m + 1
  BY <1>1, NewBlockFacts
<1> HIDE DEF x
<1>4. Covers(x, l, m + 1)
  BY <1>2, <1>3 DEF Covers
<1> QED
  BY <1>4 DEF x

\* Adding an adjoining allocation to the last block keeps the layout.
LEMMA LayoutExtended ==
  ASSUME NEW bs \in Seq(BlockRec), NEW l \in Seq(Alloc), NEW m \in Nat, Layout(bs, l, m),
         m + 1 <= Len(l), Len(bs) > 0, Adjoins(bs[Len(bs)], l[m + 1]),
         NEW cs, cs = [bs EXCEPT ![Len(bs)] = Extended(bs[Len(bs)], l[m + 1], m + 1)]
  PROVE  cs \in Seq(BlockRec) /\ Layout(cs, l, m + 1)
<1> DEFINE n == Len(bs)
           x == Extended(bs[n], l[m + 1], m + 1)
<1>1. n \in Nat /\ n \in 1..n /\ (\A j \in 1..n : bs[j] \in BlockRec) /\ l[m + 1] \in Alloc /\ m + 1 \in Nat
      /\ cs = [bs EXCEPT ![n] = x]
  OBVIOUS
<1>2. /\ x \in BlockRec /\ x.base = bs[n].base
      /\ x.off = bs[n].off /\ x.first = bs[n].first /\ x.last = m + 1
  BY <1>1, ExtendedFacts, SMTT(60)
<1>3. bs[n].last = m /\ Covers(bs[n], l, m) /\ l[m + 1].base = bs[n].base + bs[n].size
  BY <1>1 DEF Layout, Adjoins
<1>4. Covers(x, l, m + 1)
  BY <1>1, <1>3, CoversExtended
<1> HIDE DEF x
<1>5. cs \in Seq(BlockRec) /\ Len(cs) = n /\ cs[n] = x /\ \A j \in 1..n : j # n => cs[j] = bs[j]
  BY <1>1, <1>2
<1>6. \A j \in 1..n : Covers(bs[j], l, m)
  BY DEF Layout
<1>7. ASSUME NEW j \in 1..n PROVE Covers(cs[j], l, m + 1)
  <2>1. CASE j = n
    BY <1>4, <1>5, <2>1, ZenonT(60)
  <2>2. CASE j # n
    BY <1>1, <1>5, <1>6, <2>2, CoversMore
  <2> QED
    BY <2>1, <2>2
<1>8. ASSUME NEW j \in 2..n
      PROVE  cs[j].first = cs[j - 1].last + 1 /\ cs[j].off = cs[j - 1].off + cs[j - 1].size
  <2>1. bs[j].first = bs[j - 1].last + 1 /\ bs[j].off = bs[j - 1].off + bs[j - 1].size
    BY DEF Layout
  <2>2. j \in 1..n /\ j - 1 \in 1..n /\ j - 1 # n
    BY <1>1
  <2>3. cs[j].first = bs[j].first /\ cs[j].off = bs[j].off /\ cs[j - 1] = bs[j - 1]
    BY <1>2, <1>5, <2>2, ZenonT(60)
  <2> QED
    BY <2>1, <2>3
<1>9. cs[1].first = 1 /\ cs[1].off = 0 /\ cs[n].last = m + 1
  <2>1. bs[1].first = 1 /\ bs[1].off = 0
    BY DEF Layout
  <2> QED
    BY <1>1, <1>2, <1>5, <2>1
<1>10. m + 1 \in 0..Len(l) /\ Len(cs) # 0
  BY <1>1, <1>5
<1> HIDE DEF n
<1> QED
  BY <1>5, <1>7, <1>8, <1>9, <1>10 DEF Layout

\* A block behind the last one keeps the layout.
LEMMA LayoutNew ==
  ASSUME NEW bs \in Seq(BlockRec), NEW l \in Seq(Alloc), NEW m \in Nat, Layout(bs, l, m),
         m + 1 <= Len(l), Len(bs) > 0,
         NEW cs, cs = Append(bs, NewBlock(l[m + 1], m + 1, bs[Len(bs)].off + bs[Len(bs)].size))
  PROVE  cs \in Seq(BlockRec) /\ Layout(cs, l, m + 1)
<1> DEFINE n == Len(bs)
           off == bs[n].off + bs[n].size
           x == NewBlock(l[m + 1], m + 1, off)
<1>1. n \in Nat /\ n \in 1..n /\ (\A j \in 1..n : bs[j] \in BlockRec) /\ l[m + 1] \in Alloc /\ m + 1 \in Nat
      /\ cs = Append(bs, x)
  OBVIOUS
<1>2. off \in Nat
  BY <1>1, BlockFacts
<1>3. x \in BlockRec /\ x.off = off /\ x.first = m + 1 /\ x.last = m + 1
  BY <1>1, <1>2, NewBlockFacts, SMTT(60)
<1>4. Covers(x, l, m + 1)
  BY <1>1, <1>2, CoversNew
<1>5. off = bs[n].off + bs[n].size
  OBVIOUS
<1> HIDE DEF x, off
<1>6. cs \in Seq(BlockRec) /\ Len(cs) = n + 1 /\ cs[n + 1] = x /\ \A j \in 1..n : cs[j] = bs[j]
  BY <1>1, <1>3, AppendFacts
<1>7. /\ \A j \in 1..n : Covers(bs[j], l, m)
      /\ \A j \in 2..n : bs[j].first = bs[j - 1].last + 1 /\ bs[j].off = bs[j - 1].off + bs[j - 1].size
      /\ bs[1].first = 1 /\ bs[1].off = 0 /\ bs[n].last = m
  BY DEF Layout
<1> HIDE DEF n
<1>8. ASSUME NEW j \in 1..(n + 1) PROVE Covers(cs[j], l, m + 1)
  <2>1. CASE j = n + 1
    BY <1>4, <1>6, <2>1
  <2>2. CASE j # n + 1
    <3>1. j \in 1..n
      BY <1>1, <2>2
    <3>2. Covers(bs[j], l, m + 1)
      BY <1>1, <1>7, <3>1, CoversMore
    <3> QED
      BY <1>6, <3>1, <3>2
  <2> QED
    BY <2>1, <2>2
<1>9. ASSUME NEW j \in 2..(n + 1)
      PROVE  cs[j].first = cs[j - 1].last + 1 /\ cs[j].off = cs[j - 1].off + cs[j - 1].size
  <2>0. j - 1 \in 1..n /\ cs[j - 1] = bs[j - 1]
    BY <1>1, <1>6
  <2>1. CASE j = n + 1
    <3>1. j - 1 = n
      BY <1>1, <2>1
    <3> QED
      BY <1>3, <1>5, <1>6, <1>7, <2>0, <2>1, <3>1, ZenonT(60)
  <2>2. CASE j # n + 1
    <3>1. j \in 2..n /\ j \in 1..n
      BY <1>1, <2>2
    <3> QED
      BY <1>6, <1>7, <2>0, <3>1, ZenonT(60)
  <2> QED
    BY <2>1, <2>2
<1>10. cs[1].first = 1 /\ cs[1].off = 0 /\ cs[n + 1].last = m + 1
  <2>1. 1 \in 1..n
    BY <1>1
  <2> QED
    BY <1>3, <1>6, <1>7, <2>1
<1>11. m + 1 \in 0..Len(l) /\ Len(cs) # 0
  BY <1>1, <1>6
<1> QED
  BY <1>6, <1>8, <1>9, <1>10, <1>11, ZenonT(60) DEF Layout

\* The first block is a layout of the first allocation.
LEMMA LayoutFirst ==
  ASSUME NEW l \in Seq(Alloc), 1 <= Len(l)
  PROVE  <<NewBlock(l[1], 1, 0)>> \in Seq(BlockRec) /\ Layout(<<NewBlock(l[1], 1, 0)>>, l, 1)
<1> DEFINE x == NewBlock(l[1], 1, 0)
<1>1. l[1] \in Alloc
  OBVIOUS
<1>2. x \in BlockRec /\ x.off = 0 /\ x.first = 1 /\ x.last = 1
  <2> PICK a \in Alloc : a = l[1]
    BY <1>1
  <2>1. NewBlock(a, 1, 0) \in BlockRec
    BY AllocFacts DEF NewBlock, BlockRec
  <2>2. x.off = 0 /\ x.first = 1 /\ x.last = 1
    BY Zenon DEF NewBlock
  <2> QED
    BY <2>1, <2>2, Zenon
<1>3. Covers(x, l, 1)
  <2>1. Covers(NewBlock(l[0 + 1], 0 + 1, 0), l, 0 + 1)
    BY CoversNew
  <2> QED
    BY <2>1
<1> HIDE DEF x
<1>4. <<x>> \in Seq(BlockRec) /\ Layout(<<x>>, l, 1)
  BY <1>2, <1>3 DEF Layout
<1> QED
  BY <1>4 DEF x

\* One turn of the loop of coalesce_allocs.
LEMMA CoalesceInv ==
  ASSUME WorkersInv, NEW s \in Task, Coalesce(s)
  PROVE  WorkersInv'
<1> DEFINE m == pos[s] - 1
           l == list[s]
           bs == blocks[s]
           cs == blocks'[s]
<1>0. Types /\ TaskInv(s) /\ pc[s] = "coalesce" /\ pos[s] \in DOMAIN list[s]
  BY DEF WorkersInv, Coalesce
<1>1. kind[s] = "snapshot" /\ l \in Seq(Alloc) /\ bs \in Seq(BlockRec)
  BY <1>0 DEF TaskInv, QuietInv, ListInv
<1>2. m \in Nat /\ pos[s] = m + 1 /\ m + 1 <= Len(l)
  BY <1>0, <1>1
<1>3. Layout(bs, l, m)
  BY <1>0, <1>1 DEF TaskInv, LayoutInv, Listed
<1>4. blocks \in [Task -> Seq(BlockRec) \cup Seq(Entry)]
  BY <1>0 DEF Types, DataType
<1> HIDE DEF m
<1>5. cs \in Seq(BlockRec) /\ Layout(cs, l, m + 1) /\ \E new : blocks' = [blocks EXCEPT ![s] = new]
  <2>1. CASE Len(bs) > 0 /\ Adjoins(bs[Len(bs)], l[m + 1])
    <3>1. cs = [bs EXCEPT ![Len(bs)] = Extended(bs[Len(bs)], l[m + 1], m + 1)]
          /\ \E new : blocks' = [blocks EXCEPT ![s] = new]
      BY <1>1, <1>2, <1>4, <2>1 DEF Coalesce
    <3> QED
      BY <1>1, <1>2, <1>3, <2>1, <3>1, LayoutExtended
  <2>2. CASE Len(bs) > 0 /\ ~Adjoins(bs[Len(bs)], l[m + 1])
    <3>1. cs = Append(bs, NewBlock(l[m + 1], m + 1, bs[Len(bs)].off + bs[Len(bs)].size))
          /\ \E new : blocks' = [blocks EXCEPT ![s] = new]
      BY <1>1, <1>2, <1>4, <2>2 DEF Coalesce
    <3> QED
      BY <1>1, <1>2, <1>3, <2>2, <3>1, LayoutNew
  <2>3. CASE Len(bs) = 0
    <3>1. m = 0
      BY <1>3, <2>3 DEF Layout
    <3>2. cs = <<NewBlock(l[1], 1, 0)>> /\ \E new : blocks' = [blocks EXCEPT ![s] = new]
      BY <1>2, <1>4, <2>3, <3>1 DEF Coalesce
    <3>3. m + 1 = 1 /\ 1 <= Len(l)
      BY <1>2, <3>1
    <3>4. cs \in Seq(BlockRec) /\ Layout(cs, l, 1)
      BY <1>1, <3>2, <3>3, LayoutFirst
    <3> QED
      BY <3>2, <3>3, <3>4
  <2>4. Len(bs) = 0 \/ Len(bs) > 0
    BY <1>1
  <2> QED
    BY <2>1, <2>2, <2>3, <2>4, Zenon
<1>6. /\ UNCHANGED <<pool, image, pc, kind, list, host, err, next, fail, worker, file, manifest, mem, lost, peak>>
      /\ pos' = [pos EXCEPT ![s] = @ + 1]
  BY DEF Coalesce, output, ghosts, disk
<1>7. ControlType' /\ FailType'
  BY <1>0, <1>6 DEF Types, ControlType, FailType
<1>8. DataType'
  BY <1>0, <1>4, <1>5, <1>6 DEF Types, DataType
<1>9. \A t \in Task \ {s} : Same(t)
  BY <1>0, <1>4, <1>5, <1>6 DEF Same, Types, ControlType
<1>10. pos'[s] = m + 2
  BY <1>0, <1>2, <1>6 DEF Types, ControlType
<1> HIDE DEF l, cs, bs
<1>11. TaskInv(s)'
  <2>1. QuietInv(s)'
    BY <1>0, <1>6 DEF TaskInv, QuietInv, Ended
  <2>2. ListInv(s)'
    BY <1>0, <1>1, <1>5, <1>6 DEF TaskInv, ListInv, cs, l
  <2>3. LayoutInv(s)'
    BY <1>0, <1>2, <1>5, <1>6, <1>10 DEF LayoutInv, Listed, cs, l
  <2>4. HostInv(s)' /\ DrainInv(s)'
    BY <1>0, <1>6 DEF HostInv, DrainInv
  <2>5. WorkInv(s)'
    BY <1>0, <1>6, SMTT(60) DEF TaskInv, QuietInv, WorkInv, Busy
  <2> QED
    BY <2>1, <2>2, <2>3, <2>4, <2>5 DEF TaskInv
<1>12. host' \in [Task -> Seq(Nat)] /\ \A t \in Task, i \in Nat : \A b : Has(t, i, b)' <=> Has(t, i, b)
  BY <1>0, <1>6 DEF Has, Types, PoolType
<1> QED
  BY <1>6, <1>7, <1>8, <1>9, <1>11, <1>12, CombineQuiet

\* The workers are started, each at its claim.
LEMMA LaunchInv ==
  ASSUME WorkersInv, NEW s \in Task, Launch(s)
  PROVE  WorkersInv'
<1>0. Types /\ TaskInv(s) /\ pc[s] \in {"coalesce", "fill"}
  BY DEF WorkersInv, Launch
<1>1. /\ UNCHANGED <<pool, image, kind, list, blocks, err, next, fail, file, manifest, mem, lost, peak>>
      /\ pc' = [pc EXCEPT ![s] = "join"] /\ pos' = [pos EXCEPT ![s] = 1]
      /\ worker' = [worker EXCEPT ![s] = Started(Len(blocks[s]))]
  BY DEF Launch, Stay, request, output, ghosts, disk
<1>2. pc'[s] = "join" /\ pos'[s] = 1 /\ worker'[s] = Started(Len(blocks[s]))
  BY <1>0, <1>1 DEF Types, ControlType
<1>3. Started(Len(blocks[s])) \in [Worker -> WorkerRec]
  BY DEF Started, WorkerRec, Off
<1>4. ControlType' /\ FailType' /\ DataType'
  BY <1>0, <1>1, <1>3 DEF Types, ControlType, FailType, DataType, Ended
<1>5. 1 \in Worker /\ worker'[s][1].at = "claim" /\ \A w \in Worker : worker'[s][w].at \in {"claim", "off"}
  BY <1>2, WorkersAssumption DEF Worker, Started, Off
<1>6. next'[s] = 1 /\ fail'[s] = FALSE /\ err'[s] = {} /\ manifest'[s] = <<>>
  BY <1>0, <1>1 DEF TaskInv, QuietInv, Ended
<1>7. CASE pc[s] = "coalesce"
  <2> DEFINE z == [i \in DOMAIN blocks[s] |-> 0]
  <2>1. /\ kind[s] = "snapshot" /\ list[s] \in Seq(Alloc) /\ blocks[s] \in Seq(BlockRec) /\ host[s] = <<>>
        /\ file[s] = <<>>
    BY <1>0, <1>7 DEF TaskInv, QuietInv, ListInv
  <2>2. z \in Seq(Nat) /\ Len(z) = Len(blocks[s]) /\ \A i \in 1..Len(z) : z[i] = 0
    BY <2>1
  <2>3. host' = [host EXCEPT ![s] = z] /\ host \in [Task -> Seq(Nat)] /\ pos[s] \notin DOMAIN list[s]
    BY <1>0, <1>7 DEF Launch, Types, PoolType
  <2> HIDE DEF z
  <2>4. host' \in [Task -> Seq(Nat)] /\ host'[s] = z /\ \A t \in Task \ {s} : host'[t] = host[t]
    BY <2>2, <2>3
  <2>5. \A t \in Task \ {s} : Same(t)
    BY <1>0, <1>1, <2>4 DEF Same, Types, ControlType
  <2>6. \A t \in Task, i \in Nat : \A b : Has(t, i, b)' <=> Has(t, i, b)
    BY <2>1, <2>2, <2>4 DEF Has
  <2>7. TaskInv(s)'
    <3>1. QuietInv(s)'
      BY <1>1, <1>2, <1>6, <2>1 DEF QuietInv, Ended
    <3>2. ListInv(s)'
      BY <1>0, <1>1 DEF TaskInv, ListInv
    <3>3. LayoutInv(s)'
      <4>1. Layout(blocks[s], list[s], pos[s] - 1)
        BY <1>0, <1>7, <2>1 DEF TaskInv, LayoutInv, Listed
      <4>2. pos[s] - 1 \in 0..Len(list[s]) /\ pos[s] \in Nat /\ pos[s] \notin 1..Len(list[s]) /\ Len(list[s]) \in Nat
        BY <1>0, <2>1, <2>3, <4>1 DEF Layout, Types, ControlType
      <4>3. pos[s] - 1 = Len(list[s])
        BY <4>2
      <4>4. Listed(s)' = Len(list[s])
        BY <1>1, <1>2 DEF Listed
      <4> QED
        BY <1>1, <4>1, <4>3, <4>4 DEF LayoutInv
    <3>4. HostInv(s)'
      BY <1>1, <1>2, <2>1, <2>2, <2>4 DEF HostInv
    <3>5. WorkInv(s)'
      <4>1. \A w \in Worker : worker'[s][w].at # "take" /\ worker'[s][w].at # "copy"
        BY <1>5
      <4>2. Len(host'[s]) \in Nat /\ \A i \in 1..Len(host'[s]) : ~(i < next'[s])
        BY <1>6, <2>2, <2>4
      <4>3. \E w \in Worker : worker'[s][w].at # "off"
        BY <1>5
      <4> QED
        BY <1>2, <1>6, <4>1, <4>2, <4>3 DEF WorkInv, Busy
    <3>6. DrainInv(s)'
      BY <1>2 DEF DrainInv
    <3> QED
      BY <3>1, <3>2, <3>3, <3>4, <3>5, <3>6 DEF TaskInv
  <2> QED
    BY <1>1, <1>4, <2>4, <2>5, <2>6, <2>7, CombineQuiet
<1>8. CASE pc[s] = "fill"
  <2>1. kind[s] = "restore" /\ blocks[s] = list[s] /\ list[s] \in Seq(Entry)
    BY <1>0, <1>8 DEF TaskInv, QuietInv, ListInv
  <2>2. host' = host /\ host \in [Task -> Seq(Nat)] /\ pos[s] \notin DOMAIN blocks[s]
    BY <1>0, <1>8 DEF Launch, Types, PoolType
  <2>3. \A t \in Task \ {s} : Same(t)
    BY <1>0, <1>1, <2>2 DEF Same, Types, ControlType
  <2>4. \A t \in Task, i \in Nat : \A b : Has(t, i, b)' <=> Has(t, i, b)
    BY <2>2 DEF Has
  <2>5. TaskInv(s)'
    <3>1. QuietInv(s)'
      BY <1>1, <1>2, <1>6, <2>1 DEF QuietInv, Ended
    <3>2. ListInv(s)'
      BY <1>0, <1>1 DEF TaskInv, ListInv
    <3>3. LayoutInv(s)' /\ DrainInv(s)'
      BY <1>1, <1>2, <2>1 DEF LayoutInv, DrainInv
    <3>4. HostInv(s)'
      <4>1. pos[s] = Len(blocks[s]) + 1 /\ Len(host[s]) = Len(blocks[s])
        <5>1. pos[s] <= Len(blocks[s]) + 1 /\ Len(host[s]) = Len(blocks[s])
          BY <1>0, <1>8 DEF TaskInv, HostInv
        <5>2. pos[s] \in Nat \ {0} /\ Len(blocks[s]) \in Nat /\ DOMAIN blocks[s] = 1..Len(blocks[s])
          BY <1>0, <2>1 DEF Types, ControlType
        <5> QED
          BY <2>2, <5>1, <5>2
      <4>2. \A i \in 1..Len(host[s]) : Loaded(s, i)
        BY <1>0, <1>8, <2>1, <4>1 DEF TaskInv, HostInv
      <4>3. \A i \in 1..Len(host[s]) : Loaded(s, i)'
        BY <1>1, <2>2, <4>2 DEF Loaded
      <4> QED
        BY <1>1, <1>2, <2>1, <2>2, <4>1, <4>3 DEF HostInv
    <3>5. WorkInv(s)'
      <4>1. \A w \in Worker : worker'[s][w].at # "take" /\ worker'[s][w].at # "copy"
        BY <1>5
      <4>2. Len(host'[s]) \in Nat /\ \A i \in 1..Len(host'[s]) : ~(i < next'[s])
        BY <1>6, <2>2
      <4>3. \E w \in Worker : worker'[s][w].at # "off"
        BY <1>5
      <4> QED
        BY <1>2, <1>6, <4>1, <4>2, <4>3 DEF WorkInv, Busy
    <3> QED
      BY <3>1, <3>2, <3>3, <3>4, <3>5 DEF TaskInv
  <2> QED
    BY <1>1, <1>4, <2>2, <2>3, <2>4, <2>5, CombineQuiet
<1> QED
  BY <1>0, <1>7, <1>8

-----------------------------------------------------------------------------
(* Steps that acquire a buffer.                                            *)

\* Buffer b now has room for n, and c in its first cells.
Placed(n, b, m, c) == n <= pool'[b].cap /\ \A k \in 1..m : pool'[b].data[k] = c[k]

\* The pool and its owners after an acquire.
LEMMA AcquireInv ==
  ASSUME WorkersInv, NEW s \in Task, NEW i \in 1..Len(host[s]), host[s][i] = 0,
         NEW n \in Nat, NEW b \in 1..(Len(pool) + 1), NEW m \in Nat, NEW c \in [1..m -> Nat], m <= n,
         Acquire(n, b, c), host' = [host EXCEPT ![s][i] = b], lost' = lost
  PROVE  /\ PoolType' /\ OwnInv' /\ CapInv'
         /\ \A t \in Task : Kept(t)
         /\ b # 0 /\ Placed(n, b, m, c)
<1>0. PoolType /\ OwnInv /\ CapInv
  BY DEF WorkersInv, Types
<1>1. Gives(n, b, m, c)
  BY <1>0, AcquireFacts
<1>2. /\ peak' \in Nat
      /\ \A k \in Nat : Cardinality(OfCap(k)') <= peak' + Cardinality(lost)
  BY <1>0, AcquireBounded
<1>3. host' \in [Task -> Seq(Nat)] /\ b # 0
  BY <1>0 DEF PoolType
<1>4. pool' \in Seq(BufferRec) /\ Len(pool) <= Len(pool')
      /\ \A x \in 1..Len(pool') : Len(pool'[x].data) = pool'[x].cap
  BY <1>1 DEF Gives
<1>5. lost' \subseteq 1..Len(pool')
  BY <1>0, <1>4 DEF PoolType
<1>6. PoolType'
  BY <1>2, <1>3, <1>4, <1>5 DEF PoolType
<1>7. OwnInv'
  BY <1>0, <1>1, OwnAcquire
<1>8. CapInv'
  BY <1>2 DEF CapInv
<1>9. \A t \in Task : Kept(t)
  <2>1. \A t \in Task, j \in Nat : ~Has(t, j, b)
    BY <1>0, <1>1, GivesUnused
  <2>2. \A x \in 1..Len(pool) : x # b => pool'[x] = pool[x]
    <3>1. \A x \in 1..Len(pool') : x # b => pool'[x] = pool[x]
      BY <1>1, Zenon DEF Gives
    <3>2. Len(pool) \in Nat /\ Len(pool') \in Nat /\ Len(pool) <= Len(pool')
      BY <1>0, <1>4 DEF PoolType
    <3>3. 1..Len(pool) \subseteq 1..Len(pool')
      BY <3>2
    <3> QED
      BY <3>1, <3>3, Zenon
  <2> QED
    BY <1>0, <2>1, <2>2, KeptFacts
<1>10. Placed(n, b, m, c)
  BY <1>1 DEF Gives, Placed
<1> QED
  BY <1>3, <1>6, <1>7, <1>8, <1>9, <1>10

\* The request ends with the buffer it has just acquired.
LEMMA AcquireReturn ==
  ASSUME WorkersInv, NEW s \in Task, NEW n \in Nat, NEW b \in 1..(Len(pool) + 1),
         Acquire(n, b, <<>>), host' = [host EXCEPT ![s] = <<>>], lost' = lost \cup (Held(s) \cup {b})
  PROVE  PoolType' /\ OwnInv' /\ CapInv' /\ \A t \in Task : Kept(t)
<1>0. PoolType /\ OwnInv /\ CapInv
  BY DEF WorkersInv, Types
<1>a. <<>> \in [1..0 -> Nat] /\ 0 <= n /\ 0 \in Nat
  OBVIOUS
<1>1. Gives(n, b, 0, <<>>)
  BY <1>0, <1>a, AcquireFacts
<1>2. /\ peak' \in Nat
      /\ \A k \in Nat : Cardinality(OfCap(k)') <= peak' + Cardinality(lost)
  BY <1>0, <1>a, AcquireBounded
<1>3. /\ pool' \in Seq(BufferRec) /\ Len(pool) <= Len(pool') /\ Len(pool') \in Nat /\ b \in 1..Len(pool')
      /\ \A x \in 1..Len(pool') : Len(pool'[x].data) = pool'[x].cap
      /\ \A x \in 1..Len(pool') : x # b => x <= Len(pool) /\ pool'[x] = pool[x]
      /\ pool'[b].free = FALSE
  BY <1>1 DEF Gives
<1>4. b \notin lost /\ \A t \in Task, j \in Nat : ~Has(t, j, b)
  BY <1>0, <1>1, GivesUnused
<1>5. OwnInv' /\ lost' \subseteq 1..Len(pool') /\ lost \subseteq lost'
  <2>1. {b} \in SUBSET Nat /\ {b} \subseteq 1..Len(pool')
    BY <1>3
  <2>2. \A x \in {b} : pool'[x].free = FALSE
    BY <1>3
  <2>3. \A x \in 1..Len(pool') : x \notin {b} => x <= Len(pool) /\ pool'[x].free = pool[x].free
    BY <1>3
  <2>4. \A x \in {b}, t \in Task, j \in Nat : ~Has(t, j, x)
    BY <1>4
  <2> QED
    BY <1>0, <1>3, <2>1, <2>2, <2>3, <2>4, OwnReturn
<1>6. PoolType'
  BY <1>0, <1>2, <1>3, <1>5 DEF PoolType
<1>7. CapInv'
  <2>0. IsFiniteSet(1..Len(pool'))
    BY <1>3, FS_Interval
  <2>1. IsFiniteSet(lost')
    BY <1>5, <2>0, FS_Subset
  <2>2. Cardinality(lost) <= Cardinality(lost') /\ Cardinality(lost) \in Nat /\ Cardinality(lost') \in Nat
    BY <1>5, <2>1, FS_Subset, FS_CardinalityType
  <2>3. \A k : OfCap(k)' \subseteq 1..Len(pool')
    BY DEF OfCap
  <2>4. \A k : Cardinality(OfCap(k)') \in Nat
    BY <2>0, <2>3, FS_Subset, FS_CardinalityType
  <2> QED
    BY <1>2, <2>2, <2>4 DEF CapInv
<1>8. \A t \in Task : Kept(t)
  <2>1. \A x \in 1..Len(pool) : x # b => pool'[x] = pool[x]
    BY <1>0, <1>3 DEF PoolType
  <2> QED
    BY <1>0, <1>4, <2>1, KeptFacts
<1> QED
  BY <1>5, <1>6, <1>7, <1>8

\* The request ends and the pool stays as it is.
LEMMA PlainReturn ==
  ASSUME WorkersInv, NEW s \in Task, host' = [host EXCEPT ![s] = <<>>], lost' = lost \cup Held(s),
         pool' = pool, peak' = peak
  PROVE  PoolType' /\ OwnInv' /\ CapInv' /\ \A t \in Task : Kept(t)
<1>0. PoolType /\ OwnInv /\ CapInv
  BY DEF WorkersInv, Types
<1>1. lost' = lost \cup (Held(s) \cup {}) /\ {} \in SUBSET Nat
  OBVIOUS
<1>2. pool \in Seq(BufferRec) /\ Len(pool) \in Nat /\ host \in [Task -> Seq(Nat)]
  BY <1>0 DEF PoolType
<1>3. pool' \in Seq(BufferRec) /\ Len(pool) <= Len(pool') /\ {} \subseteq 1..Len(pool')
      /\ (\A b \in {} : pool'[b].free = FALSE)
      /\ (\A b \in {}, t \in Task, i \in Nat : ~Has(t, i, b))
      /\ \A b \in 1..Len(pool') : b \notin {} => b <= Len(pool) /\ pool'[b].free = pool[b].free
  BY <1>2
<1>4. OwnInv' /\ lost' \subseteq 1..Len(pool') /\ lost \subseteq lost'
  BY <1>0, <1>1, <1>3, OwnReturn
<1>5. PoolType'
  BY <1>0, <1>2, <1>4 DEF PoolType
<1>6. CapInv'
  BY <1>0, <1>4, CapKeep
<1>7. \A t \in Task : Kept(t)
  BY DEF Kept
<1> QED
  BY <1>4, <1>5, <1>6, <1>7

\* What a request that ends leaves to show.
LEMMA ReturnInv ==
  ASSUME WorkersInv, NEW s \in Task, NEW answer \in {"ok", "err"}, NEW bs, ReturnWith(s, answer, bs),
         \A w \in Worker : worker[s][w].at = "off",
         PoolType', OwnInv', CapInv', \A t \in Task : Kept(t), Sound(image)'
  PROVE  WorkersInv'
<1>0. Types
  BY DEF WorkersInv
<1>1. ControlType' /\ FailType' /\ DataType' /\ TaskInv(s)' /\ \A t \in Task \ {s} : Same(t)
  BY <1>0, ReturnTask
<1>2. Types'
  BY <1>1 DEF Types
<1> QED
  BY <1>1, <1>2, Combine

\* The fields of an entry.
LEMMA EntryFacts ==
  ASSUME NEW e \in Entry
  PROVE  e.base \in Nat /\ e.size \in Nat \ {0} /\ e.off \in Nat
BY DEF Entry

\* A part's cells lie inside the file.
LEMMA Within ==
  ASSUME NEW off \in Nat, NEW size \in Nat, NEW len \in Nat, off + size <= len, NEW k \in 1..size
  PROVE  off + k \in 1..len
OBVIOUS

\* Elements of a sequence.
LEMMA ElementOfSeq == ASSUME NEW S, NEW q \in Seq(S), NEW k \in 1..Len(q) PROVE q[k] \in S
OBVIOUS

\* RESTORE reads an entry's bytes into a buffer of its own.
LEMMA FillInv ==
  ASSUME WorkersInv, NEW s \in Task, Fill(s)
  PROVE  WorkersInv'
<1>0. Types /\ TaskInv(s) /\ pc[s] = "fill" /\ pos[s] \in DOMAIN blocks[s] /\ image' = image /\ Sound(image)
  BY DEF WorkersInv, Fill, disk
<1>1. kind[s] = "restore" /\ blocks[s] = list[s] /\ list[s] \in Seq(Entry) /\ blocks[s] \in Seq(Entry)
  BY <1>0 DEF TaskInv, QuietInv, ListInv
<1> PICK i \in Nat : i = pos[s]
  BY <1>0, <1>1
<1> PICK e \in Entry : e = blocks[s][i]
  BY <1>0, <1>1
<1>2. i \in 1..Len(blocks[s])
  BY <1>0, <1>1
<1>3. e.base \in Nat /\ e.size \in Nat /\ e.off \in Nat
  BY EntryFacts
<1>4. /\ Len(host[s]) = Len(blocks[s]) /\ (Readable(file[s], e) => Stored(file[s], e))
      /\ pos[s] <= Len(blocks[s]) + 1
  BY <1>0, <1>2 DEF TaskInv, HostInv
<1>5. host[s][i] = 0 /\ i \in 1..Len(host[s])
  BY <1>0, <1>2, <1>4 DEF TaskInv, HostInv
<1> DEFINE c == [k \in 1..e.size |-> file[s][e.off + k]]
<1>7. \A w \in Worker : worker[s][w].at = "off"
  BY <1>0 DEF TaskInv, QuietInv
<1>8. "err" \in {"ok", "err"} /\ e.size <= e.size
  BY <1>3
<1>a. Sound(image)'
  BY <1>0
<1> HIDE DEF c
<1>9. CASE /\ Readable(file[s], e)
           /\ \E b \in 1..(Len(pool) + 1) :
                /\ Acquire(e.size, b, c)
                /\ host' = [host EXCEPT ![s][i] = b]
           /\ pos' = [pos EXCEPT ![s] = i + 1]
           /\ Stay /\ UNCHANGED <<pc, worker, runs, faults, lost>>
  <2> USE DEF c
  <2>0. /\ file[s] \in Seq(Nat) /\ c \in [1..e.size -> Nat]
        /\ \A k \in 1..e.size : c[k] = e.base + k - 1
    <3>1. file[s] \in Seq(Nat) /\ Len(file[s]) \in Nat
      BY <1>0 DEF Types, DataType
    <3>2. e.off + e.size <= Len(file[s]) /\ \A k \in 1..e.size : file[s][e.off + k] = e.base + k - 1
      BY <1>4, <1>9 DEF Stored, Readable
    <3>3. ASSUME NEW k \in 1..e.size PROVE file[s][e.off + k] \in Nat
      <4>1. e.off + k \in 1..Len(file[s])
        BY <1>3, <3>1, <3>2, Within
      <4> QED
        BY <3>1, <4>1, ElementOfSeq
    <3>4. \A k \in 1..e.size : file[s][e.off + k] \in Nat
      BY <3>3
    <3> QED
      BY <3>1, <3>2, <3>4, ZenonT(60)
  <2> HIDE DEF c
  <2> PICK b \in 1..(Len(pool) + 1) : Acquire(e.size, b, c) /\ host' = [host EXCEPT ![s][i] = b]
    BY <1>9
  <2>1. /\ UNCHANGED <<pc, kind, list, blocks, err, next, fail, worker, file, manifest, mem, lost, image>>
        /\ pos' = [pos EXCEPT ![s] = i + 1]
    BY <1>0, <1>9 DEF Stay, request, output
  <2>2. /\ PoolType' /\ OwnInv' /\ CapInv'
        /\ \A t \in Task : Kept(t)
        /\ b # 0 /\ Placed(e.size, b, e.size, c)
    BY <1>3, <1>5, <2>0, <1>8, <2>1, AcquireInv, ZenonT(60)
  <2>3. ControlType' /\ FailType' /\ DataType'
    BY <1>0, <1>2, <2>1, SMTT(60) DEF Types, ControlType, FailType, DataType
  <2>4. host \in [Task -> Seq(Nat)] /\ pos \in [Task -> Nat \ {0}]
    BY <1>0 DEF Types, PoolType, ControlType
  <2>5. /\ host'[s][i] = b /\ Len(host'[s]) = Len(host[s]) /\ pos'[s] = i + 1
        /\ \A j \in 1..Len(host[s]) : j # i => host'[s][j] = host[s][j]
        /\ \A t \in Task \ {s} : host'[t] = host[t] /\ pos'[t] = pos[t]
    BY <1>5, <2>1, <2>4
  <2>6. \A t \in Task \ {s} : Same(t) /\ Kept(t)
    BY <2>1, <2>2, <2>5 DEF Same
  <2>7. TaskInv(s)'
    <3>1. QuietInv(s)'
      BY <1>0, <2>1 DEF TaskInv, QuietInv, Ended
    <3>2. ListInv(s)'
      BY <1>0, <2>1 DEF TaskInv, ListInv
    <3>3. LayoutInv(s)' /\ DrainInv(s)'
      BY <1>0, <1>1, <2>1 DEF LayoutInv, DrainInv
    <3>4. HostInv(s)'
      <4>1. ASSUME NEW j \in 1..Len(host[s]) PROVE IF j < i + 1 THEN Loaded(s, j)' ELSE host'[s][j] = 0
        <5>1. CASE j = i
          <6>1. Loaded(s, i)'
            BY <2>0, <2>1, <2>2, <2>5, ZenonT(60) DEF Loaded, Placed
          <6> QED
            BY <1>2, <5>1, <6>1
        <5>2. CASE j < i
          <6>1. Loaded(s, j)
            BY <1>0, <5>2 DEF TaskInv, HostInv
          <6>2. host'[s][j] = host[s][j] /\ pool'[host[s][j]] = pool[host[s][j]]
            BY <1>2, <2>2, <2>5, <5>2, <6>1 DEF Kept, Loaded
          <6>3. Loaded(s, j)'
            BY <2>1, <6>1, <6>2 DEF Loaded
          <6> QED
            BY <1>2, <5>2, <6>3
        <5>3. CASE j > i
          <6>1. host[s][j] = 0
            BY <1>0, <1>2, <5>3 DEF TaskInv, HostInv
          <6> QED
            BY <1>2, <2>5, <5>3, <6>1
        <5> QED
          BY <1>2, <5>1, <5>2, <5>3
      <4>2. i + 1 <= Len(blocks[s]) + 1 /\ \A j \in 1..Len(blocks[s]) : Readable(file[s], blocks[s][j]) => Stored(file[s], blocks[s][j])
        BY <1>0, <1>1, <1>2 DEF TaskInv, HostInv
      <4> QED
        BY <1>0, <1>4, <2>1, <2>5, <4>1, <4>2 DEF HostInv
    <3>5. WorkInv(s)'
      <4>1. fail[s] = FALSE
        BY <1>0 DEF TaskInv, QuietInv
      <4> QED
        BY <1>0, <1>7, <2>1, <4>1 DEF WorkInv, Busy
    <3> QED
      BY <3>1, <3>2, <3>3, <3>4, <3>5 DEF TaskInv
  <2>8. Types'
    BY <2>2, <2>3 DEF Types
  <2> QED
    BY <1>a, <2>2, <2>6, <2>7, <2>8, Combine
<1>10. CASE Return(s, "err") /\ UNCHANGED <<pool, peak>>
  <2>1. ReturnWith(s, "err", Held(s)) /\ pool' = pool /\ peak' = peak
    BY <1>10 DEF Return
  <2>2. host' = [host EXCEPT ![s] = <<>>] /\ lost' = lost \cup Held(s)
    BY <2>1 DEF ReturnWith
  <2>3. PoolType' /\ OwnInv' /\ CapInv' /\ \A t \in Task : Kept(t)
    BY <2>1, <2>2, PlainReturn
  <2> QED
    BY <1>7, <1>8, <1>a, <2>1, <2>3, ReturnInv
<1>11. CASE \E b \in 1..(Len(pool) + 1) : Acquire(e.size, b, <<>>) /\ ReturnWith(s, "err", Held(s) \cup {b})
  <2> PICK b \in 1..(Len(pool) + 1) : Acquire(e.size, b, <<>>) /\ ReturnWith(s, "err", Held(s) \cup {b})
    BY <1>11
  <2>1. host' = [host EXCEPT ![s] = <<>>] /\ lost' = lost \cup (Held(s) \cup {b})
    BY DEF ReturnWith
  <2>2. PoolType' /\ OwnInv' /\ CapInv' /\ \A t \in Task : Kept(t)
    BY <1>3, <2>1, AcquireReturn
  <2> QED
    BY <1>7, <1>8, <1>a, <2>2, ReturnInv
<1> QED
  BY <1>9, <1>10, <1>11, ZenonT(60) DEF Fill, c

-----------------------------------------------------------------------------
(* Steps of the workers.                                                   *)

\* A worker moves and the others do not.
LEMMA WorkerChange ==
  ASSUME Types, NEW s \in Task, NEW w \in Worker, NEW l \in {"off", "claim", "take", "copy"}, NEW i \in Nat,
         WorkerGoto(s, w, l, i)
  PROVE  /\ worker' \in [Task -> [Worker -> WorkerRec]]
         /\ worker'[s][w].at = l /\ worker'[s][w].i = i
         /\ \A v \in Worker \ {w} : worker'[s][v] = worker[s][v]
         /\ \A t \in Task \ {s} : worker'[t] = worker[t]
BY DEF WorkerGoto, Types, ControlType, WorkerRec

\* While the workers run, the request's own part does not change.
LEMMA JoinQuiet ==
  ASSUME NEW s \in Task, TaskInv(s), pc[s] = "join",
         UNCHANGED <<pc, kind, list, blocks, pos, file, manifest>>
  PROVE  QuietInv(s)' /\ ListInv(s)' /\ LayoutInv(s)' /\ DrainInv(s)'
<1>1. QuietInv(s)'
  BY DEF TaskInv, QuietInv, Ended
<1>2. ListInv(s)'
  BY DEF TaskInv, ListInv
<1>3. LayoutInv(s)'
  BY DEF TaskInv, LayoutInv, Listed
<1>4. DrainInv(s)'
  BY DEF DrainInv
<1> QED
  BY <1>1, <1>2, <1>3, <1>4

\* The tasks of a request whose workers run.
LEMMA JoinFacts ==
  ASSUME WorkersInv, NEW s \in Task, NEW w \in Worker, worker[s][w].at # "off"
  PROVE  /\ TaskInv(s) /\ Types /\ pc[s] = "join" /\ kind[s] \in {"snapshot", "restore"}
         /\ host[s] \in Seq(Nat) /\ Len(host[s]) \in Nat /\ Len(host[s]) = Len(blocks[s])
         /\ DOMAIN blocks[s] = 1..Len(host[s]) /\ next[s] \in Nat \ {0} /\ worker[s][w].i \in Nat
         /\ \A j \in 1..Len(host[s]) : blocks[s][j].size \in Nat \ {0} /\ blocks[s][j].base \in Nat
<1>1. TaskInv(s) /\ Types
  BY DEF WorkersInv
<1>2. pc[s] = "join" /\ kind[s] \in {"snapshot", "restore"} /\ next[s] \in Nat \ {0} /\ host[s] \in Seq(Nat)
  BY <1>1 DEF TaskInv, QuietInv, Types, ControlType, PoolType
<1>3. Len(host[s]) = Len(blocks[s])
  BY <1>1, <1>2 DEF TaskInv, HostInv
<1>4. blocks[s] \in Seq(BlockRec) \/ blocks[s] \in Seq(Entry)
  BY <1>1 DEF Types, DataType
<1>5. DOMAIN blocks[s] = 1..Len(host[s])
  BY <1>3, <1>4
<1>6. \A j \in 1..Len(host[s]) : blocks[s][j] \in BlockRec \/ blocks[s][j] \in Entry
  BY <1>3, <1>4
<1>7. worker[s][w].i \in Nat
  BY <1>1 DEF Types, ControlType, WorkerRec
<1> QED
  BY <1>1, <1>2, <1>3, <1>5, <1>6, <1>7, BlockFacts, EntryFacts

\* No two workers claim the same task.
LEMMA ClaimInv ==
  ASSUME WorkersInv, NEW s \in Task, NEW w \in Worker, Claim(s, w)
  PROVE  WorkersInv'
<1> PICK n \in Nat \ {0} : n = next[s]
  BY DEF WorkersInv, Types, ControlType
<1>0. /\ worker[s][w].at = "claim" /\ WorkerGoto(s, w, "take", n) /\ next' = [next EXCEPT ![s] = @ + 1]
      /\ UNCHANGED <<pool, image, pc, kind, list, blocks, host, err, fail, pos, file, manifest, mem, lost, peak>>
  BY DEF Claim, WorkerAt, request, output, ghosts, disk
<1>1. /\ TaskInv(s) /\ Types /\ pc[s] = "join" /\ Len(host[s]) \in Nat
  BY <1>0, JoinFacts
<1>2. /\ worker' \in [Task -> [Worker -> WorkerRec]]
      /\ worker'[s][w].at = "take" /\ worker'[s][w].i = n
      /\ \A v \in Worker \ {w} : worker'[s][v] = worker[s][v]
      /\ \A t \in Task \ {s} : worker'[t] = worker[t]
  BY <1>0, <1>1, WorkerChange
<1>3. next'[s] = n + 1 /\ next' \in [Task -> Nat \ {0}] /\ \A t \in Task \ {s} : next'[t] = next[t]
  BY <1>0, <1>1 DEF Types, ControlType
<1>4. ControlType' /\ FailType' /\ DataType' /\ host' \in [Task -> Seq(Nat)]
  BY <1>0, <1>1, <1>2, <1>3 DEF Types, ControlType, FailType, DataType, PoolType
<1>5. \A t \in Task \ {s} : Same(t)
  BY <1>0, <1>2, <1>3 DEF Same
<1>6. QuietInv(s)' /\ ListInv(s)' /\ LayoutInv(s)' /\ DrainInv(s)'
  BY <1>0, <1>1, JoinQuiet
<1>7. \A i : (Loaded(s, i)' <=> Loaded(s, i)) /\ (Written(s, i)' <=> Written(s, i))
  BY <1>0 DEF Loaded, Written
<1>8. HostInv(s)'
  <2>1. kind[s] = "snapshot" => \A i \in 1..Len(host[s]) :
          /\ i >= n + 1 => host[s][i] = 0
          /\ \A v \in Worker : worker'[s][v].at = "take" /\ worker'[s][v].i = i => host[s][i] = 0
    BY <1>1, <1>2 DEF TaskInv, HostInv
  <2> QED
    BY <1>0, <1>1, <1>3, <1>7, <2>1 DEF TaskInv, HostInv
<1>9. WorkInv(s)'
  <2>1. \A v \in Worker : Busy(s, v) => v # w /\ worker[s][v].i \in Nat /\ 1 <= worker[s][v].i /\ worker[s][v].i < n
    BY <1>0, <1>1 DEF TaskInv, WorkInv, Busy, Types, ControlType, WorkerRec
  <2>2. \A v \in Worker : Busy(s, v)' <=> v = w \/ Busy(s, v)
    BY <1>2 DEF Busy
  <2>3. \A v \in Worker : Busy(s, v)' => 1 <= worker'[s][v].i /\ worker'[s][v].i < n + 1
    BY <1>2, <2>1, <2>2
  <2>4. \A u, v \in Worker : Busy(s, u)' /\ Busy(s, v)' /\ worker'[s][u].i = worker'[s][v].i => u = v
    BY <1>1, <1>2, <2>1, <2>2 DEF TaskInv, WorkInv
  <2>5. \A v \in Worker : worker'[s][v].at = "copy" =>
          /\ worker'[s][v].i \in 1..Len(host[s])
          /\ host[s][worker'[s][v].i] # 0
          /\ blocks[s][worker'[s][v].i].size <= pool[host[s][worker'[s][v].i]].cap
    BY <1>1, <1>2, SMTT(60) DEF TaskInv, WorkInv
  <2>6. ASSUME fail[s] = FALSE, NEW i \in 1..Len(host[s]), i < n + 1
        PROVE  AtTask(s, i)' \/ IF kind[s] = "snapshot" THEN Loaded(s, i) ELSE Written(s, i)
    <3>1. CASE i = n
      BY <1>2, <2>2, <3>1 DEF AtTask
    <3>2. CASE i < n
      <4>1. AtTask(s, i) => AtTask(s, i)'
        BY <1>2, <2>1, <2>2 DEF AtTask
      <4> QED
        BY <1>1, <2>6, <3>2, <4>1 DEF TaskInv, WorkInv
    <3> QED
      BY <1>1, <2>6, <3>1, <3>2
  <2>7. \E v \in Worker : worker'[s][v].at # "off"
    BY <1>2
  <2>8. pos[s] = 1 /\ (fail[s] = TRUE => err[s] # {})
    BY <1>1 DEF TaskInv, WorkInv
  <2> QED
    BY <1>0, <1>3, <1>7, <2>3, <2>4, <2>5, <2>6, <2>7, <2>8, ZenonT(60) DEF WorkInv
<1>10. TaskInv(s)'
  BY <1>6, <1>8, <1>9 DEF TaskInv
<1>11. \A t \in Task, i \in Nat : \A b : Has(t, i, b)' <=> Has(t, i, b)
  BY <1>0 DEF Has
<1> QED
  BY <1>0, <1>4, <1>5, <1>10, <1>11, CombineQuiet

\* A worker stops: it is off and everything it had a part in still holds, because
\* something failed or its task was none.
LEMMA OffWorkers ==
  ASSUME NEW s \in Task, TaskInv(s), NEW w \in Worker, pc[s] = "join", Len(host[s]) \in Nat,
         worker'[s][w].at = "off", \A v \in Worker \ {w} : worker'[s][v] = worker[s][v],
         UNCHANGED <<pool, pc, kind, blocks, host, next, pos, mem>>,
         fail'[s] = TRUE => err'[s] # {},
         fail'[s] = FALSE => fail[s] = FALSE /\ Len(host[s]) < next[s] /\ worker[s][w].i \notin 1..Len(host[s])
  PROVE  HostInv(s)' /\ WorkInv(s)'
<1>1. \A i : (Loaded(s, i)' <=> Loaded(s, i)) /\ (Written(s, i)' <=> Written(s, i))
  BY DEF Loaded, Written
<1>2. HostInv(s)'
  <2>1. kind[s] = "snapshot" => \A i \in 1..Len(host[s]) :
          /\ i >= next[s] => host[s][i] = 0
          /\ \A v \in Worker : worker'[s][v].at = "take" /\ worker'[s][v].i = i => host[s][i] = 0
    BY DEF TaskInv, HostInv
  <2> QED
    BY <1>1, <2>1 DEF TaskInv, HostInv
<1>3. WorkInv(s)'
  <2>1. \A v \in Worker : Busy(s, v)' <=> v # w /\ Busy(s, v)
    BY DEF Busy
  <2>2. \A v \in Worker : Busy(s, v)' => 1 <= worker'[s][v].i /\ worker'[s][v].i < next[s]
    BY <2>1 DEF TaskInv, WorkInv
  <2>3. \A u, v \in Worker : Busy(s, u)' /\ Busy(s, v)' /\ worker'[s][u].i = worker'[s][v].i => u = v
    BY <2>1 DEF TaskInv, WorkInv
  <2>4. \A v \in Worker : worker'[s][v].at = "copy" =>
          /\ worker'[s][v].i \in 1..Len(host[s])
          /\ host[s][worker'[s][v].i] # 0
          /\ blocks[s][worker'[s][v].i].size <= pool[host[s][worker'[s][v].i]].cap
    BY ZenonT(60) DEF TaskInv, WorkInv
  <2>5. ASSUME fail'[s] = FALSE, NEW i \in 1..Len(host[s]), i < next[s]
        PROVE  AtTask(s, i)' \/ IF kind[s] = "snapshot" THEN Loaded(s, i) ELSE Written(s, i)
    <3>1. AtTask(s, i) => AtTask(s, i)'
      BY <2>1, <2>5 DEF AtTask
    <3> QED
      BY <2>5, <3>1 DEF TaskInv, WorkInv
  <2>6. pos[s] = 1
    BY DEF TaskInv, WorkInv
  <2> QED
    BY <1>1, <2>2, <2>3, <2>4, <2>5, <2>6 DEF WorkInv
<1> QED
  BY <1>2, <1>3

\* A worker that fails sets the flag and its task's error.
LEMMA TaskFailsInv ==
  ASSUME WorkersInv, NEW s \in Task, NEW w \in Worker, worker[s][w].at # "off", TaskFails(s, w),
         UNCHANGED <<pool, image, pc, kind, list, blocks, host, next, pos, file, manifest, mem, lost, peak>>
  PROVE  WorkersInv'
<1>1. /\ TaskInv(s) /\ Types /\ pc[s] = "join" /\ Len(host[s]) \in Nat /\ worker[s][w].i \in Nat
  BY JoinFacts
<1>2. /\ WorkerGoto(s, w, "off", 0) /\ err' = [err EXCEPT ![s] = @ \cup {worker[s][w].i}]
      /\ fail' = [fail EXCEPT ![s] = TRUE]
  BY DEF TaskFails
<1>3. /\ worker' \in [Task -> [Worker -> WorkerRec]]
      /\ worker'[s][w].at = "off"
      /\ \A v \in Worker \ {w} : worker'[s][v] = worker[s][v]
      /\ \A t \in Task \ {s} : worker'[t] = worker[t]
  BY <1>1, <1>2, WorkerChange
<1>4. fail'[s] = TRUE /\ \A t \in Task \ {s} : fail'[t] = fail[t]
  BY <1>1, <1>2, Zenon DEF Types, FailType
<1>5. err'[s] # {} /\ \A t \in Task \ {s} : err'[t] = err[t]
  BY <1>1, <1>2 DEF Types, FailType
<1>6. fail' \in [Task -> BOOLEAN]
  BY <1>1, <1>2, Zenon DEF Types, FailType
<1>7. err' \in [Task -> SUBSET Nat]
  BY <1>1, <1>2 DEF Types, FailType
<1>8. ControlType' /\ FailType' /\ DataType' /\ host' \in [Task -> Seq(Nat)]
  BY <1>1, <1>3, <1>6, <1>7 DEF Types, ControlType, FailType, DataType, PoolType
<1>9. \A t \in Task \ {s} : Same(t)
  BY <1>3, <1>4, <1>5 DEF Same
<1>10. HostInv(s)' /\ WorkInv(s)'
  BY <1>1, <1>3, <1>4, <1>5, OffWorkers
<1>11. TaskInv(s)'
  BY <1>1, <1>10, JoinQuiet DEF TaskInv
<1>12. \A t \in Task, i \in Nat : \A b : Has(t, i, b)' <=> Has(t, i, b)
  BY DEF Has
<1> QED
  BY <1>8, <1>9, <1>11, <1>12, CombineQuiet

\* A worker looks at the flag, acquires, or leaves its task undone.
LEMMA TakeInv ==
  ASSUME WorkersInv, NEW s \in Task, NEW w \in Worker, Take(s, w)
  PROVE  WorkersInv'
<1>0. /\ worker[s][w].at = "take"
      /\ UNCHANGED <<image, pc, kind, list, blocks, next, pos, file, manifest, mem, lost>>
  BY DEF Take, WorkerAt, request, output, disk
<1>1. /\ TaskInv(s) /\ Types /\ pc[s] = "join" /\ kind[s] \in {"snapshot", "restore"}
      /\ host[s] \in Seq(Nat) /\ Len(host[s]) \in Nat /\ Len(host[s]) = Len(blocks[s])
      /\ DOMAIN blocks[s] = 1..Len(host[s]) /\ next[s] \in Nat \ {0} /\ worker[s][w].i \in Nat
      /\ \A j \in 1..Len(host[s]) : blocks[s][j].size \in Nat \ {0} /\ blocks[s][j].base \in Nat
  BY <1>0, JoinFacts
<1> PICK i \in Nat : i = worker[s][w].i
  BY <1>1
<1>2. 1 <= i /\ i < next[s]
  BY <1>0, <1>1 DEF TaskInv, WorkInv, Busy
<1>3. QuietInv(s)' /\ ListInv(s)' /\ LayoutInv(s)' /\ DrainInv(s)'
  BY <1>0, <1>1, JoinQuiet
<1>4. fail[s] \in BOOLEAN
  BY <1>1 DEF Types, FailType
<1>5. CASE /\ i \notin DOMAIN blocks[s] \/ fail[s]
           /\ WorkerGoto(s, w, "off", 0) /\ UNCHANGED <<pool, host, err, fail, peak>>
  <2>1. /\ worker' \in [Task -> [Worker -> WorkerRec]]
        /\ worker'[s][w].at = "off"
        /\ \A v \in Worker \ {w} : worker'[s][v] = worker[s][v]
        /\ \A t \in Task \ {s} : worker'[t] = worker[t]
    BY <1>1, <1>5, WorkerChange
  <2>2. fail'[s] = FALSE => fail[s] = FALSE /\ Len(host[s]) < next[s] /\ i \notin 1..Len(host[s])
    BY <1>1, <1>2, <1>5
  <2>3. fail'[s] = TRUE => err'[s] # {}
    BY <1>1, <1>5 DEF TaskInv, WorkInv
  <2>4. HostInv(s)' /\ WorkInv(s)'
    BY <1>0, <1>1, <1>5, <2>1, <2>2, <2>3, OffWorkers
  <2>5. TaskInv(s)'
    BY <1>3, <2>4 DEF TaskInv
  <2>6. ControlType' /\ FailType' /\ DataType' /\ host' \in [Task -> Seq(Nat)]
    BY <1>0, <1>1, <1>5, <2>1 DEF Types, ControlType, FailType, DataType, PoolType
  <2>7. \A t \in Task \ {s} : Same(t)
    BY <1>0, <1>5, <2>1 DEF Same
  <2>8. \A t \in Task, j \in Nat : \A b : Has(t, j, b)' <=> Has(t, j, b)
    BY <1>5 DEF Has
  <2> QED
    BY <1>0, <1>5, <2>5, <2>6, <2>7, <2>8, CombineQuiet
<1>6. CASE /\ ~(i \notin DOMAIN blocks[s] \/ fail[s]) /\ kind[s] = "restore"
           /\ WorkerGoto(s, w, "copy", i) /\ UNCHANGED <<pool, host, err, fail, peak>>
  <2>1. /\ worker' \in [Task -> [Worker -> WorkerRec]]
        /\ worker'[s][w].at = "copy" /\ worker'[s][w].i = i
        /\ \A v \in Worker \ {w} : worker'[s][v] = worker[s][v]
        /\ \A t \in Task \ {s} : worker'[t] = worker[t]
    BY <1>1, <1>6, WorkerChange
  <2>2. i \in 1..Len(host[s]) /\ Loaded(s, i)
    BY <1>1, <1>6 DEF TaskInv, HostInv
  <2>3. \A j : (Loaded(s, j)' <=> Loaded(s, j)) /\ (Written(s, j)' <=> Written(s, j))
    BY <1>0, <1>6 DEF Loaded, Written
  <2>4. HostInv(s)'
    BY <1>0, <1>1, <1>6, <2>3 DEF TaskInv, HostInv
  <2>5. \A v \in Worker : (Busy(s, v)' <=> Busy(s, v)) /\ worker'[s][v].i = worker[s][v].i
    BY <1>0, <2>1 DEF Busy
  <2>6. \A j : AtTask(s, j)' <=> AtTask(s, j)
    BY <2>5 DEF AtTask
  <2>7. \A v \in Worker : worker'[s][v].at = "copy" =>
          /\ worker'[s][v].i \in 1..Len(host[s])
          /\ host[s][worker'[s][v].i] # 0
          /\ blocks[s][worker'[s][v].i].size <= pool[host[s][worker'[s][v].i]].cap
    BY <1>1, <2>1, <2>2, ZenonT(60) DEF TaskInv, WorkInv, Loaded
  <2>8. \E v \in Worker : worker'[s][v].at # "off"
    BY <2>1
  <2>9. WorkInv(s)'
    BY <1>0, <1>1, <1>6, <2>3, <2>5, <2>6, <2>7, <2>8, ZenonT(60) DEF TaskInv, WorkInv
  <2>10. TaskInv(s)'
    BY <1>3, <2>4, <2>9 DEF TaskInv
  <2>11. ControlType' /\ FailType' /\ DataType' /\ host' \in [Task -> Seq(Nat)]
    BY <1>0, <1>1, <1>6, <2>1 DEF Types, ControlType, FailType, DataType, PoolType
  <2>12. \A t \in Task \ {s} : Same(t)
    BY <1>0, <1>6, <2>1 DEF Same
  <2>13. \A t \in Task, j \in Nat : \A b : Has(t, j, b)' <=> Has(t, j, b)
    BY <1>6 DEF Has
  <2> QED
    BY <1>0, <1>6, <2>10, <2>11, <2>12, <2>13, CombineQuiet
<1>7. CASE /\ ~(i \notin DOMAIN blocks[s] \/ fail[s]) /\ kind[s] = "snapshot"
           /\ \E b \in 1..(Len(pool) + 1) :
                Acquire(blocks[s][i].size, b, <<>>) /\ host' = [host EXCEPT ![s][i] = b]
           /\ WorkerGoto(s, w, "copy", i) /\ UNCHANGED <<err, fail>>
  <2> PICK b \in 1..(Len(pool) + 1) : Acquire(blocks[s][i].size, b, <<>>) /\ host' = [host EXCEPT ![s][i] = b]
    BY <1>7, ZenonT(60)
  <2>1. /\ worker' \in [Task -> [Worker -> WorkerRec]]
        /\ worker'[s][w].at = "copy" /\ worker'[s][w].i = i
        /\ \A v \in Worker \ {w} : worker'[s][v] = worker[s][v]
        /\ \A t \in Task \ {s} : worker'[t] = worker[t]
    BY <1>1, <1>7, WorkerChange, SMTT(60)
  <2>2. i \in 1..Len(host[s]) /\ host[s][i] = 0
    BY <1>0, <1>1, <1>7, ZenonT(60) DEF TaskInv, HostInv
  <2> PICK n \in Nat : n = blocks[s][i].size
    BY <1>1, <2>2, ZenonT(60)
  <2>3. /\ PoolType' /\ OwnInv' /\ CapInv'
        /\ \A t \in Task : Kept(t)
        /\ b # 0 /\ Placed(n, b, 0, <<>>)
    <3>1. <<>> \in [1..0 -> Nat] /\ 0 <= n /\ 0 \in Nat
      OBVIOUS
    <3> QED
      BY <1>0, <2>2, <3>1, AcquireInv, ZenonT(60)
  <2>4. host \in [Task -> Seq(Nat)]
    BY <1>1, SMTT(60) DEF Types, PoolType
  <2>5. /\ host'[s][i] = b /\ Len(host'[s]) = Len(host[s])
        /\ \A j \in 1..Len(host[s]) : j # i => host'[s][j] = host[s][j]
        /\ \A t \in Task \ {s} : host'[t] = host[t]
    BY <2>2, <2>4, SMTT(60)
  <2>6. ASSUME NEW j \in 1..Len(host[s]), j # i, host[s][j] # 0
        PROVE  host'[s][j] = host[s][j] /\ pool'[host[s][j]] = pool[host[s][j]]
    BY <2>3, <2>5, <2>6, SMTT(60) DEF Kept
  <2>7. \A j \in 1..Len(host[s]) : Loaded(s, j) => j # i /\ Loaded(s, j)'
    <3> SUFFICES ASSUME NEW j \in 1..Len(host[s]), Loaded(s, j) PROVE j # i /\ Loaded(s, j)'
      OBVIOUS
    <3>1. j # i /\ host[s][j] # 0
      BY <2>2, SMTT(60) DEF Loaded
    <3>2. host'[s][j] = host[s][j] /\ pool'[host[s][j]] = pool[host[s][j]]
      BY <2>6, <3>1
    <3> QED
      BY <1>0, <3>1, <3>2, ZenonT(60) DEF Loaded
  <2>8. \A v \in Worker : (Busy(s, v)' <=> Busy(s, v)) /\ worker'[s][v].i = worker[s][v].i
    BY <1>0, <2>1, SMTT(60) DEF Busy
  <2>9. \A v \in Worker \ {w} : Busy(s, v) => worker[s][v].i # i
    BY <1>0, <1>1, ZenonT(60) DEF TaskInv, WorkInv, Busy
  <2>10. HostInv(s)'
    <3>1. \A j \in 1..Len(host'[s]) :
         /\ j >= next[s] => host'[s][j] = 0
         /\ \A v \in Worker : worker'[s][v].at = "take" /\ worker'[s][v].i = j => host'[s][j] = 0
      <4> SUFFICES ASSUME NEW j \in 1..Len(host[s])
                   PROVE  /\ j >= next[s] => host'[s][j] = 0
                          /\ \A v \in Worker : worker'[s][v].at = "take" /\ worker'[s][v].i = j => host'[s][j] = 0
        BY <2>5, SMTT(60)
      <4>1. CASE j = i
        BY <1>1, <1>2, <2>1, <2>8, <2>9, <4>1, SMTT(60) DEF Busy
      <4>2. CASE j # i
        <5>1. host'[s][j] = host[s][j]
          BY <2>5, <4>2
        <5>2. \A v \in Worker : worker'[s][v].at = "take" => worker'[s][v] = worker[s][v]
          BY <2>1
        <5>3. /\ j >= next[s] => host[s][j] = 0
              /\ \A v \in Worker : worker[s][v].at = "take" /\ worker[s][v].i = j => host[s][j] = 0
          BY <1>1, <1>7, SMTT(60) DEF TaskInv, HostInv
        <5> QED
          BY <5>1, <5>2, <5>3, SMTT(60)
      <4> QED
        BY <4>1, <4>2, SMTT(60)
    <3> QED
      BY <1>0, <1>1, <1>7, <2>5, <3>1, ZenonT(60) DEF HostInv
  <2>11. WorkInv(s)'
    <3>1. \A j : AtTask(s, j)' <=> AtTask(s, j)
      BY <2>8 DEF AtTask
    <3>2. ASSUME NEW v \in Worker, worker'[s][v].at = "copy"
          PROVE  /\ worker'[s][v].i \in 1..Len(host'[s])
                 /\ host'[s][worker'[s][v].i] # 0
                 /\ blocks[s][worker'[s][v].i].size <= pool'[host'[s][worker'[s][v].i]].cap
      <4>1. CASE v = w
        BY <2>1, <2>2, <2>3, <2>5, <4>1, ZenonT(60) DEF Placed
      <4>2. CASE v # w
        <5> PICK j \in Nat : j = worker[s][v].i
          BY <1>1, SMTT(60) DEF Types, ControlType, WorkerRec
        <5>1. /\ worker[s][v].at = "copy" /\ worker'[s][v].i = j /\ j # i
          BY <2>1, <2>9, <3>2, <4>2 DEF Busy
        <5>2. j \in 1..Len(host[s]) /\ host[s][j] # 0 /\ blocks[s][j].size <= pool[host[s][j]].cap
          BY <1>1, <5>1, ZenonT(60) DEF TaskInv, WorkInv
        <5> QED
          BY <2>5, <2>6, <5>1, <5>2, ZenonT(60)
      <4> QED
        BY <4>1, <4>2, ZenonT(60)
    <3>3. \A j \in 1..Len(host'[s]) : fail[s] = FALSE /\ j < next[s] =>
            AtTask(s, j)' \/ IF kind[s] = "snapshot" THEN Loaded(s, j)' ELSE Written(s, j)'
      BY <1>1, <1>7, <2>5, <2>7, <3>1, ZenonT(60) DEF TaskInv, WorkInv
    <3>4. \E v \in Worker : worker'[s][v].at # "off"
      BY <2>1
    <3>5. \A v \in Worker : Busy(s, v)' => 1 <= worker'[s][v].i /\ worker'[s][v].i < next[s]
      BY <1>1, <2>8, ZenonT(60) DEF TaskInv, WorkInv
    <3>6. \A u, v \in Worker : Busy(s, u)' /\ Busy(s, v)' /\ worker'[s][u].i = worker'[s][v].i => u = v
      BY <1>1, <2>8, ZenonT(60) DEF TaskInv, WorkInv
    <3>7. pos[s] = 1 /\ (fail[s] = TRUE => err[s] # {})
      BY <1>1, ZenonT(60) DEF TaskInv, WorkInv
    <3> QED
      BY <1>0, <1>7, <3>2, <3>3, <3>4, <3>5, <3>6, <3>7, ZenonT(60) DEF WorkInv
  <2>12. TaskInv(s)'
    BY <1>3, <2>10, <2>11 DEF TaskInv
  <2>13. Types'
    BY <1>0, <1>1, <1>7, <2>1, <2>3, ZenonT(60) DEF Types, ControlType, FailType, DataType
  <2>14. \A t \in Task \ {s} : Same(t) /\ Kept(t)
    BY <1>0, <1>7, <2>1, <2>3, <2>5, ZenonT(60) DEF Same
  <2>15. Sound(image)'
    BY <1>0 DEF WorkersInv
  <2> QED
    BY <2>3, <2>12, <2>13, <2>14, <2>15, Combine, SMTT(60)
<1>8. CASE TaskFails(s, w) /\ UNCHANGED <<pool, host, peak>>
  BY <1>0, <1>8, TaskFailsInv
<1> QED
  BY <1>5, <1>6, <1>7, <1>8, SMTT(60) DEF Take

\* A worker has done its task and goes for another; the others' tasks are as before.
LEMMA DoneWorkers ==
  ASSUME NEW s \in Task, TaskInv(s), NEW w \in Worker, pc[s] = "join", Len(host[s]) \in Nat,
         worker'[s][w].at = "claim", \A v \in Worker \ {w} : worker'[s][v] = worker[s][v],
         UNCHANGED <<pc, kind, blocks, host, next, pos, err, fail>>,
         \A i \in 1..Len(host[s]) : host[s][i] # 0 => pool'[host[s][i]].cap = pool[host[s][i]].cap,
         \A i \in 1..Len(host[s]) : Loaded(s, i) => Loaded(s, i)',
         \A i \in 1..Len(host[s]) : Written(s, i) => Written(s, i)',
         NEW i0, i0 = worker[s][w].i, IF kind[s] = "snapshot" THEN Loaded(s, i0)' ELSE Written(s, i0)'
  PROVE  HostInv(s)' /\ WorkInv(s)'
<1>1. HostInv(s)'
  <2>1. kind[s] = "snapshot" => \A i \in 1..Len(host[s]) :
          /\ i >= next[s] => host[s][i] = 0
          /\ \A v \in Worker : worker'[s][v].at = "take" /\ worker'[s][v].i = i => host[s][i] = 0
    BY DEF TaskInv, HostInv
  <2> QED
    BY <2>1 DEF TaskInv, HostInv
<1>2. WorkInv(s)'
  <2>1. \A v \in Worker : Busy(s, v)' <=> v # w /\ Busy(s, v)
    BY DEF Busy
  <2>2. \A v \in Worker : Busy(s, v)' => 1 <= worker'[s][v].i /\ worker'[s][v].i < next[s]
    BY <2>1 DEF TaskInv, WorkInv
  <2>3. \A u, v \in Worker : Busy(s, u)' /\ Busy(s, v)' /\ worker'[s][u].i = worker'[s][v].i => u = v
    BY <2>1 DEF TaskInv, WorkInv
  <2>4. \A v \in Worker : worker'[s][v].at = "copy" =>
          /\ worker'[s][v].i \in 1..Len(host[s])
          /\ host[s][worker'[s][v].i] # 0
          /\ blocks[s][worker'[s][v].i].size <= pool'[host[s][worker'[s][v].i]].cap
    BY ZenonT(60) DEF TaskInv, WorkInv
  <2>5. ASSUME fail[s] = FALSE, NEW i \in 1..Len(host[s]), i < next[s]
        PROVE  AtTask(s, i)' \/ IF kind[s] = "snapshot" THEN Loaded(s, i)' ELSE Written(s, i)'
    <3>1. CASE i = i0
      BY <3>1
    <3>2. CASE i # i0
      <4>1. AtTask(s, i) => AtTask(s, i)'
        BY <2>1, <3>2 DEF AtTask
      <4> QED
        BY <2>5, <4>1 DEF TaskInv, WorkInv
    <3> QED
      BY <3>1, <3>2
  <2>6. \E v \in Worker : worker'[s][v].at # "off"
    OBVIOUS
  <2>7. pos[s] = 1 /\ (fail[s] = TRUE => err[s] # {})
    BY DEF TaskInv, WorkInv
  <2> QED
    BY <2>2, <2>3, <2>4, <2>5, <2>6, <2>7, ZenonT(60) DEF WorkInv
<1> QED
  BY <1>1, <1>2

\* What the cells of an address range hold.
LEMMA CellsFacts ==
  ASSUME NEW base \in Nat, NEW size \in Nat
  PROVE  Cells(base, size) \in [1..size -> Nat] /\ \A k \in 1..size : Cells(base, size)[k] = base + k - 1
BY DEF Cells

\* The fields of a buffer of the pool.
LEMMA PoolAt ==
  ASSUME PoolType, NEW h \in 1..Len(pool)
  PROVE  pool[h] \in BufferRec /\ pool[h].cap \in Nat /\ Len(pool[h].data) = pool[h].cap /\ pool[h].data \in Seq(Nat)
<1>1. pool[h] \in BufferRec /\ Len(pool[h].data) = pool[h].cap
  BY DEF PoolType
<1> QED
  BY <1>1 DEF BufferRec

\* The first cells of a buffer.
LEMMA ContentsFacts ==
  ASSUME PoolType, NEW h \in 1..Len(pool), NEW n \in Nat, n <= pool[h].cap, NEW k \in 1..n
  PROVE  Contents(h, n)[k] = pool[h].data[k]
<1>1. pool[h].cap \in Nat /\ h # 0
  BY PoolAt
<1>2. k <= pool[h].cap
  BY <1>1
<1> QED
  BY <1>1, <1>2 DEF Contents

\* Replacing one element of a sequence.
LEMMA ReplaceFacts ==
  ASSUME NEW S, NEW q \in Seq(S), NEW h \in 1..Len(q), NEW y \in S, NEW r, r = [q EXCEPT ![h] = y]
  PROVE  r \in Seq(S) /\ Len(r) = Len(q) /\ r[h] = y /\ \A x \in 1..Len(q) : x # h => r[x] = q[x]
OBVIOUS

\* The address of a cell from its place in a range.
LEMMA Shift == ASSUME NEW x \in Nat, NEW base \in Nat PROVE base + (x - base + 1) - 1 = x
OBVIOUS

\* Buffer h holds size cells from base, and the pool is otherwise as it was.
Holds(h, base, size) ==
  /\ pool' \in Seq(BufferRec) /\ Len(pool') = Len(pool)
  /\ \A x \in 1..Len(pool) : x # h => pool'[x] = pool[x]
  /\ \A x \in 1..Len(pool) : pool'[x].cap = pool[x].cap /\ pool'[x].free = pool[x].free
                            /\ Len(pool'[x].data) = pool'[x].cap
  /\ \A k \in 1..size : pool'[h].data[k] = base + k - 1

\* A buffer after the copy from the device.
LEMMA FillBuffer ==
  ASSUME PoolType, NEW h \in 1..Len(pool), NEW base \in Nat, NEW size \in Nat, size <= pool[h].cap,
         pool' = [pool EXCEPT ![h] = Filled(@, Cells(base, size))]
  PROVE  Holds(h, base, size)
<1> DEFINE c == Cells(base, size)
           y == Filled(pool[h], c)
<1>1. pool \in Seq(BufferRec) /\ \A x \in 1..Len(pool) : pool[x] \in BufferRec /\ Len(pool[x].data) = pool[x].cap
  BY DEF PoolType
<1>2. c \in [1..size -> Nat] /\ \A k \in 1..size : c[k] = base + k - 1
  BY CellsFacts
<1> HIDE DEF c
<1>3. /\ y \in BufferRec /\ y.cap = pool[h].cap /\ y.free = pool[h].free /\ Len(y.data) = pool[h].cap
      /\ \A k \in 1..size : y.data[k] = c[k]
  BY <1>1, <1>2, FilledFacts, ZenonT(60)
<1>4. pool' = [pool EXCEPT ![h] = y]
  BY DEF c
<1> HIDE DEF y
<1>5. /\ pool' \in Seq(BufferRec) /\ Len(pool') = Len(pool) /\ pool'[h] = y
      /\ \A x \in 1..Len(pool) : x # h => pool'[x] = pool[x]
  BY <1>1, <1>3, <1>4
<1> QED
  BY <1>1, <1>2, <1>3, <1>5 DEF Holds

\* What a copy to the device writes at each address of the task belongs there.
LEMMA RestoreCells ==
  ASSUME WorkersInv, NEW s \in Task, NEW w \in Worker, worker[s][w].at = "copy", kind[s] = "restore",
         NEW i \in Nat, i = worker[s][w].i, NEW x \in Span(blocks[s][i])
  PROVE  Contents(host[s][i], blocks[s][i].size)[x - blocks[s][i].base + 1] = x /\ x \in Nat
<1> DEFINE h == host[s][i]
           n == blocks[s][i].size
           a == blocks[s][i].base
<1>1. /\ TaskInv(s) /\ PoolType /\ OwnInv /\ pc[s] = "join" /\ DOMAIN host[s] = 1..Len(host[s])
      /\ \A j \in 1..Len(host[s]) : blocks[s][j].size \in Nat \ {0} /\ blocks[s][j].base \in Nat
  BY JoinFacts DEF WorkersInv, Types
<1>2. i \in 1..Len(host[s]) /\ h # 0 /\ n <= pool[h].cap
  BY <1>1 DEF TaskInv, WorkInv
<1>3. n \in Nat /\ a \in Nat
  BY <1>1, <1>2
<1>4. \A k \in 1..n : pool[h].data[k] = a + k - 1
  BY <1>1, <1>2, ZenonT(60) DEF TaskInv, HostInv, Loaded
<1>5. Has(s, i, h)
  BY <1>1, <1>2 DEF Has
<1>6. h \in 1..Len(pool)
  BY <1>1, <1>5, HasType
<1>7. x \in a..(a + n - 1)
  BY DEF Span
<1> HIDE DEF h, n, a
<1>8. x \in Nat /\ x - a + 1 \in 1..n
  BY <1>3, <1>7
<1>9. Contents(h, n)[x - a + 1] = pool[h].data[x - a + 1]
  BY <1>1, <1>2, <1>3, <1>6, <1>8, ContentsFacts
<1>10. pool[h].data[x - a + 1] = a + (x - a + 1) - 1 /\ a + (x - a + 1) - 1 = x
  BY <1>3, <1>4, <1>8, Shift
<1> QED
  BY <1>8, <1>9, <1>10, Zenon DEF h, n, a

\* A worker copies its task's bytes from or to the device.
LEMMA CopyInv ==
  ASSUME WorkersInv, NEW s \in Task, NEW w \in Worker, Copy(s, w)
  PROVE  WorkersInv'
<1>0. /\ worker[s][w].at = "copy"
      /\ UNCHANGED <<image, pc, kind, list, blocks, host, next, pos, file, manifest, lost, peak>>
  BY ZenonT(60) DEF Copy, WorkerAt, request, ghosts, disk
<1>1. /\ TaskInv(s) /\ Types /\ pc[s] = "join" /\ kind[s] \in {"snapshot", "restore"}
      /\ host[s] \in Seq(Nat) /\ Len(host[s]) \in Nat /\ Len(host[s]) = Len(blocks[s])
      /\ worker[s][w].i \in Nat
      /\ \A j \in 1..Len(host[s]) : blocks[s][j].size \in Nat \ {0} /\ blocks[s][j].base \in Nat
  BY <1>0, JoinFacts
<1> PICK i \in Nat : i = worker[s][w].i
  BY <1>1
<1>2. /\ i \in 1..Len(host[s]) /\ host[s][i] # 0
      /\ blocks[s][i].size <= pool[host[s][i]].cap
  BY <1>0, <1>1 DEF TaskInv, WorkInv
<1> PICK b : b = blocks[s][i]
  OBVIOUS
<1> PICK h \in Nat : h = host[s][i]
  BY <1>1, <1>2, SMTT(60)
<1>3. PoolType /\ OwnInv /\ CapInv /\ Sound(image)'
  BY <1>0 DEF WorkersInv, Types
<1>4. Has(s, i, h)
  BY <1>1, <1>2 DEF Has
<1>5. /\ h \in 1..Len(pool) /\ pool[h] \in BufferRec /\ pool[h].cap \in Nat /\ Len(pool[h].data) = pool[h].cap
      /\ pool[h].data \in Seq(Nat)
  <2>1. h \in 1..Len(pool)
    BY <1>3, <1>4, HasType
  <2>2. pool[h] \in BufferRec /\ Len(pool[h].data) = pool[h].cap
    BY <1>3, <2>1, PoolAt
  <2> QED
    BY <1>3, <2>1, <2>2, PoolAt, ZenonT(60)
<1>6. b.size \in Nat \ {0} /\ b.base \in Nat /\ b.size <= pool[h].cap
  BY <1>1, <1>2, ZenonT(60)
<1>7. QuietInv(s)' /\ ListInv(s)' /\ LayoutInv(s)' /\ DrainInv(s)'
  BY <1>0, <1>1, JoinQuiet
<1>8. \A t \in Task, j \in Nat : \A x : Has(t, j, x)' <=> Has(t, j, x)
  BY <1>0 DEF Has
<1>9. CASE /\ kind[s] = "snapshot"
           /\ pool' = [pool EXCEPT ![h] = Filled(@, Cells(b.base, b.size))]
           /\ WorkerGoto(s, w, "claim", 0)
           /\ UNCHANGED <<mem, err, fail>>
  <2>1. /\ worker' \in [Task -> [Worker -> WorkerRec]]
        /\ worker'[s][w].at = "claim"
        /\ \A v \in Worker \ {w} : worker'[s][v] = worker[s][v]
        /\ \A t \in Task \ {s} : worker'[t] = worker[t]
    BY <1>1, <1>9, WorkerChange
  <2>5. /\ pool' \in Seq(BufferRec) /\ Len(pool') = Len(pool)
        /\ \A x \in 1..Len(pool) : x # h => pool'[x] = pool[x]
        /\ \A x \in 1..Len(pool) : pool'[x].cap = pool[x].cap /\ pool'[x].free = pool[x].free
                                  /\ Len(pool'[x].data) = pool'[x].cap
        /\ \A k \in 1..b.size : pool'[h].data[k] = b.base + k - 1
    <3>1. b.size \in Nat
      BY <1>6
    <3>2. Holds(h, b.base, b.size)
      BY <1>3, <1>5, <1>6, <1>9, <3>1, FillBuffer, Zenon
    <3> QED
      BY <3>2, ZenonT(60) DEF Holds
  <2>7. PoolType'
    BY <1>0, <1>3, <2>5, ZenonT(60) DEF PoolType
  <2>8. OwnInv'
    BY <1>0, <1>3, <1>8, <2>5, OwnKeep
  <2>9. CapInv'
    BY <1>0, <1>3, <2>5, CapKeep DEF PoolType
  <2>10. \A t \in Task \ {s} : Kept(t)
    <3>1. \A t \in Task \ {s}, j \in Nat : ~Has(t, j, h)
      BY <1>3, <1>4 DEF OwnInv
    <3> QED
      BY <1>3, <2>5, <3>1, KeptFacts, ZenonT(60)
  <2>11. \A j \in 1..Len(host[s]) : host[s][j] # 0 =>
           host[s][j] \in 1..Len(pool) /\ (j # i => host[s][j] # h)
    <3> SUFFICES ASSUME NEW j \in 1..Len(host[s]), host[s][j] # 0
                 PROVE  host[s][j] \in 1..Len(pool) /\ (j # i => host[s][j] # h)
      OBVIOUS
    <3>1. Has(s, j, host[s][j]) /\ j \in Nat
      BY <1>1 DEF Has
    <3>2. host[s][j] \in 1..Len(pool)
      BY <1>3, <3>1, HasType
    <3>3. host[s][j] = h => j = i
      BY <1>3, <1>4, <3>1 DEF OwnInv
    <3> QED
      BY <3>2, <3>3
  <2>12. Loaded(s, i)'
    BY <1>0, <1>2, <1>5, <1>6, <2>5, ZenonT(60) DEF Loaded
  <2>13. ASSUME NEW j \in 1..Len(host[s]), Loaded(s, j) PROVE Loaded(s, j)'
    <3>1. CASE j = i
      BY <2>12, <3>1
    <3>2. CASE j # i
      <4>1. host[s][j] # 0
        BY <2>13 DEF Loaded
      <4>2. pool'[host[s][j]] = pool[host[s][j]]
        BY <2>5, <2>11, <3>2, <4>1, ZenonT(60)
      <4> QED
        BY <1>0, <2>13, <4>2 DEF Loaded
    <3> QED
      BY <3>1, <3>2
  <2>14. \A j : Written(s, j) => Written(s, j)'
    BY <1>0, <1>9 DEF Written
  <2>15. \A j \in 1..Len(host[s]) : host[s][j] # 0 => pool'[host[s][j]].cap = pool[host[s][j]].cap
    BY <2>5, <2>11, ZenonT(60)
  <2>16. HostInv(s)' /\ WorkInv(s)'
    BY <1>0, <1>1, <1>9, <2>1, <2>12, <2>13, <2>14, <2>15, DoneWorkers, ZenonT(60)
  <2>17. TaskInv(s)'
    BY <1>7, <2>16 DEF TaskInv
  <2>18. Types'
    BY <1>0, <1>1, <1>9, <2>1, <2>7 DEF Types, ControlType, FailType, DataType
  <2>19. \A t \in Task \ {s} : Same(t)
    BY <1>0, <1>9, <2>1 DEF Same
  <2> QED
    BY <1>3, <2>8, <2>9, <2>10, <2>17, <2>18, <2>19, Combine
<1>10. CASE /\ kind[s] = "restore"
            /\ mem' = [mem EXCEPT ![s] =
                 [a \in Addr |-> IF a \in Span(b) THEN Contents(h, b.size)[a - b.base + 1] ELSE @[a]]]
            /\ WorkerGoto(s, w, "claim", 0)
            /\ UNCHANGED <<pool, err, fail>>
  <2>1. /\ worker' \in [Task -> [Worker -> WorkerRec]]
        /\ worker'[s][w].at = "claim"
        /\ \A v \in Worker \ {w} : worker'[s][v] = worker[s][v]
        /\ \A t \in Task \ {s} : worker'[t] = worker[t]
    BY <1>1, <1>10, WorkerChange, SMTT(60)
  <2>5. /\ mem' \in [Task -> [Addr -> Nat]]
        /\ \A x \in Addr : mem'[s][x] = IF x \in Span(b) THEN x ELSE mem[s][x]
        /\ \A t \in Task \ {s} : mem'[t] = mem[t]
    <3> DEFINE f == [a \in Addr |-> IF a \in Span(b) THEN Contents(h, b.size)[a - b.base + 1] ELSE mem[s][a]]
    <3>0. mem \in [Task -> [Addr -> Nat]]
      BY <1>1 DEF Types, DataType
    <3>1. mem' = [mem EXCEPT ![s] = f] /\ mem[s] \in [Addr -> Nat]
      BY <1>10, <3>0, SMTT(60)
    <3>a. \A x \in Span(b) : Contents(h, b.size)[x - b.base + 1] = x /\ x \in Nat
      <4> SUFFICES ASSUME NEW x \in Span(blocks[s][i])
                   PROVE  Contents(host[s][i], blocks[s][i].size)[x - blocks[s][i].base + 1] = x /\ x \in Nat
        BY SMTT(60)
      <4>1. worker[s][w].at = "copy" /\ kind[s] = "restore"
        BY <1>0, <1>10, ZenonT(60)
      <4> QED
        BY <4>1, RestoreCells, SMTT(60)
    <3>2. \A x \in Addr : f[x] = IF x \in Span(b) THEN x ELSE mem[s][x]
      BY <3>a, SMTT(60)
    <3>3. f \in [Addr -> Nat]
      BY <3>a, <3>1, ZenonT(60)
    <3> HIDE DEF f
    <3> QED
      BY <3>0, <3>1, <3>2, <3>3
  <2>6. \A j \in 1..Len(host[s]) : Span(blocks[s][j]) \subseteq Addr
    BY <1>1, <1>10, ZenonT(60) DEF TaskInv, ListInv
  <2>7. Written(s, i)'
    BY <1>0, <1>2, <2>5, <2>6, SMTT(60) DEF Written
  <2>8. \A j \in 1..Len(host[s]) : Written(s, j) => Written(s, j)'
    BY <1>0, <2>5, <2>6 DEF Written
  <2>9. \A j : Loaded(s, j) => Loaded(s, j)'
    BY <1>0, <1>10, SMTT(60) DEF Loaded
  <2>10. HostInv(s)' /\ WorkInv(s)'
    BY <1>0, <1>1, <1>10, <2>1, <2>7, <2>8, <2>9, DoneWorkers, ZenonT(60)
  <2>11. TaskInv(s)'
    BY <1>7, <2>10 DEF TaskInv
  <2>12. ControlType' /\ FailType' /\ DataType' /\ host' \in [Task -> Seq(Nat)]
    BY <1>0, <1>1, <1>10, <2>1, <2>5, ZenonT(60) DEF Types, ControlType, FailType, DataType, PoolType
  <2>13. \A t \in Task \ {s} : Same(t)
    BY <1>0, <1>10, <2>1, <2>5, ZenonT(60) DEF Same
  <2> QED
    BY <1>0, <1>8, <1>10, <2>11, <2>12, <2>13, CombineQuiet, ZenonT(60)
<1>11. CASE TaskFails(s, w) /\ UNCHANGED <<pool, mem>>
  BY <1>0, <1>11, TaskFailsInv
<1> QED
  BY <1>9, <1>10, <1>11, ZenonT(60) DEF Copy

-----------------------------------------------------------------------------
(* The end of a request.                                                   *)

\* The workers have ended: any error ends the request, otherwise the buffers are gone through.
LEMMA JoinInv ==
  ASSUME WorkersInv, NEW s \in Task, Join(s)
  PROVE  WorkersInv'
<1>0. /\ Types /\ TaskInv(s) /\ pc[s] = "join" /\ (\A w \in Worker : worker[s][w].at = "off")
      /\ pool' = pool /\ image' = image /\ Sound(image)'
  BY DEF WorkersInv, Join, WorkerAt, disk
<1>1. CASE Return(s, "err") /\ peak' = peak
  <2>1. ReturnWith(s, "err", Held(s)) /\ "err" \in {"ok", "err"}
    BY <1>1 DEF Return
  <2>2. host' = [host EXCEPT ![s] = <<>>] /\ lost' = lost \cup Held(s)
    BY <2>1 DEF ReturnWith
  <2>3. PoolType' /\ OwnInv' /\ CapInv' /\ \A t \in Task : Kept(t)
    BY <1>0, <1>1, <2>2, PlainReturn
  <2> QED
    BY <1>0, <2>1, <2>3, ReturnInv
<1>2. CASE /\ ~fail[s] \/ err[s] = {}
           /\ pc' = [pc EXCEPT ![s] = "drain"]
           /\ Stay /\ UNCHANGED <<host, worker, pos, ghosts>>
  <2>1. UNCHANGED <<pool, image, kind, list, blocks, host, err, next, fail, worker, pos, file, manifest, mem, lost, peak>>
    BY <1>0, <1>2 DEF Stay, request, output, ghosts
  <2>2. pc'[s] = "drain" /\ \A t \in Task \ {s} : pc'[t] = pc[t]
    BY <1>0, <1>2 DEF Types, ControlType
  <2>3. ControlType' /\ FailType' /\ DataType' /\ host' \in [Task -> Seq(Nat)]
    BY <1>0, <1>2, <2>1 DEF Types, ControlType, FailType, DataType, PoolType
  <2>4. \A t \in Task \ {s} : Same(t)
    BY <2>1, <2>2 DEF Same
  <2>5. fail[s] = FALSE
    <3>1. fail[s] \in BOOLEAN
      BY <1>0 DEF Types, FailType
    <3>2. fail[s] = TRUE => err[s] # {}
      BY <1>0 DEF TaskInv, WorkInv
    <3> QED
      BY <1>2, <3>1, <3>2
  <2>6. /\ Len(host[s]) = Len(blocks[s]) /\ pos[s] = 1 /\ manifest[s] = <<>> /\ Len(blocks[s]) \in Nat
        /\ next[s] \in Nat /\ (kind[s] = "snapshot" => file[s] = <<>>)
    <3>1. Len(host[s]) = Len(blocks[s]) /\ pos[s] = 1 /\ manifest[s] = <<>> /\ (kind[s] = "snapshot" => file[s] = <<>>)
      BY <1>0 DEF TaskInv, HostInv, WorkInv, QuietInv
    <3>2. host[s] \in Seq(Nat) /\ next[s] \in Nat
      BY <1>0 DEF Types, ControlType, PoolType
    <3> QED
      BY <3>1, <3>2
  <2>7. \A i : (Loaded(s, i)' <=> Loaded(s, i)) /\ (Written(s, i)' <=> Written(s, i))
    BY <2>1 DEF Loaded, Written
  <2>8. \A i \in 1..Len(blocks[s]) : IF kind[s] = "snapshot" THEN Loaded(s, i) ELSE Written(s, i)
    <3>1. \A i : ~AtTask(s, i)
      BY <1>0 DEF AtTask, Busy
    <3>2. Len(host[s]) < next[s]
      BY <1>0, <2>5 DEF TaskInv, WorkInv
    <3>3. \A i \in 1..Len(host[s]) : i < next[s]
      BY <2>6, <3>2
    <3> QED
      BY <1>0, <2>5, <2>6, <3>1, <3>3 DEF TaskInv, WorkInv
  <2>9. QuietInv(s)'
    BY <1>0, <2>1, <2>2 DEF TaskInv, QuietInv, Ended
  <2>10. ListInv(s)' /\ LayoutInv(s)'
    BY <1>0, <2>1, <2>2 DEF TaskInv, ListInv, LayoutInv, Listed
  <2>11. HostInv(s)'
    BY <2>1, <2>2, <2>6 DEF HostInv
  <2>12. WorkInv(s)'
    BY <1>0, <2>1, <2>2, <2>5 DEF WorkInv, Busy
  <2>13. DrainInv(s)'
    <3>1. kind[s] = "snapshot" => Drained(file[s], manifest[s], blocks[s], list[s], 1)
      BY <2>6 DEF Drained
    <3> QED
      BY <2>1, <2>2, <2>6, <2>7, <2>8, <3>1 DEF DrainInv
  <2>14. TaskInv(s)'
    BY <2>9, <2>10, <2>11, <2>12, <2>13 DEF TaskInv
  <2>15. \A t \in Task, i \in Nat : \A b : Has(t, i, b)' <=> Has(t, i, b)
    BY <2>1 DEF Has
  <2> QED
    BY <2>1, <2>3, <2>4, <2>14, <2>15, CombineQuiet
<1> QED
  BY <1>1, <1>2 DEF Join

\* The elements of two sequences put together.
LEMMA ConcatFacts ==
  ASSUME NEW S, NEW f \in Seq(S), NEW g \in Seq(S)
  PROVE  /\ f \o g \in Seq(S) /\ Len(f \o g) = Len(f) + Len(g)
         /\ \A k \in 1..Len(f) : (f \o g)[k] = f[k]
         /\ \A k \in 1..Len(g) : (f \o g)[Len(f) + k] = g[k]
OBVIOUS

\* A file that grows still has what it had.
LEMMA StillWithin == ASSUME NEW a \in Nat, NEW b \in Nat, NEW c \in Nat, a <= b PROVE a <= b + c
OBVIOUS

\* Entries stay stored in a file that grows.
LEMMA StoredMore ==
  ASSUME NEW f \in Seq(Nat), NEW g \in Seq(Nat), NEW e \in Entry, Stored(f, e)
  PROVE  Stored(f \o g, e)
<1>1. e.off \in Nat /\ e.size \in Nat /\ Len(f) \in Nat /\ Len(g) \in Nat
  BY EntryFacts
<1>2. e.off + e.size <= Len(f) /\ \A k \in 1..e.size : f[e.off + k] = e.base + k - 1
  BY DEF Stored, Readable
<1>3. Len(f \o g) = Len(f) + Len(g)
  BY ConcatFacts
<1>4. ASSUME NEW k \in 1..e.size PROVE (f \o g)[e.off + k] = e.base + k - 1
  <2>1. e.off + k \in 1..Len(f)
    BY <1>1, <1>2, Within
  <2>2. (f \o g)[e.off + k] = f[e.off + k]
    BY <2>1, ConcatFacts
  <2> QED
    BY <1>2, <2>2
<1>5. e.off + e.size <= Len(f \o g)
  <2>1. e.off + e.size \in Nat
    BY <1>1
  <2> QED
    BY <1>1, <1>2, <1>3, <2>1, StillWithin
<1> QED
  BY <1>4, <1>5 DEF Stored, Readable

\* The place of a part in its block.
LEMMA Relative == ASSUME NEW off \in Nat, NEW a \in Nat, NEW b \in Nat, b <= a PROVE off + a - b \in Nat
OBVIOUS

\* The entries written for the parts of a block.
LEMMA PartFacts ==
  ASSUME NEW l \in Seq(Alloc), NEW b \in BlockRec, Covers(b, l, Len(l))
  PROVE  /\ PartEntries(l, b) \in Seq(Entry) /\ Len(PartEntries(l, b)) = b.last - b.first + 1
         /\ \A k \in 1..(b.last - b.first + 1) :
              /\ PartEntries(l, b)[k].base = l[b.first + k - 1].base
              /\ PartEntries(l, b)[k].size = l[b.first + k - 1].size
              /\ PartEntries(l, b)[k].off = b.off + l[b.first + k - 1].base - b.base
<1> DEFINE n == b.last - b.first + 1
           e(k) == [base |-> l[b.first + k - 1].base, size |-> l[b.first + k - 1].size,
                    off |-> b.off + l[b.first + k - 1].base - b.base]
<1>1. /\ b.base \in Nat /\ b.size \in Nat /\ b.off \in Nat /\ b.first \in Nat /\ b.last \in Nat
      /\ 1 <= b.first /\ b.first <= b.last /\ b.last <= Len(l)
  BY BlockFacts DEF Covers
<1>2. n \in Nat
  BY <1>1
<1>3. ASSUME NEW k \in 1..n PROVE e(k) \in Entry
  <2>1. b.first + k - 1 \in 1..Len(l) /\ b.first + k - 1 \in b.first..b.last
    BY <1>1
  <2>2. l[b.first + k - 1] \in Alloc
    BY <2>1
  <2>3. l[b.first + k - 1].base \in Nat /\ l[b.first + k - 1].size \in Nat \ {0}
    BY <2>2, AllocFacts
  <2>4. b.base <= l[b.first + k - 1].base
    BY <2>1 DEF Covers
  <2>5. b.off + l[b.first + k - 1].base - b.base \in Nat
    BY <1>1, <2>3, <2>4, Relative
  <2> QED
    BY <2>3, <2>5 DEF Entry
<1>4. PartEntries(l, b) = [k \in 1..n |-> e(k)]
  BY DEF PartEntries
<1>5. PartEntries(l, b) \in [1..n -> Entry]
  BY <1>3, <1>4
<1>6. PartEntries(l, b) \in Seq(Entry) /\ Len(PartEntries(l, b)) = n
  BY <1>2, <1>5, SeqOfFunction
<1>7. ASSUME NEW k \in 1..n
      PROVE  /\ PartEntries(l, b)[k].base = l[b.first + k - 1].base
             /\ PartEntries(l, b)[k].size = l[b.first + k - 1].size
             /\ PartEntries(l, b)[k].off = b.off + l[b.first + k - 1].base - b.base
  BY <1>4
<1> QED
  BY <1>6, <1>7

\* The cells of n addresses from a are at o in the file h.
InFile(h, o, n, a) == o + n <= Len(h) /\ \A k \in 1..n : h[o + k] = a + k - 1

\* Bytes inside a block that is at the end of the file.
LEMMA InsideStored ==
  ASSUME NEW f \in Seq(Nat), NEW g \in Seq(Nat), NEW off \in Nat, NEW base \in Nat, NEW size \in Nat,
         Len(f) = off, Len(g) = size, \A k \in 1..size : g[k] = base + k - 1,
         NEW pb \in Nat, NEW ps \in Nat, base <= pb, pb + ps <= base + size
  PROVE  InFile(f \o g, off + pb - base, ps, pb)
<1>1. Len(f \o g) = off + size
  BY ConcatFacts
<1>2. off + pb - base + ps <= off + size
  OBVIOUS
<1>3. ASSUME NEW k \in 1..ps PROVE (f \o g)[off + pb - base + k] = pb + k - 1
  <2> DEFINE q == pb - base + k
  <2>1. q \in 1..size /\ off + pb - base + k = off + q /\ base + q - 1 = pb + k - 1
    OBVIOUS
  <2> HIDE DEF q
  <2>2. (f \o g)[off + q] = g[q]
    BY <2>1, ConcatFacts
  <2>3. g[q] = base + q - 1
    BY <2>1
  <2> QED
    BY <2>1, <2>2, <2>3
<1> QED
  BY <1>1, <1>2, <1>3 DEF InFile

\* The entry of a part finds the part's bytes, once the block is at the end of the file.
LEMMA PartStored ==
  ASSUME NEW l \in Seq(Alloc), NEW b \in BlockRec, Covers(b, l, Len(l)), NEW f \in Seq(Nat), NEW g \in Seq(Nat),
         Len(f) = b.off, Len(g) = b.size, \A k \in 1..b.size : g[k] = b.base + k - 1,
         NEW j \in 1..(b.last - b.first + 1)
  PROVE  Stored(f \o g, PartEntries(l, b)[j])
<1> DEFINE i == b.first + j - 1
           e == PartEntries(l, b)[j]
<1>1. /\ b.base \in Nat /\ b.size \in Nat /\ b.off \in Nat /\ b.first \in Nat /\ b.last \in Nat
      /\ 1 <= b.first /\ b.last <= Len(l)
  BY BlockFacts DEF Covers
<1>2. i \in 1..Len(l) /\ i \in b.first..b.last
  BY <1>1, SMTT(60)
<1>3. e.base = l[i].base /\ e.size = l[i].size /\ e.off = b.off + l[i].base - b.base
  BY PartFacts
<1> HIDE DEF i, e
<1>4. l[i].base \in Nat /\ l[i].size \in Nat
  BY <1>2, AllocFacts
<1>5. b.base <= l[i].base /\ l[i].base + l[i].size <= b.base + b.size
  BY <1>2 DEF Covers
<1>6. InFile(f \o g, b.off + l[i].base - b.base, l[i].size, l[i].base)
  BY <1>1, <1>4, <1>5, InsideStored
<1>7. Stored(f \o g, e)
  BY <1>3, <1>6 DEF Stored, Readable, InFile
<1> QED
  BY <1>7 DEF e

\* Blocks follow each other without a gap.
LEMMA Consecutive ==
  ASSUME NEW first \in Nat, NEW last \in Nat
  PROVE  (first - 1) + (last - first + 1) = last /\ first + last - 1 = (first - 1) + last
OBVIOUS

\* r is f and then g.
Concat(f, g, r, S) ==
  /\ r \in Seq(S) /\ Len(r) = Len(f) + Len(g)
  /\ \A k \in 1..Len(f) : r[k] = f[k]
  /\ \A k \in 1..Len(g) : r[Len(f) + k] = g[k]

\* The facts about concatenation under one name.
LEMMA ConcatNamed == ASSUME NEW S, NEW f \in Seq(S), NEW g \in Seq(S) PROVE Concat(f, g, f \o g, S)
BY ConcatFacts DEF Concat

\* One more block is in the file and in the manifest.
LEMMA DrainedNext ==
  ASSUME NEW f, NEW es, NEW bs, NEW l, NEW p \in Nat, p # 0, Len(f) = bs[p].off + bs[p].size, Len(es) = bs[p].last,
         \A i \in 1..Len(es) : es[i].base = l[i].base /\ es[i].size = l[i].size /\ Stored(f, es[i])
  PROVE  Drained(f, es, bs, l, p + 1)
<1>1. p + 1 # 1 /\ p + 1 - 1 = p
  OBVIOUS
<1> QED
  BY <1>1 DEF Drained

\* One block more.
LEMMA DrainedStep ==
  ASSUME NEW f \in Seq(Nat), NEW g \in Seq(Nat), NEW es \in Seq(Entry), NEW bs \in Seq(BlockRec),
         NEW l \in Seq(Alloc), Layout(bs, l, Len(l)), NEW p \in 1..Len(bs), Drained(f, es, bs, l, p),
         Len(g) = bs[p].size, \A k \in 1..bs[p].size : g[k] = bs[p].base + k - 1
  PROVE  /\ es \o PartEntries(l, bs[p]) \in Seq(Entry)
         /\ Drained(f \o g, es \o PartEntries(l, bs[p]), bs, l, p + 1)
<1> DEFINE b == bs[p]
           q == PartEntries(l, b)
           n == b.last - b.first + 1
<1>1. b \in BlockRec /\ Covers(b, l, Len(l)) /\ bs[p] = b
  BY DEF Layout
<1>2. Len(g) = b.size /\ \A k \in 1..b.size : g[k] = b.base + k - 1
  OBVIOUS
<1>3. /\ b.base \in Nat /\ b.size \in Nat /\ b.off \in Nat /\ b.first \in Nat /\ b.last \in Nat
      /\ 1 <= b.first /\ b.first <= b.last
  BY <1>1, BlockFacts DEF Covers
<1>4. /\ q \in Seq(Entry) /\ Len(q) = n
      /\ \A k \in 1..n : q[k].base = l[b.first + k - 1].base /\ q[k].size = l[b.first + k - 1].size
  BY <1>1, PartFacts
<1>5. Len(f) = b.off /\ Len(es) = b.first - 1
  <2>1. CASE p = 1
    <3>1. bs[1].first = 1 /\ bs[1].off = 0
      BY <2>1 DEF Layout
    <3> QED
      BY <2>1, <3>1 DEF Drained
  <2>2. CASE p # 1
    <3>1. p \in 2..Len(bs) /\ p - 1 \in 1..Len(bs)
      BY <2>2
    <3>2. bs[p].first = bs[p - 1].last + 1 /\ bs[p].off = bs[p - 1].off + bs[p - 1].size
      BY <3>1 DEF Layout
    <3>3. bs[p - 1].last \in Nat
      BY <3>1, BlockFacts
    <3>4. Len(f) = bs[p - 1].off + bs[p - 1].size /\ Len(es) = bs[p - 1].last
      BY <2>2 DEF Drained
    <3>5. Len(es) = bs[p].first - 1
      BY <3>2, <3>3, <3>4
    <3> QED
      BY <3>2, <3>4, <3>5
  <2> QED
    BY <2>1, <2>2
<1>6. \A j \in 1..n : Stored(f \o g, q[j])
  BY <1>1, <1>2, <1>5, PartStored
<1>7. n \in Nat /\ p \in Nat /\ p # 0
  BY <1>3
<1>8. \A i \in 1..Len(es) : es[i].base = l[i].base /\ es[i].size = l[i].size /\ Stored(f, es[i])
  BY DEF Drained
<1> HIDE DEF b, q, n
<1>9. es \o q \in Seq(Entry) /\ Len(es \o q) = Len(es) + n
      /\ (\A k \in 1..Len(es) : (es \o q)[k] = es[k])
      /\ (\A k \in 1..n : (es \o q)[Len(es) + k] = q[k])
  <2>1. es \o q \in Seq(Entry) /\ Len(es \o q) = Len(es) + Len(q)
        /\ (\A k \in 1..Len(es) : (es \o q)[k] = es[k])
        /\ (\A k \in 1..Len(q) : (es \o q)[Len(es) + k] = q[k])
    <3>1. q \in Seq(Entry)
      BY <1>4
    <3>2. Concat(es, q, es \o q, Entry)
      BY <3>1, ConcatNamed
    <3> QED
      BY <3>2 DEF Concat
  <2>2. Len(q) = n
    BY <1>4
  <2> QED
    BY <2>1, <2>2, Zenon
<1>10. Len(f \o g) = b.off + b.size
  <2>1. Len(f \o g) = Len(f) + Len(g)
    BY ConcatFacts
  <2>2. Len(f) = b.off /\ Len(g) = b.size
    BY <1>2, <1>5
  <2> QED
    BY <2>1, <2>2, Zenon
<1>11. Len(es \o q) = b.last
  <2>1. n = b.last - b.first + 1
    BY DEF n
  <2>2. (b.first - 1) + (b.last - b.first + 1) = b.last
    BY <1>3, Consecutive
  <2>3. Len(es \o q) = (b.first - 1) + (b.last - b.first + 1)
    BY <1>5, <1>9, <2>1, Zenon
  <2> QED
    BY <2>2, <2>3, Zenon
<1>12. ASSUME NEW i \in 1..Len(es \o q)
       PROVE  (es \o q)[i].base = l[i].base /\ (es \o q)[i].size = l[i].size /\ Stored(f \o g, (es \o q)[i])
  <2>1. CASE i <= Len(es)
    <3>1. i \in 1..Len(es)
      BY <2>1, <1>9
    <3>2. (es \o q)[i] = es[i] /\ es[i] \in Entry
      BY <1>9, <3>1
    <3>3. Stored(f \o g, es[i])
      BY <1>8, <3>1, <3>2, StoredMore
    <3> QED
      BY <1>8, <3>1, <3>2, <3>3
  <2>2. CASE ~(i <= Len(es))
    <3> DEFINE k == i - Len(es)
    <3>1. Len(es) \in Nat /\ Len(es \o q) \in Nat
      BY <1>9
    <3>2. k \in 1..n /\ i = Len(es) + k
      BY <1>7, <1>9, <2>2, <3>1
    <3>3. b.first + k - 1 = i
      <4>1. b.first + k - 1 = (b.first - 1) + k
        BY <1>3, <1>7, <3>2, Consecutive, SMTT(60)
      <4>2. i = (b.first - 1) + k
        BY <1>5, <3>2, Zenon
      <4> QED
        BY <4>1, <4>2, Zenon
    <3> HIDE DEF k
    <3>4. (es \o q)[i] = q[k]
      BY <1>9, <3>2
    <3>5. q[k].base = l[i].base /\ q[k].size = l[i].size
      BY <1>4, <3>2, <3>3
    <3> QED
      BY <1>6, <3>2, <3>4, <3>5
  <2> QED
    BY <2>1, <2>2
<1>13. Drained(f \o g, es \o q, bs, l, p + 1)
  <2>1. Len(f \o g) = bs[p].off + bs[p].size /\ Len(es \o q) = bs[p].last
    BY <1>1, <1>10, <1>11
  <2>2. \A i \in 1..Len(es \o q) : (es \o q)[i].base = l[i].base /\ (es \o q)[i].size = l[i].size
                                   /\ Stored(f \o g, (es \o q)[i])
    BY <1>12
  <2> QED
    BY <1>7, <2>1, <2>2, DrainedNext
<1> QED
  BY <1>9, <1>13 DEF q, b

\* A task's buffer is released, and every other buffer of the request is as it was.
LEMMA ReleaseOthers ==
  ASSUME WorkersInv, NEW s \in Task, NEW i \in 1..Len(host[s]), NEW j \in 1..Len(host[s]), j # i, host[s][j] # 0
  PROVE  host[s][j] \in 1..Len(pool) /\ host[s][j] # host[s][i]
<1>0. PoolType /\ OwnInv /\ host[s] \in Seq(Nat)
  BY DEF WorkersInv, Types, PoolType
<1>1. Has(s, j, host[s][j]) /\ j \in Nat /\ i \in Nat
  BY <1>0 DEF Has
<1>2. host[s][j] \in 1..Len(pool)
  BY <1>0, <1>1, HasType
<1>3. host[s][i] = host[s][j] => Has(s, i, host[s][j])
  BY <1>0 DEF Has
<1> QED
  BY <1>0, <1>1, <1>2, <1>3 DEF OwnInv

\* What SNAPSHOT takes out of a buffer is what the device had there.
LEMMA DrainContents ==
  ASSUME WorkersInv, NEW s \in Task, pc[s] = "drain", kind[s] = "snapshot", NEW i \in 1..Len(blocks[s]), i = pos[s],
         NEW g, g = Contents(host[s][i], blocks[s][i].size)
  PROVE  /\ g \in Seq(Nat) /\ Len(g) = blocks[s][i].size
         /\ \A k \in 1..blocks[s][i].size : g[k] = blocks[s][i].base + k - 1
<1> DEFINE h == host[s][i]
           n == blocks[s][i].size
           a == blocks[s][i].base
<1>0. TaskInv(s) /\ PoolType /\ OwnInv /\ host[s] \in Seq(Nat) /\ Len(host[s]) = Len(blocks[s])
  BY DEF WorkersInv, Types, PoolType, TaskInv, HostInv
<1>1. h # 0 /\ n <= pool[h].cap /\ \A k \in 1..n : pool[h].data[k] = a + k - 1
  <2>1. Loaded(s, i)
    BY <1>0 DEF TaskInv, DrainInv
  <2> QED
    BY <2>1 DEF Loaded
<1>2. Has(s, i, h) /\ i \in Nat
  BY <1>0, <1>1 DEF Has
<1>3. h \in 1..Len(pool)
  BY <1>0, <1>2, HasType
<1>4. n \in Nat /\ a \in Nat
  <2>1. blocks[s] \in Seq(BlockRec)
    BY <1>0 DEF TaskInv, ListInv
  <2> QED
    BY <2>1, BlockFacts
<1>5. g = Contents(h, n)
  OBVIOUS
<1> HIDE DEF h, n, a
<1>6. \A k \in 1..n : Contents(h, n)[k] = a + k - 1
  BY <1>0, <1>1, <1>3, <1>4, ContentsFacts
<1>7. \A k \in 1..n : a + k - 1 \in Nat
  BY <1>4
<1>8. Contents(h, n) \in [1..n -> Nat]
  BY <1>6, <1>7 DEF Contents
<1>9. Contents(h, n) \in Seq(Nat) /\ Len(Contents(h, n)) = n
  BY <1>4, <1>8, SeqOfFunction
<1> QED
  BY <1>5, <1>6, <1>9 DEF h, n, a

\* One turn of the loop that writes the blocks of a SNAPSHOT and releases the buffers.
LEMMA DrainTask ==
  ASSUME WorkersInv, NEW s \in Task, Drain(s)
  PROVE  WorkersInv'
<1>0. /\ Types /\ TaskInv(s) /\ pc[s] = "drain" /\ pos[s] \in DOMAIN blocks[s]
      /\ PoolType /\ OwnInv /\ CapInv
  BY DEF WorkersInv, Drain, Types
<1> PICK i \in Nat : i = pos[s]
  BY <1>0 DEF Types, ControlType
<1>1. /\ UNCHANGED <<image, pc, kind, list, blocks, err, next, fail, worker, mem, lost, peak>>
      /\ pool' = Release(host[s][i]) /\ host' = [host EXCEPT ![s][i] = 0]
      /\ pos' = [pos EXCEPT ![s] = @ + 1] /\ Sound(image)'
  BY DEF Drain, request, ghosts, disk, WorkersInv
<1>2. Len(host[s]) = Len(blocks[s]) /\ host \in [Task -> Seq(Nat)] /\ kind[s] \in {"snapshot", "restore"}
  BY <1>0 DEF TaskInv, HostInv, PoolType, Types, ControlType
<1>3. blocks[s] \in Seq(BlockRec) \/ blocks[s] \in Seq(Entry)
  BY <1>0 DEF Types, DataType
<1>4. i \in 1..Len(blocks[s]) /\ i \in 1..Len(host[s]) /\ Len(blocks[s]) \in Nat
  BY <1>0, <1>2, <1>3
<1>5. /\ OwnInv'
      /\ pool' \in Seq(BufferRec) /\ Len(pool') = Len(pool)
      /\ \A x \in 1..Len(pool) : Len(pool'[x].data) = pool'[x].cap /\ pool'[x].cap = pool[x].cap
      /\ \A x \in 1..Len(pool) : x # host[s][i] => pool'[x] = pool[x]
  BY <1>0, <1>1, <1>4, OwnRelease, ZenonT(60)
<1>6. /\ host' \in [Task -> Seq(Nat)] /\ Len(host'[s]) = Len(host[s])
      /\ \A j \in 1..Len(host[s]) : j # i => host'[s][j] = host[s][j]
      /\ \A t \in Task \ {s} : host'[t] = host[t]
  BY <1>1, <1>2, <1>4
<1>7. PoolType'
  BY <1>0, <1>1, <1>5, <1>6 DEF PoolType
<1>8. CapInv'
  BY <1>0, <1>1, <1>5, CapKeep DEF PoolType
<1>9. \A t \in Task \ {s} : Kept(t)
  <2>1. \A t \in Task \ {s}, j \in Nat : ~Has(t, j, host[s][i]) \/ host[s][i] = 0
    BY <1>0, <1>2, <1>4, SMTT(60) DEF OwnInv, Has
  <2>2. \A t \in Task, j \in Nat : ~Has(t, j, 0)
    BY DEF Has
  <2>3. \A t \in Task \ {s}, j \in Nat : ~Has(t, j, host[s][i])
    BY <2>1, <2>2
  <2> QED
    BY <1>0, <1>5, <2>3, KeptFacts
<1>10. pos'[s] = i + 1 /\ pos' \in [Task -> Nat \ {0}] /\ \A t \in Task \ {s} : pos'[t] = pos[t]
  BY <1>0, <1>1 DEF Types, ControlType
<1>11. ASSUME NEW j \in 1..Len(host[s]), j # i, Loaded(s, j) PROVE Loaded(s, j)'
  <2>1. host[s][j] # 0
    BY <1>11 DEF Loaded
  <2>2. host[s][j] \in 1..Len(pool) /\ host[s][j] # host[s][i]
    BY <1>4, <1>11, <2>1, ReleaseOthers
  <2>3. pool'[host[s][j]] = pool[host[s][j]] /\ host'[s][j] = host[s][j]
    BY <1>5, <1>6, <1>11, <2>2
  <2> QED
    BY <1>1, <1>11, <2>3 DEF Loaded
<1>12. \A j : Written(s, j)' <=> Written(s, j)
  BY <1>1 DEF Written
<1>13. /\ file' \in [Task -> Seq(Nat)] /\ manifest' \in [Task -> Seq(Entry)]
       /\ \A t \in Task \ {s} : file'[t] = file[t] /\ manifest'[t] = manifest[t]
       /\ DrainInv(s)'
  <2>0. file \in [Task -> Seq(Nat)] /\ manifest \in [Task -> Seq(Entry)]
    BY <1>0 DEF Types, DataType
  <2>1. CASE kind[s] = "restore"
    <3>1. file' = file /\ manifest' = manifest
      BY <2>1 DEF Drain
    <3>2. \A j \in 1..Len(blocks[s]) : Written(s, j)
      BY <1>0, <2>1 DEF TaskInv, DrainInv
    <3>3. i + 1 <= Len(blocks[s]) + 1
      BY <1>4
    <3>4. DrainInv(s)'
      BY <1>1, <1>10, <1>12, <2>1, <3>2, <3>3 DEF DrainInv
    <3> QED
      BY <2>0, <3>1, <3>4
  <2>2. CASE kind[s] = "snapshot"
    <3> DEFINE g == Contents(host[s][i], blocks[s][i].size)
               es == PartEntries(list[s], blocks[s][i])
    <3>1. /\ file' = [file EXCEPT ![s] = @ \o g] /\ manifest' = [manifest EXCEPT ![s] = @ \o es]
      BY <2>2 DEF Drain
    <3>2. /\ list[s] \in Seq(Alloc) /\ blocks[s] \in Seq(BlockRec) /\ Layout(blocks[s], list[s], Len(list[s]))
      BY <1>0, <2>2 DEF TaskInv, ListInv, LayoutInv, Listed
    <3>3. Drained(file[s], manifest[s], blocks[s], list[s], i)
      BY <1>0, <1>4, <2>2 DEF TaskInv, DrainInv
    <3>5. g \in Seq(Nat) /\ Len(g) = blocks[s][i].size /\ \A k \in 1..blocks[s][i].size : g[k] = blocks[s][i].base + k - 1
      BY <1>0, <1>4, <2>2, DrainContents
    <3> HIDE DEF g, es
    <3>6. manifest[s] \o es \in Seq(Entry) /\ Drained(file[s] \o g, manifest[s] \o es, blocks[s], list[s], i + 1)
      <4>1. file[s] \in Seq(Nat) /\ manifest[s] \in Seq(Entry)
        BY <2>0
      <4> QED
        BY <1>4, <3>2, <3>3, <3>5, <4>1, DrainedStep DEF es
    <3>7. file[s] \o g \in Seq(Nat)
      BY <2>0, <3>5, ConcatFacts
    <3>8. /\ file'[s] = file[s] \o g /\ manifest'[s] = manifest[s] \o es
          /\ file' \in [Task -> Seq(Nat)] /\ manifest' \in [Task -> Seq(Entry)]
          /\ \A t \in Task \ {s} : file'[t] = file[t] /\ manifest'[t] = manifest[t]
      BY <2>0, <3>1, <3>6, <3>7
    <3>9. \A j \in 1..Len(blocks[s]) : j >= i + 1 => Loaded(s, j)'
      <4> SUFFICES ASSUME NEW j \in 1..Len(blocks[s]), j >= i + 1 PROVE Loaded(s, j)'
        OBVIOUS
      <4>1. j # i /\ j >= i /\ j \in 1..Len(host[s])
        BY <1>2
      <4>2. Loaded(s, j)
        BY <1>0, <2>2, <4>1 DEF TaskInv, DrainInv
      <4> QED
        BY <1>11, <4>1, <4>2
    <3>10. i + 1 <= Len(blocks[s]) + 1
      BY <1>4
    <3>11. DrainInv(s)'
      BY <1>1, <1>10, <2>2, <3>6, <3>8, <3>9, <3>10 DEF DrainInv
    <3> QED
      BY <3>8, <3>11
  <2> QED
    BY <1>2, <2>1, <2>2
<1>14. Types'
  BY <1>0, <1>1, <1>7, <1>10, <1>13 DEF Types, ControlType, FailType, DataType
<1>15. \A t \in Task \ {s} : Same(t)
  BY <1>1, <1>6, <1>10, <1>13 DEF Same
<1>16. \A w \in Worker : worker[s][w].at = "off"
  BY <1>0 DEF TaskInv, QuietInv
<1>17. QuietInv(s)'
  BY <1>0, <1>1 DEF TaskInv, QuietInv, Ended
<1>18. ListInv(s)' /\ LayoutInv(s)'
  BY <1>0, <1>1 DEF TaskInv, ListInv, LayoutInv, Listed
<1>19. HostInv(s)'
  BY <1>0, <1>1, <1>2, <1>6 DEF HostInv
<1>20. WorkInv(s)'
  BY <1>0, <1>1, <1>16, SMTT(60) DEF TaskInv, WorkInv, Busy
<1>21. TaskInv(s)'
  BY <1>13, <1>17, <1>18, <1>19, <1>20 DEF TaskInv
<1> QED
  BY <1>1, <1>5, <1>8, <1>9, <1>14, <1>15, <1>21, Combine

\* When the tasks have been gone through, the manifest has an entry for each
\* allocation, and each finds its bytes.
LEMMA DrainedAll ==
  ASSUME NEW f, NEW es, NEW bs \in Seq(BlockRec), NEW l, NEW p \in Nat \ {0}, p <= Len(bs) + 1, p \notin DOMAIN bs,
         Drained(f, es, bs, l, p), Layout(bs, l, Len(l))
  PROVE  /\ Len(es) = Len(l)
         /\ \A i \in 1..Len(es) : es[i].base = l[i].base /\ es[i].size = l[i].size /\ Stored(f, es[i])
<1>1. p = Len(bs) + 1 /\ Len(bs) \in Nat
  OBVIOUS
<1>2. Len(es) = Len(l)
  <2>1. CASE Len(bs) = 0
    BY <1>1, <2>1 DEF Drained, Layout
  <2>2. CASE Len(bs) # 0
    <3>1. p # 1 /\ p - 1 = Len(bs) /\ Len(bs) > 0
      BY <1>1, <2>2
    <3> QED
      BY <3>1 DEF Drained, Layout
  <2> QED
    BY <2>1, <2>2
<1> QED
  BY <1>2 DEF Drained

\* The beginning of a file.
LEMMA PrefixFacts ==
  ASSUME NEW f \in Seq(Nat), NEW n \in 0..Len(f)
  PROVE  /\ SubSeq(f, 1, n) \in Seq(Nat) /\ Len(SubSeq(f, 1, n)) = n
         /\ \A k \in 1..n : SubSeq(f, 1, n)[k] = f[k]
OBVIOUS

\* What the beginning of a file has of an entry is right if the file's is.
LEMMA PrefixStored ==
  ASSUME NEW f \in Seq(Nat), NEW n \in 0..Len(f), NEW e \in Entry, Stored(f, e),
         Readable(SubSeq(f, 1, n), e)
  PROVE  Stored(SubSeq(f, 1, n), e)
<1> DEFINE g == SubSeq(f, 1, n)
<1>1. Len(g) = n /\ (\A k \in 1..n : g[k] = f[k]) /\ n \in Nat
  BY PrefixFacts
<1>2. e.off \in Nat /\ e.size \in Nat
  BY EntryFacts
<1>3. e.off + e.size <= n
  BY <1>1 DEF Readable
<1> HIDE DEF g
<1>4. ASSUME NEW k \in 1..e.size PROVE g[e.off + k] = e.base + k - 1
  <2>1. e.off + k \in 1..n
    BY <1>1, <1>2, <1>3, Within
  <2>2. f[e.off + k] = e.base + k - 1
    BY DEF Stored
  <2> QED
    BY <1>1, <2>1, <2>2
<1> QED
  BY <1>4 DEF Stored, g

\* A request whose blocks have all been gone through answers.
LEMMA FinishInv ==
  ASSUME WorkersInv, NEW s \in Task, Finish(s)
  PROVE  WorkersInv'
<1>0. /\ Types /\ TaskInv(s) /\ pc[s] = "drain" /\ pos[s] \notin DOMAIN blocks[s]
      /\ pool' = pool /\ peak' = peak /\ Sound(image)
  BY DEF WorkersInv, Finish
<1>1. \A w \in Worker : worker[s][w].at = "off"
  BY <1>0 DEF TaskInv, QuietInv
<1>2. Sound(image)'
  <2>1. CASE image' = image
    BY <1>0, <2>1
  <2>2. CASE kind[s] = "snapshot" /\ \E n \in 0..Len(file[s]), m \in Extent : image' = OnDisk(s, n, m)
    <3> PICK n \in 0..Len(file[s]), m \in Extent : image' = OnDisk(s, n, m)
      BY <2>2
    <3> DEFINE bs == blocks[s]
               l == list[s]
               es == manifest[s]
               p == pos[s]
    <3>1. es \in Seq(Entry) /\ file[s] \in Seq(Nat) /\ p \in Nat \ {0}
      BY <1>0 DEF Types, DataType, ControlType
    <3>2. /\ l \in Seq(Alloc) /\ bs \in Seq(BlockRec) /\ Layout(bs, l, Len(l)) /\ Len(l) <= MaxAllocs
          /\ \A i \in 1..Len(l) : Span(l[i]) \subseteq Addr
      BY <1>0, <2>2 DEF TaskInv, ListInv, LayoutInv, Listed
    <3>3. Drained(file[s], es, bs, l, p) /\ p <= Len(bs) + 1 /\ p \notin DOMAIN bs
      BY <1>0, <2>2 DEF TaskInv, DrainInv
    <3>5. /\ Len(es) = Len(l)
          /\ \A i \in 1..Len(es) : es[i].base = l[i].base /\ es[i].size = l[i].size /\ Stored(file[s], es[i])
      BY <3>1, <3>2, <3>3, DrainedAll
    <3> DEFINE g == SubSeq(file[s], 1, n)
    <3>6. g \in Seq(Nat)
      BY <3>1, PrefixFacts
    <3> HIDE DEF es, l, bs, p, g
    <3>7. ASSUME NEW i \in 1..Len(es)
          PROVE  Span(es[i]) \subseteq Addr /\ (Readable(g, es[i]) => Stored(g, es[i]))
      <4>1. Span(es[i]) \subseteq Addr
        BY <3>2, <3>5 DEF Span
      <4>2. es[i] \in Entry /\ Stored(file[s], es[i])
        BY <3>1, <3>5
      <4> QED
        BY <3>1, <4>1, <4>2, PrefixStored DEF g
    <3>8. /\ image'.entries = es /\ image'.bytes = g
          /\ image' \in [entries : Seq(Entry), bytes : Seq(Nat), manifest : Extent, made : Extent]
      BY <3>1, <3>6 DEF OnDisk, Extent, es, g
    <3>9. Len(es) <= MaxAllocs
      BY <3>2, <3>5
    <3> QED
      BY <3>7, <3>8, <3>9 DEF Sound
  <2> QED
    BY <2>1, <2>2 DEF Finish, disk
<1>3. PICK answer \in {"ok", "err"} : ReturnWith(s, answer, Held(s))
  BY DEF Finish, Return
<1>4. host' = [host EXCEPT ![s] = <<>>] /\ lost' = lost \cup Held(s)
  BY <1>3 DEF ReturnWith
<1>5. PoolType' /\ OwnInv' /\ CapInv' /\ \A t \in Task : Kept(t)
  BY <1>0, <1>4, PlainReturn
<1> QED
  BY <1>1, <1>2, <1>3, <1>5, ReturnInv

\* A RESTORE that cannot read the manifest answers.
LEMMA RejectInv ==
  ASSUME WorkersInv, NEW s \in Task, Reject(s)
  PROVE  WorkersInv'
<1>0. /\ TaskInv(s) /\ pc[s] = "reject" /\ pool' = pool /\ peak' = peak /\ Sound(image)'
      /\ ReturnWith(s, "err", Held(s)) /\ "err" \in {"ok", "err"}
  BY DEF WorkersInv, Reject, Return, disk
<1>1. \A w \in Worker : worker[s][w].at = "off"
  BY <1>0 DEF TaskInv, QuietInv
<1>2. host' = [host EXCEPT ![s] = <<>>] /\ lost' = lost \cup Held(s)
  BY <1>0 DEF ReturnWith
<1>3. PoolType' /\ OwnInv' /\ CapInv' /\ \A t \in Task : Kept(t)
  BY <1>0, <1>2, PlainReturn
<1> QED
  BY <1>0, <1>1, <1>3, ReturnInv

\* A step that changes nothing.
LEMMA WorkersStutter ==
  ASSUME WorkersInv, UNCHANGED vars
  PROVE  WorkersInv'
<1>1. UNCHANGED <<pool, image, pc, kind, list, blocks, host, err, next, fail, worker, pos, file, manifest, mem, lost, peak>>
  BY DEF vars, request, output, ghosts, disk
<1>2. Types'
  BY <1>1 DEF WorkersInv, Types, ControlType, FailType, DataType, PoolType
<1>3. OwnInv' /\ CapInv' /\ Sound(image)'
  BY <1>1 DEF WorkersInv, OwnInv, CapInv, OfCap, Has
<1>4. \A t \in Task : TaskInv(t)'
  BY <1>1, Frame DEF WorkersInv, Same, Kept
<1> QED
  BY <1>2, <1>3, <1>4 DEF WorkersInv

\* Every step keeps the invariant.
LEMMA WorkersNext ==
  ASSUME WorkersInv, [Next]_vars
  PROVE  WorkersInv'
<1>1. CASE UNCHANGED vars
  BY <1>1, WorkersStutter
<1>2. ASSUME NEW s \in Task, Step(s) PROVE WorkersInv'
  BY <1>2, CoalesceInv, RejectInv, FillInv, LaunchInv, JoinInv, DrainTask, FinishInv, ClaimInv, TakeInv, CopyInv DEF Step
<1>3. ASSUME NEW s \in Task, BeginRestore(s) PROVE WorkersInv'
  BY <1>3, BeginRestoreInv
<1>4. ASSUME NEW s \in Task, NEW l \in Lists, BeginSnapshot(s, l) PROVE WorkersInv'
  BY <1>4, BeginSnapshotInv
<1> QED
  BY <1>1, <1>2, <1>3, <1>4 DEF Next

\* The invariant that the results below rest on: what every buffer, block, file and
\* worker of the requests is in every reachable state.
THEOREM WorkersInvariant == Spec => []WorkersInv
<1>1. Init => WorkersInv
  BY WorkersInit
<1>2. WorkersInv /\ [Next]_vars => WorkersInv'
  BY WorkersNext
<1> QED
  BY <1>1, <1>2, PTL DEF Spec

\* BuffersAccounted, for every number of requests and workers: a pinned buffer has
\* one owner from acquire to release, and only failed requests take buffers with them.
THEOREM BuffersAreAccounted == Spec => []BuffersAccounted
<1>1. WorkersInv => BuffersAccounted
  <2> SUFFICES ASSUME WorkersInv PROVE BuffersAccounted
    OBVIOUS
  <2>1. PoolType /\ OwnInv
    BY DEF WorkersInv, Types
  <2>2. \A b : b \in InUse <=> \E s \in Task, i \in Nat : Has(s, i, b)
    BY <2>1, InUseFacts
  <2>3. /\ DOMAIN pool = 1..Len(pool) /\ Len(pool) \in Nat
        /\ \A b \in 1..Len(pool) : pool[b] \in BufferRec
    BY <2>1 DEF PoolType
  <2>4. ASSUME NEW b \in DOMAIN pool PROVE pool[b].free <=> b \notin InUse \cup lost
    <3>1. pool[b].free \in BOOLEAN
      BY <2>3 DEF BufferRec
    <3>2. pool[b].free = FALSE <=> b \in lost \/ \E s \in Task, i \in Nat : Has(s, i, b)
      BY <2>1, <2>3 DEF OwnInv
    <3> QED
      BY <2>2, <3>1, <3>2, Zenon
  <2>5. InUse \cap lost = {}
    <3> SUFFICES ASSUME NEW b \in InUse PROVE b \notin lost
      OBVIOUS
    <3>1. PICK s \in Task, i \in Nat : Has(s, i, b)
      BY <2>2
    <3>2. b \in Nat
      BY <2>1, <3>1, HasType, <2>3
    <3> QED
      BY <2>1, <3>1, <3>2 DEF OwnInv
  <2>6. ASSUME NEW s \in Task, NEW t \in Task, NEW i \in DOMAIN host[s], NEW j \in DOMAIN host[t],
               host[s][i] = host[t][j], host[s][i] # 0
        PROVE  s = t /\ i = j
    <3>1. host[s] \in Seq(Nat) /\ host[t] \in Seq(Nat)
      BY <2>1 DEF PoolType
    <3>2. i \in Nat /\ j \in Nat /\ host[s][i] \in Nat
      BY <3>1, SMTT(60)
    <3>3. Has(s, i, host[s][i]) /\ Has(t, j, host[s][i])
      BY <2>6 DEF Has
    <3> QED
      BY <2>1, <3>2, <3>3 DEF OwnInv
  <2> QED
    BY <2>4, <2>5, <2>6 DEF BuffersAccounted
<1> QED
  BY <1>1, WorkersInvariant, PTL

\* PoolBounded, for every number of requests: the pool has no more buffers of a size
\* than were in use at one time or were lost with a failed request.
THEOREM PoolIsBounded == Spec => []PoolBounded
<1>1. WorkersInv => PoolBounded
  <2> SUFFICES ASSUME WorkersInv, NEW n \in {pool[b].cap : b \in DOMAIN pool}
               PROVE  Cardinality({b \in DOMAIN pool : pool[b].cap = n}) <= peak + Cardinality(lost)
    BY DEF PoolBounded
  <2>1. PoolType /\ CapInv
    BY DEF WorkersInv, Types
  <2>2. DOMAIN pool = 1..Len(pool)
    BY <2>1 DEF PoolType
  <2>3. n \in Nat
    BY <2>1, <2>2, PoolAt
  <2>4. {b \in DOMAIN pool : pool[b].cap = n} = OfCap(n)
    BY <2>2 DEF OfCap
  <2> QED
    BY <2>1, <2>3, <2>4 DEF CapInv
<1> QED
  BY <1>1, WorkersInvariant, PTL

-----------------------------------------------------------------------------
(* Images that are short.                                                  *)

\* The last part of block b of the listing l ends where b ends.
EndsAt(b, l) == l[b.last].base + l[b.last].size = b.base + b.size

\* The last entry of the manifest es ends where the file f ends.
EndsWith(f, es) == Len(f) = 0 \/ (Len(es) > 0 /\ es[Len(es)].off + es[Len(es)].size = Len(f))

\* What RESTORE has read was there, and it has read everything before it goes on.
ReadInv(s) ==
  kind[s] = "restore" =>
    /\ pc[s] = "fill" => \A i \in 1..Len(blocks[s]) : i < pos[s] => Readable(file[s], blocks[s][i])
    /\ pc[s] = "fill" /\ made[s] = "short" => \E i \in 1..Len(blocks[s]) : ~Readable(file[s], blocks[s][i])
    /\ pc[s] \in {"join", "drain", "ok"} => made[s] = "whole"

MadeTask(s) ==
  /\ kind[s] = "snapshot" => \A j \in 1..Len(blocks[s]) : EndsAt(blocks[s][j], list[s])
  /\ kind[s] = "snapshot" /\ pc[s] = "drain" => EndsWith(file[s], manifest[s])
  /\ ReadInv(s)

MadeInv == made \in [Task -> Extent] /\ Marked(image) /\ \A s \in Task : MadeTask(s)

\* Nothing of what MadeTask(t) is about changes.
Alike(t) ==
  /\ pc'[t] = pc[t] /\ kind'[t] = kind[t] /\ list'[t] = list[t] /\ blocks'[t] = blocks[t]
  /\ pos'[t] = pos[t] /\ file'[t] = file[t] /\ manifest'[t] = manifest[t] /\ made'[t] = made[t]

\* A step of one request leaves the others alone.
LEMMA MadeOthers ==
  ASSUME MadeInv, NEW s \in Task, \A t \in Task \ {s} : Alike(t), MadeTask(s)',
         made' \in [Task -> Extent], Marked(image)'
  PROVE  MadeInv'
<1>1. ASSUME NEW t \in Task \ {s} PROVE MadeTask(t)'
  BY DEF MadeInv, MadeTask, Alike, ReadInv
<1> QED
  BY <1>1 DEF MadeInv

\* A step of one request that leaves the image.
LEMMA MadeQuiet ==
  ASSUME MadeInv, NEW s \in Task, \A t \in Task \ {s} : Alike(t), MadeTask(s)', UNCHANGED disk
  PROVE  MadeInv'
<1>1. made' = made /\ image' = image
  BY DEF disk
<1>2. made' \in [Task -> Extent] /\ Marked(image)'
  BY <1>1 DEF MadeInv
<1> QED
  BY <1>2, MadeOthers

\* A request ends.
LEMMA MadeReturn ==
  ASSUME WorkersInv, MadeInv, NEW s \in Task, NEW answer \in {"ok", "err"}, NEW bs,
         ReturnWith(s, answer, bs)
  PROVE  /\ pc'[s] = answer /\ kind'[s] = kind[s] /\ blocks'[s] = <<>>
         /\ \A t \in Task \ {s} : made'[t] = made[t] => Alike(t)
BY DEF WorkersInv, Types, ControlType, DataType, ReturnWith, Alike

\* A request ends with an error.
LEMMA MadeError ==
  ASSUME WorkersInv, MadeInv, NEW s \in Task, NEW bs, ReturnWith(s, "err", bs), UNCHANGED disk
  PROVE  MadeInv'
<1>1. /\ pc'[s] = "err" /\ kind'[s] = kind[s] /\ blocks'[s] = <<>>
      /\ \A t \in Task \ {s} : made'[t] = made[t] => Alike(t)
  BY MadeReturn
<1>2. made' = made
  BY DEF disk
<1>3. MadeTask(s)'
  BY <1>1 DEF MadeTask, ReadInv
<1> QED
  BY <1>1, <1>2, <1>3, MadeQuiet

\* A block that has been extended ends where the allocation added to it does.
LEMMA EndsAtExtended ==
  ASSUME NEW b \in BlockRec, NEW a \in Alloc, NEW i \in Nat, NEW l, l[i] = a, Adjoins(b, a)
  PROVE  EndsAt(Extended(b, a, i), l)
<1> DEFINE x == Extended(b, a, i)
<1>1. x.base = b.base /\ x.size = b.size + a.size /\ x.last = i
  BY ExtendedFacts
<1>2. a.base = b.base + b.size /\ b.base \in Nat /\ b.size \in Nat /\ a.base \in Nat /\ a.size \in Nat
  BY BlockFacts, AllocFacts DEF Adjoins
<1> HIDE DEF x
<1>3. l[x.last] = a
  BY <1>1, Zenon
<1>4. a.base + a.size = x.base + x.size
  BY <1>1, <1>2
<1>5. EndsAt(x, l)
  BY <1>3, <1>4, Zenon DEF EndsAt
<1> QED
  BY <1>5 DEF x

\* Coalescing keeps the ends of the blocks.
LEMMA MadeCoalesce ==
  ASSUME WorkersInv, MadeInv, NEW s \in Task, Coalesce(s)
  PROVE  MadeInv'
<1>0. /\ Types /\ TaskInv(s) /\ MadeTask(s) /\ pc[s] = "coalesce" /\ pos[s] \in DOMAIN list[s] /\ UNCHANGED disk
      /\ UNCHANGED <<pc, kind, list, file, manifest>>
  BY DEF WorkersInv, MadeInv, Coalesce, output
<1>1. kind[s] = "snapshot" /\ list[s] \in Seq(Alloc) /\ blocks[s] \in Seq(BlockRec)
  BY <1>0 DEF TaskInv, QuietInv, ListInv
<1>2. pos \in [Task -> Nat \ {0}] /\ pos' = [pos EXCEPT ![s] = @ + 1] /\ made' = made
  BY <1>0 DEF Coalesce, Types, ControlType, disk
<1>3. blocks \in [Task -> Seq(BlockRec) \cup Seq(Entry)]
  BY <1>0 DEF Types, DataType
<1> PICK i \in Nat : i = pos[s]
  BY <1>0, <1>1
<1> PICK a \in Alloc : a = list[s][i]
  BY <1>0, <1>1
<1> PICK bs \in Seq(BlockRec) : bs = blocks[s]
  BY <1>1
<1> PICK n \in Nat : n = Len(bs)
  OBVIOUS
<1>4. /\ a.base \in Nat /\ a.size \in Nat
      /\ \A j \in 1..n : bs[j] \in BlockRec /\ EndsAt(bs[j], list[s])
  BY <1>0, <1>1, AllocFacts DEF MadeTask
<1>5. /\ \A t \in Task \ {s} : blocks'[t] = blocks[t]
      /\ \A j \in 1..Len(blocks'[s]) : EndsAt(blocks'[s][j], list[s])
  <2>1. CASE n > 0 /\ Adjoins(bs[n], a) /\ blocks' = [blocks EXCEPT ![s][n] = Extended(@, a, i)]
    <3> DEFINE x == Extended(bs[n], a, i)
    <3>0. n \in 1..n /\ bs[n] \in BlockRec
      BY <1>4, <2>1
    <3>1. EndsAt(x, list[s])
      BY <2>1, <3>0, EndsAtExtended, Zenon
    <3> HIDE DEF x
    <3>2. blocks' = [blocks EXCEPT ![s] = [bs EXCEPT ![n] = x]]
      BY <1>3, <2>1 DEF x
    <3>3. blocks'[s] = [bs EXCEPT ![n] = x] /\ \A t \in Task \ {s} : blocks'[t] = blocks[t]
      BY <1>3, <3>2
    <3>4. Len(blocks'[s]) = n /\ \A j \in 1..n : blocks'[s][j] = IF j = n THEN x ELSE bs[j]
      BY <3>3
    <3> QED
      BY <1>4, <3>1, <3>3, <3>4, ZenonT(60)
  <2>2. ASSUME NEW off \in Nat, blocks' = [blocks EXCEPT ![s] = Append(bs, NewBlock(a, i, off))]
        PROVE  /\ \A t \in Task \ {s} : blocks'[t] = blocks[t]
               /\ \A j \in 1..Len(blocks'[s]) : EndsAt(blocks'[s][j], list[s])
    <3> DEFINE x == NewBlock(a, i, off)
    <3>1. x \in BlockRec /\ x.base = a.base /\ x.size = a.size /\ x.last = i
      BY NewBlockFacts, SMTT(60)
    <3> HIDE DEF x
    <3>2. EndsAt(x, list[s])
      BY <3>1 DEF EndsAt
    <3>3. blocks'[s] = Append(bs, x) /\ \A t \in Task \ {s} : blocks'[t] = blocks[t]
      BY <1>3, <2>2 DEF x
    <3>4. Len(blocks'[s]) = n + 1 /\ \A j \in 1..(n + 1) : blocks'[s][j] = IF j = n + 1 THEN x ELSE bs[j]
      BY <3>1, <3>3
    <3>5. \A j \in 1..(n + 1) : j = n + 1 \/ j \in 1..n
      OBVIOUS
    <3> QED
      BY <1>4, <3>2, <3>3, <3>4, <3>5, ZenonT(60)
  <2>3. CASE n > 0 /\ ~Adjoins(bs[n], a)
    <3>1. bs[n] \in BlockRec
      BY <1>4, <2>3
    <3>2. bs[n].off + bs[n].size \in Nat
      BY <3>1, BlockFacts
    <3>3. blocks' = [blocks EXCEPT ![s] = Append(bs, NewBlock(a, i, bs[n].off + bs[n].size))]
      BY <2>3 DEF Coalesce
    <3> QED
      BY <2>2, <3>2, <3>3
  <2>4. CASE n = 0
    <3>1. blocks' = [blocks EXCEPT ![s] = <<NewBlock(a, i, 0)>>]
      BY <2>4 DEF Coalesce
    <3>2. PICK x : x = NewBlock(a, i, 0)
      OBVIOUS
    <3>3. x.base = a.base /\ x.size = a.size /\ x.last = i
      BY <3>2, NewBlockFacts, SMTT(60)
    <3>4. EndsAt(x, list[s])
      BY <3>3 DEF EndsAt
    <3>5. blocks'[s] = <<x>> /\ \A t \in Task \ {s} : blocks'[t] = blocks[t]
      BY <1>3, <3>1, <3>2
    <3>6. Len(<<x>>) = 1 /\ <<x>>[1] = x /\ \A j \in 1..1 : j = 1
      OBVIOUS
    <3> QED
      BY <3>4, <3>5, <3>6
  <2>5. CASE n > 0 /\ Adjoins(bs[n], a)
    BY <2>1, <2>5 DEF Coalesce
  <2> QED
    BY <2>3, <2>4, <2>5
<1>6. \A t \in Task \ {s} : Alike(t)
  BY <1>0, <1>2, <1>5 DEF Alike
<1>7. MadeTask(s)'
  BY <1>0, <1>1, <1>5 DEF MadeTask, ReadInv
<1> QED
  BY <1>0, <1>6, <1>7, MadeQuiet

\* Before the workers of a RESTORE are started every entry has been read.
LEMMA MadeLaunch ==
  ASSUME WorkersInv, MadeInv, NEW s \in Task, Launch(s)
  PROVE  MadeInv'
<1>0. /\ Types /\ TaskInv(s) /\ MadeTask(s) /\ made \in [Task -> Extent] /\ UNCHANGED disk
      /\ pc[s] \in {"coalesce", "fill"} /\ UNCHANGED <<kind, list, blocks, file, manifest>>
      /\ pc' = [pc EXCEPT ![s] = "join"] /\ pos' = [pos EXCEPT ![s] = 1]
  BY DEF WorkersInv, MadeInv, Launch, Stay, request, output
<1>1. pc'[s] = "join" /\ made' = made /\ pos[s] \in Nat \ {0}
  BY <1>0 DEF Types, ControlType, disk
<1>2. \A t \in Task \ {s} : Alike(t)
  BY <1>0, <1>1 DEF Alike, Types, ControlType
<1>3. kind[s] = "restore" => made[s] = "whole"
  <2> SUFFICES ASSUME kind[s] = "restore" PROVE made[s] # "short"
    BY <1>0 DEF Extent
  <2>1. pc[s] = "fill" /\ pos[s] \notin DOMAIN blocks[s]
    BY <1>0 DEF TaskInv, QuietInv, Launch
  <2>2. blocks[s] \in Seq(Entry)
    BY <1>0 DEF TaskInv, ListInv
  <2>3. \A j \in 1..Len(blocks[s]) : j < pos[s]
    <3>1. pos[s] \notin 1..Len(blocks[s]) /\ Len(blocks[s]) \in Nat
      BY <2>1, <2>2
    <3> QED
      BY <1>1, <3>1
  <2> QED
    BY <1>0, <2>1, <2>3 DEF MadeTask, ReadInv
<1>4. MadeTask(s)'
  BY <1>0, <1>1, <1>3 DEF MadeTask, ReadInv
<1> QED
  BY <1>0, <1>2, <1>4, MadeQuiet

\* An entry is read, or the RESTORE fails.
LEMMA MadeFill ==
  ASSUME WorkersInv, MadeInv, NEW s \in Task, Fill(s)
  PROVE  MadeInv'
<1>0. Types /\ TaskInv(s) /\ MadeTask(s) /\ pc[s] = "fill" /\ UNCHANGED disk /\ pos[s] \in DOMAIN blocks[s]
  BY DEF WorkersInv, MadeInv, Fill
<1>1. ASSUME NEW bs, ReturnWith(s, "err", bs) PROVE MadeInv'
  BY <1>0, <1>1, MadeError
<1>2. CASE Readable(file[s], blocks[s][pos[s]]) /\ pos' = [pos EXCEPT ![s] = pos[s] + 1] /\ Stay /\ UNCHANGED pc
  <2>1. UNCHANGED <<pc, kind, list, blocks, file, manifest, made>>
    BY <1>0, <1>2 DEF Stay, request, output, disk
  <2>2. kind[s] = "restore" /\ blocks[s] \in Seq(Entry) /\ pos \in [Task -> Nat \ {0}]
    BY <1>0 DEF TaskInv, QuietInv, ListInv, Types, ControlType
  <2>3. pos'[s] = pos[s] + 1 /\ \A t \in Task \ {s} : pos'[t] = pos[t]
    BY <1>2, <2>2
  <2>4. \A t \in Task \ {s} : Alike(t)
    BY <2>1, <2>3 DEF Alike
  <2>5. ASSUME NEW j \in 1..Len(blocks[s]), j < pos[s] + 1 PROVE Readable(file[s], blocks[s][j])
    <3>1. j = pos[s] \/ j < pos[s]
      BY <2>2, <2>5
    <3> QED
      BY <1>0, <1>2, <2>2, <3>1 DEF MadeTask, ReadInv
  <2>6. MadeTask(s)'
    BY <1>0, <2>1, <2>2, <2>3, <2>5 DEF MadeTask, ReadInv
  <2> QED
    BY <1>0, <2>4, <2>6, MadeQuiet
<1> QED
  BY <1>1, <1>2, ZenonT(60) DEF Fill, Return

\* The workers are joined.
LEMMA MadeJoin ==
  ASSUME WorkersInv, MadeInv, NEW s \in Task, Join(s)
  PROVE  MadeInv'
<1>0. Types /\ TaskInv(s) /\ MadeTask(s) /\ pc[s] = "join" /\ UNCHANGED disk
  BY DEF WorkersInv, MadeInv, Join
<1>1. CASE Return(s, "err")
  BY <1>0, <1>1, MadeError DEF Return
<1>2. CASE pc' = [pc EXCEPT ![s] = "drain"] /\ Stay /\ UNCHANGED pos
  <2>1. UNCHANGED <<pos, kind, list, blocks, file, manifest, made>>
    BY <1>0, <1>2 DEF Stay, request, output, disk
  <2>2. pc'[s] = "drain" /\ \A t \in Task \ {s} : pc'[t] = pc[t]
    BY <1>0, <1>2 DEF Types, ControlType
  <2>3. \A t \in Task \ {s} : Alike(t)
    BY <2>1, <2>2 DEF Alike
  <2>4. kind[s] = "snapshot" => EndsWith(file[s], manifest[s])
    <3> SUFFICES ASSUME kind[s] = "snapshot" PROVE Len(file[s]) = 0
      BY DEF EndsWith
    <3> QED
      BY <1>0 DEF TaskInv, QuietInv
  <2>5. MadeTask(s)'
    BY <1>0, <2>1, <2>2, <2>4 DEF MadeTask, ReadInv
  <2> QED
    BY <1>0, <2>3, <2>5, MadeQuiet
<1> QED
  BY <1>1, <1>2 DEF Join

\* A block whose last part ends where it ends leaves a file that ends with an entry.
LEMMA TailStep ==
  ASSUME NEW f \in Seq(Nat), NEW g \in Seq(Nat), NEW es \in Seq(Entry), NEW l \in Seq(Alloc), NEW b \in BlockRec,
         Covers(b, l, Len(l)), EndsAt(b, l), Len(f) = b.off, Len(g) = b.size
  PROVE  EndsWith(f \o g, es \o PartEntries(l, b))
<1> DEFINE ps == PartEntries(l, b)
           n == b.last - b.first + 1
<1>1. /\ b.base \in Nat /\ b.size \in Nat /\ b.off \in Nat /\ b.first \in Nat /\ b.last \in Nat
      /\ b.first <= b.last /\ 1 <= b.first /\ b.last <= Len(l)
  BY BlockFacts DEF Covers
<1>2. n \in Nat /\ n \in 1..n /\ b.first + n - 1 = b.last
  BY <1>1
<1>3. /\ ps \in Seq(Entry) /\ Len(ps) = n
      /\ ps[n].size = l[b.first + n - 1].size /\ ps[n].off = b.off + l[b.first + n - 1].base - b.base
  BY <1>2, PartFacts
<1>4. l[b.last].base \in Nat /\ l[b.last].size \in Nat
  <2>1. l[b.last] \in Alloc
    BY <1>1
  <2> QED
    BY <2>1, AllocFacts
<1> HIDE DEF ps, n
<1>5. ps[n].size = l[b.last].size /\ ps[n].off = b.off + l[b.last].base - b.base
  BY <1>2, <1>3
<1>6. ps[n].off + ps[n].size = b.off + b.size
  <2>1. PICK lb \in Nat, ls \in Nat, bb \in Nat, bz \in Nat, bo \in Nat :
          lb = l[b.last].base /\ ls = l[b.last].size /\ bb = b.base /\ bz = b.size /\ bo = b.off
    BY <1>1, <1>4
  <2>2. lb + ls = bb + bz
    BY <2>1 DEF EndsAt
  <2>3. bo + lb - bb + ls = bo + bz
    BY <2>2
  <2> QED
    BY <1>5, <2>1, <2>3
<1>7. Concat(f, g, f \o g, Nat) /\ Concat(es, ps, es \o ps, Entry)
  BY <1>3, ConcatNamed
<1>8. Len(f \o g) = b.off + b.size
  BY <1>7 DEF Concat
<1>9. Len(es \o ps) = Len(es) + n /\ (es \o ps)[Len(es) + n] = ps[n] /\ Len(es) \in Nat
  BY <1>2, <1>3, <1>7 DEF Concat
<1>10. Len(es \o ps) > 0
  BY <1>2, <1>9
<1>11. (es \o ps)[Len(es \o ps)] = ps[n]
  BY <1>9
<1> QED
  BY <1>6, <1>8, <1>10, <1>11 DEF EndsWith, ps

\* A block is written, or a buffer released.
LEMMA MadeDrain ==
  ASSUME WorkersInv, MadeInv, NEW s \in Task, Drain(s)
  PROVE  MadeInv'
<1>0. /\ Types /\ TaskInv(s) /\ MadeTask(s) /\ pc[s] = "drain" /\ UNCHANGED disk
      /\ UNCHANGED <<pc, kind, list, blocks>>
  BY DEF WorkersInv, MadeInv, Drain, request
<1>1. /\ file \in [Task -> Seq(Nat)] /\ manifest \in [Task -> Seq(Entry)] /\ pos \in [Task -> Nat \ {0}]
      /\ kind[s] \in {"snapshot", "restore"}
  BY <1>0 DEF Types, DataType, ControlType
<1>2. \A t \in Task \ {s} : file'[t] = file[t] /\ manifest'[t] = manifest[t] /\ pos'[t] = pos[t]
  BY <1>1 DEF Drain
<1>3. \A t \in Task \ {s} : Alike(t)
  BY <1>0, <1>2 DEF Alike, disk
<1>4. CASE kind[s] = "restore"
  <2>1. MadeTask(s)'
    BY <1>0, <1>4 DEF MadeTask, ReadInv, disk
  <2> QED
    BY <1>0, <1>3, <2>1, MadeQuiet
<1>5. CASE kind[s] = "snapshot"
  <2>0. /\ list[s] \in Seq(Alloc) /\ blocks[s] \in Seq(BlockRec) /\ Layout(blocks[s], list[s], Len(list[s]))
        /\ Drained(file[s], manifest[s], blocks[s], list[s], pos[s])
    BY <1>0, <1>5 DEF TaskInv, ListInv, LayoutInv, Listed, DrainInv
  <2> PICK i \in Nat : i = pos[s]
    BY <1>1
  <2>1. i \in 1..Len(blocks[s])
    BY <2>0 DEF Drain
  <2> PICK b \in BlockRec : b = blocks[s][i]
    BY <2>0, <2>1
  <2> DEFINE g == Contents(host[s][i], b.size)
             ps == PartEntries(list[s], b)
  <2>2. file'[s] = file[s] \o g /\ manifest'[s] = manifest[s] \o ps
    BY <1>1, <1>5 DEF Drain
  <2>3. g \in Seq(Nat) /\ Len(g) = b.size
    BY <1>0, <1>5, <2>1, DrainContents
  <2>4. Covers(b, list[s], Len(list[s])) /\ EndsAt(b, list[s])
    BY <1>0, <1>5, <2>0, <2>1 DEF Layout, MadeTask
  <2>5. Len(file[s]) = b.off
    <3>1. CASE i = 1
      <4>1. Len(file[s]) = 0 /\ b.off = 0
        BY <2>0, <2>1, <3>1 DEF Drained, Layout
      <4> QED
        BY <4>1
    <3>2. CASE i # 1
      <4>1. i \in 2..Len(blocks[s])
        BY <2>0, <2>1, <3>2
      <4> QED
        BY <2>0, <3>2, <4>1 DEF Drained, Layout
    <3> QED
      BY <3>1, <3>2
  <2>6. file[s] \in Seq(Nat) /\ manifest[s] \in Seq(Entry)
    BY <1>1
  <2> HIDE DEF g
  <2>7. EndsWith(file[s] \o g, manifest[s] \o ps)
    BY <2>0, <2>3, <2>4, <2>5, <2>6, TailStep
  <2>8. MadeTask(s)'
    BY <1>0, <1>5, <2>2, <2>7 DEF MadeTask, ReadInv
  <2> QED
    BY <1>0, <1>3, <2>8, MadeQuiet
<1> QED
  BY <1>1, <1>4, <1>5

\* A SNAPSHOT whose last byte is missing has an entry that cannot be read.
LEMMA MadeFinish ==
  ASSUME WorkersInv, MadeInv, NEW s \in Task, Finish(s)
  PROVE  MadeInv'
<1>0. /\ Types /\ TaskInv(s) /\ MadeTask(s) /\ pc[s] = "drain" /\ made \in [Task -> Extent]
      /\ kind[s] \in {"snapshot", "restore"} /\ file[s] \in Seq(Nat) /\ manifest[s] \in Seq(Entry)
  BY DEF WorkersInv, MadeInv, Finish, Types, ControlType, DataType
<1>1. CASE Return(s, "err") /\ UNCHANGED disk
  BY <1>1, MadeError DEF Return
<1>2. CASE Return(s, "ok") /\ kind[s] = "restore" /\ UNCHANGED disk
  <2>1. ReturnWith(s, "ok", Held(s)) /\ made' = made
    BY <1>2 DEF Return, disk
  <2>2. /\ pc'[s] = "ok" /\ kind'[s] = kind[s] /\ blocks'[s] = <<>>
        /\ \A t \in Task \ {s} : made'[t] = made[t] => Alike(t)
    BY <2>1, MadeReturn
  <2>3. MadeTask(s)'
    BY <1>0, <1>2, <2>1, <2>2 DEF MadeTask, ReadInv
  <2> QED
    BY <1>2, <2>1, <2>2, <2>3, MadeQuiet
<1>3. CASE /\ Return(s, "ok") /\ kind[s] = "snapshot"
           /\ \E n \in 0..Len(file[s]), m \in Extent : image' = OnDisk(s, n, m)
           /\ made' = [made EXCEPT ![s] = image'.made]
  <2> PICK n \in 0..Len(file[s]), m \in Extent : image' = OnDisk(s, n, m)
    BY <1>3
  <2>1. ReturnWith(s, "ok", Held(s))
    BY <1>3 DEF Return
  <2>2. /\ pc'[s] = "ok" /\ kind'[s] = kind[s] /\ blocks'[s] = <<>>
        /\ \A t \in Task \ {s} : made'[t] = made[t] => Alike(t)
    BY <2>1, MadeReturn
  <2>3. image'.made \in Extent
    BY DEF OnDisk, Extent
  <2>4. made' \in [Task -> Extent] /\ \A t \in Task \ {s} : made'[t] = made[t]
    BY <1>0, <1>3, <2>3
  <2>5. MadeTask(s)'
    BY <1>3, <2>2 DEF MadeTask, ReadInv
  <2>6. Marked(image)'
    <3> DEFINE es == manifest[s]
               f == file[s]
    <3>1. /\ image'.entries = es /\ image'.bytes = SubSeq(f, 1, n) /\ image'.manifest = m
          /\ image'.made = IF n = Len(f) /\ m = "whole" THEN "whole" ELSE "short"
      BY DEF OnDisk
    <3> SUFFICES ASSUME image'.made = "short", m # "short"
                 PROVE  \E i \in 1..Len(es) : ~Readable(SubSeq(f, 1, n), es[i])
      BY <3>1 DEF Marked
    <3>2. n # Len(f) /\ n < Len(f) /\ Len(f) # 0
      BY <1>0, <3>1 DEF Extent
    <3>3. Len(es) > 0 /\ es[Len(es)].off + es[Len(es)].size = Len(f)
      BY <1>0, <1>3, <3>2 DEF MadeTask, EndsWith
    <3>4. Len(SubSeq(f, 1, n)) = n
      BY <1>0, PrefixFacts
    <3>5. Len(es) \in 1..Len(es)
      BY <1>0, <3>3
    <3>6. ~Readable(SubSeq(f, 1, n), es[Len(es)])
      BY <1>0, <3>2, <3>3, <3>4 DEF Readable
    <3> QED
      BY <3>5, <3>6
  <2> QED
    BY <2>2, <2>4, <2>5, <2>6, MadeOthers
<1> QED
  BY <1>1, <1>2, <1>3, ZenonT(60) DEF Finish

\* A request begins.
LEMMA MadeBegin ==
  ASSUME WorkersInv, MadeInv, NEW s \in Task,
         BeginRestore(s) \/ \E l \in Lists : BeginSnapshot(s, l)
  PROVE  MadeInv'
<1>0. /\ Types /\ TaskInv(s) /\ made \in [Task -> Extent] /\ Marked(image) /\ Sound(image)
      /\ kind \in [Task -> {"snapshot", "restore"}] /\ pos \in [Task -> Nat \ {0}]
  BY DEF WorkersInv, MadeInv, Types, ControlType
<1>a. pc[s] \in Ended /\ image' = image
  BY DEF BeginRestore, BeginSnapshot, Begin, First, Ready
<1>b. Marked(image)' /\ image.made \in Extent
  BY <1>0, <1>a DEF Sound
<1>1. CASE BeginRestore(s)
  <2>1. made' = [made EXCEPT ![s] = image.made]
    BY <1>1 DEF BeginRestore
  <2>2. \A t \in Task \ {s} : Alike(t)
    BY <1>0, <1>1, <2>1, SMTT(60) DEF BeginRestore, Begin, Alike, Types, ControlType, DataType
  <2>3. made' \in [Task -> Extent] /\ made'[s] = image.made
    BY <1>0, <1>b, <2>1
  <2>4. CASE image.manifest = "whole"
    <3>1. Begin(s, "restore", image.entries, image.entries, image.bytes) /\ pc' = [pc EXCEPT ![s] = "fill"]
      BY <1>1, <2>4 DEF BeginRestore
    <3>2. /\ pc'[s] = "fill" /\ kind'[s] = "restore" /\ blocks'[s] = image.entries /\ file'[s] = image.bytes
          /\ pos'[s] = 1
      BY <1>0, <1>a, <3>1 DEF Begin, Types, ControlType, DataType, TaskInv, QuietInv
    <3>3. image.made = "short" => \E i \in 1..Len(image.entries) : ~Readable(image.bytes, image.entries[i])
      BY <1>0, <2>4 DEF Marked
    <3>4. \A i \in 1..Len(image.entries) : ~(i < 1)
      OBVIOUS
    <3>5. MadeTask(s)'
      BY <2>3, <3>2, <3>3, <3>4, ZenonT(60) DEF MadeTask, ReadInv
    <3> QED
      BY <1>b, <2>2, <2>3, <3>5, MadeOthers
  <2>5. CASE image.manifest = "short"
    <3>1. pc'[s] = "reject" /\ kind'[s] = "restore"
      BY <1>0, <1>1, <2>5 DEF BeginRestore, Begin, Types, ControlType
    <3>2. MadeTask(s)'
      BY <3>1 DEF MadeTask, ReadInv
    <3> QED
      BY <1>b, <2>2, <2>3, <3>2, MadeOthers
  <2> QED
    BY <1>1, <2>4, <2>5 DEF BeginRestore
<1>2. ASSUME NEW l \in Lists, BeginSnapshot(s, l) PROVE MadeInv'
  <2>1. made' = made
    BY <1>2 DEF BeginSnapshot
  <2>2. \A t \in Task \ {s} : Alike(t)
    BY <1>0, <1>2, <2>1 DEF BeginSnapshot, Begin, Alike, Types, ControlType, DataType
  <2>3. pc'[s] = "coalesce" /\ kind'[s] = "snapshot" /\ blocks'[s] = <<>>
    BY <1>0, <1>2 DEF BeginSnapshot, Begin, Types, ControlType, DataType
  <2>4. MadeTask(s)'
    BY <2>3 DEF MadeTask, ReadInv
  <2> QED
    BY <1>0, <1>b, <2>1, <2>2, <2>4, MadeOthers
<1> QED
  BY <1>1, <1>2

\* Every step keeps MadeInv.
LEMMA MadeNext ==
  ASSUME WorkersInv, MadeInv, [Next]_vars
  PROVE  MadeInv'
<1>1. CASE UNCHANGED <<pc, kind, list, blocks, pos, file, manifest, image, made>>
  BY <1>1 DEF MadeInv, MadeTask, ReadInv
<1>2. CASE UNCHANGED vars
  BY <1>1, <1>2 DEF vars, request, output, disk
<1>3. ASSUME NEW s \in Task, NEW w \in Worker, Claim(s, w) \/ Take(s, w) PROVE MadeInv'
  BY <1>1, <1>3 DEF Claim, Take, request, output, disk
<1>4. ASSUME NEW s \in Task, NEW w \in Worker, Copy(s, w) PROVE MadeInv'
  BY <1>1, <1>4, ZenonT(60) DEF Copy, request, disk
<1>5. ASSUME NEW s \in Task, Reject(s) PROVE MadeInv'
  BY <1>5, MadeError DEF Reject, Return
<1>6. ASSUME NEW s \in Task, Step(s) PROVE MadeInv'
  BY <1>3, <1>4, <1>5, <1>6, MadeCoalesce, MadeLaunch, MadeFill, MadeJoin, MadeDrain, MadeFinish DEF Step
<1> QED
  BY <1>2, <1>6, MadeBegin DEF Next

\* Where a short image is short.
THEOREM MadeInvariant == Spec => [](WorkersInv /\ MadeInv)
<1>1. Init => MadeInv
  <2> SUFFICES ASSUME Init PROVE MadeInv
    OBVIOUS
  <2>1. made \in [Task -> Extent] /\ Marked(image)
    BY WorkersAssumption DEF Init, Extent
  <2>2. \A s \in Task : MadeTask(s)
    BY DEF Init, MadeTask, ReadInv
  <2> QED
    BY <2>1, <2>2 DEF MadeInv
<1>2. WorkersInv /\ MadeInv /\ [Next]_vars => MadeInv'
  BY MadeNext
<1> QED
  BY <1>1, <1>2, WorkersInvariant, PTL DEF Spec

\* ShortIsRefused, for every number of requests, workers and allocations: a RESTORE
\* answers ok for no image of which SNAPSHOT has not written all, although SNAPSHOT
\* answered ok for it.
THEOREM ShortImagesAreRefused == Spec => []ShortIsRefused
<1>1. MadeInv => ShortIsRefused
  BY DEF MadeInv, MadeTask, ReadInv, ShortIsRefused
<1> QED
  BY <1>1, MadeInvariant, PTL

-----------------------------------------------------------------------------
(* Workers implements Transfer.                                            *)

\* The refinement mapping: what is still to be moved.
Left(s) == {i \in DOMAIN list[s] : ~Moved(s, i)}

\* Nothing of request t changes for Transfer.
Still(t) == Left(t)' = Left(t) /\ Answer(t)' = Answer(t)

\* If nothing is changed of any request, Transfer stutters.
LEMMA RefineStutter ==
  ASSUME \A t \in Task : Still(t), UNCHANGED kind
  PROVE  UNCHANGED Promise!vars
BY DEF Promise!vars, Still, Left, Answer

\* A request that begins begins in Transfer, with everything to do.
LEMMA RefineBegin ==
  ASSUME NEW s \in Task, \A t \in Task \ {s} : Still(t), Answer(s) # "busy", Answer(s)' = "busy",
         NEW n \in 0..MaxAllocs, Left(s)' = 1..n, NEW k \in {"snapshot", "restore"}, kind' = [kind EXCEPT ![s] = k]
  PROVE  Promise!Begin(s)
BY DEF Promise!Begin, Still, Left, Answer

\* What a busy request has left to do only shrinks.
LEMMA RefineMove ==
  ASSUME NEW s \in Task, \A t \in Task \ {s} : Still(t), Answer(s) = "busy", Answer(s)' = "busy",
         Left(s)' \subseteq Left(s), UNCHANGED kind
  PROVE  Promise!Move(s)
<1> DEFINE moved == Left(s) \ Left(s)'
           todo == [t \in Task |-> Left(t)]
<1>1. moved \in SUBSET todo[s] /\ Left(s)' = Left(s) \ moved
  OBVIOUS
<1>2. todo' = [todo EXCEPT ![s] = @ \ moved]
  BY <1>1 DEF Still
<1>3. todo = [t \in Task |-> {i \in DOMAIN list[t] : ~Moved(t, i)}]
  BY DEF Left
<1>4. UNCHANGED [t \in Task |-> Answer(t)]
  BY DEF Still
<1> HIDE DEF moved, todo
<1>5. \E m \in SUBSET todo[s] : todo' = [todo EXCEPT ![s] = @ \ m]
  BY <1>1, <1>2
<1> QED
  BY <1>4, <1>5 DEF Promise!Move, Answer, todo, Left

\* A request answers ok when nothing is left to do.
LEMMA RefineSucceed ==
  ASSUME NEW s \in Task, \A t \in Task \ {s} : Still(t), Answer(s) = "busy", Answer(s)' = "ok",
         Left(s) = {}, Left(s)' = {}, UNCHANGED kind
  PROVE  Promise!Succeed(s)
BY DEF Promise!Succeed, Still, Left, Answer

\* A SNAPSHOT that the disk did not take all of.
LEMMA RefineShort ==
  ASSUME NEW s \in Task, \A t \in Task \ {s} : Still(t), Answer(s) = "busy", Answer(s)' = "short",
         Left(s) = {}, Left(s)' = {}, UNCHANGED kind, kind[s] = "snapshot"
  PROVE  Promise!EndShort(s)
BY DEF Promise!EndShort, Still, Left, Answer

\* A request that fails promises nothing.
LEMMA RefineFail ==
  ASSUME NEW s \in Task, \A t \in Task \ {s} : Still(t), Answer(s) = "busy", Answer(s)' = "err", Left(s)' = {},
         UNCHANGED kind
  PROVE  Promise!Fail(s)
BY DEF Promise!Fail, Still, Left, Answer

\* A request of which nothing changes is still in Transfer.
LEMMA SameStill == ASSUME NEW t \in Task, Same(t), made'[t] = made[t] PROVE Still(t)
BY DEF Same, Still, Left, Answer, Moved

\* A step in which the request neither begins nor ends, and moves nothing.
LEMMA RefineQuiet ==
  ASSUME NEW s \in Task, \A t \in Task \ {s} : Still(t), pc[s] \notin Ended, pc'[s] \notin Ended,
         UNCHANGED <<kind, list, file, manifest, mem, made>>
  PROVE  [Promise!Next]_(Promise!vars)
<1>1. Still(s)
  BY DEF Still, Left, Answer, Moved
<1> QED
  BY <1>1, RefineStutter

\* A request that ends: well, short or with an error.
LEMMA RefineReturn ==
  ASSUME WorkersInv, NEW s \in Task, NEW answer \in {"ok", "err"}, NEW bs, ReturnWith(s, answer, bs), pc[s] \notin Ended,
         answer = "ok" => Left(s) = {}, \A t \in Task \ {s} : made'[t] = made[t], made'[s] \in Extent,
         answer = "ok" /\ made'[s] = "short" => kind[s] = "snapshot"
  PROVE  [Promise!Next]_(Promise!vars)
<1>1. \A t \in Task \ {s} : Same(t)
  BY DEF WorkersInv, Types, ControlType, FailType, DataType, PoolType, ReturnWith, Same
<1>2. \A t \in Task \ {s} : Still(t)
  BY <1>1, SameStill
<1>3. pc'[s] = answer /\ list'[s] = <<>> /\ UNCHANGED kind
  BY DEF WorkersInv, Types, ControlType, DataType, ReturnWith
<1>4. Left(s)' = {} /\ Answer(s) = "busy"
  BY <1>3 DEF Left, Answer, Ended
<1>5. CASE answer = "ok" /\ made'[s] = "whole"
  <2>1. Answer(s)' = "ok"
    BY <1>3, <1>5 DEF Answer, Ended
  <2> QED
    BY <1>2, <1>3, <1>4, <1>5, <2>1, RefineSucceed DEF Promise!Next
<1>6. CASE answer = "ok" /\ made'[s] = "short"
  <2>1. Answer(s)' = "short"
    BY <1>3, <1>6 DEF Answer, Ended
  <2> QED
    BY <1>2, <1>3, <1>4, <1>6, <2>1, RefineShort DEF Promise!Next
<1>7. CASE answer = "err"
  <2>1. Answer(s)' = "err"
    BY <1>3, <1>7 DEF Answer, Ended
  <2> QED
    BY <1>2, <1>3, <1>4, <2>1, RefineFail DEF Promise!Next
<1> QED
  BY <1>5, <1>6, <1>7 DEF Extent

\* A request that ends with an error, and makes no image.
LEMMA RefineError ==
  ASSUME WorkersInv, MadeInv, NEW s \in Task, NEW bs, ReturnWith(s, "err", bs), pc[s] \notin Ended, UNCHANGED made
  PROVE  [Promise!Next]_(Promise!vars)
<1>1. made'[s] \in Extent /\ \A t \in Task : made'[t] = made[t]
  BY DEF MadeInv
<1> QED
  BY <1>1, RefineReturn

\* The step of Transfer that BeginSnapshot is.
LEMMA RefineBeginSnapshot ==
  ASSUME WorkersInv, NEW s \in Task, NEW l \in Lists, BeginSnapshot(s, l)
  PROVE  [Promise!Next]_(Promise!vars)
<1>0. Types /\ TaskInv(s) /\ pc[s] \in Ended
  BY DEF WorkersInv, BeginSnapshot, Begin, First, Ready
<1>1. l \in Seq(Alloc) /\ Len(l) \in 0..MaxAllocs
  BY WorkersAssumption
<1>2. \A t \in Task \ {s} : Same(t)
  BY <1>0 DEF BeginSnapshot, Begin, Same, Types, ControlType, DataType, PoolType
<1>3. \A t \in Task \ {s} : Still(t)
  BY <1>2, SameStill DEF BeginSnapshot
<1>4. /\ pc'[s] = "coalesce" /\ kind'[s] = "snapshot" /\ list'[s] = l /\ manifest' = manifest
      /\ kind' = [kind EXCEPT ![s] = "snapshot"]
  BY <1>0 DEF BeginSnapshot, Begin, Types, ControlType, DataType
<1>5. manifest'[s] = <<>>
  BY <1>0, <1>4 DEF TaskInv, QuietInv, Ended
<1>6. Left(s)' = 1..Len(l)
  BY <1>1, <1>4, <1>5 DEF Left, Moved
<1>7. Answer(s) # "busy" /\ Answer(s)' = "busy"
  BY <1>0, <1>4 DEF Answer, Ended
<1> QED
  BY <1>1, <1>3, <1>4, <1>6, <1>7, RefineBegin DEF Promise!Next

\* The step of Transfer that BeginRestore is.
LEMMA RefineBeginRestore ==
  ASSUME WorkersInv, MadeInv, NEW s \in Task, BeginRestore(s)
  PROVE  [Promise!Next]_(Promise!vars)
<1>0. Types /\ TaskInv(s) /\ pc[s] \in Ended /\ Sound(image)
  BY DEF WorkersInv, BeginRestore, Begin, First, Ready
<1> DEFINE whole == image.manifest = "whole"
<1> PICK l : l = IF whole THEN image.entries ELSE <<>>
  OBVIOUS
<1>1. l \in Seq(Entry) /\ Len(l) \in 0..MaxAllocs /\ \A i \in 1..Len(l) : Span(l[i]) \subseteq Addr
  <2>1. l \in Seq(Entry) /\ Len(l) <= MaxAllocs
    BY <1>0, WorkersAssumption DEF Sound
  <2>2. \A i \in 1..Len(l) : Span(l[i]) \subseteq Addr
    BY <1>0 DEF Sound
  <2> QED
    BY <2>1, <2>2, WorkersAssumption
<1>2. \A t \in Task \ {s} : Same(t)
  BY <1>0 DEF BeginRestore, Begin, Same, Types, ControlType, DataType, PoolType
<1>3. \A t \in Task \ {s} : Still(t)
  <2>1. \A t \in Task \ {s} : made'[t] = made[t]
    BY DEF BeginRestore, MadeInv
  <2> QED
    BY <1>2, <2>1, SameStill
<1>4. /\ pc'[s] \in {"fill", "reject"} /\ kind'[s] = "restore" /\ list'[s] = l /\ mem' = mem
      /\ kind' = [kind EXCEPT ![s] = "restore"]
  BY <1>0 DEF BeginRestore, Begin, Types, ControlType, DataType
<1>5. mem'[s] = Blank
  BY <1>0, <1>4 DEF TaskInv, QuietInv
<1>6. ASSUME NEW i \in 1..Len(l) PROVE ~Moved(s, i)'
  <2>1. l[i] \in Entry
    BY <1>1
  <2>2. l[i].base \in Nat /\ l[i].size \in Nat \ {0}
    BY <2>1, EntryFacts
  <2>3. l[i].base \in Span(l[i])
    BY <2>2 DEF Span
  <2>4. l[i].base \in Addr /\ l[i].base # 0
    BY <1>1, <2>3, WorkersAssumption
  <2>5. mem'[s][l[i].base] = 0
    BY <1>5, <2>4 DEF Blank
  <2>6. ~(\A x \in Span(l[i]) : mem'[s][x] = x)
    BY <2>3, <2>4, <2>5
  <2> QED
    BY <1>4, <2>6 DEF Moved
<1>7. Left(s)' = 1..Len(l)
  <2>1. DOMAIN l = 1..Len(l)
    BY <1>1
  <2> QED
    BY <1>4, <1>6, <2>1 DEF Left
<1>8. Answer(s) # "busy" /\ Answer(s)' = "busy"
  BY <1>0, <1>4 DEF Answer, Ended
<1> QED
  BY <1>1, <1>3, <1>4, <1>7, <1>8, RefineBegin DEF Promise!Next

\* The step of Transfer that Copy is: in a RESTORE it moves an allocation.
LEMMA RefineCopy ==
  ASSUME WorkersInv, NEW s \in Task, NEW w \in Worker, Copy(s, w)
  PROVE  [Promise!Next]_(Promise!vars)
<1>0. /\ worker[s][w].at = "copy" /\ UNCHANGED <<pc, kind, list, blocks, host, file, manifest, made>>
  BY ZenonT(60) DEF Copy, WorkerAt, request, disk
<1>1. TaskInv(s) /\ Types /\ pc[s] = "join" /\ worker[s][w].i \in Nat /\ kind[s] \in {"snapshot", "restore"}
  BY <1>0, JoinFacts
<1>2. mem \in [Task -> [Addr -> Nat]] /\ \A t \in Task \ {s} : mem'[t] = mem[t]
  BY <1>1, ZenonT(60) DEF Copy, Types, DataType
<1>3. \A t \in Task \ {s} : Still(t)
  BY <1>0, <1>2 DEF Still, Left, Answer, Moved
<1>4. Answer(s) = "busy" /\ Answer(s)' = "busy"
  BY <1>0, <1>1 DEF Answer, Ended
<1>5. CASE kind[s] = "snapshot"
  <2>1. Left(s)' = Left(s)
    BY <1>0, <1>5 DEF Left, Moved
  <2> QED
    BY <1>0, <1>3, <1>4, <2>1, RefineMove DEF Promise!Next
<1>6. CASE kind[s] = "restore"
  <2>1. \A x \in Addr : mem[s][x] = x => mem'[s][x] = x
    <3>1. CASE mem' = mem
      BY <3>1
    <3>2. CASE mem' # mem
      <4> PICK i \in Nat : i = worker[s][w].i
        BY <1>1
      <4> DEFINE b == blocks[s][i]
      <4>1. mem' = [mem EXCEPT ![s] =
               [a \in Addr |-> IF a \in Span(b) THEN Contents(host[s][i], b.size)[a - b.base + 1] ELSE @[a]]]
        BY <1>6, <3>2, ZenonT(60) DEF Copy
      <4>2. \A x \in Span(b) : Contents(host[s][i], b.size)[x - b.base + 1] = x
        BY <1>0, <1>6, RestoreCells, SMTT(60)
      <4> HIDE DEF b
      <4> QED
        BY <1>2, <4>1, <4>2
    <3> QED
      BY <3>1, <3>2
  <2>2. \A i \in DOMAIN list[s] : Span(list[s][i]) \subseteq Addr
    <3>1. list[s] \in Seq(Entry)
      BY <1>1, <1>6 DEF TaskInv, ListInv
    <3>2. DOMAIN list[s] = 1..Len(list[s])
      BY <3>1
    <3> QED
      BY <1>1, <3>2 DEF TaskInv, ListInv
  <2>3. Left(s)' \subseteq Left(s)
    BY <1>0, <1>6, <2>1, <2>2 DEF Left, Moved
  <2> QED
    BY <1>0, <1>3, <1>4, <2>3, RefineMove DEF Promise!Next
<1> QED
  BY <1>1, <1>5, <1>6

\* The step of Transfer that Drain is: in a SNAPSHOT it moves those of a block.
LEMMA RefineDrain ==
  ASSUME WorkersInv, NEW s \in Task, Drain(s)
  PROVE  [Promise!Next]_(Promise!vars)
<1>0. Types /\ TaskInv(s) /\ pc[s] = "drain" /\ UNCHANGED <<pc, kind, list, blocks, mem, made>>
  BY DEF WorkersInv, Drain, request, disk
<1>1. /\ file \in [Task -> Seq(Nat)] /\ manifest \in [Task -> Seq(Entry)]
      /\ kind[s] \in {"snapshot", "restore"}
  BY <1>0 DEF Types, DataType, ControlType
<1>2. \A t \in Task \ {s} : file'[t] = file[t] /\ manifest'[t] = manifest[t]
  BY <1>1 DEF Drain
<1>3. \A t \in Task \ {s} : Still(t)
  BY <1>0, <1>2 DEF Still, Left, Answer, Moved
<1>4. Answer(s) = "busy" /\ Answer(s)' = "busy"
  BY <1>0 DEF Answer, Ended
<1>5. CASE kind[s] = "restore"
  <2>1. Left(s)' = Left(s)
    BY <1>0, <1>5 DEF Left, Moved
  <2> QED
    BY <1>0, <1>3, <1>4, <2>1, RefineMove DEF Promise!Next
<1>6. CASE kind[s] = "snapshot"
  <2>0. /\ list[s] \in Seq(Alloc) /\ blocks[s] \in Seq(BlockRec) /\ Layout(blocks[s], list[s], Len(list[s]))
    BY <1>0, <1>6 DEF TaskInv, ListInv, LayoutInv, Listed
  <2> PICK i : i = pos[s]
    OBVIOUS
  <2>a. i \in 1..Len(blocks[s])
    BY <2>0 DEF Drain
  <2> DEFINE g == Contents(host[s][i], blocks[s][i].size)
             es == PartEntries(list[s], blocks[s][i])
  <2>1. file' = [file EXCEPT ![s] = @ \o g] /\ manifest' = [manifest EXCEPT ![s] = @ \o es]
    BY <1>6 DEF Drain
  <2>2. g \in Seq(Nat)
    BY <1>0, <1>6, <2>a, DrainContents
  <2>3. es \in Seq(Entry)
    <3>1. blocks[s][i] \in BlockRec /\ Covers(blocks[s][i], list[s], Len(list[s]))
      BY <2>0, <2>a DEF Layout
    <3> QED
      BY <2>0, <3>1, PartFacts
  <2> HIDE DEF g, es
  <2>4. file'[s] = file[s] \o g /\ manifest'[s] = manifest[s] \o es /\ file[s] \in Seq(Nat) /\ manifest[s] \in Seq(Entry)
    BY <1>1, <2>1
  <2>5. ASSUME NEW k \in DOMAIN manifest[s]
        PROVE  /\ k \in DOMAIN manifest'[s] /\ manifest'[s][k] = manifest[s][k]
               /\ Stored(file[s], manifest[s][k]) => Stored(file'[s], manifest[s][k])
    <3>1. k \in 1..Len(manifest[s]) /\ manifest[s][k] \in Entry
      BY <2>4
    <3>2. manifest'[s][k] = manifest[s][k] /\ k \in DOMAIN manifest'[s]
      <4>1. Concat(manifest[s], es, manifest'[s], Entry)
        BY <2>3, <2>4, ConcatNamed
      <4>2. Len(manifest[s]) \in Nat /\ Len(es) \in Nat
        BY <2>3, <2>4
      <4>3. manifest'[s] \in Seq(Entry) /\ Len(manifest'[s]) = Len(manifest[s]) + Len(es) /\ manifest'[s][k] = manifest[s][k]
        BY <3>1, <4>1 DEF Concat
      <4>4. k \in 1..Len(manifest'[s])
        BY <3>1, <4>2, <4>3
      <4>5. DOMAIN manifest'[s] = 1..Len(manifest'[s])
        BY <4>3
      <4> QED
        BY <4>3, <4>4, <4>5
    <3>3. Stored(file[s], manifest[s][k]) => Stored(file'[s], manifest[s][k])
      BY <2>2, <2>4, <3>1, StoredMore
    <3> QED
      BY <3>2, <3>3
  <2>6. Left(s)' \subseteq Left(s)
    <3> SUFFICES ASSUME NEW j \in DOMAIN list[s], Moved(s, j) PROVE Moved(s, j)'
      BY <1>0 DEF Left
    <3>1. PICK k \in DOMAIN manifest[s] :
            /\ manifest[s][k].base = list[s][j].base /\ manifest[s][k].size = list[s][j].size
            /\ Stored(file[s], manifest[s][k])
      BY <1>6 DEF Moved
    <3> QED
      BY <1>0, <1>6, <2>5, <3>1 DEF Moved
  <2> QED
    BY <1>0, <1>3, <1>4, <2>6, RefineMove DEF Promise!Next
<1> QED
  BY <1>1, <1>5, <1>6

\* A request that comes to the end of its tasks has moved everything.
LEMMA NothingLeft ==
  ASSUME WorkersInv, NEW s \in Task, pc[s] = "drain", pos[s] \notin DOMAIN blocks[s]
  PROVE  Left(s) = {}
<1>0. Types /\ TaskInv(s) /\ pos[s] \in Nat \ {0} /\ kind[s] \in {"snapshot", "restore"}
  BY DEF WorkersInv, Types, ControlType
<1>1. CASE kind[s] = "snapshot"
  <2>1. /\ list[s] \in Seq(Alloc) /\ blocks[s] \in Seq(BlockRec) /\ Layout(blocks[s], list[s], Len(list[s]))
        /\ Drained(file[s], manifest[s], blocks[s], list[s], pos[s]) /\ pos[s] <= Len(blocks[s]) + 1
        /\ manifest[s] \in Seq(Entry)
    BY <1>0, <1>1 DEF TaskInv, ListInv, LayoutInv, Listed, DrainInv, Types, DataType
  <2>2. /\ Len(manifest[s]) = Len(list[s])
        /\ \A i \in 1..Len(manifest[s]) : /\ manifest[s][i].base = list[s][i].base
                                          /\ manifest[s][i].size = list[s][i].size
                                          /\ Stored(file[s], manifest[s][i])
    BY <1>0, <2>1, DrainedAll, SMTT(60)
  <2>3. DOMAIN list[s] = 1..Len(manifest[s]) /\ DOMAIN manifest[s] = 1..Len(manifest[s])
    BY <2>1, <2>2
  <2> QED
    BY <1>1, <2>2, <2>3 DEF Left, Moved
<1>2. CASE kind[s] = "restore"
  <2>1. blocks[s] = list[s] /\ list[s] \in Seq(Entry) /\ \A i \in 1..Len(blocks[s]) : Written(s, i)
    BY <1>0, <1>2 DEF TaskInv, ListInv, DrainInv
  <2>2. DOMAIN list[s] = 1..Len(blocks[s])
    BY <2>1
  <2> QED
    BY <1>2, <2>1, <2>2 DEF Left, Moved, Written
<1> QED
  BY <1>0, <1>1, <1>2

\* Every step is one of Transfer, or one that Transfer does not see.
LEMMA RefineNext ==
  ASSUME WorkersInv, MadeInv, [Next]_vars
  PROVE  [Promise!Next]_(Promise!vars)
<1>0. Types
  BY DEF WorkersInv
<1>1. CASE UNCHANGED vars
  <2>1. (\A t \in Task : Still(t)) /\ UNCHANGED kind
    BY <1>1 DEF vars, request, output, disk, Still, Left, Answer, Moved
  <2> QED
    BY <2>1, RefineStutter
<1>2. ASSUME NEW s \in Task, Coalesce(s) PROVE [Promise!Next]_(Promise!vars)
  <2>1. UNCHANGED <<pc, kind, list, file, manifest, mem, made>> /\ pc[s] = "coalesce"
    BY <1>2 DEF Coalesce, output, disk
  <2>2. \A t \in Task \ {s} : Still(t)
    BY <2>1 DEF Still, Left, Answer, Moved
  <2> QED
    BY <2>1, <2>2, RefineQuiet DEF Ended
<1>3. ASSUME NEW s \in Task, Launch(s) PROVE [Promise!Next]_(Promise!vars)
  <2>1. UNCHANGED <<kind, list, file, manifest, mem, made>> /\ pc[s] \in {"coalesce", "fill"}
        /\ pc'[s] = "join" /\ \A t \in Task \ {s} : pc'[t] = pc[t]
    BY <1>0, <1>3 DEF Launch, Stay, request, output, disk, Types, ControlType
  <2>2. \A t \in Task \ {s} : Still(t)
    BY <2>1 DEF Still, Left, Answer, Moved
  <2> QED
    BY <2>1, <2>2, RefineQuiet DEF Ended
<1>4. ASSUME NEW s \in Task, Fill(s) PROVE [Promise!Next]_(Promise!vars)
  <2>0. pc[s] = "fill" /\ pc[s] \notin Ended
    BY <1>4 DEF Fill, Ended
  <2>1. CASE Stay /\ UNCHANGED <<pc, disk>>
    <3>1. UNCHANGED <<pc, kind, list, file, manifest, mem, made>>
      BY <2>1 DEF Stay, request, output, disk
    <3>2. \A t \in Task \ {s} : Still(t)
      BY <3>1 DEF Still, Left, Answer, Moved
    <3> QED
      BY <2>0, <3>1, <3>2, RefineQuiet
  <2>2. ASSUME NEW bs, ReturnWith(s, "err", bs), UNCHANGED disk PROVE [Promise!Next]_(Promise!vars)
    BY <2>0, <2>2, RefineError DEF disk
  <2> QED
    BY <1>4, <2>1, <2>2, ZenonT(60) DEF Fill, Return
<1>5. ASSUME NEW s \in Task, NEW w \in Worker, Claim(s, w) PROVE [Promise!Next]_(Promise!vars)
  <2>1. UNCHANGED <<pc, kind, list, file, manifest, mem, made>> /\ worker[s][w].at # "off"
    BY <1>5 DEF Claim, request, output, WorkerAt, disk
  <2>2. \A t \in Task : Still(t)
    BY <2>1 DEF Still, Left, Answer, Moved
  <2> QED
    BY <2>1, <2>2, RefineStutter
<1>6. ASSUME NEW s \in Task, NEW w \in Worker, Take(s, w) PROVE [Promise!Next]_(Promise!vars)
  <2>1. UNCHANGED <<pc, kind, list, file, manifest, mem, made>>
    BY <1>6 DEF Take, request, output, disk
  <2>2. \A t \in Task : Still(t)
    BY <2>1 DEF Still, Left, Answer, Moved
  <2> QED
    BY <2>1, <2>2, RefineStutter
<1>7. ASSUME NEW s \in Task, Join(s) PROVE [Promise!Next]_(Promise!vars)
  <2>0. pc[s] = "join" /\ pc[s] \notin Ended
    BY <1>7 DEF Join, Ended
  <2>1. CASE Stay /\ pc' = [pc EXCEPT ![s] = "drain"] /\ UNCHANGED disk
    <3>1. UNCHANGED <<kind, list, file, manifest, mem, made>> /\ pc'[s] = "drain" /\ \A t \in Task \ {s} : pc'[t] = pc[t]
      BY <1>0, <2>1 DEF Stay, request, output, disk, Types, ControlType
    <3>2. \A t \in Task \ {s} : Still(t)
      BY <3>1 DEF Still, Left, Answer, Moved
    <3> QED
      BY <2>0, <3>1, <3>2, RefineQuiet DEF Ended
  <2>2. CASE Return(s, "err") /\ UNCHANGED disk
    BY <2>0, <2>2, RefineError DEF Return, disk
  <2> QED
    BY <1>7, <2>1, <2>2 DEF Join
<1>8. ASSUME NEW s \in Task, Finish(s) PROVE [Promise!Next]_(Promise!vars)
  <2>1. pc[s] = "drain" /\ pos[s] \notin DOMAIN blocks[s] /\ pc[s] \notin Ended
    BY <1>8 DEF Finish, Ended
  <2>2. Left(s) = {} /\ MadeTask(s) /\ made \in [Task -> Extent] /\ kind[s] \in {"snapshot", "restore"}
    BY <1>0, <2>1, NothingLeft DEF MadeInv, Types, ControlType
  <2>3. CASE ReturnWith(s, "ok", Held(s)) /\ kind[s] = "restore" /\ UNCHANGED disk
    <3>1. made'[s] = "whole" /\ \A t \in Task : made'[t] = made[t]
      BY <2>1, <2>2, <2>3 DEF MadeTask, ReadInv, disk
    <3>2. made'[s] \in Extent /\ made'[s] # "short"
      BY <3>1 DEF Extent
    <3> QED
      BY <2>1, <2>2, <2>3, <3>1, <3>2, RefineReturn
  <2>4. CASE ReturnWith(s, "ok", Held(s)) /\ kind[s] = "snapshot" /\ made' = [made EXCEPT ![s] = image'.made]
             /\ \E n \in 0..Len(file[s]), m \in Extent : image' = OnDisk(s, n, m)
    <3>1. image'.made \in Extent
      BY <2>4 DEF OnDisk, Extent
    <3>2. made'[s] \in Extent /\ \A t \in Task \ {s} : made'[t] = made[t]
      BY <2>2, <2>4, <3>1
    <3> QED
      BY <2>1, <2>2, <2>4, <3>2, RefineReturn
  <2>5. CASE ReturnWith(s, "err", Held(s)) /\ UNCHANGED disk
    BY <2>1, <2>5, RefineError DEF disk
  <2> QED
    BY <1>8, <2>3, <2>4, <2>5 DEF Finish, Return
<1>9. ASSUME NEW s \in Task, Reject(s) PROVE [Promise!Next]_(Promise!vars)
  BY <1>9, RefineError DEF Reject, Return, Ended, disk
<1>10. ASSUME NEW s \in Task, Step(s) PROVE [Promise!Next]_(Promise!vars)
  BY <1>2, <1>3, <1>4, <1>5, <1>6, <1>7, <1>8, <1>9, <1>10, RefineCopy, RefineDrain DEF Step
<1> QED
  BY <1>1, <1>10, RefineBeginRestore, RefineBeginSnapshot DEF Next

\* ImplementsTransfer, for every number of requests, workers and allocations: every
\* step of the threads, the shared index and the pool is a step of Transfer or none,
\* so SNAPSHOT and RESTORE answer ok only when every allocation has been moved, with
\* the one exception that Transfer names, writes that the disk did not take.
THEOREM WorkersImplementTransfer == Spec => ImplementsTransfer
<1>1. Init => Promise!Init
  BY DEF Init, Promise!Init, Ended, Answer
<1>2. WorkersInv /\ MadeInv /\ [Next]_vars => [Promise!Next]_(Promise!vars)
  BY RefineNext
<1>3. Spec => [](WorkersInv /\ MadeInv)
  BY MadeInvariant
<1> QED
  BY <1>1, <1>2, <1>3, PTL DEF Spec, ImplementsTransfer, Promise!Spec

=============================================================================
