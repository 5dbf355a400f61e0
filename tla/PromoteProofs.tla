--------------------------- MODULE PromoteProofs ----------------------------
(***************************************************************************)
(* A promoted and pinned image stays whole.                                *)
(***************************************************************************)
EXTENDS Promote, Integers, TLAPS

PromoteTypeOK ==
  /\ at \in {"idle", "validate", "remove", "list", "copy", "check", "undo", "pin"}
  /\ at = "check" => left \in Seq(File)
  /\ promoted \subseteq File
  /\ image \subseteq File

\* The ghost is up only from the validation of the copy on, and while it is, the
\* path is on no list of the GC until the promotion has returned.
GoodInv ==
  /\ good = TRUE => at \in {"check", "pin", "idle"}
  /\ good = TRUE /\ at \in {"check", "pin"} => gc # "apply"

\* What is being written is young, so that a GC that read the pin file before the
\* path was pinned keeps it.
YoungInv == at \in {"copy", "check", "pin"} => old = FALSE

\* What the validation has looked at so far is there.
CheckedInv ==
  /\ good = TRUE /\ at = "check" =>
       \A f \in File : f \in promoted \/ \E i \in 1..Len(left) : left[i] = f
  /\ good = TRUE /\ at = "pin" => promoted = File

PinnedInv ==
  good = TRUE /\ at = "idle" /\ pinned = TRUE =>
    /\ promoted = File
    /\ gc # "apply"
    /\ gc = "listing" => old = FALSE

PromoteInv == PromoteTypeOK /\ GoodInv /\ YoungInv /\ CheckedInv /\ PinnedInv

\* The names that ValidateImage looks at are those of all files.
LEMMA ValidatesAll ==
  /\ ToValidate \in Seq(File)
  /\ \A f \in File : \E i \in 1..Len(ToValidate) : ToValidate[i] = f
<1>1. ToValidate \in Seq(File) /\ Len(ToValidate) = 5
  BY DEF ToValidate, File
<1>2. /\ ToValidate[1] = "gpu" /\ ToValidate[2] = "meta" /\ ToValidate[3] = "criu"
      /\ ToValidate[4] = "COMPLETE"
  BY DEF ToValidate
<1> QED
  BY <1>1, <1>2 DEF File

\* What is left of a sequence when its head has been looked at.
LEMMA TailKeeps ==
  ASSUME NEW s \in Seq(File), s # <<>>, NEW f \in File, NEW i \in 1..Len(s), s[i] = f, f # Head(s)
  PROVE  \E j \in 1..Len(Tail(s)) : Tail(s)[j] = f
<1>1. i # 1
  BY DEF File
<1>2. i - 1 \in 1..Len(Tail(s)) /\ Tail(s)[i - 1] = s[i]
  BY <1>1
<1> QED
  BY <1>2

\* The invariant holds at first.
LEMMA PromoteInvInit == PromoteInit => PromoteInv
<1> SUFFICES ASSUME PromoteInit PROVE PromoteInv
  OBVIOUS
<1>1. PromoteTypeOK
  BY DEF PromoteInit, Init, PromoteTypeOK
<1> QED
  BY <1>1 DEF PromoteInit, PromoteInv, GoodInv, YoungInv, CheckedInv, PinnedInv

\* A promotion moves on without a change to the path, the pin file or the GC.
LEMMA PromoterStep ==
  ASSUME PromoteInv, Promoter, UNCHANGED slot
  PROVE  PromoteInv'
<1>0. PromoteTypeOK /\ GoodInv /\ YoungInv /\ CheckedInv /\ PinnedInv /\ image' = image
  BY DEF PromoteInv, slot
<1> USE <1>0
<1>1. CASE PromoteStart
  BY <1>1, ValidatesAll DEF PromoteStart, Goto, gcvars, PromoteInv, PromoteTypeOK, GoodInv, YoungInv,
     CheckedInv, PinnedInv
<1>2. CASE ValidateSource
  <2>2. at = "validate" /\ good # TRUE /\ good' # TRUE
    BY <1>2 DEF ValidateSource, GoodInv
  <2>3. at' \in {"validate", "remove", "idle"} /\ promoted' = promoted
    BY <1>2, <2>2 DEF ValidateSource, Validate, Goto, PromoteTypeOK
  <2> QED
    BY <2>2, <2>3 DEF PromoteInv, PromoteTypeOK, GoodInv, YoungInv, CheckedInv, PinnedInv
<1>3. CASE RemovePromoted
  <2>1. good # TRUE /\ good' # TRUE
    BY <1>3 DEF RemovePromoted, GoodInv
  <2>2. at' \in {"remove", "undo", "list", "idle"} /\ promoted' \subseteq promoted
    BY <1>3 DEF RemovePromoted, RemoveOne
  <2> QED
    BY <2>1, <2>2 DEF PromoteInv, PromoteTypeOK, GoodInv, YoungInv, CheckedInv, PinnedInv
<1>4. CASE List
  <2>1. good # TRUE /\ good' # TRUE
    BY <1>4 DEF List, GoodInv
  <2>4. at' \in {"copy", "idle"} /\ promoted' = promoted
        /\ (at' = "copy" => old' = FALSE)
    BY <1>4 DEF List, Goto
  <2> QED
    BY <2>1, <2>4 DEF PromoteInv, PromoteTypeOK, GoodInv, YoungInv, CheckedInv, PinnedInv
<1>5. CASE Copy
  <2>1. good # TRUE /\ good' # TRUE
    BY <1>5 DEF Copy, GoodInv
  <2>2. at' \in {"copy", "idle"} /\ promoted' \subseteq File
        /\ (at' = "copy" => old' = FALSE)
    BY <1>5 DEF Copy, Goto, PromoteTypeOK
  <2> QED
    BY <2>1, <2>2 DEF PromoteInv, PromoteTypeOK, GoodInv, YoungInv, CheckedInv, PinnedInv
<1>6. CASE Copied
  <2>1. good' = TRUE => gc # "apply"
    BY <1>6, Zenon DEF Copied
  <2>2. /\ at' = "check" /\ left' = ToValidate /\ promoted' = promoted
        /\ old' = FALSE /\ gc' = gc
    BY <1>6 DEF Copied, Goto, gcvars, YoungInv
  <2> QED
    BY <2>1, <2>2, ValidatesAll DEF PromoteInv, PromoteTypeOK, GoodInv, YoungInv, CheckedInv, PinnedInv
<1>7. CASE ValidateCopy
  <2>1. at = "check" /\ old = FALSE
    BY <1>7 DEF ValidateCopy, YoungInv
  <2>2. /\ UNCHANGED <<exists, promoted, pinned, old, gc>>
        /\ \/ left = <<>> /\ at' = "pin" /\ left' = <<>>
           \/ left # <<>> /\ Head(left) \in promoted /\ at' = "check" /\ left' = Tail(left)
           \/ at' = "undo" /\ left' = <<>>
    BY <1>7, <2>1 DEF ValidateCopy, Validate, Goto, gcvars
  <2>3. good' = TRUE => good = TRUE /\ at' # "undo"
    BY <1>7, Zenon DEF ValidateCopy
  <2>4. left' \in Seq(File)
    <3>1. left \in Seq(File) /\ <<>> \in Seq(File)
      BY <2>1 DEF PromoteTypeOK
    <3>2. left # <<>> => Tail(left) \in Seq(File)
      BY <3>1
    <3> QED
      BY <2>2, <3>1, <3>2
  <2>5. CASE left = <<>> /\ at' = "pin"
    <3>1. good' = TRUE => promoted' = File
      <4>1. Len(left) = 0
        BY <2>5
      <4>2. good = TRUE => \A f \in File : f \in promoted
        BY <2>1, <4>1 DEF CheckedInv
      <4> QED
        BY <2>2, <2>3, <4>2 DEF PromoteTypeOK
    <3> QED
      BY <2>1, <2>2, <2>3, <2>4, <2>5, <3>1
      DEF PromoteInv, PromoteTypeOK, GoodInv, YoungInv, CheckedInv, PinnedInv
  <2>6. CASE left # <<>> /\ Head(left) \in promoted /\ at' = "check" /\ left' = Tail(left)
    <3>1. ASSUME good' = TRUE, NEW f \in File, f \notin promoted'
          PROVE  \E i \in 1..Len(left') : left'[i] = f
      <4>1. PICK i \in 1..Len(left) : left[i] = f
        BY <2>1, <2>2, <2>3, <3>1 DEF CheckedInv
      <4>2. f # Head(left)
        BY <2>2, <2>6, <3>1
      <4> QED
        BY <2>6, <4>1, <4>2, TailKeeps DEF PromoteTypeOK
    <3> QED
      BY <2>1, <2>2, <2>3, <2>4, <2>6, <3>1
      DEF PromoteInv, PromoteTypeOK, GoodInv, YoungInv, CheckedInv, PinnedInv
  <2>7. CASE at' = "undo"
    BY <2>1, <2>2, <2>3, <2>4, <2>7
    DEF PromoteInv, PromoteTypeOK, GoodInv, YoungInv, CheckedInv, PinnedInv
  <2> QED
    BY <2>2, <2>5, <2>6, <2>7
<1>8. CASE Pin
  <2>1. /\ at = "pin" /\ at' = "idle" /\ old = FALSE
        /\ UNCHANGED <<left, promoted, old, gc, good>>
    BY <1>8 DEF Pin, gcvars, YoungInv
  <2> QED
    BY <2>1 DEF PromoteInv, PromoteTypeOK, GoodInv, YoungInv, CheckedInv, PinnedInv
<1>9. CASE PromoteFails
  BY <1>9 DEF PromoteFails, Goto, PromoteInv, PromoteTypeOK, GoodInv, YoungInv, CheckedInv, PinnedInv
<1> QED
  BY <1>1, <1>2, <1>3, <1>4, <1>5, <1>6, <1>7, <1>8, <1>9 DEF Promoter

\* The GC, time and the checkpoints keep the invariant.
LEMMA OthersStep ==
  ASSUME PromoteInv, ((GC \/ Age) /\ UNCHANGED slot) \/ (Next /\ UNCHANGED pvars)
  PROVE  PromoteInv'
<1>0. PromoteTypeOK /\ GoodInv /\ YoungInv /\ CheckedInv /\ PinnedInv
  BY DEF PromoteInv
<1> USE <1>0
<1>1. CASE Next /\ UNCHANGED pvars
  <2>1. image' \subseteq File
    BY <1>1 DEF Next, Begin, End, Remove, Install, Harm, Fresh, PromoteTypeOK
  <2> QED
    BY <1>1, <2>1
    DEF pvars, gcvars, PromoteInv, PromoteTypeOK, GoodInv, YoungInv, CheckedInv, PinnedInv
<1>2. CASE ReadPins /\ UNCHANGED slot
  <2>1. pinned # TRUE
    BY <1>2 DEF ReadPins
  <2> QED
    BY <1>2, <2>1
    DEF ReadPins, slot, PromoteInv, PromoteTypeOK, GoodInv, YoungInv, CheckedInv, PinnedInv
<1>3. CASE Plan /\ UNCHANGED slot
  <2>1. /\ UNCHANGED <<at, left, promoted, old, pinned, good, image>>
        /\ gc' \in {"apply", "idle"} /\ (gc' = "apply" => old # FALSE) /\ gc = "listing"
    BY <1>3 DEF Plan, slot
  <2> QED
    BY <2>1 DEF PromoteInv, PromoteTypeOK, GoodInv, YoungInv, CheckedInv, PinnedInv
<1>4. CASE Apply /\ UNCHANGED slot
  <2>1. /\ UNCHANGED <<at, left, pinned, good, image>>
        /\ gc = "apply" /\ promoted' \subseteq promoted /\ old' \in {old, FALSE}
    BY <1>4 DEF Apply, RemoveOne, slot
  <2> QED
    BY <2>1 DEF PromoteInv, PromoteTypeOK, GoodInv, YoungInv, CheckedInv, PinnedInv
<1>5. CASE Age /\ UNCHANGED slot
  <2>1. /\ UNCHANGED <<at, left, promoted, pinned, gc, good, image>>
        /\ at = "idle" /\ gc # "listing"
    BY <1>5 DEF Age, slot
  <2> QED
    BY <2>1 DEF PromoteInv, PromoteTypeOK, GoodInv, YoungInv, CheckedInv, PinnedInv
<1> QED
  BY <1>1, <1>2, <1>3, <1>4, <1>5 DEF GC

\* Promote, appendPinnedPath and PlanImageGC: for any number of checkpoints,
\* promotions and collections, interleaved and cut short in any way.
THEOREM PinnedImageIsKept == PromoteSpec => []PinnedIsKept
<1>1. PromoteInv /\ [PromoteNext]_<<slot, pvars>> => PromoteInv'
  <2> SUFFICES ASSUME PromoteInv, [PromoteNext]_<<slot, pvars>> PROVE PromoteInv'
    OBVIOUS
  <2>1. CASE UNCHANGED <<slot, pvars>>
    BY <2>1 DEF slot, pvars, gcvars, PromoteInv, PromoteTypeOK, GoodInv, YoungInv, CheckedInv, PinnedInv
  <2>2. CASE PromoteNext
    <3>1. CASE Promoter /\ UNCHANGED slot
      BY <3>1, PromoterStep
    <3>2. CASE ((GC \/ Age) /\ UNCHANGED slot) \/ (Next /\ UNCHANGED pvars)
      BY <3>2, OthersStep
    <3> QED
      BY <2>2, <3>1, <3>2 DEF PromoteNext
  <2> QED
    BY <2>1, <2>2
<1>2. PromoteInv => PinnedIsKept
  BY DEF PromoteInv, PinnedInv, PinnedIsKept
<1> QED
  BY <1>1, <1>2, PromoteInvInit, PTL DEF PromoteSpec
=============================================================================
