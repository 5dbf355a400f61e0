------------------------------ MODULE Promote ------------------------------
(***************************************************************************)
(* Orchestrator.Promote (pkg/control/promote.go) copies an image to a      *)
(* stable path and enters that path into the pin file, which the image GC  *)
(* reads when it plans (pkg/control/retention.go).  A promotion runs in a  *)
(* process of its own: checkpoints replace the image that is being copied, *)
(* as module ImageSlot says, and the GC may be about to delete an older    *)
(* image at the stable path.                                               *)
(***************************************************************************)
EXTENDS ImageSlot, Sequences

CONSTANTS
  GCEnabled,  \* whether the image GC runs
  MayFail     \* whether a copy, a removal or the pin file may fail, and processes be
              \* killed

ASSUME PromoteAssumption == GCEnabled \in BOOLEAN /\ MayFail \in BOOLEAN

VARIABLES
  at,        \* where Promote is
  left,      \* the names it has still to look at, or to copy
  exists,    \* whether there is a directory at the stable path
  promoted,  \* its files
  old,       \* whether nothing has been written to it for MaxAge
  pinned,    \* whether the pin file names the path
  gc,        \* the GC: "idle", "listing" when it has read the pin file and the path is
             \* not in it, "apply" when the path is on its list
  good       \* ghost: the last promotion returned without an error, and the path was
             \* on no list of the GC when it began to validate its copy

gcvars == <<old, gc>>
pvars == <<at, left, exists, promoted, pinned, good, gcvars>>

PromoteInit ==
  /\ Init
  /\ at = "idle" /\ left = <<>>
  /\ exists = FALSE /\ promoted = {} /\ old = FALSE /\ pinned = FALSE
  /\ gc = "idle" /\ good = FALSE

-----------------------------------------------------------------------------

\* filepath.Walk visits the names in lexical order.
Lexical == <<"COMPLETE", "criu", "gpu", "meta">>

\* The order in which ValidateImage looks: manifest and device.bin, dev.bin,
\* meta.bin, criu, the marker, and meta.bin again.
ToValidate == <<"gpu", "meta", "criu", "COMPLETE", "meta">>

\* The promotion goes on at l with these names, or returns.
Goto(l, names) ==
  /\ at' = l /\ left' = names
  /\ UNCHANGED <<exists, promoted, pinned, gcvars>>

PromoteStart ==
  /\ at = "idle"
  /\ good' = FALSE
  /\ Goto("validate", ToValidate)

\* ValidateImage of a directory with these files: it goes on, or returns an error,
\* upon which the promotion goes on at failed.
Validate(files, next, failed) ==
  IF left = <<>> THEN Goto(next, <<>>)
  ELSE IF Head(left) \in files THEN Goto(at, Tail(left))
  ELSE Goto(failed, <<>>)

ValidateSource == at = "validate" /\ Validate(image, "remove", "idle") /\ UNCHANGED good

\* One step of os.RemoveAll at the stable path.
RemoveOne ==
  /\ \/ \E f \in promoted : promoted' = promoted \ {f} /\ old' = FALSE /\ UNCHANGED exists
     \/ promoted = {} /\ exists' = FALSE /\ UNCHANGED <<promoted, old>>

\* Before the copy, and after a copy that does not validate.
RemovePromoted ==
  /\ at \in {"remove", "undo"}
  /\ RemoveOne
  /\ at' = IF exists' THEN at ELSE IF at = "remove" THEN "list" ELSE "idle"
  /\ UNCHANGED <<left, pinned, gc, good>>

\* copyDir: the source must be there; its names are read, the directory is made.
List ==
  /\ at = "list"
  /\ \/ /\ there
        /\ at' = "copy" /\ left' = SelectSeq(Lexical, LAMBDA f : f \in image)
        /\ exists' = TRUE /\ old' = FALSE
        /\ UNCHANGED <<promoted, pinned, gc>>
     \/ ~there /\ Goto("idle", <<>>)
  /\ UNCHANGED good

\* copyFile, which makes its directory when it is missing.  The file may be gone by
\* now, and then copyDir returns the error, or be that of a later checkpoint.
Copy ==
  /\ at = "copy" /\ left # <<>>
  /\ \/ /\ Head(left) \in image
        /\ left' = Tail(left)
        /\ exists' = TRUE /\ promoted' = promoted \cup {Head(left)} /\ old' = FALSE
        /\ UNCHANGED <<at, pinned, gc>>
     \/ Head(left) \notin image /\ Goto("idle", <<>>)
  /\ UNCHANGED good

\* Mutant: the copy is not validated.
ValidateNothing ==
  /\ at = "copy" /\ left = <<>>
  /\ Goto("pin", <<>>)
  /\ good' = (gc # "apply")

\* ValidateImage of the copy begins ...
Copied ==
  /\ at = "copy" /\ left = <<>>
  /\ Goto("check", ToValidate)
  /\ good' = (gc # "apply")

\* ... and goes on.
ValidateCopy ==
  /\ at = "check"
  /\ Validate(promoted, "pin", "undo")
  /\ good' = (good /\ at' # "undo")

\* appendPinnedPath, if Promote was given a pin file.
Pin ==
  /\ at = "pin"
  /\ at' = "idle"
  /\ pinned' \in {pinned, TRUE}
  /\ UNCHANGED <<left, exists, promoted, gcvars, good>>

\* A call returns an error, or the process is killed, wherever it is.
PromoteFails ==
  /\ MayFail
  /\ at # "idle"
  /\ good' = FALSE
  /\ Goto("idle", <<>>)

Promoter ==
  \/ PromoteStart \/ ValidateSource \/ RemovePromoted \/ List \/ Copy \/ Copied
  \/ ValidateCopy \/ Pin \/ PromoteFails

-----------------------------------------------------------------------------

\* LoadPinnedPaths: a pinned path is kept.
ReadPins ==
  /\ GCEnabled
  /\ gc = "idle"
  /\ ~pinned
  /\ gc' = "listing"
  /\ UNCHANGED <<at, left, exists, promoted, old, pinned, good>>

\* PlanImageGC lists the path if it holds the marker and has reached MaxAge.
Plan ==
  /\ gc = "listing"
  /\ gc' = IF exists /\ "COMPLETE" \in promoted /\ old THEN "apply" ELSE "idle"
  /\ UNCHANGED <<at, left, exists, promoted, old, pinned, good>>

\* ApplyGCPlan removes what is there under that name now, pinned or not; an error
\* ends it.
Apply ==
  /\ gc = "apply"
  /\ \/ RemoveOne /\ gc' = IF exists' THEN "apply" ELSE "idle"
     \/ MayFail /\ gc' = "idle" /\ UNCHANGED <<exists, promoted, old>>
  /\ UNCHANGED <<at, left, pinned, good>>

\* Time passes: more than MaxAge since the last promotion, which a promotion and
\* the planning of a GC do not last.
Age ==
  /\ at = "idle" /\ gc # "listing"
  /\ exists /\ ~old
  /\ old' = TRUE
  /\ UNCHANGED <<at, left, exists, promoted, pinned, gc, good>>

GC == ReadPins \/ Plan \/ Apply

PromoteNext ==
  \/ Next /\ UNCHANGED pvars
  \/ (Promoter \/ GC \/ Age) /\ UNCHANGED slot

PromoteSpec == PromoteInit /\ [][PromoteNext]_<<slot, pvars>>

-----------------------------------------------------------------------------
(* Properties.                                                             *)

\* docs/CLI.md, lines 88 and 92: a promoted image that is pinned stays whole until
\* the path is promoted to again, although checkpoints replace its source while
\* it is copied, or the source was harmed by a crash or the GC.  The code does not
\* promise it when the GC had already put an older image at the path on its list.
PinnedIsKept == at = "idle" /\ pinned /\ good => promoted = File
=============================================================================
