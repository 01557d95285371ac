------------------------- MODULE UncompressedBundler -------------------------
(***************************************************************************)
(* internal/oci/store/uncompressed: a spark extracts all layers of an      *)
(* image into a directory of its own, entry by entry, and takes that for   *)
(* the root filesystem.  Nobody else knows the directory.                  *)
(*                                                                         *)
(* internal/oci/store/overlay extracts layers with the same code, each     *)
(* into a mount over its parents and so under a name of its own.  What     *)
(* else it does is the subject of OverlayBundler; here only what it        *)
(* extracts.                                                               *)
(***************************************************************************)
EXTENDS Extraction

CONSTANTS
    Images,    \* sequences of tarballs
    MaxLayers, \* the most layers an image may have
    MayFail    \* whether system calls may fail and spark may be killed

ASSUME EntryAssumption == Images \subseteq Seq(Seq(AllEntries))
ASSUME LimitAssumption == MaxLayers \in Nat /\ MayFail \in BOOLEAN

VARIABLES
    pc,      \* where Bundle is, or Cleanup
    image,   \* the image it bundles
    shared,  \* whether all layers are extracted into one directory
    layer,   \* the layer it extracts
    pos,     \* the next entry of that layer
    bundle,  \* the bundle's directory is there
    tree,    \* the root filesystem
    handled, \* the paths WhiteoutHandler remembers
    outcome, \* how the last bundle ended
    lower,   \* history: the root filesystem when the layer was opened
    own,     \* history: the paths of this layer
    links,   \* history: the links of lower layers it has followed
    doubts   \* history: why the root filesystem may be wrong

at_vars   == <<image, shared, layer, pos>>
seen_vars == <<lower, own, links, doubts>>
vars == <<pc, at_vars, bundle, tree, handled, outcome, seen_vars>>

Running == {"mkdir", "validate", "open", "apply", "close", "spec"}

TypeOK ==
    /\ pc \in Running \cup {"idle", "ready", "clean", "done"}
    /\ image \in Images \cup {<<>>}
    /\ shared \in BOOLEAN /\ bundle \in BOOLEAN
    /\ layer \in 1 .. Len(image) + 1
    /\ pc = "idle" => layer = 1
    /\ pc \in {"apply", "close"} =>
          layer \in DOMAIN image /\ pos \in 1 .. Len(image[layer]) + 1
    /\ handled \subseteq Paths /\ own \subseteq Paths /\ links \subseteq Paths
    /\ outcome \in {"none", "ok", "error", "fault", "killed"}
    /\ doubts \in SUBSET {"order", "link", "mode", "stale", "hard"}
    /\ IsTree(tree) /\ IsTree(lower)

Init ==
    /\ pc = "idle" /\ image = <<>> /\ shared = TRUE /\ layer = 1 /\ pos = 1
    /\ bundle = FALSE /\ tree = Empty /\ handled = {} /\ outcome = "none"
    /\ lower = Empty /\ own = {} /\ links = {} /\ doubts = {}

-----------------------------------------------------------------------------
(* When an entry does something other than the specification says, of      *)
(* which no error tells.                                                   *)

\* A whiteout that deletes what its own layer has put there before: by the
\* name of a directory above it, or because the directory between an opaque
\* whiteout and it is not an entry.  Or that of a directory its layer has put
\* there, which stands with all that lower layers have in it.  Or that of a
\* link through which its layer has put something: it stands where the link
\* led.
Order(e) ==
    LET p == Target(tree, e)
    IN  /\ IsWhiteout(e)
        /\ \/ Target(lower, e) # p
           \/ \E q \in own :
                 /\ e.kind = "whiteout"
                 /\ Above(p, q) \/ (p = q /\ Kind(tree, p) = "dir")
           \/ \E q \in own, r \in Paths \ own :
                 e.kind = "opaque" /\ Above(p, r) /\ Above(r, q)
           \/ \E q \in links : Above(p, q) \/ (p = q /\ e.kind = "whiteout")

\* A name that is a link already: the entry is put where the link points.
\* And a file is written into a fifo.
OverLink(e) ==
    LET p == PutAt(tree, e)
    IN  \/ ~ IsWhiteout(e) /\ Kind(tree, p) = "link"
        \/ e.kind = "file" /\ Kind(tree, p) = "fifo"

\* A file that is written again with another mode.
OtherMode(e) ==
    LET p == Target(tree, e)
    IN  e.kind = "file" /\ Kind(tree, p) = "file" /\ tree[p].mode # e.mode

\* A whiteout that spares what an earlier layer has put there.
Stale(e) ==
    LET p == Target(tree, e)
    IN  \/ e.kind = "whiteout" /\ p \in handled \ own
        \/ e.kind = "opaque" /\ \E q \in handled \ own : Above(p, q)

Doubts(e) ==
    {d \in {"order", "link", "mode", "stale", "hard"} :
        CASE d = "order" -> Order(e)
          [] d = "link"  -> OverLink(e)
          [] d = "mode"  -> OtherMode(e)
          [] d = "stale" -> Stale(e)
          [] d = "hard"  -> e.kind = "hardlink"}

-----------------------------------------------------------------------------
(* Bundle.                                                                 *)

Goto(l) == pc' = l /\ UNCHANGED outcome
Return(o) == pc' = "done" /\ outcome' = o

OnlyPc == UNCHANGED <<at_vars, bundle, tree, handled, seen_vars>>

\* Begins the extraction of an image in an empty directory.
Begin(i, one, l, there) ==
    /\ pc = "idle"
    /\ Goto(l)
    /\ image' = i /\ shared' = one /\ bundle' = there
    /\ UNCHANGED <<layer, pos, tree, handled, seen_vars>>

\* The image's config file and layers are read, which may fail.
Bundle(i) == Begin(i, TRUE, "mkdir", FALSE)

\* The overlay store extracts a layer into a mount over its parent.  Of more
\* parents the mount shows the wrong one on top, see OverlayBundler.
Resolve(i) == Len(i) \in 1 .. 2 /\ Begin(i, FALSE, "open", TRUE)

MakeRootFS ==
    /\ pc = "mkdir"
    /\ Goto("validate")
    /\ bundle' = TRUE
    /\ UNCHANGED <<at_vars, tree, handled, seen_vars>>

\* Validate reads the image's layers again.  If it has too many, its directory
\* is left behind.
Validate ==
    /\ pc = "validate"
    /\ IF Len(image) > MaxLayers THEN Return("error") ELSE Goto("open")
    /\ OnlyPc

\* The next layer, if there is one.  The path of an overlay mount is new.
OpenLayer ==
    /\ pc = "open"
    /\ IF layer <= Len(image)
       THEN /\ Goto("apply")
            /\ handled' = IF shared THEN handled ELSE {}
            /\ lower' = tree /\ own' = {} /\ links' = {}
            /\ UNCHANGED doubts
       ELSE /\ Goto(IF shared THEN "spec" ELSE "ready")
            /\ UNCHANGED <<handled, seen_vars>>
    /\ pos' = 1
    /\ UNCHANGED <<image, shared, layer, bundle, tree>>

Entry == image[layer][pos]

\* Mutant of ApplyEntry: a whiteout is handled twice.
StayAtWhiteout ==
    /\ pc = "apply" /\ pos <= Len(image[layer])
    /\ ~ Refuses(tree, handled, Entry)
    /\ tree' = Handle(tree, handled, Entry, layer)
    /\ handled' = Remember(tree, handled, Entry)
    /\ pos' = IF IsWhiteout(Entry) THEN pos ELSE pos + 1
    /\ UNCHANGED <<pc, image, shared, layer, bundle, outcome, seen_vars>>

\* StackingExtractor.Apply, one entry of it.
ApplyEntry ==
    /\ pc = "apply" /\ pos <= Len(image[layer])
    /\ ~ Refuses(tree, handled, Entry)
    /\ tree' = Handle(tree, handled, Entry, layer)
    /\ handled' = Remember(tree, handled, Entry)
    /\ pos' = pos + 1
    /\ IF IsWhiteout(Entry) THEN UNCHANGED <<own, links>>
       ELSE /\ own' = own \cup {Target(tree, Entry)}
            /\ links' = links \cup (Followed(tree, Parent(Entry.path)) \ own)
    /\ doubts' = doubts \cup Doubts(Entry)
    /\ UNCHANGED <<pc, image, shared, layer, bundle, outcome, lower>>

\* The entry cannot be handled.
ApplyFails ==
    /\ pc = "apply" /\ pos <= Len(image[layer])
    /\ Refuses(tree, handled, Entry)
    /\ pc' = "clean" /\ outcome' = "error"
    /\ OnlyPc

\* The tarball is at its end.
Applied ==
    /\ pc = "apply" /\ pos > Len(image[layer])
    /\ Goto("close")
    /\ OnlyPc

CloseLayer ==
    /\ pc = "close"
    /\ Goto("open")
    /\ layer' = layer + 1
    /\ UNCHANGED <<image, shared, pos, bundle, tree, handled, seen_vars>>

WriteSpec ==
    /\ pc = "spec"
    /\ Goto("ready")
    /\ OnlyPc

\* Mutant of StepFails: nothing is cleaned up if a layer cannot be closed.
CloseFailsDirty ==
    /\ MayFail /\ pc \in Running
    /\ pc' = IF pc \in {"mkdir", "validate", "close"} THEN "done" ELSE "clean"
    /\ outcome' = "error"
    /\ bundle' = (bundle \/ pc = "mkdir")
    /\ UNCHANGED <<at_vars, tree, handled, seen_vars>>

\* A system call, or the context's end between two entries.  Reading the
\* image, making the directory and validating return at once, the others
\* clean up.  MkdirAll may have made the directory, and not the one for the
\* root filesystem in it.
StepFails ==
    /\ MayFail /\ pc \in Running
    /\ pc' = IF pc \in {"mkdir", "validate"} THEN "done" ELSE "clean"
    /\ outcome' = "error"
    /\ bundle' \in IF pc = "mkdir" THEN BOOLEAN ELSE {bundle}
    /\ UNCHANGED <<at_vars, tree, handled, seen_vars>>

\* The container has run.
Finish ==
    /\ pc = "ready"
    /\ pc' = "clean" /\ outcome' = "ok"
    /\ OnlyPc

\* Bundle.Cleanup.
Cleanup ==
    /\ pc = "clean"
    /\ pc' = "done" /\ bundle' = FALSE /\ tree' = Empty
    /\ UNCHANGED <<at_vars, handled, outcome, seen_vars>>

CleanupFails ==
    /\ MayFail /\ pc = "clean"
    /\ Return("fault")
    /\ OnlyPc

Kill ==
    /\ MayFail /\ pc \notin {"idle", "done"}
    /\ Return("killed")
    /\ OnlyPc

\* Another spark, with a directory of its own.
NextCall ==
    /\ pc = "done" /\ pc' = "idle"
    /\ image' = <<>> /\ shared' = TRUE /\ layer' = 1 /\ pos' = 1
    /\ bundle' = FALSE /\ tree' = Empty /\ handled' = {} /\ outcome' = "none"
    /\ lower' = Empty /\ own' = {} /\ links' = {} /\ doubts' = {}

-----------------------------------------------------------------------------
Step ==
    \/ MakeRootFS \/ Validate \/ OpenLayer \/ ApplyEntry \/ ApplyFails
    \/ Applied \/ CloseLayer \/ WriteSpec \/ Finish \/ Cleanup

Next ==
    \/ \E i \in Images : Bundle(i) \/ Resolve(i)
    \/ Step
    \/ StepFails \/ CleanupFails \/ Kill \/ NextCall

Spec == Init /\ [][Next]_vars

\* The process runs, and no tarball ends in the middle.
FairSpec == Spec /\ WF_vars(Step)

-----------------------------------------------------------------------------
(* What should be true of it.                                              *)

\* The root filesystem is the one the image specification describes, for
\* tarballs of which no entry is in doubt: whiteouts before and after the
\* entries of their layer, entries before the directories that hold them,
\* entries through the links of lower layers, and through links to links.
LayersApplied == pc = "ready" /\ doubts = {} => tree = Flattened(image)

\* store_uncompressed.go:51: applying all of an image's layers, in the
\* correct order, should produce the image's "flattened" filesystem - whatever
\* the entries are.  Each of the doubts breaks it; LayersApplied is what is
\* left of it.
LayersFlattened == pc = "ready" => tree = Flattened(image)

\* What LayersApplied follows from.  The layers before this one are applied ...
LayersStacked ==
    /\ pc \in {"idle", "mkdir", "validate"} => layer = 1 /\ tree = Empty
    /\ pc = "close" => pos > Len(image[layer])
    /\ pc \in {"spec", "ready"} => layer > Len(image)
    /\ doubts = {} =>
          /\ pc \in {"open", "spec", "ready"} => tree = Stacked(image)[layer - 1]
          /\ pc \in {"apply", "close"} => lower = Stacked(image)[layer - 1]

\* ... and of this one the entries so far are, as if its whiteouts so far had
\* come first.  Its own paths are where these entries were put, without a file
\* in the way and through no link of a lower layer but those remembered.
EntriesPut ==
    pc \in {"apply", "close"} /\ doubts = {} =>
        LET tarball == image[layer]
            puts    == Puts(RemoveAll(lower, Gone(lower, tarball, pos - 1)), tarball, layer)
        IN  /\ tree = puts[pos - 1]
            /\ own = Own(puts, tarball, pos - 1) /\ own \subseteq handled
            /\ \A k \in 1 .. pos - 1 : Clean(puts, tarball, k, links)

\* Whatever entry cannot be extracted and whatever step fails, a call that was
\* not killed and whose clean-up did not fail leaves nothing that was
\* extracted.  It may leave an empty directory, if it failed before that: it
\* was never cleaned up (store_uncompressed.go:102, 107).
NothingLeft ==
    pc = "done" /\ outcome \in {"ok", "error"} /\ bundle =>
        outcome = "error" /\ shared /\ layer = 1 /\ tree = Empty

\* Nothing is extracted before the layers are counted.
NoneBefore ==
    /\ pc \in {"idle", "mkdir"} => ~ bundle
    /\ pc \in {"mkdir", "validate"} => shared

Inv == TypeOK /\ NoneBefore /\ LayersStacked /\ EntriesPut /\ NothingLeft

\* Every call ends.
BundleEnds == pc # "idle" ~> pc = "done"
=============================================================================
