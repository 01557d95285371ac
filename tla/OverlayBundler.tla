--------------------------- MODULE OverlayBundler ---------------------------
(***************************************************************************)
(* CachingBundler and CachingLayerResolver of internal/oci/store/overlay:  *)
(* spark processes make root filesystems from the layers of an image, each *)
(* layer extracted once into the shared directory o/ and cached there.     *)
(*                                                                         *)
(* To extract a layer a process makes a work directory next to the cache,  *)
(* mounts an overlay of the layer's parents in it, extracts into the       *)
(* mount, renames the overlay's upper directory onto the layer's name,     *)
(* unmounts and removes.  Processes share no lock.  A spark has a mount    *)
(* namespace of its own, so its mounts are its own and end with it; the    *)
(* directories are on the shared disk and stay.                            *)
(***************************************************************************)
EXTENDS Overlay

CONSTANTS
    Procs,     \* spark processes
    Images,    \* images in the image store
    LayersOf,  \* their layers, base layer first
    MaxLayers, \* the most layers an image may have
    MayFail    \* whether system calls may fail and processes may be killed

ASSUME LayersOfAssumption  == LayersOf \in [Images -> Seq(Layers)]
ASSUME MaxLayersAssumption == MaxLayers \in Nat
ASSUME MayFailAssumption   == MayFail \in BOOLEAN

VARIABLES
    over,     \* the cache o/: the directory of each layer, or Missing
    pc,       \* where each process is in Bundle and Cleanup
    img,      \* the image it bundles
    idx,      \* the position of the layer it resolves
    work,     \* its work directory: none, made, or mounted
    lower,    \* the lower directories of the work directory's mount
    upper,    \* its upper directory
    bundle,   \* its bundle: none, made, tmpfs mounted, or rootfs mounted
    rootfs,   \* what the mount of its root filesystem shows
    err,      \* the error it will return after cleaning up
    outcome,  \* how its last bundle ended
    stuck     \* history: a cleanup step of it has failed

work_vars   == <<work, lower, upper>>
bundle_vars == <<bundle, rootfs>>
vars == <<over, pc, img, idx, work, lower, upper, bundle, rootfs, err,
          outcome, stuck>>

Points == {"idle", "stat", "mkdir", "mount", "apply", "lstat", "rename",
           "unmount", "remove", "bootstrap", "tmpfs", "rootfs", "spec",
           "ready", "umount", "untmp", "rmdir"}
Resolving == {"stat", "mkdir", "mount", "apply", "lstat", "rename",
              "unmount", "remove"}
\* "error" is an error without a failed system call, "fault" one with.
Errors == {"none", "error", "fault"}

TypeOK ==
    /\ over \in [Layers -> Dirs \cup {Missing}]
    /\ pc \in [Procs -> Points]
    /\ img \in [Procs -> Images]
    /\ idx \in [Procs -> Nat]
    /\ work \in [Procs -> {"none", "made", "mounted"}]
    /\ lower \in [Procs -> Seq(Dirs)]
    /\ upper \in [Procs -> Dirs]
    /\ bundle \in [Procs -> {"none", "made", "tmpfs", "rootfs"}]
    /\ rootfs \in [Procs -> Dirs]
    /\ err \in [Procs -> Errors]
    /\ outcome \in [Procs -> {"none", "ok", "error", "fault", "killed"}]
    /\ stuck \in [Procs -> BOOLEAN]
    /\ \A p \in Procs :
         pc[p] \in Resolving => idx[p] \in DOMAIN LayersOf[img[p]]

\* Nothing is cached and no process has begun.
Init ==
    /\ over = [l \in Layers |-> Missing]
    /\ pc = [p \in Procs |-> "idle"]
    /\ img \in [Procs -> Images]
    /\ idx = [p \in Procs |-> 1]
    /\ work = [p \in Procs |-> "none"]
    /\ lower = [p \in Procs |-> <<>>]
    /\ upper = [p \in Procs |-> EmptyDir]
    /\ bundle = [p \in Procs |-> "none"]
    /\ rootfs = [p \in Procs |-> EmptyDir]
    /\ err = [p \in Procs |-> "none"]
    /\ outcome = [p \in Procs |-> "none"]
    /\ stuck = [p \in Procs |-> FALSE]

-----------------------------------------------------------------------------
(* Helpers.                                                                *)

Layer(p)   == LayersOf[img[p]][idx[p]]
Parents(p) == SubSeq(LayersOf[img[p]], 1, idx[p] - 1)

\* The directories a mount finds under the paths of these layers.
Cached(layers)    == [i \in DOMAIN layers |-> over[layers[i]]]
AllCached(layers) == \A i \in DOMAIN layers : over[layers[i]] # Missing

Goto(p, l) == pc' = [pc EXCEPT ![p] = l] /\ UNCHANGED <<img, err, outcome>>

Return(p, o) ==
    /\ pc' = [pc EXCEPT ![p] = "idle"]
    /\ outcome' = [outcome EXCEPT ![p] = o]
    /\ UNCHANGED <<img, err>>

\* An error of which the code reports only after it has cleaned up.
GotoWith(p, l, e) ==
    /\ pc' = [pc EXCEPT ![p] = l]
    /\ err' = [err EXCEPT ![p] = e]
    /\ UNCHANGED <<img, outcome>>

SetWork(p, w)   == work' = [work EXCEPT ![p] = w] /\ UNCHANGED <<lower, upper>>
SetBundle(p, b) == bundle' = [bundle EXCEPT ![p] = b] /\ UNCHANGED rootfs

\* Mutants of NextLayer: the loop runs once too often; it does not advance.
OneLayerMore(p) ==
    IF idx[p] <= Len(LayersOf[img[p]])
    THEN Goto(p, "stat") /\ idx' = [idx EXCEPT ![p] = @ + 1]
    ELSE Goto(p, "bootstrap") /\ UNCHANGED idx

SameLayer(p) == Goto(p, "stat") /\ UNCHANGED idx

\* Bundle's loop goes on with the next layer, or to the bootstrap.
NextLayer(p) ==
    IF idx[p] < Len(LayersOf[img[p]])
    THEN Goto(p, "stat") /\ idx' = [idx EXCEPT ![p] = @ + 1]
    ELSE Goto(p, "bootstrap") /\ UNCHANGED idx

-----------------------------------------------------------------------------
(* CachingBundler.Bundle.                                                  *)

\* A new spark, with a new run ID and so a new bundle path.
Bundle(p, i) ==
    /\ pc[p] = "idle"
    /\ img' = [img EXCEPT ![p] = i]
    /\ idx' = [idx EXCEPT ![p] = 1]
    /\ work' = [work EXCEPT ![p] = "none"]
    /\ lower' = [lower EXCEPT ![p] = <<>>]
    /\ upper' = [upper EXCEPT ![p] = EmptyDir]
    /\ bundle' = [bundle EXCEPT ![p] = "none"]
    /\ rootfs' = [rootfs EXCEPT ![p] = EmptyDir]
    /\ err' = [err EXCEPT ![p] = "none"]
    /\ stuck' = [stuck EXCEPT ![p] = FALSE]
    /\ IF Len(LayersOf[i]) > MaxLayers
       THEN /\ outcome' = [outcome EXCEPT ![p] = "error"]
            /\ UNCHANGED pc
       ELSE /\ outcome' = [outcome EXCEPT ![p] = "none"]
            /\ pc' = [pc EXCEPT ![p] = IF LayersOf[i] = <<>> THEN "bootstrap"
                                                           ELSE "stat"]
    /\ UNCHANGED over

-----------------------------------------------------------------------------
(* CachingLayerResolver.Resolve.                                           *)

OnlyResolves == UNCHANGED <<bundle_vars, stuck>>

\* A cached layer is known by its diff ID, whatever its parents.
StatCached(p) ==
    /\ pc[p] = "stat"
    /\ IF over[Layer(p)] # Missing THEN NextLayer(p)
                                   ELSE Goto(p, "mkdir") /\ UNCHANGED idx
    /\ UNCHANGED <<over, work_vars>> /\ OnlyResolves

\* NewLayerWorkdir makes the work directory ...
MakeWorkdir(p) ==
    /\ pc[p] = "mkdir"
    /\ Goto(p, "mount")
    /\ SetWork(p, "made")
    /\ UNCHANGED <<over, idx>> /\ OnlyResolves

\* ... and mounts in it, its own empty directory if the layer has no parents.
\* If the mount fails it removes the directory.
MountWorkdir(p) ==
    /\ pc[p] = "mount"
    /\ IF AllCached(Parents(p))
       THEN /\ Goto(p, "apply")
            /\ work' = [work EXCEPT ![p] = "mounted"]
            /\ lower' = [lower EXCEPT ![p] =
                 IF Parents(p) = <<>> THEN <<EmptyDir>> ELSE Cached(Parents(p))]
            /\ upper' = [upper EXCEPT ![p] = EmptyDir]
       ELSE Return(p, "error") /\ SetWork(p, "none")
    /\ UNCHANGED <<over, idx>> /\ OnlyResolves

\* The tarball is extracted into the mount.
Apply(p) ==
    /\ pc[p] = "apply"
    /\ Goto(p, "lstat")
    /\ upper' = [upper EXCEPT ![p] = Upper(Layer(p), lower[p])]
    /\ UNCHANGED <<over, idx, work, lower>> /\ OnlyResolves

\* Mutant of LstatRename: a lost race is an error.
LostRaceFails(p) ==
    /\ pc[p] = "lstat"
    /\ IF over[Layer(p)] = Missing THEN Goto(p, "rename")
                                   ELSE GotoWith(p, "unmount", "error")
    /\ UNCHANGED <<over, idx, work_vars>> /\ OnlyResolves

\* os.Rename of a directory first looks whether the new name exists; Resolve
\* takes that for a lost race.
LstatRename(p) ==
    /\ pc[p] = "lstat"
    /\ Goto(p, IF over[Layer(p)] = Missing THEN "rename" ELSE "unmount")
    /\ UNCHANGED <<over, idx, work_vars>> /\ OnlyResolves

\* rename(2) replaces an empty directory.  It refuses to replace one that is
\* not empty, which again is a lost race.
Rename(p) ==
    /\ pc[p] = "rename"
    /\ Goto(p, "unmount")
    /\ over' = [over EXCEPT ![Layer(p)] =
                  IF @ \in {Missing, EmptyDir} THEN upper[p] ELSE @]
    /\ UNCHANGED <<idx, work_vars>> /\ OnlyResolves

\* LayerWorkdir.Cleanup unmounts ...
UnmountWorkdir(p) ==
    /\ pc[p] = "unmount"
    /\ Goto(p, "remove")
    /\ SetWork(p, "made")
    /\ UNCHANGED <<over, idx>> /\ OnlyResolves

\* ... and removes.  What os.RemoveAll finds in a work directory that is
\* still mounted it deletes from the overlay, and so from the upper directory
\* wherever that is now.
Emptied(p) ==
    [f \in Files |-> IF Show(lower[p])[f] # Nothing THEN Whiteout ELSE Nothing]

RemoveWorkdir(p) ==
    /\ pc[p] = "remove"
    /\ IF err[p] = "none" THEN NextLayer(p)
                          ELSE Return(p, err[p]) /\ UNCHANGED idx
    /\ IF work[p] = "mounted"
       THEN /\ over' = [over EXCEPT ![Layer(p)] =
                          IF @ = upper[p] THEN Emptied(p) ELSE @]
            /\ UNCHANGED work_vars
       ELSE SetWork(p, "none") /\ UNCHANGED over
    /\ OnlyResolves

-----------------------------------------------------------------------------
(* BootstrapBundle, the runtime spec, and Bundle.Cleanup.                  *)

OnlyBundles == UNCHANGED <<over, idx, work_vars>>

MakeBundle(p) ==
    /\ pc[p] = "bootstrap"
    /\ Goto(p, "tmpfs")
    /\ SetBundle(p, "made")
    /\ OnlyBundles /\ UNCHANGED stuck

MountTmpfs(p) ==
    /\ pc[p] = "tmpfs"
    /\ Goto(p, "rootfs")
    /\ SetBundle(p, "tmpfs")
    /\ OnlyBundles /\ UNCHANGED stuck

\* Mutant of MountRootfs: only the last layer is mounted, as if its directory
\* held what the layers below it do.
MountLast(p) ==
    /\ pc[p] = "rootfs" /\ LayersOf[img[p]] # <<>>
    /\ Goto(p, "spec")
    /\ bundle' = [bundle EXCEPT ![p] = "rootfs"]
    /\ rootfs' = [rootfs EXCEPT ![p] = Show(Cached(<<Layer(p)>>))]
    /\ OnlyBundles /\ UNCHANGED stuck

\* The root filesystem is mounted over all layers, in the image's order; the
\* kernel takes no empty list.  If it cannot be mounted, os.RemoveAll fails
\* on the tmpfs, which still is.
MountRootfs(p) ==
    /\ pc[p] = "rootfs"
    /\ IF LayersOf[img[p]] # <<>> /\ AllCached(LayersOf[img[p]])
       THEN /\ Goto(p, "spec")
            /\ bundle' = [bundle EXCEPT ![p] = "rootfs"]
            /\ rootfs' = [rootfs EXCEPT ![p] = Show(Cached(LayersOf[img[p]]))]
            /\ UNCHANGED stuck
       ELSE /\ Return(p, "error")
            /\ stuck' = [stuck EXCEPT ![p] = TRUE]
            /\ UNCHANGED bundle_vars
    /\ OnlyBundles

\* The bundle is ready and its container runs.
WriteSpec(p) ==
    /\ pc[p] = "spec"
    /\ Goto(p, "ready")
    /\ OnlyBundles /\ UNCHANGED <<bundle_vars, stuck>>

\* The container has finished, one way or the other.
Finish(p) ==
    /\ pc[p] = "ready"
    /\ Goto(p, "umount")
    /\ OnlyBundles /\ UNCHANGED <<bundle_vars, stuck>>

UnmountRootfs(p) ==
    /\ pc[p] = "umount"
    /\ Goto(p, "untmp")
    /\ SetBundle(p, "tmpfs")
    /\ OnlyBundles /\ UNCHANGED stuck

UnmountTmpfs(p) ==
    /\ pc[p] = "untmp"
    /\ Goto(p, "rmdir")
    /\ SetBundle(p, "made")
    /\ OnlyBundles /\ UNCHANGED stuck

RemoveBundle(p) ==
    /\ pc[p] = "rmdir"
    /\ Return(p, IF err[p] = "none" THEN "ok" ELSE err[p])
    /\ SetBundle(p, "none")
    /\ OnlyBundles /\ UNCHANGED stuck

-----------------------------------------------------------------------------
(* Failures.                                                               *)

Untouched == UNCHANGED <<over, idx>>

\* Resolve fails before it has a work directory, or cannot make or mount
\* one and removes it.
ResolveFails(p) ==
    /\ MayFail /\ pc[p] \in {"stat", "mkdir", "mount"}
    /\ Return(p, "fault")
    /\ SetWork(p, "none")
    /\ Untouched /\ OnlyResolves

\* Mutant of ApplyFails: the error is dropped.
ApplyErrorDropped(p) ==
    /\ MayFail /\ pc[p] = "apply"
    /\ Goto(p, "lstat")
    /\ Untouched /\ UNCHANGED work_vars /\ OnlyResolves

\* Apply, which also stops when the timeout expires, or the rename fails.
ApplyFails(p) ==
    /\ MayFail /\ pc[p] \in {"apply", "lstat", "rename"}
    /\ GotoWith(p, "unmount", "fault")
    /\ Untouched /\ UNCHANGED work_vars /\ OnlyResolves

\* Mutant of CleanupWorkdirFails: the work directory is removed though it
\* could not be unmounted.
RemovesMounted(p) ==
    /\ MayFail /\ pc[p] = "unmount"
    /\ Goto(p, "remove")
    /\ Untouched /\ UNCHANGED work_vars /\ OnlyResolves

\* LayerWorkdir.Cleanup fails: what is left of the work directory stays.
CleanupWorkdirFails(p) ==
    /\ MayFail /\ pc[p] \in {"unmount", "remove"}
    /\ Return(p, "fault")
    /\ stuck' = [stuck EXCEPT ![p] = TRUE]
    /\ Untouched /\ UNCHANGED <<work_vars, bundle_vars>>

\* BootstrapBundle fails before the tmpfs is mounted, and removes the bundle.
BootstrapFails(p) ==
    /\ MayFail /\ pc[p] \in {"bootstrap", "tmpfs"}
    /\ Return(p, "fault")
    /\ SetBundle(p, "none")
    /\ OnlyBundles /\ UNCHANGED stuck

\* It fails after that: os.RemoveAll cannot remove a mount point.
MountRootfsFails(p) ==
    /\ MayFail /\ pc[p] = "rootfs"
    /\ Return(p, "fault")
    /\ stuck' = [stuck EXCEPT ![p] = TRUE]
    /\ OnlyBundles /\ UNCHANGED bundle_vars

\* Mutant of WriteSpecFails: it does not.
SpecErrorReturned(p) ==
    /\ MayFail /\ pc[p] = "spec"
    /\ Return(p, "fault")
    /\ OnlyBundles /\ UNCHANGED <<bundle_vars, stuck>>

\* Bundle cleans up if it cannot write the runtime spec.
WriteSpecFails(p) ==
    /\ MayFail /\ pc[p] = "spec"
    /\ GotoWith(p, "umount", "fault")
    /\ OnlyBundles /\ UNCHANGED <<bundle_vars, stuck>>

\* Bundle.Cleanup stops at its first error.
CleanupFails(p) ==
    /\ MayFail /\ pc[p] \in {"umount", "untmp", "rmdir"}
    /\ Return(p, "fault")
    /\ stuck' = [stuck EXCEPT ![p] = TRUE]
    /\ OnlyBundles /\ UNCHANGED bundle_vars

\* The kernel takes down the mount namespace of a killed process; its
\* directories stay.
Kill(p) ==
    /\ MayFail /\ pc[p] # "idle"
    /\ Return(p, "killed")
    /\ work' = [work EXCEPT ![p] = IF @ = "mounted" THEN "made" ELSE @]
    /\ bundle' = [bundle EXCEPT ![p] = IF @ = "none" THEN @ ELSE "made"]
    /\ Untouched /\ UNCHANGED <<lower, upper, rootfs, stuck>>

-----------------------------------------------------------------------------
ResolveStep(p) ==
    \/ StatCached(p) \/ MakeWorkdir(p) \/ MountWorkdir(p) \/ Apply(p)
    \/ LstatRename(p) \/ Rename(p) \/ UnmountWorkdir(p) \/ RemoveWorkdir(p)

BundleStep(p) ==
    \/ MakeBundle(p) \/ MountTmpfs(p) \/ MountRootfs(p) \/ WriteSpec(p)
    \/ Finish(p) \/ UnmountRootfs(p) \/ UnmountTmpfs(p) \/ RemoveBundle(p)

Failure(p) ==
    \/ ResolveFails(p) \/ ApplyFails(p) \/ CleanupWorkdirFails(p)
    \/ BootstrapFails(p) \/ MountRootfsFails(p) \/ WriteSpecFails(p)
    \/ CleanupFails(p) \/ Kill(p)

Next ==
    \E p \in Procs :
        \/ \E i \in Images : Bundle(p, i)
        \/ ResolveStep(p)
        \/ BundleStep(p)
        \/ Failure(p)

Spec == Init /\ [][Next]_vars

\* The kernel runs every process; the container ends, if only by its timeout.
Fairness == \A p \in Procs : WF_vars(ResolveStep(p) \/ BundleStep(p))

FairSpec == Spec /\ Fairness

-----------------------------------------------------------------------------
(* What should be true of it.                                              *)

\* A cached layer is the whole of its tarball.  An extraction that fails, is
\* killed or loses a race never shows under the layer's name (Resolve's
\* comment on callers that race).
CachedLayerWhole == \A l \in Layers : over[l] # Missing => IsWhole(l, over[l])

\* A cached layer stays as it is, for containers are running on it: nothing
\* is deleted through a work directory that is still mounted on it, and no
\* late rename replaces it.  Only an empty one may be replaced.
CachedLayerKept ==
    [][\A l \in Layers :
         /\ over[l] # Missing => over'[l] # Missing
         /\ over[l] \notin {Missing, EmptyDir} => over'[l] = over[l]]_vars

\* Each file that at most one of these layers touches is what the flattened
\* filesystem of the layers says.
HasOwnFiles(layers, root) ==
    \A f \in Files :
        LET at == {i \in DOMAIN layers : f \in Touches(layers[i])}
        IN  (\A i, j \in at : i = j) => root[f] = Flatten(layers)[f]

\* Where the layers of an image do not touch the same file, a container sees
\* the image's files, whoever cached the layers, in whatever order.
RootfsHasOwnFiles ==
    \A p \in Procs : pc[p] = "ready" => HasOwnFiles(LayersOf[img[p]], rootfs[p])

\* All of that is one cache of layers and the root filesystems mounted over
\* it: whatever processes do, in whatever order, is what a LayerCache may do.
Roots == [p \in Procs |-> IF bundle[p] = "rootfs" THEN rootfs[p] ELSE Missing]
Cache == INSTANCE LayerCache WITH cached <- over, image <- img, root <- Roots
LayerCacheSpec == Cache!Spec

\* If no system call fails, every image of at least one layer, and not too
\* many, is bundled: whoever loses the race to cache a layer uses the
\* winner's.
BundleSucceeds ==
    \A p \in Procs : outcome[p] = "error" =>
        Len(LayersOf[img[p]]) \notin 1 .. MaxLayers

\* A process that returns leaves no mount and no directory of its own,
\* unless a cleanup step failed, whichever step failed before.
NothingLeft ==
    \A p \in Procs :
        outcome[p] \in {"ok", "error", "fault"} /\ ~ stuck[p] =>
            work[p] = "none" /\ bundle[p] = "none"

\* Every bundle is made and taken down, or fails.
BundleEnds == \A p \in Procs : pc[p] # "idle" ~> pc[p] = "idle"

\* What TarballApplicator says applying an image's layers in order produces,
\* the image's flattened filesystem, is what a container sees.
RootfsFlattened ==
    \A p \in Procs :
        pc[p] = "ready" => rootfs[p] = Flatten(LayersOf[img[p]])

\* What Resolve says of a cached layer: all OCI whiteouts are converted to
\* overlayfs whiteouts, for each image the layer is a part of.
WhiteoutsConverted ==
    \A p \in Procs : pc[p] = "ready" =>
        LET layers == LayersOf[img[p]]
        IN  \A i \in DOMAIN layers :
                \A f \in Dels[layers[i]] \ Adds[layers[i]] :
                    Flatten(SubSeq(layers, 1, i - 1))[f] # Nothing =>
                        over[layers[i]][f] = Whiteout

-----------------------------------------------------------------------------
(* Why they hold: the inductive invariant of OverlayBundlerProofs.         *)

\* What a process holds at each point of Bundle and Cleanup.
WorkAt(l) ==
    IF l \in {"mount", "remove"} THEN "made"
    ELSE IF l \in {"apply", "lstat", "rename", "unmount"} THEN "mounted"
    ELSE "none"
BundleAt(l) ==
    IF l \in {"tmpfs", "rmdir"} THEN "made"
    ELSE IF l \in {"rootfs", "untmp"} THEN "tmpfs"
    ELSE IF l \in {"spec", "ready", "umount"} THEN "rootfs"
    ELSE "none"

Held ==
    \A p \in Procs : pc[p] # "idle" =>
        /\ work[p] = WorkAt(pc[p])
        /\ bundle[p] = BundleAt(pc[p])
        /\ outcome[p] = "none"
        /\ Len(LayersOf[img[p]]) <= MaxLayers

\* What a process is about to rename is the whole of its layer.
Extracted ==
    \A p \in Procs : pc[p] \in {"lstat", "rename"} =>
        upper[p] = Upper(Layer(p), lower[p])

\* The layers a process has resolved are cached.
Resolved ==
    \A p \in Procs :
        /\ pc[p] \in Resolving => AllCached(Parents(p))
        /\ pc[p] \in {"unmount", "remove"} /\ err[p] = "none" =>
              over[Layer(p)] # Missing
        /\ pc[p] \notin Resolving \cup {"idle"} =>
              AllCached(LayersOf[img[p]])
        /\ err[p] # "error"

\* What is mounted is what a container will see.
Mounted ==
    \A p \in Procs :
        pc[p] \in {"spec", "ready"} => HasOwnFiles(LayersOf[img[p]], rootfs[p])

Inv ==
    /\ TypeOK
    /\ Held
    /\ Extracted
    /\ Resolved
    /\ CachedLayerWhole
    /\ BundleSucceeds
    /\ NothingLeft
    /\ Mounted
=============================================================================
