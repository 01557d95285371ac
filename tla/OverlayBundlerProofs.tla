------------------------ MODULE OverlayBundlerProofs ------------------------
(***************************************************************************)
(* What is proved of OverlayBundler, for any number of processes, images,  *)
(* layers and files.                                                       *)
(***************************************************************************)
EXTENDS OverlayBundler, TLAPS

USE DEF Points, Resolving, Errors

-----------------------------------------------------------------------------
(* Facts about layers and overlays.                                        *)

\* What extracting a layer leaves is a directory, and not a missing one.
LEMMA UpperType ==
    ASSUME NEW l \in Layers, NEW under
    PROVE  Upper(l, under) \in Dirs /\ Upper(l, under) # Missing
  <1>1. Upper(l, under) \in Dirs
    BY DEF Upper, Dirs
  <1> QED
    BY <1>1, MissingAssumption

\* It is the whole of the layer.
LEMMA UpperWhole ==
    ASSUME NEW l \in Layers, NEW under
    PROVE  IsWhole(l, Upper(l, under))
  BY ContentAssumption DEF Upper, IsWhole

\* An overlay of directories shows a directory.
LEMMA ShowType ==
    ASSUME NEW stack, \A i \in DOMAIN stack : stack[i] \in Dirs
    PROVE  Show(stack) \in Dirs
  <1> SUFFICES ASSUME NEW f \in Files
               PROVE  Show(stack)[f] \in Layers \cup {Nothing, Whiteout}
    BY DEF Show, Dirs
  <1> DEFINE has == {i \in DOMAIN stack : stack[i][f] # Nothing}
             first == {i \in has : \A j \in has : i <= j}
  <1>1. ASSUME NEW i \in DOMAIN stack
        PROVE  stack[i][f] \in Layers \cup {Nothing, Whiteout}
    BY <1>1 DEF Dirs
  <1>2. Show(stack)[f] = IF \E i \in first : stack[i][f] # Whiteout
                         THEN stack[CHOOSE i \in first : TRUE][f] ELSE Nothing
    BY DEF Show
  <1>3. CASE \E i \in first : stack[i][f] # Whiteout
    <2>1. (CHOOSE i \in first : TRUE) \in first
      BY <1>3
    <2>2. (CHOOSE i \in first : TRUE) \in DOMAIN stack
      BY <2>1
    <2> HIDE DEF first
    <2> QED
      BY <1>1, <1>2, <1>3, <2>2
  <1>4. CASE ~ \E i \in first : stack[i][f] # Whiteout
    BY <1>2, <1>4
  <1> QED
    BY <1>3, <1>4

\* The layer a process resolves, and its parents.
LEMMA LayerType ==
    ASSUME TypeOK, NEW p \in Procs, pc[p] \in Resolving
    PROVE  /\ LayersOf[img[p]] \in Seq(Layers)
           /\ idx[p] \in 1 .. Len(LayersOf[img[p]])
           /\ Layer(p) \in Layers
           /\ Layer(p) = LayersOf[img[p]][idx[p]]
           /\ Parents(p) \in Seq(Layers)
           /\ DOMAIN Parents(p) = 1 .. idx[p] - 1
           /\ \A i \in 1 .. idx[p] - 1 : Parents(p)[i] = LayersOf[img[p]][i]
  <1>1. LayersOf[img[p]] \in Seq(Layers)
    BY LayersOfAssumption DEF TypeOK
  <1>2. idx[p] \in 1 .. Len(LayersOf[img[p]])
    BY <1>1 DEF TypeOK
  <1>3. Layer(p) \in Layers /\ Layer(p) = LayersOf[img[p]][idx[p]]
    BY <1>1, <1>2 DEF Layer
  <1>4. /\ Parents(p) \in Seq(Layers)
        /\ DOMAIN Parents(p) = 1 .. idx[p] - 1
        /\ \A i \in 1 .. idx[p] - 1 : Parents(p)[i] = LayersOf[img[p]][i]
    BY <1>1, <1>2 DEF Parents
  <1> QED
    BY <1>1, <1>2, <1>3, <1>4

\* A mount over cached layers finds directories.
LEMMA CachedType ==
    ASSUME TypeOK, NEW layers \in Seq(Layers), AllCached(layers)
    PROVE  /\ Cached(layers) \in Seq(Dirs)
           /\ \A i \in DOMAIN Cached(layers) : Cached(layers)[i] \in Dirs
  <1>1. ASSUME NEW i \in 1 .. Len(layers)
        PROVE  over[layers[i]] \in Dirs
    BY DEF TypeOK, AllCached
  <1>2. Cached(layers) = [i \in 1 .. Len(layers) |-> over[layers[i]]]
    BY DEF Cached
  <1> QED
    BY <1>1, <1>2

-----------------------------------------------------------------------------
(* Type correctness.                                                       *)

\* Only the process that takes a step moves, and its image stays the same
\* unless it begins a bundle.
LEMMA OnlyOneMoves ==
    ASSUME TypeOK, NEW p \in Procs, ResolveStep(p) \/ BundleStep(p) \/ Failure(p)
    PROVE  /\ UNCHANGED img
           /\ \A q \in Procs \ {p} :
                /\ pc'[q] = pc[q] /\ idx'[q] = idx[q] /\ work'[q] = work[q]
                /\ lower'[q] = lower[q] /\ upper'[q] = upper[q]
                /\ bundle'[q] = bundle[q] /\ rootfs'[q] = rootfs[q]
                /\ err'[q] = err[q] /\ outcome'[q] = outcome[q]
                /\ stuck'[q] = stuck[q]
  <1> USE DEF TypeOK, Goto, GotoWith, Return, SetWork, SetBundle, NextLayer,
              OnlyResolves, OnlyBundles, Untouched, work_vars, bundle_vars
  <1>1. CASE StatCached(p)
    BY <1>1 DEF StatCached
  <1>2. CASE MakeWorkdir(p)
    BY <1>2 DEF MakeWorkdir
  <1>3. CASE MountWorkdir(p)
    BY <1>3 DEF MountWorkdir
  <1>4. CASE Apply(p)
    BY <1>4 DEF Apply
  <1>5. CASE LstatRename(p)
    BY <1>5 DEF LstatRename
  <1>6. CASE Rename(p)
    BY <1>6 DEF Rename
  <1>7. CASE UnmountWorkdir(p)
    BY <1>7 DEF UnmountWorkdir
  <1>8. CASE RemoveWorkdir(p)
    BY <1>8 DEF RemoveWorkdir
  <1>9. CASE BundleStep(p)
    BY <1>9 DEF BundleStep, MakeBundle, MountTmpfs, MountRootfs, WriteSpec,
                Finish, UnmountRootfs, UnmountTmpfs, RemoveBundle
  <1>10. CASE Failure(p)
    BY <1>10 DEF Failure, ResolveFails, ApplyFails, CleanupWorkdirFails,
                 BootstrapFails, MountRootfsFails, WriteSpecFails,
                 CleanupFails, Kill
  <1> QED
    BY <1>1, <1>2, <1>3, <1>4, <1>5, <1>6, <1>7, <1>8, <1>9, <1>10
       DEF ResolveStep

\* A process goes on to the next layer only if there is one.
LEMMA NextLayerTyped ==
    ASSUME TypeOK, NEW p \in Procs, pc[p] \in Resolving, NextLayer(p)
    PROVE  /\ pc' \in [Procs -> Points] /\ idx' \in [Procs -> Nat]
           /\ pc'[p] \in {"stat", "bootstrap"}
           /\ pc'[p] = "stat" => idx'[p] \in DOMAIN LayersOf[img[p]]
           /\ UNCHANGED <<img, err, outcome>>
  <1>1. LayersOf[img[p]] \in Seq(Layers) /\ idx[p] \in 1 .. Len(LayersOf[img[p]])
    BY LayerType
  <1>2. Len(LayersOf[img[p]]) \in Nat
    BY <1>1
  <1> USE DEF TypeOK, NextLayer, Goto
  <1>3. CASE idx[p] < Len(LayersOf[img[p]])
    <2>1. /\ pc' = [pc EXCEPT ![p] = "stat"] /\ idx' = [idx EXCEPT ![p] = @ + 1]
          /\ UNCHANGED <<img, err, outcome>>
      BY <1>3
    <2>2. idx[p] \in Nat /\ idx[p] + 1 \in 1 .. Len(LayersOf[img[p]])
      BY <1>1, <1>2, <1>3
    <2>3. /\ pc' \in [Procs -> Points] /\ pc'[p] = "stat"
          /\ idx' \in [Procs -> Nat] /\ idx'[p] = idx[p] + 1
      BY <2>1, <2>2
    <2> QED
      BY <1>1, <2>1, <2>2, <2>3
  <1>4. CASE ~ idx[p] < Len(LayersOf[img[p]])
    <2>1. /\ pc' = [pc EXCEPT ![p] = "bootstrap"]
          /\ UNCHANGED <<idx, img, err, outcome>>
      BY <1>4
    <2>2. pc' \in [Procs -> Points] /\ pc'[p] = "bootstrap"
      BY <2>1
    <2> QED
      BY <2>1, <2>2
  <1> QED
    BY <1>3, <1>4

\* A step of Resolve keeps the variables within their types.
LEMMA ResolveTyped ==
    ASSUME TypeOK, Held, NEW p \in Procs, ResolveStep(p)
    PROVE  TypeOK'
  <1>0. pc[p] \in Resolving
    BY DEF ResolveStep, StatCached, MakeWorkdir, MountWorkdir, Apply,
           LstatRename, Rename, UnmountWorkdir, RemoveWorkdir
  <1>1. Layer(p) \in Layers /\ Parents(p) \in Seq(Layers)
    BY <1>0, LayerType
  <1>2. UNCHANGED img /\ UNCHANGED <<bundle, rootfs, stuck>>
    BY OnlyOneMoves DEF ResolveStep, StatCached, MakeWorkdir, MountWorkdir,
       Apply, LstatRename, Rename, UnmountWorkdir, RemoveWorkdir,
       OnlyResolves, bundle_vars
  <1>3. /\ pc' \in [Procs -> Points] /\ idx' \in [Procs -> Nat]
        /\ pc'[p] \in Resolving => idx'[p] \in DOMAIN LayersOf[img[p]]
        /\ err' \in [Procs -> Errors]
        /\ outcome' \in [Procs -> {"none", "ok", "error", "fault", "killed"}]
    <2> USE <1>0 DEF TypeOK, Goto, GotoWith, Return
    <2>1. CASE StatCached(p)
      <3>1. CASE NextLayer(p)
        BY <3>1, NextLayerTyped
      <3>2. CASE Goto(p, "mkdir") /\ UNCHANGED idx
        BY <3>2
      <3> QED
        BY <2>1, <3>1, <3>2 DEF StatCached
    <2>2. CASE RemoveWorkdir(p)
      <3>1. CASE NextLayer(p)
        BY <3>1, NextLayerTyped
      <3>2. CASE Return(p, err[p]) /\ UNCHANGED idx
        <4>1. err[p] \in {"none", "error", "fault"}
          OBVIOUS
        <4> QED
          BY <3>2, <4>1
      <3> QED
        BY <2>2, <3>1, <3>2 DEF RemoveWorkdir
    <2>3. CASE \/ MakeWorkdir(p) \/ MountWorkdir(p) \/ Apply(p)
               \/ LstatRename(p) \/ Rename(p) \/ UnmountWorkdir(p)
      BY <2>3 DEF MakeWorkdir, MountWorkdir, Apply, LstatRename, Rename,
                  UnmountWorkdir
    <2> QED
      BY <2>1, <2>2, <2>3 DEF ResolveStep
  <1>4. /\ work' \in [Procs -> {"none", "made", "mounted"}]
        /\ lower' \in [Procs -> Seq(Dirs)]
        /\ upper' \in [Procs -> Dirs]
    <2>1. CASE MountWorkdir(p)
      <3>1. EmptyDir \in Dirs
        BY DEF EmptyDir, Dirs
      <3>2. AllCached(Parents(p)) => Cached(Parents(p)) \in Seq(Dirs)
        BY <1>1, CachedType
      <3>3. <<EmptyDir>> \in Seq(Dirs)
        BY <3>1
      <3>4. CASE AllCached(Parents(p))
        <4> DEFINE under == IF Parents(p) = <<>> THEN <<EmptyDir>>
                                                 ELSE Cached(Parents(p))
        <4>1. under \in Seq(Dirs)
          BY <3>2, <3>3, <3>4
        <4>2. /\ work' = [work EXCEPT ![p] = "mounted"]
              /\ lower' = [lower EXCEPT ![p] = under]
              /\ upper' = [upper EXCEPT ![p] = EmptyDir]
          BY <2>1, <3>4 DEF MountWorkdir
        <4> HIDE DEF under
        <4> QED
          BY <3>1, <4>1, <4>2 DEF TypeOK
      <3>5. CASE ~ AllCached(Parents(p))
        BY <2>1, <3>5 DEF TypeOK, MountWorkdir, SetWork
      <3> QED
        BY <3>4, <3>5
    <2>2. CASE Apply(p)
      <3>1. Upper(Layer(p), lower[p]) \in Dirs
        BY <1>1, UpperType
      <3> QED
        BY <2>2, <3>1 DEF TypeOK, Apply
    <2>3. CASE ~ MountWorkdir(p) /\ ~ Apply(p)
      BY <2>3 DEF TypeOK, ResolveStep, StatCached, MakeWorkdir, LstatRename,
                  Rename, UnmountWorkdir, RemoveWorkdir, SetWork, work_vars
    <2> QED
      BY <2>1, <2>2, <2>3
  <1>5. over' \in [Layers -> Dirs \cup {Missing}]
    <2>1. CASE Rename(p)
      BY <2>1 DEF TypeOK, Rename
    <2>2. CASE RemoveWorkdir(p)
      <3>1. work[p] # "mounted"
        BY <2>2 DEF RemoveWorkdir, Held, WorkAt
      <3> QED
        BY <2>2, <3>1 DEF TypeOK, RemoveWorkdir
    <2>3. CASE ~ Rename(p) /\ ~ RemoveWorkdir(p)
      BY <2>3 DEF TypeOK, ResolveStep, StatCached, MakeWorkdir, MountWorkdir,
                  Apply, LstatRename, UnmountWorkdir
    <2> QED
      BY <2>1, <2>2, <2>3
  <1>6. \A q \in Procs : pc'[q] \in Resolving =>
           idx'[q] \in DOMAIN LayersOf[img'[q]]
    <2> TAKE q \in Procs
    <2>1. CASE q = p
      BY <1>2, <1>3, <2>1
    <2>2. CASE q # p
      <3>1. pc'[q] = pc[q] /\ idx'[q] = idx[q]
        BY <2>2, OnlyOneMoves
      <3> QED
        BY <1>2, <3>1 DEF TypeOK
    <2> QED
      BY <2>1, <2>2
  <1> QED
    BY <1>2, <1>3, <1>4, <1>5, <1>6 DEF TypeOK

\* A step of BootstrapBundle, of the container or of Bundle.Cleanup does.
LEMMA BundleTyped ==
    ASSUME TypeOK, NEW p \in Procs, BundleStep(p)
    PROVE  TypeOK'
  <1>1. pc[p] \notin Resolving /\ UNCHANGED <<img, err>>
    BY DEF BundleStep, MakeBundle, MountTmpfs, MountRootfs, WriteSpec, Finish,
           UnmountRootfs, UnmountTmpfs, RemoveBundle, Goto, Return
  <1>2. UNCHANGED <<over, idx, work, lower, upper>>
    BY DEF BundleStep, MakeBundle, MountTmpfs, MountRootfs, WriteSpec, Finish,
           UnmountRootfs, UnmountTmpfs, RemoveBundle, OnlyBundles, work_vars
  <1>3. /\ pc' \in [Procs -> Points] /\ pc'[p] \notin Resolving
        /\ outcome' \in [Procs -> {"none", "ok", "error", "fault", "killed"}]
        /\ bundle' \in [Procs -> {"none", "made", "tmpfs", "rootfs"}]
        /\ stuck' \in [Procs -> BOOLEAN]
    <2> USE DEF BundleStep, MakeBundle, MountTmpfs, MountRootfs, WriteSpec,
                Finish, UnmountRootfs, UnmountTmpfs, RemoveBundle
    <2>1. \E l \in Points \ Resolving : pc' = [pc EXCEPT ![p] = l]
      BY DEF Goto, Return
    <2>2. \/ UNCHANGED outcome
          \/ \E o \in {"ok", "error", "fault"} :
               outcome' = [outcome EXCEPT ![p] = o]
      <3>1. err[p] \in {"none", "error", "fault"}
        BY DEF TypeOK
      <3> QED
        BY <3>1 DEF Goto, Return
    <2>3. \/ UNCHANGED bundle
          \/ \E h \in {"none", "made", "tmpfs", "rootfs"} :
               bundle' = [bundle EXCEPT ![p] = h]
      BY DEF SetBundle, bundle_vars
    <2>4. UNCHANGED stuck \/ stuck' = [stuck EXCEPT ![p] = TRUE]
      OBVIOUS
    <2>5. pc' \in [Procs -> Points] /\ pc'[p] \notin Resolving
      BY <2>1 DEF TypeOK
    <2>6. outcome' \in [Procs -> {"none", "ok", "error", "fault", "killed"}]
      BY <2>2 DEF TypeOK
    <2>7. bundle' \in [Procs -> {"none", "made", "tmpfs", "rootfs"}]
      BY <2>3 DEF TypeOK
    <2>8. stuck' \in [Procs -> BOOLEAN]
      BY <2>4 DEF TypeOK
    <2> QED
      BY <2>5, <2>6, <2>7, <2>8
  <1>4. rootfs' \in [Procs -> Dirs]
    <2>1. CASE MountRootfs(p) /\ AllCached(LayersOf[img[p]])
      <3>1. LayersOf[img[p]] \in Seq(Layers)
        BY LayersOfAssumption DEF TypeOK
      <3>2. Show(Cached(LayersOf[img[p]])) \in Dirs
        BY <2>1, <3>1, CachedType, ShowType
      <3> QED
        BY <2>1, <3>2 DEF TypeOK, MountRootfs, bundle_vars
    <2>2. CASE ~ (MountRootfs(p) /\ AllCached(LayersOf[img[p]]))
      BY <2>2 DEF TypeOK, BundleStep, MakeBundle, MountTmpfs, MountRootfs,
                  WriteSpec, Finish, UnmountRootfs, UnmountTmpfs,
                  RemoveBundle, SetBundle, bundle_vars
    <2> QED
      BY <2>1, <2>2
  <1>5. \A q \in Procs : pc'[q] \in Resolving =>
           idx'[q] \in DOMAIN LayersOf[img'[q]]
    <2> TAKE q \in Procs
    <2>1. CASE q = p
      BY <1>3, <2>1
    <2>2. CASE q # p
      <3>1. pc'[q] = pc[q]
        BY <2>2, OnlyOneMoves
      <3> QED
        BY <1>1, <1>2, <3>1 DEF TypeOK
    <2> QED
      BY <2>1, <2>2
  <1> QED
    BY <1>1, <1>2, <1>3, <1>4, <1>5 DEF TypeOK

\* So does a failure.
LEMMA FailureTyped ==
    ASSUME TypeOK, NEW p \in Procs, Failure(p)
    PROVE  TypeOK'
  <1> USE DEF Failure, ResolveFails, ApplyFails, CleanupWorkdirFails,
              BootstrapFails, MountRootfsFails, WriteSpecFails, CleanupFails,
              Kill
  <1>1. UNCHANGED <<over, img, idx, lower, upper, rootfs>>
    BY DEF Untouched, OnlyResolves, OnlyBundles, work_vars, bundle_vars,
           Return, GotoWith, SetWork, SetBundle
  <1>2. /\ pc' \in [Procs -> Points]
        /\ err' \in [Procs -> Errors]
        /\ outcome' \in [Procs -> {"none", "ok", "error", "fault", "killed"}]
    BY DEF TypeOK, Return, GotoWith
  <1>3. pc'[p] \in Resolving => pc[p] \in Resolving
    BY DEF TypeOK, Return, GotoWith
  <1>4. work' \in [Procs -> {"none", "made", "mounted"}]
    <2>1. CASE Kill(p)
      <3>1. \E w \in {"none", "made", "mounted"} :
              work' = [work EXCEPT ![p] = w]
        BY <2>1 DEF TypeOK
      <3> QED
        BY <3>1 DEF TypeOK
    <2>2. CASE ~ Kill(p)
      BY <2>2 DEF TypeOK, SetWork, OnlyBundles, work_vars
    <2> QED
      BY <2>1, <2>2
  <1>5. bundle' \in [Procs -> {"none", "made", "tmpfs", "rootfs"}]
    BY DEF TypeOK, SetBundle, OnlyResolves, bundle_vars
  <1>6. stuck' \in [Procs -> BOOLEAN]
    BY DEF TypeOK, OnlyResolves
  <1>7. \A q \in Procs : pc'[q] \in Resolving =>
           idx'[q] \in DOMAIN LayersOf[img'[q]]
    <2> TAKE q \in Procs
    <2>1. CASE q = p
      BY <1>1, <1>3, <2>1 DEF TypeOK
    <2>2. CASE q # p
      <3>1. pc'[q] = pc[q]
        BY <2>2, OnlyOneMoves
      <3> QED
        BY <1>1, <3>1 DEF TypeOK
    <2> QED
      BY <2>1, <2>2
  <1> QED
    BY <1>1, <1>2, <1>4, <1>5, <1>6, <1>7 DEF TypeOK

\* So does the start of a bundle, which concerns one process only.
LEMMA BeginTyped ==
    ASSUME TypeOK, NEW p \in Procs, NEW i \in Images, Bundle(p, i)
    PROVE  /\ TypeOK'
           /\ \A q \in Procs \ {p} :
                /\ pc'[q] = pc[q] /\ img'[q] = img[q] /\ idx'[q] = idx[q]
                /\ work'[q] = work[q] /\ lower'[q] = lower[q]
                /\ upper'[q] = upper[q] /\ bundle'[q] = bundle[q]
                /\ err'[q] = err[q] /\ outcome'[q] = outcome[q]
                /\ stuck'[q] = stuck[q]
  <1>1. EmptyDir \in Dirs /\ <<>> \in Seq(Dirs)
    BY DEF EmptyDir, Dirs
  <1>2. /\ UNCHANGED over
        /\ img' \in [Procs -> Images] /\ img'[p] = i
        /\ idx' \in [Procs -> Nat] /\ idx'[p] = 1
        /\ work' \in [Procs -> {"none", "made", "mounted"}]
        /\ bundle' \in [Procs -> {"none", "made", "tmpfs", "rootfs"}]
        /\ err' \in [Procs -> Errors]
        /\ stuck' \in [Procs -> BOOLEAN]
    BY DEF TypeOK, Bundle
  <1>3. /\ lower' \in [Procs -> Seq(Dirs)]
        /\ upper' \in [Procs -> Dirs]
        /\ rootfs' \in [Procs -> Dirs]
    BY <1>1 DEF TypeOK, Bundle
  <1>4. /\ pc' \in [Procs -> Points]
        /\ outcome' \in [Procs -> {"none", "ok", "error", "fault", "killed"}]
        /\ pc'[p] \in Resolving => LayersOf[i] # <<>>
    BY DEF TypeOK, Bundle
  <1>5. LayersOf[i] # <<>> => 1 \in DOMAIN LayersOf[i]
    <2>1. LayersOf[i] \in Seq(Layers)
      BY LayersOfAssumption
    <2> QED
      BY <2>1
  <1>6. \A q \in Procs \ {p} :
          /\ pc'[q] = pc[q] /\ img'[q] = img[q] /\ idx'[q] = idx[q]
          /\ work'[q] = work[q] /\ lower'[q] = lower[q]
          /\ upper'[q] = upper[q] /\ bundle'[q] = bundle[q]
          /\ err'[q] = err[q] /\ outcome'[q] = outcome[q]
          /\ stuck'[q] = stuck[q]
    BY DEF TypeOK, Bundle
  <1>7. \A q \in Procs : pc'[q] \in Resolving =>
           idx'[q] \in DOMAIN LayersOf[img'[q]]
    BY <1>2, <1>4, <1>5, <1>6 DEF TypeOK
  <1> QED
    BY <1>2, <1>3, <1>4, <1>6, <1>7 DEF TypeOK

\* Every step keeps the variables within their types.
LEMMA TypeNext ==
    ASSUME TypeOK, Held, [Next]_vars
    PROVE  TypeOK'
  <1>1. CASE UNCHANGED vars
    BY <1>1 DEF TypeOK, vars
  <1>2. CASE Next
    BY <1>2, ResolveTyped, BundleTyped, FailureTyped, BeginTyped DEF Next
  <1> QED
    BY <1>1, <1>2

-----------------------------------------------------------------------------
(* The cache.                                                              *)

\* A step leaves a cached layer alone, or puts what it has extracted of a
\* layer where there was none, or an empty one.
LEMMA CacheStep ==
    ASSUME TypeOK, Held, Extracted, [Next]_vars, NEW l \in Layers
    PROVE  \/ over'[l] = over[l]
           \/ /\ over[l] \in {Missing, EmptyDir}
              /\ \E under : over'[l] = Upper(l, under)
  <1>1. ASSUME NEW p \in Procs, Rename(p)
        PROVE  \/ over'[l] = over[l]
               \/ /\ over[l] \in {Missing, EmptyDir}
                  /\ over'[l] = Upper(l, lower[p])
    <2>1. pc[p] = "rename"
      BY <1>1 DEF Rename
    <2>2. upper[p] = Upper(Layer(p), lower[p])
      BY <2>1 DEF Extracted
    <2>3. over' = [over EXCEPT ![Layer(p)] =
                      IF over[Layer(p)] \in {Missing, EmptyDir}
                      THEN upper[p] ELSE over[Layer(p)]]
      BY <1>1 DEF Rename
    <2> QED
      BY <2>2, <2>3 DEF TypeOK
  <1>2. ASSUME NEW p \in Procs, RemoveWorkdir(p)
        PROVE  UNCHANGED over
    <2>1. work[p] # "mounted"
      BY <1>2 DEF RemoveWorkdir, Held, WorkAt
    <2> QED
      BY <1>2, <2>1 DEF RemoveWorkdir
  <1>3. ASSUME NEW p \in Procs, ResolveStep(p), ~ Rename(p), ~ RemoveWorkdir(p)
        PROVE  UNCHANGED over
    BY <1>3 DEF ResolveStep, StatCached, MakeWorkdir, MountWorkdir, Apply,
                LstatRename, UnmountWorkdir
  <1>4. ASSUME NEW p \in Procs, BundleStep(p) \/ Failure(p)
        PROVE  UNCHANGED over
    BY <1>4 DEF BundleStep, MakeBundle, MountTmpfs, MountRootfs, WriteSpec,
                Finish, UnmountRootfs, UnmountTmpfs, RemoveBundle,
                OnlyBundles, Failure, ResolveFails, ApplyFails,
                CleanupWorkdirFails, BootstrapFails, MountRootfsFails,
                WriteSpecFails, CleanupFails, Kill, Untouched
  <1>5. ASSUME NEW p \in Procs, NEW i \in Images, Bundle(p, i)
        PROVE  UNCHANGED over
    BY <1>5 DEF Bundle
  <1>6. CASE UNCHANGED vars
    BY <1>6 DEF vars
  <1>7. CASE Next
    BY <1>1, <1>2, <1>3, <1>4, <1>5, <1>7 DEF Next
  <1> QED
    BY <1>6, <1>7

\* So what is cached stays cached, and stays as it is unless it is empty.
LEMMA CacheKept ==
    ASSUME TypeOK, Held, Extracted, [Next]_vars, NEW l \in Layers
    PROVE  /\ over[l] # Missing => over'[l] # Missing
           /\ over[l] \notin {Missing, EmptyDir} => over'[l] = over[l]
  BY CacheStep, UpperType

LEMMA WholeNext ==
    ASSUME TypeOK, Held, Extracted, CachedLayerWhole, [Next]_vars
    PROVE  CachedLayerWhole'
  <1> SUFFICES ASSUME NEW l \in Layers, over'[l] # Missing
               PROVE  IsWhole(l, over'[l])
    BY DEF CachedLayerWhole
  <1>1. CASE over'[l] = over[l]
    BY <1>1 DEF CachedLayerWhole
  <1>2. CASE \E under : over'[l] = Upper(l, under)
    BY <1>2, UpperWhole
  <1> QED
    BY <1>1, <1>2, CacheStep

-----------------------------------------------------------------------------
(* What a process holds.                                                   *)

\* The process that steps holds what its next point says, and if it returns
\* nothing, unless a cleanup step failed or it was killed.
LEMMA HeldStep ==
    ASSUME TypeOK, Held, NEW p \in Procs,
           ResolveStep(p) \/ BundleStep(p) \/ Failure(p)
    PROVE  /\ pc'[p] # "idle" => /\ work'[p] = WorkAt(pc'[p])
                                 /\ bundle'[p] = BundleAt(pc'[p])
                                 /\ outcome'[p] = "none"
           /\ pc'[p] = "idle" /\ outcome'[p] # "killed" /\ ~ stuck'[p] =>
                 work'[p] = "none" /\ bundle'[p] = "none"
           /\ Len(LayersOf[img[p]]) <= MaxLayers
  <1>0. pc[p] # "idle"
    BY DEF ResolveStep, StatCached, MakeWorkdir, MountWorkdir, Apply,
       LstatRename, Rename, UnmountWorkdir, RemoveWorkdir, BundleStep,
       MakeBundle, MountTmpfs, MountRootfs, WriteSpec, Finish, UnmountRootfs,
       UnmountTmpfs, RemoveBundle, Failure, ResolveFails, ApplyFails,
       CleanupWorkdirFails, BootstrapFails, MountRootfsFails, WriteSpecFails,
       CleanupFails, Kill
  <1>00. /\ work[p] = WorkAt(pc[p]) /\ bundle[p] = BundleAt(pc[p])
         /\ outcome[p] = "none" /\ Len(LayersOf[img[p]]) <= MaxLayers
    BY <1>0 DEF Held
  <1> USE <1>00 DEF TypeOK, WorkAt, BundleAt, Goto, GotoWith, Return, SetWork,
              SetBundle, work_vars, bundle_vars
  <1>1. CASE StatCached(p)
    BY <1>1 DEF StatCached, NextLayer, OnlyResolves
  <1>2. CASE MakeWorkdir(p)
    BY <1>2 DEF MakeWorkdir, OnlyResolves
  <1>3. CASE MountWorkdir(p)
    BY <1>3 DEF MountWorkdir, OnlyResolves
  <1>4. CASE Apply(p)
    BY <1>4 DEF Apply, OnlyResolves
  <1>5. CASE LstatRename(p)
    BY <1>5 DEF LstatRename, OnlyResolves
  <1>6. CASE Rename(p)
    BY <1>6 DEF Rename, OnlyResolves
  <1>7. CASE UnmountWorkdir(p)
    BY <1>7 DEF UnmountWorkdir, OnlyResolves
  <1>8. CASE RemoveWorkdir(p)
    BY <1>8 DEF RemoveWorkdir, NextLayer, OnlyResolves
  <1>9. CASE MakeBundle(p) \/ MountTmpfs(p)
    BY <1>9 DEF MakeBundle, MountTmpfs, OnlyBundles
  <1>10. CASE MountRootfs(p)
    BY <1>10 DEF MountRootfs, OnlyBundles
  <1>11. CASE WriteSpec(p) \/ Finish(p)
    BY <1>11 DEF WriteSpec, Finish, OnlyBundles
  <1>12. CASE UnmountRootfs(p) \/ UnmountTmpfs(p)
    BY <1>12 DEF UnmountRootfs, UnmountTmpfs, OnlyBundles
  <1>13. CASE RemoveBundle(p)
    BY <1>13 DEF RemoveBundle, OnlyBundles
  <1>14. CASE ResolveFails(p) \/ ApplyFails(p) \/ CleanupWorkdirFails(p)
    BY <1>14 DEF ResolveFails, ApplyFails, CleanupWorkdirFails, OnlyResolves
  <1>15. CASE \/ BootstrapFails(p) \/ MountRootfsFails(p)
              \/ WriteSpecFails(p) \/ CleanupFails(p)
    BY <1>15 DEF BootstrapFails, MountRootfsFails, WriteSpecFails,
                 CleanupFails, OnlyBundles
  <1>16. CASE Kill(p)
    BY <1>16 DEF Kill
  <1> QED
    BY <1>1, <1>2, <1>3, <1>4, <1>5, <1>6, <1>7, <1>8, <1>9, <1>10, <1>11,
       <1>12, <1>13, <1>14, <1>15, <1>16 DEF ResolveStep, BundleStep, Failure

LEMMA HeldNext ==
    ASSUME TypeOK, Held, NothingLeft, [Next]_vars
    PROVE  Held' /\ NothingLeft'
  <1> USE DEF Held, NothingLeft
  <1>1. ASSUME NEW p \in Procs, ResolveStep(p) \/ BundleStep(p) \/ Failure(p)
        PROVE  Held' /\ NothingLeft'
    <2>1. /\ pc'[p] # "idle" => /\ work'[p] = WorkAt(pc'[p])
                                /\ bundle'[p] = BundleAt(pc'[p])
                                /\ outcome'[p] = "none"
          /\ pc'[p] = "idle" /\ outcome'[p] # "killed" /\ ~ stuck'[p] =>
                work'[p] = "none" /\ bundle'[p] = "none"
          /\ Len(LayersOf[img[p]]) <= MaxLayers
      BY <1>1, HeldStep
    <2>2. /\ UNCHANGED img
          /\ \A q \in Procs \ {p} :
               /\ pc'[q] = pc[q] /\ work'[q] = work[q]
               /\ bundle'[q] = bundle[q] /\ outcome'[q] = outcome[q]
               /\ stuck'[q] = stuck[q]
      BY <1>1, OnlyOneMoves
    <2> QED
      BY <2>1, <2>2
  <1>2. ASSUME NEW p \in Procs, NEW i \in Images, Bundle(p, i)
        PROVE  Held' /\ NothingLeft'
    <2>1. \A q \in Procs \ {p} :
             /\ pc'[q] = pc[q] /\ img'[q] = img[q] /\ work'[q] = work[q]
             /\ bundle'[q] = bundle[q] /\ outcome'[q] = outcome[q]
             /\ stuck'[q] = stuck[q]
      BY <1>2, BeginTyped
    <2>2. /\ work'[p] = "none" /\ bundle'[p] = "none"
          /\ pc'[p] \in {"idle", "stat", "bootstrap"}
          /\ img'[p] = i
          /\ pc'[p] # "idle" => outcome'[p] = "none"
      BY <1>2 DEF TypeOK, Bundle
    <2>3. pc'[p] # "idle" => Len(LayersOf[i]) <= MaxLayers
      <3>1. Len(LayersOf[i]) \in Nat
        BY LayersOfAssumption
      <3> QED
        BY <1>2, <3>1, MaxLayersAssumption DEF TypeOK, Bundle
    <2> QED
      BY <2>1, <2>2, <2>3 DEF WorkAt, BundleAt
  <1>3. CASE UNCHANGED vars
    BY <1>3 DEF vars, work_vars, bundle_vars
  <1>4. CASE Next
    BY <1>1, <1>2, <1>4 DEF Next
  <1> QED
    BY <1>3, <1>4

-----------------------------------------------------------------------------
(* What a process has extracted and resolved.                              *)

LEMMA ExtractedNext ==
    ASSUME TypeOK, Extracted, [Next]_vars
    PROVE  Extracted'
  <1> USE DEF Extracted
  <1>1. ASSUME NEW p \in Procs, ResolveStep(p) \/ BundleStep(p) \/ Failure(p)
        PROVE  Extracted'
    <2>1. /\ UNCHANGED img
          /\ \A q \in Procs \ {p} :
               /\ pc'[q] = pc[q] /\ idx'[q] = idx[q] /\ lower'[q] = lower[q]
               /\ upper'[q] = upper[q]
      BY <1>1, OnlyOneMoves
    <2>2. pc'[p] \in {"lstat", "rename"} => upper'[p] = Upper(Layer(p)', lower'[p])
      <3>1. CASE Apply(p)
        BY <3>1 DEF TypeOK, Apply, Goto, Layer
      <3>2. CASE LstatRename(p)
        BY <3>2 DEF TypeOK, LstatRename, Goto, Layer, work_vars
      <3>3. CASE ~ Apply(p) /\ ~ LstatRename(p)
        <4>1. pc'[p] \notin {"lstat", "rename"}
          BY <1>1, <3>3 DEF TypeOK, ResolveStep, StatCached, MakeWorkdir,
             MountWorkdir, Rename, UnmountWorkdir, RemoveWorkdir, NextLayer,
             BundleStep, MakeBundle, MountTmpfs, MountRootfs, WriteSpec,
             Finish, UnmountRootfs, UnmountTmpfs, RemoveBundle, Failure,
             ResolveFails, ApplyFails, CleanupWorkdirFails, BootstrapFails,
             MountRootfsFails, WriteSpecFails, CleanupFails, Kill, Goto,
             GotoWith, Return
        <4> QED
          BY <4>1
      <3> QED
        BY <3>1, <3>2, <3>3
    <2>3. ASSUME NEW q \in Procs, pc'[q] \in {"lstat", "rename"}, q # p
          PROVE  upper'[q] = Upper(Layer(q)', lower'[q])
      BY <2>1, <2>3 DEF Layer
    <2> QED
      BY <2>2, <2>3
  <1>2. ASSUME NEW p \in Procs, NEW i \in Images, Bundle(p, i)
        PROVE  Extracted'
    <2>1. \A q \in Procs \ {p} :
             /\ pc'[q] = pc[q] /\ img'[q] = img[q] /\ idx'[q] = idx[q]
             /\ lower'[q] = lower[q] /\ upper'[q] = upper[q]
      BY <1>2, BeginTyped
    <2>2. pc'[p] \notin {"lstat", "rename"}
      BY <1>2 DEF TypeOK, Bundle
    <2> QED
      BY <2>1, <2>2 DEF Layer
  <1>3. CASE UNCHANGED vars
    BY <1>3 DEF vars, work_vars, Layer
  <1>4. CASE Next
    BY <1>1, <1>2, <1>4 DEF Next
  <1> QED
    BY <1>3, <1>4

\* What Resolved says of one process.
ResolvedBy(p) ==
    /\ pc[p] \in Resolving => AllCached(Parents(p))
    /\ pc[p] \in {"unmount", "remove"} /\ err[p] = "none" =>
          over[Layer(p)] # Missing
    /\ pc[p] \notin Resolving \cup {"idle"} => AllCached(LayersOf[img[p]])
    /\ err[p] # "error"

\* It stays true of a process that does not move.
LEMMA ResolvedStays ==
    ASSUME TypeOK, Held, Extracted, [Next]_vars, NEW q \in Procs,
           ResolvedBy(q), pc'[q] = pc[q], img'[q] = img[q], idx'[q] = idx[q],
           err'[q] = err[q]
    PROVE  ResolvedBy(q)'
  <1>1. ASSUME NEW layers \in Seq(Layers), AllCached(layers)
        PROVE  AllCached(layers)'
    BY <1>1, CacheKept DEF AllCached
  <1>2. pc[q] \in Resolving => /\ Layer(q) \in Layers /\ Layer(q)' = Layer(q)
                               /\ Parents(q) \in Seq(Layers)
                               /\ Parents(q)' = Parents(q)
    BY LayerType DEF Layer, Parents
  <1>3. LayersOf[img[q]] \in Seq(Layers)
    BY LayersOfAssumption DEF TypeOK
  <1>4. pc[q] \in Resolving => AllCached(Parents(q))'
    BY <1>1, <1>2 DEF ResolvedBy, AllCached
  <1>5. pc[q] \notin Resolving \cup {"idle"} => AllCached(LayersOf[img[q]])'
    BY <1>1, <1>3 DEF ResolvedBy, AllCached
  <1>6. pc[q] \in {"unmount", "remove"} /\ err[q] = "none" =>
          over'[Layer(q)] # Missing
    BY <1>2, CacheKept DEF ResolvedBy
  <1> QED
    BY <1>2, <1>4, <1>5, <1>6 DEF ResolvedBy

\* The first k layers are k layers.
LEMMA Prefix ==
    ASSUME NEW layers \in Seq(Layers), NEW k \in 1 .. Len(layers)
    PROVE  LET s == SubSeq(layers, 1, k)
           IN  DOMAIN s = 1 .. k /\ \A i \in 1 .. k : s[i] = layers[i]
  OBVIOUS

\* It becomes true of the next layer once this one is cached.
LEMMA NextResolved ==
    ASSUME TypeOK, NEW p \in Procs, pc[p] \in Resolving, ResolvedBy(p),
           over[Layer(p)] # Missing, NextLayer(p), UNCHANGED over
    PROVE  ResolvedBy(p)'
  <1> DEFINE layers == LayersOf[img[p]]
  <1>1. /\ layers \in Seq(Layers)
        /\ idx[p] \in 1 .. Len(layers)
        /\ Layer(p) = layers[idx[p]]
        /\ DOMAIN Parents(p) = 1 .. idx[p] - 1
        /\ \A i \in 1 .. idx[p] - 1 : Parents(p)[i] = layers[i]
    BY LayerType
  <1>2. \A i \in 1 .. idx[p] : over[layers[i]] # Missing
    <2>1. AllCached(Parents(p))
      BY DEF ResolvedBy
    <2>2. ASSUME NEW i \in 1 .. idx[p]
          PROVE  i = idx[p] \/ i \in 1 .. idx[p] - 1
      BY <1>1
    <2> QED
      BY <1>1, <2>1, <2>2 DEF AllCached
  <1>3. UNCHANGED <<img, err>> /\ err[p] # "error"
    BY DEF NextLayer, Goto, ResolvedBy
  <1>4. CASE idx[p] < Len(layers)
    <2>1. pc'[p] = "stat" /\ idx'[p] = idx[p] + 1
      BY <1>4 DEF TypeOK, NextLayer, Goto
    <2>2. Parents(p)' = SubSeq(layers, 1, idx[p])
      BY <1>1, <1>3, <2>1 DEF Parents
    <2>3. /\ DOMAIN Parents(p)' = 1 .. idx[p]
          /\ \A i \in 1 .. idx[p] : Parents(p)'[i] = layers[i]
      <3>1. /\ DOMAIN SubSeq(layers, 1, idx[p]) = 1 .. idx[p]
            /\ \A i \in 1 .. idx[p] : SubSeq(layers, 1, idx[p])[i] = layers[i]
        BY <1>1, Prefix
      <3> QED
        BY <2>2, <3>1
    <2>4. AllCached(Parents(p))'
      BY <1>2, <2>3 DEF AllCached
    <2> QED
      BY <1>3, <2>1, <2>4 DEF ResolvedBy
  <1>5. CASE ~ idx[p] < Len(layers)
    <2>1. pc'[p] = "bootstrap" /\ idx[p] = Len(layers)
      BY <1>1, <1>5 DEF TypeOK, NextLayer, Goto
    <2>2. AllCached(layers)
      BY <1>1, <1>2, <2>1 DEF AllCached
    <2> QED
      BY <1>3, <2>1, <2>2 DEF ResolvedBy, AllCached
  <1> QED
    BY <1>4, <1>5

\* It stays true of the process that steps.
LEMMA ResolvedStep ==
    ASSUME TypeOK, Held, Extracted, NEW p \in Procs, ResolvedBy(p),
           ResolveStep(p) \/ BundleStep(p) \/ Failure(p)
    PROVE  ResolvedBy(p)'
  <1>1. CASE StatCached(p)
    <2>1. CASE over[Layer(p)] # Missing
      BY <1>1, <2>1, NextResolved DEF StatCached
    <2>2. CASE over[Layer(p)] = Missing
      BY <1>1, <2>2 DEF TypeOK, StatCached, Goto, ResolvedBy, AllCached,
                        Parents, Layer
    <2> QED
      BY <2>1, <2>2
  <1>2. CASE RemoveWorkdir(p)
    <2>1. UNCHANGED over
      <3>1. work[p] # "mounted"
        BY <1>2 DEF RemoveWorkdir, Held, WorkAt
      <3> QED
        BY <1>2, <3>1 DEF RemoveWorkdir
    <2>2. CASE err[p] = "none"
      <3>1. over[Layer(p)] # Missing
        BY <1>2, <2>2 DEF RemoveWorkdir, ResolvedBy
      <3> QED
        BY <1>2, <2>1, <2>2, <3>1, NextResolved DEF RemoveWorkdir
    <2>3. CASE err[p] # "none"
      BY <1>2, <2>3 DEF TypeOK, RemoveWorkdir, Return, ResolvedBy
    <2> QED
      BY <2>2, <2>3
  <1>3. CASE MakeWorkdir(p) \/ MountWorkdir(p) \/ Apply(p)
    BY <1>3 DEF TypeOK, MakeWorkdir, MountWorkdir, Apply, Goto, Return,
                ResolvedBy, AllCached, Parents, Layer
  <1>4. CASE LstatRename(p)
    <2>1. /\ pc'[p] \in {"rename", "unmount"}
          /\ pc'[p] = "unmount" => over[Layer(p)] # Missing
          /\ UNCHANGED <<over, img, idx, err>>
      BY <1>4 DEF TypeOK, LstatRename, Goto
    <2>2. AllCached(Parents(p)) /\ err[p] # "error"
      BY <1>4 DEF LstatRename, ResolvedBy
    <2> QED
      BY <2>1, <2>2 DEF ResolvedBy, AllCached, Parents, Layer
  <1>5. CASE Rename(p)
    <2>1. /\ pc[p] = "rename" /\ pc'[p] = "unmount"
          /\ UNCHANGED <<img, idx, err>>
      BY <1>5 DEF TypeOK, Rename, Goto
    <2>2. Layer(p) \in Layers /\ upper[p] # Missing
      BY <2>1, LayerType, MissingAssumption DEF TypeOK
    <2>3. over' = [over EXCEPT ![Layer(p)] =
                      IF over[Layer(p)] \in {Missing, EmptyDir}
                      THEN upper[p] ELSE over[Layer(p)]]
      BY <1>5 DEF Rename
    <2>4. /\ over'[Layer(p)] # Missing
          /\ \A l \in Layers : over[l] # Missing => over'[l] # Missing
      BY <2>2, <2>3 DEF TypeOK
    <2>5. Parents(p) \in Seq(Layers) /\ AllCached(Parents(p)) /\ err[p] # "error"
      BY <2>1, LayerType DEF ResolvedBy
    <2>6. AllCached(Parents(p))'
      BY <2>1, <2>4, <2>5 DEF AllCached, Parents
    <2> QED
      BY <2>1, <2>4, <2>5, <2>6 DEF ResolvedBy, Layer
  <1>6. CASE UnmountWorkdir(p)
    BY <1>6 DEF TypeOK, UnmountWorkdir, Goto, ResolvedBy, AllCached, Parents,
                Layer
  <1>7. CASE BundleStep(p)
    <2>1. /\ pc[p] \notin Resolving \cup {"idle"} /\ pc'[p] \notin Resolving
          /\ UNCHANGED <<over, img, err>>
      BY <1>7 DEF TypeOK, BundleStep, MakeBundle, MountTmpfs, MountRootfs,
                  WriteSpec, Finish, UnmountRootfs, UnmountTmpfs,
                  RemoveBundle, OnlyBundles, Goto, Return
    <2> QED
      BY <2>1 DEF ResolvedBy, AllCached
  <1>8. CASE ApplyFails(p)
    <2>1. /\ pc[p] \in Resolving /\ pc'[p] = "unmount" /\ err'[p] = "fault"
          /\ UNCHANGED <<over, img, idx>>
      BY <1>8 DEF TypeOK, ApplyFails, GotoWith, Untouched
    <2> QED
      BY <2>1 DEF ResolvedBy, AllCached, Parents
  <1>9. CASE WriteSpecFails(p)
    <2>1. /\ pc[p] = "spec" /\ pc'[p] = "umount" /\ err'[p] = "fault"
          /\ UNCHANGED <<over, img>>
      BY <1>9 DEF TypeOK, WriteSpecFails, GotoWith, OnlyBundles
    <2> QED
      BY <2>1 DEF ResolvedBy, AllCached
  <1>10. CASE \/ ResolveFails(p) \/ CleanupWorkdirFails(p) \/ BootstrapFails(p)
              \/ MountRootfsFails(p) \/ CleanupFails(p) \/ Kill(p)
    <2>1. pc'[p] = "idle" /\ UNCHANGED err
      BY <1>10 DEF TypeOK, ResolveFails, CleanupWorkdirFails, BootstrapFails,
                   MountRootfsFails, CleanupFails, Kill, Return
    <2> QED
      BY <2>1 DEF ResolvedBy
  <1> QED
    BY <1>1, <1>2, <1>3, <1>4, <1>5, <1>6, <1>7, <1>8, <1>9, <1>10
       DEF ResolveStep, Failure

LEMMA ResolvedNext ==
    ASSUME TypeOK, Held, Extracted, Resolved, [Next]_vars
    PROVE  Resolved'
  <1>0. \A p \in Procs : ResolvedBy(p)
    BY DEF Resolved, ResolvedBy
  <1>1. ASSUME NEW p \in Procs, ResolveStep(p) \/ BundleStep(p) \/ Failure(p),
               NEW q \in Procs
        PROVE  ResolvedBy(q)'
    <2>1. CASE q = p
      BY <1>0, <1>1, <2>1, ResolvedStep
    <2>2. CASE q # p
      <3>1. pc'[q] = pc[q] /\ img'[q] = img[q] /\ idx'[q] = idx[q] /\ err'[q] = err[q]
        BY <1>1, <2>2, OnlyOneMoves
      <3> QED
        BY <1>0, <3>1, ResolvedStays
    <2> QED
      BY <2>1, <2>2
  <1>2. ASSUME NEW p \in Procs, NEW i \in Images, Bundle(p, i), NEW q \in Procs
        PROVE  ResolvedBy(q)'
    <2>1. CASE q = p
      <3>1. /\ pc'[p] \in {"idle", "stat", "bootstrap"}
            /\ pc'[p] = "bootstrap" => LayersOf[i] = <<>>
            /\ img'[p] = i /\ idx'[p] = 1 /\ err'[p] = "none"
        BY <1>2 DEF TypeOK, Bundle
      <3>2. LayersOf[i] \in Seq(Layers)
        BY LayersOfAssumption
      <3>3. Parents(p)' = SubSeq(LayersOf[i], 1, 0)
        BY <3>1 DEF Parents
      <3>4. DOMAIN Parents(p)' = {}
        BY <3>2, <3>3
      <3>5. pc'[p] = "bootstrap" => DOMAIN LayersOf[i] = {}
        BY <3>1
      <3> QED
        BY <2>1, <3>1, <3>4, <3>5 DEF ResolvedBy, AllCached
    <2>2. CASE q # p
      <3>1. pc'[q] = pc[q] /\ img'[q] = img[q] /\ idx'[q] = idx[q] /\ err'[q] = err[q]
        BY <1>2, <2>2, BeginTyped
      <3> QED
        BY <1>0, <3>1, ResolvedStays
    <2> QED
      BY <2>1, <2>2
  <1>3. ASSUME UNCHANGED vars, NEW q \in Procs
        PROVE  ResolvedBy(q)'
    BY <1>0, <1>3, ResolvedStays DEF vars
  <1>4. \A q \in Procs : ResolvedBy(q)'
    BY <1>1, <1>2, <1>3 DEF Next
  <1> QED
    BY <1>4 DEF Resolved, ResolvedBy

-----------------------------------------------------------------------------
(* The theorems.                                                           *)

\* Without a failed system call a bundle is refused only for its number of
\* layers: none of the parents a mount needs can be missing.
LEMMA SucceedsNext ==
    ASSUME TypeOK, Held, Resolved, BundleSucceeds, [Next]_vars
    PROVE  BundleSucceeds'
  <1> USE DEF BundleSucceeds
  <1>0. ASSUME NEW d \in Images
        PROVE  LayersOf[d] \in Seq(Layers) /\ Len(LayersOf[d]) \in Nat
    BY LayersOfAssumption
  <1>1. ASSUME NEW p \in Procs, ResolveStep(p) \/ BundleStep(p) \/ Failure(p)
        PROVE  BundleSucceeds'
    <2>1. /\ UNCHANGED img
          /\ \A q \in Procs \ {p} : outcome'[q] = outcome[q]
      BY <1>1, OnlyOneMoves
    <2>2. outcome'[p] = "error" =>
             outcome[p] = "error" \/ LayersOf[img[p]] = <<>>
      <3> USE DEF TypeOK, Goto, GotoWith, Return
      <3>1. CASE MountWorkdir(p)
        <4>1. AllCached(Parents(p))
          BY <3>1 DEF MountWorkdir, Resolved
        <4> QED
          BY <3>1, <4>1 DEF MountWorkdir
      <3>2. CASE MountRootfs(p)
        <4>1. AllCached(LayersOf[img[p]])
          BY <3>2 DEF MountRootfs, Resolved
        <4> QED
          BY <3>2, <4>1 DEF MountRootfs
      <3>3. CASE RemoveWorkdir(p)
        <4>1. err[p] # "error"
          BY DEF Resolved
        <4> QED
          BY <3>3, <4>1 DEF RemoveWorkdir, NextLayer
      <3>4. CASE RemoveBundle(p)
        <4>1. err[p] # "error"
          BY DEF Resolved
        <4> QED
          BY <3>4, <4>1 DEF RemoveBundle
      <3>5. CASE \/ StatCached(p) \/ MakeWorkdir(p) \/ Apply(p)
                 \/ LstatRename(p) \/ Rename(p) \/ UnmountWorkdir(p)
                 \/ MakeBundle(p) \/ MountTmpfs(p) \/ WriteSpec(p)
                 \/ Finish(p) \/ UnmountRootfs(p) \/ UnmountTmpfs(p)
        BY <3>5 DEF StatCached, NextLayer, MakeWorkdir, Apply, LstatRename,
                    Rename, UnmountWorkdir, MakeBundle, MountTmpfs, WriteSpec,
                    Finish, UnmountRootfs, UnmountTmpfs
      <3>6. CASE Failure(p)
        BY <3>6 DEF Failure, ResolveFails, ApplyFails, CleanupWorkdirFails,
                    BootstrapFails, MountRootfsFails, WriteSpecFails,
                    CleanupFails, Kill
      <3> QED
        BY <1>1, <3>1, <3>2, <3>3, <3>4, <3>5, <3>6 DEF ResolveStep, BundleStep
    <2>3. LayersOf[img[p]] = <<>> => Len(LayersOf[img[p]]) \notin 1 .. MaxLayers
      BY MaxLayersAssumption
    <2> QED
      BY <2>1, <2>2, <2>3
  <1>2. ASSUME NEW p \in Procs, NEW i \in Images, Bundle(p, i)
        PROVE  BundleSucceeds'
    <2>1. \A q \in Procs \ {p} : img'[q] = img[q] /\ outcome'[q] = outcome[q]
      BY <1>2, BeginTyped
    <2>2. /\ img'[p] = i
          /\ outcome'[p] = "error" => Len(LayersOf[i]) > MaxLayers
      BY <1>2 DEF TypeOK, Bundle
    <2>3. Len(LayersOf[i]) > MaxLayers => Len(LayersOf[i]) \notin 1 .. MaxLayers
      BY <1>0, MaxLayersAssumption
    <2> QED
      BY <2>1, <2>2, <2>3
  <1>3. CASE UNCHANGED vars
    BY <1>3 DEF vars
  <1>4. CASE Next
    BY <1>1, <1>2, <1>4 DEF Next
  <1> QED
    BY <1>3, <1>4

\* An overlay of cached layers shows each file that one of them touches, or
\* none, as the layer has it: a cached layer says nothing of other files, and
\* a whiteout hides nothing but what it was made for.
LEMMA ShowsOwnFiles ==
    ASSUME CachedLayerWhole, NEW layers \in Seq(Layers), AllCached(layers)
    PROVE  HasOwnFiles(layers, Show(Cached(layers)))
  <1> DEFINE stack == Cached(layers)
             at(f) == {i \in DOMAIN layers : f \in Touches(layers[i])}
             has(f) == {i \in DOMAIN stack : stack[i][f] # Nothing}
             first(f) == {i \in has(f) : \A j \in has(f) : i <= j}
             last(f) == CHOOSE i \in at(f) : \A j \in at(f) : j <= i
  <1> SUFFICES ASSUME NEW f \in Files, \A i, j \in at(f) : i = j
               PROVE  Show(stack)[f] = Flatten(layers)[f]
    BY DEF HasOwnFiles
  <1>1. DOMAIN layers \subseteq Nat /\ DOMAIN stack = DOMAIN layers
    BY DEF Cached
  <1>2. Show(stack)[f] = IF \E i \in first(f) : stack[i][f] # Whiteout
                         THEN stack[CHOOSE i \in first(f) : TRUE][f]
                         ELSE Nothing
    BY DEF Show
  <1>3. Flatten(layers)[f] = IF at(f) # {} /\ f \in Adds[layers[last(f)]]
                             THEN layers[last(f)] ELSE Nothing
    BY DEF Flatten
  <1>4. ASSUME NEW i \in DOMAIN layers
        PROVE  /\ layers[i] \in Layers
               /\ stack[i][f] = layers[i] <=> f \in Adds[layers[i]]
               /\ stack[i][f] \in {layers[i], Nothing, Whiteout}
               /\ stack[i][f] = Whiteout => f \in Dels[layers[i]]
    BY DEF CachedLayerWhole, IsWhole, AllCached, Cached
  <1>5. has(f) \subseteq at(f)
    BY <1>1, <1>4 DEF Touches
  <1> HIDE DEF stack
  <1>6. CASE \E k \in at(f) : f \in Adds[layers[k]]
    <2>1. PICK k \in at(f) : f \in Adds[layers[k]]
      BY <1>6
    <2>2. at(f) = {k} /\ k \in Nat /\ k \in DOMAIN layers
      BY <1>1, <2>1
    <2>3. last(f) = k
      BY <2>2
    <2>4. stack[k][f] = layers[k] /\ layers[k] # Nothing /\ layers[k] # Whiteout
      BY <1>4, <2>1, <2>2, ContentAssumption
    <2>5. has(f) = {k}
      BY <1>1, <1>5, <2>2, <2>4
    <2>6. first(f) = {k}
      BY <2>2, <2>5
    <2>7. (CHOOSE i \in first(f) : TRUE) = k
      BY <2>6
    <2>8. Show(stack)[f] = layers[k]
      <3> HIDE DEF first
      <3> QED
        BY <1>2, <2>4, <2>6, <2>7
    <2>9. Flatten(layers)[f] = layers[k]
      <3> HIDE DEF at, last
      <3> QED
        BY <1>3, <2>1, <2>2, <2>3
    <2> QED
      BY <2>8, <2>9
  <1>7. CASE \A k \in at(f) : f \notin Adds[layers[k]]
    <2>1. \A i \in has(f) : stack[i][f] = Whiteout
      BY <1>1, <1>4, <1>5, <1>7
    <2>2. Show(stack)[f] = Nothing
      BY <1>2, <2>1
    <2>3. at(f) # {} => last(f) \in at(f)
      <3>1. ASSUME NEW k \in at(f)
            PROVE  k \in Nat /\ \A j \in at(f) : j <= k
        BY <1>1
      <3> QED
        BY <3>1
    <2>4. Flatten(layers)[f] = Nothing
      <3> HIDE DEF at, last
      <3> QED
        BY <1>3, <1>7, <2>3
    <2> QED
      BY <2>2, <2>4
  <1> QED
    BY <1>6, <1>7

\* A root filesystem is mounted over all of its image's layers, and stays
\* what it is until it is unmounted.
LEMMA MountedNext ==
    ASSUME TypeOK, Resolved, CachedLayerWhole, Mounted, [Next]_vars
    PROVE  Mounted'
  <1> USE DEF Mounted
  <1>1. ASSUME NEW p \in Procs, ResolveStep(p) \/ BundleStep(p) \/ Failure(p)
        PROVE  Mounted'
    <2>1. /\ UNCHANGED img
          /\ \A q \in Procs \ {p} : pc'[q] = pc[q] /\ rootfs'[q] = rootfs[q]
      BY <1>1, OnlyOneMoves
    <2>2. pc'[p] \in {"spec", "ready"} => HasOwnFiles(LayersOf[img[p]], rootfs'[p])
      <3>1. CASE MountRootfs(p)
        <4>1. LayersOf[img[p]] \in Seq(Layers)
          BY LayersOfAssumption DEF TypeOK
        <4>2. AllCached(LayersOf[img[p]])
          BY <3>1 DEF MountRootfs, Resolved
        <4>3. HasOwnFiles(LayersOf[img[p]], Show(Cached(LayersOf[img[p]])))
          BY <4>1, <4>2, ShowsOwnFiles
        <4>4. pc'[p] = "spec" => rootfs'[p] = Show(Cached(LayersOf[img[p]]))
          BY <3>1 DEF MountRootfs, Return, TypeOK
        <4>5. pc'[p] \in {"spec", "idle"}
          BY <3>1 DEF MountRootfs, Goto, Return, TypeOK
        <4> QED
          BY <4>3, <4>4, <4>5
      <3>2. CASE WriteSpec(p)
        BY <3>2 DEF WriteSpec, bundle_vars
      <3>3. CASE ~ MountRootfs(p) /\ ~ WriteSpec(p)
        <4>1. pc'[p] \notin {"spec", "ready"}
          BY <1>1, <3>3 DEF TypeOK, ResolveStep, StatCached, MakeWorkdir,
             MountWorkdir, Apply, LstatRename, Rename, UnmountWorkdir,
             RemoveWorkdir, NextLayer, BundleStep, MakeBundle, MountTmpfs,
             Finish, UnmountRootfs, UnmountTmpfs, RemoveBundle, Failure,
             ResolveFails, ApplyFails, CleanupWorkdirFails, BootstrapFails,
             MountRootfsFails, WriteSpecFails, CleanupFails, Kill, Goto,
             GotoWith, Return
        <4> QED
          BY <4>1
      <3> QED
        BY <3>1, <3>2, <3>3
    <2> QED
      BY <2>1, <2>2 DEF HasOwnFiles
  <1>2. ASSUME NEW p \in Procs, NEW i \in Images, Bundle(p, i)
        PROVE  Mounted'
    <2>1. \A q \in Procs \ {p} :
             pc'[q] = pc[q] /\ img'[q] = img[q] /\ rootfs'[q] = rootfs[q]
      BY <1>2 DEF TypeOK, Bundle
    <2>2. pc'[p] \notin {"spec", "ready"}
      BY <1>2 DEF TypeOK, Bundle
    <2> QED
      BY <2>1, <2>2 DEF HasOwnFiles
  <1>3. CASE UNCHANGED vars
    BY <1>3 DEF vars, bundle_vars, HasOwnFiles
  <1>4. CASE Next
    BY <1>1, <1>2, <1>4 DEF Next
  <1> QED
    BY <1>3, <1>4

\* Nothing is cached and nobody holds anything in the beginning.
LEMMA InitInv == Init => Inv
  <1> SUFFICES ASSUME Init
               PROVE  Inv
    OBVIOUS
  <1>1. EmptyDir \in Dirs /\ <<>> \in Seq(Dirs)
    BY DEF EmptyDir, Dirs
  <1>2. TypeOK
    BY <1>1 DEF Init, TypeOK
  <1>3. Held /\ Extracted /\ Resolved
    BY DEF Init, Held, Extracted, Resolved
  <1>5. Mounted
    BY DEF Init, Mounted
  <1>4. CachedLayerWhole /\ BundleSucceeds /\ NothingLeft
    BY DEF Init, CachedLayerWhole, BundleSucceeds, NothingLeft
  <1> QED
    BY <1>2, <1>3, <1>4, <1>5 DEF Inv

LEMMA InvNext == Inv /\ [Next]_vars => Inv'
  BY TypeNext, HeldNext, ExtractedNext, ResolvedNext, WholeNext, SucceedsNext,
     MountedNext DEF Inv

\* The invariant of the overlay store, with any number of sparks at work and
\* any of them failing or killed at any point: every variable has its type, a
\* process holds what its point in Bundle says, and the three properties below.
THEOREM Invariance == Spec => []Inv
  BY InitInv, InvNext, PTL DEF Spec

\* A cached layer is always the whole of its tarball (Resolve's rename).
THEOREM LayersWhole == Spec => []CachedLayerWhole
  <1>1. Inv => CachedLayerWhole
    BY DEF Inv
  <1> QED
    BY <1>1, Invariance, PTL

\* Whoever loses a race, a bundle fails only if a system call fails or the
\* image has no layer or too many (Resolve's comment on callers that race).
THEOREM Succeeds == Spec => []BundleSucceeds
  <1>1. Inv => BundleSucceeds
    BY DEF Inv
  <1> QED
    BY <1>1, Invariance, PTL

\* Every error path of Resolve, BootstrapBundle and Bundle takes down what was
\* made before, if it can.
THEOREM NoneLeft == Spec => []NothingLeft
  <1>1. Inv => NothingLeft
    BY DEF Inv
  <1> QED
    BY <1>1, Invariance, PTL

\* What no two layers of an image touch a container sees as the image has it,
\* whoever extracted the layers and over whatever parents (MountRootfs,
\* Resolve).
THEOREM OwnFilesSeen == Spec => []RootfsHasOwnFiles
  <1>1. Inv => RootfsHasOwnFiles
    BY DEF Inv, Mounted, RootfsHasOwnFiles
  <1> QED
    BY <1>1, Invariance, PTL

\* A cached layer is never changed again unless it is empty: neither a late
\* rename nor LayerWorkdir.Cleanup reaches what containers run on.
THEOREM LayersKept == Spec => CachedLayerKept
  <1>1. Inv /\ [Next]_vars =>
           [\A l \in Layers :
              /\ over[l] # Missing => over'[l] # Missing
              /\ over[l] \notin {Missing, EmptyDir} => over'[l] = over[l]]_vars
    BY CacheKept DEF Inv
  <1> QED
    BY <1>1, Invariance, PTL DEF Spec, CachedLayerKept

-----------------------------------------------------------------------------
(* The processes implement a LayerCache.                                   *)

\* What the abstract cache sees of a step that leaves it alone.
LEMMA Invisible ==
    ASSUME UNCHANGED <<over, img, bundle_vars>>
    PROVE  [Cache!Next]_(Cache!vars)
  BY DEF bundle_vars, Cache!vars, Roots

\* A process that no longer has its bundle mounted has released its root.
LEMMA Releases ==
    ASSUME TypeOK, UNCHANGED <<over, img, rootfs>>, NEW p \in Procs, NEW b,
           bundle' = [bundle EXCEPT ![p] = b], b = "rootfs" => bundle[p] = "rootfs"
    PROVE  [Cache!Next]_(Cache!vars)
  <1>1. bundle \in [Procs -> {"none", "made", "tmpfs", "rootfs"}]
    BY DEF TypeOK
  <1>2. CASE b = "rootfs"
    <2>1. UNCHANGED bundle
      BY <1>1, <1>2
    <2> QED
      BY <2>1, Invisible DEF bundle_vars
  <1>3. CASE b # "rootfs"
    <2>1. Roots' = [Roots EXCEPT ![p] = Missing]
      BY <1>1, <1>3 DEF Roots
    <2>2. Cache!Release(p)
      BY <2>1 DEF Cache!Release
    <2> QED
      BY <2>2 DEF Cache!Next
  <1> QED
    BY <1>2, <1>3

\* The rename publishes a layer, if it is the first.
LEMMA RenameRefines ==
    ASSUME Inv, NEW p \in Procs, Rename(p)
    PROVE  [Cache!Next]_(Cache!vars)
  <1>1. pc[p] = "rename" /\ over \in [Layers -> Dirs \cup {Missing}]
    BY DEF Rename, Inv, TypeOK
  <1>2. UNCHANGED <<img, bundle_vars>>
    BY DEF Rename, Goto, OnlyResolves
  <1>3. Layer(p) \in Layers
    BY <1>1, LayerType DEF Inv
  <1>4. upper[p] = Upper(Layer(p), lower[p])
    BY <1>1 DEF Inv, Extracted
  <1>5. upper[p] \in Dirs /\ IsWhole(Layer(p), upper[p])
    BY <1>3, <1>4, UpperType, UpperWhole
  <1>6. CASE over[Layer(p)] \in {Missing, EmptyDir}
    <2>1. over' = [over EXCEPT ![Layer(p)] = upper[p]]
      BY <1>1, <1>3, <1>6 DEF Rename
    <2>2. UNCHANGED Roots
      BY <1>2 DEF Roots, bundle_vars
    <2>3. Cache!IsWhole(Layer(p), upper[p]) /\ upper[p] \in Cache!Dirs
      BY <1>5 DEF Cache!IsWhole, IsWhole, Cache!Dirs, Dirs
    <2>4. over[Layer(p)] \in {Missing, Cache!EmptyDir}
      BY <1>6 DEF Cache!EmptyDir, EmptyDir
    <2>5. Cache!Publish(Layer(p))
      BY <1>2, <2>1, <2>2, <2>3, <2>4 DEF Cache!Publish
    <2> QED
      BY <1>3, <2>5 DEF Cache!Next
  <1>7. CASE over[Layer(p)] \notin {Missing, EmptyDir}
    <2>1. UNCHANGED over
      BY <1>1, <1>7 DEF Rename
    <2> QED
      BY <1>2, <2>1, Invisible
  <1> QED
    BY <1>6, <1>7

LEMMA ResolveRefines ==
    ASSUME Inv, NEW p \in Procs, ResolveStep(p)
    PROVE  [Cache!Next]_(Cache!vars)
  <1>1. CASE RemoveWorkdir(p)
    <2>1. work[p] # "mounted"
      BY <1>1 DEF Inv, RemoveWorkdir, Held, WorkAt
    <2>2. UNCHANGED <<over, img, bundle_vars>>
      BY <1>1, <2>1 DEF RemoveWorkdir, NextLayer, Goto, Return, OnlyResolves
    <2> QED
      BY <2>2, Invisible
  <1>2. CASE ~ Rename(p) /\ ~ RemoveWorkdir(p)
    <2>1. UNCHANGED <<over, img, bundle_vars>>
      BY <1>2 DEF ResolveStep, StatCached, MakeWorkdir, MountWorkdir, Apply,
         LstatRename, UnmountWorkdir, NextLayer, Goto, Return, OnlyResolves
    <2> QED
      BY <2>1, Invisible
  <1> QED
    BY <1>1, <1>2, RenameRefines

\* The root filesystem is mounted over whole layers.
LEMMA MountRefines ==
    ASSUME Inv, NEW p \in Procs, MountRootfs(p)
    PROVE  [Cache!Next]_(Cache!vars)
  <1> DEFINE layers == LayersOf[img[p]]
  <1>1. CASE layers # <<>> /\ AllCached(layers)
    <2>1. /\ bundle' = [bundle EXCEPT ![p] = "rootfs"]
          /\ rootfs' = [rootfs EXCEPT ![p] = Show(Cached(layers))]
          /\ UNCHANGED <<over, img>>
      BY <1>1 DEF MountRootfs, Goto, OnlyBundles
    <2>2. bundle[p] = "tmpfs"
      BY DEF MountRootfs, Inv, Held, BundleAt
    <2>3. Cache!Show(Cached(layers)) = Show(Cached(layers))
      BY DEF Cache!Show, Show
    <2>4. Cached(layers) = [k \in DOMAIN layers |-> over[layers[k]]]
      BY DEF Cached
    <2>5. \A k \in DOMAIN layers : over[layers[k]] # Missing
      BY <1>1 DEF AllCached
    <2> HIDE DEF layers
    <2>6. Roots[p] = Missing
      BY <2>2 DEF Roots
    <2>7. Roots' = [Roots EXCEPT ![p] = Show(Cached(layers))]
      BY <2>1 DEF Roots, Inv, TypeOK
    <2>8. Cache!Mount(p)
      BY <2>1, <2>3, <2>4, <2>5, <2>6, <2>7 DEF Cache!Mount, layers
    <2> QED
      BY <2>8 DEF Cache!Next
  <1>2. CASE ~ (layers # <<>> /\ AllCached(layers))
    <2>1. UNCHANGED <<over, img, bundle_vars>>
      BY <1>2 DEF MountRootfs, Return, OnlyBundles
    <2> QED
      BY <2>1, Invisible
  <1> QED
    BY <1>1, <1>2

LEMMA BundleRefines ==
    ASSUME Inv, NEW p \in Procs, BundleStep(p)
    PROVE  [Cache!Next]_(Cache!vars)
  <1>1. CASE MakeBundle(p)
    BY <1>1, Releases DEF Inv, MakeBundle, SetBundle, Goto, OnlyBundles
  <1>2. CASE MountTmpfs(p)
    BY <1>2, Releases DEF Inv, MountTmpfs, SetBundle, Goto, OnlyBundles
  <1>3. CASE WriteSpec(p) \/ Finish(p)
    BY <1>3, Invisible DEF WriteSpec, Finish, Goto, OnlyBundles
  <1>4. CASE UnmountRootfs(p)
    BY <1>4, Releases DEF Inv, UnmountRootfs, SetBundle, Goto, OnlyBundles
  <1>5. CASE UnmountTmpfs(p)
    BY <1>5, Releases DEF Inv, UnmountTmpfs, SetBundle, Goto, OnlyBundles
  <1>6. CASE RemoveBundle(p)
    BY <1>6, Releases DEF Inv, RemoveBundle, SetBundle, Return, OnlyBundles
  <1> QED
    BY <1>1, <1>2, <1>3, <1>4, <1>5, <1>6, MountRefines DEF BundleStep

\* A failed step publishes and mounts nothing.
LEMMA FailureRefines ==
    ASSUME Inv, NEW p \in Procs, Failure(p)
    PROVE  [Cache!Next]_(Cache!vars)
  <1>1. CASE Kill(p)
    <2> DEFINE b == IF bundle[p] = "none" THEN bundle[p] ELSE "made"
    <2>1. bundle' = [bundle EXCEPT ![p] = b] /\ b # "rootfs"
      BY <1>1 DEF Kill
    <2>2. UNCHANGED <<over, img, rootfs>>
      BY <1>1 DEF Kill, Untouched, Return
    <2> HIDE DEF b
    <2> QED
      BY <2>1, <2>2, Releases DEF Inv
  <1>2. CASE BootstrapFails(p)
    BY <1>2, Releases DEF Inv, BootstrapFails, SetBundle, Return, OnlyBundles
  <1>3. CASE ~ Kill(p) /\ ~ BootstrapFails(p)
    <2>1. UNCHANGED <<over, img, bundle_vars>>
      BY <1>3 DEF Failure, ResolveFails, ApplyFails, CleanupWorkdirFails,
         MountRootfsFails, WriteSpecFails, CleanupFails, Return, GotoWith,
         Untouched, OnlyResolves, OnlyBundles
    <2> QED
      BY <2>1, Invisible
  <1> QED
    BY <1>1, <1>2, <1>3

LEMMA BeginRefines ==
    ASSUME Inv, NEW p \in Procs, NEW i \in Images, Bundle(p, i)
    PROVE  [Cache!Next]_(Cache!vars)
  <1>1. /\ img' = [img EXCEPT ![p] = i] /\ UNCHANGED over
        /\ bundle' = [bundle EXCEPT ![p] = "none"]
        /\ rootfs' = [rootfs EXCEPT ![p] = EmptyDir]
    BY DEF Bundle
  <1>2. Roots' = [Roots EXCEPT ![p] = Missing]
    BY <1>1 DEF Roots, Inv, TypeOK
  <1>3. Cache!Ask(p, i)
    BY <1>1, <1>2 DEF Cache!Ask
  <1> QED
    BY <1>3 DEF Cache!Next

LEMMA LayerCacheInit == Init => Cache!Init
  BY DEF Init, Cache!Init, Roots

LEMMA LayerCacheNext == Inv /\ [Next]_vars => [Cache!Next]_(Cache!vars)
  <1> SUFFICES ASSUME Inv, [Next]_vars
               PROVE  [Cache!Next]_(Cache!vars)
    OBVIOUS
  <1>1. CASE UNCHANGED vars
    BY <1>1, Invisible DEF vars, bundle_vars
  <1> QED
    BY <1>1, BeginRefines, ResolveRefines, BundleRefines, FailureRefines DEF Next

\* The processes, their failures and their kills included, implement a cache
\* of whole layers that are never replaced, over which each mounts the root
\* filesystem of the image it was asked for (Resolve, BootstrapBundle).
THEOREM ImplementsLayerCache == Spec => LayerCacheSpec
  BY Invariance, LayerCacheInit, LayerCacheNext, PTL
  DEF Spec, LayerCacheSpec, Cache!Spec
=============================================================================
