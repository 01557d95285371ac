---------------------- MODULE UncompressedBundlerProofs ----------------------
(***************************************************************************)
(* What is proved of UncompressedBundler, for any images, of any number of *)
(* layers and entries.                                                     *)
(***************************************************************************)
EXTENDS UncompressedBundler, FlatteningProofs

-----------------------------------------------------------------------------
(* Types.                                                                  *)

LEMMA EmptyIsTree == IsTree(Empty)
  <1>1. Empty \in [Paths -> Nodes]
    BY DEF Empty, Nodes
  <1>2. ASSUME NEW p \in Paths PROVE Kind(Empty, p) = "none"
    <2>1. p # <<>>
      BY PathsAre
    <2> QED
      BY <2>1 DEF Kind, Empty, None
  <1> QED
    BY <1>1, <1>2 DEF IsTree

LEMMA ImageType == TypeOK => image \in Seq(Seq(AllEntries))
  <1>1. <<>> \in Seq(Seq(AllEntries))
    OBVIOUS
  <1>2. TypeOK => image \in Images \/ image = <<>>
    BY DEF TypeOK
  <1> QED
    BY <1>1, <1>2, EntryAssumption

LEMMA NoLayers == 1 \in 1 .. Len(<<>>) + 1
  OBVIOUS

LEMMA EntryType ==
    ASSUME TypeOK, pc = "apply", pos <= Len(image[layer])
    PROVE  Entry \in AllEntries /\ layer \in Nat
  <1>1. /\ image \in Seq(Seq(AllEntries)) /\ layer \in DOMAIN image
        /\ pos \in 1 .. Len(image[layer]) + 1
    BY ImageType DEF TypeOK
  <1>2. image[layer] \in Seq(AllEntries) /\ layer \in Nat
    BY <1>1
  <1>3. pos \in 1 .. Len(image[layer])
    BY <1>1, <1>2
  <1> QED
    BY <1>2, <1>3 DEF Entry

LEMMA TypeInit == Init => TypeOK
  BY EmptyIsTree, NoLayers DEF Init, TypeOK, Running

\* The tree is changed entry by entry.
LEMMA ApplyEntryType ==
    ASSUME TypeOK, ApplyEntry
    PROVE  TypeOK'
  <1>1. pc = "apply" /\ pos <= Len(image[layer]) /\ ~ Refuses(tree, handled, Entry)
    BY DEF ApplyEntry
  <1>2. Entry \in AllEntries /\ layer \in Nat
    BY <1>1, EntryType
  <1>3. IsTree(tree) /\ handled \in SUBSET Paths
    BY DEF TypeOK
  <1>4. IsTree(tree') /\ handled' \in SUBSET Paths
    BY <1>1, <1>2, <1>3, HandleKeepsTree DEF ApplyEntry
  <1>5. own' \subseteq Paths /\ links' \subseteq Paths
    <2>1. Target(tree, Entry) \in Paths
      BY <1>2, <1>3, TargetType
    <2>2. Followed(tree, Parent(Entry.path)) \subseteq Paths
      BY <1>2, <1>3, DirectoryType, FollowedType
    <2> QED
      BY <2>1, <2>2 DEF ApplyEntry, TypeOK
  <1>6. doubts' \in SUBSET {"order", "link", "mode", "stale", "hard"}
    BY DEF ApplyEntry, TypeOK, Doubts
  <1>7. pos' \in 1 .. Len(image[layer]) + 1
    <2>1. image[layer] \in Seq(AllEntries) /\ pos \in 1 .. Len(image[layer]) + 1
      BY <1>1, ImageType DEF TypeOK
    <2> QED
      BY <1>1, <2>1 DEF ApplyEntry
  <1> QED
    BY <1>4, <1>5, <1>6, <1>7 DEF ApplyEntry, TypeOK

LEMMA TypeNext == TypeOK /\ [Next]_vars => TypeOK'
  <1> SUFFICES ASSUME TypeOK, [Next]_vars PROVE TypeOK'
    OBVIOUS
  <1> USE DEF Goto, Return, OnlyPc, at_vars, seen_vars, Running
  <1>0. image \in Seq(Seq(AllEntries))
    BY ImageType
  <1>1. CASE \E i \in Images : Bundle(i) \/ Resolve(i)
    <2>1. PICK i \in Images : Bundle(i) \/ Resolve(i)
      BY <1>1
    <2>2. i \in Seq(Seq(AllEntries))
      BY EntryAssumption
    <2>3. 1 \in 1 .. Len(i) + 1
      BY <2>2
    <2> QED
      BY <2>1, <2>3 DEF Bundle, Resolve, Begin, TypeOK
  <1>2. CASE MakeRootFS \/ Validate \/ WriteSpec \/ Finish
    BY <1>2 DEF MakeRootFS, Validate, WriteSpec, Finish, TypeOK
  <1>3. CASE OpenLayer
    <2>1. ASSUME layer <= Len(image)
          PROVE  layer \in DOMAIN image /\ 1 \in 1 .. Len(image[layer]) + 1
      <3>1. layer \in 1 .. Len(image)
        BY <1>0, <2>1 DEF TypeOK
      <3>2. image[layer] \in Seq(AllEntries)
        BY <1>0, <3>1
      <3>3. Len(image[layer]) \in Nat
        BY <3>2
      <3> QED
        BY <1>0, <3>1, <3>3
    <2> QED
      BY <1>3, <2>1 DEF OpenLayer, TypeOK
  <1>4. CASE ApplyEntry
    BY <1>4, ApplyEntryType
  <1>5. CASE ApplyFails \/ Applied
    BY <1>5 DEF ApplyFails, Applied, TypeOK
  <1>6. CASE CloseLayer
    <2>1. layer + 1 \in 1 .. Len(image) + 1
      BY <1>0, <1>6 DEF CloseLayer, TypeOK
    <2> QED
      BY <1>6, <2>1 DEF CloseLayer, TypeOK
  <1>7. CASE Cleanup
    BY <1>7, EmptyIsTree DEF Cleanup, TypeOK
  <1>8. CASE StepFails \/ CleanupFails \/ Kill
    <2>1. CASE StepFails
      <3>1. bundle' \in BOOLEAN
        BY <2>1 DEF StepFails, TypeOK
      <3> QED
        BY <2>1, <3>1 DEF StepFails, TypeOK
    <2>2. CASE CleanupFails \/ Kill
      BY <2>2 DEF CleanupFails, Kill, TypeOK
    <2> QED
      BY <1>8, <2>1, <2>2
  <1>9. CASE NextCall
    BY <1>9, EmptyIsTree, NoLayers DEF NextCall, TypeOK
  <1>10. CASE UNCHANGED vars
    BY <1>10 DEF vars, TypeOK
  <1> QED
    BY <1>1, <1>2, <1>3, <1>4, <1>5, <1>6, <1>7, <1>8, <1>9, <1>10 DEF Next, Step

\* The root filesystem is a tree all the time, whatever tarballs are extracted
\* and whatever links they hold: every file is in a directory, and what is
\* handled is a path of it (StackingExtractor.Apply, ExtractHandler.Handle,
\* WhiteoutHandler.Handle).
THEOREM TypeCorrect == Spec => []TypeOK
  BY TypeInit, TypeNext, PTL DEF Spec

-----------------------------------------------------------------------------
(* What a call leaves.                                                     *)

LEMMA InvInit == Init => Inv
  <1>1. Init => NoneBefore /\ LayersStacked /\ EntriesPut /\ NothingLeft
    BY DEF Init, NoneBefore, LayersStacked, EntriesPut, NothingLeft
  <1> QED
    BY <1>1, TypeInit DEF Inv

\* Every step of a call leaves nothing behind.
LEMMA StepLeaves ==
    ASSUME Inv, Step
    PROVE  NoneBefore' /\ NothingLeft'
  <1> USE DEF Inv, NoneBefore, LayersStacked, NothingLeft, Goto, Return, OnlyPc,
              at_vars, seen_vars
  <1>1. CASE MakeRootFS
    BY <1>1 DEF MakeRootFS
  <1>2. CASE Validate
    BY <1>2 DEF Validate
  <1>3. CASE OpenLayer
    BY <1>3 DEF OpenLayer
  <1>4. CASE ApplyEntry
    BY <1>4 DEF ApplyEntry
  <1>5. CASE ApplyFails \/ Applied \/ CloseLayer \/ WriteSpec \/ Finish
    BY <1>5 DEF ApplyFails, Applied, CloseLayer, WriteSpec, Finish
  <1>6. CASE Cleanup
    BY <1>6 DEF Cleanup
  <1> QED
    BY <1>1, <1>2, <1>3, <1>4, <1>5, <1>6 DEF Step

\* So does its start, every failure, and a kill.
LEMMA OthersLeave ==
    ASSUME Inv,
           \/ \E i \in Images : Bundle(i) \/ Resolve(i)
           \/ StepFails \/ CleanupFails \/ Kill \/ NextCall
    PROVE  NoneBefore' /\ NothingLeft'
  <1> USE DEF Inv, NoneBefore, LayersStacked, NothingLeft, Goto, Return, OnlyPc,
              at_vars, seen_vars
  <1>1. CASE \E i \in Images : Bundle(i) \/ Resolve(i)
    BY <1>1 DEF Bundle, Resolve, Begin
  <1>2. CASE StepFails
    BY <1>2 DEF StepFails, Running
  <1>3. CASE CleanupFails \/ Kill
    BY <1>3 DEF CleanupFails, Kill
  <1>4. CASE NextCall
    BY <1>4 DEF NextCall
  <1> QED
    BY <1>1, <1>2, <1>3, <1>4

-----------------------------------------------------------------------------
(* What is extracted.                                                      *)

\* An entry that is no whiteout and in no doubt is put on top.
LEMMA EntryIsPut ==
    ASSUME Inv, ApplyEntry, doubts' = {}, ~ IsWhiteout(Entry)
    PROVE  EntriesPut'
  <1> DEFINE tarball == image[layer]
  <1> DEFINE f == Puts(RemoveAll(lower, Gone(lower, tarball, pos - 1)), tarball, layer)
  <1> DEFINE p == PutAt(tree, Entry)
  <1>1. /\ pc = "apply" /\ pos <= Len(tarball) /\ ~ Refuses(tree, handled, Entry)
        /\ tree' = Extract(tree, Entry, layer)
        /\ handled' = handled \cup {Target(tree, Entry)}
        /\ own' = own \cup {Target(tree, Entry)}
        /\ links' = links \cup (Followed(tree, Parent(Entry.path)) \ own)
        /\ pos' = pos + 1 /\ doubts = {} /\ Doubts(Entry) = {}
        /\ UNCHANGED <<image, layer, lower>>
    BY DEF ApplyEntry, Handle, Remember
  <1>2. /\ TypeOK /\ IsTree(tree) /\ Entry \in AllEntries
        /\ tarball \in Seq(AllEntries) /\ pos \in 1 .. Len(tarball) /\ pos - 1 \in Nat
    <2>1. TypeOK /\ IsTree(tree) /\ layer \in DOMAIN image /\ pos \in 1 .. Len(tarball) + 1
      BY <1>1 DEF Inv, TypeOK
    <2>2. image \in Seq(Seq(AllEntries)) /\ Entry \in AllEntries
      BY <1>1, <2>1, ImageType, EntryType
    <2>3. tarball \in Seq(AllEntries)
      BY <2>1, <2>2
    <2> HIDE DEF tarball
    <2>4. pos \in 1 .. Len(tarball) /\ pos - 1 \in Nat
      BY <1>1, <2>1, <2>3
    <2> QED
      BY <2>1, <2>2, <2>3, <2>4
  <1>3. /\ tree = f[pos - 1]
        /\ own = Own(f, tarball, pos - 1) /\ own \subseteq handled
        /\ \A k \in 1 .. pos - 1 : Clean(f, tarball, k, links)
    BY <1>1 DEF Inv, EntriesPut
  <1>4. ~ OverLink(Entry) /\ ~ OtherMode(Entry) /\ Entry.kind # "hardlink"
    BY <1>1 DEF Doubts
  <1>5. ~ CannotExtract(tree, Entry) /\ ~ Blocked(tree, Target(tree, Entry))
    BY <1>1 DEF Refuses, IsWhiteout
  <1>6. Target(tree, Entry) = p /\ Extract(tree, Entry, layer) = Put(tree, Entry, layer)
    <2>1. /\ Kind(tree, p) # "link"
          /\ Entry.kind = "file" => Kind(tree, p) # "fifo"
      BY <1>4 DEF OverLink
    <2>2. Entry.kind = "file" /\ Kind(tree, Target(tree, Entry)) = "file" =>
             tree[Target(tree, Entry)].mode = Entry.mode
      BY <1>4 DEF OtherMode
    <2> QED
      BY <1>2, <1>4, <1>5, <2>1, <2>2, PutIsExtract
  <1>7. Entry = tarball[pos]
    BY DEF Entry
  <1> DEFINE n == pos - 1
  <1>8. n + 1 = pos /\ n = pos - 1 /\ (pos + 1) - 1 = pos /\ pos \in Nat /\ pos > 0
    BY <1>2
  <1>9. f[pos] = Put(tree, Entry, layer)
    BY <1>2, <1>3, <1>7, PutsStep
  <1>10. Own(f, tarball, pos) = own \cup {p}
    <2> HIDE DEF f, tarball
    <2> QED
      BY <1>3, <1>7, <1>8, OwnStep
  <1>11. Gone(lower, tarball, pos) = Gone(lower, tarball, pos - 1)
    <2> HIDE DEF tarball
    <2> QED
      BY <1>7, <1>8, GoneStep
  <1>12. ASSUME NEW k \in 1 .. pos PROVE Clean(f, tarball, k, links')
    <2>1. CASE k \in 1 .. pos - 1
      <3>1. Clean(f, tarball, k, links) /\ links \subseteq links'
        BY <1>1, <1>3, <2>1
      <3> HIDE DEF f, tarball
      <3> QED
        BY <3>1 DEF Clean
    <2>2. CASE k = pos
      <3>1. Followed(tree, Parent(Entry.path)) \subseteq links' \cup own
        BY <1>1
      <3> HIDE DEF f, tarball
      <3> QED
        BY <1>2, <1>3, <1>4, <1>5, <1>6, <1>7, <2>2, <3>1 DEF Clean, p
    <2> QED
      BY <1>8, <2>1, <2>2
  <1>13. own' = own \cup {p} /\ own' \subseteq handled' /\ tree' = f[pos]
    BY <1>1, <1>3, <1>6, <1>9
  <1>14. f = Puts(RemoveAll(lower', Gone(lower', image'[layer'], pos' - 1)), image'[layer'], layer')
    BY <1>1, <1>8, <1>11
  <1>15. pos' - 1 = pos /\ image'[layer'] = tarball
    BY <1>1, <1>8
  <1> HIDE DEF f, tarball, p
  <1> QED
    BY <1>10, <1>12, <1>13, <1>14, <1>15 DEF EntriesPut

\* A whiteout in no doubt deletes what it would if it came first.
LEMMA WhiteoutIsPut ==
    ASSUME Inv, ApplyEntry, doubts' = {}, IsWhiteout(Entry), TypeOK'
    PROVE  EntriesPut'
  <1> DEFINE tarball == image[layer]
  <1> DEFINE D == Gone(lower, tarball, pos - 1)
  <1> DEFINE f == Puts(RemoveAll(lower, D), tarball, layer)
  <1> DEFINE p == Target(tree, Entry)
  <1> DEFINE X == WhitedOut(lower, Entry)
  <1> DEFINE g == Puts(RemoveAll(RemoveAll(lower, D), X), tarball, layer)
  <1>1. /\ pc = "apply" /\ pos <= Len(tarball)
        /\ tree' = Whiteout(tree, handled, Entry)
        /\ pos' = pos + 1 /\ doubts = {} /\ Doubts(Entry) = {}
        /\ UNCHANGED <<image, layer, lower, handled, own, links>>
    BY DEF ApplyEntry, Handle, Remember
  <1>2. /\ TypeOK /\ IsTree(tree) /\ IsTree(tree') /\ Entry \in AllEntries
        /\ handled \in SUBSET Paths /\ links \in SUBSET Paths
        /\ tarball \in Seq(AllEntries) /\ pos \in 1 .. Len(tarball) /\ pos - 1 \in Nat
    <2>1. /\ TypeOK /\ IsTree(tree) /\ IsTree(tree') /\ layer \in DOMAIN image
          /\ pos \in 1 .. Len(tarball) + 1
          /\ handled \in SUBSET Paths /\ links \in SUBSET Paths
      BY <1>1 DEF Inv, TypeOK
    <2>2. image \in Seq(Seq(AllEntries)) /\ Entry \in AllEntries
      BY <1>1, <2>1, ImageType, EntryType
    <2>3. tarball \in Seq(AllEntries)
      BY <2>1, <2>2
    <2> HIDE DEF tarball
    <2>4. pos \in 1 .. Len(tarball) /\ pos - 1 \in Nat
      BY <1>1, <2>1, <2>3
    <2> QED
      BY <2>1, <2>2, <2>3, <2>4
  <1>3. /\ tree = f[pos - 1]
        /\ own = Own(f, tarball, pos - 1) /\ own \in SUBSET handled
        /\ \A k \in 1 .. pos - 1 : Clean(f, tarball, k, links)
    BY <1>1 DEF Inv, EntriesPut
  <1>4. ~ Order(Entry) /\ ~ Stale(Entry)
    BY <1>1 DEF Doubts
  <1>5. p \in Paths
    BY <1>2, TargetType
  <1>6. /\ Target(lower, Entry) = p
        /\ Entry.kind = "whiteout" =>
              /\ \A q \in own : ~ Above(p, q)
              /\ p \in own => Kind(tree, p) # "dir"
              /\ p \notin handled \ own
        /\ Entry.kind = "opaque" =>
              /\ \A q \in own, r \in Paths \ own : ~ (Above(p, r) /\ Above(r, q))
              /\ \A q \in handled \ own : ~ Above(p, q)
        /\ \A w \in links : ~ Above(p, w) /\ ~ (p = w /\ Entry.kind = "whiteout")
    BY <1>4 DEF Order, Stale
  <1>7. tree' = Spare(tree, X, own)
    <2> HIDE DEF X
    <2> QED
      BY <1>1, <1>2, <1>3, <1>6, WhiteoutIsSpare DEF X
  <1>8. X \in SUBSET Paths /\ \A w \in links, x \in X : ~ IsPrefix(x, w)
    <2>1. CASE Entry.kind = "whiteout"
      <3>1. X = {p}
        BY <1>6, <2>1 DEF WhitedOut
      <3> HIDE DEF p, X
      <3> QED
        BY <1>5, <1>6, <2>1, <3>1 DEF Above, IsStrictPrefix
    <2>2. CASE Entry.kind = "opaque"
      <3>1. X = {r \in Paths : Above(p, r)}
        BY <1>6, <2>2 DEF WhitedOut
      <3> HIDE DEF p, X
      <3>2. ASSUME NEW w \in links, NEW x \in X, IsPrefix(x, w)
            PROVE  FALSE
        <4>1. /\ x \in Paths /\ IsPrefix(p, x) /\ p # x
              /\ x \in Seq(Names) /\ p \in Seq(Names) /\ w \in Seq(Names)
          BY <1>2, <1>5, <3>1, PathsAre DEF Above, IsStrictPrefix
        <4>2. IsPrefix(p, w)
          BY <3>2, <4>1, PrefixTransitive
        <4>3. p # w
          BY <3>2, <4>1, PrefixAntisymmetric
        <4> QED
          BY <1>6, <4>2, <4>3 DEF Above, IsStrictPrefix
      <3> QED
        BY <3>1, <3>2
    <2> QED
      BY <2>1, <2>2 DEF IsWhiteout
  <1>9. Entry = tarball[pos]
    BY DEF Entry
  <1>10. /\ (pos + 1) - 1 = pos /\ pos \in Nat /\ pos > 0 /\ pos - 1 \in 0 .. Len(tarball)
    <2> HIDE DEF tarball
    <2> QED
      BY <1>2
  <1>11. /\ g[pos - 1] = Spare(f[pos - 1], X, Own(f, tarball, pos - 1))
         /\ Own(g, tarball, pos - 1) = Own(f, tarball, pos - 1)
         /\ \A k \in 1 .. pos - 1 : Clean(g, tarball, k, links)
    <2> DEFINE t == RemoveAll(lower, D)
    <2>1. f = Puts(t, tarball, layer) /\ g = Puts(RemoveAll(t, X), tarball, layer)
      OBVIOUS
    <2> DEFINE n == pos - 1
    <2>2. /\ tarball \in Seq(AllEntries) /\ n \in 0 .. Len(tarball)
          /\ X \in SUBSET Paths /\ Avoids(X, {}, links)
          /\ AllClean(f, tarball, n, links)
      BY <1>2, <1>3, <1>8, <1>10 DEF Avoids, AllClean
    <2> HIDE DEF t, f, g, X, tarball, D, n
    <2>3. /\ g[n] = Spare(f[n], X, Own(f, tarball, n))
          /\ Own(g, tarball, n) = Own(f, tarball, n)
          /\ AllClean(g, tarball, n, links)
      BY <2>1, <2>2, PutsSpared, Z3
    <2> QED
      BY <2>3 DEF n, AllClean
  <1>12. Gone(lower, tarball, pos) = D \cup X
    <2> HIDE DEF tarball
    <2> QED
      BY <1>9, <1>10, GoneStep
  <1>13. g = Puts(RemoveAll(lower, Gone(lower, tarball, pos)), tarball, layer)
    BY <1>12, GoneTwice
  <1>14. g[pos] = g[pos - 1]
    <2> DEFINE t == RemoveAll(RemoveAll(lower, D), X)
    <2>1. g = Puts(t, tarball, layer)
      OBVIOUS
    <2> HIDE DEF t, g, X, tarball, D
    <2> QED
      BY <1>2, <1>9, <2>1, PutsStep
  <1>15. Own(g, tarball, pos) = own
    <2> HIDE DEF f, g, tarball
    <2> QED
      BY <1>3, <1>9, <1>10, <1>11, OwnStep
  <1>16. tree' = g[pos - 1]
    BY <1>3, <1>7, <1>11
  <1>17. ASSUME NEW k \in 1 .. pos PROVE Clean(g, tarball, k, links)
    <2>1. CASE k \in 1 .. pos - 1
      BY <1>11, <2>1
    <2>2. CASE k = pos
      <3> HIDE DEF g, tarball
      <3> QED
        BY <1>2, <1>9, <1>16, <2>2 DEF Clean
    <2> QED
      BY <1>10, <2>1, <2>2
  <1>18. g = Puts(RemoveAll(lower', Gone(lower', image'[layer'], pos' - 1)), image'[layer'], layer')
    BY <1>1, <1>10, <1>13
  <1>19. /\ pos' - 1 = pos /\ image'[layer'] = tarball /\ tree' = g[pos]
         /\ own' = own /\ links' = links /\ own' \subseteq handled'
    BY <1>1, <1>3, <1>10, <1>14, <1>16
  <1> HIDE DEF f, g, tarball, p, X, D
  <1> QED
    BY <1>15, <1>17, <1>18, <1>19 DEF EntriesPut

\* Entry by entry, layer by layer.
LEMMA StepExtracts ==
    ASSUME Inv, Step, TypeOK'
    PROVE  LayersStacked' /\ EntriesPut'
  <1> USE DEF Goto, Return, OnlyPc, at_vars, seen_vars
  <1>0. TypeOK /\ LayersStacked /\ EntriesPut /\ image \in Seq(Seq(AllEntries))
    BY ImageType DEF Inv
  <1>1. CASE MakeRootFS \/ ApplyFails \/ Finish \/ Cleanup
    BY <1>0, <1>1 DEF MakeRootFS, ApplyFails, Finish, Cleanup, LayersStacked, EntriesPut
  <1>2. CASE Validate
    <2>1. layer = 1 /\ tree = Empty /\ Stacked(image)[0] = Empty
      BY <1>0, <1>2, StackedStep DEF Validate, LayersStacked
    <2>2. layer - 1 = 0
      BY <2>1
    <2> QED
      BY <1>2, <2>1, <2>2 DEF Validate, LayersStacked, EntriesPut
  <1>3. CASE OpenLayer
    <2>1. pc = "open" /\ UNCHANGED <<image, layer, tree, doubts>>
      BY <1>3 DEF OpenLayer
    <2>2. doubts = {} => tree = Stacked(image)[layer - 1]
      BY <1>0, <2>1 DEF LayersStacked
    <2>3. CASE layer <= Len(image)
      <3>1. /\ pc' = "apply" /\ lower' = tree /\ own' = {} /\ pos' = 1
        BY <1>3, <2>3 DEF OpenLayer
      <3>2. LayersStacked'
        BY <2>1, <2>2, <3>1 DEF LayersStacked
      <3> DEFINE tarball == image[layer]
      <3> DEFINE f == Puts(RemoveAll(tree, Gone(tree, tarball, 0)), tarball, layer)
      <3>3. tarball \in Seq(AllEntries)
        <4>1. layer \in 1 .. Len(image)
          BY <1>0, <2>3 DEF TypeOK
        <4> QED
          BY <1>0, <4>1
      <3>4. RemoveAll(tree, Gone(tree, tarball, 0)) = tree
        <4>1. Gone(tree, tarball, 0) = {}
          BY NoEntry
        <4>2. tree = [p \in Paths |-> tree[p]]
          BY <1>0 DEF TypeOK, IsTree
        <4> QED
          BY <4>1, <4>2 DEF RemoveAll
      <3>5. f[0] = tree
        BY <3>3, <3>4, PutsStep
      <3>6. Own(f, tarball, 0) = {}
        BY NoEntry
      <3>7. 1 - 1 = 0 /\ \A k : k \notin 1 .. 0
        OBVIOUS
      <3>8. f = Puts(RemoveAll(lower', Gone(lower', image'[layer'], pos' - 1)), image'[layer'], layer')
        BY <2>1, <3>1, <3>7
      <3>9. image'[layer'] = tarball /\ pos' - 1 = 0 /\ tree' = tree /\ own' = {}
        BY <2>1, <3>1, <3>7
      <3> HIDE DEF f, tarball
      <3>10. EntriesPut'
        BY <3>5, <3>6, <3>7, <3>8, <3>9 DEF EntriesPut
      <3> QED
        BY <3>2, <3>10
    <2>4. CASE ~ layer <= Len(image)
      <3>1. pc' \in {"spec", "ready"}
        BY <1>3, <2>4 DEF OpenLayer
      <3>2. layer > Len(image)
        BY <1>0, <2>4 DEF TypeOK
      <3> QED
        BY <2>1, <2>2, <3>1, <3>2 DEF LayersStacked, EntriesPut
    <2> QED
      BY <2>3, <2>4
  <1>4. CASE ApplyEntry
    <2>1. LayersStacked'
      BY <1>0, <1>4 DEF ApplyEntry, LayersStacked
    <2>2. CASE doubts' = {}
      BY <1>4, <2>1, <2>2, EntryIsPut, WhiteoutIsPut
    <2>3. CASE doubts' # {}
      BY <2>1, <2>3 DEF EntriesPut
    <2> QED
      BY <2>2, <2>3
  <1>5. CASE Applied
    BY <1>0, <1>5 DEF Applied, LayersStacked, EntriesPut
  <1>6. CASE CloseLayer
    <2> DEFINE tarball == image[layer]
    <2> DEFINE n == Len(tarball)
    <2>1. /\ pc = "close" /\ pc' = "open" /\ layer' = layer + 1
          /\ UNCHANGED <<image, tree, doubts>>
      BY <1>6 DEF CloseLayer
    <2>2. layer \in 1 .. Len(image) /\ pos > n /\ pos \in 1 .. n + 1
      BY <1>0, <2>1 DEF TypeOK, LayersStacked
    <2>3. tarball \in Seq(AllEntries)
      BY <1>0, <2>2
    <2>4. n \in Nat
      BY <2>3
    <2>5. pos - 1 = n /\ (layer + 1) - 1 = layer
      <3> HIDE DEF n
      <3> QED
        BY <2>2, <2>4
    <2>6. Stacked(image)[layer] = ApplyLayer(Stacked(image)[layer - 1], tarball, layer)
      BY <1>0, <2>2, StackedStep
    <2>7. ASSUME doubts = {} PROVE tree = Stacked(image)[layer]
      <3>1. lower = Stacked(image)[layer - 1]
        BY <1>0, <2>1, <2>7 DEF LayersStacked
      <3>2. tree = Puts(RemoveAll(lower, Gone(lower, tarball, pos - 1)), tarball, layer)[pos - 1]
        BY <1>0, <2>1, <2>7 DEF EntriesPut
      <3>3. ApplyLayer(lower, tarball, layer) =
               Puts(RemoveAll(lower, Gone(lower, tarball, n)), tarball, layer)[n]
        BY DEF ApplyLayer
      <3> HIDE DEF tarball, n
      <3> QED
        BY <2>5, <2>6, <3>1, <3>2, <3>3
    <2> HIDE DEF n, tarball
    <2> QED
      BY <2>1, <2>5, <2>7 DEF LayersStacked, EntriesPut
  <1>7. CASE WriteSpec
    BY <1>0, <1>7 DEF WriteSpec, LayersStacked, EntriesPut
  <1> QED
    BY <1>1, <1>2, <1>3, <1>4, <1>5, <1>6, <1>7 DEF Step

LEMMA OthersExtract ==
    ASSUME Inv,
           \/ \E i \in Images : Bundle(i) \/ Resolve(i)
           \/ StepFails \/ CleanupFails \/ Kill \/ NextCall \/ UNCHANGED vars
    PROVE  LayersStacked' /\ EntriesPut'
  <1> USE DEF Goto, Return, OnlyPc, at_vars, seen_vars
  <1>0. TypeOK /\ LayersStacked /\ EntriesPut
    BY DEF Inv
  <1>1. CASE \E i \in Images : Bundle(i) \/ Resolve(i)
    <2>1. PICK i \in Images : Bundle(i) \/ Resolve(i)
      BY <1>1
    <2>2. /\ pc = "idle" /\ pc' \in {"mkdir", "open"} /\ image' = i
          /\ UNCHANGED <<layer, tree, doubts>>
      BY <2>1 DEF Bundle, Resolve, Begin
    <2>3. layer = 1 /\ tree = Empty
      BY <1>0, <2>2 DEF LayersStacked
    <2>4. Stacked(i)[0] = Empty
      BY EntryAssumption, StackedStep
    <2>5. layer' - 1 = 0
      BY <2>2, <2>3
    <2> QED
      BY <2>2, <2>3, <2>4, <2>5 DEF LayersStacked, EntriesPut
  <1>2. CASE StepFails \/ CleanupFails \/ Kill
    BY <1>2 DEF StepFails, CleanupFails, Kill, LayersStacked, EntriesPut
  <1>3. CASE NextCall
    BY <1>3 DEF NextCall, LayersStacked, EntriesPut
  <1>4. CASE UNCHANGED vars
    BY <1>0, <1>4 DEF vars, LayersStacked, EntriesPut
  <1> QED
    BY <1>1, <1>2, <1>3, <1>4

-----------------------------------------------------------------------------
(* The theorems.                                                           *)

LEMMA InvNext == Inv /\ [Next]_vars => Inv'
  <1> SUFFICES ASSUME Inv, [Next]_vars PROVE Inv'
    OBVIOUS
  <1>1. TypeOK'
    BY TypeNext DEF Inv
  <1>2. UNCHANGED vars => NoneBefore' /\ NothingLeft'
    BY DEF Inv, NoneBefore, NothingLeft, vars, at_vars, seen_vars
  <1>3. NoneBefore' /\ NothingLeft'
    BY <1>2, StepLeaves, OthersLeave DEF Next
  <1>4. LayersStacked' /\ EntriesPut'
    BY <1>1, StepExtracts, OthersExtract DEF Next
  <1> QED
    BY <1>1, <1>3, <1>4 DEF Inv

\* As entry after entry is extracted, the root filesystem is always the one
\* the image specification describes for what has been extracted so far, with
\* the whiteouts brought forward.
THEOREM Invariance == Spec => []Inv
  BY InvInit, InvNext, PTL DEF Spec

\* Whatever an image is made of and whatever fails, a call that was not killed
\* and whose clean-up did not fail leaves nothing that was extracted.  It leaves
\* a directory only if it failed before that, as MkdirAll and Validate may
\* (Bundle and Cleanup of the uncompressed store).
THEOREM BundlesAreRemoved == Spec => []NothingLeft
  <1>1. Inv => NothingLeft
    BY DEF Inv
  <1> QED
    BY <1>1, Invariance, PTL

\* For any image, of any layers of any entries: if no entry is in doubt, as hard
\* links are, the root filesystem that spark's uncompressed bundler has
\* extracted, and that of a layer over its parent, is the image's flattened one.
THEOREM ImagesAreFlattened == Spec => []LayersApplied
  <1>1. Inv => LayersApplied
    <2> SUFFICES ASSUME Inv, pc = "ready", doubts = {} PROVE tree = Flattened(image)
      BY DEF LayersApplied
    <2>1. layer > Len(image) /\ tree = Stacked(image)[layer - 1]
      BY DEF Inv, LayersStacked
    <2>2. layer \in 1 .. Len(image) + 1 /\ image \in Seq(Seq(AllEntries))
      BY ImageType DEF Inv, TypeOK
    <2>3. layer - 1 = Len(image)
      BY <2>1, <2>2
    <2> QED
      BY <2>1, <2>3 DEF Flattened
  <1> QED
    BY <1>1, Invariance, PTL
=============================================================================
