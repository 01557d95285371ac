------------------------ MODULE CachingPullerProofs ------------------------
(***************************************************************************)
(* What is proved of CachingPuller, for any number of processes, images,   *)
(* layers and references.                                                  *)
(***************************************************************************)
EXTENDS CachingPuller, TLAPS

\* The parts an action is made of.
USE DEF Digests, Policies, Points, Stages, Outcomes, Content

-----------------------------------------------------------------------------
(* Facts about the store.                                                  *)

\* Whatever a request says, the call has one of the three policies.
LEMMA PolicyType ==
    ASSUME NEW cfg \in PullConfigs
    PROVE  FromImagePullConfig(cfg) \in Policies
  BY DEF PullConfigs, FromImagePullConfig

\* A writer's blob is a blob: the config's digest or the diff ID of a layer.
LEMMA BlobType ==
    ASSUME NEW d \in Images, NEW n \in Positions(d)
    PROVE  Blob(d, n) \in Blobs /\ n \in Slots /\ n \in Nat
  <1>1. LayersOf[d] \in Seq(Layers)
    BY LayersOfAssumption
  <1>2. n \in Slots /\ n \in Nat
    BY <1>1 DEF Slots, Positions
  <1>3. n # 0 => n \in 1 .. Len(LayersOf[d])
    BY <1>1 DEF Positions
  <1> QED
    BY <1>1, <1>2, <1>3 DEF Blob, Blobs

\* Every image has a config file, position 0.
LEMMA ConfigSlot ==
    ASSUME NEW d \in Images
    PROVE  0 \in Positions(d) /\ 0 \in Slots /\ Blob(d, 0) = d
  <1>1. LayersOf[d] \in Seq(Layers)
    BY LayersOfAssumption
  <1> QED
    BY <1>1 DEF Slots, Positions, Blob

\* What the registry serves for a reference is an image.
LEMMA ResolveType ==
    ASSUME TypeOK, NEW r \in Refs
    PROVE  Resolve(r) \in Images
  BY RefsAssumption, PlatformAssumption DEF TypeOK, Refs, Resolve

\* Changing where one writer is, or its temporary file, keeps the others'.
LEMMA StageUpdate ==
    ASSUME TypeOK, NEW p \in Procs, NEW n, NEW s \in Stages
    PROVE  [stage EXCEPT ![p][n] = s] \in [Procs -> [Slots -> Stages]]
  <1>1. stage \in [Procs -> [Slots -> Stages]]
    BY DEF TypeOK
  <1>2. [stage[p] EXCEPT ![n] = s] \in [Slots -> Stages]
    BY <1>1
  <1> QED
    BY <1>1, <1>2

LEMMA TmpUpdate ==
    ASSUME TypeOK, NEW p \in Procs, NEW n, NEW c \in Content
    PROVE  [tmp EXCEPT ![p][n] = c] \in [Procs -> [Slots -> Content]]
  <1>1. tmp \in [Procs -> [Slots -> Content]]
    BY DEF TypeOK
  <1>2. [tmp[p] EXCEPT ![n] = c] \in [Slots -> Content]
    BY <1>1
  <1> QED
    BY <1>1, <1>2

-----------------------------------------------------------------------------
(* Type correctness.                                                       *)

\* A step of a call keeps the variables within their types.
LEMMA CallTyped ==
    ASSUME TypeOK, CallBound, NEW p \in Procs, CallStep(p)
    PROVE  TypeOK'
  <1>0. /\ pc[p] # "idle" => ref[p] \in Refs
        /\ pc[p] = "map" => img[p] \in Images
    BY DEF CallBound
  <1> USE <1>0 DEF TypeOK, disk, call, Goto, Return, Miss, OnlyMoves
  <1>1. CASE Hash(p)
    <2>1. mapping[ref[p]] # NoHash => mapping[ref[p]] \in Images
      BY <1>1 DEF Hash
    <2>2. img' \in [Procs -> Digests \cup {NoHash}]
      <3>1. CASE mapping[ref[p]] # NoHash
        <4>1. img' = [img EXCEPT ![p] = mapping[ref[p]]]
          BY <1>1, <3>1 DEF Hash
        <4>2. mapping[ref[p]] \in Digests \cup {NoHash}
          BY <2>1, <3>1
        <4> QED
          BY <4>1, <4>2
      <3>2. CASE mapping[ref[p]] = NoHash
        BY <1>1, <3>2 DEF Hash
      <3> QED
        BY <3>1, <3>2
    <2>3. pc' \in [Procs -> Points] /\ outcome' \in [Procs -> Outcomes]
      BY <1>1 DEF Hash
    <2> QED
      BY <1>1, <2>2, <2>3 DEF Hash
  <1>2. CASE Load(p)
    <2>1. pc' \in [Procs -> Points] /\ outcome' \in [Procs -> Outcomes]
      BY <1>2 DEF Load
    <2> QED
      BY <1>2, <2>1 DEF Load
  <1>3. CASE Fetch(p)
    BY <1>3, ResolveType DEF Fetch
  <1>4. CASE StatImage(p)
    <2>1. pc' \in [Procs -> Points] /\ outcome' \in [Procs -> Outcomes]
      BY <1>4 DEF StatImage
    <2>2. \E s \in Stages : stage' = [stage EXCEPT ![p][0] = s]
      BY <1>4 DEF StatImage
    <2>3. stage' \in [Procs -> [Slots -> Stages]]
      BY <2>2, StageUpdate
    <2> QED
      BY <1>4, <2>1, <2>3 DEF StatImage
  <1>5. CASE Validate(p)
    <2>1. pc' \in [Procs -> Points] /\ outcome' \in [Procs -> Outcomes]
      BY <1>5 DEF Validate
    <2> DEFINE spawned == [n \in Slots |-> IF n \in Positions(img[p]) \ {0}
                                           THEN "stat" ELSE stage[p][n]]
    <2>2. spawned \in [Slots -> Stages]
      OBVIOUS
    <2>3. stage' = [stage EXCEPT ![p] = spawned] \/ stage' = stage
      BY <1>5 DEF Validate
    <2>4. stage' \in [Procs -> [Slots -> Stages]]
      BY <2>2, <2>3
    <2> QED
      BY <1>5, <2>1, <2>4 DEF Validate
  <1>6. CASE Abandon(p)
    BY <1>6 DEF Abandon
  <1>7. CASE Wait(p)
    BY <1>7 DEF Wait
  <1>8. CASE TruncateHash(p)
    BY <1>8 DEF TruncateHash
  <1>9. CASE WriteHash(p)
    BY <1>9 DEF WriteHash
  <1>10. CASE Reload(p)
    <2>1. pc' \in [Procs -> Points] /\ outcome' \in [Procs -> Outcomes]
      BY <1>10 DEF Reload
    <2>2. known' \subseteq Refs
      BY <1>10 DEF Reload
    <2> QED
      BY <1>10, <2>1, <2>2 DEF Reload
  <1> QED
    BY <1>1, <1>2, <1>3, <1>4, <1>5, <1>6, <1>7, <1>8, <1>9, <1>10
       DEF CallStep

\* A step of a writer does.
LEMMA WriterTyped ==
    ASSUME TypeOK, CallBound, NEW p \in Procs, NEW n \in Slots,
           WriterStep(p, n) \/ WriterFails(p, n)
    PROVE  TypeOK'
  <1>1. \E s \in Stages : stage' = [stage EXCEPT ![p][n] = s]
    BY DEF WriterStep, StatLayer, CreateTemp, FillTemp, Rename, WriterFails,
           Enter
  <1>2. \/ UNCHANGED tmp
        \/ \E c \in Content : tmp' = [tmp EXCEPT ![p][n] = c]
    BY DEF WriterStep, StatLayer, CreateTemp, FillTemp, Rename, WriterFails
  <1>3. file' \in [Blobs -> Content]
    <2>1. CASE Rename(p, n)
      <3>1. tmp[p][n] \in Content /\ file \in [Blobs -> Content]
        BY DEF TypeOK
      <3>2. file' = [file EXCEPT ![Blob(img[p], n)] = tmp[p][n]]
        BY <2>1 DEF Rename, RenameOnto
      <3> QED
        BY <3>1, <3>2
    <2>2. CASE ~ Rename(p, n)
      BY <2>2 DEF TypeOK, WriterStep, StatLayer, CreateTemp, FillTemp,
                  WriterFails
    <2> QED
      BY <2>1, <2>2
  <1>4. UNCHANGED <<mapping, tag, pc, call, outcome, pushed, current, known>>
    BY DEF WriterStep, StatLayer, CreateTemp, FillTemp, Rename, WriterFails,
           OnlyWrites
  <1>5. stage' \in [Procs -> [Slots -> Stages]]
    BY <1>1, StageUpdate
  <1>6. tmp' \in [Procs -> [Slots -> Content]]
    <2>1. CASE UNCHANGED tmp
      BY <2>1 DEF TypeOK
    <2>2. ASSUME NEW c \in Content, tmp' = [tmp EXCEPT ![p][n] = c]
          PROVE  tmp' \in [Procs -> [Slots -> Content]]
      BY <2>2, TmpUpdate
    <2> QED
      BY <1>2, <2>1, <2>2
  <1> QED
    BY <1>3, <1>4, <1>5, <1>6 DEF TypeOK, call

\* So does a failed step of a call, and a kill.
LEMMA FailureTyped ==
    ASSUME TypeOK, NEW p \in Procs, LookupFails(p) \/ PullFails(p) \/ Kill(p)
    PROVE  TypeOK'
  <1>1. pc' \in [Procs -> Points] /\ outcome' \in [Procs -> Outcomes]
    BY DEF TypeOK, LookupFails, PullFails, Kill, Miss, Return, Goto
  <1>2. OnlyMoves
    BY DEF LookupFails, PullFails, Kill
  <1> QED
    BY <1>1, <1>2 DEF TypeOK, OnlyMoves, disk, call

\* So does the start of a call.
LEMMA ImageTyped ==
    ASSUME TypeOK, NEW p \in Procs, NEW r \in Refs, NEW po \in Policies,
           Image(p, r, po)
    PROVE  TypeOK'
  <1>1. Resolve(r) \in Images
    BY ResolveType
  <1>2. /\ ref' \in [Procs -> Refs \cup {NoHash}]
        /\ policy' \in [Procs -> Policies]
        /\ current' \in [Procs -> SUBSET Images]
    BY <1>1 DEF TypeOK, Image
  <1>3. img' \in [Procs -> Digests \cup {NoHash}]
    BY DEF TypeOK, Image
  <1>5. /\ pc' \in [Procs -> Points]
        /\ outcome' \in [Procs -> Outcomes]
    BY DEF TypeOK, Image
  <1>4. /\ stage' \in [Procs -> [Slots -> Stages]]
        /\ tmp' \in [Procs -> [Slots -> Content]]
    BY DEF TypeOK, Image
  <1> QED
    BY <1>2, <1>3, <1>4, <1>5 DEF TypeOK, Image, disk

\* So does a push to the registry.
LEMMA PushTyped ==
    ASSUME TypeOK, NEW t \in Tags, NEW d \in Images, Push(t, d)
    PROVE  TypeOK'
  <1>1. tag' \in [Tags -> Images] /\ pushed' \in [Tags -> SUBSET Images]
    BY DEF TypeOK, Push
  <1>2. current' \in [Procs -> SUBSET Images]
    BY DEF TypeOK, Push
  <1> QED
    BY <1>1, <1>2 DEF TypeOK, Push, disk, call

\* Every step leaves every call with a reference and, in always, an image.
LEMMA BoundNext ==
    ASSUME TypeOK, CallBound, [Next]_vars
    PROVE  CallBound'
  <1> USE DEF TypeOK, CallBound
  <1>1. ASSUME NEW p \in Procs, NEW r \in Refs, NEW po \in Policies,
               Image(p, r, po)
        PROVE  CallBound'
    BY <1>1 DEF Image
  <1>2. ASSUME NEW p \in Procs, Fetch(p)
        PROVE  CallBound'
    <2>1. Resolve(ref[p]) \in Images
      BY <1>2, ResolveType DEF Fetch
    <2> QED
      BY <1>2, <2>1 DEF Fetch, Goto
  <1>3. ASSUME NEW p \in Procs, Hash(p)
        PROVE  CallBound'
    BY <1>3 DEF Hash, Miss, Goto, Return
  <1>4. ASSUME NEW p \in Procs,
               \/ Load(p) \/ StatImage(p) \/ Validate(p) \/ Abandon(p)
               \/ Wait(p) \/ TruncateHash(p) \/ WriteHash(p) \/ Reload(p)
        PROVE  CallBound'
    <2>1. UNCHANGED call
      BY <1>4 DEF Load, StatImage, Validate, Abandon, Wait, TruncateHash,
                  WriteHash, Reload, OnlyMoves
    <2>2. \E l \in Points :
            /\ pc' = [pc EXCEPT ![p] = l]
            /\ pc[p] # "idle"
            /\ \/ UNCHANGED outcome
               \/ l = "idle" /\ \E o \in Outcomes :
                                 outcome' = [outcome EXCEPT ![p] = o]
            /\ l \in {"config", "layers", "truncate", "map", "reload"} =>
                 pc[p] \in {"config", "layers", "truncate", "map", "reload"}
      BY <1>4 DEF Load, StatImage, Validate, Abandon, Wait, TruncateHash,
                  WriteHash, Reload, Miss, Goto, Return
    <2> QED
      BY <2>1, <2>2 DEF call
  <1>5. ASSUME NEW p \in Procs, LookupFails(p) \/ PullFails(p) \/ Kill(p)
        PROVE  CallBound'
    BY <1>5 DEF LookupFails, PullFails, Kill, OnlyMoves, call, Miss, Goto,
                Return
  <1>6. ASSUME NEW p \in Procs, NEW n \in Slots,
               WriterStep(p, n) \/ WriterFails(p, n)
        PROVE  CallBound'
    BY <1>6 DEF WriterStep, StatLayer, CreateTemp, FillTemp, Rename,
                WriterFails, OnlyWrites, call
  <1>7. ASSUME NEW t \in Tags, NEW d \in Images, Push(t, d)
        PROVE  CallBound'
    BY <1>7 DEF Push, call
  <1>8. CASE UNCHANGED vars
    BY <1>8 DEF vars
  <1> HIDE DEF TypeOK, CallBound
  <1>9. ASSUME NEW p \in Procs, NEW r \in Refs, NEW cfg \in PullConfigs,
               Image(p, r, FromImagePullConfig(cfg))
        PROVE  CallBound'
    BY <1>1, <1>9, PolicyType
  <1> QED
    BY <1>2, <1>3, <1>4, <1>5, <1>6, <1>7, <1>8, <1>9
       DEF Next, CallStep, Failure

\* Every step leaves every variable in its type.
LEMMA TypeNext ==
    ASSUME TypeOK, CallBound, [Next]_vars
    PROVE  TypeOK'
  <1>1. CASE UNCHANGED vars
    BY <1>1 DEF TypeOK, vars
  <1> QED
    BY <1>1, CallTyped, WriterTyped, FailureTyped, ImageTyped, PushTyped,
       PolicyType
       DEF Next, Failure

LEMMA TypeInit == Init => TypeOK /\ CallBound
  BY DEF Init, TypeOK, CallBound

\* Every variable always has its type: a mapping is never made to anything
\* but an image, though the digest of an index goes through the same calls.
THEOREM TypeCorrect == Spec => []TypeOK
  <1>1. TypeOK /\ CallBound /\ [Next]_vars => (TypeOK /\ CallBound)'
    BY TypeNext, BoundNext
  <1> QED
    BY <1>1, TypeInit, PTL DEF Spec

-----------------------------------------------------------------------------
(* What is stored stays stored.                                            *)

\* As no file is partial, an image whose layers exist is there in full.
LEMMA StoredIsComplete ==
    ASSUME TypeOK, NoPartialFile, NEW d, Stored(d)
    PROVE  Complete(d)
  <1>1. d \in Images /\ file[d] = "whole"
    BY DEF Stored
  <1>2. LayersOf[d] \in Seq(Layers)
    BY <1>1, LayersOfAssumption
  <1>3. ASSUME NEW n \in Positions(d)
        PROVE  file[Blob(d, n)] = "whole"
    <2>1. CASE n = 0
      BY <1>1, <2>1 DEF Blob
    <2>2. CASE n # 0
      <3>1. n \in 1 .. Len(LayersOf[d]) /\ Blob(d, n) = LayersOf[d][n]
        BY <1>2, <2>2 DEF Positions, Blob
      <3>2. Blob(d, n) \in Blobs
        BY <1>1, BlobType
      <3> QED
        BY <3>1, <3>2 DEF Stored, Exists, NoPartialFile, TypeOK
    <2> QED
      BY <2>1, <2>2
  <1> QED
    BY <1>1, <1>3 DEF Complete

\* A rename puts a whole file in place, and nothing else touches the files.
LEMMA FileStep ==
    ASSUME Inv, [Next]_vars
    PROVE  \/ UNCHANGED file
           \/ \E b \in Blobs : file' = [file EXCEPT ![b] = "whole"]
  <1>1. ASSUME NEW p \in Procs, NEW n \in Slots, Rename(p, n)
        PROVE  \E b \in Blobs : file' = [file EXCEPT ![b] = "whole"]
    <2>1. tmp[p][n] = "whole"
      BY <1>1 DEF Inv, TempFilled, Rename
    <2>2. img[p] \in Images /\ n \in Positions(img[p])
      <3>1. img[p] \in Images
        BY <1>1 DEF Inv, CallBound, Rename, At, Writing
      <3> QED
        BY <1>1, <3>1, ConfigSlot DEF Rename, At, Writing
    <2> QED
      BY <1>1, <2>1, <2>2, BlobType DEF Rename, RenameOnto
  <1>2. ASSUME NEW p \in Procs, NEW r \in Refs, NEW po \in Policies,
               Image(p, r, po)
        PROVE  UNCHANGED file
    BY <1>2 DEF Image, disk
  <1>3. ASSUME NEW p \in Procs, CallStep(p)
        PROVE  UNCHANGED file
    BY <1>3 DEF CallStep, Hash, Load, Fetch, StatImage, Validate, Abandon,
                Wait, TruncateHash, WriteHash, Reload, OnlyMoves, disk
  <1>4. ASSUME NEW p \in Procs, NEW n \in Slots, WriterStep(p, n),
               ~ Rename(p, n)
        PROVE  UNCHANGED file
    BY <1>4 DEF WriterStep, StatLayer, CreateTemp, FillTemp
  <1>5. ASSUME NEW p \in Procs, Failure(p)
        PROVE  UNCHANGED file
    BY <1>5 DEF Failure, LookupFails, PullFails, Kill, WriterFails,
                OnlyMoves, disk
  <1>6. ASSUME NEW t \in Tags, NEW d \in Images, Push(t, d)
        PROVE  UNCHANGED file
    BY <1>6 DEF Push, disk
  <1>7. CASE UNCHANGED vars
    BY <1>7 DEF vars
  <1> QED
    BY <1>1, <1>2, <1>3, <1>4, <1>5, <1>6, <1>7, PolicyType DEF Next

\* Whole files stay whole, and no partial one appears.
LEMMA FileGrows ==
    ASSUME Inv, [Next]_vars
    PROVE  /\ \A b \in Blobs : file[b] = "whole" => file'[b] = "whole"
           /\ NoPartialFile'
  <1>1. file \in [Blobs -> Content]
    BY DEF Inv, TypeOK
  <1>2. CASE UNCHANGED file
    BY <1>2 DEF Inv, NoPartialFile
  <1>3. CASE \E b \in Blobs : file' = [file EXCEPT ![b] = "whole"]
    BY <1>1, <1>3 DEF Inv, NoPartialFile
  <1> QED
    BY <1>2, <1>3, FileStep

\* An image that is complete stays complete.
LEMMA CompleteGrows ==
    ASSUME Inv, [Next]_vars, NEW d, Complete(d)
    PROVE  Complete(d)'
  <1>1. ASSUME NEW n \in Positions(d)
        PROVE  file'[Blob(d, n)] = "whole"
    BY <1>1, BlobType, FileGrows DEF Complete
  <1> QED
    BY <1>1 DEF Complete

-----------------------------------------------------------------------------
(* The inductive invariant.                                                *)

\* One step of process p, of whatever kind.
ProcStep(p) ==
    \/ \E r \in Refs, po \in Policies : Image(p, r, po)
    \/ CallStep(p)
    \/ \E n \in Slots : WriterStep(p, n)
    \/ Failure(p)

\* A process touches nothing of another's but the disk they share.
LEMMA OthersUntouched ==
    ASSUME TypeOK, NEW p \in Procs, ProcStep(p), NEW q \in Procs, q # p
    PROVE  /\ pc'[q] = pc[q] /\ img'[q] = img[q] /\ ref'[q] = ref[q]
           /\ stage'[q] = stage[q] /\ tmp'[q] = tmp[q]
           /\ outcome'[q] = outcome[q] /\ policy'[q] = policy[q]
  <1> USE DEF TypeOK, call, disk, OnlyMoves, Goto, Return, Miss
  <1>1. CASE \E r \in Refs, po \in Policies : Image(p, r, po)
    BY <1>1 DEF Image
  <1>2. CASE Hash(p) \/ Load(p) \/ Fetch(p) \/ StatImage(p) \/ Abandon(p)
    BY <1>2 DEF Hash, Load, Fetch, StatImage, Abandon
  <1>3. CASE \/ Validate(p) \/ Wait(p) \/ TruncateHash(p) \/ WriteHash(p)
             \/ Reload(p)
    BY <1>3 DEF Validate, Wait, TruncateHash, WriteHash, Reload
  <1>4. CASE \E n \in Slots : WriterStep(p, n)
    BY <1>4 DEF WriterStep, StatLayer, CreateTemp, FillTemp, Rename,
                OnlyWrites, Enter
  <1>5. CASE Failure(p)
    BY <1>5 DEF Failure, LookupFails, PullFails, Kill, WriterFails,
                OnlyWrites, Enter
  <1> QED
    BY <1>1, <1>2, <1>3, <1>4, <1>5 DEF ProcStep, CallStep

\* Whoever is about to rename has a whole temporary file.
LEMMA TempFilledNext ==
    ASSUME Inv, NEW p \in Procs, ProcStep(p)
    PROVE  TempFilled'
  <1> USE DEF Inv, TypeOK, CallBound, TempFilled, At, Writing, call, disk,
              OnlyMoves, Goto, Return, Miss
  <1> SUFFICES ASSUME NEW q \in Procs, NEW n \in Slots, At(q, n, "rename")'
               PROVE  tmp'[q][n] = "whole"
    OBVIOUS
  <1>1. CASE q # p
    BY <1>1, OthersUntouched
  <1>2. ASSUME q = p
        PROVE  \A r \in Refs, po \in Policies : ~ Image(p, r, po)
    BY <1>2 DEF Image
  <1>3. ASSUME q = p
        PROVE  ~ CallStep(p)
    BY <1>3 DEF CallStep, Hash, Load, Fetch, StatImage, Validate, Abandon,
                Wait, TruncateHash, WriteHash, Reload
  <1>4. ASSUME q = p, NEW m \in Slots, WriterStep(p, m)
        PROVE  tmp'[q][n] = "whole"
    BY <1>4 DEF WriterStep, StatLayer, CreateTemp, FillTemp, Rename,
                OnlyWrites, Enter
  <1>5. ASSUME q = p, Failure(p)
        PROVE  tmp'[q][n] = "whole"
    BY <1>5 DEF Failure, LookupFails, PullFails, Kill, WriterFails,
                OnlyWrites, Enter
  <1> QED
    BY <1>1, <1>2, <1>3, <1>4, <1>5 DEF ProcStep

\* What a writer calls done is in the store, after the step as before it.
LEMMA DoneStaysDone ==
    ASSUME Inv, [Next]_vars, NEW q \in Procs,
           pc[q] \in {"config", "layers"},
           NEW n \in Positions(img[q]), Writing(q, n), stage[q][n] = "done"
    PROVE  file'[Blob(img[q], n)] = "whole"
  <1>1. img[q] \in Images
    BY DEF Inv, CallBound
  <1>2. file[Blob(img[q], n)] = "whole"
    BY DEF Inv, WritersDone
  <1> QED
    BY <1>1, <1>2, BlobType, FileGrows

\* The part of WritersDone that speaks of one process.
WritersDoneAt(q) ==
    /\ pc[q] \in {"config", "layers"} =>
          \A n \in Positions(img[q]) :
              Writing(q, n) /\ stage[q][n] = "done" =>
                  file[Blob(img[q], n)] = "whole"
    /\ pc[q] = "layers" => file[img[q]] = "whole" /\ stage[q][0] = "done"
    /\ pc[q] \in {"truncate", "map", "reload"} => Complete(img[q])

\* A step of another process takes nothing of it away.
LEMMA WritersDoneOther ==
    ASSUME Inv, [Next]_vars, NEW q \in Procs,
           UNCHANGED <<pc[q], img[q], stage[q]>>
    PROVE  WritersDoneAt(q)'
  <1>1. ASSUME pc'[q] \in {"config", "layers"},
               NEW n \in Positions(img'[q]),
               Writing(q, n)', stage'[q][n] = "done"
        PROVE  file'[Blob(img'[q], n)] = "whole"
    <2>1. Writing(q, n)
      BY <1>1 DEF Writing
    <2> QED
      BY <1>1, <2>1, DoneStaysDone
  <1>2. pc'[q] = "layers" => file'[img'[q]] = "whole" /\ stage'[q][0] = "done"
    BY FileGrows DEF Inv, WritersDone, CallBound, Blobs
  <1>3. pc'[q] \in {"truncate", "map", "reload"} => Complete(img[q])'
    BY CompleteGrows DEF Inv, WritersDone
  <1> QED
    BY <1>1, <1>2, <1>3 DEF WritersDoneAt

\* A step of the call itself reaches the mapping only with all blobs there.
LEMMA WritersDoneCall ==
    ASSUME Inv, [Next]_vars, NEW p \in Procs, CallStep(p)
    PROVE  WritersDoneAt(p)'
  <1> USE DEF TypeOK, disk, call, OnlyMoves, Goto, Return, Miss
  <1>0. TypeOK /\ CallBound /\ NoPartialFile /\ WritersDone
    BY DEF Inv
  <1>1. CASE Hash(p) \/ Load(p) \/ Abandon(p) \/ Reload(p)
    <2>1. pc'[p] \in {"idle", "load", "fetch"}
      BY <1>0, <1>1 DEF Hash, Load, Abandon, Reload
    <2> QED
      BY <2>1 DEF WritersDoneAt
  <1>2. CASE Fetch(p)
    <2>1. Resolve(ref[p]) \in Images
      BY <1>0, <1>2, ResolveType DEF Fetch, CallBound
    <2>2. 0 \in Slots
      BY <2>1, ConfigSlot
    <2>3. pc'[p] = "config" /\ stage'[p][0] = "stat"
      BY <1>0, <1>2, <2>2 DEF Fetch
    <2> QED
      BY <2>3 DEF WritersDoneAt, Writing
  <1>3. CASE StatImage(p)
    <2>1. img[p] \in Images /\ 0 \in Slots
      BY <1>0, <1>3, ConfigSlot DEF StatImage, CallBound
    <2>2. CASE Stored(img[p])
      <3>1. Complete(img[p])
        BY <1>0, <2>2, StoredIsComplete
      <3>2. Complete(img[p])' /\ UNCHANGED img
        BY <1>3, <3>1, CompleteGrows DEF StatImage
      <3>3. pc'[p] = "truncate"
        BY <1>0, <1>3, <2>2 DEF StatImage
      <3> QED
        BY <3>2, <3>3 DEF WritersDoneAt
    <2>3. CASE ~ Stored(img[p])
      <3>1. pc'[p] = "config" /\ stage' = [stage EXCEPT ![p][0] = "create"]
        BY <1>3, <2>3 DEF StatImage
      <3>2. stage'[p][0] = "create"
        BY <1>0, <2>1, <3>1
      <3> QED
        BY <3>1, <3>2 DEF WritersDoneAt, Writing
    <2> QED
      BY <2>2, <2>3
  <1>4. CASE Validate(p)
    <2>1. img[p] \in Images /\ UNCHANGED img
      BY <1>0, <1>4 DEF Validate, CallBound
    <2>2. 0 \in Positions(img[p]) /\ 0 \in Slots /\ Blob(img[p], 0) = img[p]
      BY <2>1, ConfigSlot
    <2>3. file'[img[p]] = "whole"
      BY <1>4, <2>2, DoneStaysDone DEF Validate, Writing
    <2>4. CASE Valid(img[p])
      <3>1. /\ pc'[p] = "layers" /\ stage'[p][0] = "done"
            /\ \A n \in Positions(img[p]) \ {0} : stage'[p][n] = "stat"
        BY <1>0, <1>4, <2>1, <2>2, <2>4, BlobType DEF Validate
      <3> QED
        BY <2>1, <2>3, <3>1 DEF WritersDoneAt, Writing
    <2>5. CASE ~ Valid(img[p])
      <3>1. pc'[p] = "idle"
        BY <1>0, <1>4, <2>5 DEF Validate
      <3> QED
        BY <3>1 DEF WritersDoneAt
    <2> QED
      BY <2>4, <2>5
  <1>5. CASE Wait(p)
    <2>1. CASE \E n \in Positions(img[p]) : stage[p][n] = "failed"
      <3>1. pc'[p] = "idle"
        BY <1>0, <1>5, <2>1 DEF Wait
      <3> QED
        BY <3>1 DEF WritersDoneAt
    <2>2. CASE \A n \in Positions(img[p]) : stage[p][n] # "failed"
      <3>1. img[p] \in Images /\ pc'[p] = "truncate" /\ UNCHANGED img
        BY <1>0, <1>5, <2>2 DEF Wait, CallBound
      <3>2. ASSUME NEW n \in Positions(img[p])
            PROVE  file[Blob(img[p], n)] = "whole"
        <4>1. CASE n = 0
          BY <1>0, <1>5, <3>1, <4>1, ConfigSlot DEF Wait, WritersDone
        <4>2. CASE n # 0
          <5>1. pc[p] = "layers" /\ stage[p][n] = "done"
            BY <1>5, <2>2 DEF Wait
          <5>2. Writing(p, n)
            BY <4>2, <5>1 DEF Writing
          <5> QED
            BY <1>0, <5>1, <5>2 DEF WritersDone
        <4> QED
          BY <4>1, <4>2
      <3>3. Complete(img[p])
        BY <3>1, <3>2 DEF Complete
      <3> QED
        BY <3>1, <3>3, CompleteGrows DEF WritersDoneAt
    <2> QED
      BY <2>1, <2>2
  <1>6. CASE TruncateHash(p) \/ WriteHash(p)
    <2>1. pc[p] \in {"truncate", "map"} /\ pc'[p] \in {"map", "reload"}
          /\ UNCHANGED img
      BY <1>0, <1>6 DEF TruncateHash, WriteHash
    <2> QED
      BY <1>0, <2>1, CompleteGrows DEF WritersDone, WritersDoneAt
  <1> QED
    BY <1>1, <1>2, <1>3, <1>4, <1>5, <1>6 DEF CallStep

\* Nor does a step of a writer: it is done when its blob is there.
LEMMA WritersDoneWriter ==
    ASSUME Inv, [Next]_vars, NEW p \in Procs, NEW m \in Slots,
           WriterStep(p, m) \/ WriterFails(p, m)
    PROVE  WritersDoneAt(p)'
  <1>1. UNCHANGED <<pc, img>>
    BY DEF WriterStep, StatLayer, CreateTemp, FillTemp, Rename, WriterFails,
           OnlyWrites, call
  <1>2. PICK s \in Stages : stage' = [stage EXCEPT ![p][m] = s]
    BY DEF WriterStep, StatLayer, CreateTemp, FillTemp, Rename, WriterFails,
           Enter
  <1>3. Writing(p, m)
    BY DEF WriterStep, StatLayer, CreateTemp, FillTemp, Rename, WriterFails, At
  <1>4. img[p] \in Images /\ m \in Positions(img[p])
    BY <1>3, ConfigSlot DEF Writing, Inv, CallBound
  <1>5. Blob(img[p], m) \in Blobs
    BY <1>4, BlobType
  <1>6. stage'[p][m] = s
        /\ \A n \in Slots : n # m => stage'[p][n] = stage[p][n]
    BY <1>2 DEF Inv, TypeOK
  <1>7. s = "done" => file'[Blob(img[p], m)] = "whole"
    <2>1. CASE StatLayer(p, m)
      <3>1. stage' = [stage EXCEPT ![p][m] =
                        IF Exists(Blob(img[p], m)) THEN "done" ELSE "create"]
        BY <2>1 DEF StatLayer, Enter
      <3>2. stage'[p][m] = IF Exists(Blob(img[p], m)) THEN "done" ELSE "create"
        BY <3>1 DEF Inv, TypeOK
      <3>3. s = "done" => file[Blob(img[p], m)] # "none"
        BY <1>6, <3>2 DEF Exists
      <3>4. file[Blob(img[p], m)] \in {"none", "whole"}
        BY <1>5 DEF Inv, NoPartialFile, TypeOK
      <3> QED
        BY <1>5, <3>3, <3>4, FileGrows
    <2>2. CASE Rename(p, m)
      <3>1. tmp[p][m] = "whole"
        BY <2>2 DEF Rename, Inv, TempFilled
      <3> QED
        BY <1>5, <2>2, <3>1 DEF Rename, RenameOnto, Inv, TypeOK
    <2>3. CASE CreateTemp(p, m) \/ FillTemp(p, m) \/ WriterFails(p, m)
      <3>1. \E t \in {"fill", "rename", "failed"} :
              stage' = [stage EXCEPT ![p][m] = t]
        BY <2>3 DEF CreateTemp, FillTemp, WriterFails, Enter
      <3>2. stage'[p][m] \in {"fill", "rename", "failed"}
        BY <3>1 DEF Inv, TypeOK
      <3> QED
        BY <1>6, <3>2
    <2> QED
      BY <2>1, <2>2, <2>3 DEF WriterStep
  <1>8. ASSUME NEW n \in Positions(img[p]), Writing(p, n)',
               stage'[p][n] = "done"
        PROVE  file'[Blob(img[p], n)] = "whole"
    <2>1. CASE n = m
      BY <1>6, <1>7, <1>8, <2>1
    <2>2. CASE n # m
      <3>1. n \in Slots
        BY <1>4, BlobType
      <3>2. Writing(p, n) /\ stage[p][n] = "done"
        BY <1>1, <1>6, <1>8, <2>2, <3>1 DEF Writing
      <3> QED
        BY <1>3, <3>2, DoneStaysDone DEF Writing
    <2> QED
      BY <2>1, <2>2
  <1>9. pc[p] = "layers" => file'[img[p]] = "whole" /\ stage'[p][0] = "done"
    <2>1. pc[p] = "layers" => m # 0
      BY <1>3 DEF Writing
    <2>2. pc[p] = "layers" => file[img[p]] = "whole" /\ stage[p][0] = "done"
      BY DEF Inv, WritersDone
    <2>3. 0 \in Slots /\ img[p] \in Blobs
      BY <1>4, ConfigSlot DEF Blobs
    <2> QED
      BY <1>6, <2>1, <2>2, <2>3, FileGrows
  <1> QED
    BY <1>1, <1>3, <1>8, <1>9 DEF WritersDoneAt, Writing

\* Every step keeps what is done.
LEMMA WritersDoneNext ==
    ASSUME Inv, [Next]_vars, NEW p \in Procs, ProcStep(p)
    PROVE  WritersDone'
  <1>1. ASSUME NEW q \in Procs, q # p
        PROVE  WritersDoneAt(q)'
    BY <1>1, OthersUntouched, WritersDoneOther DEF Inv
  <1>2. WritersDoneAt(p)'
    <2>1. CASE CallStep(p)
      BY <2>1, WritersDoneCall
    <2>2. CASE \E n \in Slots : WriterStep(p, n) \/ WriterFails(p, n)
      BY <2>2, WritersDoneWriter
    <2>3. CASE \/ \E r \in Refs, po \in Policies : Image(p, r, po)
               \/ LookupFails(p) \/ PullFails(p) \/ Kill(p)
      <3>1. pc'[p] \in {"idle", "hash", "load", "fetch"}
        BY <2>3 DEF Image, LookupFails, PullFails, Kill, Miss, Goto, Return,
                    Inv, TypeOK
      <3> QED
        BY <3>1 DEF WritersDoneAt
    <2> QED
      BY <2>1, <2>2, <2>3 DEF ProcStep, Failure
  <1> QED
    BY <1>1, <1>2 DEF WritersDone, WritersDoneAt

\* A mapping is written when the image is complete, and truncated otherwise.
LEMMA MappedNext ==
    ASSUME Inv, [Next]_vars, NEW p \in Procs, ProcStep(p)
    PROVE  MappedImageComplete'
  <1>1. \/ UNCHANGED mapping
        \/ TruncateHash(p)
        \/ WriteHash(p)
    BY DEF ProcStep, Image, CallStep, Hash, Load, Fetch, StatImage, Validate,
           Abandon, Wait, Reload, WriterStep, StatLayer, CreateTemp, FillTemp,
           Rename, Failure, LookupFails, PullFails, Kill, WriterFails,
           OnlyMoves, OnlyWrites, disk
  <1>2. \A r \in Refs : mapping'[r] # NoHash =>
            \/ mapping'[r] = mapping[r]
            \/ WriteHash(p) /\ mapping'[r] = img[p]
    BY <1>1 DEF TruncateHash, WriteHash, Inv, TypeOK
  <1>3. ASSUME NEW r \in Refs, NEW d, d = mapping'[r], d # NoHash
        PROVE  Complete(d)'
    <2>1. CASE d = mapping[r]
      BY <1>3, <2>1, CompleteGrows DEF Inv, MappedImageComplete
    <2>2. CASE WriteHash(p) /\ d = img[p]
      <3>1. Complete(d)
        BY <2>2 DEF WriteHash, Inv, WritersDone
      <3> QED
        BY <3>1, CompleteGrows
    <2> QED
      BY <1>2, <1>3, <2>1, <2>2
  <1> QED
    BY <1>3 DEF MappedImageComplete

\* A call succeeds only at the end of never or of always, having looked.
LEMMA ReturnedNext ==
    ASSUME Inv, [Next]_vars, NEW p \in Procs, ProcStep(p)
    PROVE  ReturnedImageComplete'
  <1>1. ASSUME NEW q \in Procs, outcome'[q] = "ok"
        PROVE  Complete(img[q]) /\ img'[q] = img[q]
    <2>1. CASE q # p
      BY <1>1, <2>1, OthersUntouched DEF Inv, ReturnedImageComplete
    <2>2. CASE q = p /\ (Load(p) \/ Reload(p)) /\ Stored(img[p])
      BY <2>2, StoredIsComplete DEF Load, Reload, OnlyMoves, call, Inv
    <2>3. CASE q = p /\ (Load(p) \/ Reload(p)) /\ ~ Stored(img[p])
      BY <1>1, <2>3 DEF Load, Reload, OnlyMoves, call, Miss, Goto, Return,
                        Inv, TypeOK, ReturnedImageComplete
    <2>4. CASE q = p /\ ~ Load(p) /\ ~ Reload(p)
      <3>1. \/ \E o \in {"none", "error", "fault", "killed"} :
                  outcome' = [outcome EXCEPT ![p] = o]
            \/ UNCHANGED outcome /\ pc[p] # "idle"
        BY <2>4 DEF ProcStep, Image, CallStep, Hash, Fetch, StatImage,
                    Validate, Abandon, Wait, TruncateHash, WriteHash, Miss,
                    Goto, Return, WriterStep, StatLayer, CreateTemp, FillTemp,
                    Rename, Failure, LookupFails, PullFails, Kill,
                    WriterFails, At, Writing, OnlyWrites
      <3> QED
        BY <1>1, <2>4, <3>1 DEF Inv, TypeOK, CallBound
    <2> QED
      BY <2>1, <2>2, <2>3, <2>4
  <1> QED
    BY <1>1, CompleteGrows DEF ReturnedImageComplete

\* A push to the registry and a stutter touch neither disk nor processes.
LEMMA IdleNext ==
    ASSUME Inv, (\E t \in Tags, d \in Images : Push(t, d)) \/ UNCHANGED vars
    PROVE  Inv'
  <1>1. UNCHANGED <<file, mapping, pc, img, stage, tmp, outcome>>
    BY DEF Push, vars, disk, call
  <1>2. /\ UNCHANGED NoPartialFile /\ UNCHANGED TempFilled
        /\ UNCHANGED WritersDone /\ UNCHANGED MappedImageComplete
        /\ UNCHANGED ReturnedImageComplete
    BY <1>1 DEF NoPartialFile, TempFilled, WritersDone, MappedImageComplete,
                ReturnedImageComplete, Complete, At, Writing
  <1>3. TypeOK' /\ CallBound'
    BY TypeNext, BoundNext DEF Inv, Next
  <1> QED
    BY <1>2, <1>3 DEF Inv

\* The invariant is inductive.
LEMMA InvNext == Inv /\ [Next]_vars => Inv'
  <1> SUFFICES ASSUME Inv, [Next]_vars
               PROVE  Inv'
    OBVIOUS
  <1>1. ASSUME NEW p \in Procs, ProcStep(p)
        PROVE  Inv'
    <2>1. TypeOK' /\ CallBound'
      BY TypeNext, BoundNext DEF Inv
    <2>2. NoPartialFile'
      BY FileGrows
    <2> QED
      BY <1>1, <2>1, <2>2, TempFilledNext, WritersDoneNext, MappedNext,
         ReturnedNext DEF Inv
  <1> QED
    BY <1>1, IdleNext, PolicyType DEF Next, ProcStep

LEMMA InvInit == Init => Inv
  BY TypeInit DEF Init, Inv, CallBound, NoPartialFile, TempFilled, WritersDone,
                  MappedImageComplete, ReturnedImageComplete, At, Writing

THEOREM Invariance == Spec => []Inv
  BY InvInit, InvNext, PTL DEF Spec

\* No reference is ever mapped to an image of which a byte is missing.
THEOREM MappedComplete == Spec => []MappedImageComplete
  <1>1. Inv => MappedImageComplete
    BY DEF Inv
  <1> QED
    BY <1>1, Invariance, PTL

\* No pull ever returns an image of which a byte is missing.
THEOREM ReturnedComplete == Spec => []ReturnedImageComplete
  <1>1. Inv => ReturnedImageComplete
    BY DEF Inv
  <1> QED
    BY <1>1, Invariance, PTL

-----------------------------------------------------------------------------
(* CachingPuller implements ImageCache.                                    *)

\* The refinement mapping.
CompleteImages == {d \in Images : Complete(d)}
AnswerOf(q)    == IF outcome[q] = "ok" THEN img[q] ELSE NoHash

\* A process that runs has no answer yet.
LEMMA RunningHasNoAnswer ==
    ASSUME Inv, NEW p \in Procs, pc[p] # "idle"
    PROVE  AnswerOf(p) = NoHash
  BY DEF Inv, CallBound, AnswerOf

\* A process changes no answer but its own.
LEMMA OthersAnswer ==
    ASSUME Inv, NEW p \in Procs, ProcStep(p)
    PROVE  \A q \in Procs \ {p} : AnswerOf(q)' = AnswerOf(q)
  BY OthersUntouched DEF Inv, AnswerOf

\* Without a rename the set of complete images stays as it is.
LEMMA SameFiles ==
    ASSUME UNCHANGED file
    PROVE  UNCHANGED CompleteImages
  BY DEF CompleteImages, Complete

\* A call step changes the mapping, or answers, or neither.
LEMMA CallRefines ==
    ASSUME Inv, [Next]_vars, NEW p \in Procs, CallStep(p)
    PROVE  [Cache!Next]_(Cache!vars)
  <1>0. UNCHANGED file /\ pc[p] # "idle" /\ TypeOK /\ CallBound
    BY DEF CallStep, Hash, Load, Fetch, StatImage, Validate, Abandon, Wait,
           TruncateHash, WriteHash, Reload, OnlyMoves, disk, Inv
  <1>1. UNCHANGED CompleteImages
    BY <1>0, SameFiles
  <1>2. \A q \in Procs \ {p} : AnswerOf(q)' = AnswerOf(q)
    BY OthersAnswer DEF ProcStep
  <1>3. AnswerOf(p) = NoHash /\ outcome[p] = "none" /\ ref[p] \in Refs
    BY <1>0, RunningHasNoAnswer DEF Inv, CallBound
  <1>4. CASE (Load(p) \/ Reload(p)) /\ Stored(img[p])
    <2>1. Complete(img[p]) /\ img[p] \in Images
      BY <1>4, StoredIsComplete DEF Inv, Stored
    <2>2. AnswerOf(p)' = img[p]
      BY <1>0, <1>4 DEF Load, Reload, OnlyMoves, call, Return, AnswerOf, TypeOK
    <2>3. UNCHANGED mapping
      BY <1>4 DEF Load, Reload, OnlyMoves, disk
    <2>4. Cache!Answer(p, img[p])
      BY <1>1, <1>2, <1>3, <2>1, <2>2, <2>3
         DEF Cache!Answer, CompleteImages, AnswerOf
    <2>5. \E d \in Images : Cache!Answer(p, d)
      BY <2>1, <2>4 DEF Cache!Answer
    <2> QED
      BY <2>5 DEF Cache!Next
  <1>5. CASE ~ ((Load(p) \/ Reload(p)) /\ Stored(img[p]))
    <2>1. outcome'[p] # "ok"
      BY <1>0, <1>3, <1>5 DEF CallStep, Hash, Load, Fetch, StatImage, Validate,
            Abandon, Wait, TruncateHash, WriteHash, Reload, Miss, Goto,
            Return, TypeOK
    <2>2. \A q \in Procs : AnswerOf(q)' = AnswerOf(q)
      BY <1>2, <1>3, <2>1 DEF AnswerOf
    <2>3. CASE TruncateHash(p)
      <3>1. Cache!Unmap(ref[p])
        BY <1>1, <2>2, <2>3 DEF TruncateHash, Cache!Unmap, CompleteImages,
                                AnswerOf
      <3> QED
        BY <1>3, <3>1 DEF Cache!Next
    <2>4. CASE WriteHash(p)
      <3>1. img[p] \in Images /\ Complete(img[p])
        BY <2>4 DEF WriteHash, Inv, CallBound, WritersDone
      <3>2. Cache!Map(ref[p], img[p])
        BY <1>1, <2>2, <2>4, <3>1 DEF WriteHash, Cache!Map, CompleteImages,
                                      AnswerOf
      <3> QED
        BY <1>3, <3>1, <3>2 DEF Cache!Next
    <2>5. CASE ~ TruncateHash(p) /\ ~ WriteHash(p)
      <3>1. UNCHANGED mapping
        BY <2>5 DEF CallStep, Hash, Load, Fetch, StatImage, Validate, Abandon,
                    Wait, Reload, OnlyMoves, disk
      <3> QED
        BY <1>1, <2>2, <3>1 DEF Cache!vars, CompleteImages, AnswerOf
    <2> QED
      BY <2>3, <2>4, <2>5
  <1> QED
    BY <1>4, <1>5

\* A step of a writer publishes the images its rename completes, if any.
LEMMA WriterRefines ==
    ASSUME Inv, [Next]_vars, NEW p \in Procs, NEW n \in Slots,
           WriterStep(p, n) \/ WriterFails(p, n)
    PROVE  [Cache!Next]_(Cache!vars)
  <1>1. UNCHANGED <<mapping, outcome, img>>
    BY DEF WriterStep, StatLayer, CreateTemp, FillTemp, Rename, WriterFails,
           OnlyWrites, call
  <1>2. \A d \in CompleteImages : d \in CompleteImages'
    BY CompleteGrows DEF CompleteImages
  <1>3. CompleteImages' = CompleteImages \cup CompleteImages'
        /\ CompleteImages' \in SUBSET Images
    BY <1>2 DEF CompleteImages
  <1>4. Cache!Publish
    BY <1>1, <1>3 DEF Cache!Publish, CompleteImages
  <1> QED
    BY <1>4 DEF Cache!Next

\* A call forgets the answer of the one before it.
LEMMA ImageRefines ==
    ASSUME Inv, [Next]_vars, NEW p \in Procs, NEW r \in Refs,
           NEW po \in Policies, Image(p, r, po)
    PROVE  [Cache!Next]_(Cache!vars)
  <1>1. UNCHANGED CompleteImages /\ UNCHANGED mapping
    BY SameFiles DEF Image, disk
  <1>2. \A q \in Procs \ {p} : AnswerOf(q)' = AnswerOf(q)
    BY OthersAnswer DEF ProcStep
  <1>3. AnswerOf(p)' = NoHash
    BY DEF Image, AnswerOf, Inv, TypeOK
  <1>4. Cache!Ask(p)
    BY <1>1, <1>2, <1>3 DEF Cache!Ask, CompleteImages, AnswerOf
  <1> QED
    BY <1>4 DEF Cache!Next

\* The rest is invisible to the callers.
LEMMA SilentRefines ==
    ASSUME Inv,
           \/ \E p \in Procs : LookupFails(p) \/ PullFails(p) \/ Kill(p)
           \/ \E t \in Tags, d \in Images : Push(t, d)
           \/ UNCHANGED vars
    PROVE  UNCHANGED Cache!vars
  <1>1. UNCHANGED file /\ UNCHANGED mapping /\ UNCHANGED img
    BY DEF LookupFails, PullFails, Kill, Push, vars, OnlyMoves, disk, call
  <1>2. \A q \in Procs : outcome'[q] = "ok" <=> outcome[q] = "ok"
    <2>1. ASSUME NEW p \in Procs, LookupFails(p) \/ PullFails(p) \/ Kill(p)
          PROVE  \A q \in Procs : outcome'[q] = "ok" <=> outcome[q] = "ok"
      <3>1. pc[p] # "idle"
        BY <2>1 DEF LookupFails, PullFails, Kill
      <3>2. outcome[p] = "none" /\ outcome \in [Procs -> Outcomes]
        BY <3>1 DEF Inv, CallBound, TypeOK
      <3>3. \/ UNCHANGED outcome
            \/ \E o \in {"fault", "killed"} :
                  outcome' = [outcome EXCEPT ![p] = o]
        BY <2>1 DEF LookupFails, PullFails, Kill, Miss, Goto, Return
      <3> QED
        BY <3>2, <3>3
    <2> QED
      BY <2>1 DEF Push, vars
  <1>3. UNCHANGED CompleteImages
    BY <1>1, SameFiles
  <1> QED
    BY <1>1, <1>2, <1>3 DEF Cache!vars, CompleteImages

LEMMA CacheInit == Init => Cache!Init
  <1> SUFFICES ASSUME Init
               PROVE  Cache!Init
    OBVIOUS
  <1>1. ASSUME NEW d \in Images
        PROVE  ~ Complete(d)
    BY ConfigSlot DEF Complete, Init, Blobs
  <1> QED
    BY <1>1 DEF Init, Cache!Init

LEMMA CacheNext == Inv /\ [Next]_vars => [Cache!Next]_(Cache!vars)
  <1> SUFFICES ASSUME Inv, [Next]_vars
               PROVE  [Cache!Next]_(Cache!vars)
    OBVIOUS
  <1> QED
    BY CallRefines, WriterRefines, ImageRefines, SilentRefines, PolicyType
       DEF Next, Failure

\* The pullers, their failures and their kills included, implement a cache
\* that only ever maps and returns complete images and loses none.
THEOREM ImplementsCache == Spec => CacheSpec
  BY Invariance, CacheInit, CacheNext, PTL DEF Spec, CacheSpec, Cache!Spec
=============================================================================
