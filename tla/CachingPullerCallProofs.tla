----------------------- MODULE CachingPullerCallProofs -----------------------
(***************************************************************************)
(* What is proved of how a call of CachingPuller ends: what it leaves in   *)
(* the cache directory, which image it answers, when it refuses one, and   *)
(* that under Never it only reads.                                         *)
(* All of it rests on the invariant of CachingPullerProofs.                *)
(***************************************************************************)
EXTENDS CachingPullerProofs

\* The parts an action is made of.
USE DEF Digests, Policies, Points, Stages, Outcomes, Content

\* What the system calls of a writer, a step of a call and a failure are
\* made of.
WriterActs(p, n) == WriterStep(p, n) \/ WriterFails(p, n)
CallFails(p)     == LookupFails(p) \/ PullFails(p) \/ Kill(p)

-----------------------------------------------------------------------------
(* The invariants.                                                         *)

\* A temporary file is one that a writer of a running call fills or is about
\* to rename, or one of a process that was killed.
TempOwned ==
    \A q \in Procs : \A n \in Slots :
        tmp[q][n] # "none" =>
            \/ outcome[q] = "killed"
            \/ Writing(q, n) /\ stage[q][n] \in {"fill", "rename"}

\* The images a reference may stand for.
Names(r) == IF r \in Tags THEN pushed[r] ELSE {Resolve(r)}

\* What the registry serves and what the digest store maps is among them.
StoresNamed ==
    /\ \A t \in Tags : tag[t] \in pushed[t]
    /\ \A r \in Refs : mapping[r] # NoHash => mapping[r] \in Names(r)

Pulling == {"config", "layers", "truncate", "map", "reload"}

\* So is the image a call works on.  The digest of an index may be looked
\* for, but no image is stored under it.
CallNamed ==
    \A q \in Procs :
        /\ pc[q] # "idle" => Resolve(ref[q]) \in current[q]
        /\ outcome[q] = "ok" => ref[q] \in Refs
        /\ pc[q] \in {"hash", "load"} => policy[q] # "Always"
        /\ pc[q] = "load" => img[q] \in Names(ref[q]) \cup Indexes
        /\ pc[q] \in Pulling => img[q] \in Names(ref[q]) \cap current[q]

Named == StoresNamed /\ CallNamed /\ AnswerIsNamed

-----------------------------------------------------------------------------
(* Temporary files.                                                        *)

\* A step of a process disposes of its temporary files, or still uses them.
LEMMA OwnTemps ==
    ASSUME Inv, TempOwned, NEW p \in Procs, ProcStep(p), NEW n \in Slots,
           tmp'[p][n] # "none"
    PROVE  \/ outcome'[p] = "killed"
           \/ Writing(p, n)' /\ stage'[p][n] \in {"fill", "rename"}
  <1> USE DEF Inv, TypeOK
  <1>0. pc[p] # "idle" =>
            (tmp[p][n] # "none" =>
                Writing(p, n) /\ stage[p][n] \in {"fill", "rename"})
    BY DEF TempOwned, CallBound
  <1>1. CASE \E r \in Refs, po \in Policies : Image(p, r, po)
    BY <1>1 DEF Image
  <1>2. CASE CallStep(p)
    <2>1. pc[p] # "idle" /\ UNCHANGED tmp
      BY <1>2 DEF CallStep, Hash, Load, Fetch, StatImage, Validate, Abandon,
            Wait, TruncateHash, WriteHash, Reload, OnlyMoves
    <2>2. Writing(p, n) /\ stage[p][n] \in {"fill", "rename"}
      BY <1>0, <2>1
    <2>3. FALSE
      BY <1>2, <2>2 DEF CallStep, Hash, Load, Fetch, StatImage, Validate,
            Abandon, Wait, TruncateHash, WriteHash, Reload, Writing
    <2> QED
      BY <2>3
  <1>3. CASE \E m \in Slots : WriterActs(p, m)
    <2>1. PICK m \in Slots : WriterActs(p, m)
      BY <1>3
    <2>2. pc[p] # "idle" /\ UNCHANGED <<pc, img>>
      BY <2>1 DEF WriterActs, WriterStep, StatLayer, CreateTemp, FillTemp,
            Rename, WriterFails, OnlyWrites, call, At, Writing
    <2>3. Writing(p, n)' <=> Writing(p, n)
      BY <2>2 DEF Writing
    <2>4. CASE m # n
      <3>1. tmp'[p][n] = tmp[p][n] /\ stage'[p][n] = stage[p][n]
        BY <2>1, <2>4 DEF WriterActs, WriterStep, StatLayer, CreateTemp,
              FillTemp, Rename, WriterFails, Enter
      <3> QED
        BY <1>0, <2>2, <2>3, <3>1
    <2>5. CASE m = n
      BY <1>0, <2>1, <2>2, <2>3, <2>5 DEF WriterActs, WriterStep, StatLayer,
            CreateTemp, FillTemp, Rename, WriterFails, Enter, At
    <2> QED
      BY <2>4, <2>5
  <1>4. CASE CallFails(p)
    <2>1. pc[p] # "idle" /\ UNCHANGED <<tmp, stage, img>>
      BY <1>4 DEF CallFails, LookupFails, PullFails, Kill, OnlyMoves, call
    <2>2. Writing(p, n) /\ stage[p][n] \in {"fill", "rename"}
      BY <1>0, <2>1
    <2> QED
      BY <1>4, <2>2 DEF CallFails, LookupFails, PullFails, Kill, Return,
            Writing
  <1> QED
    BY <1>1, <1>2, <1>3, <1>4 DEF ProcStep, Failure, WriterActs, CallFails

LEMMA TempOwnedNext ==
    ASSUME Inv, TempOwned, [Next]_vars
    PROVE  TempOwned'
  <1>1. CASE (\E t \in Tags, d \in Images : Push(t, d)) \/ UNCHANGED vars
    <2>1. UNCHANGED <<pc, img, stage, tmp, outcome>>
      BY <1>1 DEF Push, vars, call
    <2> QED
      BY <2>1 DEF TempOwned, Writing
  <1>2. ASSUME NEW p \in Procs, ProcStep(p)
        PROVE  TempOwned'
    <2> SUFFICES ASSUME NEW q \in Procs, NEW n \in Slots, tmp'[q][n] # "none"
                 PROVE  \/ outcome'[q] = "killed"
                        \/ /\ Writing(q, n)'
                           /\ stage'[q][n] \in {"fill", "rename"}
      BY DEF TempOwned
    <2>1. CASE q = p
      BY <1>2, <2>1, OwnTemps
    <2>2. CASE q # p
      BY <1>2, <2>2, OthersUntouched DEF TempOwned, Writing, Inv
    <2> QED
      BY <2>1, <2>2
  <1> QED
    BY <1>1, <1>2, PolicyType DEF Next, ProcStep

\* No call that returns leaves a temporary file, whatever fails and whatever
\* the other processes do: the writers have all ended when it does, and each
\* has renamed or removed its own.
THEOREM TempsRemoved == Spec => []NoTempLeft
  <1>1. Init => TempOwned
    BY DEF Init, TempOwned
  <1>2. Inv /\ TempOwned => NoTempLeft
    BY DEF Inv, CallBound, TempOwned, NoTempLeft, Writing
  <1> QED
    BY <1>1, <1>2, Invariance, TempOwnedNext, PTL DEF Spec

-----------------------------------------------------------------------------
(* Refusals.                                                               *)

\* always does not refuse an image it has just written: it is all there.
LEMMA WrittenIsStored ==
    ASSUME Inv, NEW p \in Procs, pc[p] = "reload"
    PROVE  Stored(img[p])
  <1>1. Complete(img[p])
    BY DEF Inv, WritersDone
  <1>2. file[img[p]] = "whole"
    BY <1>1, ConfigSlot DEF Complete
  <1>3. ASSUME NEW n \in 1 .. Len(LayersOf[img[p]])
        PROVE  Exists(LayersOf[img[p]][n])
    <2>1. LayersOf[img[p]] \in Seq(Layers)
      BY <1>1, LayersOfAssumption DEF Complete
    <2>2. n \in Positions(img[p]) /\ n # 0
      BY <2>1 DEF Positions
    <2>3. file[Blob(img[p], n)] = "whole"
      BY <1>1, <2>2 DEF Complete
    <2> QED
      BY <2>2, <2>3 DEF Blob, Exists
  <1> QED
    BY <1>1, <1>2, <1>3 DEF Stored, Complete

LEMMA SucceedsNext ==
    ASSUME Inv, PullSucceeds, [Next]_vars
    PROVE  PullSucceeds'
  <1>1. CASE (\E t \in Tags, d \in Images : Push(t, d)) \/ UNCHANGED vars
    <2>1. UNCHANGED <<policy, img, outcome>>
      BY <1>1 DEF Push, vars, call
    <2> QED
      BY <2>1 DEF PullSucceeds, Valid
  <1>2. ASSUME NEW p \in Procs, ProcStep(p)
        PROVE  PullSucceeds'
    <2> SUFFICES ASSUME NEW q \in Procs, outcome'[q] = "error",
                        policy'[q] # "Never"
                 PROVE  ~ Valid(img[q])'
      BY DEF PullSucceeds
    <2> USE DEF Inv, TypeOK, Valid
    <2>1. CASE q # p
      BY <1>2, <2>1, OthersUntouched DEF PullSucceeds
    <2>2. CASE q = p /\ \E r \in Refs, po \in Policies : Image(p, r, po)
      BY <2>2 DEF Image
    <2>3. CASE q = p /\ CallStep(p)
      <3>1. outcome[p] = "none"
        BY <2>3 DEF CallBound, CallStep, Hash, Load, Fetch, StatImage,
              Validate, Abandon, Wait, TruncateHash, WriteHash, Reload
      <3>2. policy'[p] = policy[p]
        BY <2>3 DEF CallStep, Hash, Load, Fetch, StatImage, Validate,
              Abandon, Wait, TruncateHash, WriteHash, Reload, OnlyMoves, call
      <3>3. ~ Reload(p)
        BY <2>3, WrittenIsStored DEF Reload, Return
      <3>4. Validate(p) /\ ~ Valid(img[p])
        BY <2>3, <3>1, <3>2, <3>3 DEF CallStep, Hash, Load, Fetch, StatImage,
              Validate, Abandon, Wait, TruncateHash, WriteHash, Goto, Return,
              Miss
      <3> QED
        BY <2>3, <3>4 DEF Validate, call
    <2>4. CASE q = p /\ \E m \in Slots : WriterActs(p, m)
      BY <2>4 DEF WriterActs, WriterStep, StatLayer, CreateTemp, FillTemp,
            Rename, WriterFails, OnlyWrites, call, PullSucceeds
    <2>5. CASE q = p /\ CallFails(p)
      <3>1. outcome[p] = "none"
        BY <2>5 DEF CallBound, CallFails, LookupFails, PullFails, Kill
      <3> QED
        BY <2>5, <3>1 DEF CallFails, LookupFails, PullFails, Kill, Miss,
              Goto, Return
    <2> QED
      BY <1>2, <2>1, <2>2, <2>3, <2>4, <2>5
         DEF ProcStep, Failure, WriterActs, CallFails
  <1> QED
    BY <1>1, <1>2, PolicyType DEF Next, ProcStep

\* If no step of it fails, a pull that may use the remote is refused only for
\* too many layers, whatever other processes write or replace meanwhile.
THEOREM PullsSucceed == Spec => []PullSucceeds
  <1>1. Init => PullSucceeds
    BY DEF Init, PullSucceeds
  <1> QED
    BY <1>1, Invariance, SucceedsNext, PTL DEF Spec

-----------------------------------------------------------------------------
(* Answers.                                                                *)

\* What a process may change of the history: nothing of another's.
LEMMA CurrentUntouched ==
    ASSUME TypeOK, NEW p \in Procs, ProcStep(p), NEW q \in Procs, q # p
    PROVE  current'[q] = current[q]
  BY DEF TypeOK, ProcStep, Image, CallStep, Hash, Load, Fetch, StatImage,
     Validate, Abandon, Wait, TruncateHash, WriteHash, Reload, OnlyMoves,
     WriterStep, StatLayer, CreateTemp, FillTemp, Rename, OnlyWrites, Failure,
     LookupFails, PullFails, Kill, WriterFails

\* Only a push changes what a reference may stand for, and it only adds.
LEMMA ProcKeepsNames ==
    ASSUME NEW p \in Procs, ProcStep(p)
    PROVE  /\ UNCHANGED <<tag, pushed>>
           /\ \A r \in Refs : Names(r)' = Names(r) /\ Resolve(r)' = Resolve(r)
  <1>1. UNCHANGED <<tag, pushed>>
    BY DEF ProcStep, Image, CallStep, Hash, Load, Fetch, StatImage,
       Validate, Abandon, Wait, TruncateHash, WriteHash, Reload, OnlyMoves,
       WriterStep, StatLayer, CreateTemp, FillTemp, Rename, OnlyWrites,
       Failure, LookupFails, PullFails, Kill, WriterFails
  <1> QED
    BY <1>1 DEF Names, Resolve

\* A tag is no digest.
LEMMA TagResolves ==
    ASSUME NEW t \in Tags
    PROVE  Resolve(t) = tag[t] /\ Resolve(t)' = tag'[t]
  <1>1. t \notin Images /\ t \notin Indexes
    BY RefsAssumption
  <1>2. Resolve(t) = tag[t]
    BY <1>1 DEF Resolve
  <1>3. Resolve(t)' = tag'[t]
    BY <1>1 DEF Resolve
  <1> QED
    BY <1>2, <1>3

\* The registry serves an image of the reference.
LEMMA ResolveNamed ==
    ASSUME StoresNamed, NEW r \in Refs
    PROVE  Resolve(r) \in Names(r)
  BY TagResolves DEF StoresNamed, Names

\* A push lets a tag stand for one image more.
LEMMA PushNamed ==
    ASSUME Inv, Named, NEW t \in Tags, NEW d \in Images, Push(t, d)
    PROVE  Named'
  <1> USE DEF Inv, TypeOK, Named
  <1>1. UNCHANGED <<mapping, pc, ref, policy, img, outcome>>
    BY DEF Push, disk, call
  <1>2. \A s \in Tags : tag'[s] = IF s = t THEN d ELSE tag[s]
    BY DEF Push
  <1>3. \A s \in Tags : pushed'[s] = IF s = t THEN pushed[t] \cup {d}
                                     ELSE pushed[s]
    BY DEF Push
  <1>4. ASSUME NEW r \in Refs
        PROVE  /\ Names(r) \subseteq Names(r)'
               /\ r # t => Resolve(r)' = Resolve(r)
               /\ r = t => Resolve(r)' = d
    <2>1. CASE r \in Tags
      BY <1>2, <1>3, <2>1, TagResolves DEF Names
    <2>2. CASE r \notin Tags
      BY <2>2 DEF Names, Resolve, Refs
    <2> QED
      BY <2>1, <2>2
  <1>5. \A q \in Procs :
            current'[q] = IF pc[q] # "idle" /\ ref[q] = t
                          THEN current[q] \cup {d} ELSE current[q]
    BY DEF Push
  <1>6. StoresNamed'
    BY <1>1, <1>2, <1>3, <1>4 DEF StoresNamed
  <1>7. CallNamed'
    <2> SUFFICES ASSUME NEW q \in Procs
                 PROVE  /\ pc[q] # "idle" => Resolve(ref[q])' \in current'[q]
                        /\ outcome[q] = "ok" => ref[q] \in Refs
                        /\ pc[q] \in {"hash", "load"} => policy[q] # "Always"
                        /\ pc[q] = "load" =>
                              img[q] \in Names(ref[q])' \cup Indexes
                        /\ pc[q] \in Pulling =>
                              img[q] \in Names(ref[q])' \cap current'[q]
      BY <1>1 DEF CallNamed, Pulling
    <2>1. pc[q] # "idle" => ref[q] \in Refs
      BY DEF CallBound
    <2>2. current[q] \subseteq current'[q]
      BY <1>5
    <2>3. ref'[q] = ref[q]
      BY <1>1
    <2>4. pc[q] # "idle" => Resolve(ref[q])' \in current'[q]
      <3>1. CASE ref[q] = t
        BY <1>4, <1>5, <2>1, <2>3, <3>1
      <3>2. CASE pc[q] # "idle" /\ ref[q] # t
        <4>1. Resolve(ref[q])' = Resolve(ref[q])
          BY <1>4, <2>1, <2>3, <3>2
        <4>2. Resolve(ref[q]) \in current[q]
          BY <3>2 DEF CallNamed
        <4> QED
          BY <2>2, <4>1, <4>2
      <3> QED
        BY <3>1, <3>2
    <2>5. pc[q] # "idle" => Names(ref[q]) \subseteq Names(ref[q])'
      BY <1>4, <2>1, <2>3
    <2> QED
      BY <2>2, <2>4, <2>5 DEF CallNamed, Pulling
  <1>8. AnswerIsNamed'
    <2> SUFFICES ASSUME NEW q \in Procs, outcome[q] = "ok"
                 PROVE  IF policy[q] = "Always" THEN img[q] \in current'[q]
                        ELSE img[q] \in IF ref[q] \in Tags
                                        THEN pushed'[ref[q]]
                                        ELSE {Resolve(ref[q])'}
      BY <1>1 DEF AnswerIsNamed
    <2>1. current[q] \subseteq current'[q]
      BY <1>5
    <2>2. ref'[q] = ref[q]
      BY <1>1
    <2>3. ref[q] \notin Tags => Resolve(ref[q])' = Resolve(ref[q])
      BY <1>4, <2>2 DEF CallNamed
    <2>4. ref[q] \in Tags => pushed[ref[q]] \subseteq pushed'[ref[q]]
      BY <1>3
    <2> QED
      BY <2>1, <2>3, <2>4 DEF AnswerIsNamed
  <1> QED
    BY <1>6, <1>7, <1>8

\* Nor does a process change what another's call stands on.
LEMMA OthersNamed ==
    ASSUME Inv, NEW p \in Procs, ProcStep(p), NEW q \in Procs, q # p
    PROVE  /\ pc'[q] = pc[q] /\ img'[q] = img[q] /\ ref'[q] = ref[q]
           /\ outcome'[q] = outcome[q] /\ policy'[q] = policy[q]
           /\ current'[q] = current[q]
           /\ UNCHANGED pushed
           /\ Names(ref[q])' = Names(ref[q])
           /\ Resolve(ref[q])' = Resolve(ref[q])
  <1>1. /\ pc'[q] = pc[q] /\ img'[q] = img[q] /\ ref'[q] = ref[q]
        /\ outcome'[q] = outcome[q] /\ policy'[q] = policy[q]
        /\ current'[q] = current[q]
    BY OthersUntouched, CurrentUntouched DEF Inv
  <1>2. UNCHANGED <<tag, pushed>>
    BY ProcKeepsNames
  <1> QED
    BY <1>1, <1>2 DEF Names, Resolve

\* A call starts: it names what the registry serves at that moment.
LEMMA ImageNamed ==
    ASSUME Inv, Named, NEW p \in Procs, NEW r \in Refs, NEW po \in Policies,
           Image(p, r, po)
    PROVE  CallNamed' /\ AnswerIsNamed'
  <1> USE DEF Inv, TypeOK, Named
  <1>1. ProcStep(p)
    BY DEF ProcStep
  <1>2. /\ ref'[p] = r /\ policy'[p] = po /\ current'[p] = {Resolve(r)}
        /\ outcome'[p] = "none"
        /\ img'[p] = IF r \in Digests THEN r ELSE NoHash
        /\ pc'[p] = IF po = "Always" THEN "fetch"
                    ELSE IF r \in Digests THEN "load" ELSE "hash"
    BY DEF Image
  <1>3. Resolve(r)' = Resolve(r) /\ Names(r)' = Names(r)
    BY <1>1, ProcKeepsNames
  <1>4. r \in Digests => r \in Names(r) \cup Indexes
    BY RefsAssumption DEF Names, Resolve
  <1>5. /\ Resolve(ref[p])' \in current'[p]
        /\ pc'[p] \in {"hash", "load"} => policy'[p] # "Always"
        /\ pc'[p] = "load" => img'[p] \in Names(ref[p])' \cup Indexes
        /\ pc'[p] \notin Pulling
    BY <1>2, <1>3, <1>4 DEF Pulling, Resolve, Names
  <1> QED
    BY <1>1, <1>2, <1>5, OthersNamed DEF CallNamed, AnswerIsNamed

\* A step of the call.
LEMMA CallStepNamed ==
    ASSUME Inv, Named, NEW p \in Procs, CallStep(p)
    PROVE  Named'
  <1> USE DEF Inv, TypeOK, Named
  <1>1. ProcStep(p)
    BY DEF ProcStep
  <1>2. /\ pc[p] # "idle" /\ outcome[p] = "none" /\ ref[p] \in Refs
        /\ ref'[p] = ref[p] /\ policy'[p] = policy[p]
        /\ current'[p] = current[p]
    BY DEF CallBound, CallStep, Hash, Load, Fetch, StatImage, Validate,
       Abandon, Wait, TruncateHash, WriteHash, Reload, OnlyMoves, call
  <1>3. /\ Names(ref[p])' = Names(ref[p])
        /\ Resolve(ref[p])' = Resolve(ref[p])
        /\ \A r \in Refs : Names(r)' = Names(r)
        /\ UNCHANGED <<tag, pushed>>
    <2>1. UNCHANGED <<tag, pushed>> /\ \A r \in Refs : Names(r)' = Names(r)
      BY <1>1, ProcKeepsNames
    <2>2. ref'[p] = ref[p]
      BY <1>2
    <2> QED
      BY <2>1, <2>2 DEF Names, Resolve
  <1>4. Resolve(ref[p]) \in Names(ref[p]) \cap current[p]
    BY <1>2, ResolveNamed DEF CallNamed
  <1>5. StoresNamed'
    <2>1. \A r \in Refs : mapping'[r] # NoHash =>
              mapping'[r] = mapping[r] \/ mapping'[r] \in Names(r)
      BY <1>2 DEF CallNamed, Pulling, CallStep, Hash, Load, Fetch, StatImage,
         Validate, Abandon, Wait, TruncateHash, WriteHash, Reload, OnlyMoves,
         disk
    <2> QED
      BY <1>3, <2>1 DEF StoresNamed
  <1>6. /\ pc'[p] \in {"hash", "load"} => policy'[p] # "Always"
        /\ pc'[p] = "load" => img'[p] \in Names(ref[p]) \cup Indexes
        /\ pc'[p] \in Pulling => img'[p] \in Names(ref[p]) \cap current[p]
    <2>1. CASE Hash(p)
      BY <1>2, <2>1 DEF Hash, Goto, Miss, Return, Pulling, CallNamed,
         StoresNamed
    <2>2. CASE Fetch(p)
      BY <1>2, <1>4, <2>2 DEF Fetch, Goto, Pulling
    <2>3. CASE Load(p)
      BY <2>3 DEF Load, Goto, Miss, Return, Pulling
    <2>4. CASE ~ Hash(p) /\ ~ Fetch(p) /\ ~ Load(p)
      <3>1. img'[p] = img[p] /\ pc[p] \in Pulling
            /\ pc'[p] \in Pulling \cup {"idle"}
        BY <2>4 DEF CallStep, StatImage, Validate, Abandon, Wait,
           TruncateHash, WriteHash, Reload, OnlyMoves, call, Goto, Return,
           Pulling
      <3> QED
        BY <3>1 DEF CallNamed, Pulling
    <2> QED
      BY <2>1, <2>2, <2>3, <2>4
  <1>7. outcome'[p] = "ok" =>
            IF policy[p] = "Always" THEN img'[p] \in current[p]
            ELSE img'[p] \in Names(ref[p])
    <2> SUFFICES ASSUME outcome'[p] = "ok"
                 PROVE  IF policy[p] = "Always" THEN img[p] \in current[p]
                        ELSE img[p] \in Names(ref[p])
      BY <1>2 DEF CallStep, Hash, Load, Fetch, StatImage, Validate, Abandon,
         Wait, TruncateHash, WriteHash, Reload, OnlyMoves, call, Goto,
         Return, Miss
    <2>1. (Load(p) \/ Reload(p)) /\ Stored(img[p])
      BY <1>2 DEF CallStep, Hash, Load, Fetch, StatImage, Validate, Abandon,
         Wait, TruncateHash, WriteHash, Reload, Goto, Return, Miss
    <2>2. img[p] \in Images /\ img[p] \notin Indexes
      BY <2>1, RefsAssumption DEF Stored
    <2> QED
      BY <2>1, <2>2 DEF Load, Reload, CallNamed, Pulling
  <1>8. CallNamed'
    <2> SUFFICES ASSUME NEW q \in Procs
                 PROVE  /\ pc'[q] # "idle" => Resolve(ref[q])' \in current'[q]
                        /\ outcome'[q] = "ok" => ref'[q] \in Refs
                        /\ pc'[q] \in {"hash", "load"} =>
                              policy'[q] # "Always"
                        /\ pc'[q] = "load" =>
                              img'[q] \in Names(ref[q])' \cup Indexes
                        /\ pc'[q] \in Pulling =>
                              img'[q] \in Names(ref[q])' \cap current'[q]
      BY DEF CallNamed
    <2>1. CASE q = p
      BY <1>2, <1>3, <1>4, <1>6, <2>1
    <2>2. CASE q # p
      BY <1>1, <2>2, OthersNamed DEF CallNamed
    <2> QED
      BY <2>1, <2>2
  <1>9. AnswerIsNamed'
    <2>1. outcome'[p] = "ok" =>
              IF policy'[p] = "Always" THEN img'[p] \in current'[p]
              ELSE img'[p] \in Names(ref[p])'
      BY <1>2, <1>3, <1>7
    <2> SUFFICES ASSUME NEW q \in Procs, outcome'[q] = "ok"
                 PROVE  IF policy'[q] = "Always" THEN img'[q] \in current'[q]
                        ELSE img'[q] \in Names(ref[q])'
      BY DEF AnswerIsNamed, Names
    <2>2. CASE q = p
      BY <2>1, <2>2
    <2>3. CASE q # p
      <3>1. outcome[q] = "ok" =>
                IF policy[q] = "Always" THEN img[q] \in current[q]
                ELSE img[q] \in Names(ref[q])
        BY DEF AnswerIsNamed, Names
      <3> QED
        BY <1>1, <2>3, <3>1, OthersNamed
    <2> QED
      BY <2>2, <2>3
  <1> QED
    BY <1>5, <1>8, <1>9

\* A step of a writer, and a failure, change no reference and no image, and
\* answer none.
LEMMA OtherStepNamed ==
    ASSUME Inv, Named, NEW p \in Procs,
           CallFails(p) \/ \E n \in Slots : WriterActs(p, n)
    PROVE  Named'
  <1> USE DEF Inv, TypeOK, Named
  <1>1. ProcStep(p)
    BY DEF ProcStep, CallFails, WriterActs, Failure
  <1>2. /\ UNCHANGED <<mapping, tag, pushed, current, ref, policy, img>>
        /\ outcome'[p] = "ok" => outcome[p] = "ok"
        /\ pc'[p] \in {pc[p], "idle"} \/ pc'[p] = "fetch"
    BY DEF CallFails, WriterActs, WriterStep, StatLayer, CreateTemp,
       FillTemp, Rename, WriterFails, OnlyWrites, LookupFails, PullFails,
       Kill, OnlyMoves, call, disk, Miss, Goto, Return
  <1>3. \A r \in Refs : Names(r)' = Names(r)
    BY <1>1, ProcKeepsNames
  <1>4. StoresNamed'
    BY <1>2, <1>3 DEF StoresNamed
  <1>5. /\ pc'[p] # "idle" => pc[p] # "idle"
        /\ ref[p] \in Refs => Resolve(ref[p])' = Resolve(ref[p])
                              /\ Names(ref[p])' = Names(ref[p])
    <2>1. pc[p] # "idle"
      BY DEF CallFails, WriterActs, WriterStep, StatLayer, CreateTemp,
         FillTemp, Rename, WriterFails, At, Writing, LookupFails, PullFails,
         Kill
    <2> QED
      BY <1>2, <2>1 DEF Resolve, Names
  <1>6. CallNamed'
    BY <1>1, <1>2, <1>5, OthersNamed DEF CallNamed, CallBound, Pulling
  <1>7. AnswerIsNamed'
    <2> SUFFICES ASSUME NEW q \in Procs, outcome'[q] = "ok"
                 PROVE  IF policy'[q] = "Always" THEN img'[q] \in current'[q]
                        ELSE img'[q] \in Names(ref[q])'
      BY DEF AnswerIsNamed, Names
    <2>1. outcome[q] = "ok" /\ ref[q] \in Refs
      BY <1>1, <1>2, OthersNamed DEF CallNamed
    <2>2. Names(ref[q])' = Names(ref[q])
      BY <1>2, <1>3, <2>1 DEF Names, Resolve
    <2> QED
      BY <1>2, <2>1, <2>2 DEF AnswerIsNamed, Names
  <1> QED
    BY <1>4, <1>6, <1>7

LEMMA NamedNext ==
    ASSUME Inv, Named, [Next]_vars
    PROVE  Named'
  <1>1. ASSUME NEW p \in Procs, NEW r \in Refs, NEW po \in Policies,
               Image(p, r, po)
        PROVE  Named'
    <2>1. StoresNamed'
      <3>1. UNCHANGED <<mapping, tag, pushed>>
        BY <1>1 DEF Image, disk
      <3> QED
        BY <3>1 DEF Named, StoresNamed, Names, Resolve
    <2> QED
      BY <1>1, <2>1, ImageNamed DEF Named
  <1>2. CASE UNCHANGED vars
    BY <1>2 DEF vars, Named, StoresNamed, CallNamed, AnswerIsNamed, Names,
       Resolve
  <1> QED
    BY <1>1, <1>2, PushNamed, CallStepNamed, OtherStepNamed, PolicyType
       DEF Next, Failure, CallFails, WriterActs

\* Whatever processes pull, fail and are killed, and however often the tags
\* move: a pull under Always answers an image the registry named during that
\* very call, any other one an image its reference has named.
THEOREM AnswersAreNamed == Spec => []AnswerIsNamed
  <1>1. Init => Named
    BY DEF Init, Named, StoresNamed, CallNamed, AnswerIsNamed, Pulling
  <1>2. Named => AnswerIsNamed
    BY DEF Named
  <1> QED
    BY <1>1, <1>2, Invariance, NamedNext, PTL DEF Spec

-----------------------------------------------------------------------------
(* Never.                                                                  *)

\* A call under Never is nowhere but in never.
NeverLooks ==
    \A q \in Procs :
        policy[q] = "Never" => pc[q] \in {"idle", "hash", "load"}

\* A step of a process under Never stays there, and writes nothing.
LEMMA NeverStep ==
    ASSUME Inv, NeverLooks, NEW p \in Procs, ProcStep(p)
    PROVE  /\ policy'[p] = "Never" => pc'[p] \in {"idle", "hash", "load"}
           /\ policy[p] = "Never" /\ pc[p] # "idle" =>
                 pc'[p] \in {"idle", "hash", "load"} /\ UNCHANGED <<disk, tmp>>
  <1> USE DEF Inv, TypeOK
  <1>1. CASE \E r \in Refs, po \in Policies : Image(p, r, po)
    BY <1>1 DEF Image
  <1>2. CASE CallStep(p)
    BY <1>2 DEF NeverLooks, CallStep, Hash, Load, Fetch, StatImage, Validate,
       Abandon, Wait, TruncateHash, WriteHash, Reload, OnlyMoves, call, disk,
       Goto, Return, Miss
  <1>3. CASE \E m \in Slots : WriterActs(p, m)
    BY <1>3 DEF NeverLooks, WriterActs, WriterStep, StatLayer, CreateTemp,
       FillTemp, Rename, WriterFails, OnlyWrites, call, At, Writing
  <1>4. CASE CallFails(p)
    BY <1>4 DEF NeverLooks, CallFails, LookupFails, PullFails, Kill,
       OnlyMoves, call, disk, Goto, Return, Miss
  <1> QED
    BY <1>1, <1>2, <1>3, <1>4 DEF ProcStep, Failure, WriterActs, CallFails

LEMMA NeverNext ==
    ASSUME Inv, NeverLooks, [Next]_vars
    PROVE  /\ NeverLooks'
           /\ \A q \in Procs : policy[q] = "Never" /\ pc[q] # "idle" =>
                /\ pc'[q] \in {"hash", "load", "idle"}
                /\ (pc'[q] # pc[q] \/ tmp'[q] # tmp[q]) => UNCHANGED disk
  <1>1. CASE (\E t \in Tags, d \in Images : Push(t, d)) \/ UNCHANGED vars
    <2>1. UNCHANGED <<pc, policy, tmp>>
      BY <1>1 DEF Push, vars, call
    <2> QED
      BY <2>1 DEF NeverLooks
  <1>2. ASSUME NEW p \in Procs, ProcStep(p), NEW q \in Procs
        PROVE  /\ policy'[q] = "Never" => pc'[q] \in {"idle", "hash", "load"}
               /\ policy[q] = "Never" /\ pc[q] # "idle" =>
                    /\ pc'[q] \in {"hash", "load", "idle"}
                    /\ (pc'[q] # pc[q] \/ tmp'[q] # tmp[q]) => UNCHANGED disk
    <2>1. CASE q = p
      BY <1>2, <2>1, NeverStep
    <2>2. CASE q # p
      BY <1>2, <2>2, OthersUntouched DEF NeverLooks, Inv
    <2> QED
      BY <2>1, <2>2
  <1>3. CASE \E p \in Procs : ProcStep(p)
    BY <1>2, <1>3 DEF NeverLooks
  <1> QED
    BY <1>1, <1>3, PolicyType DEF Next, ProcStep

\* No step of a pull under Never writes to the cache or asks the registry,
\* whatever it finds there and whatever lookup fails.
THEOREM NeverReads == Spec => NeverOnlyReads
  <1>1. Init => NeverLooks
    BY DEF Init, NeverLooks
  <1>2. Inv /\ NeverLooks /\ [Next]_vars =>
          [\A p \in Procs : policy[p] = "Never" /\ pc[p] # "idle" =>
             /\ pc'[p] \in {"hash", "load", "idle"}
             /\ (pc'[p] # pc[p] \/ tmp'[p] # tmp[p]) => UNCHANGED disk]_vars
    BY NeverNext
  <1>3. Inv /\ NeverLooks /\ [Next]_vars => NeverLooks'
    BY NeverNext
  <1> QED
    BY <1>1, <1>2, <1>3, Invariance, PTL DEF Spec, NeverOnlyReads
=============================================================================
