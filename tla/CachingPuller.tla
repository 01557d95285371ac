--------------------------- MODULE CachingPuller ---------------------------
(***************************************************************************)
(* CachingPuller (internal/oci/pull.go) over the image store and the       *)
(* digest store (internal/oci/store/store.go).                             *)
(*                                                                         *)
(* The runner starts one spark process per RunFunction call, and every     *)
(* spark runs one CachingPuller.Image call over the same cache directory,  *)
(* with no lock between them.  Each system call and each remote request is *)
(* a step of its own here; each may fail, and a spark may be killed        *)
(* between any two.  A process of this module that is idle stands for a    *)
(* spark that is yet to be started, so it takes any number of calls.       *)
(*                                                                         *)
(* WriteImage writes the config file first and then all layers at once,    *)
(* one goroutine each.  The config file and a layer are written the same   *)
(* way, so both are `writers', numbered by ImageStore!Positions.           *)
(***************************************************************************)
EXTENDS ImageStore

CONSTANTS
    Procs,      \* spark processes
    Tags,       \* references by tag: a registry may move them
    Indexes,    \* digests of multi-platform indexes
    Platform,   \* the image of each index for the platform we run on
    NoHash,     \* stands for a mapping that is absent, or an empty file
    MayFail     \* whether steps may fail and processes may be killed

\* A reference names a tag, the digest of an image or the digest of an index.
Refs     == Tags \cup Images \cup Indexes
Digests  == Images \cup Indexes
Policies == {"Always", "IfNotPresent", "Never"}

\* What a request says of the policy: nothing, one of them, or a value that
\* this version of the API does not have.
PullConfigs == Policies \cup {"Unspecified", "Unknown"}

ASSUME RefsAssumption ==
    /\ Tags \cap Digests = {}
    /\ Images \cap Indexes = {}
    /\ NoHash \notin Digests
ASSUME PlatformAssumption == Platform \in [Indexes -> Images]
ASSUME MayFailAssumption  == MayFail \in BOOLEAN

Slots == UNION {Positions(d) : d \in Images}

VARIABLES
    mapping,  \* the digest store d/: the hash stored for each reference
    tag,      \* the registry: the image each tag names now
    pc,       \* where each process is in CachingPuller.Image
    ref,      \* the reference it was called with
    policy,   \* the pull policy it was called with
    img,      \* the digest it works on
    stage,    \* where each of its writers is
    tmp,      \* the temporary file of each of its writers
    outcome,  \* how its last call ended
    pushed,   \* history: the images each tag has ever named
    current,  \* history: the images ref named at some time in this call
    known     \* history: the references whose pull has succeeded

disk == <<file, mapping>>
call == <<ref, policy, img>>
vars == <<file, mapping, tag, pc, ref, policy, img, stage, tmp, outcome,
          pushed, current, known>>

Stages   == {"idle", "stat", "create", "fill", "rename", "done", "failed"}
Points   == {"idle", "hash", "load", "fetch", "config", "layers",
             "truncate", "map", "reload"}
\* "error" is what the code decides by itself, "fault" what a failed system
\* call or remote request makes of the call.
Outcomes == {"none", "ok", "error", "fault", "killed"}

TypeOK ==
    /\ file \in [Blobs -> Content]
    /\ mapping \in [Refs -> Images \cup {NoHash}]
    /\ tag \in [Tags -> Images]
    /\ pc \in [Procs -> Points]
    /\ ref \in [Procs -> Refs \cup {NoHash}]
    /\ policy \in [Procs -> Policies]
    /\ img \in [Procs -> Digests \cup {NoHash}]
    /\ stage \in [Procs -> [Slots -> Stages]]
    /\ tmp \in [Procs -> [Slots -> Content]]
    /\ outcome \in [Procs -> Outcomes]
    /\ pushed \in [Tags -> SUBSET Images]
    /\ current \in [Procs -> SUBSET Images]
    /\ known \subseteq Refs

\* An empty cache directory; the registry serves some image for each tag.
Init ==
    /\ file = [b \in Blobs |-> "none"]
    /\ mapping = [r \in Refs |-> NoHash]
    /\ tag \in [Tags -> Images]
    /\ pc = [p \in Procs |-> "idle"]
    /\ ref = [p \in Procs |-> NoHash]
    /\ policy = [p \in Procs |-> "IfNotPresent"]
    /\ img = [p \in Procs |-> NoHash]
    /\ stage = [p \in Procs |-> [n \in Slots |-> "idle"]]
    /\ tmp = [p \in Procs |-> [n \in Slots |-> "none"]]
    /\ outcome = [p \in Procs |-> "none"]
    /\ pushed = [t \in Tags |-> {tag[t]}]
    /\ current = [p \in Procs |-> {}]
    /\ known = {}

-----------------------------------------------------------------------------
(* The registry.                                                           *)

\* The image remote.Image returns: it follows an index to an image.
Resolve(r) ==
    CASE r \in Tags    -> tag[r]
      [] r \in Images  -> r
      [] r \in Indexes -> Platform[r]

\* Someone pushes another image under a tag.
Push(t, d) ==
    /\ tag[t] # d
    /\ tag' = [tag EXCEPT ![t] = d]
    /\ pushed' = [pushed EXCEPT ![t] = @ \cup {d}]
    /\ current' = [p \in Procs |->
         IF pc[p] # "idle" /\ ref[p] = t THEN current[p] \cup {d}
                                         ELSE current[p]]
    /\ UNCHANGED <<disk, pc, call, stage, tmp, outcome, known>>

-----------------------------------------------------------------------------
(* Helpers of the steps below.                                             *)

Goto(p, l) == pc' = [pc EXCEPT ![p] = l] /\ UNCHANGED outcome

Return(p, o) ==
    /\ pc' = [pc EXCEPT ![p] = "idle"]
    /\ outcome' = [outcome EXCEPT ![p] = o]

\* Mutant of Miss: never falls back to always whatever the policy.
MissPulls(p, o) == Goto(p, "fetch")

\* never returned an error: only IfNotPresent goes on to always.
Miss(p, o) == IF policy[p] = "Never" THEN Return(p, o) ELSE Goto(p, "fetch")

\* What a step of the pull leaves alone when it only moves the call.
OnlyMoves == UNCHANGED <<disk, tag, call, stage, tmp, pushed, current, known>>

-----------------------------------------------------------------------------
(* CachingPuller.Image and never.                                          *)

\* The policy spark asks for; where FromImagePullConfig sets none, parse's
\* default stands.
FromImagePullConfig(cfg) ==
    IF cfg \in {"Always", "Never"} THEN cfg ELSE "IfNotPresent"

\* Mutant of Image: Always looks for a known mapping first, too.
ImageTrustsCache(p, r, po) ==
    /\ pc[p] = "idle"
    /\ ref' = [ref EXCEPT ![p] = r]
    /\ policy' = [policy EXCEPT ![p] = po]
    /\ img' = [img EXCEPT ![p] = IF r \in Digests THEN r ELSE NoHash]
    /\ pc' = [pc EXCEPT ![p] = IF r \in Digests THEN "load" ELSE "hash"]
    /\ outcome' = [outcome EXCEPT ![p] = "none"]
    /\ stage' = [stage EXCEPT ![p] = [n \in Slots |-> "idle"]]
    /\ tmp' = [tmp EXCEPT ![p] = [n \in Slots |-> "none"]]
    /\ current' = [current EXCEPT ![p] = {Resolve(r)}]
    /\ UNCHANGED <<disk, tag, pushed, known>>

\* A reference by digest is its own hash; a tag is looked up.
Image(p, r, po) ==
    /\ pc[p] = "idle"
    /\ ref' = [ref EXCEPT ![p] = r]
    /\ policy' = [policy EXCEPT ![p] = po]
    /\ img' = [img EXCEPT ![p] = IF r \in Digests THEN r ELSE NoHash]
    /\ pc' = [pc EXCEPT ![p] = IF po = "Always" THEN "fetch"
                               ELSE IF r \in Digests THEN "load" ELSE "hash"]
    /\ outcome' = [outcome EXCEPT ![p] = "none"]
    /\ stage' = [stage EXCEPT ![p] = [n \in Slots |-> "idle"]]
    /\ tmp' = [tmp EXCEPT ![p] = [n \in Slots |-> "none"]]
    /\ current' = [current EXCEPT ![p] = {Resolve(r)}]
    /\ UNCHANGED <<disk, tag, pushed, known>>

\* Digest.Hash finds a hash, or finds no file or an empty one.
Hash(p) ==
    /\ pc[p] = "hash"
    /\ IF mapping[ref[p]] # NoHash
       THEN Goto(p, "load") /\ img' = [img EXCEPT ![p] = mapping[ref[p]]]
       ELSE Miss(p, "error") /\ UNCHANGED img
    /\ UNCHANGED <<disk, tag, ref, policy, stage, tmp, pushed, current, known>>

\* never ends with Image.Image.
Load(p) ==
    /\ pc[p] = "load"
    /\ IF Stored(img[p]) THEN Return(p, "ok") ELSE Miss(p, "error")
    /\ OnlyMoves

-----------------------------------------------------------------------------
(* always and WriteImage.                                                  *)

\* RemoteClient.Image, which refuses under Never, when always is not called;
\* then WriteImage looks for the image.
Fetch(p) ==
    /\ pc[p] = "fetch"
    /\ Goto(p, "config")
    /\ img' = [img EXCEPT ![p] = Resolve(ref[p])]
    /\ stage' = [stage EXCEPT ![p][0] = "stat"]
    /\ UNCHANGED <<disk, tag, ref, policy, tmp, pushed, current, known>>

\* WriteImage returns at once if Image.Image finds the image stored.
StatImage(p) ==
    /\ pc[p] = "config" /\ stage[p][0] = "stat"
    /\ IF Stored(img[p])
       THEN Goto(p, "truncate") /\ stage' = [stage EXCEPT ![p][0] = "done"]
       ELSE /\ stage' = [stage EXCEPT ![p][0] = "create"]
            /\ UNCHANGED <<pc, outcome>>
    /\ UNCHANGED <<disk, tag, call, tmp, pushed, current, known>>

\* Mutant of Validate: an image may not even have as many layers as allowed.
ValidateStrictly(p) ==
    /\ pc[p] = "config" /\ stage[p][0] = "done"
    /\ IF Len(LayersOf[img[p]]) < MaxLayers
       THEN /\ Goto(p, "layers")
            /\ stage' = [stage EXCEPT ![p] =
                 [n \in Slots |-> IF n \in Positions(img[p]) \ {0}
                                  THEN "stat" ELSE stage[p][n]]]
       ELSE Return(p, "error") /\ UNCHANGED stage
    /\ UNCHANGED <<disk, tag, call, tmp, pushed, current, known>>

\* The config file is in place.  Only now are the layers counted, and each
\* gets a goroutine.
Validate(p) ==
    /\ pc[p] = "config" /\ stage[p][0] = "done"
    /\ IF Valid(img[p])
       THEN /\ Goto(p, "layers")
            /\ stage' = [stage EXCEPT ![p] =
                 [n \in Slots |-> IF n \in Positions(img[p]) \ {0}
                                  THEN "stat" ELSE stage[p][n]]]
       ELSE Return(p, "error") /\ UNCHANGED stage
    /\ UNCHANGED <<disk, tag, call, tmp, pushed, current, known>>

\* The config file could not be written.
Abandon(p) ==
    /\ pc[p] = "config" /\ stage[p][0] = "failed"
    /\ Return(p, "fault")
    /\ OnlyMoves

\* Mutants of Wait: not waiting at all, waiting for goroutines that were not
\* started, and dropping the error of a goroutine.
WaitForNone(p) ==
    /\ pc[p] = "layers"
    /\ Goto(p, "truncate")
    /\ OnlyMoves

WaitForMore(p) ==
    /\ pc[p] = "layers"
    /\ \A n \in Slots : stage[p][n] \in {"done", "failed"}
    /\ IF \E n \in Positions(img[p]) : stage[p][n] = "failed"
       THEN Return(p, "fault")
       ELSE Goto(p, "truncate")
    /\ OnlyMoves

WaitDropsError(p) ==
    /\ pc[p] = "layers"
    /\ \A n \in Positions(img[p]) : stage[p][n] \in {"done", "failed"}
    /\ Goto(p, "truncate")
    /\ OnlyMoves

\* g.Wait returns once all goroutines have, with an error if one had one.
Wait(p) ==
    /\ pc[p] = "layers"
    /\ \A n \in Positions(img[p]) : stage[p][n] \in {"done", "failed"}
    /\ IF \E n \in Positions(img[p]) : stage[p][n] = "failed"
       THEN Return(p, "fault")
       ELSE Goto(p, "truncate")
    /\ OnlyMoves

\* Digest.WriteHash is os.WriteFile: it opens the file with O_TRUNC ...
TruncateHash(p) ==
    /\ pc[p] = "truncate"
    /\ mapping' = [mapping EXCEPT ![ref[p]] = NoHash]
    /\ Goto(p, "map")
    /\ UNCHANGED <<file, tag, call, stage, tmp, pushed, current, known>>

\* Mutant of WriteHash: the mapping holds the reference, not the digest.
WriteReference(p) ==
    /\ pc[p] = "map"
    /\ mapping' = [mapping EXCEPT ![ref[p]] = ref[p]]
    /\ Goto(p, "reload")
    /\ UNCHANGED <<file, tag, call, stage, tmp, pushed, current, known>>

\* ... and then writes it.
WriteHash(p) ==
    /\ pc[p] = "map"
    /\ mapping' = [mapping EXCEPT ![ref[p]] = img[p]]
    /\ Goto(p, "reload")
    /\ UNCHANGED <<file, tag, call, stage, tmp, pushed, current, known>>

\* always ends with Image.Image.
Reload(p) ==
    /\ pc[p] = "reload"
    /\ IF Stored(img[p])
       THEN Return(p, "ok") /\ known' = known \cup {ref[p]}
       ELSE Return(p, "error") /\ UNCHANGED known
    /\ UNCHANGED <<disk, tag, call, stage, tmp, pushed, current>>

-----------------------------------------------------------------------------
(* The writers: of the config file in WriteImage (n = 0), of a layer in    *)
(* WriteLayer.                                                             *)

Writing(p, n) ==
    \/ pc[p] = "config" /\ n = 0
    \/ pc[p] = "layers" /\ n \in Positions(img[p]) \ {0}

\* What one step of a writer leaves alone.
OnlyWrites == UNCHANGED <<mapping, tag, pc, call, outcome, pushed, current, known>>

At(p, n, s) == Writing(p, n) /\ stage[p][n] = s

Enter(p, n, s) == stage' = [stage EXCEPT ![p][n] = s]

\* WriteLayer returns at once if Image.Layer finds that the layer exists.
StatLayer(p, n) ==
    /\ n # 0 /\ At(p, n, "stat")
    /\ Enter(p, n, IF Exists(Blob(img[p], n)) THEN "done" ELSE "create")
    /\ UNCHANGED <<file, tmp>> /\ OnlyWrites

\* Mutant of CreateTemp: the file is written under its own name.
CreateInPlace(p, n) ==
    /\ At(p, n, "create")
    /\ Enter(p, n, "fill")
    /\ RenameOnto(Blob(img[p], n), "partial")
    /\ tmp' = [tmp EXCEPT ![p][n] = "partial"]
    /\ OnlyWrites

\* os.CreateTemp.
CreateTemp(p, n) ==
    /\ At(p, n, "create")
    /\ Enter(p, n, "fill")
    /\ tmp' = [tmp EXCEPT ![p][n] = "partial"]
    /\ UNCHANGED file /\ OnlyWrites

\* os.WriteFile of the config, or copyChunks of the layer as it is pulled.
FillTemp(p, n) ==
    /\ At(p, n, "fill")
    /\ Enter(p, n, "rename")
    /\ tmp' = [tmp EXCEPT ![p][n] = "whole"]
    /\ UNCHANGED file /\ OnlyWrites

\* os.Rename replaces a file another writer has put there meanwhile.
Rename(p, n) ==
    /\ At(p, n, "rename")
    /\ Enter(p, n, "done")
    /\ RenameOnto(Blob(img[p], n), tmp[p][n])
    /\ tmp' = [tmp EXCEPT ![p][n] = "none"]
    /\ OnlyWrites

-----------------------------------------------------------------------------
(* Failures.                                                               *)

\* Mutants of WriterFails: the error of copyChunks is dropped; os.Remove is
\* forgotten.
CopyErrorDropped(p, n) ==
    /\ MayFail
    /\ At(p, n, "fill")
    /\ Enter(p, n, "rename")
    /\ UNCHANGED <<file, tmp>> /\ OnlyWrites

TempForgotten(p, n) ==
    /\ MayFail
    /\ \E s \in {"create", "fill", "rename"} : At(p, n, s)
    /\ Enter(p, n, "failed")
    /\ UNCHANGED <<file, tmp>> /\ OnlyWrites

\* A step of a writer fails; os.Remove removes its temporary file.
WriterFails(p, n) ==
    /\ MayFail
    /\ \E s \in {"create", "fill", "rename"} : At(p, n, s)
    /\ Enter(p, n, "failed")
    /\ tmp' = [tmp EXCEPT ![p][n] = "none"]
    /\ UNCHANGED file /\ OnlyWrites

\* The digest or the image cannot be read: never returns an error.
LookupFails(p) ==
    /\ MayFail
    /\ pc[p] \in {"hash", "load"}
    /\ Miss(p, "fault")
    /\ OnlyMoves

\* A step of always fails, or that Validate reads the layers.  A WriteHash
\* that fails after its open leaves the file empty.
PullFails(p) ==
    /\ MayFail
    /\ \/ pc[p] \in {"fetch", "truncate", "map", "reload"}
       \/ pc[p] = "config" /\ stage[p][0] = "done"
    /\ Return(p, "fault")
    /\ OnlyMoves

\* The process is killed, with all its goroutines.  Nothing is cleaned up.
Kill(p) ==
    /\ MayFail
    /\ pc[p] # "idle"
    /\ Return(p, "killed")
    /\ OnlyMoves

-----------------------------------------------------------------------------
CallStep(p) ==
    \/ Hash(p) \/ Load(p) \/ Fetch(p) \/ StatImage(p) \/ Validate(p)
    \/ Abandon(p) \/ Wait(p) \/ TruncateHash(p) \/ WriteHash(p) \/ Reload(p)

WriterStep(p, n) ==
    StatLayer(p, n) \/ CreateTemp(p, n) \/ FillTemp(p, n) \/ Rename(p, n)

Failure(p) ==
    \/ LookupFails(p) \/ PullFails(p) \/ Kill(p)
    \/ \E n \in Slots : WriterFails(p, n)

Next ==
    \/ \E t \in Tags, d \in Images : Push(t, d)
    \/ \E p \in Procs :
         \/ \E r \in Refs, cfg \in PullConfigs :
               Image(p, r, FromImagePullConfig(cfg))
         \/ CallStep(p)
         \/ \E n \in Slots : WriterStep(p, n)
         \/ Failure(p)

Spec == Init /\ [][Next]_vars

\* The kernel keeps running a process, and the Go runtime its goroutines.
\* Nothing obliges anyone to call, to push, to fail or to be killed.
Fairness ==
    \A p \in Procs :
        /\ WF_vars(CallStep(p))
        /\ \A n \in Slots : WF_vars(WriterStep(p, n))

FairSpec == Spec /\ Fairness

-----------------------------------------------------------------------------
(* What should be true of it.                                              *)

\* Whatever reference the cache has a hash for, every byte of that image is
\* on disk: always writes the mapping last, after every goroutine of
\* WriteImage, so neither a kill nor another process may expose it earlier.
MappedImageComplete ==
    \A r \in Refs : mapping[r] # NoHash => Complete(mapping[r])

\* The image a pull returns is on disk in full, though Image.Image only
\* checks that its layers exist: what exists under a digest is never partial.
ReturnedImageComplete ==
    \A p \in Procs : outcome[p] = "ok" => Complete(img[p])

\* A pull returns an image its reference names: under Always one the registry
\* served during the call, else one it has served at some time.  A digest
\* names itself, or one image of an index.
AnswerIsNamed ==
    \A p \in Procs : outcome[p] = "ok" =>
        IF policy[p] = "Always" THEN img[p] \in current[p]
        ELSE img[p] \in IF ref[p] \in Tags THEN pushed[ref[p]]
                                           ELSE {Resolve(ref[p])}

\* If no step fails, a pull that may use the remote succeeds, whatever other
\* processes write at the same time; only an image of too many layers is
\* refused.
PullSucceeds ==
    \A p \in Procs :
        outcome[p] = "error" /\ policy[p] # "Never" => ~ Valid(img[p])

\* A call that returns, with or without an error, leaves no temporary file:
\* every error path of WriteImage and WriteLayer removes its own, and Wait
\* outlasts every goroutine.  Only a killed process leaves some.
NoTempLeft ==
    \A p \in Procs :
        outcome[p] \in {"ok", "error", "fault"} =>
            \A n \in Slots : tmp[p][n] = "none"

\* A pull under the policy Never writes nothing and asks the registry for
\* nothing, also after a failed lookup (pull.go, ImagePullPolicyNever).
NeverOnlyReads ==
    [][\A p \in Procs : policy[p] = "Never" /\ pc[p] # "idle" =>
         /\ pc'[p] \in {"hash", "load", "idle"}
         /\ (pc'[p] # pc[p] \/ tmp'[p] # tmp[p]) => UNCHANGED disk]_vars

\* Every call ends: Wait cannot wait for a goroutine that is never started.
CallReturns == \A p \in Procs : pc[p] # "idle" ~> pc[p] = "idle"

\* What pull.go says of ImagePullPolicyNever (`a local cache of known
\* mappings'), and what retrying under Never relies on: once a pull of a tag
\* has succeeded, the cache knows the tag.  (The mapping of a digest is written,
\* too, but never read.)
KnownMappingKept == \A r \in known \cap Tags : mapping[r] # NoHash

\* What pull.go says of ImagePullPolicyIfNotPresent: it only pulls from a
\* remote if the image is not in the local cache.
OnlyPullsAbsent ==
    \A p \in Procs :
        pc[p] = "fetch" /\ policy[p] = "IfNotPresent" =>
            mapping[ref[p]] = NoHash \/ ~ Stored(mapping[ref[p]])

-----------------------------------------------------------------------------
(* Why the two Complete properties hold: the inductive invariant of        *)
(* CachingPullerProofs.                                                    *)

\* A call has a reference and no outcome yet, and always works on an image.
CallBound ==
    \A p \in Procs :
        /\ pc[p] # "idle" => ref[p] \in Refs /\ outcome[p] = "none"
        /\ pc[p] \in {"config", "layers", "truncate", "map", "reload"} =>
              img[p] \in Images

\* Only whole files are renamed into the store, so what exists is whole.
NoPartialFile == \A b \in Blobs : file[b] # "partial"

\* A writer about to rename has filled its temporary file.
TempFilled ==
    \A p \in Procs, n \in Slots : At(p, n, "rename") => tmp[p][n] = "whole"

\* What the writers of a call have done stays done.
WritersDone ==
    \A p \in Procs :
        /\ pc[p] \in {"config", "layers"} =>
              \A n \in Positions(img[p]) :
                  Writing(p, n) /\ stage[p][n] = "done" =>
                      file[Blob(img[p], n)] = "whole"
        /\ pc[p] = "layers" => file[img[p]] = "whole" /\ stage[p][0] = "done"
        /\ pc[p] \in {"truncate", "map", "reload"} => Complete(img[p])

Inv ==
    /\ TypeOK
    /\ CallBound
    /\ NoPartialFile
    /\ TempFilled
    /\ WritersDone
    /\ MappedImageComplete
    /\ ReturnedImageComplete

-----------------------------------------------------------------------------
(* It implements ImageCache.                                               *)
Cache == INSTANCE ImageCache WITH
    complete <- {d \in Images : Complete(d)},
    answer   <- [p \in Procs |-> IF outcome[p] = "ok" THEN img[p] ELSE NoHash]

CacheSpec == Cache!Spec
=============================================================================
