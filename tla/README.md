# A TLA+ model of function-runtime-oci

function-runtime-oci runs Composition Functions, packaged as OCI images, as
rootless containers. These modules model what many of its processes share, the
cache directory with its images, reference mappings and extracted layers, and
what one call does: the processes and pipes it is made of, the extraction of
layers, the runtime spec. TLC checks small instances; TLAPS proves the main
safety properties for every number of processes, images, layers, files and
every size of pipes and limits.

## The system

    caller --gRPC--> runner --fork, pipes--> spark --fork, pipes--> crun --> function
                     (one)                   (one per call)
                                               |
                                               v
                                        the cache directory
                     d/  digest of each reference        (store.go, Digest)
                     i/  config files and layer tarballs (store.go, Image)
                     o/  extracted layers                (store_overlay.go)
                     c/  one bundle per run              (store_overlay.go, store_uncompressed.go)

| Component | State | Operations |
| --- | --- | --- |
| Caching puller, `internal/oci/pull.go` | none of its own | `Image` under the policies Always, IfNotPresent, Never |
| Image store, `internal/oci/store/store.go` | `i/`: a config file per image digest, a tarball per diff ID, temporary files | `Image`, `WriteImage`, `Layer`, `WriteLayer`, `Validate` |
| Digest store, same file | `d/`: a file per reference | `Hash`, `WriteHash` |
| Overlay bundler, `internal/oci/store/overlay` | `o/`: a directory per diff ID, work directories; bundles; mounts of the process | `Bundle`, `Resolve`, `NewLayerWorkdir`, `BootstrapBundle`, the `Cleanup`s |
| Uncompressed bundler, `internal/oci/store/uncompressed` | bundles | `Bundle`, `Cleanup` |
| Layer extraction, `internal/oci/layer` | the paths one handler has extracted (`handled`) | `Apply`, whiteouts, one handler per type of entry |
| spark, `cmd/function-runtime-oci/spark` | one run: deadline, pipes to the runtime | `Run` |
| Runner, `internal/container` | one goroutine per call, pipes to spark | `RunFunction` |
| Runtime spec, `internal/oci/spec` | none | options, passwd and group files, CPU and memory limits |

A runner starts a spark for each call. A spark pulls the image, bundles it, runs
the container and cleans up. Sparks share the cache directory and **no lock**;
what keeps them apart is that a file or directory is made under a temporary name
and renamed, that the digest of a blob names its content, and the order of the
writes. A spark can be killed at any moment: the runner's `exec.CommandContext`
kills it when the caller gives up.

### What is hard, and what makes each part correct

- *Puller and image store.* `WriteImage` puts the config file in place before any
  layer, lookups test only that layers exist, and a mapping is truncated before
  it is rewritten. Correct means: what is mapped or returned is on disk in full,
  whatever fails, is killed or races; the answer is what the reference names; no
  pull fails for another's sake; temporary files are removed; a policy of Never
  only reads.
- *Overlay bundler.* Two sparks extract a layer at once, the loser uses the
  winner's; an extraction needs its parents mounted; a mounted work directory
  must not be removed, for its upper directory may already be the cached layer.
  Correct means: a cached layer is whole and stays as it is, a race is no error,
  what a process has made it undoes, a container sees the image's files.
- *Extraction and uncompressed bundler.* The order of entries and whiteouts
  within a layer, entries that collide with what is there, links, and what one
  handler remembers across layers. Correct means: the root filesystem is the
  image's "flattened" one, or the call fails and leaves nothing.
- *Runner and spark.* Two bounded pipes read one after the other, a limit on
  each, two deadlines, and a kill that does not reach grandchildren. Correct
  means: an answer is all the function has written, a function that succeeds is
  answered, nobody waits for ever, the bundle is removed, and not before the
  container has ended.
- *Runtime spec.* Files read row by row, groups kept by UID, overflow and
  rounding, defaults. Correct means: nobody becomes root by mistake, a user has
  its groups, limits are valid and as asked, the network is isolated unless asked
  otherwise.

`PROJECT.json` lists each hazard at its line with the properties that cover it.

## The modules

| Module | Models |
| --- | --- |
| `ImageStore` | `i/` and what is read from it and renamed into it |
| `CachingPuller` | `CachingPuller.Image`, `never`, `always`, `FromImagePullConfig`, `WriteImage`, `WriteLayer`, `Hash`, `WriteHash`, by any number of processes |
| `ImageCache` | abstract: what a cache promises, without files |
| `CachingPullerProofs` | proofs about `CachingPuller`, and that it implements `ImageCache` |
| `CachingPullerCallProofs` | proofs about how a call of `CachingPuller` ends |
| `Overlay` | what a layer's tarball leaves in an upper directory, what a mount shows |
| `OverlayBundler` | `Bundle`, `Resolve`, `LayerWorkdir`, `BootstrapBundle`, `Cleanup`, by any number of processes |
| `LayerCache` | abstract: what the overlay store promises, without work directories and mounts |
| `OverlayBundlerProofs` | proofs about `OverlayBundler`, and that it implements `LayerCache` |
| `RunFunction` | one call: `Runner.RunFunction`, spark's `Run`, the runtime, the function, the pipes between them |
| `FunctionCall` | abstract: what a call promises its caller, without processes and pipes |
| `RunFunctionProofs` | proofs about `RunFunction`, and that it implements `FunctionCall` |
| `Extraction` | what the entries of a tarball do to a tree of paths, and what the image specification says they mean |
| `UncompressedBundler` | `Bundler.Bundle` and `Cleanup`, and layers extracted one mount each, entry by entry with `Extraction` |
| `ExtractionProofs` | lemmas about `Extraction`: paths, links on the way, trees stay trees |
| `FlatteningProofs` | lemmas about `Extraction`: when what the handlers do is what the specification says |
| `UncompressedBundlerProofs` | proofs about `UncompressedBundler` |
| `RuntimeSpec` | the options that make a runtime spec, passwd and group files, CPU and memory limits |
| `RuntimeSpecProofs` | proofs about `RuntimeSpec` |
| `MCCachingPuller`, `MCOverlayBundler`, `MCUncompressedBundler`, `MCRuntimeSpec` | instances for TLC |

### CachingPuller

A process is a spark in its call of `CachingPuller.Image`; an idle one stands
for a spark that is yet to be started. `pc` is where the call is, `stage[p][n]`
where the writer of the n-th blob is: position 0 is the config file, which
`WriteImage` itself writes, the others are layers, each with its goroutine of the
errgroup. Each action is one system call or one remote request with the control
up to the next: `Image` is the policy switch, over what `FromImagePullConfig`
makes of a request's pull policy, `Hash` and `Load` are `never`,
`Fetch` the remote image, `StatImage` the early return of `WriteImage`,
`Validate` the layer count (after the config file is in place, as in the code),
`StatLayer`, `CreateTemp`, `FillTemp`, `Rename` a writer, `Wait` the errgroup,
`TruncateHash` and `WriteHash` the two halves of `os.WriteFile`, `Reload` the
last lookup. `WriterFails`, `LookupFails` and `PullFails` fail a step with the
cleanup its error path does (reading the layers in `Validate` is one of them),
`Kill` stops a process and cleans up nothing.

A file is `none`, `partial` or `whole`. `current`, `pushed` and `known` are
history variables that only properties read.

### OverlayBundler

`pc` walks through `Bundle`'s loop over the layers (`stat` to `remove` is one
`Resolve`), `BootstrapBundle`, the container's run (`ready`) and `Cleanup`.
`over` is `o/`. A directory maps each file to the layer it came from, to
`Nothing` or to a `Whiteout`. `os.Rename` is two steps, the `Lstat` Go's
implementation makes and rename(2), for another spark can act in between. Mounts
belong to a process and end with it; its directories do not. `stuck` records
that a cleanup step itself has failed.

### RunFunction

`runner` and `spark` are where the two programs are: each reads one pipe to its
end or to `MaxStdio` before the next. A pipe has what is `left` to be written,
what it holds (`pipe`) and what was read (`got`), in units; `Write` and `Take`
block as the system calls do, `EndOf` holds once no process has the other side.
spark's own stdout is not inherited by the runtime, but the runtime's pipes are by
the container: a container that outlives a killed runtime (`outlives`) keeps
them open. `Cancel` ends the context of a gRPC call, `KillSpark` is what
`exec.CommandContext` then does, also after the call has returned; the run
command's context never ends. `Expire` is the request's timeout, which only
spark knows, `KillRuntime` what it does. `Prepare` is the pull and the bundle:
sparks share only the caches, so one call at a time tells all, and the other
modules look into that step. After a call the next one begins (`NextCall`).

### Extraction and UncompressedBundler

A path is a sequence of names, a tree maps each path to a file, a directory, a
symlink, a fifo or nothing. An operator stands for each handler: `Join` for
SecureJoin, `Whiteout` and `Opaque` for `WhiteoutHandler`, `Extract` for
`ExtractHandler` with its four extractors, `Refuses` for their errors. They are
translated from the code; `WhitedOut`, `Put` and `Flattened` below them are not,
but say what the OCI image specification does: whiteouts apply to lower layers,
entries replace what they find, a hard link is another name of a file. `Way`,
`Chain`, `Puts` and `Stacked` are recursive functions: how far a path has been
followed, the links that follow each other from one name, a layer's entries put,
layers stacked.

Symlinks and hard links are entries of different kinds. The code makes a symlink
of both. `Put` gives the second name of a hard link the node of the first, which
is what a reader of either finds as long as neither is written.

Links are followed on and on, as SecureJoin does: `Follow` goes up to `MaxLinks`
links from one name, and `Refuses` an entry where that is not enough
(`TooManyLinks`), which is how links to each other end. SecureJoin counts the
links of all names together and stops at 255.

`UncompressedBundler` walks through `Bundle`, one step per entry. With `shared`
all layers go into one directory with one `handled`, which is the uncompressed
bundler; without it each layer goes into a mount of its own, whose paths are
new, as the overlay store does it for a layer and its parent. `StepFails` fails
each step: those up to `Validate`, which reads the image again, return without a
cleanup, and half of `os.MkdirAll` may have been done. `doubts` collects
where an entry does something else than the specification without an error:

- `order`: a whiteout that deletes what its own layer put there before, or spares
  a directory, or deletes a link through which its layer has put something (`own`
  and `links` remember both);
- `link`: an entry written through a link, or into a fifo;
- `mode`: a file truncated in place, which keeps its mode;
- `stale`: a whiteout that is skipped for what an earlier layer extracted;
- `hard`: a hard link.

`LayersApplied` says that there is no sixth. It does not say that the five are
right: they are what the code does wrong. `LayersFlattened` is the claim without
exceptions, as the comment at store_uncompressed.go:51 has it, and each of the
doubts breaks it alone; its run shows how `stale` does.

### RuntimeSpec

`pc` is the next option: the image's config with the user it names, the root
filesystem, then what `FromRunFunctionConfig` adds. Rows are chosen as they are
read, so every file of up to `MaxRows` rows is. `Passwd`'s three maps are
`uids`, `gids` and `groups`, partial functions.

A quantity is what `resource.ParseQuantity` has made of a string: an `amount` in
the finest unit it keeps, and whether it is in the `long` form, which has any
number of digits. `MilliValue` and `Value`, of the Kubernetes library and hence
external, are conversions to an int64. `Scaled` is what they yield: the amount
rounded away from zero; zero where a short form does not fit; where a long form
does not fit, or is negative, any number, for the library keeps the low bits of
what does not fit and rounds small and large negative amounts differently.
Products wrap around at `Half`, 2^63 in the code.

## What TLC checks

| Run | Instance | Shows |
| --- | --- | --- |
| `puller_race` | 2 processes, 2 images sharing a layer, a tag that moves, no failures | `MappedImageComplete`, `AnswerIsNamed` and `PullSucceeds` |
| `puller_faults` | 2 processes, 1 image of 2 layers, every failure and kill | the same completeness with failures, `ReturnedImageComplete`, `NoTempLeft`, the inductive `Inv`, the refinement `CacheSpec` |
| `puller_kinds` | 1 process, references by tag, image and index, an image of too many layers, failures | `AnswerIsNamed`, `PullSucceeds`, `NeverOnlyReads`, `CallReturns` (liveness) |
| `overlay_bundles` | 2 processes, images of 2, 1, 0 and too many layers that share a layer, every failure and kill | `CachedLayerWhole`, `CachedLayerKept`, `RootfsHasOwnFiles`, `BundleSucceeds`, `NothingLeft`, `BundleEnds` (liveness), the inductive `Inv`, the refinement `LayerCacheSpec` |
| `run_function` | pipes of 1 unit, a limit of 2, stdout of 0 to 4, stderr of 0, 1, 2 and 4, every failure, timeout and cancellation | `AnswerWhole`, `SuccessAnswered`, `RootfsInUse`, `BundleRemoved`, `CancelReturns`, `TimeoutReturns`, `ModestReturns` and `SparkEnds` (liveness), the inductive `Inv`, the refinement `CallSpec` |
| `unpack` | 3 base layers with every layer of up to 2 of 16 entries on top, 3 with every one entry, some third layers, every failure and kill | `LayersApplied`, `NothingLeft`, `BundleEnds` (liveness), the inductive `Inv` |
| `runtime_spec` | passwd and group files of up to 2 rows, 15 ways to name a user, 92 CPU and 24 memory limits | `ResolvedUser`, `RootOnlyIfNamed`, `LimitsHold`, `NetworkAsAsked`, the inductive `Inv` |
| `known_mapping` | 2 processes, no failures | a violation, see below |
| `pulls_absent` | 1 process, an index | a violation |
| `layer_order` | 1 process, a file two layers hold | a violation |
| `lost_whiteout` | 1 process, a layer in two images | a violation |
| `flattened` | 2 layers, a file and its whiteout | a violation |

*Bounds.* Two processes suffice for the races: a conflict is between a step of
one and a step of another on one file, and a third process can only repeat what a
second does. Two layers are the least for which writers of one image interleave
and for which a layer has a parent; three exceed the limit (`MaxLayers`, 256 in
the code, is 2). Two images that share a layer are the least for which one pull
completes another's image. A third file would behave like one of the two, since
files are independent in `Overlay`. No counter needs a bound: all state spaces
are finite. Every call may be followed by another, so the runs cover calls over
a cache that earlier calls, complete, failed or killed, have left.

In `run_function` a pipe holds less than an output, than the limit and than a
request, so that every writer blocks; stdout is nothing, less than the limit,
one unit more than it, which pipe and limit hold together, and one unit more
than these. stderr is nothing, what fits the pipe, so that it can be written
while stdout is open (a call that `ModestReturns` is about), and two and four
units, which do not fit.

In `unpack` two names and paths of three names are the least with which a
directory has a sibling, a directory between an opaque whiteout and a
file, a link to another subtree, and two links on one way; a whiteout interacts
with one entry of its own layer at a time, so two entries on top suffice. A link
is to a name in the root or to one beside it. `Chained` has a link to a link
on the way to one, `Loop` two links to each other, and `MaxLinks` is 2, the least
with which links to links are followed. In `runtime_spec` two rows are the least
that share a UID, a name or a group. Integers have 8 bits, a thousandth 2 of the
finest units, and a whole 5 thousandths: the minimum, the maximum and the
overflow of both products are crossed by amounts between -6 and 70, the overflow
of the conversion to thousandths at 255, that of the conversion to whole bytes at
1271 and at -1281, in both forms.

*Symmetry* is used in the two puller races, over processes, which no property
tells apart; not where liveness is checked.

*Fairness.* `CallReturns` assumes weak fairness of the steps of each process and
of each goroutine, `BundleEnds` of the steps of each process: the kernel and the
Go runtime schedule them, and each step is enabled until it is taken. A step that
waits (`Wait`) is enabled only once its goroutines are done. A remote request
that hangs is ended by the context's deadline, and the container by the same
deadline, so `Fetch`, `FillTemp` and `Finish` are fair too. Nothing makes
anybody call, push, fail or be killed. `CallReturns` says only that a call ends,
not how. `RunFunction` assumes weak fairness of runner, spark and a function
that has not hung, each as one process, of the runtime's exit and of the two
kills, which goroutines of `os/exec` deliver; not of cancellations, timeouts,
failures or calls. `TimeoutReturns` supposes a container that ends with its
runtime: with one that does not, spark reads on until the caller gives up, and
`CancelReturns` needs no such thing. `ModestReturns` supposes outputs that fit:
more than a pipe on stderr while stdout is open, or more than limit and pipe on
stdout, blocks the function until the timeout. `UncompressedBundler` assumes
weak fairness of its only process.

## What is proved

For any sets of processes, images, layers, references and files, under the
assumptions the modules state about their constants (digests of images and
layers differ, each image has a sequence of layers, a tag is no digest, an index
names an image, the stand-ins for "nothing" are no members of the sets they are
used with):

- `CachingPullerProofs`: `TypeCorrect`; `Invariance` of `Inv`; `MappedComplete`
  and `ReturnedComplete`, the two safety properties every user of the cache
  counts on; `ImplementsCache`, that each step is a step of `ImageCache` or
  none.

  A mapping names a complete image because `WriteHash` runs after `Wait`, but
  that is not inductive: it needs that what a writer has marked done is whole on
  disk (`WritersDone`), which holds also when `StatLayer` skipped a layer because
  it exists. That needs that whatever exists is whole (`NoPartialFile`),
  which holds because what is renamed is filled (`TempFilled`). A call that
  returns ok read an image that is `Stored`, and with `NoPartialFile` stored
  means complete.

- `CachingPullerCallProofs`, on top of that `Inv`: `TempsRemoved`,
  `PullsSucceed`, `AnswersAreNamed` and `NeverReads`.

  No temporary file is left because each is, at any time, of a writer that is
  about to fill or rename it (`TempOwned`), and a call returns when no writer is.
  A pull is not refused at its end, for what it has written stays complete
  (`WritersDone`) and complete means `Stored`. The image it answers is one of the
  reference because every image a call works on and every mapping is
  (`CallNamed`, `StoresNamed`), and pushes only add to what a tag has named.
  A call under Never never leaves `never` (`NeverLooks`).

- `OverlayBundlerProofs`: `Invariance` of `Inv`; `LayersWhole`, `LayersKept`,
  `OwnFilesSeen`, `Succeeds` and `NoneLeft`; `ImplementsLayerCache`.

  `CacheStep` is the heart: a step changes `over` only by the rename of an upper
  directory that is the whole of its layer (`Extracted`), onto nothing or an
  empty directory. The deletion through a mounted work directory cannot happen,
  for a process that removes its work directory has unmounted it (`Held`).
  `Succeeds` needs that the layers a process has resolved are cached
  (`Resolved`), which no other process undoes, by `CacheStep` again.
  `OwnFilesSeen` needs that what is mounted shows the files only one of its layers
  touches (`Mounted`), whatever the order and whoever cached the layers: no layer
  that does not touch a file has it, or a whiteout of it. Each step of a process
  is a step of `LayerCache` or none.

- `RunFunctionProofs`: `Invariance` of `Inv`; `AnswersAreWhole`,
  `SuccessIsAnswered`, `RootfsIsKept`, `BundleIsRemoved`. Assumed are a limit
  above zero and an overhead above zero that fits into a pipe.

  What was written is in the pipe or read (`Conserved`). When spark has stopped
  reading stdout it has all of it or as much as it may (`StdoutRead`), and in the
  latter case the response is longer than the runner reads, by the overhead, so
  that the runner's answer is an error. That it is an error only then, and that
  the bundle is in place while the container runs, needs how the ends of the four
  processes are related (`Ends`) and that each error has a reason (`Reasons`).

  `ImplementsCall` says that all these processes are one `FunctionCall`: the
  function runs at most once, and only in its root filesystem; the caller is
  answered once, with the whole output or an error that has a reason. Each step
  is a step of the call or none: what moves in the pipes is not seen before there
  is an answer, and an answer is then whole by the invariant.

- `UncompressedBundlerProofs`, with the lemmas of `ExtractionProofs` and
  `FlatteningProofs`: `TypeCorrect`, that what is extracted is a tree, whatever
  the entries; `Invariance` of `Inv`; `BundlesAreRemoved`, that nothing extracted
  is left, and no directory but an empty one of a call that failed before it
  opened a layer; `ImagesAreFlattened`,
  for images of any number of layers with any entries, trees of any names and
  depth, and links followed any number of times. It says nothing of images with
  an entry in doubt, and thus nothing of hard links. Assumed is that images are
  sequences of sequences of entries (`EntryAssumption`).

  The code handles entries and whiteouts in the order of the tarball; the
  specification means all whiteouts first. `EntriesPut` says that what is
  extracted so far is as if the whiteouts so far had come first. An entry keeps
  that (`PutIsExtract`: without a doubt the handler puts what the specification
  puts). A whiteout does, for it may be brought forward past each earlier entry
  (`PutsSpared`): what it deletes is neither above nor at what its layer has put,
  and no link it deletes was on the way. `LayersStacked` adds the layers up. Both
  `Inv` and the proof need that own entries went through directories and known
  links only (`Clean`).

  The proof has corrected the model: for two links on one way `LayersApplied` was
  false, as no doubt was raised by a whiteout of a link its own layer had gone
  through. TLC then found the counterexample with two links on one way (the base
  layer `Twice`), and `links` was added.

- `RuntimeSpecProofs`: `Invariance` of `Inv`; `UserIsResolved`, `RootNamed`,
  `LimitsRight`, `NetworkRight`, for every image, request, file and width of
  integers. A user has the IDs and groups the files give it because the three
  maps hold, at any row, what the rows before it say (`PasswdParsed`,
  `GroupParsed`), of which `UserFound` is a copy. UID 0 can only come from a row
  (`UidsOfRows`) or the image. The limits are proved in integer arithmetic, from
  the definitions of the conversions and products: within the kernel's bounds
  always, and as asked for, rounded, where `Exact` and `Fits` say that nothing
  overflows. Where the conversion overflows nothing more is claimed: the limit
  may be lost, see below.

The library's induction theorems cannot be used, for they take an operator. What
is recursive is therefore a function over `0 .. n`, whose equation is proved for
the least number where it could fail (`LeastNatural`), from a well-founded
ordering's minimum.

Only liveness (`CallReturns`, `BundleEnds`, `CancelReturns`, `TimeoutReturns`,
`ModestReturns`, `SparkEnds`) is model-checked and not proved: fairness is beyond
the prover. Every safety property of a passing run, and each of the three
refinements, is proved.

## Where the code and its documentation disagree

- `KnownMappingKept`: a mapping that is rewritten is first truncated
  (store.go:130), so a reference that has been pulled is unknown for a moment, or
  for good after a kill. Under IfNotPresent the lookup falls back to the remote;
  under Never it fails.
- `OnlyPullsAbsent`: the digest of an index is looked up as if an image were
  stored under it (pull.go:212). It never is, so IfNotPresent always pulls and
  Never always fails, although the mapping has been written.
- `RootfsFlattened`: layers go to `lowerdir=` base first
  (store_overlay_linux.go:51), and overlayfs takes the first as the topmost. A
  container sees the base layer's version of a file, and files later layers
  delete. The order is wrong for the mount a layer is extracted over, too.
- `WhiteoutsConverted`: a layer is cached under its diff ID (store_overlay.go:240),
  but its whiteouts are those its first parents called for.
- `LayersFlattened`: the uncompressed bundler extracts all layers with one
  handler (store_uncompressed.go:82), whose `handled` (layer.go:175) makes it skip
  a whiteout of whatever an earlier layer has extracted. A deleted file stays.

The model shows more of them, which have no run of their own. The first four
break `LayersFlattened`, too, and are the doubts `hard`, `order`, `mode` and
`link`; `LimitsHold` and `ResolvedUser` except the last two.

- A hard link is extracted as a symlink (layer.go:226), with a name that is
  relative to the root but is then read relative to the link. In a directory it
  leads nowhere. The TODO at layer.go:222 says that it should be no symlink.
- An opaque whiteout removes a directory that no entry of its layer has named,
  with what the layer has put there before (layer.go:200), although layer.go:157
  says that only files of previous layers are deleted. An explicit whiteout does
  the same (layer.go:179).
- A whiteout of a lower layer's link leaves what its own layer has put through
  that link before.
- A file extracted over another keeps the other's mode, and one whose path is a
  link is written where the link points (layer.go:305).
- A memory limit such as `10E` does not fit an int64 and becomes zero
  (spec.go:260), a CPU limit such as `10P` gets no quota (spec.go:235), both
  without an error.
- Groups are kept by UID (spec.go:438), so the user an image names may get the
  primary group of another that shares the UID.

`RootfsHasOwnFiles` is what is left of the root filesystem's correctness: files
only one layer of the image touches are right, whoever cached the layers.

## What is left out

- The disk keeps what a system call has written: a loss of power, which without
  an fsync could leave a renamed file empty, is not modelled.
- Files a killed spark leaves behind are forgotten when its process calls again:
  their names are random, nothing reads or removes them.
- Run IDs are unique (`uuid.NewString`), so are the names of bundles.
- The registry, external, serves for a reference an image whose blobs have their
  digests, or fails; go-containerregistry verifies the digests.
- Links with more than one name in them, or with `..`; an error of SecureJoin
  other than too many links. A hard link to a name that is not in the root.
- What a file holds and how long it is. A file that is extracted into a fifo is
  taken to fit into it; a longer one would block spark for ever.
- Owners, times, and modes of directories; the environment, arguments, mounts
  and capabilities of a spec; the wording of errors.
- `overlay.Supported`, authentication, certificates, flags, logging, the
  generated gRPC code and stubs for other systems.
- How `ParseQuantity` reads a string, and that it caps what it keeps in the long
  form; a cap would only take away amounts that are modelled here.

## Plan

1. Done: the shared state, that is puller and image store, then the overlay
   bundler, with the proofs above.
2. Done: `Extraction` and `UncompressedBundler`, `RunFunction`, `RuntimeSpec`,
   with the proofs above.
3. Done: how a pull ends (`CachingPullerCallProofs`), `NothingLeft` of the
   uncompressed bundler.
4. Done: the remaining safety properties (`ResolvedUser`, `RootfsHasOwnFiles`,
   `LayersApplied`) and the refinements `LayerCache` and `FunctionCall`.
5. Next: proofs that the properties of the finding runs hold where their findings
   do not apply: `KnownMappingKept` while nobody rewrites a mapping,
   `RootfsFlattened` for images whose layers touch different files,
   `OnlyPullsAbsent` for references to images.
