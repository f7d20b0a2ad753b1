# image-thrillhouse: TLA+ models, TLC runs and TLAPS proofs

This directory models the core logic of image-thrillhouse, a Go program that
builds OS images in buildah containers from YAML configs, publishes them to
several destinations, and promotes tested images to release names. Every
definition is translated from the Go source; `PROJECT.json` ("map") names the
lines each one stands for, and lists the hazards the properties are aimed at.

## 1. The system

| Component | State it keeps | Operations | Hard behaviour | What makes it correct |
|---|---|---|---|---|
| Build pipeline (`internal/builder/builder.go`) | position in the build, deferred calls, what was placed in the root and on the host | `Build` and its stages: bootstrap, repos, keys, files, dirs, install, commands, remove, oscap, labels, publish | stages reordered for empty-root backends, failure at any command, tolerated exit codes, cancellation, deferred calls in LIFO order | nothing incomplete is published; nil means delivered everywhere; nothing temporary is left; the parent is pruned after the container |
| Backends (`internal/backend/*`) | none | capabilities, tolerated exit codes, install commands | what is legal in which mode | commands run where they can |
| Ansible runner, OpenSCAP scanner | stage directory, downloaded feed | verify, stage, run; install, eval, fix, oval | which failures are fatal, clean-up on every path | as the pipeline |
| Container wrapper and image store (`internal/buildah`) | store handle, mount count, pulled parent | NewContainer, Run, RunScript, Commit, Delete, PulledParentID, prune | a store shared with podman and other builds; mounts left by buildah.Run; stray processes | a prune takes only what this run brought; nothing is left mounted in silence |
| Publishers (`internal/publisher/*`) | none; the destination holds the state | Publish, Exists | several requests per image, lost answers, kills, concurrent runs | what is reported published is there, whole and this run's |
| Promotion (`cmd/.../main.go`, `internal/promote`) | targets, failures | bulk and named promote, retag, materialise | best-effort fan-out, probe then write, colliding arches | exit status tells the truth; nothing is written before a layer resolved |
| Manifest, DAG, content tags (`internal/manifest`, `internal/tag`) | layers | load, expand, cycle check, compute tags, hash a layer's files | chained hashes, two renderings that must agree, a hasher and a copy that walk one tree by different rules | a tag changes exactly when an input does |
| Config and commands (`internal/config`, `main.go`) | flags, variables | `validate`, `render`, `build`: bind variables, render, parse, validate, make backend and publishers | rules written twice, three commands with a path each to one config | `validate` accepts what `build` accepts; a child renders its parent's tag |
| Downloads (`internal/fetch`, `internal/oscap`) | bytes read and decoded | `Get`, `fetchOVAL` | two caps, a decoder that reads ahead, a body cut at the cap | whole or an error, and the right error |
| Key names (`gpgKeyName`, `safeKeyName`) | names handed out | import of each repository's key | shared, missing and rewritten names | no repository's key replaces another's |
| Log writers (`ansibleStreamWriter`, `BufLogWriter`) | pending line, box | Write, Flush | writes cut at any byte, redrawn lines | both show the same lines |
| Labels, squashfs helper, legacy converter | none | pure functions and I/O | none | see section 7 |

Interactions: `main` checks its flags, binds variables, computes the tags of a manifest's layer, renders and validates a config and hands it with a backend and a list of
publishers to `Builder.Build`, under a context that the first SIGINT or SIGTERM
cancels (a second one exits the process). `Build` calls the container wrapper,
which calls buildah and containers-storage; that store is shared with every other
build and podman user of the host. Publishers write to registries, S3 and files,
which other runs write as well. `promote` is another invocation of the program; it
meets builds only through the registry and the host's store.

## 2. Modules

| Module | Models | Contents |
|---|---|---|
| `Backends` | the backend interface: operators, no state | capabilities, `IsAcceptableExitCode`, kinds and order of install commands |
| `BuildPipeline` | one run of `Builder.Build` with signals | composes `Backends`; implements `BuildContract` |
| `BuildContract` | abstract: what a run promises its caller | refuse, skip, acquire, deliver in order, succeed only after all, release |
| `ImageStore` | `NewContainer`, `Delete`, prune of several builds and podman users | one storage call per step |
| `Publish` | Publish and Exists of the four publishers, several runs | one request or file step per step |
| `Promote` | `runPromote`, `promoteLayer`, retag and materialisation, with builds that push | one request per step |
| `Manifest` | `Load`, `NewDAG` and the lookups | one stage of loading per step; operators for the pure parts |
| `TagChain` | `ComputeTags`, `RenderVars`, `buildLayer` over several checkouts and one registry | one layer hashed per step |
| `LayerHash` | `hashLayer` against what the build copies and mounts, while the host's files are edited | one edit or build per step |
| `Config` | the rules of `validate.go`, `newBackend` and `newPublishers` | operators, no state |
| `Commands` | `validate`, `render` and `build` up to `Builder.Build`, over one checkout | extends `Manifest` and `Config`; one stage of a command per step |
| `FetchOval` | `fetchOVAL` and `Get` | one read, decode or failure per step |
| `KeyNames` | `importGPGKeys` with the backends' key stores | one repository per step |
| `OutputStream` | the streaming and the block writer | one write per step |
| `BuildPipelineProofs`, `ImageStoreProofs`, `PublishProofs`, `PromoteProofs`, `TagChainProofs`, `LayerHashProofs` | theorems about one module each | section 6 |
| `CommandsProofs` | theorems about `Manifest` and `Commands` | section 6 |
| `HelperProofs` | theorems about `FetchOval`, `KeyNames` and `OutputStream` | section 6 |
| `MC*` and `*.cfg` | finite instances | section 3 |

### BuildPipeline
`phase` is the part of `Build` that executes, `pos` the stage in `Order(cfg)`
(which is inverted for a backend that demands an empty root), `idx` and `step` the
place in the stage's loop. A command is launched (`Launch`) and returns in a second
step, so a signal can arrive while it runs. A result has an exit code and says whether
the command crashed. `root` is ground truth: the effects that are really
there. It is updated from whether the command did its work, independently of how the code
classifies the result, so that a classification that accepts too much is visible.
`litter`, `rmFailed` and `hostTmp` are files left in the image and on the host.
`defers` is Go's defer stack. Every deferred or immediate clean-up that the code
makes is part of the action whose function makes it.

### ImageStore
Each storage call is a step: list, pull, create, mount; sweep, unmount, force
unmount, delete; remove image. The base reference may resolve to another image
every time (`Ref`), a listing may fail, a mount may fail, a command may
leave mounts behind or a process that pins one. An unmount succeeds, which for the plain one may leave the
layer mounted, or fails; a forced one that errs and one that finds the layer still mounted are both a failure. A failed
step of `Delete` is only logged, in `warned`, and the next one follows; the container is deleted over a live mount
then, as in the code. Podman users pull, run and remove
images at any moment. `puller` and `before` record who brought an image and what
was there when a build listed the store; the code has no such record.

### Publish
A run is its own content. A destination is a map from keys to contents. `Request` is
done, refused, or done with its answer lost. `disturbed` records that another run
wrote one of the run's keys while it was publishing. A file destination can hold
a `Partial` file.

### Manifest
A name is a sequence of its hyphen-separated parts, so the suffixing of an architecture is `\o`.
`Validate`, `Expand` and `NewDAG` are the three stages of loading; `Resolve`, `LogicalNames` and
`ConcreteLayersFor` are the lookups of the commands, checked on the loaded DAG. `checkCycle` is a depth-first walk of
one visit per step: `StartAt` takes a layer from `unchecked`, `VisitDep` goes down to the first dependency that is not visited
and is refused at one on `path`, `Leave` moves the end of `path` to `visited`, and `AllChecked` ends it. The code starts at the
layers in the order of a map, so any order is possible; `visited` is emptied with each start, as in the code.

An expansion appends the architecture to the layer's name and nothing looks for a clash, so two of them can have
one name: "a-b" for "c" and "a" for "b-c". `NewDAG` then keeps the later. `ExpansionsApart` says of a manifest that
no two expansions clash, `NamesApart` that no layer has the name of an expansion. The code ensures neither. They are
hypotheses of two theorems, and `MCCommands` has TLC evaluate that the manifests of the run `manifest` satisfy them;
those of `manifest_names` do not.

### TagChain
A tag is the structure that is hashed: the parents' tags, the rendered text, the files. `stack` and
`tags` are the recursion and the memo of `ComputeTags`; the memo is a map that holds a layer from the moment its tag
is computed. `TagChainAssumption` gives each of finitely many layers a depth, since a manifest with a cycle is
refused. An image is what it was made
from: its base image, the text that was rendered for it and the files copied into it. The checkout is read
anew for the tag, for the render and for the copy, as in the code.

### LayerHash
`disk` holds the host's directories as maps from a path to a node (file, directory or link, with content, mode, set-id
bits and owner). `HashLayer` is the text that is fed to SHA-256, as a sequence of numbers with the code's length prefixes
and type letters, so that two trees have one tag exactly if the code feeds one text. A letter is a negative number: a length
is eight bytes of which the first is 0, so no letter is read for a length. `Image` is what the same build would
take from the same disk, by the copy's own rules. Both follow a file source that is a link (`Opened`), neither a link in a tree. The copy looks into excluded directories for what is re-included, matches patterns
against other paths when a source is copied whole, and follows a source that is a link (`RootOf`). A build skips to
`registry[tag]` or makes the image.

### Config and Commands
A config is a record of what the rules tell apart; a text of which only presence matters is a BOOLEAN. `Commands` runs the three
commands one after the other with the same flags. `stage` is where the running one is: flags, variables, manifest, tags,
render, parse, backend, publishers. `Invoke` picks the command line. `VisitParent` and `ComputeTag` are `ComputeTags`, with `stack` for
the recursion and `tags` for the memo; `RenderVars` is the merge of variable files, command line and computed variables.
`ended` and `output` keep what each command came to. The manifest does not change and is
loaded once, by `Manifest`'s own actions.

### FetchOval, KeyNames, OutputStream
Three helpers that share no state; `MCHelpers` runs one of them at a time. In `FetchOval`, `wire` is the count of bytes taken from the
limited body and `out` of those in the result; a body is its size, the size it decodes to and whether a block is
broken, and reading, read-ahead and failures come in any order. A connection that fails behind the header is reported
like a decoder's error, by the code's words too; `lost` tells the two apart. In `KeyNames`, a name is a sequence of parts, so that appending an
index is `Append`, and the key store is a map from a file to the repository whose key it holds. In `OutputStream`, a byte is what the
writers tell apart: line feed, carriage return, white space, the start of a quiet line, text.

### Promote
A layer is a sequence of arches, each a sequence of targets. `resolve` walks all
arches, then the targets are begun (credentials, probe), read (the tag, or the
host's store, pulled if missing) and written (a tag, or three objects). `resolved`,
`tried`, `written` and `before` (the promotes that had ended when one starts its targets) are traces for the properties.

`ReleasesApart` says of the jobs' inputs that no release is written to a content tag and that no two content tags
are released to one reference or prefix. The command checks this for the registry references of one layer's
arches only; an S3 prefix does not even hold the image's name. `ReleasedFromSource` needs it, and `MCPromote` has TLC
evaluate it for the run's inputs.

## 3. Runs

| Run | Question | Instance | Distinct states |
|---|---|---|---|
| `build` | what a returned build promises, whether it implements its contract, whether it ends after a signal | ten configs: every backend, both modes, unsupported combinations; at most two items of a stage; exit codes -1, 1, 107 | 69 000 |
| `store` | what a prune may and must remove; what a clean-up leaves behind without a word | two builds (one prunes), two images, mount count up to 2 for the one that prunes | 8.5 million |
| `publish` | what is at the destination when a run reports success or skips | three runs, three tags, all four destinations | 490 000 |
| `promote` | exit status, best-effort order, source of released bytes | two jobs out of ten inputs, four references, one directory | 1.57 million |
| `manifest` | which manifests load and how they expand; whether the commands agree; whether a child names its parent's tag | every graph over three layers, three choices of arches for the first and two for the second, ten mistakes; over some of them, every rule of a config broken once | 282 000 |
| `tags` | what an image under a content tag is | two checkouts, three layers (one with a parent and a grandparent among its parents), two versions of every input, one edit, three builds of each checkout | 3.3 million |
| `hash` | whether a layer's tag moves with what the build takes from the host | twelve kinds of config, two edits, a build after each | 29 000 |
| `helpers` | whether a download is whole, keys stay apart, streamed lines are the whole output's | section on bounds below | 74 000 |
| `publish_exists`, `manifest_names`, `hash_stale`, `hash_split` | one documented statement each, which TLC refutes | subsets of the above | |

What the properties say:

* `build`. `PublishedIsComplete`: no destination is touched before every mandatory
  step really had its effect. `EmptyRootBootstrap`: an empty-root backend finds an empty
  root. `NilMeansEverywhere`: nil means every destination, by publishing or by skipping.
  `LitterOnlyIfRmFailed`, `HostTmpRemoved`: keys, scripts and stage directories.
  `PruneCompletes`: the prune comes after the delete, on every path. `CancelEnds`:
  a cancelled build ends. `ImplementsContract`: the refinement.
* `store`. `PriorImagesStay`: a prune never removes an image that was listed, even
  when listing failed. `PruneLeavesNothing`: a build never stands in the way of
  its own prune. `LeaksAreReported`: however many mounts the commands left and whichever unmount or delete failed, a layer that is still
  mounted or a container that is still there has been warned of, though the plain unmount reports success over a mounted
  layer. It does not say that the container is deleted unmounted: the code deletes it whatever the unmounts came to.
* `publish`. `PublishedIsOwn`: what is reported published is this run's image under
  every key. `SkippedImageHasAllTags`: a local or registry image is skipped only when all its
  tags exist, through retries, kills and lost answers.
* `promote`. `NilMeansReleased`, `EveryTargetTried`: no failure is forgotten and none withholds
  another target. `ResolveBeforeWrite`: no write before all arches of the
  layer resolved. `OneArchPerRef`: two arches never write one reference.
  `ReleasedFromSource`: released bytes come from the content tag of that layer and arch.
  `ReleasesStay`: a release that a promote completed is never written again by an unforced promote that starts its
  targets later, though every probe is a request of its own.
* `manifest`. `AcceptsExactlyDags`: refused for a cycle exactly when there is one, by a
  reference definition over logical layers. `ParentsAreSameArch`: a child's parents are
  the expansions of its own for its own arch. `BulkCoversAll`: a bulk promote walks every concrete layer.
  `EveryExpansionResolves`: each layer can be named, if no layer's name is another's expansion.
  `CommandsAgree`: with the same flags `validate` and `build` are refused in the same stage or neither is, but for the
  S3 credentials that only `build` looks for; what `render` shows is what the other two used. `PinsParentTag`: whatever variables the user sets and over
  however many paths a parent is reached, a child is rendered with the tag its parent is published under.
* `tags`. `TagMeansCheckout`: when a build succeeded, by building or by skipping, the image under its tag is the
  one its checkout stands for, down to the root layer, and stays so whatever other checkouts publish.
  `TagsNeverMove`: no build changes or removes an image under a tag, though two that overlap both publish to it.
* `hash`. `StaleOnlyByKnownGap`: after any edit of what a build takes from the host, a build never skips to an image that differs from the one
  it would make, except for the gaps that section 5 lists. `GitBookkeepingInvisible`: `.git` as a directory, a
  pointer file or absent, at any depth, gives one tag and one image, unless a file of git's own is asked for by its path.
* `helpers`. `WholeOrError`: a download that succeeds hands over all that was sent or decodes. `TruncationIsNotBlamed`: a body cut
  at the cap is not reported as one that cannot be decoded. `SharedNamesStayApart`: keys whose files share a name do not replace each
  other. `StreamMatchesBlock`: wherever writes cut the output, the streamed lines are those of the whole, in one box that is closed.

Why the bounds are enough. The loops of a build treat their items alike and keep no state
across items except the used key names, so two items show the first, the last
and the step between them. 1 is a plain failure, 107 one that zypper tolerates
and -1 one that cannot be determined; every code the program distinguishes falls
in one of these classes. `MaxMounts` gives the build that prunes one mount more than
the code's own, so that the plain unmount leaves one; the other build stands for what it does to the images. Two
builds suffice for a store since a third can only do what podman users can do already. Three runs
give a retry and a foreign writer of a shared tag. Two promotes and a pushing build
give every pair of writers.
Three layers give every shape of a walk: a cycle of each length, a diamond's shared parent, a self-loop. One edit makes two
checkouts differ in one input of one layer, at any depth. For `hash`, two edits are one that moves an
entry, or that removes and adds one; names and bytes are two numbers and `.git`, which is what a prefix needs to be mistaken
for a content. For `helpers` the caps are 4, 6 and 4 bytes with bodies of up to 6 and 8, so that each is met from
below, at and above; three repositories give a shared name between two others; five bytes are two lines with
their ends and one redraw. Each rule of a config is broken once since `ValidConfig` is a conjunction. Deadlock is checked in all passing runs; `Terminated` and
`Finished` are the stuttering steps of processes that have ended.

## 4. Fairness

Only `build` has a liveness property. `Prompt` is weakly fair: Go continues to execute what it
can, and a host command ends once its context is cancelled, since `hardenHostCmd`
kills its process group and bounds the wait. Nothing is assumed of a
command inside the container, for `buildah.Run` takes no context, nor of
signals. So `CancelEnds` allows for a container command that hangs for ever.

## 5. Where the code and its documentation differ

Refuted by a run, each with its line in `PROJECT.json`:

* `publish_exists`: `Exists` is documented to report that the image is present;
  it is true for an upload that stopped after the first object, and (with `Kinds = {"squashfs"}`) for a
  file that a killed mksquashfs left.
* `manifest_names`: every expansion of a layer is documented to be built by its logical name and
  `--arch`; a logical name that another layer expands to is refused.
* `hash_stale`: editing a file under a copied source is documented to invalidate the cache; a file that a
  negated pattern re-includes under an excluded directory is copied but not hashed.
* `hash_split`: any change is documented to give a new tag; nothing in the hashed text marks where one directory's entries
  end and the next one's begin, so the last entry of one can become the first of the next.

Further gaps of the tag, which `StaleOnlyByKnownGap` names: an anchored pattern of a source that is copied
whole, a source that is itself a link, set-id bits, and an entry that moves to or from a source that is copied whole and that a pattern of its own
names (it is hashed and not copied). Special files are hashed as links or files, and are not in the model.

Met while modelling, without a run:

* `PulledParentID` is set for an image that someone else pulled after this run listed the store, and `--prune-parent` removes it.
* The probe of a release tag and the copy to it are two requests, so two unforced promotes that overlap can both write it.
* Promote materialises the host's copy of a content-tagged image if there is one, even when the registry has a newer one.
* `RenderVars` and `LoadConfigWithVars` read the variable files and the template again after `ComputeTags` has hashed them
  (`dag.go:241`); an edit in between builds something else than the tag says.
* A key's suffixed name is not looked up again: keys named `a-2`, `a` and `a` share a file, though `configuration.md:147`
  promises each repository one of its own.
* The removal of a script is said to run always (`container.go:367`); it runs under the script's context, and a cancelled
  one refuses it. Later commands are refused, too, so only a signal while the last script runs, which does not stop it, or
  right after it leaves the script in an image that is still handed to the publishers.
* A connection that fails in the middle of an OVAL body is reported as `decode OVAL body`.
* `Container.Delete` deletes the container over a live mount when the forced unmount fails; it says so in the log.
* The streaming writer drops a line that ends in CR LF, the block writer keeps it.
* `validate` accepts apt from scratch and mmdebstrap on a parent, which `Builder.Build` refuses.

## 6. Proofs

`BuildPipelineProofs`, for every set of configs of type `ConfigType` and every set of non-zero exit codes
(`ConfigsAssumption`, `ExitCodesAssumption`):

* `TypeCorrect`: `Spec => []TypeOK`. The invariant is `TypeInv`, which adds to
  `TypeOK` the bounds of the loops. All actions of a stage share one shape
  (`StageMove`), proved once per action and used once in the invariant's step.
* `PublishedComplete`: `Spec => []PublishedIsComplete`. The property is not inductive:
  when the publishers start nothing says why the root is complete. `Progress`
  adds that every stage left behind and every item passed is in `root`, that a
  script which reported success had its effect before its removal, and that the
  labels come last. Its key lemma is `AcceptedDidItsWork`: a result the install step
  accepts is one of a command that did its work. `RootGrows` and `DoneStays` carry finished stages along.

* `NilEverywhere` (`Spec => []NilMeansEverywhere`). A result says nothing of how it came about, so `Outcome` says of
  each part of `Build` what it has asked, acquired and delivered: while it asks, the publishers before `pos` have the
  image; while it publishes, those before `pos` are served; what it defers is exactly what it has acquired.
* `PruneIsComplete` (`Spec => []PruneCompletes`). `Unwinding` says that the prune is below the container's deletion
  on the stack, and that an image of this run outlives the prune only for a reason. `DeferStacks` tells the stacks
  apart.
* `HostTmpGone` (`Spec => []HostTmpRemoved`), `LitterOnlyByRm` (`Spec => []LitterOnlyIfRmFailed`). `HostTmpInv` and
  `LitterInv` tie each temporary file to the one item and step at which it may be there; every way out of the
  item removes it or records why not.
* `EmptyRootForInstall` (`Spec => []EmptyRootBootstrap`). `EmptyRoot` says that for a backend that wants an empty
  root nothing is written until the first command of its install, which `InstallIsSecond` finds right behind the
  bootstrap.
* `BuildImplementsContract` (`Spec => ImplementsContract`): the refinement. `ContractInit` maps the initial states;
  `ContractStep` maps each action, by `ContractSteps`, to one move of the contract or to a stutter. It needs
  `Progress`, for the contract delivers only what is complete, and `Outcome`, for it reports success only when every
  destination is served.

`ImageStoreProofs`, for any number of builds, images and podman users (`StoreAssumption`):

* `PruneKeepsPriorImages`: `Spec => PriorImagesStay`, an action property. The
  invariant `OwnIsNew` says that the parent a build wants to prune is not in what
  it listed; it holds because the listing never changes once the build left it.
* `TypeCorrect`, `PruneIsNotInItsOwnWay` (`Spec => []PruneLeavesNothing`), `NoSilentLeak`
  (`Spec => []LeaksAreReported`). `StoreInv` adds that an image a build brought is in the store
  (`PullersKnown`), that a container which runs is mounted, that none is live behind `Delete`, and in `MountsKnown` that behind the forced
  unmount a mount that is left was warned of. Each action keeps it by itself.

`PublishProofs`, for any runs, tags and destinations (`PublishAssumption`):

* `TypeCorrect`, `SkippedIsWhole` (`Spec => []SkippedImageHasAllTags`), `PublishedHoldsOwn` (`Spec => PublishedIsOwn`, an action
  property). `ImagesStay` says that what a run probed, and the first tag of one that copies, stays in an image store, for nothing
  there is ever removed; `WrittenIsOwn`, that every key behind an undisturbed run holds its content and that the manifest it is about to
  copy is its own. A step writes at most one key (`WriteEffect`), and a run on whose key it falls is disturbed (`Bystander`).

`PromoteProofs`, for any number of jobs and builds and any layers, arches and targets (`PromoteAssumption`):

* `TypeCorrect`, `NilIsReleased` (`Spec => []NilMeansReleased`), `NoTargetWithheld` (`Spec => []EveryTargetTried`), `ResolvedFirst`
  (`Spec => []ResolveBeforeWrite`), `ArchesApart` (`Spec => []OneArchPerRef`). None but the last two is near to inductive: a job only
  knows a list of resolved targets and a position. `Targets` ties the list to the layer (what is resolved is what the arches so far
  have, and no two targets are one reference), `Traces` ties the position to what was tried and, without a failure, written.
  `Appended` is the step of one more arch, `CurrentIds` says that a fully resolved list is exactly the layer, and `TargetEnds` and
  `TargetGoesOn` carry the invariant over any step at a target.
* `ReleasesAreKept` (`Spec => []ReleasesStay`). Relative to the first invariant, `StaysInv` says that what a job has written is still
  held by its destination, and that an unforced job past its probe is at no destination written by a job that had ended when it
  started. It rests on releases never vanishing (`WorldKeeps`) and on a job that ended writing nothing more.
* `ReleasedIsFromSource` (`Spec /\ ReleasesApart => []ReleasedFromSource`). That a write was of the right bytes says
  nothing of what is there later, so `SourceOK` is about the whole world: a content tag holds its own content in
  the registry and on the host (`Pure`); a destination holds that of the one source that may be released there, or
  nothing, whoever wrote it (`Landed`); a job past its read has its source's bytes in hand (`Holds`); the
  resolved targets are targets of their layer (`Sourced`).

`CommandsProofs`, about `Manifest`, for any set of manifests over any names (`ManifestsAssumption`: what parsing gives):

* `TypeCorrect`; `BulkWalksAll` (`Spec => []BulkCoversAll`), with no hypothesis on the names: what `NewDAG` kept is
  walked once, under its own layer. `ParentsOfOwnArch` (`ParentsAreSameArch` under `ExpansionsApart`) and
  `ExpansionsResolve` (`EveryExpansionResolves` under that and `NamesApart`): `manifest_names` shows that the second
  is false without them.
  The invariant `Inv` says what each phase of loading has checked and computed; the work is in what `Expansion` and
  `Nodes` yield. `Expands` says that the expansion is each layer for each of its arches and nothing else,
  `GraphNodes` and `GraphFinds` carry that over to the DAG, and `GraphWalk`, `GraphParents` and `GraphResolves` are
  the lookups.
* `CyclesRefused` (`AcceptsExactlyDags` under `ExpansionsApart`), in both directions. A walk does not know that it
  goes round; `Walk` says that `path` is a chain of dependencies without a repetition, and that some set of layers, which holds
  those the walks have left and all from which one has started, can be numbered with every parent before its children (`Ranked`). `CircleFound`
  turns the layer at which a walk is refused into a circle of logical layers, `NoCircleWhenRanked` shows that there is none
  once all layers are numbered.
* `FlattenSeq` is a recursive function. `FlattenExists` shows that the function exists and `Flattened` what it
  holds, each by taking the least number at which it fails (`LeastNat`), which needs no operator parameter.

`CommandsProofs`, about `Commands`, for any command lines, templates and variables (`ManifestsAssumption`):

* `CommandsTypeCorrect` (`CommandsSpec => []CommandsTypeOK`), whose interesting part is that the recursion of `ComputeTags` never
  holds a layer twice.
* `CommandsDoAgree` (`CommandsSpec => []CommandsAgree`). The property compares commands that ran one after the other; `SessionInv`
  says of each, from the flags and files alone, how far it comes. `Reaches` is what a command at a stage has passed, `StopsAt` what
  one that ended there was refused for, `FinalVars` and `FinalText` what one past the render has in hand. Two commands that
  stopped in different stages would make the condition of the earlier one both true and false.
* `ParentTagIsPinned` (`CommandsSpec => []PinsParentTag`). The tag of a layer is given by an equation over its ancestors;
  a loaded DAG can be numbered (`CyclesRefused`'s invariant), so the equation has exactly one solution (`TagsOf`), whatever
  the order of the walk. `Tagging` says that the memo holds that solution for all below what it holds.

`TagChainProofs`, for any layers without a cycle, any checkouts and any number of edits and builds
(`TagChainAssumption`):

* `TypeCorrect`; `TagMeansItsCheckout` (`Spec => []TagMeansCheckout`). Not inductive: an image depends on images that
  others published long before. `Coherent` is the reason it holds: the image under any tag is what the tag describes, on
  top of the image under its first parent's tag, which is there. `TagsInv` says that a checkout's tag is made of the
  tags of all its parents and its own inputs, `WalkInv` that the stack descends in rank, `BuildInv` what a build has
  rendered and stands on. `TagsMeanFresh` concludes, by the least rank at which a tag and its checkout would
  disagree. `Fresh`, the image a checkout stands for, is a recursive function over the DAG; `SolutionUpTo` shows that
  its equation has a solution on the layers up to every rank.
* `ImagesAreKept` (`Spec => TagsNeverMove`, an action property): in a coherent registry a second publish to a tag is
  of the same image.

`HelperProofs`, about `FetchOval`, for every pair of caps and every set of bodies (`FetchAssumption`):

* `TypeCorrect`, `NeverTruncated` (`Spec => []WholeOrError`), `CutNotBlamed` (`Spec => []TruncationIsNotBlamed`). Neither property is inductive: a result
  is decided from `wire` and `out`, so `Bounded` ties these to the limits while reading. The
  key lemmas are `CutIsAboveCap`, that a body the limit cuts is one byte over the cap when all that is left of it has been read (the reason for the
  limit being one more than the cap), `CleanVerdict`, that a verdict of "ok" means a result of the full
  length, and `CutIsTooBig`, that the size is looked at before the decoder's error.

`HelperProofs`, about `KeyNames`, for any names, any cleaning of them and any number of repositories (`KeyNamesAssumption`: an index
is cleaned to itself):

* `KeysKeptApart` (`KeysSpec => []SharedNamesStayApart`). `KeysInv` says that the file of each key is named by its repository's base name, with or
  without the index, or by the index alone, and that every base name passed is taken. The hypothesis that names stay
  distinguishable is in the property; `Distinguishable` is what it takes, since a suffixed name is not looked up again.

`HelperProofs`, about `OutputStream`, for outputs of any bytes and any length, cut into writes anywhere (`OutputAssumption`: an
output is a sequence):

* `StreamIsBlock` (`StreamSpec => []StreamMatchesBlock`). `StreamInv` says that what is shown are the complete lines of the bytes written so
  far, and what is pending the last line of these. `CutJoin` is why a write keeps it: cutting the unfinished line with the new bytes behind it gives
  the lines of both writes together, and `EmitJoin` that what is emitted adds up alike. At the end `BlockShowsLines` compares with the block
  writer: blank lines it leaves out at the end, and the last line it leaves out when the output ends in LF, are none that `emit` shows.
  `CutAtLF` and `KeptOf` are recursive functions; `CutsExist` and `KeepsExist` show by a least number that these exist for every length, `SeqInduction`
  is induction over sequences for a set of them, in place of a predicate.

`LayerHashProofs`, for any configs, any trees and any edits (`LayerHashAssumption`):

* `GitIsInvisible` (`Spec => []GitBookkeepingInvisible`). `HostInv` says that a directory stays a map of paths to nodes. For an item
  whose exclusion has no negated pattern, `ExcludedIs` says that a path is excluded exactly when some pattern matches,
  so nothing with `.git` in it is hashed or taken (`HashedIsClear`), and what is has the same node without it. That both lists are
  then equal rests on `Sorted` being a function of the set: `PrecedesTotal` and `PrecedesTransitive` make the order of `WalkDir` a strict
  total one, and `SortedIs` says that there is exactly one path at each place.
* `StaleIsKnown` (`Spec => [](TreesAlike => StaleOnlyByKnownGap)`). `StaleInv` says that every image in the registry was made from some disk that
  hashes to its tag. What remains is that the hashed text can be decoded. It is a row of codes, one for each
  file of the config and each entry of a tree; `CodesDecode` says that a code can be told from whatever code follows it (a length in
  front, a letter that is no length), and `Decodes` that a text is that of one row only. A file's code is never that of an entry (`FilesApart`), so
  files stay in their places (`FilesSame`), and a single tree between them does (`RowsSame`); of
  several trees the entries may move from one to the next, in order (`ResultsSame`). Last, `TakenHashed` relates what the copy takes to what
  is hashed: `KeptIsReached` that whatever the copy keeps, the walk reaches, `AllKept` the converse.
  `TreesAlike` says that all trees of the config are hashed with the same options, as they are by default. Without it the model has
  counterexamples (a directory's mode is read as the length of a name) which the program has not: its modes are four bytes
  wide and its names hold no zero byte, where names, modes and lengths of the model are numbers that can be taken for each other.

Only model-checked:

* `CancelEnds`: liveness under fairness is out of the prover's reach.
* `StaleOnlyByKnownGap` for a config whose trees are hashed with different options: see `StaleIsKnown`.

What the proofs and runs rest on, outside the program: buildah's default pull policy is to pull an image that is missing; mksquashfs removes its output
when it fails by itself, not when it is killed; a single storage call or request is atomic; SHA-256 has no collisions and the registry's tags are written by this program only. One
assumption is about commands: a tolerated code without a crash report means the work was done.

## 7. Not modelled

* YAML and Go templates: a rendering is the template with the values of the variables it refers to. Variables that are maps are merged by the code at the top level only, so they are values.
* The levels the classifiers give to lines of output: wording; a line is quiet or not.
* The argument lists of package managers, ansible and oscap: formatting; `Backends` has their kinds and order.
* The search for kernel and initramfs, boot arguments, globs other than `**/` in excludes, owners and modes set by a config: the data of one step.
* Labels: a pure map of one document.
* The signalling of `/proc` processes: kernel behaviour; only its outcome is in `ImageStore`.
* The converter script, packaging, CI: not part of the running program.

## 8. Plan

In this order; all of it is done.

1. `BuildPipeline` with `Backends` and `BuildContract`; `ImageStore`; type correctness, completeness and prune safety proved.
2. `Publish`, `Promote`.
3. `Manifest`, `TagChain`.
4. `LayerHash`, `Config` with `Commands`, `KeyNames`, `FetchOval` and `OutputStream`.
5. Proofs: every invariant and action property of the passing runs, and the refinement of `BuildContract`, but for
   `CancelEnds`, and one property for part of the configs, as section 6 says.
