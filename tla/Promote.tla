-------------------------------- MODULE Promote --------------------------------
(***************************************************************************)
(* The promote command (runPromote, promoteLayer in src/cmd, and           *)
(* src/internal/promote): jobs walk their layers, resolve every target of  *)
(* a layer, then write the targets one by one, best-effort.  A registry    *)
(* target is a copy of the content tag to the release tag; an S3 target    *)
(* mounts the content-tagged image, pulled to the host's storage if it is  *)
(* not there, and uploads three objects.                                   *)
(*                                                                         *)
(* Jobs run concurrently with each other and with builds that push to the  *)
(* content tags.  A cancelled context only makes requests fail, which any  *)
(* request may do here anyway.                                             *)
(***************************************************************************)
EXTENDS Naturals, Sequences, FiniteSets

CONSTANTS
    Jobs,        (* promote commands                                      *)
    Inputs,      (* the flags and the rendered manifests they may have    *)
    Refs,        (* registry references                                   *)
    Dirs,        (* S3 release directories                                *)
    Builds,      (* builds that push to one content tag                   *)
    None         (* nothing under a reference; no source                  *)

(* Identical publish blocks of a layer are already collapsed in it; src is *)
(* None for an S3 target of a layer that has no registry block.            *)
TargetType ==
    [typ: {"registry"}, src: Refs, dst: Refs, creds: BOOLEAN]
    \union [typ: {"s3"}, src: Refs \union {None}, dst: Dirs, creds: BOOLEAN]

(* A layer is a sequence of arches, each a sequence of targets; it is      *)
(* empty when --arch excludes the layer.                                   *)
InputType ==
    [bulk: BOOLEAN, force: BOOLEAN, dry: BOOLEAN,
     layers: Seq(Seq(Seq(TargetType)))]

Contents == Refs \X Builds

ASSUME PromoteAssumption ==
    /\ Inputs \subseteq InputType
    /\ \A input \in Inputs : input.layers # <<>> /\ (input.bulk \/ Len(input.layers) = 1)
    /\ Refs \intersect Dirs = {} /\ None \notin Refs \union Dirs \union Contents

VARIABLES
    job,         (* the input of each job                                 *)
    pc,          (* where each job is                                     *)
    layer,       (* index of its current layer                            *)
    arch,        (* arches of the layer already resolved                  *)
    targets,     (* targets resolved, with the arch each one is of        *)
    pos,         (* targets of the layer already dealt with               *)
    objects,     (* objects of the S3 target already uploaded             *)
    read,        (* content read from the source of the target            *)
    failed,      (* a failure was recorded                                *)
    attempted,   (* some layer had somewhere to promote to                *)
    result,      (* "none" | "nil" | "error"                              *)
    tags,        (* content of each registry reference                    *)
    boot,        (* contents of the objects of each S3 directory          *)
    local,       (* images of the host's storage, by the name pulled      *)
    resolved,    (* layers of a job whose targets were all resolved       *)
    tried,       (* targets a job has attempted                           *)
    written,     (* targets a job really has written                      *)
    before       (* jobs that were over when a job tried its first target *)

cursor == <<layer, arch, targets>>
apply  == <<pos, objects, read>>
world  == <<tags, boot, local>>
trace  == <<resolved, tried, written, before>>
vars   == <<job, pc, cursor, apply, failed, attempted, result, world, trace>>

Object == 1..3    \* rootfs, vmlinuz, initramfs, in the order of the uploads

-----------------------------------------------------------------------------
Init ==
    /\ job \in [Jobs -> Inputs]
    /\ pc = [j \in Jobs |-> "layer"]
    /\ layer = [j \in Jobs |-> 1]
    /\ arch = [j \in Jobs |-> 0]
    /\ targets = [j \in Jobs |-> <<>>]
    /\ pos = [j \in Jobs |-> 0]
    /\ objects = [j \in Jobs |-> 0]
    /\ read = [j \in Jobs |-> None]
    /\ failed = [j \in Jobs |-> FALSE]
    /\ attempted = [j \in Jobs |-> FALSE]
    /\ result = [j \in Jobs |-> "none"]
    /\ tags = [r \in Refs |-> None]
    /\ boot = [d \in Dirs |-> [o \in Object |-> None]]
    /\ local = [r \in Refs |-> None]
    /\ resolved = [j \in Jobs |-> {}]
    /\ tried = [j \in Jobs |-> {}]
    /\ written = [j \in Jobs |-> {}]
    /\ before = [j \in Jobs |-> {}]

At(j, p)    == pc[j] = p
Goto(j, p)  == pc' = [pc EXCEPT ![j] = p]
Set(f, j, v) == [f EXCEPT ![j] = v]

LayerOf(j)  == job[j].layers[layer[j]]
Target(j)   == targets[j][pos[j] + 1]
TargetId(j) == <<layer[j], Target(j).arch, Target(j).dst>>

-----------------------------------------------------------------------------
(* runPromote: the loop over the layers.                                   *)

NextLayer(j) ==
    /\ Goto(j, "layer")
    /\ layer' = Set(layer, j, layer[j] + 1)
    /\ arch' = Set(arch, j, 0) /\ targets' = Set(targets, j, <<>>)

(* Mutant: the targets of an arch are applied before the next is resolved. *)
ResolveThenApply(j, mine) ==
    /\ targets' = Set(targets, j, targets[j] \o mine)
    /\ arch' = Set(arch, j, arch[j] + 1)
    /\ UNCHANGED layer /\ Goto(j, "target")

StartLayer(j) ==
    /\ At(j, "layer") /\ layer[j] <= Len(job[j].layers) /\ LayerOf(j) # <<>>
    /\ Goto(j, "resolve")
    /\ pos' = Set(pos, j, 0)
    /\ UNCHANGED <<job, cursor, objects, read, failed, attempted, result, world, trace>>

(* A layer with no target is skipped in a bulk promote, and an error when  *)
(* it was named; so is one that --arch excludes.                           *)
NoTarget(j) ==
    /\ failed' = Set(failed, j, failed[j] \/ ~job[j].bulk)
    /\ NextLayer(j)

ArchExcluded(j) ==
    /\ At(j, "layer") /\ layer[j] <= Len(job[j].layers) /\ LayerOf(j) = <<>>
    /\ NoTarget(j)
    /\ UNCHANGED <<job, apply, attempted, result, world, trace>>

(* Every failure is collected; a bulk promote that attempted no layer is   *)
(* one.                                                                    *)
End(j) ==
    /\ At(j, "layer") /\ layer[j] > Len(job[j].layers)
    /\ Goto(j, "ended")
    /\ result' = Set(result, j, IF failed[j] \/ (job[j].bulk /\ ~attempted[j])
                                THEN "error" ELSE "nil")
    /\ UNCHANGED <<job, cursor, apply, failed, attempted, world, trace>>

-----------------------------------------------------------------------------
(* promoteLayer, first half: resolve every target of every arch.           *)

Arch(j) == LET mine == LayerOf(j)[arch[j] + 1]
           IN  [i \in DOMAIN mine |-> [typ |-> mine[i].typ, src |-> mine[i].src, dst |-> mine[i].dst,
                                       creds |-> mine[i].creds, arch |-> arch[j] + 1]]

(* Mutant: seen is created anew for every arch.                            *)
CollidesWithinArch(j, mine) ==
    \E i, n \in DOMAIN mine : i # n /\ mine[i].typ = "registry" /\ mine[n].typ = "registry"
                                    /\ mine[i].dst = mine[n].dst

(* Two registry targets of the layer with one destination reference.       *)
Collides(j, mine) ==
    LET all == targets[j] \o mine
    IN  \E i, n \in DOMAIN all : i # n /\ all[i].typ = "registry" /\ all[n].typ = "registry"
                                       /\ all[i].dst = all[n].dst

Resolved(j, mine) ==
    /\ targets' = Set(targets, j, targets[j] \o mine)
    /\ arch' = Set(arch, j, arch[j] + 1)
    /\ UNCHANGED <<layer, pc>>

ResolveArch(j) ==
    /\ At(j, "resolve") /\ arch[j] < Len(LayerOf(j))
    /\ ~Collides(j, Arch(j))
    /\ \A i \in DOMAIN Arch(j) : Arch(j)[i].src # None
    /\ Resolved(j, Arch(j))
    /\ UNCHANGED <<job, apply, failed, attempted, result, world, trace>>

(* A collision, an S3 target without a registry to pull from, or a config  *)
(* that cannot be rendered, fails the layer before it has written.         *)
ResolveFails(j) ==
    /\ At(j, "resolve") /\ arch[j] < Len(LayerOf(j))
    /\ failed' = Set(failed, j, TRUE) /\ attempted' = Set(attempted, j, TRUE)
    /\ NextLayer(j)
    /\ UNCHANGED <<job, apply, result, world, trace>>

NothingResolved(j) ==
    /\ At(j, "resolve") /\ arch[j] = Len(LayerOf(j)) /\ targets[j] = <<>>
    /\ NoTarget(j)
    /\ resolved' = Set(resolved, j, resolved[j] \union {layer[j]})
    /\ UNCHANGED <<job, apply, attempted, result, world, tried, written, before>>

AllResolved(j) ==
    /\ At(j, "resolve") /\ arch[j] = Len(LayerOf(j)) /\ targets[j] # <<>>
    /\ Goto(j, "target")
    /\ resolved' = Set(resolved, j, resolved[j] \union {layer[j]})
    /\ UNCHANGED <<job, cursor, apply, failed, attempted, result, world, tried, written, before>>

-----------------------------------------------------------------------------
(* promoteLayer, second half: the targets, sequentially and best-effort.   *)

(* Mutant: what was read for a target survives it.                         *)
TargetOverKeepsRead(j) ==
    /\ Goto(j, "target")
    /\ pos' = Set(pos, j, pos[j] + 1)
    /\ objects' = Set(objects, j, 0) /\ UNCHANGED read

TargetOver(j) ==
    /\ Goto(j, "target")
    /\ pos' = Set(pos, j, pos[j] + 1)
    /\ objects' = Set(objects, j, 0) /\ read' = Set(read, j, None)

(* Mutant: the first failure ends the layer.                               *)
TargetFailsForAll(j) ==
    /\ Goto(j, "target")
    /\ pos' = Set(pos, j, Len(targets[j]))
    /\ objects' = Set(objects, j, 0) /\ read' = Set(read, j, None)
    /\ failed' = Set(failed, j, TRUE)

TargetFails(j) == TargetOver(j) /\ failed' = Set(failed, j, TRUE)

AtTarget(j) == At(j, "target") /\ pos[j] < Len(targets[j])

DryRun(j) ==
    /\ AtTarget(j) /\ job[j].dry
    /\ TargetOver(j)
    /\ UNCHANGED <<job, cursor, failed, attempted, result, world, trace>>

(* Mutant: only a release in S3 is probed.                                 *)
PresentInS3(t) == t.typ = "s3" /\ boot[t.dst][1] # None

Present(t) == IF t.typ = "registry" THEN tags[t.dst] # None ELSE boot[t.dst][1] # None

(* Mutant: a destination without credentials is passed over in silence.    *)
BadCredsSkipped(j) == TargetOver(j) /\ UNCHANGED failed

BadCreds(j) == TargetFails(j)

(* newS3Publisher, and unless forced the probe of the destination: it may  *)
(* fail, and a release that is there fails the target.                     *)
BeginTarget(j) ==
    /\ AtTarget(j) /\ ~job[j].dry
    /\ tried' = Set(tried, j, tried[j] \union {TargetId(j)})
    /\ before' = IF tried[j] # {} THEN before
                 ELSE Set(before, j, {k \in Jobs : pc[k] \in {"ended", "killed"}})
    /\ IF Target(j).typ = "s3" /\ ~Target(j).creds THEN BadCreds(j)
       ELSE \/ /\ job[j].force \/ ~Present(Target(j))
               /\ Goto(j, "read") /\ UNCHANGED <<apply, failed>>
            \/ ~job[j].force /\ TargetFails(j)
    /\ UNCHANGED <<job, cursor, attempted, result, world, resolved, written>>

(* Mutant: every target of a layer reads the source of its first one.      *)
FirstSource(j) == targets[j][1].src

Source(j) == Target(j).src

Take(j, content) == Goto(j, "write") /\ read' = Set(read, j, content) /\ UNCHANGED <<pos, objects, failed>>

(* registry.Copy reads the source.                                         *)
ReadTag(j) ==
    /\ At(j, "read") /\ Target(j).typ = "registry"
    /\ \/ tags[Source(j)] # None /\ Take(j, tags[Source(j)])
       \/ TargetFails(j)
    /\ UNCHANGED <<job, cursor, attempted, result, world, trace>>

(* NewContainer sets no pull policy: the image is pulled if it is missing. *)
PullSource(j) ==
    /\ At(j, "read") /\ Target(j).typ = "s3"
    /\ \/ local[Source(j)] # None /\ Take(j, local[Source(j)]) /\ UNCHANGED local
       \/ /\ local[Source(j)] = None /\ tags[Source(j)] # None
          /\ local' = Set(local, Source(j), tags[Source(j)])
          /\ Take(j, tags[Source(j)]) \/ TargetFails(j)
       \/ TargetFails(j) /\ UNCHANGED local
    /\ UNCHANGED <<job, cursor, attempted, result, tags, boot, trace>>

MarkWritten(j) == written' = Set(written, j, written[j] \union {TargetId(j)})

(* The tag is written, refused, or written with its answer lost.           *)
WriteTag(j) ==
    /\ At(j, "write") /\ Target(j).typ = "registry"
    /\ \/ /\ tags' = Set(tags, Target(j).dst, read[j])
          /\ MarkWritten(j)
          /\ (TargetOver(j) /\ UNCHANGED failed) \/ TargetFails(j)
       \/ UNCHANGED <<tags, written>> /\ TargetFails(j)
    /\ UNCHANGED <<job, cursor, attempted, result, boot, local, resolved, tried, before>>

(* The next of the three objects.                                          *)
UploadObject(j) ==
    /\ At(j, "write") /\ Target(j).typ = "s3" /\ objects[j] < 3
    /\ \/ /\ boot' = [boot EXCEPT ![Target(j).dst][objects[j] + 1] = read[j]]
          /\ \/ objects' = Set(objects, j, objects[j] + 1) /\ UNCHANGED <<pc, pos, read, failed>>
             \/ TargetFails(j)
       \/ UNCHANGED boot /\ TargetFails(j)
    /\ UNCHANGED <<job, cursor, attempted, result, tags, local, trace>>

Materialized(j) ==
    /\ At(j, "write") /\ Target(j).typ = "s3" /\ objects[j] = 3
    /\ MarkWritten(j)
    /\ TargetOver(j)
    /\ UNCHANGED <<job, cursor, failed, attempted, result, world, resolved, tried, before>>

LayerDone(j) ==
    /\ At(j, "target") /\ pos[j] = Len(targets[j])
    /\ attempted' = Set(attempted, j, TRUE)
    /\ NextLayer(j)
    /\ UNCHANGED <<job, apply, failed, result, world, trace>>

(* A second signal.                                                        *)
Kill(j) ==
    /\ pc[j] \notin {"ended", "killed"}
    /\ Goto(j, "killed")
    /\ UNCHANGED <<job, cursor, apply, failed, attempted, result, world, trace>>

-----------------------------------------------------------------------------
(* A build pushes an image under a content tag, for the first time or      *)
(* again.                                                                  *)
Sources == {r \in Refs : \E input \in Inputs : \E l \in DOMAIN input.layers :
                \E a \in DOMAIN input.layers[l] : \E i \in DOMAIN input.layers[l][a] :
                    input.layers[l][a][i].src = r}

Push(r, b) ==
    /\ tags[r] # <<r, b>>
    /\ tags' = Set(tags, r, <<r, b>>)
    /\ UNCHANGED <<job, pc, cursor, apply, failed, attempted, result, boot, local, trace>>

Finished == (\A j \in Jobs : pc[j] \in {"ended", "killed"}) /\ UNCHANGED vars

Layers(j)  == StartLayer(j) \/ ArchExcluded(j) \/ End(j)
Resolve(j) == ResolveArch(j) \/ ResolveFails(j) \/ NothingResolved(j) \/ AllResolved(j)
Apply(j)   == \/ DryRun(j) \/ BeginTarget(j) \/ ReadTag(j) \/ PullSource(j) \/ WriteTag(j)
              \/ UploadObject(j) \/ Materialized(j) \/ LayerDone(j)

Next == \/ \E j \in Jobs : Layers(j) \/ Resolve(j) \/ Apply(j) \/ Kill(j)
        \/ \E r \in Sources, b \in Builds : Push(r, b)
        \/ Finished

Spec == Init /\ [][Next]_vars

-----------------------------------------------------------------------------
(* Properties.                                                             *)

(* What there is to release: layer, arch and destination of each target.   *)
LayerIds(j, l) ==
    LET arches == job[j].layers[l]
    IN  UNION {{<<l, a, arches[a][i].dst>> : i \in DOMAIN arches[a]} : a \in DOMAIN arches}

Ids(j) == UNION {LayerIds(j, l) : l \in DOMAIN job[j].layers}

(* Every variable has its type; a target is looked at only while it is one *)
(* of the layer's, and what was read is there to be written.               *)
TypeOK ==
    /\ job \in [Jobs -> Inputs]
    /\ pc \in [Jobs -> {"layer", "resolve", "target", "read", "write", "ended", "killed"}]
    /\ \A j \in Jobs :
        /\ layer[j] \in 1..(Len(job[j].layers) + 1)
        /\ pos[j] \in 0..Len(targets[j]) \/ At(j, "layer") \/ At(j, "ended") \/ At(j, "killed")
        /\ pc[j] \in {"read", "write"} => pos[j] < Len(targets[j])
        /\ At(j, "write") => read[j] # None
        /\ pc[j] \notin {"write", "killed"} => read[j] = None
        /\ At(j, "ended") <=> result[j] # "none"
        /\ written[j] \subseteq Ids(j) /\ tried[j] \subseteq Ids(j)
    /\ objects \in [Jobs -> 0..3]
    /\ tags \in [Refs -> Contents \union {None}]
    /\ local \in [Refs -> Contents \union {None}]
    /\ boot \in [Dirs -> [Object -> Contents \union {None}]]

(* A promote that exits with zero has written every target of every layer  *)
(* it was given, unless it is a dry run: no failure of one of many         *)
(* destinations is forgotten on the way to the exit status (runPromote,    *)
(* promoteLayer).                                                          *)
NilMeansReleased ==
    \A j \in Jobs : result[j] = "nil" /\ ~job[j].dry => written[j] = Ids(j)

(* A failure never withholds a layer's remaining targets: a promote that   *)
(* was not killed has tried each target of each layer it could resolve     *)
(* (promoteLayer).                                                         *)
EveryTargetTried ==
    \A j \in Jobs : At(j, "ended") /\ ~job[j].dry =>
        tried[j] = {id \in Ids(j) : id[1] \in resolved[j]}

(* Nothing of a layer is written before the last of its arches is          *)
(* resolved: a config error of one arch costs no release tag of another    *)
(* (promoteLayer).                                                         *)
ResolveBeforeWrite ==
    \A j \in Jobs : \A id \in written[j] : id[1] \in resolved[j]

(* Two arches of a layer never write one registry reference in one         *)
(* promote, forced or not (promoteLayer).                                  *)
OneArchPerRef ==
    \A j \in Jobs : \A x, y \in written[j] :
        x[1] = y[1] /\ x[3] = y[3] /\ x[3] \in Refs => x[2] = y[2]

SourceOf(j, id) == LET arches == job[j].layers[id[1]]
                   IN  {arches[id[2]][i].src : i \in {n \in DOMAIN arches[id[2]] : arches[id[2]][n].dst = id[3]}}

(* What a successful promote released are bytes of the content tag of that *)
(* very layer and arch, in the registry and in each S3 object, whatever    *)
(* was rebuilt or promoted at the same time (promoteLayer, RetagRegistry,  *)
(* MaterializeToS3).                                                       *)
ReleasedFromSource ==
    \A j \in Jobs : result[j] = "nil" => \A id \in written[j] :
        \A c \in IF id[3] \in Refs THEN {tags[id[3]]} ELSE {boot[id[3]][o] : o \in Object} :
            c # None /\ c[1] \in SourceOf(j, id)

(* A layer that resolves: each target has a source, and no registry        *)
(* reference is the destination of two arches.                             *)
Releasable(arches) ==
    /\ \A a \in DOMAIN arches : \A i \in DOMAIN arches[a] : arches[a][i].src # None
    /\ \A a, b \in DOMAIN arches : \A i \in DOMAIN arches[a], n \in DOMAIN arches[b] :
          arches[a][i].dst \in Refs /\ arches[a][i].dst = arches[b][n].dst => a = b

(* What the layers of all inputs that resolve may release.                 *)
Releases == {t \in TargetType : \E input \in Inputs : \E l \in DOMAIN input.layers :
                 /\ Releasable(input.layers[l])
                 /\ \E a \in DOMAIN input.layers[l] : \E i \in DOMAIN input.layers[l][a] :
                       input.layers[l][a][i] = t}

(* The manifests keep their releases apart: none is a content tag, and no  *)
(* two content tags are to be released at one destination.  The promote    *)
(* command does not check it; ReleasedFromSource needs it.                 *)
ReleasesApart ==
    /\ \A t \in Releases : t.dst \notin Sources
    /\ \A t, u \in Releases : t.dst = u.dst => t.src = u.src

(* A release that a promote has completed is not written again by an       *)
(* unforced promote that starts its targets later, whatever order the      *)
(* layers and targets of the two come in and though the probes are         *)
(* requests of their own: only promotes that overlap, or a force, can move *)
(* a release (RetagRegistry, MaterializeToS3).                             *)
ReleasesStay ==
    \A j \in Jobs : ~job[j].force => \A k \in before[j] :
        \A x \in written[j], y \in written[k] : x[3] # y[3]
=============================================================================
