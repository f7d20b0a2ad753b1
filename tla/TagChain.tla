------------------------------- MODULE TagChain -------------------------------
(***************************************************************************)
(* Content tags (ComputeTags and RenderVars in src/internal/manifest/      *)
(* dag.go, src/internal/tag) and the builds that rely on them (buildLayer  *)
(* in src/cmd): builds of the layers of one manifest, from different       *)
(* checkouts, share one registry, in which an image is skipped, pulled as  *)
(* a parent and replaced by nothing but its tag.                           *)
(*                                                                         *)
(* A tag is the structure that is hashed: SHA-256 is taken to have no      *)
(* collisions.  A build reads its checkout four times: the ancestors'      *)
(* inputs and its own for the tag, variables and template for the render,  *)
(* and the referenced files when it copies them.  What a tag leaves out on *)
(* purpose - what a URL serves, a directory with exclude_from_tag, times - *)
(* is not modelled.                                                        *)
(***************************************************************************)
EXTENDS Naturals, FiniteSets, SequencesExt

CONSTANTS
    Layers,      (* concrete layers of the manifest                       *)
    DependsOn,   (* their parents, in order; from: names the first        *)
    Jobs,        (* checkouts, each running one build at a time           *)
    Inputs,      (* versions of what a layer's tag covers                 *)
    MaxEdits,    (* bound: edits                                          *)
    MaxRuns,     (* bound: builds of a checkout                           *)
    None         (* no image, no layer                                    *)

(* A validated manifest has finitely many layers and no cycle (DAG.Build): *)
(* the longest chain of parents above a layer is its depth.                *)
ASSUME TagChainAssumption ==
    /\ DependsOn \in [Layers -> Seq(Layers)]
    /\ 1 \in Inputs
    /\ MaxEdits \in Nat /\ MaxRuns \in Nat
    /\ IsFiniteSet(Layers)
    /\ \E depth \in [Layers -> 0..Cardinality(Layers)] :
          \A l \in Layers : \A i \in DOMAIN DependsOn[l] : depth[DependsOn[l][i]] < depth[l]

VARIABLES
    text,        (* template and variables of each layer in each checkout *)
    files,       (* host files its config references                      *)
    edits,       (* edits so far                                          *)
    pc,          (* where each build is                                   *)
    runs,        (* builds each checkout has begun                        *)
    target,      (* the layer it builds                                   *)
    skipIfExists,(* --skip-if-exists                                      *)
    stack,       (* the layers ComputeTags is visiting                    *)
    tags,        (* tags it has computed, by layer                        *)
    rendered,    (* text the build was rendered from                      *)
    base,        (* parent image the working container is built on        *)
    registry     (* image under each tag that has one                     *)

checkout == <<text, files, edits>>
run      == <<runs, target, skipIfExists>>
hash     == <<stack, tags>>
work     == <<rendered, base>>
vars     == <<checkout, pc, run, hash, work, registry>>

(* Assignment to a map.                                                    *)
With(m, k, v) == [x \in DOMAIN m \union {k} |-> IF x = k THEN v ELSE m[x]]
Empty         == [x \in {} |-> None]

Init ==
    /\ text = [j \in Jobs |-> [l \in Layers |-> 1]]
    /\ files = [j \in Jobs |-> [l \in Layers |-> 1]]
    /\ edits = 0
    /\ pc = [j \in Jobs |-> "idle"]
    /\ runs = [j \in Jobs |-> 0]
    /\ target = [j \in Jobs |-> None]
    /\ skipIfExists = [j \in Jobs |-> FALSE]
    /\ stack = [j \in Jobs |-> <<>>]
    /\ tags = [j \in Jobs |-> Empty]
    /\ rendered = [j \in Jobs |-> None]
    /\ base = [j \in Jobs |-> None]
    /\ registry = Empty

Move(j, from, to) == pc[j] = from /\ pc' = [pc EXCEPT ![j] = to]

Ended == {"built", "skipped", "failed"}

-----------------------------------------------------------------------------
(* The checkout.  An edit during a build, between its readings, is neither *)
(* noticed nor prevented by the code, and left out.                        *)

Edit(j, l) ==
    /\ pc[j] \in {"idle"} \union Ended
    /\ edits < MaxEdits /\ edits' = edits + 1
    /\ \E v \in Inputs :
          \/ text' = [text EXCEPT ![j][l] = v] /\ UNCHANGED files
          \/ files' = [files EXCEPT ![j][l] = v] /\ UNCHANGED text
    /\ pc' = [pc EXCEPT ![j] = IF @ \in Ended THEN "idle" ELSE @]
    /\ UNCHANGED <<run, hash, work, registry>>

Start(j, l) ==
    /\ pc[j] \in {"idle"} \union Ended /\ runs[j] < MaxRuns
    /\ pc' = [pc EXCEPT ![j] = "hash"]
    /\ runs' = [runs EXCEPT ![j] = @ + 1]
    /\ target' = [target EXCEPT ![j] = l]
    /\ \E skip \in BOOLEAN : skipIfExists' = [skipIfExists EXCEPT ![j] = skip]
    /\ stack' = [stack EXCEPT ![j] = <<l>>]
    /\ tags' = [tags EXCEPT ![j] = Empty]
    /\ rendered' = [rendered EXCEPT ![j] = None]
    /\ base' = [base EXCEPT ![j] = None]
    /\ UNCHANGED <<checkout, registry>>

-----------------------------------------------------------------------------
(* ComputeTags: bottom-up over the ancestors.                              *)

Top(j) == Last(stack[j])

(* Parents of the layer being visited that have no tag yet.                *)
Pending(j) == {i \in DOMAIN DependsOn[Top(j)] : DependsOn[Top(j)][i] \notin DOMAIN tags[j]}

VisitParent(j) ==
    /\ pc[j] = "hash" /\ stack[j] # <<>>
    /\ \E i \in Pending(j) :
          /\ \A k \in Pending(j) : i <= k
          /\ stack' = [stack EXCEPT ![j] = Append(@, DependsOn[Top(j)][i])]
    /\ UNCHANGED <<checkout, pc, run, tags, work, registry>>

(* Mutant: the files a config references are not hashed.                   *)
ComputeWithoutFiles(parents, txt, fls) == [parents |-> parents, text |-> txt, files |-> None]

(* Mutant: the tags of the parents are not chained into the tag.           *)
ComputeWithoutParents(parents, txt, fls) == [parents |-> <<>>, text |-> txt, files |-> fls]

Compute(parents, txt, fls) == [parents |-> parents, text |-> txt, files |-> fls]

ParentTags(j) == [i \in DOMAIN DependsOn[Top(j)] |-> tags[j][DependsOn[Top(j)][i]]]

(* Mutant: the layer's own tag is not kept for the build.                  *)
ComputeAndForget(j) ==
    /\ pc[j] = "hash" /\ stack[j] # <<>> /\ Pending(j) = {}
    /\ tags' = IF Top(j) = target[j] THEN tags
               ELSE [tags EXCEPT ![j] = With(@, Top(j),
                        Compute(ParentTags(j), text[j][Top(j)], files[j][Top(j)]))]
    /\ stack' = [stack EXCEPT ![j] = Front(@)]
    /\ UNCHANGED <<checkout, pc, run, work, registry>>

(* A layer whose parents have their tags is rendered and hashed.           *)
ComputeTag(j) ==
    /\ pc[j] = "hash" /\ stack[j] # <<>> /\ Pending(j) = {}
    /\ tags' = [tags EXCEPT ![j] = With(@, Top(j),
                   Compute(ParentTags(j), text[j][Top(j)], files[j][Top(j)]))]
    /\ stack' = [stack EXCEPT ![j] = Front(@)]
    /\ UNCHANGED <<checkout, pc, run, work, registry>>

-----------------------------------------------------------------------------
(* buildLayer and Build.                                                   *)

Tag(j) == tags[j][target[j]]

(* The config is rendered again, with the real tags.                       *)
Render(j) ==
    /\ stack[j] = <<>>
    /\ Move(j, "hash", "probe")
    /\ rendered' = [rendered EXCEPT ![j] = text[j][target[j]]]
    /\ UNCHANGED <<checkout, run, hash, base, registry>>

Skip(j) ==
    /\ Move(j, "probe", "skipped")
    /\ skipIfExists[j] /\ Tag(j) \in DOMAIN registry
    /\ UNCHANGED <<checkout, run, hash, work, registry>>

(* The parent that from: pins is pulled; a root layer needs none.          *)
PullBase(j) ==
    /\ Move(j, "probe", "build")
    /\ ~skipIfExists[j] \/ Tag(j) \notin DOMAIN registry
    /\ LET parents == DependsOn[target[j]]
       IN  IF parents = <<>> THEN UNCHANGED base
           ELSE /\ tags[j][parents[1]] \in DOMAIN registry
                /\ base' = [base EXCEPT ![j] = registry[tags[j][parents[1]]]]
    /\ UNCHANGED <<checkout, run, hash, rendered, registry>>

Image(parent, txt, fls) == [base |-> parent, text |-> txt, files |-> fls]

(* The files are copied; the image is published under the tag.             *)
Publish(j) ==
    /\ Move(j, "build", "built")
    /\ registry' = With(registry, Tag(j), Image(base[j], rendered[j], files[j][target[j]]))
    /\ UNCHANGED <<checkout, run, hash, work>>

(* An error, or a kill.                                                    *)
Fail(j) ==
    /\ pc[j] \in {"hash", "probe", "build"}
    /\ pc' = [pc EXCEPT ![j] = "failed"]
    /\ UNCHANGED <<checkout, run, hash, work, registry>>

Finished == /\ \A j \in Jobs : pc[j] \in {"idle"} \union Ended /\ runs[j] = MaxRuns
            /\ UNCHANGED vars

Build(j) == Render(j) \/ Skip(j) \/ PullBase(j) \/ Publish(j) \/ Fail(j)

Next == \/ \E j \in Jobs : \/ \E l \in Layers : Edit(j, l) \/ Start(j, l)
                           \/ VisitParent(j) \/ ComputeTag(j) \/ Build(j)
        \/ Finished

Spec == Init /\ [][Next]_vars

-----------------------------------------------------------------------------
(* Properties.                                                             *)

(* Every variable has its type; the walk of ComputeTags never holds a      *)
(* layer twice, and a build works under a tag it has.                      *)
TypeOK ==
    /\ text \in [Jobs -> [Layers -> Inputs]] /\ files \in [Jobs -> [Layers -> Inputs]]
    /\ edits \in 0..MaxEdits /\ runs \in [Jobs -> 0..MaxRuns]
    /\ pc \in [Jobs -> {"idle", "hash", "probe", "build"} \union Ended]
    /\ target \in [Jobs -> Layers \union {None}]
    /\ rendered \in [Jobs -> Inputs \union {None}]
    /\ \A j \in Jobs : \A i, n \in DOMAIN stack[j] : stack[j][i] = stack[j][n] => i = n
    /\ \A j \in Jobs : pc[j] \in {"probe", "build", "built", "skipped"} => target[j] \in DOMAIN tags[j]

(* What a checkout stands for: the image of a layer built, parents first,  *)
(* from it alone.                                                          *)
Fresh(j) ==
    LET image[l \in Layers] ==
            Image(IF DependsOn[l] = <<>> THEN None ELSE image[DependsOn[l][1]],
                  text[j][l], files[j][l])
    IN  image

(* When a build has succeeded, by building or by skipping, the image under *)
(* its tag is the one its checkout stands for, down to the root layer, and *)
(* stays so whatever other checkouts build or publish: no stale image is   *)
(* skipped to, built on or overwritten with (Compute, ComputeTags, Build). *)
TagMeansCheckout ==
    \A j \in Jobs : pc[j] \in {"built", "skipped"} => registry[Tag(j)] = Fresh(j)[target[j]]

(* A content tag never moves: no step of any build takes an image away     *)
(* from under its tag or puts a different one there, even when several     *)
(* checkouts publish under the same tag (Compute, Builder.Build).          *)
TagsNeverMove ==
    [][\A t \in DOMAIN registry :
          t \in DOMAIN registry' /\ registry'[t] = registry[t]]_vars
=============================================================================
