------------------------------ MODULE ImageStore ------------------------------
(***************************************************************************)
(* Several builds and the podman users of the same host on one             *)
(* containers-storage: NewContainer, Container.Delete and the prune of the *)
(* pulled base image (src/internal/buildah/container.go, store.go and      *)
(* Builder.prunePulledParent).                                             *)
(*                                                                         *)
(* NewContainer is not atomic: it lists the images, pulls the base,        *)
(* creates the container and mounts it, and every other actor can run in   *)
(* between.  The storage library serialises single calls only.             *)
(***************************************************************************)
EXTENDS Naturals, FiniteSets

CONSTANTS
    Builds,      (* builds on the host                                    *)
    Pruning,     (* of those, the ones run with --prune-parent            *)
    Images,      (* image IDs                                             *)
    Ref,         (* the images the base reference of a build may name: a  *)
                 (* tag can move between two resolutions                  *)
    Host,        (* the podman users, as a puller                         *)
    None,        (* no image, no puller                                   *)
    MaxMounts    (* bound: mounts of the layer of each build's container  *)

ASSUME StoreAssumption ==
    /\ Pruning \subseteq Builds
    /\ Host \notin Builds /\ None \notin Builds \union Images
    /\ Ref \in [Builds -> SUBSET Images]
    /\ MaxMounts \in [Builds -> Nat \ {0}]

VARIABLES
    images,      (* images in the store                                   *)
    puller,      (* who brought each image into the store                 *)
    user,        (* images the containers of podman users are built on    *)
    pc,          (* where each build is                                   *)
    base,        (* what the base reference of each build resolved to     *)
    before,      (* the store when the build listed it                    *)
    listed,      (* the listing succeeded                                 *)
    working,     (* its working container: "none" | "live" | "stuck"      *)
    mounts,      (* mount count of its layer                              *)
    stray,       (* a process left inside its root pins the mount         *)
    warned,      (* a step of its Delete was logged as failed             *)
    pulledParent,(* Container.pulledParentID                              *)
    spared       (* why a prune left its image: "no" | "held" | "error"   *)

store == <<images, puller, user>>
own   == <<base, before, listed, working, mounts, stray, warned, pulledParent, spared>>
vars  == <<store, pc, own>>

Init ==
    /\ images \in SUBSET Images
    /\ puller = [i \in Images |-> IF i \in images THEN Host ELSE None]
    /\ user = {}
    /\ pc = [b \in Builds |-> "start"]
    /\ base = [b \in Builds |-> None]
    /\ before = [b \in Builds |-> {}]
    /\ listed = [b \in Builds |-> FALSE]
    /\ working = [b \in Builds |-> "none"]
    /\ mounts = [b \in Builds |-> 0]
    /\ stray = [b \in Builds |-> FALSE]
    /\ warned = [b \in Builds |-> FALSE]
    /\ pulledParent = [b \in Builds |-> None]
    /\ spared = [b \in Builds |-> "no"]

Held(i) == i \in user \/ \E b \in Builds : working[b] # "none" /\ base[b] = i

Move(b, from, to) == pc[b] = from /\ pc' = [pc EXCEPT ![b] = to]

Add(i, who) ==
    /\ images' = images \union {i}
    /\ puller' = IF i \in images THEN puller ELSE [puller EXCEPT ![i] = who]

Drop(i) ==
    /\ images' = images \ {i}
    /\ puller' = [puller EXCEPT ![i] = None]

-----------------------------------------------------------------------------
(* NewContainer.                                                           *)

(* imageIDSet; a failure only costs the ability to prune.  The listing is  *)
(* kept in before whether or not the build gets to see it.                 *)
Snapshot(b) ==
    /\ Move(b, "start", "pull")
    /\ before' = [before EXCEPT ![b] = images]
    /\ \E ok \in BOOLEAN : listed' = [listed EXCEPT ![b] = ok]
    /\ UNCHANGED <<store, base, working, mounts, stray, warned, pulledParent, spared>>

(* buildah.NewBuilder resolves the reference and pulls it if missing.      *)
Pull(b, i) ==
    /\ Move(b, "pull", "create")
    /\ base' = [base EXCEPT ![b] = i]
    /\ Add(i, b)
    /\ UNCHANGED <<user, before, listed, working, mounts, stray, warned, pulledParent, spared>>

PullFails(b) ==
    /\ Move(b, "pull", "failed")
    /\ UNCHANGED <<store, own>>

(* ... and creates the container on it, unless it is already gone.         *)
CreateContainer(b) ==
    /\ base[b] \in images
    /\ Move(b, "create", "mount")
    /\ working' = [working EXCEPT ![b] = "live"]
    /\ UNCHANGED <<store, base, before, listed, mounts, stray, warned, pulledParent, spared>>

CreateFails(b) ==
    /\ Move(b, "create", "failed")
    /\ UNCHANGED <<store, own>>

(* Mutant: a listing that failed counts as an empty one.                   *)
PulledByIgnoringError(b) == IF base[b] \notin (IF listed[b] THEN before[b] ELSE {})
                            THEN base[b] ELSE None

(* The base is ours when the listing succeeded and did not contain it.     *)
PulledBy(b) == IF listed[b] /\ base[b] \notin before[b] THEN base[b] ELSE None

Mount(b) ==
    /\ Move(b, "mount", "running")
    /\ mounts' = [mounts EXCEPT ![b] = 1]
    /\ pulledParent' = [pulledParent EXCEPT ![b] = PulledBy(b)]
    /\ UNCHANGED <<store, base, before, listed, working, stray, warned, spared>>

(* Mutant: a mount that failed is rolled back by Container.Delete.         *)
MountFailsDeletes(b) == Move(b, "mount", "sweep") /\ UNCHANGED <<store, own>>

(* Builder.Delete, which may fail; that is logged.                         *)
Release(b) ==
    /\ \/ /\ working' = [working EXCEPT ![b] = "none"]
          /\ UNCHANGED warned
       \/ /\ working' = [working EXCEPT ![b] = "stuck"]
          /\ warned' = [warned EXCEPT ![b] = TRUE]
    /\ UNCHANGED <<store, base, before, listed, mounts, stray, pulledParent, spared>>

(* The container is rolled back, if it can be; the pulled image is not.    *)
MountFails(b) == Move(b, "mount", "failed") /\ Release(b)

-----------------------------------------------------------------------------
(* The build itself.                                                       *)

(* A command mounts the root once more, and may leave that mount and a     *)
(* daemon behind.                                                          *)
Run(b) ==
    /\ pc[b] = "running"
    /\ \/ mounts[b] < MaxMounts[b] /\ mounts' = [mounts EXCEPT ![b] = @ + 1]
       \/ UNCHANGED mounts
    /\ \E s \in {stray[b], TRUE} : stray' = [stray EXCEPT ![b] = s]
    /\ UNCHANGED <<store, pc, base, before, listed, working, warned, pulledParent, spared>>

(* Mutant: the prune is registered to run before the delete.               *)
BuildReturnsToPrune(b) == Move(b, "running", "prune") /\ UNCHANGED <<store, own>>

BuildReturns(b) == Move(b, "running", "sweep") /\ UNCHANGED <<store, own>>

-----------------------------------------------------------------------------
(* Container.Delete: every step is best-effort.                            *)

(* killStrayProcesses: a process may belong to another user or not die in  *)
(* time.                                                                   *)
Sweep(b) ==
    /\ Move(b, "sweep", "unmount")
    /\ \E s \in {stray[b], FALSE} : stray' = [stray EXCEPT ![b] = s]
    /\ UNCHANGED <<store, base, before, listed, working, mounts, warned, pulledParent, spared>>

(* An unmount that fails is logged, and the layer stays as it is.          *)
UnmountFails(b) == warned' = [warned EXCEPT ![b] = TRUE] /\ UNCHANGED mounts

(* Builder.Unmount takes one mount off, and reports success though others  *)
(* are left; a stray process does not let go of the last one.              *)
Unmount(b) ==
    /\ Move(b, "unmount", "force")
    /\ \/ /\ ~stray[b] \/ mounts[b] > 1
          /\ mounts' = [mounts EXCEPT ![b] = @ - 1]
          /\ UNCHANGED warned
       \/ UnmountFails(b)
    /\ UNCHANGED <<store, base, before, listed, working, stray, pulledParent, spared>>

(* Mutant: the plain unmount is taken at its word.                         *)
TrustUnmount(b) == Move(b, "force", "delete") /\ UNCHANGED <<store, own>>

(* Store.Unmount with force takes the count to zero, unless it returns an  *)
(* error or finds the layer still mounted.  The container goes either way. *)
ForceUnmount(b) ==
    /\ Move(b, "force", "delete")
    /\ \/ /\ ~stray[b] \/ mounts[b] = 0
          /\ mounts' = [mounts EXCEPT ![b] = 0]
          /\ UNCHANGED warned
       \/ UnmountFails(b)
    /\ UNCHANGED <<store, base, before, listed, working, stray, pulledParent, spared>>

DeleteContainer(b) == Move(b, "delete", "prune") /\ Release(b)

-----------------------------------------------------------------------------
(* prunePulledParent and PruneImage.  The storage refuses to delete an     *)
(* image that a container is built on.                                     *)

NothingToPrune(b) ==
    /\ Move(b, "prune", "done")
    /\ b \notin Pruning \/ pulledParent[b] \notin images
    /\ UNCHANGED <<store, own>>

PruneImage(b) ==
    /\ Move(b, "prune", "done")
    /\ b \in Pruning
    /\ pulledParent[b] \in images /\ ~Held(pulledParent[b])
    /\ Drop(pulledParent[b])
    /\ UNCHANGED <<user, own>>

PruneFails(b) ==
    /\ Move(b, "prune", "done")
    /\ b \in Pruning /\ pulledParent[b] \in images
    /\ \/ /\ Held(pulledParent[b])
          /\ spared' = [spared EXCEPT ![b] = "held"]
       \/ spared' = [spared EXCEPT ![b] = "error"]
    /\ UNCHANGED <<store, base, before, listed, working, mounts, stray, warned, pulledParent>>

(* The process is killed: nothing deferred runs.                           *)
Kill(b) ==
    /\ pc[b] \notin {"start", "failed", "done", "killed"}
    /\ pc' = [pc EXCEPT ![b] = "killed"]
    /\ UNCHANGED <<store, own>>

-----------------------------------------------------------------------------
(* The podman users of the host.                                           *)

HostPull(i) == Add(i, Host) /\ i \notin images /\ UNCHANGED <<user, pc, own>>
HostRun(i)  == i \in images \ user /\ user' = user \union {i} /\ UNCHANGED <<images, puller, pc, own>>
HostRm(i)   == i \in user /\ user' = user \ {i} /\ UNCHANGED <<images, puller, pc, own>>
HostRmi(i)  == i \in images /\ ~Held(i) /\ Drop(i) /\ UNCHANGED <<user, pc, own>>

Finished == /\ \A b \in Builds : pc[b] \in {"failed", "done", "killed"}
            /\ UNCHANGED vars

NewContainer(b) == \/ Snapshot(b) \/ (\E i \in Ref[b] : Pull(b, i)) \/ PullFails(b)
                   \/ CreateContainer(b) \/ CreateFails(b) \/ Mount(b) \/ MountFails(b)
Delete(b)       == Sweep(b) \/ Unmount(b) \/ ForceUnmount(b) \/ DeleteContainer(b)
Prune(b)        == NothingToPrune(b) \/ PruneImage(b) \/ PruneFails(b)
Podman(i)       == HostPull(i) \/ HostRun(i) \/ HostRm(i) \/ HostRmi(i)

Next == \/ \E b \in Builds : \/ NewContainer(b) \/ Run(b) \/ BuildReturns(b)
                             \/ Delete(b) \/ Prune(b) \/ Kill(b)
        \/ \E i \in Images : Podman(i)
        \/ Finished

Spec == Init /\ [][Next]_vars

-----------------------------------------------------------------------------
(* Properties.                                                             *)

States == {"start", "pull", "create", "mount", "running", "sweep", "unmount",
           "force", "delete", "prune", "done", "failed", "killed"}

(* Every variable has its type.                                            *)
TypeOK ==
    /\ images \subseteq Images /\ user \subseteq images
    /\ puller \in [Images -> Builds \union {Host, None}]
    /\ pc \in [Builds -> States]
    /\ base \in [Builds -> Images \union {None}]
    /\ before \in [Builds -> SUBSET Images]
    /\ pulledParent \in [Builds -> Images \union {None}]
    /\ mounts \in [Builds -> Nat] /\ \A b \in Builds : mounts[b] <= MaxMounts[b]
    /\ listed \in [Builds -> BOOLEAN] /\ stray \in [Builds -> BOOLEAN]
    /\ warned \in [Builds -> BOOLEAN]
    /\ working \in [Builds -> {"none", "live", "stuck"}]
    /\ spared \in [Builds -> {"no", "held", "error"}]

(* A prune never removes an image that was in the store when its build     *)
(* began, whoever removed and pulled it since, and even when the listing   *)
(* of the store failed (NewContainer, Container.PulledParentID).           *)
PriorImagesStay ==
    [][\A b \in Builds : pc[b] = "prune" /\ pc'[b] = "done"
           => images \ images' \subseteq Images \ before[b]]_vars

(* An image a pruning build introduced is gone when it is done, unless the *)
(* store failed or a container other than its own live one holds it: the   *)
(* build never stands in the way of its own prune (the defers of Build).   *)
PruneLeavesNothing ==
    \A b \in Pruning :
        pc[b] = "done" /\ pulledParent[b] # None /\ puller[pulledParent[b]] = b
            => \/ spared[b] = "error"
               \/ spared[b] = "held" /\ working[b] # "live"

(* No build leaves a leak behind in silence: however many mounts its       *)
(* commands left and whatever failed, once a build that was not killed is  *)
(* past its clean-up, a layer that is still mounted or a container that is *)
(* still there has been warned of, though the plain unmount reports        *)
(* success over a mounted layer (Container.Delete, NewContainer).          *)
LeaksAreReported ==
    \A b \in Builds : pc[b] \in {"prune", "done", "failed"} =>
        (mounts[b] > 0 \/ working[b] = "stuck" => warned[b])
=============================================================================
