--------------------------- MODULE ImageStoreProofs ---------------------------
(***************************************************************************)
(* Proofs about ImageStore, for any number of builds, images and podman    *)
(* users.                                                                  *)
(***************************************************************************)
EXTENDS ImageStore, TLAPS

(* The part of the types the argument needs.                               *)
Shape ==
    /\ pc \in [Builds -> States]
    /\ before \in [Builds -> SUBSET Images]
    /\ pulledParent \in [Builds -> Images \union {None}]
    /\ base \in [Builds -> Images \union {None}]
    /\ images \subseteq Images

(* The base image a build takes for its own was not in the store when the  *)
(* build listed it; a build that has not listed the store has none.        *)
OwnIsNew ==
    \A b \in Builds :
        /\ pulledParent[b] # None => pulledParent[b] \notin before[b]
        /\ pc[b] = "start" => pulledParent[b] = None

Inv == Shape /\ OwnIsNew

(* No build has a parent to prune before it has started.                   *)
LEMMA InvInit == Init => Inv
BY DEF Init, Inv, Shape, OwnIsNew, States

(* What the steps of one build change.                                     *)
LEMMA InvBuildStep ==
    ASSUME Inv, NEW b \in Builds,
           NewContainer(b) \/ Run(b) \/ BuildReturns(b) \/ Delete(b) \/ Prune(b) \/ Kill(b)
    PROVE  Inv'
<1> USE StoreAssumption DEF Inv, Shape, OwnIsNew, States
<1>1. CASE Snapshot(b)
  BY <1>1 DEF Snapshot, Move, store
<1>2. CASE \E i \in Ref[b] : Pull(b, i)
  BY <1>2 DEF Pull, Move, Add
<1>3. CASE PullFails(b) \/ CreateFails(b) \/ BuildReturns(b) \/ NothingToPrune(b) \/ Kill(b)
  BY <1>3 DEF PullFails, CreateFails, BuildReturns, NothingToPrune, Kill, Move, store, own
<1>4. CASE CreateContainer(b)
  BY <1>4 DEF CreateContainer, Move, store
<1>5. CASE Mount(b)
  <2>1. pulledParent' = [pulledParent EXCEPT ![b] = PulledBy(b)]
    BY <1>5 DEF Mount
  <2>2. /\ PulledBy(b) \in Images \union {None}
        /\ PulledBy(b) # None => PulledBy(b) \notin before[b]
    BY DEF PulledBy
  <2> QED BY <1>5, <2>1, <2>2 DEF Mount, Move, store
<1>6. CASE MountFails(b)
  BY <1>6 DEF MountFails, Release, Move, store
<1>7. CASE Run(b)
  BY <1>7 DEF Run, store
<1>8. CASE Delete(b)
  BY <1>8 DEF Delete, Sweep, Unmount, ForceUnmount, DeleteContainer, Release, Move, store
<1>9. CASE PruneImage(b)
  BY <1>9 DEF PruneImage, Move, Drop, own
<1>10. CASE PruneFails(b)
  BY <1>10 DEF PruneFails, Move, store
<1> QED
  BY <1>1, <1>2, <1>3, <1>4, <1>5, <1>6, <1>7, <1>8, <1>9, <1>10
     DEF NewContainer, Prune

(* Every step of any build or podman user keeps the invariant.             *)
LEMMA InvStep == Inv /\ [Next]_vars => Inv'
<1> SUFFICES ASSUME Inv, [Next]_vars PROVE Inv'
  OBVIOUS
<1>1. CASE \E b \in Builds : \/ NewContainer(b) \/ Run(b) \/ BuildReturns(b)
                             \/ Delete(b) \/ Prune(b) \/ Kill(b)
  BY <1>1, InvBuildStep
<1>2. CASE \E i \in Images : Podman(i)
  BY <1>2 DEF Inv, Shape, OwnIsNew, Podman, HostPull, HostRun, HostRm, HostRmi, Add, Drop, own
<1>3. CASE UNCHANGED vars
  BY <1>3 DEF Inv, Shape, OwnIsNew, vars, store, own
<1> QED BY <1>1, <1>2, <1>3 DEF Next, Finished

(* A step that ends the prune of a build takes at most the image that      *)
(* build takes for its own.                                                *)
LEMMA PruneTakesOwn ==
    ASSUME Inv, [Next]_vars, NEW b \in Builds, pc[b] = "prune", pc'[b] = "done"
    PROVE  images \ images' \subseteq Images \ before[b]
<1>1. PICK c \in Builds : NewContainer(c) \/ Run(c) \/ BuildReturns(c) \/ Delete(c) \/ Prune(c) \/ Kill(c)
  <2>1. (\E i \in Images : Podman(i)) \/ UNCHANGED vars => pc' = pc
    BY DEF Podman, HostPull, HostRun, HostRm, HostRmi, vars
  <2> QED BY <2>1 DEF Next, Finished
<1>2. c = b
  BY <1>1 DEF Inv, Shape, NewContainer, Snapshot, Pull, PullFails, CreateContainer, CreateFails,
              Mount, MountFails, Run, BuildReturns, Delete, Sweep, Unmount, ForceUnmount,
              DeleteContainer, Prune, NothingToPrune, PruneImage, PruneFails, Kill, Move
<1>3. Prune(b)
  BY <1>1, <1>2 DEF Inv, Shape, NewContainer, Snapshot, Pull, PullFails, CreateContainer, CreateFails,
              Mount, MountFails, Run, BuildReturns, Delete, Sweep, Unmount, ForceUnmount,
              DeleteContainer, Kill, Move
<1>4. CASE PruneImage(b)
  <2>1. images \ images' \subseteq {pulledParent[b]} /\ pulledParent[b] \in images
    BY <1>4 DEF PruneImage, Drop
  <2> QED BY <2>1, StoreAssumption DEF Inv, Shape, OwnIsNew
<1>5. CASE NothingToPrune(b) \/ PruneFails(b)
  BY <1>5 DEF NothingToPrune, PruneFails, store
<1> QED BY <1>3, <1>4, <1>5 DEF Prune

(* A prune never removes an image that was in the store when its build     *)
(* began (NewContainer, Container.PulledParentID).                         *)
THEOREM PruneKeepsPriorImages == Spec => PriorImagesStay
<1>1. Inv /\ [Next]_vars =>
        [\A b \in Builds : pc[b] = "prune" /\ pc'[b] = "done"
            => images \ images' \subseteq Images \ before[b]]_vars
  BY PruneTakesOwn
<1> QED BY <1>1, InvInit, InvStep, PTL DEF Spec, PriorImagesStay

-----------------------------------------------------------------------------
(* The other invariants.                                                   *)

(* What a build brought is forgotten when it leaves the store.             *)
PullersKnown == \A i \in Images : puller[i] \in Builds => i \in images

(* A container that runs, or is about to be unmounted, is mounted.         *)
MountsHeld == \A b \in Builds : pc[b] \in {"running", "sweep", "unmount"} => mounts[b] > 0

(* Only a build past the mount has a working container that Delete sees;   *)
(* behind Delete it is no longer live.                                     *)
DeletedBeforePrune == \A b \in Builds : pc[b] \in {"prune", "done"} => working[b] # "live"

(* A layer is mounted once its container is whole; behind the forced       *)
(* unmount a mount that is left has been warned of, and so is a container  *)
(* that could not be deleted.                                              *)
MountsKnown ==
    \A b \in Builds :
        /\ pc[b] \in {"start", "pull", "create", "mount"} => mounts[b] = 0
        /\ pc[b] \in {"delete", "prune", "done", "failed"} => mounts[b] = 0 \/ warned[b]
        /\ working[b] = "stuck" => warned[b]

StoreInv == /\ TypeOK /\ PullersKnown /\ MountsHeld /\ DeletedBeforePrune
            /\ PruneLeavesNothing /\ MountsKnown

LEMMA StoreInvInit == Init => StoreInv
<1> SUFFICES ASSUME Init PROVE StoreInv
  OBVIOUS
<1>1. TypeOK
  BY StoreAssumption DEF Init, TypeOK, States
<1>2. PullersKnown /\ MountsHeld /\ DeletedBeforePrune /\ PruneLeavesNothing /\ MountsKnown
  BY StoreAssumption DEF Init, PullersKnown, MountsHeld, DeletedBeforePrune,
                         PruneLeavesNothing, MountsKnown
<1> QED
  BY <1>1, <1>2 DEF StoreInv

(* A step of a build b that leaves the store as it is.                     *)
LEMMA StoreInvKeep ==
    ASSUME StoreInv, NEW b \in Builds,
           \/ Snapshot(b) \/ PullFails(b) \/ CreateContainer(b) \/ CreateFails(b)
           \/ Mount(b) \/ MountFails(b) \/ Run(b) \/ BuildReturns(b) \/ Delete(b)
           \/ NothingToPrune(b) \/ PruneFails(b) \/ Kill(b)
    PROVE  StoreInv'
<1> USE StoreAssumption DEF StoreInv, TypeOK, States, PullersKnown, MountsHeld,
        DeletedBeforePrune, PruneLeavesNothing, MountsKnown, Move, store
<1>1. CASE Snapshot(b)
  BY <1>1 DEF Snapshot
<1>2. CASE PullFails(b) \/ CreateFails(b) \/ Kill(b)
  BY <1>2 DEF PullFails, CreateFails, Kill, own
<1>3. CASE BuildReturns(b)
  BY <1>3 DEF BuildReturns, own
<1>4. CASE CreateContainer(b)
  BY <1>4 DEF CreateContainer
<1>5. CASE Mount(b)
  <2>1. PulledBy(b) \in Images \union {None}
    BY DEF PulledBy
  <2> QED
    BY <1>5, <2>1 DEF Mount
<1>6. CASE MountFails(b)
  <2>1. CASE working' = [working EXCEPT ![b] = "none"] /\ UNCHANGED warned
    BY <1>6, <2>1 DEF MountFails, Release
  <2>2. CASE /\ working' = [working EXCEPT ![b] = "stuck"]
             /\ warned' = [warned EXCEPT ![b] = TRUE]
    BY <1>6, <2>2 DEF MountFails, Release
  <2> QED
    BY <1>6, <2>1, <2>2 DEF MountFails, Release
<1>7. CASE Run(b)
  <2>1. PICK n \in 1..MaxMounts[b], s \in BOOLEAN :
            mounts' = [mounts EXCEPT ![b] = n] /\ stray' = [stray EXCEPT ![b] = s]
    <3>1. mounts[b] \in 1..MaxMounts[b] /\ stray[b] \in BOOLEAN
      BY <1>7 DEF Run
    <3>2. PICK s \in {stray[b], TRUE} : stray' = [stray EXCEPT ![b] = s]
      BY <1>7 DEF Run
    <3>3. CASE UNCHANGED mounts
      <4>1. mounts' = [mounts EXCEPT ![b] = mounts[b]]
        BY <3>3
      <4> QED
        BY <3>1, <3>2, <4>1
    <3>4. CASE mounts[b] < MaxMounts[b] /\ mounts' = [mounts EXCEPT ![b] = @ + 1]
      <4>1. mounts[b] + 1 \in 1..MaxMounts[b]
        BY <3>1, <3>4
      <4> QED
        BY <3>1, <3>2, <3>4, <4>1
    <3>5. UNCHANGED mounts \/ (mounts[b] < MaxMounts[b] /\ mounts' = [mounts EXCEPT ![b] = @ + 1])
      BY <1>7 DEF Run
    <3> QED
      BY <3>3, <3>4, <3>5
  <2> QED
    BY <1>7, <2>1 DEF Run
<1>8. CASE Sweep(b)
  <2>1. PICK s \in BOOLEAN : stray' = [stray EXCEPT ![b] = s]
    <3>1. stray[b] \in BOOLEAN
      OBVIOUS
    <3>2. PICK s \in {stray[b], FALSE} : stray' = [stray EXCEPT ![b] = s]
      BY <1>8 DEF Sweep
    <3>3. s \in BOOLEAN
      BY <3>1, <3>2
    <3> QED
      BY <3>2, <3>3
  <2> QED
    BY <1>8, <2>1 DEF Sweep
<1>9. CASE Unmount(b)
  <2>1. mounts[b] \in 1..MaxMounts[b]
    BY <1>9 DEF Unmount
  <2>2. CASE mounts' = [mounts EXCEPT ![b] = @ - 1] /\ UNCHANGED warned
    <3>1. mounts[b] - 1 \in 0..MaxMounts[b]
      BY <2>1
    <3>2. PICK n \in 0..MaxMounts[b] : mounts' = [mounts EXCEPT ![b] = n]
      BY <2>2, <3>1
    <3> QED
      BY <1>9, <2>2, <3>2 DEF Unmount
  <2>3. CASE UnmountFails(b)
    BY <1>9, <2>3 DEF Unmount, UnmountFails
  <2> QED
    BY <1>9, <2>2, <2>3 DEF Unmount
<1>10. CASE ForceUnmount(b)
  <2>1. CASE mounts' = [mounts EXCEPT ![b] = 0] /\ UNCHANGED warned
    BY <1>10, <2>1 DEF ForceUnmount
  <2>2. CASE UnmountFails(b)
    BY <1>10, <2>2 DEF ForceUnmount, UnmountFails
  <2> QED
    BY <1>10, <2>1, <2>2 DEF ForceUnmount
<1>11. CASE DeleteContainer(b)
  <2>1. CASE working' = [working EXCEPT ![b] = "none"] /\ UNCHANGED warned
    BY <1>11, <2>1 DEF DeleteContainer, Release
  <2>2. CASE /\ working' = [working EXCEPT ![b] = "stuck"]
             /\ warned' = [warned EXCEPT ![b] = TRUE]
    BY <1>11, <2>2 DEF DeleteContainer, Release
  <2> QED
    BY <1>11, <2>1, <2>2 DEF DeleteContainer, Release
<1>12. CASE NothingToPrune(b)
  BY <1>12 DEF NothingToPrune, own
<1>13. CASE PruneFails(b)
  BY <1>13 DEF PruneFails, Held
<1> QED
  BY <1>1, <1>2, <1>3, <1>4, <1>5, <1>6, <1>7, <1>8, <1>9, <1>10, <1>11, <1>12, <1>13 DEF Delete

(* Pulls and prunes, by a build and by podman users.                       *)
LEMMA StoreInvMove ==
    ASSUME StoreInv,
           \/ \E b \in Builds : (\E i \in Ref[b] : Pull(b, i)) \/ PruneImage(b)
           \/ \E i \in Images : Podman(i)
    PROVE  StoreInv'
<1> USE StoreAssumption DEF StoreInv, TypeOK, States, PullersKnown, MountsHeld,
        DeletedBeforePrune, PruneLeavesNothing, MountsKnown, Move
<1>1. ASSUME NEW b \in Builds, NEW i \in Ref[b], Pull(b, i) PROVE StoreInv'
  BY <1>1 DEF Pull, Add
<1>2. ASSUME NEW b \in Builds, PruneImage(b) PROVE StoreInv'
  BY <1>2 DEF PruneImage, Drop, Held, own
<1>3. ASSUME NEW i \in Images, HostPull(i) PROVE StoreInv'
  BY <1>3 DEF HostPull, Add, own
<1>4. ASSUME NEW i \in Images, HostRun(i) \/ HostRm(i) PROVE StoreInv'
  BY <1>4 DEF HostRun, HostRm, own
<1>5. ASSUME NEW i \in Images, HostRmi(i) PROVE StoreInv'
  BY <1>5 DEF HostRmi, Drop, Held, own
<1> QED
  BY <1>1, <1>2, <1>3, <1>4, <1>5 DEF Podman

LEMMA StoreInvStep == StoreInv /\ [Next]_vars => StoreInv'
<1> SUFFICES ASSUME StoreInv, [Next]_vars PROVE StoreInv'
  OBVIOUS
<1>1. CASE \E b \in Builds : \/ NewContainer(b) \/ Run(b) \/ BuildReturns(b)
                             \/ Delete(b) \/ Prune(b) \/ Kill(b)
  BY <1>1, StoreInvKeep, StoreInvMove DEF NewContainer, Prune
<1>2. CASE \E i \in Images : Podman(i)
  BY <1>2, StoreInvMove
<1>3. CASE UNCHANGED vars
  BY <1>3 DEF StoreInv, TypeOK, PullersKnown, MountsHeld, DeletedBeforePrune,
              PruneLeavesNothing, MountsKnown, vars, store, own
<1> QED
  BY <1>1, <1>2, <1>3 DEF Next, Finished

(* Every variable of the store and of the builds keeps its type.           *)
THEOREM TypeCorrect == Spec => []TypeOK
<1>1. StoreInv => TypeOK
  BY DEF StoreInv
<1> QED
  BY <1>1, StoreInvInit, StoreInvStep, PTL DEF Spec

(* An image a pruning build introduced is gone when it is done, unless the *)
(* store failed or a container other than its own live one holds it (the   *)
(* defers of Build, prunePulledParent, PruneImage).                        *)
THEOREM PruneIsNotInItsOwnWay == Spec => []PruneLeavesNothing
<1>1. StoreInv => PruneLeavesNothing
  BY DEF StoreInv
<1> QED
  BY <1>1, StoreInvInit, StoreInvStep, PTL DEF Spec

(* However many mounts commands leave and whichever step of the clean-up   *)
(* fails, a build that was not killed is never past it with a layer still  *)
(* mounted or a container still there that nothing warned of               *)
(* (Container.Delete, NewContainer).                                       *)
THEOREM NoSilentLeak == Spec => []LeaksAreReported
<1>1. StoreInv => LeaksAreReported
  BY DEF StoreInv, TypeOK, MountsKnown, LeaksAreReported
<1> QED
  BY <1>1, StoreInvInit, StoreInvStep, PTL DEF Spec
=============================================================================
