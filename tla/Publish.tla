-------------------------------- MODULE Publish --------------------------------
(***************************************************************************)
(* What the publishers do to their destinations (src/internal/publisher):  *)
(* several build runs - CI jobs, retries - publish under overlapping tags  *)
(* of one image name, fail half-way, are killed and run again.             *)
(*                                                                         *)
(* All runs of a behaviour use one kind of destination, a map from keys to *)
(* contents.  A run is its own content: two builds never give equal bytes. *)
(*   local     a key per tag, written by one commit                        *)
(*   registry  a key per tag: the first is pushed, the others are copied   *)
(*             from it                                                     *)
(*   s3        three objects under the first tag                           *)
(*   squashfs  one file named after the first tag                          *)
(***************************************************************************)
EXTENDS Naturals, Sequences

CONSTANTS
    Runs,        (* runs of the program, each with the image it built     *)
    Tags,        (* image tags                                            *)
    TagsOf,      (* the tags of each run's config                         *)
    Kinds,       (* kinds of destination to consider                      *)
    Absent,      (* no content under a key                                *)
    Partial      (* a file that is not complete                           *)

Objects == {"image", "rootfs", "vmlinuz", "initramfs"}

ASSUME PublishAssumption ==
    /\ Kinds \subseteq {"local", "registry", "s3", "squashfs"}
    /\ TagsOf \in [Runs -> Seq(Tags) \ {<<>>}]
    /\ Absent \notin Runs /\ Partial \notin Runs \union {Absent}

VARIABLES
    kind,        (* the destination                                       *)
    skipIfExists,(* runs with --skip-if-exists                            *)
    dest,        (* what is stored under each key                         *)
    pc,          (* where each run is                                     *)
    pos,         (* next key to probe or to write                         *)
    copied,      (* content in flight: the manifest a registry copy has   *)
                 (* read, the file mksquashfs is writing                  *)
    disturbed    (* another run wrote one of this run's keys meanwhile    *)

control == <<kind, skipIfExists>>
vars    == <<control, dest, pc, pos, copied, disturbed>>

-----------------------------------------------------------------------------
(* Keys.                                                                   *)

Primary(r) == TagsOf[r][1]

(* The keys a publish writes, in order.                                    *)
Keys(r) ==
    CASE kind \in {"local", "registry"} -> [i \in DOMAIN TagsOf[r] |-> <<TagsOf[r][i], "image">>]
      [] kind = "s3"       -> [i \in 1..3 |-> <<Primary(r), <<"rootfs", "vmlinuz", "initramfs">>[i]>>]
      [] kind = "squashfs" -> <<<<Primary(r), "rootfs">>>>

KeySet(r) == {Keys(r)[i] : i \in DOMAIN Keys(r)}

(* Mutant: Exists asks for the first tag only, as the file stores do.      *)
ProbesPrimaryOnly(r) == <<Keys(r)[1]>>

(* The keys Exists asks for.                                               *)
Probes(r) == IF kind \in {"local", "registry"} THEN Keys(r) ELSE <<Keys(r)[1]>>

-----------------------------------------------------------------------------
Init ==
    /\ kind \in Kinds
    /\ skipIfExists \in SUBSET Runs
    /\ dest = [k \in Tags \X Objects |-> Absent]
    /\ pc = [r \in Runs |-> "start"]
    /\ pos = [r \in Runs |-> 1]
    /\ copied = [r \in Runs |-> Absent]
    /\ disturbed = [r \in Runs |-> FALSE]

At(r, p)     == pc[r] = p
Goto(r, p)   == pc' = [pc EXCEPT ![r] = p]
SetPos(r, n) == pos' = [pos EXCEPT ![r] = n]

(* A step that gives some keys a content, seen by the runs publishing them *)
Write(r, keys, content) ==
    /\ dest' = [k \in DOMAIN dest |-> IF k \in keys THEN content ELSE dest[k]]
    /\ disturbed' = [q \in Runs |->
           disturbed[q] \/ (q # r /\ At(q, "publish") /\ KeySet(q) \intersect keys # {})]

NoWrite == UNCHANGED <<dest, disturbed>>

(* The next key, or the end of the publish; or the publish fails.          *)
Proceed(r) == SetPos(r, pos[r] + 1) /\ UNCHANGED pc
Fail(r)    == Goto(r, "failed") /\ UNCHANGED pos

-----------------------------------------------------------------------------
(* Exists.                                                                 *)

Start(r) ==
    /\ At(r, "start")
    /\ Goto(r, IF r \in skipIfExists THEN "probe" ELSE "build")
    /\ UNCHANGED <<control, pos, copied>> /\ NoWrite

(* One probe: present - a partial file is there, too -, absent or an error *)
Probe(r) ==
    /\ At(r, "probe") /\ pos[r] <= Len(Probes(r))
    /\ \/ dest[Probes(r)[pos[r]]] # Absent /\ Proceed(r)
       \/ dest[Probes(r)[pos[r]]] = Absent /\ Goto(r, "build") /\ SetPos(r, 1)
       \/ Fail(r)
    /\ UNCHANGED <<control, copied>> /\ NoWrite

Skip(r) ==
    /\ At(r, "probe") /\ pos[r] > Len(Probes(r))
    /\ Goto(r, "skipped")
    /\ UNCHANGED <<control, pos, copied>> /\ NoWrite

(* The image is built; publishing begins.                                  *)
Built(r) ==
    /\ At(r, "build")
    /\ Goto(r, "publish") /\ SetPos(r, 1)
    /\ disturbed' = [disturbed EXCEPT ![r] = FALSE]
    /\ UNCHANGED <<control, dest, copied>>

-----------------------------------------------------------------------------
(* Publish.                                                                *)

Publishing(r, k, n) == At(r, "publish") /\ kind = k /\ pos[r] = n

(* A request that carries a content to the key at pos: done, refused, or   *)
(* done with its answer lost.                                              *)
Request(r, content) ==
    \/ Write(r, {Keys(r)[pos[r]]}, content) /\ (Proceed(r) \/ Fail(r))
    \/ NoWrite /\ Fail(r)

(* LocalPublisher: one commit, which may stop between two of the names it  *)
(* gives the image.                                                        *)
CommitLocally(r) ==
    /\ At(r, "publish") /\ kind = "local" /\ pos[r] <= Len(Keys(r))
    /\ Request(r, r)
    /\ UNCHANGED <<control, copied>>

(* RegistryPublisher: push under the first tag, ...                        *)
PushPrimary(r) ==
    /\ Publishing(r, "registry", 1)
    /\ Request(r, r)
    /\ UNCHANGED <<control, copied>>

(* ... then copy what the first tag holds to each of the others.           *)
CopyRead(r) ==
    /\ At(r, "publish") /\ kind = "registry"
    /\ pos[r] \in 2..Len(Keys(r)) /\ copied[r] = Absent
    /\ \/ copied' = [copied EXCEPT ![r] = dest[Keys(r)[1]]] /\ UNCHANGED <<pc, pos>>
       \/ Fail(r) /\ UNCHANGED copied
    /\ UNCHANGED control /\ NoWrite

(* Mutant: a failed copy forgets to reset.                                 *)
CopyWriteKeeps(r) ==
    /\ At(r, "publish") /\ kind = "registry" /\ copied[r] # Absent
    /\ Request(r, copied[r])
    /\ UNCHANGED <<control, copied>>

CopyWrite(r) ==
    /\ At(r, "publish") /\ kind = "registry" /\ copied[r] # Absent
    /\ Request(r, copied[r])
    /\ copied' = [copied EXCEPT ![r] = Absent]
    /\ UNCHANGED control

(* S3Publisher: rootfs, kernel, initramfs.                                 *)
Upload(r) ==
    /\ At(r, "publish") /\ kind = "s3" /\ pos[r] <= Len(Keys(r))
    /\ Request(r, r)
    /\ UNCHANGED <<control, copied>>

(* SquashfsPublisher: mksquashfs, if it is there, truncates its output and *)
(* fills it.                                                               *)
OpenFile(r) ==
    /\ Publishing(r, "squashfs", 1) /\ copied[r] = Absent
    /\ \/ /\ Write(r, KeySet(r), Partial)
          /\ copied' = [copied EXCEPT ![r] = r]
          /\ UNCHANGED <<pc, pos>>
       \/ NoWrite /\ Fail(r) /\ UNCHANGED copied
    /\ UNCHANGED control

(* Another writer of the same file may spoil it.  A mksquashfs that fails  *)
(* removes its output, one that is killed does not.                        *)
CloseFile(r) ==
    /\ Publishing(r, "squashfs", 1) /\ copied[r] = r
    /\ \/ \E c \in IF disturbed[r] THEN {r, Partial} ELSE {r} :
            Write(r, KeySet(r), c) /\ Proceed(r)
       \/ \E c \in {Absent, Partial} : Write(r, KeySet(r), c) /\ Fail(r)
    /\ copied' = [copied EXCEPT ![r] = Absent]
    /\ UNCHANGED control

(* Mutant: the loop over the keys stops one too early.                     *)
PublishedEarly(r) ==
    /\ At(r, "publish") /\ pos[r] > 1 /\ pos[r] >= Len(Keys(r)) /\ copied[r] = Absent
    /\ Goto(r, "published")
    /\ UNCHANGED <<control, pos, copied>> /\ NoWrite

Published(r) ==
    /\ At(r, "publish") /\ pos[r] > Len(Keys(r))
    /\ Goto(r, "published")
    /\ UNCHANGED <<control, pos, copied>> /\ NoWrite

(* The process dies; a file or an object set stays as it is.               *)
Kill(r) ==
    /\ pc[r] \in {"probe", "build", "publish"}
    /\ Goto(r, "killed")
    /\ copied' = [copied EXCEPT ![r] = Absent]
    /\ UNCHANGED <<control, pos>> /\ NoWrite

Finished == /\ \A r \in Runs : pc[r] \in {"skipped", "published", "failed", "killed"}
            /\ UNCHANGED vars

Exists(r)      == Start(r) \/ Probe(r) \/ Skip(r) \/ Built(r)
PublishStep(r) == \/ CommitLocally(r) \/ PushPrimary(r) \/ CopyRead(r) \/ CopyWrite(r)
                  \/ Upload(r) \/ OpenFile(r) \/ CloseFile(r) \/ Published(r)

Next == (\E r \in Runs : Exists(r) \/ PublishStep(r) \/ Kill(r)) \/ Finished

Spec == Init /\ [][Next]_vars

-----------------------------------------------------------------------------
(* Properties.                                                             *)

States == {"start", "probe", "build", "publish", "skipped", "published", "failed", "killed"}

(* Every variable has its type; no loop over tags or objects passes its    *)
(* end, and a copy or a file is in progress only while its run publishes   *)
(* (Publish, Exists).                                                      *)
TypeOK ==
    /\ kind \in Kinds /\ skipIfExists \subseteq Runs
    /\ dest \in [Tags \X Objects -> Runs \union {Absent, Partial}]
    /\ pc \in [Runs -> States]
    /\ pos \in [Runs -> Nat]
    /\ \A r \in Runs : pos[r] \in 1..(Len(Keys(r)) + 1)
    /\ copied \in [Runs -> Runs \union {Absent}]
    /\ \A r \in Runs : copied[r] # Absent => At(r, "publish")
    /\ disturbed \in [Runs -> BOOLEAN]

(* Publish returns nil only when every tag, object or file of the run      *)
(* holds the image of this very run, whatever earlier runs left there, if  *)
(* no other run wrote the same keys at the same time (the Publish of every *)
(* publisher).                                                             *)
PublishedIsOwn ==
    [][\A r \in Runs : At(r, "publish") /\ pc'[r] = "published" /\ ~disturbed[r]
           => \A k \in KeySet(r) : dest'[k] = r]_vars

Whole(r) == \A k \in KeySet(r) : dest[k] \notin {Absent, Partial}

(* The image stores never make a run skip an image that lacks one of its   *)
(* tags, for a retry, a kill between two tags, a lost answer or a          *)
(* concurrent build: Exists asks for as much as Publish writes             *)
(* (LocalPublisher.Exists, RegistryPublisher.Exists).                      *)
SkippedImageHasAllTags ==
    \A r \in Runs : kind \in {"local", "registry"} /\ At(r, "skipped") => Whole(r)

(* publisher.go: Exists reports whether the image is present at the        *)
(* destination; a run that skipped on its word finds it there, complete,   *)
(* once nobody is publishing any more.                                     *)
ExistsMeansWhole ==
    \A r \in Runs : At(r, "skipped") /\ (\A q \in Runs : ~At(q, "publish")) => Whole(r)
=============================================================================
