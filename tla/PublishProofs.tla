----------------------------- MODULE PublishProofs -----------------------------
(***************************************************************************)
(* Proofs about Publish, for any number of runs, any tags and every kind   *)
(* of destination.                                                         *)
(***************************************************************************)
EXTENDS Publish, TLAPS

ImageStores == {"local", "registry"}

-----------------------------------------------------------------------------
(* Keys.                                                                   *)

LEMMA KeysOfRun ==
    ASSUME kind \in Kinds, NEW r \in Runs
    PROVE  /\ Len(Keys(r)) \in Nat \ {0}
           /\ \A i \in 1..Len(Keys(r)) : Keys(r)[i] \in Tags \X Objects
           /\ \A i \in 1..Len(Keys(r)) : Keys(r)[i] \in KeySet(r)
           /\ \A k \in KeySet(r) : \E i \in 1..Len(Keys(r)) : k = Keys(r)[i]
           /\ kind = "squashfs" => Len(Keys(r)) = 1
<1>1. TagsOf[r] \in Seq(Tags) /\ TagsOf[r] # <<>>
  BY PublishAssumption
<1>2. Len(TagsOf[r]) \in Nat \ {0} /\ DOMAIN TagsOf[r] = 1..Len(TagsOf[r])
  BY <1>1
<1>3. \A i \in 1..Len(TagsOf[r]) : TagsOf[r][i] \in Tags
  BY <1>1
<1>4. Primary(r) \in Tags
  BY <1>2, <1>3 DEF Primary
<1>5. CASE kind \in ImageStores
  <2>1. Keys(r) = [i \in 1..Len(TagsOf[r]) |-> <<TagsOf[r][i], "image">>]
    BY <1>2, <1>5 DEF Keys, ImageStores
  <2>2. Len(Keys(r)) = Len(TagsOf[r]) /\ DOMAIN Keys(r) = 1..Len(TagsOf[r])
    BY <1>2, <2>1
  <2>3. \A i \in 1..Len(Keys(r)) : Keys(r)[i] \in Tags \X Objects
    BY <1>3, <2>1, <2>2 DEF Objects
  <2> QED
    BY <1>2, <1>5, <2>2, <2>3 DEF KeySet, ImageStores
<1>6. CASE kind = "s3"
  <2>1. Keys(r) = [i \in 1..3 |-> <<Primary(r), <<"rootfs", "vmlinuz", "initramfs">>[i]>>]
    BY <1>6 DEF Keys
  <2>2. Len(Keys(r)) = 3 /\ DOMAIN Keys(r) = 1..3
    BY <2>1
  <2>3. \A i \in 1..3 : <<"rootfs", "vmlinuz", "initramfs">>[i] \in Objects
    BY DEF Objects
  <2> QED
    BY <1>4, <1>6, <2>1, <2>2, <2>3 DEF KeySet
<1>7. CASE kind = "squashfs"
  <2>1. Keys(r) = << <<Primary(r), "rootfs">> >>
    BY <1>7 DEF Keys
  <2> QED
    BY <1>4, <1>7, <2>1 DEF KeySet, Objects
<1> QED
  BY <1>5, <1>6, <1>7, PublishAssumption DEF ImageStores

(* The keys do not change, and Exists asks for keys of the run.            *)
LEMMA KeysStay ==
    ASSUME kind' = kind, NEW r \in Runs
    PROVE  Keys(r)' = Keys(r) /\ KeySet(r)' = KeySet(r)
BY DEF Keys, KeySet, Primary

LEMMA ProbesAreKeys ==
    ASSUME kind \in Kinds, NEW r \in Runs
    PROVE  /\ Len(Probes(r)) \in 1..Len(Keys(r))
           /\ kind \in ImageStores => Probes(r) = Keys(r)
BY KeysOfRun DEF Probes, ImageStores

-----------------------------------------------------------------------------
(* The invariant.                                                          *)

(* The types, and that an image store never holds a part of an image.      *)
Shape ==
    /\ kind \in Kinds /\ skipIfExists \subseteq Runs
    /\ dest \in [Tags \X Objects -> Runs \union {Absent, Partial}]
    /\ pc \in [Runs -> States]
    /\ pos \in [Runs -> Nat]
    /\ copied \in [Runs -> Runs \union {Absent}]
    /\ disturbed \in [Runs -> BOOLEAN]
    /\ kind \in ImageStores => \A k \in Tags \X Objects : dest[k] # Partial

(* What is in flight is the manifest of a copy after the first tag, or the *)
(* one file.                                                               *)
InFlight(r) ==
    copied[r] # Absent =>
        /\ At(r, "publish")
        /\ \/ kind = "registry" /\ pos[r] \in 2..Len(Keys(r))
           \/ kind = "squashfs" /\ pos[r] = 1 /\ copied[r] = r

(* What an image store holds stays: the first tag of a run that copies,    *)
(* what a run has probed, all of what one has skipped.                     *)
ImagesStay(r) ==
    kind \in ImageStores =>
        /\ At(r, "publish") /\ pos[r] > 1 => dest[Keys(r)[1]] # Absent
        /\ At(r, "probe") => \A i \in 1..(pos[r] - 1) : dest[Keys(r)[i]] # Absent
        /\ At(r, "skipped") => \A k \in KeySet(r) : dest[k] # Absent

(* What an undisturbed run has written, and is about to copy, is its own.  *)
WrittenIsOwn(r) ==
    At(r, "publish") /\ ~disturbed[r] =>
        /\ \A i \in 1..(pos[r] - 1) : dest[Keys(r)[i]] = r
        /\ copied[r] \in {Absent, r}

RunOK(r) == /\ pos[r] \in 1..(Len(Keys(r)) + 1)
            /\ At(r, "start") => pos[r] = 1
            /\ InFlight(r) /\ ImagesStay(r) /\ WrittenIsOwn(r)

Inv == Shape /\ \A r \in Runs : RunOK(r)

LEMMA InvInit == Init => Inv
<1> SUFFICES ASSUME Init PROVE Inv
  OBVIOUS
<1>1. Shape
  BY PublishAssumption DEF Init, Shape, States, ImageStores
<1>2. ASSUME NEW r \in Runs PROVE RunOK(r)
  BY KeysOfRun DEF Init, RunOK, InFlight, ImagesStay, WrittenIsOwn, At
<1> QED
  BY <1>1, <1>2 DEF Inv

(* A run that does not move: nothing it relies on is taken from an image   *)
(* store, and while it is undisturbed nobody writes its keys.              *)
LEMMA Bystander ==
    ASSUME Inv, kind' = kind, NEW q \in Runs,
           pc'[q] = pc[q], pos'[q] = pos[q], copied'[q] = copied[q],
           kind \in ImageStores => \A k \in Tags \X Objects : dest[k] # Absent => dest'[k] # Absent,
           At(q, "publish") /\ ~disturbed'[q]
               => ~disturbed[q] /\ \A k \in KeySet(q) : dest'[k] = dest[k]
    PROVE  RunOK(q)'
<1> USE DEF Inv, Shape, At
<1>1. Keys(q)' = Keys(q) /\ KeySet(q)' = KeySet(q)
  BY KeysStay
<1>2. /\ Len(Keys(q)) \in Nat \ {0} /\ pos[q] \in 1..(Len(Keys(q)) + 1)
      /\ \A i \in 1..Len(Keys(q)) : Keys(q)[i] \in KeySet(q)
      /\ \A i \in 1..Len(Keys(q)) : Keys(q)[i] \in Tags \X Objects
      /\ \A k \in KeySet(q) : k \in Tags \X Objects
  <2>1. RunOK(q) /\ kind \in Kinds
    OBVIOUS
  <2> HIDE DEF Inv, Shape
  <2> QED
    BY <2>1, KeysOfRun DEF RunOK
<1>3. InFlight(q)'
  BY <1>1 DEF RunOK, InFlight
<1>4. ImagesStay(q)'
  <2>1. ImagesStay(q)
    BY DEF RunOK
  <2> HIDE DEF Inv, Shape
  <2> QED
    BY <1>1, <1>2, <2>1 DEF ImagesStay
<1>5. WrittenIsOwn(q)'
  <2> SUFFICES ASSUME At(q, "publish"), ~disturbed'[q]
               PROVE  (\A i \in 1..(pos[q] - 1) : dest'[Keys(q)[i]] = q) /\ copied[q] \in {Absent, q}
    BY <1>1 DEF WrittenIsOwn
  <2>1. (\A i \in 1..(pos[q] - 1) : dest[Keys(q)[i]] = q) /\ copied[q] \in {Absent, q}
    BY DEF RunOK, WrittenIsOwn
  <2>2. \A i \in 1..(pos[q] - 1) : Keys(q)[i] \in KeySet(q)
    BY <1>2
  <2> QED
    BY <2>1, <2>2
<1> QED
  BY <1>1, <1>2, <1>3, <1>4, <1>5 DEF RunOK

(* What a write of r does to the destination and to the other runs.        *)
LEMMA WriteEffect ==
    ASSUME Inv, kind' = kind, NEW r \in Runs, NEW keys, NEW content, Write(r, keys, content),
           keys \subseteq KeySet(r), content \in Runs \union {Absent, Partial},
           kind \in ImageStores => content \in Runs
    PROVE  /\ dest' \in [Tags \X Objects -> Runs \union {Absent, Partial}]
           /\ disturbed' \in [Runs -> BOOLEAN] /\ disturbed'[r] = disturbed[r]
           /\ \A k \in Tags \X Objects : dest'[k] = IF k \in keys THEN content ELSE dest[k]
           /\ kind \in ImageStores =>
                 \A k \in Tags \X Objects : dest'[k] # Partial /\ (dest[k] # Absent => dest'[k] # Absent)
           /\ \A q \in Runs \ {r} : At(q, "publish") /\ ~disturbed'[q]
                 => ~disturbed[q] /\ \A k \in KeySet(q) : dest'[k] = dest[k]
<1> USE DEF Inv, Shape, Write
<1>1. \A k \in Tags \X Objects : dest'[k] = IF k \in keys THEN content ELSE dest[k]
  OBVIOUS
<1>2. /\ dest' \in [Tags \X Objects -> Runs \union {Absent, Partial}]
      /\ disturbed' \in [Runs -> BOOLEAN] /\ disturbed'[r] = disturbed[r]
  OBVIOUS
<1>3. kind \in ImageStores =>
          \A k \in Tags \X Objects : dest'[k] # Partial /\ (dest[k] # Absent => dest'[k] # Absent)
  BY <1>1, PublishAssumption
<1>4. ASSUME NEW q \in Runs \ {r}, At(q, "publish"), ~disturbed'[q]
      PROVE  ~disturbed[q] /\ \A k \in KeySet(q) : dest'[k] = dest[k]
  <2>1. ~disturbed[q] /\ KeySet(q) \intersect keys = {}
    BY <1>4
  <2>2. \A k \in KeySet(q) : k \in Tags \X Objects
    BY KeysOfRun
  <2> QED
    BY <1>1, <2>1, <2>2
<1> QED
  BY <1>1, <1>2, <1>3, <1>4

-----------------------------------------------------------------------------
(* Steps.                                                                  *)

(* A step of r: where it goes, and what becomes of its own part.           *)
Moves(r, p, n, c) ==
    /\ UNCHANGED control
    /\ p \in States /\ pc' = [pc EXCEPT ![r] = p]
    /\ n \in Nat /\ pos' = [pos EXCEPT ![r] = n]
    /\ c \in Runs \union {Absent} /\ copied' = [copied EXCEPT ![r] = c]

LEMMA OthersStay ==
    ASSUME Inv, NEW r \in Runs, NEW p, NEW n, NEW c, Moves(r, p, n, c), NEW q \in Runs \ {r}
    PROVE  pc'[q] = pc[q] /\ pos'[q] = pos[q] /\ copied'[q] = copied[q]
BY DEF Inv, Shape, Moves

LEMMA QuietStep ==
    ASSUME Inv, NEW r \in Runs, NEW p, NEW n, NEW c, Moves(r, p, n, c),
           dest' = dest, disturbed' \in [Runs -> BOOLEAN],
           \A q \in Runs \ {r} : disturbed'[q] = disturbed[q],
           RunOK(r)'
    PROVE  Inv'
<1>1. Shape'
  BY DEF Inv, Shape, Moves, control
<1>2. ASSUME NEW q \in Runs \ {r} PROVE RunOK(q)'
  <2>1. pc'[q] = pc[q] /\ pos'[q] = pos[q] /\ copied'[q] = copied[q]
    BY OthersStay
  <2>2. kind' = kind
    BY DEF Moves, control
  <2> QED
    BY <2>1, <2>2, Bystander
<1> QED
  BY <1>1, <1>2 DEF Inv

LEMMA WritingStep ==
    ASSUME Inv, NEW r \in Runs, NEW p, NEW n, NEW c, Moves(r, p, n, c),
           NEW keys, NEW content, Write(r, keys, content),
           keys \subseteq KeySet(r), content \in Runs \union {Absent, Partial},
           kind \in ImageStores => content \in Runs,
           RunOK(r)'
    PROVE  Inv'
<1>1. kind' = kind /\ skipIfExists' = skipIfExists
  BY DEF Moves, control
<1>2. /\ dest' \in [Tags \X Objects -> Runs \union {Absent, Partial}]
      /\ disturbed' \in [Runs -> BOOLEAN]
      /\ kind \in ImageStores =>
            \A k \in Tags \X Objects : dest'[k] # Partial /\ (dest[k] # Absent => dest'[k] # Absent)
      /\ \A q \in Runs \ {r} : At(q, "publish") /\ ~disturbed'[q]
            => ~disturbed[q] /\ \A k \in KeySet(q) : dest'[k] = dest[k]
  BY <1>1, WriteEffect
<1>3. Shape'
  BY <1>1, <1>2 DEF Inv, Shape, Moves
<1>4. ASSUME NEW q \in Runs \ {r} PROVE RunOK(q)'
  <2>1. pc'[q] = pc[q] /\ pos'[q] = pos[q] /\ copied'[q] = copied[q]
    BY OthersStay
  <2> QED
    BY <1>1, <1>2, <2>1, Bystander
<1> QED
  BY <1>3, <1>4 DEF Inv

(* A run that leaves what it was doing, or begins to build or to publish,  *)
(* relies on nothing.                                                      *)
LEMMA Detached ==
    ASSUME Inv, NEW r \in Runs, kind' = kind,
           pc'[r] \in States \ {"start", "probe", "publish", "skipped"},
           pos'[r] \in 1..(Len(Keys(r)) + 1), copied'[r] = Absent
    PROVE  RunOK(r)'
<1>1. Keys(r)' = Keys(r)
  BY KeysStay
<1> QED
  BY <1>1 DEF RunOK, InFlight, ImagesStay, WrittenIsOwn, At

(* What is known of a run before its step.                                 *)
LEMMA Known ==
    ASSUME Inv, NEW r \in Runs
    PROVE  /\ Shape /\ RunOK(r)
           /\ Len(Keys(r)) \in Nat \ {0} /\ pos[r] \in 1..(Len(Keys(r)) + 1)
           /\ copied[r] # Absent => pc[r] = "publish"
           /\ pc \in [Runs -> States] /\ pos \in [Runs -> Nat]
           /\ copied \in [Runs -> Runs \union {Absent}] /\ disturbed \in [Runs -> BOOLEAN]
           /\ pc = [pc EXCEPT ![r] = pc[r]] /\ pos = [pos EXCEPT ![r] = pos[r]]
           /\ copied = [copied EXCEPT ![r] = copied[r]]
<1>1. Shape /\ RunOK(r)
  BY DEF Inv
<1>2. kind \in Kinds
  BY <1>1 DEF Shape
<1> QED
  BY <1>1, <1>2, KeysOfRun DEF Shape, RunOK, InFlight, At

LEMMA InvExists ==
    ASSUME Inv, NEW r \in Runs, Exists(r) \/ Published(r) \/ Kill(r)
    PROVE  Inv'
<1>1. /\ kind' = kind /\ UNCHANGED control /\ dest' = dest
      /\ disturbed' \in [Runs -> BOOLEAN] /\ \A q \in Runs \ {r} : disturbed'[q] = disturbed[q]
  BY Known DEF Exists, Start, Probe, Skip, Built, Published, Kill, NoWrite, control
<1>2. Keys(r)' = Keys(r) /\ KeySet(r)' = KeySet(r)
  BY <1>1, KeysStay
<1>3. CASE Start(r)
  <2>1. PICK p \in {"probe", "build"} : Moves(r, p, pos[r], copied[r])
    BY <1>1, <1>3, Known DEF Start, Goto, Moves, States
  <2>2. pc[r] = "start" /\ pos[r] = 1 /\ copied[r] = Absent
    BY <1>3, Known DEF Start, At, RunOK
  <2>3. RunOK(r)'
    BY <1>2, <2>1, <2>2, Known DEF Moves, RunOK, InFlight, ImagesStay, WrittenIsOwn, At
  <2> QED
    BY <1>1, <2>1, <2>3, QuietStep
<1>4. CASE Probe(r)
  <2>1. pc[r] = "probe" /\ pos[r] <= Len(Probes(r)) /\ copied' = copied /\ copied[r] = Absent
    BY <1>4, Known DEF Probe, At
  <2>2. Len(Probes(r)) \in 1..Len(Keys(r)) /\ (kind \in ImageStores => Probes(r) = Keys(r))
    BY Known, ProbesAreKeys DEF Shape
  <2>3. CASE dest[Probes(r)[pos[r]]] # Absent /\ Proceed(r)
    <3>1. Moves(r, "probe", pos[r] + 1, Absent)
      BY <1>1, <2>1, <2>3, Known DEF Proceed, SetPos, Moves, States
    <3>2. pc'[r] = "probe" /\ pos'[r] = pos[r] + 1 /\ copied'[r] = Absent
      BY <3>1, Known DEF Moves
    <3>3. kind \in ImageStores => \A i \in 1..pos[r] : dest[Keys(r)[i]] # Absent
      <4>1. kind \in ImageStores => \A i \in 1..(pos[r] - 1) : dest[Keys(r)[i]] # Absent
        BY <2>1, Known DEF RunOK, ImagesStay, At
      <4>2. kind \in ImageStores => dest[Keys(r)[pos[r]]] # Absent
        BY <2>2, <2>3
      <4> QED
        BY <4>1, <4>2, Known
    <3>4. RunOK(r)'
      BY <1>1, <1>2, <2>1, <2>2, <3>2, <3>3, Known
         DEF RunOK, InFlight, ImagesStay, WrittenIsOwn, At
    <3> QED
      BY <1>1, <3>1, <3>4, QuietStep
  <2>4. CASE Goto(r, "build") /\ SetPos(r, 1)
    <3>1. Moves(r, "build", 1, Absent)
      BY <1>1, <2>1, <2>4, Known DEF Goto, SetPos, Moves, States
    <3>2. RunOK(r)'
      BY <1>1, <3>1, Known, Detached DEF Moves, States
    <3> QED
      BY <1>1, <3>1, <3>2, QuietStep
  <2>5. CASE Fail(r)
    <3>1. Moves(r, "failed", pos[r], Absent)
      BY <1>1, <2>1, <2>5, Known DEF Goto, Fail, Moves, States
    <3>2. RunOK(r)'
      BY <1>1, <3>1, Known, Detached DEF Moves, States
    <3> QED
      BY <1>1, <3>1, <3>2, QuietStep
  <2> QED
    BY <1>4, <2>3, <2>4, <2>5 DEF Probe
<1>5. CASE Skip(r)
  <2>1. pc[r] = "probe" /\ pos[r] > Len(Probes(r)) /\ copied[r] = Absent
    BY <1>5, Known DEF Skip, At
  <2>2. Moves(r, "skipped", pos[r], Absent)
    BY <1>1, <1>5, <2>1, Known DEF Skip, Goto, Moves, States
  <2>3. kind \in ImageStores => \A k \in KeySet(r) : dest[k] # Absent
    <3>1. kind \in Kinds
      BY Known DEF Shape
    <3>2. kind \in ImageStores => \A i \in 1..Len(Keys(r)) : dest[Keys(r)[i]] # Absent
      BY <2>1, <3>1, Known, ProbesAreKeys DEF RunOK, ImagesStay, At
    <3> QED
      BY <3>1, <3>2, KeysOfRun
  <2>4. RunOK(r)'
    BY <1>1, <1>2, <2>2, <2>3, Known DEF Moves, RunOK, InFlight, ImagesStay, WrittenIsOwn, At
  <2> QED
    BY <1>1, <2>2, <2>4, QuietStep
<1>6. CASE Built(r)
  <2>1. pc[r] = "build" /\ copied[r] = Absent
    BY <1>6, Known DEF Built, At
  <2>2. Moves(r, "publish", 1, Absent)
    BY <1>1, <1>6, <2>1, Known DEF Built, Goto, SetPos, Moves, States
  <2>3. RunOK(r)'
    BY <1>2, <2>2, Known DEF Moves, RunOK, InFlight, ImagesStay, WrittenIsOwn, At
  <2> QED
    BY <1>1, <2>2, <2>3, QuietStep
<1>7. CASE Published(r)
  <2>1. copied[r] = Absent
    BY <1>7, Known DEF Published, RunOK, InFlight
  <2>2. Moves(r, "published", pos[r], Absent)
    BY <1>1, <1>7, <2>1, Known DEF Published, Goto, Moves, States
  <2>3. RunOK(r)'
    BY <1>1, <2>2, Known, Detached DEF Moves, States
  <2> QED
    BY <1>1, <2>2, <2>3, QuietStep
<1>8. CASE Kill(r)
  <2>1. Moves(r, "killed", pos[r], Absent)
    BY <1>1, <1>8, Known DEF Kill, Goto, Moves, States
  <2>2. RunOK(r)'
    BY <1>1, <2>1, Known, Detached DEF Moves, States
  <2> QED
    BY <1>1, <2>1, <2>2, QuietStep
<1> QED
  BY <1>3, <1>4, <1>5, <1>6, <1>7, <1>8 DEF Exists

(* The key a request goes to gets its content, or nothing happens; the run *)
(* goes on to the next key only with the content written.                  *)
LEMMA InvRequest ==
    ASSUME Inv, NEW r \in Runs, NEW c, Request(r, c), UNCHANGED control,
           copied' = [copied EXCEPT ![r] = Absent],
           At(r, "publish"), pos[r] \in 1..Len(Keys(r)),
           c \in Runs, ~disturbed[r] => c = r
    PROVE  Inv'
<1> DEFINE k == Keys(r)[pos[r]]
<1>1. kind' = kind /\ kind \in Kinds
  BY Known DEF control, Shape
<1>2. Keys(r)' = Keys(r) /\ KeySet(r)' = KeySet(r)
  BY <1>1, KeysStay
<1>3. k \in KeySet(r) /\ k \in Tags \X Objects
  BY <1>1, KeysOfRun
<1>4. CASE Write(r, {k}, c) /\ Proceed(r)
  <2>1. Moves(r, "publish", pos[r] + 1, Absent)
    BY <1>4, Known DEF Proceed, SetPos, Moves, States, At
  <2>2. pc'[r] = "publish" /\ pos'[r] = pos[r] + 1 /\ copied'[r] = Absent
    BY <2>1, Known DEF Moves
  <2>3. /\ \A x \in Tags \X Objects : dest'[x] = IF x \in {k} THEN c ELSE dest[x]
        /\ disturbed'[r] = disturbed[r]
        /\ kind \in ImageStores =>
              \A x \in Tags \X Objects : dest[x] # Absent => dest'[x] # Absent
    BY <1>1, <1>3, <1>4, WriteEffect
  <2>4. \A i \in 1..Len(Keys(r)) : Keys(r)[i] \in Tags \X Objects
    BY <1>1, KeysOfRun
  <2>5. ImagesStay(r)'
    <3>1. kind \in ImageStores => dest'[Keys(r)[1]] # Absent
      <4>1. CASE pos[r] = 1
        BY <2>3, <1>3, <4>1, PublishAssumption
      <4>2. CASE pos[r] > 1
        <5>1. ImagesStay(r) /\ 1 \in 1..Len(Keys(r))
          BY Known DEF RunOK
        <5>2. kind \in ImageStores => dest[Keys(r)[1]] # Absent
          BY <4>2, <5>1 DEF ImagesStay
        <5> QED
          BY <2>3, <2>4, <5>1, <5>2
      <4> QED
        BY <4>1, <4>2, Known
    <3> QED
      BY <1>1, <1>2, <2>2, <3>1 DEF ImagesStay, At
  <2>6. WrittenIsOwn(r)'
    <3> SUFFICES ASSUME ~disturbed'[r], NEW i \in 1..pos[r] PROVE dest'[Keys(r)[i]] = r
      BY <1>2, <2>2, Known DEF WrittenIsOwn
    <3>1. i \in 1..Len(Keys(r)) /\ ~disturbed[r] /\ c = r
      BY <2>3
    <3>2. i < pos[r] => dest[Keys(r)[i]] = r
      <4>1. WrittenIsOwn(r) /\ pos[r] \in Nat
        BY Known DEF RunOK
      <4> QED
        BY <3>1, <4>1 DEF WrittenIsOwn
    <3> QED
      BY <2>3, <2>4, <3>1, <3>2, Known
  <2>7. RunOK(r)'
    BY <1>2, <2>2, <2>5, <2>6, Known DEF RunOK, InFlight, At
  <2> QED
    BY <1>3, <1>4, <2>1, <2>7, WritingStep
<1>5. CASE Fail(r)
  <2>1. Moves(r, "failed", pos[r], Absent)
    BY <1>5, Known DEF Fail, Goto, Moves, States
  <2>2. RunOK(r)'
    BY <1>1, <2>1, Known, Detached DEF Moves, States
  <2>3. CASE Write(r, {k}, c)
    BY <1>3, <2>1, <2>2, <2>3, WritingStep
  <2>4. CASE NoWrite
    BY <2>1, <2>2, <2>4, Known, QuietStep DEF NoWrite
  <2> QED
    BY <1>5, <2>3, <2>4 DEF Request
<1> QED
  BY <1>4, <1>5 DEF Request

(* The publishers of images.                                               *)
LEMMA InvImages ==
    ASSUME Inv, NEW r \in Runs,
           CommitLocally(r) \/ PushPrimary(r) \/ CopyRead(r) \/ CopyWrite(r) \/ Upload(r)
    PROVE  Inv'
<1>1. kind' = kind /\ UNCHANGED control /\ kind \in Kinds /\ pc[r] = "publish"
  BY Known DEF CommitLocally, PushPrimary, CopyRead, CopyWrite, Upload, Publishing, At, control, Shape
<1>2. Keys(r)' = Keys(r) /\ KeySet(r)' = KeySet(r)
  BY <1>1, KeysStay
<1>3. CASE CommitLocally(r)
  <2>1. /\ copied[r] = Absent /\ copied' = [copied EXCEPT ![r] = Absent]
        /\ At(r, "publish") /\ pos[r] \in 1..Len(Keys(r)) /\ Request(r, r)
    BY <1>3, Known DEF CommitLocally, RunOK, InFlight
  <2> QED
    BY <1>1, <2>1, InvRequest
<1>4. CASE PushPrimary(r)
  <2>1. /\ copied[r] = Absent /\ copied' = [copied EXCEPT ![r] = Absent]
        /\ At(r, "publish") /\ pos[r] \in 1..Len(Keys(r)) /\ Request(r, r)
    BY <1>4, Known DEF PushPrimary, Publishing, RunOK, InFlight
  <2> QED
    BY <1>1, <2>1, InvRequest
<1>5. CASE CopyRead(r)
  <2>1. /\ kind = "registry" /\ pos[r] \in 2..Len(Keys(r)) /\ copied[r] = Absent
        /\ dest' = dest /\ disturbed' = disturbed
    BY <1>5 DEF CopyRead, NoWrite
  <2>2. /\ dest[Keys(r)[1]] \in Runs
        /\ ~disturbed[r] => dest[Keys(r)[1]] = r
    <3>1. Keys(r)[1] \in Tags \X Objects
      BY <1>1, KeysOfRun
    <3>2. dest[Keys(r)[1]] # Absent /\ dest[Keys(r)[1]] # Partial
      BY <1>1, <2>1, <3>1, Known DEF Shape, RunOK, ImagesStay, At, ImageStores
    <3>3. ~disturbed[r] => dest[Keys(r)[1]] = r
      <4>1. WrittenIsOwn(r) /\ 1 \in 1..(pos[r] - 1)
        BY <2>1, Known DEF RunOK
      <4> QED
        BY <1>1, <4>1 DEF WrittenIsOwn, At
    <3> QED
      BY <3>1, <3>2, <3>3, Known DEF Shape
  <2>3. CASE copied' = [copied EXCEPT ![r] = dest[Keys(r)[1]]] /\ UNCHANGED <<pc, pos>>
    <3>1. Moves(r, "publish", pos[r], dest[Keys(r)[1]])
      BY <1>1, <2>2, <2>3, Known DEF Moves, States
    <3>2. pc'[r] = "publish" /\ pos'[r] = pos[r] /\ copied'[r] = dest[Keys(r)[1]]
      BY <3>1, Known DEF Moves
    <3>3. RunOK(r)'
      BY <1>1, <1>2, <2>1, <2>2, <3>2, Known DEF RunOK, InFlight, ImagesStay, WrittenIsOwn, At
    <3> QED
      BY <2>1, <3>1, <3>3, Known, QuietStep
  <2>4. CASE Fail(r) /\ UNCHANGED copied
    <3>1. Moves(r, "failed", pos[r], Absent)
      BY <1>1, <2>1, <2>4, Known DEF Fail, Goto, Moves, States
    <3>2. RunOK(r)'
      BY <1>1, <3>1, Known, Detached DEF Moves, States
    <3> QED
      BY <2>1, <3>1, <3>2, Known, QuietStep
  <2> QED
    BY <1>5, <2>3, <2>4 DEF CopyRead
<1>6. CASE CopyWrite(r)
  <2>1. /\ kind = "registry" /\ copied[r] # Absent /\ copied' = [copied EXCEPT ![r] = Absent]
        /\ At(r, "publish") /\ Request(r, copied[r])
    BY <1>6 DEF CopyWrite
  <2>2. pos[r] \in 1..Len(Keys(r)) /\ copied[r] \in Runs /\ (~disturbed[r] => copied[r] = r)
    BY <2>1, Known DEF RunOK, InFlight, WrittenIsOwn
  <2> QED
    BY <1>1, <2>1, <2>2, InvRequest
<1>7. CASE Upload(r)
  <2>1. /\ copied[r] = Absent /\ copied' = [copied EXCEPT ![r] = Absent]
        /\ At(r, "publish") /\ pos[r] \in 1..Len(Keys(r)) /\ Request(r, r)
    BY <1>7, Known DEF Upload, RunOK, InFlight
  <2> QED
    BY <1>1, <2>1, InvRequest
<1> QED
  BY <1>3, <1>4, <1>5, <1>6, <1>7

(* The one file.                                                           *)
LEMMA InvFile ==
    ASSUME Inv, NEW r \in Runs, OpenFile(r) \/ CloseFile(r)
    PROVE  Inv'
<1>1. /\ kind' = kind /\ UNCHANGED control /\ kind = "squashfs" /\ pc[r] = "publish" /\ pos[r] = 1
      /\ kind \in Kinds /\ kind \notin ImageStores
  BY Known DEF OpenFile, CloseFile, Publishing, At, control, Shape, ImageStores
<1>2. Keys(r)' = Keys(r) /\ KeySet(r)' = KeySet(r)
  BY <1>1, KeysStay
<1>3. Keys(r)[1] \in KeySet(r) /\ Keys(r)[1] \in Tags \X Objects /\ Len(Keys(r)) = 1
  BY <1>1, KeysOfRun
<1>4. CASE OpenFile(r)
  <2>1. copied[r] = Absent
    BY <1>4 DEF OpenFile
  <2>2. CASE Write(r, KeySet(r), Partial) /\ copied' = [copied EXCEPT ![r] = r] /\ UNCHANGED <<pc, pos>>
    <3>1. Moves(r, "publish", 1, r)
      BY <1>1, <2>2, Known DEF Moves, States
    <3>2. pc'[r] = "publish" /\ pos'[r] = 1 /\ copied'[r] = r
      BY <3>1, Known DEF Moves
    <3>3. RunOK(r)'
      BY <1>1, <1>2, <1>3, <3>2 DEF RunOK, InFlight, ImagesStay, WrittenIsOwn, At
    <3> QED
      BY <1>1, <2>2, <3>1, <3>3, WritingStep
  <2>3. CASE NoWrite /\ Fail(r) /\ UNCHANGED copied
    <3>1. Moves(r, "failed", pos[r], Absent)
      BY <1>1, <2>1, <2>3, Known DEF Fail, Goto, Moves, States
    <3>2. RunOK(r)'
      BY <1>1, <3>1, Known, Detached DEF Moves, States
    <3> QED
      BY <2>3, <3>1, <3>2, Known, QuietStep DEF NoWrite
  <2> QED
    BY <1>4, <2>2, <2>3 DEF OpenFile
<1>5. CASE CloseFile(r)
  <2>1. copied' = [copied EXCEPT ![r] = Absent]
    BY <1>5 DEF CloseFile
  <2>2. ASSUME NEW c \in IF disturbed[r] THEN {r, Partial} ELSE {r},
               Write(r, KeySet(r), c), Proceed(r)
        PROVE  Inv'
    <3>1. Moves(r, "publish", 2, Absent)
      BY <1>1, <2>1, <2>2, Known DEF Proceed, SetPos, Moves, States
    <3>2. pc'[r] = "publish" /\ pos'[r] = 2 /\ copied'[r] = Absent
      BY <3>1, Known DEF Moves
    <3>3. c \in Runs \union {Absent, Partial}
      OBVIOUS
    <3>4. disturbed'[r] = disturbed[r] /\ dest'[Keys(r)[1]] = c
      BY <1>1, <1>3, <2>2, <3>3, WriteEffect
    <3>5. WrittenIsOwn(r)'
      BY <1>2, <3>2, <3>4 DEF WrittenIsOwn, At
    <3>6. RunOK(r)'
      BY <1>1, <1>2, <1>3, <3>2, <3>5 DEF RunOK, InFlight, ImagesStay, At
    <3> QED
      BY <1>1, <2>2, <3>1, <3>3, <3>6, WritingStep
  <2>3. ASSUME NEW c \in {Absent, Partial}, Write(r, KeySet(r), c), Fail(r)
        PROVE  Inv'
    <3>1. Moves(r, "failed", pos[r], Absent)
      BY <1>1, <2>1, <2>3, Known DEF Fail, Goto, Moves, States
    <3>2. RunOK(r)'
      BY <1>1, <3>1, Known, Detached DEF Moves, States
    <3> QED
      BY <1>1, <2>3, <3>1, <3>2, WritingStep
  <2> QED
    BY <1>5, <2>2, <2>3 DEF CloseFile
<1> QED
  BY <1>4, <1>5

LEMMA InvStep == Inv /\ [Next]_vars => Inv'
<1> SUFFICES ASSUME Inv, [Next]_vars PROVE Inv'
  OBVIOUS
<1>1. CASE \E r \in Runs : Exists(r) \/ PublishStep(r) \/ Kill(r)
  BY <1>1, InvExists, InvImages, InvFile DEF PublishStep
<1>2. CASE UNCHANGED vars
  <2>1. Shape'
    BY <1>2 DEF Inv, Shape, vars, control
  <2>2. ASSUME NEW q \in Runs PROVE RunOK(q)'
    BY <1>2, Bystander DEF vars, control
  <2> QED
    BY <2>1, <2>2 DEF Inv
<1> QED
  BY <1>1, <1>2 DEF Next, Finished

-----------------------------------------------------------------------------
(* Every variable keeps its type, and no loop passes its end (Publish,     *)
(* Exists).                                                                *)
THEOREM TypeCorrect == Spec => []TypeOK
<1>1. Inv => TypeOK
  BY DEF Inv, Shape, RunOK, InFlight, TypeOK
<1> QED
  BY <1>1, InvInit, InvStep, PTL DEF Spec

(* An image store never makes a run skip an image that lacks one of its    *)
(* tags, through retries, kills, lost answers and concurrent builds        *)
(* (LocalPublisher.Exists, RegistryPublisher.Exists).                      *)
THEOREM SkippedIsWhole == Spec => []SkippedImageHasAllTags
<1>1. ASSUME Inv PROVE SkippedImageHasAllTags
  <2> SUFFICES ASSUME NEW r \in Runs, kind \in ImageStores, At(r, "skipped"), NEW k \in KeySet(r)
               PROVE  dest[k] # Absent /\ dest[k] # Partial
    BY DEF SkippedImageHasAllTags, Whole, ImageStores
  <2>1. Shape /\ ImagesStay(r) /\ kind \in Kinds
    BY <1>1 DEF Inv, Shape, RunOK
  <2>2. k \in Tags \X Objects
    BY <2>1, KeysOfRun
  <2> QED
    BY <2>1, <2>2 DEF Shape, ImagesStay
<1> QED
  BY <1>1, InvInit, InvStep, PTL DEF Spec

(* Publish returns nil only when every key of the run holds its own image, *)
(* unless another run wrote them at the same time.                         *)
THEOREM PublishedHoldsOwn == Spec => PublishedIsOwn
<1>1. ASSUME Inv, [Next]_vars, NEW r \in Runs, At(r, "publish"), pc'[r] = "published", ~disturbed[r]
      PROVE  \A k \in KeySet(r) : dest'[k] = r
  <2>1. Published(r)
    <3>1. PICK q \in Runs : Exists(q) \/ PublishStep(q) \/ Kill(q)
      BY <1>1 DEF Next, Finished, vars, At
    <3>2. pc \in [Runs -> States]
      BY <1>1 DEF Inv, Shape
    <3> QED
      BY <1>1, <3>1, <3>2 DEF Exists, PublishStep, Kill, Start, Probe, Skip, Built, CommitLocally,
             PushPrimary, CopyRead, CopyWrite, Upload, OpenFile, CloseFile, Published,
             Request, Proceed, Fail, Goto, At
  <2>2. dest' = dest /\ pos[r] > Len(Keys(r))
    BY <2>1 DEF Published, NoWrite
  <2>3. \A i \in 1..Len(Keys(r)) : dest[Keys(r)[i]] = r
    BY <1>1, <2>2, Known DEF RunOK, WrittenIsOwn
  <2> QED
    BY <1>1, <2>2, <2>3, Known, KeysOfRun DEF Shape
<1>2. Inv /\ [Next]_vars => [\A r \in Runs : At(r, "publish") /\ pc'[r] = "published" /\ ~disturbed[r]
           => \A k \in KeySet(r) : dest'[k] = r]_vars
  BY <1>1
<1> QED
  BY <1>2, InvInit, InvStep, PTL DEF Spec, PublishedIsOwn
================================================================================
