------------------------------ MODULE HelperProofs -----------------------------
(***************************************************************************)
(* Proofs about FetchOval, for all caps and bodies and every way the reads *)
(* may fall, about KeyNames, for all repositories and names, and about     *)
(* OutputStream, for all outputs and every way they are cut into writes.   *)
(***************************************************************************)
EXTENDS FetchOval, KeyNames, OutputStream, SequenceTheorems, WellFoundedInduction, TLAPS

-----------------------------------------------------------------------------
(* Downloads under a cap (FetchOval).                                      *)

(* What is taken never passes the limit; a body that is not decoded is     *)
(* kept as it is taken.                                                    *)
Bounded ==
    /\ wire <= Available
    /\ ~IsBzip2 => out = wire

Inv == TypeOK /\ Bounded /\ WholeOrError /\ TruncationIsNotBlamed

(* The numbers the argument is about.                                      *)
LEMMA Numbers ==
    ASSUME body \in Bodies
    PROVE  /\ body.via \in {"oval", "get"}
           /\ body.size \in Nat /\ body.decoded \in Nat /\ Content \in Nat
           /\ MaxCompressed \in Nat /\ MaxDecompressed \in Nat /\ MaxBodyBytes \in Nat
           /\ WireLimit \in Nat \ {0}
           /\ Available \in Nat /\ Available <= WireLimit /\ Available <= body.size
<1>1. body \in BodyType
  BY FetchAssumption
<1>2. /\ body.via \in {"oval", "get"} /\ body.size \in Nat /\ body.decoded \in Nat
      /\ MaxCompressed \in Nat /\ MaxDecompressed \in Nat /\ MaxBodyBytes \in Nat
  BY <1>1, FetchAssumption DEF BodyType
<1> QED
  BY <1>2 DEF Content, WireLimit, Limit, Available

(* A body is cut only at a limit that lies above its cap.                  *)
LEMMA CutIsAboveCap ==
    ASSUME body \in Bodies, Truncated
    PROVE  /\ body.via = "oval" => Available = MaxCompressed + 1
           /\ body.via = "get"  => Available = MaxBodyBytes + 1
BY Numbers DEF Truncated, Available, WireLimit, Limit

LEMMA NotCut ==
    ASSUME body \in Bodies, ~Truncated
    PROVE  Available = body.size
BY Numbers DEF Truncated

LEMMA InvInit == Init => Inv
<1> SUFFICES ASSUME Init PROVE Inv
  OBVIOUS
<1> USE DEF Init
<1>1. body \in Bodies /\ result \in Results /\ lost \in BOOLEAN
  BY DEF Results
<1>2. /\ wire \in 0..WireLimit /\ out \in Nat /\ out <= Content
      /\ body.via = "oval" => out <= Limit(MaxDecompressed)
  BY <1>1, Numbers DEF Limit
<1>3. TypeOK
  BY <1>1, <1>2 DEF TypeOK
<1> QED
  BY <1>3, Numbers DEF Inv, Bounded, WholeOrError, TruncationIsNotBlamed

(* The reads.                                                              *)
LEMMA InvRead ==
    ASSUME Inv, ReadPlain \/ ReadAhead \/ Decode
    PROVE  Inv'
<1> USE DEF Inv
<1>1. body \in Bodies /\ body' = body /\ result' = result /\ result = "reading"
  BY DEF TypeOK, ReadPlain, ReadAhead, Decode
<1>2. /\ Available' = Available /\ WireLimit' = WireLimit /\ Content' = Content
      /\ IsBzip2' = IsBzip2
  BY <1>1 DEF Available, WireLimit, Content, IsBzip2
<1>3. WholeOrError' /\ TruncationIsNotBlamed' /\ lost' \in BOOLEAN /\ result \in Results
  BY <1>1 DEF WholeOrError, TruncationIsNotBlamed, TypeOK, ReadPlain, ReadAhead, Decode
<1> SUFFICES /\ wire' \in 0..WireLimit /\ out' \in Nat /\ out' <= Content
             /\ body.via = "oval" => out' <= Limit(MaxDecompressed)
             /\ wire' <= Available
             /\ ~IsBzip2 => out' = wire'
  BY <1>1, <1>2, <1>3 DEF TypeOK, Bounded
<1>4. CASE ReadPlain
  <2>1. PICK n \in 1..Available : /\ wire + n <= Available
                                  /\ body.via = "oval" => out + n <= Limit(MaxDecompressed)
                                  /\ wire' = wire + n /\ out' = out + n
    BY <1>4 DEF ReadPlain
  <2>2. ~IsBzip2 /\ Content = body.size
    BY <1>4 DEF ReadPlain, Content
  <2> QED
    BY <1>1, <2>1, <2>2, Numbers DEF TypeOK, Bounded, Limit
<1>5. CASE ReadAhead
  <2>1. PICK n \in 1..Available : wire + n <= Available /\ wire' = wire + n
    BY <1>5 DEF ReadAhead
  <2>2. IsBzip2 /\ out' = out
    BY <1>5 DEF ReadAhead
  <2> QED
    BY <1>1, <2>1, <2>2, Numbers DEF TypeOK, Bounded, Limit
<1>6. CASE Decode
  <2>1. PICK n \in 1..body.decoded : /\ out + n <= body.decoded
                                     /\ out + n <= Limit(MaxDecompressed) /\ out' = out + n
    BY <1>6 DEF Decode
  <2>2. IsBzip2 /\ wire' = wire /\ Content = body.decoded
    BY <1>6 DEF Decode, Content
  <2> QED
    BY <1>1, <2>1, <2>2, Numbers DEF TypeOK, Bounded, Limit
<1> QED
  BY <1>4, <1>5, <1>6

(* A verdict without an error of the reader is given when it has come to   *)
(* the end of what it may read; then nothing of the content is missing.    *)
LEMMA CleanVerdict ==
    ASSUME Inv, Verdict(FALSE) = "ok",
           \/ wire = Available /\ (IsBzip2 => ~body.broken /\ (Truncated \/ out = body.decoded))
           \/ body.via = "oval" /\ out = Limit(MaxDecompressed)
    PROVE  out = Content /\ ~(IsBzip2 /\ body.broken)
<1> USE DEF Inv
<1>1. body \in Bodies /\ out \in Nat /\ wire \in Nat
  BY Numbers DEF TypeOK
<1>2. /\ body.via = "oval" => wire <= MaxCompressed
      /\ body.via = "get" => out <= MaxBodyBytes
      /\ IsBzip2 => out <= MaxDecompressed
  BY <1>1, Numbers DEF Verdict
<1>3. IsBzip2 => body.via = "oval"
  BY DEF IsBzip2
<1>4. ~(body.via = "oval" /\ out = Limit(MaxDecompressed))
  BY <1>1, <1>2, Numbers, FetchAssumption DEF Bounded, Limit
<1>5. wire = Available /\ (IsBzip2 => ~body.broken /\ (Truncated \/ out = body.decoded))
  BY <1>4
<1>6. ~Truncated
  <2> SUFFICES ASSUME Truncated PROVE FALSE
    OBVIOUS
  <2>1. CASE body.via = "oval"
    BY <2>1, <1>1, <1>2, <1>5, CutIsAboveCap, Numbers
  <2>2. CASE body.via = "get"
    BY <2>2, <1>1, <1>2, <1>3, <1>5, CutIsAboveCap, Numbers DEF Bounded
  <2> QED
    BY <2>1, <2>2, <1>1, Numbers
<1>7. wire = body.size
  BY <1>1, <1>5, <1>6, NotCut
<1> QED
  BY <1>5, <1>6, <1>7 DEF Bounded, Content

LEMMA Sizes ==
    ASSUME Inv
    PROVE  body \in Bodies /\ out \in Nat /\ wire \in Nat
BY Numbers DEF Inv, TypeOK

(* The compressed size is looked at before the reader's error.             *)
LEMMA SizeComesFirst ==
    ASSUME wire \in Nat, body \in Bodies, body.via = "oval", wire > MaxCompressed
    PROVE  Verdict(TRUE) # "decode error"
BY DEF Verdict

(* What a cut has left is above the cap.                                   *)
LEMMA CutIsTooBig ==
    ASSUME Inv, body.via = "oval", Truncated, wire = Available
    PROVE  wire > MaxCompressed
<1>1. wire = MaxCompressed + 1
  BY Sizes, CutIsAboveCap
<1> QED
  BY <1>1, Sizes, Numbers

(* A reader that failed is blamed for a body that is broken only.          *)
LEMMA ErrorVerdict ==
    ASSUME Inv, IsBzip2, body.broken \/ Truncated, wire = Available
    PROVE  Verdict(TRUE) = "decode error" => body.broken
<1>1. body.via = "oval"
  BY DEF IsBzip2
<1>2. CASE Truncated
  BY <1>1, <1>2, CutIsTooBig, SizeComesFirst, Sizes
<1> QED
  BY <1>2

(* What a verdict can be.                                                  *)
LEMMA Verdicts ==
    /\ Verdict(FALSE) \in Results \ {"decode error"}
    /\ Verdict(TRUE) \in Results \ {"ok"}
BY DEF Verdict, Results

(* The end of the download.                                                *)
LEMMA InvEnd ==
    ASSUME Inv, EndOfBody \/ BrokenBlock \/ EndOfLimit \/ NetworkFails
    PROVE  Inv'
<1> USE DEF Inv
<1>1. UNCHANGED <<body, wire, out>> /\ lost' \in BOOLEAN
  BY DEF TypeOK, EndOfBody, BrokenBlock, EndOfLimit, NetworkFails
<1>2. /\ Available' = Available /\ WireLimit' = WireLimit /\ Content' = Content
      /\ IsBzip2' = IsBzip2
  BY <1>1 DEF Available, WireLimit, Content, IsBzip2
<1>3. Bounded'
  BY <1>1, <1>2 DEF Bounded
<1>4. SUFFICES /\ result' \in Results
               /\ result' = "ok" => out = Content /\ ~(IsBzip2 /\ body.broken)
               /\ result' = "decode error" => body.broken \/ lost'
  BY <1>1, <1>2, <1>3 DEF TypeOK, WholeOrError, TruncationIsNotBlamed
<1>5. CASE EndOfBody
  <2>1. CASE /\ wire = Available
             /\ IsBzip2 => ~body.broken /\ (Truncated \/ out = body.decoded)
             /\ result' = Verdict(FALSE)
    BY <2>1, CleanVerdict, Verdicts
  <2>2. CASE /\ wire = Available
             /\ IsBzip2 /\ (body.broken \/ Truncated)
             /\ result' = Verdict(TRUE)
    BY <2>2, ErrorVerdict, Verdicts
  <2> QED
    BY <1>5, <2>1, <2>2 DEF EndOfBody
<1>6. CASE BrokenBlock
  BY <1>6, Verdicts DEF BrokenBlock
<1>7. CASE EndOfLimit
  BY <1>7, CleanVerdict, Verdicts DEF EndOfLimit
<1>8. CASE NetworkFails
  <2>1. result' \in {"read error", Verdict(TRUE)} /\ lost' = TRUE
    BY <1>8 DEF NetworkFails
  <2> QED
    BY <2>1, Verdicts DEF Results
<1> QED
  BY <1>5, <1>6, <1>7, <1>8

LEMMA InvStutter ==
    ASSUME Inv, UNCHANGED vars
    PROVE  Inv'
BY DEF Inv, TypeOK, Bounded, WholeOrError, TruncationIsNotBlamed, vars, Available, WireLimit,
       Content, IsBzip2

LEMMA InvNext == Inv /\ [Next]_vars => Inv'
<1> SUFFICES ASSUME Inv, [Next]_vars PROVE Inv'
  OBVIOUS
<1>1. CASE ReadPlain \/ ReadAhead \/ Decode
  BY <1>1, InvRead
<1>2. CASE EndOfBody \/ BrokenBlock \/ EndOfLimit \/ NetworkFails
  BY <1>2, InvEnd
<1>3. CASE Returned \/ UNCHANGED vars
  BY <1>3, InvStutter DEF Returned
<1> QED
  BY <1>1, <1>2, <1>3 DEF Next

LEMMA Invariance == Spec => []Inv
BY InvInit, InvNext, PTL DEF Spec

(* No more is read or kept than the caps and a byte, whatever the caps     *)
(* (fetchOVAL, Get).                                                       *)
THEOREM TypeCorrect == Spec => []TypeOK
<1>1. Inv => TypeOK
  BY DEF Inv
<1> QED
  BY <1>1, Invariance, PTL

(* A download that succeeds hands over all of the content, whatever the    *)
(* caps, the bodies and the way reads and read-ahead fall (fetchOVAL).     *)
THEOREM NeverTruncated == Spec => []WholeOrError
<1>1. Inv => WholeOrError
  BY DEF Inv
<1> QED
  BY <1>1, Invariance, PTL

(* A body over the cap is never reported as broken when it is not          *)
(* (fetchOVAL, countingReader).                                            *)
THEOREM CutNotBlamed == Spec => []TruncationIsNotBlamed
<1>1. Inv => TruncationIsNotBlamed
  BY DEF Inv
<1> QED
  BY <1>1, Invariance, PTL

-----------------------------------------------------------------------------
(* Sequences.                                                              *)

(* A non-empty set of natural numbers has a least element.                 *)
LEMMA LeastNat ==
    ASSUME NEW T \in SUBSET Nat, T # {}
    PROVE  \E n \in T : \A m \in T : n <= m
<1>1. PICK n \in T : \A m \in T : <<m, n>> \notin OpToRel(<, Nat)
  BY NatLessThanWellFounded, WFMin, Zenon
<1>2. \A m \in T : ~(m < n)
  BY <1>1 DEF OpToRel
<1> QED
  BY <1>2

(* A set of indices has a least and a greatest.                            *)
LEMMA EndsOf ==
    ASSUME NEW n \in Nat, NEW T \in SUBSET (1..n), T # {}
    PROVE  /\ Min(T) \in T /\ \A k \in T : Min(T) <= k
           /\ Max(T) \in T /\ \A k \in T : k <= Max(T)
<1>1. \E i \in T : \A k \in T : i <= k
  BY LeastNat
<1>2. \E i \in T : \A k \in T : i >= k
  <2> DEFINE Left == {n - i : i \in T}
  <2>1. Left \in SUBSET Nat
    OBVIOUS
  <2>2. Left # {}
    OBVIOUS
  <2>3. PICK x \in Left : \A y \in Left : x <= y
    <3> HIDE DEF Left
    <3> QED
      BY <2>1, <2>2, LeastNat
  <2>4. PICK i \in T : x = n - i
    OBVIOUS
  <2>5. ASSUME NEW k \in T PROVE i >= k
    <3>1. n - k \in Left
      OBVIOUS
    <3>2. n - i <= n - k
      BY <2>3, <2>4, <3>1
    <3> QED
      BY <3>2
  <2> QED
    BY <2>5
<1> QED
  BY <1>1, <1>2 DEF Min, Max

(* g holds the concatenations of the first sequences of ss, k of them.     *)
Flattens(g, ss, k) == g = [i \in 1..k |-> IF i = 1 THEN ss[i] ELSE g[i-1] \o ss[i]]

(* The function that FlattenSeq is defined by exists, however many         *)
(* sequences there are.                                                    *)
LEMMA FlattenExists ==
    ASSUME NEW ss
    PROVE  \A k \in Nat : \E g : Flattens(g, ss, k)
<1> DEFINE Without == {k \in Nat : ~\E g : Flattens(g, ss, k)}
<1> SUFFICES ASSUME Without # {} PROVE FALSE
  OBVIOUS
<1>1. PICK m \in Without : \A n \in Without : m <= n
  <2>1. Without \in SUBSET Nat
    OBVIOUS
  <2> HIDE DEF Without
  <2> QED
    BY <2>1, LeastNat
<1>2. m \in Nat /\ ~\E g : Flattens(g, ss, m)
  OBVIOUS
<1>3. PICK below : m # 0 => Flattens(below, ss, m - 1)
  <2>1. CASE m # 0
    <3>1. m - 1 \in Nat /\ m - 1 \notin Without
      BY <1>1, <1>2, <2>1
    <3> QED
      BY <3>1
  <2> QED
    BY <2>1
<1> DEFINE g == [i \in 1..m |-> IF i = 1 THEN ss[i] ELSE below[i-1] \o ss[i]]
<1>4. ASSUME NEW i \in 1..m, i # 1 PROVE g[i-1] = below[i-1]
  <2>1. i - 1 \in 1..m /\ i - 1 \in 1..(m-1) /\ m # 0
    BY <1>2, <1>4
  <2>2. below[i-1] = IF i - 1 = 1 THEN ss[i-1] ELSE below[i-1-1] \o ss[i-1]
    BY <1>3, <2>1 DEF Flattens
  <2>3. g[i-1] = IF i - 1 = 1 THEN ss[i-1] ELSE below[i-1-1] \o ss[i-1]
    BY <2>1
  <2> QED
    BY <2>2, <2>3
<1>5. g = [i \in 1..m |-> IF i = 1 THEN ss[i] ELSE g[i-1] \o ss[i]]
  <2>1. \A i \in 1..m : g[i] = IF i = 1 THEN ss[i] ELSE g[i-1] \o ss[i]
    BY <1>4
  <2>2. g = [i \in 1..m |-> g[i]]
    OBVIOUS
  <2> HIDE DEF g
  <2> QED
    BY <2>1, <2>2
<1>6. Flattens(g, ss, m)
  <2> HIDE DEF g
  <2> QED
    BY <1>5, Zenon DEF Flattens
<1> QED
  BY <1>2, <1>6

LEMMA FlattenBy ==
    ASSUME NEW ss, Len(ss) \in Nat, Len(ss) # 0
    PROVE  \E g : Flattens(g, ss, Len(ss)) /\ FlattenSeq(ss) = g[Len(ss)]
<1>1. \E g : g = [i \in 1..Len(ss) |-> IF i = 1 THEN ss[i] ELSE g[i-1] \o ss[i]]
  BY FlattenExists DEF Flattens
<1> DEFINE f == CHOOSE g : g = [i \in 1..Len(ss) |-> IF i = 1 THEN ss[i] ELSE g[i-1] \o ss[i]]
<1>2. f = [i \in 1..Len(ss) |-> IF i = 1 THEN ss[i] ELSE f[i-1] \o ss[i]]
  BY <1>1, Zenon
<1>3. FlattenSeq(ss) = f[Len(ss)]
  BY DEF FlattenSeq
<1> HIDE DEF f
<1> QED
  BY <1>2, <1>3 DEF Flattens

(* FlattenSeq of sequences, the last of which is appended to the others.   *)
LEMMA FlattenMore ==
    ASSUME NEW S, NEW ss \in Seq(Seq(S)), ss # <<>>, NEW t \in Seq(S)
    PROVE  /\ FlattenSeq(ss) \in Seq(S)
           /\ FlattenSeq(Append(ss, t)) = FlattenSeq(ss) \o t
<1> DEFINE more == Append(ss, t)
           n    == Len(ss)
<1>1. n \in Nat /\ n # 0 /\ \A i \in 1..n : ss[i] \in Seq(S)
  OBVIOUS
<1>2. /\ Len(more) = n + 1 /\ Len(more) \in Nat /\ Len(more) # 0
      /\ \A i \in 1..n : more[i] = ss[i]
      /\ more[n + 1] = t
  OBVIOUS
<1> HIDE DEF more
<1>3. PICK g : Flattens(g, ss, n) /\ FlattenSeq(ss) = g[n]
  BY <1>1, FlattenBy
<1>4. PICK h : Flattens(h, more, n + 1) /\ FlattenSeq(more) = h[n + 1]
  <2>1. \E h : Flattens(h, more, Len(more)) /\ FlattenSeq(more) = h[Len(more)]
    BY <1>2, FlattenBy
  <2> QED
    BY <1>2, <2>1
<1> HIDE DEF n
<1> DEFINE Bad == {k \in 1..n : ~(g[k] \in Seq(S) /\ h[k] = g[k])}
<1>5. Bad = {}
  <2> SUFFICES ASSUME Bad # {} PROVE FALSE
    OBVIOUS
  <2>1. Bad \in SUBSET Nat
    BY <1>1
  <2>2. PICK k \in Bad : \A j \in Bad : k <= j
    <3> HIDE DEF Bad
    <3> QED
      BY <2>1, LeastNat
  <2>3. k \in 1..n /\ k \in 1..(n + 1) /\ ~(g[k] \in Seq(S) /\ h[k] = g[k])
    BY <1>1
  <2>4. /\ g[k] = IF k = 1 THEN ss[k] ELSE g[k-1] \o ss[k]
        /\ h[k] = IF k = 1 THEN more[k] ELSE h[k-1] \o more[k]
    BY <1>3, <1>4, <2>3 DEF Flattens
  <2>5. CASE k = 1
    BY <1>1, <1>2, <2>3, <2>4, <2>5
  <2>6. CASE k # 1
    <3>1. k - 1 \in 1..n /\ k - 1 \notin Bad
      BY <1>1, <2>2, <2>3, <2>6
    <3>2. g[k-1] \in Seq(S) /\ h[k-1] = g[k-1]
      BY <3>1
    <3>3. g[k] = g[k-1] \o ss[k] /\ h[k] = g[k-1] \o ss[k] /\ ss[k] \in Seq(S)
      BY <1>1, <1>2, <2>3, <2>4, <2>6, <3>2
    <3> QED
      BY <2>3, <3>2, <3>3
  <2> QED
    BY <2>5, <2>6
<1>6. g[n] \in Seq(S) /\ h[n] = g[n]
  <2>1. n \in 1..n
    BY <1>1
  <2> QED
    BY <1>5, <2>1
<1>7. h[n + 1] = h[n] \o t
  <2>1. n + 1 \in 1..(n + 1) /\ n + 1 # 1 /\ (n + 1) - 1 = n
    BY <1>1
  <2>2. h[n + 1] = h[(n + 1) - 1] \o more[n + 1]
    BY <1>4, <2>1 DEF Flattens
  <2> QED
    BY <1>2, <2>1, <2>2
<1> QED
  BY <1>3, <1>4, <1>6, <1>7 DEF more

-----------------------------------------------------------------------------
(* Names of keys (KeyNames).                                               *)

CleanOf(name) == FlattenSeq([i \in DOMAIN name |-> Clean[name[i]]])

(* Where the parts are that are not cut off.                               *)
Staying(clean) == {i \in 1..Len(clean) : clean[i] \notin Trimmed}

IsIndex(idx) == idx \in Nat /\ idx \in DOMAIN Clean /\ Clean[idx] = <<idx>> /\ idx \notin Trimmed

(* An index that is appended is there when the name is cleaned.            *)
LEMMA Cleaned ==
    ASSUME NEW name \in Seq(DOMAIN Clean), name # <<>>, NEW idx, IsIndex(idx)
    PROVE  /\ CleanOf(name) \in Seq(Nat)
           /\ CleanOf(Append(name, idx)) = CleanOf(name) \o <<idx>>
<1> DEFINE ss   == [i \in DOMAIN name |-> Clean[name[i]]]
           more == Append(name, idx)
<1>1. Len(name) \in Nat /\ DOMAIN name = 1..Len(name) /\ \A i \in 1..Len(name) : name[i] \in DOMAIN Clean
  OBVIOUS
<1>2. /\ DOMAIN more = 1..(Len(name) + 1) /\ more[Len(name) + 1] = idx
      /\ \A i \in 1..Len(name) : more[i] = name[i]
  OBVIOUS
<1>3. /\ ss \in Seq(Seq(Nat)) /\ ss # <<>> /\ Len(ss) = Len(name)
      /\ \A i \in 1..Len(name) : ss[i] = Clean[name[i]]
  <2>1. \A i \in 1..Len(name) : Clean[name[i]] \in Seq(Nat)
    BY <1>1, KeyNamesAssumption
  <2>2. ss = [i \in 1..Len(name) |-> Clean[name[i]]] /\ Len(name) # 0
    BY <1>1
  <2>3. ss \in Seq(Seq(Nat)) /\ Len(ss) = Len(name)
    BY <1>1, <2>1, <2>2
  <2> QED
    BY <2>2, <2>3
<1>4. <<idx>> \in Seq(Nat)
  BY DEF IsIndex
<1>5. [i \in DOMAIN more |-> Clean[more[i]]] = Append(ss, <<idx>>)
  <2>1. /\ DOMAIN Append(ss, <<idx>>) = 1..(Len(name) + 1)
        /\ Append(ss, <<idx>>)[Len(name) + 1] = <<idx>>
        /\ \A i \in 1..Len(name) : Append(ss, <<idx>>)[i] = ss[i]
        /\ Append(ss, <<idx>>) = [i \in 1..(Len(name) + 1) |-> Append(ss, <<idx>>)[i]]
    <3> HIDE DEF ss
    <3> QED
      BY <1>1, <1>3, <1>4
  <2> HIDE DEF ss, more
  <2>2. \A i \in 1..(Len(name) + 1) : Clean[more[i]] = Append(ss, <<idx>>)[i]
    BY <1>1, <1>2, <1>3, <2>1 DEF IsIndex
  <2> QED
    BY <1>2, <2>1, <2>2
<1>6. FlattenSeq(ss) \in Seq(Nat) /\ FlattenSeq(Append(ss, <<idx>>)) = FlattenSeq(ss) \o <<idx>>
  <2> HIDE DEF ss
  <2> QED
    BY <1>3, <1>4, FlattenMore
<1>7. CleanOf(name) = FlattenSeq(ss) /\ CleanOf(more) = FlattenSeq(Append(ss, <<idx>>))
  <2>1. CleanOf(more) = FlattenSeq([i \in DOMAIN more |-> Clean[more[i]]])
    BY Zenon DEF CleanOf
  <2> QED
    BY <1>5, <2>1, Zenon DEF CleanOf
<1> QED
  BY <1>6, <1>7, Zenon

LEMMA SafeIs ==
    ASSUME NEW name, NEW clean \in Seq(Nat), CleanOf(name) = clean
    PROVE  SafeKeyName(name) = IF Staying(clean) = {} THEN <<>>
                               ELSE SubSeq(clean, Min(Staying(clean)), Max(Staying(clean)))
<1>1. ToSet(clean) \subseteq Trimmed <=> Staying(clean) = {}
  BY DEF ToSet, Staying
<1> QED
  BY <1>1 DEF SafeKeyName, CleanOf, SelectInSeq, SelectLastInSeq, Staying

(* A suffixed name keeps its end, and is longer than without the suffix.   *)
LEMMA Suffixed ==
    ASSUME NEW name \in Seq(DOMAIN Clean), name # <<>>, NEW idx, IsIndex(idx)
    PROVE  /\ SafeKeyName(Append(name, idx)) \in Seq(Nat) /\ SafeKeyName(Append(name, idx)) # <<>>
           /\ Last(SafeKeyName(Append(name, idx))) = idx
           /\ Len(SafeKeyName(name)) < Len(SafeKeyName(Append(name, idx)))
<1>1. PICK clean \in Seq(Nat) : CleanOf(name) = clean /\ CleanOf(Append(name, idx)) = clean \o <<idx>>
  BY Cleaned
<1> DEFINE n    == Len(clean)
           more == clean \o <<idx>>
<1>2. /\ idx \in Nat /\ n \in Nat /\ more \in Seq(Nat) /\ Len(more) = n + 1
      /\ more[n + 1] = idx /\ \A i \in 1..n : more[i] = clean[i]
  BY DEF IsIndex
<1> HIDE DEF more
<1>3. n + 1 \in Staying(more) /\ Staying(more) \subseteq 1..(n + 1)
  BY <1>2 DEF Staying, IsIndex
<1>4. PICK f \in Nat : f \in Staying(more) /\ f = Min(Staying(more)) /\ \A k \in Staying(more) : f <= k
  <2>1. n + 1 \in Nat
    BY <1>2
  <2>2. /\ Min(Staying(more)) \in Staying(more)
        /\ \A k \in Staying(more) : Min(Staying(more)) <= k
    BY <1>3, <2>1, EndsOf
  <2>3. Min(Staying(more)) \in Nat
    BY <1>2, <1>3, <2>2
  <2> QED
    BY <2>2, <2>3
<1>5. Max(Staying(more)) = n + 1
  <2>1. n + 1 \in Nat
    BY <1>2
  <2>2. Max(Staying(more)) \in Staying(more) /\ n + 1 <= Max(Staying(more))
    BY <1>3, <2>1, EndsOf
  <2> QED
    BY <1>2, <1>3, <2>2
<1>6. SafeKeyName(Append(name, idx)) = SubSeq(more, f, n + 1)
  <2>1. CleanOf(Append(name, idx)) = more
    BY <1>1 DEF more
  <2> QED
    BY <1>2, <1>3, <1>4, <1>5, <2>1, SafeIs
<1>7. /\ f \in 1..(n + 1) /\ SubSeq(more, f, n + 1) \in Seq(Nat)
      /\ Len(SubSeq(more, f, n + 1)) = n + 2 - f /\ SubSeq(more, f, n + 1)[n + 2 - f] = idx
  <2>1. f \in 1..(n + 1) /\ n + 1 \in Nat /\ n + 1 <= Len(more)
    BY <1>2, <1>3, <1>4
  <2> DEFINE m == n + 1
             u == SubSeq(more, f, m)
  <2> HIDE DEF m
  <2>2. m \in Nat /\ f \in 1..m /\ m <= Len(more)
    BY <2>1 DEF m
  <2>3. u \in Seq(Nat)
    BY <1>2, <2>2
  <2>4. Len(u) = m - f + 1 /\ \A k \in 1..(m - f + 1) : u[k] = more[f + k - 1]
    BY <1>2, <2>2
  <2>5. m - f + 1 = n + 2 - f /\ n + 2 - f \in 1..(m - f + 1) /\ f + (n + 2 - f) - 1 = n + 1
    BY <1>2, <2>2 DEF m
  <2> HIDE DEF u
  <2>6. u[n + 2 - f] = idx
    BY <1>2, <2>4, <2>5
  <2> QED
    BY <2>1, <2>3, <2>4, <2>5, <2>6 DEF u, m
<1>8. Len(SafeKeyName(name)) < n + 2 - f
  <2>1. CASE Staying(clean) = {}
    <3>1. SafeKeyName(name) = <<>>
      BY <1>1, <2>1, SafeIs
    <3> QED
      BY <1>2, <1>7, <3>1
  <2>2. CASE Staying(clean) # {}
    <3>1. Staying(clean) \subseteq 1..n /\ Staying(clean) \subseteq Staying(more)
      BY <1>2 DEF Staying
    <3>2. PICK i, k \in Staying(clean) : i = Min(Staying(clean)) /\ k = Max(Staying(clean)) /\ i <= k
      BY <1>2, <2>2, <3>1, EndsOf
    <3>3. i \in Staying(more) /\ f <= i /\ i \in 1..n /\ k \in 1..n
      BY <1>4, <3>1, <3>2
    <3>4. SafeKeyName(name) = SubSeq(clean, i, k)
      BY <1>1, <2>2, <3>2, SafeIs
    <3>5. Len(SubSeq(clean, i, k)) = k - i + 1
      BY <1>2, <3>2, <3>3
    <3> QED
      BY <1>2, <1>7, <3>3, <3>4, <3>5
  <2> QED
    BY <2>1, <2>2
<1>9. PICK safe : safe = SafeKeyName(Append(name, idx))
  OBVIOUS
<1>10. safe \in Seq(Nat) /\ Len(safe) = n + 2 - f /\ safe[n + 2 - f] = idx /\ n + 2 - f > 0
  BY <1>2, <1>6, <1>7, <1>9
<1>11. safe # <<>> /\ Last(safe) = idx
  BY <1>2, <1>10 DEF Last
<1> QED
  BY <1>8, <1>9, <1>10, <1>11

(* Two different suffixes keep one name apart.                             *)
LEMMA SuffixesApart ==
    ASSUME NEW name \in Seq(DOMAIN Clean), name # <<>>, NEW idx, IsIndex(idx)
    PROVE  /\ SafeKeyName(Append(name, idx)) # SafeKeyName(name)
           /\ \A other : IsIndex(other) /\ other # idx =>
                 SafeKeyName(Append(name, idx)) # SafeKeyName(Append(name, other))
<1>1. SafeKeyName(Append(name, idx)) # SafeKeyName(name)
  <2>1. Len(SafeKeyName(name)) < Len(SafeKeyName(Append(name, idx)))
    BY Suffixed
  <2>2. Len(SafeKeyName(Append(name, idx))) \in Nat
    BY Suffixed
  <2> QED
    BY <2>1, <2>2
<1>2. ASSUME NEW other, IsIndex(other), other # idx
      PROVE  SafeKeyName(Append(name, idx)) # SafeKeyName(Append(name, other))
  <2>1. Last(SafeKeyName(Append(name, idx))) = idx
    BY Suffixed
  <2>2. Last(SafeKeyName(Append(name, other))) = other
    BY <1>2, Suffixed
  <2> QED
    BY <1>2, <2>1, <2>2
<1> QED
  BY <1>1, <1>2

(* The name that repository r asks for.                                    *)
Base(r) == BaseOf(repos[r + 1], r)

(* A key is under a name that came of its repository's, which is taken.    *)
KeysInv ==
    /\ repos \in RepoLists /\ backend \in Backends /\ next \in 0..Len(repos)
    /\ DOMAIN fileOf \subseteq 0..(next - 1)
    /\ \A r \in DOMAIN fileOf :
          /\ Base(r) \in usedNames /\ fileOf[r] \in DOMAIN keys
          /\ IF backend = "apt"
             THEN fileOf[r] \in {SafeKeyName(Base(r)), SafeKeyName(Append(Base(r), r))}
             ELSE fileOf[r] = <<r>>
    /\ Distinguishable => KeysStayApart

(* What a repository of a list asks for.                                   *)
LEMMA BaseIs ==
    ASSUME repos \in RepoLists, NEW r \in 0..(Len(repos) - 1)
    PROVE  Base(r) \in Seq(DOMAIN Clean) /\ Base(r) # <<>> /\ IsIndex(r) /\ Len(repos) \in Nat
<1>1. PICK list : list = repos
  OBVIOUS
<1>2. list \in Seq(Seq(DOMAIN Clean)) /\ Repo \in DOMAIN Clean
  BY <1>1, KeyNamesAssumption
<1>3. r \in Nat /\ r + 1 \in 1..Len(list) /\ Len(list) \in Nat
  BY <1>1, <1>2
<1>4. IsIndex(r)
  BY <1>1, <1>3, KeyNamesAssumption DEF IsIndex
<1>5. list[r + 1] \in Seq(DOMAIN Clean)
  BY <1>2, <1>3
<1>6. Base(r) = IF list[r + 1] = <<>> THEN <<Repo, r>> ELSE list[r + 1]
  BY <1>1 DEF Base, BaseOf
<1>7. <<Repo, r>> \in Seq(DOMAIN Clean) /\ <<Repo, r>> # <<>>
  BY <1>2, <1>4 DEF IsIndex
<1> QED
  BY <1>1, <1>3, <1>4, <1>5, <1>6, <1>7

(* The key that is imported goes where no other is.                        *)
LEMMA PlaceIsFree ==
    ASSUME KeysInv, next \in 0..(Len(repos) - 1), Distinguishable, NEW r \in DOMAIN fileOf,
           NEW place,
           place = IF backend = "apt" THEN SafeKeyName(GpgKeyName(repos[next + 1], next, usedNames))
                   ELSE <<next>>
    PROVE  place # fileOf[r]
<1>1. PICK n, b, c : n = next /\ b = Base(r) /\ c = Base(next)
  OBVIOUS
<1>2. /\ r \in 0..(Len(repos) - 1) /\ n \in 0..(Len(repos) - 1) /\ r # n
      /\ b \in usedNames
      /\ IF backend = "apt" THEN fileOf[r] \in {SafeKeyName(b), SafeKeyName(Append(b, r))}
         ELSE fileOf[r] = <<r>>
  BY <1>1 DEF KeysInv
<1>3. /\ b \in Seq(DOMAIN Clean) /\ b # <<>> /\ IsIndex(r)
      /\ c \in Seq(DOMAIN Clean) /\ c # <<>> /\ IsIndex(n)
  BY <1>1, <1>2, BaseIs DEF KeysInv
<1>4. place = IF backend = "apt" THEN SafeKeyName(IF c \in usedNames THEN Append(c, n) ELSE c) ELSE <<n>>
  BY <1>1 DEF GpgKeyName, Base
<1>5. CASE backend # "apt"
  BY <1>2, <1>4, <1>5
<1>6. CASE backend = "apt" /\ b = c
  <2>1. place = SafeKeyName(Append(b, n)) /\ fileOf[r] \in {SafeKeyName(b), SafeKeyName(Append(b, r))}
    BY <1>2, <1>4, <1>6
  <2>2. SafeKeyName(Append(b, n)) # SafeKeyName(b) /\ SafeKeyName(Append(b, n)) # SafeKeyName(Append(b, r))
    BY <1>2, <1>3, SuffixesApart
  <2> QED
    BY <2>1, <2>2
<1>7. CASE backend = "apt" /\ b # c
  <2>1. \A p \in {c, Append(c, n)}, q \in {b, Append(b, r)} : SafeKeyName(p) # SafeKeyName(q)
    BY <1>1, <1>2, <1>7 DEF Distinguishable, Base, Repos
  <2> QED
    BY <1>2, <1>4, <1>7, <2>1
<1> QED
  BY <1>5, <1>6, <1>7

LEMMA KeysInvInit == KeysInit => KeysInv
<1> SUFFICES ASSUME KeysInit PROVE KeysInv
  OBVIOUS
<1>1. Len(repos) \in Nat
  BY KeyNamesAssumption DEF KeysInit
<1>2. DOMAIN fileOf = {} /\ next = 0
  BY DEF KeysInit
<1> QED
  BY <1>1, <1>2 DEF KeysInit, KeysInv, KeysStayApart

LEMMA KeysInvNext == KeysInv /\ [KeysNext]_keyVars => KeysInv'
<1> SUFFICES ASSUME KeysInv, [KeysNext]_keyVars PROVE KeysInv'
  OBVIOUS
<1>1. CASE UNCHANGED keyVars
  BY <1>1 DEF KeysInv, keyVars, Base, Distinguishable, KeysStayApart, Repos
<1>2. CASE NoKey
  <2>1. /\ next \in 0..(Len(repos) - 1) /\ next' = next + 1
        /\ UNCHANGED <<repos, backend, usedNames, fileOf, keys>>
    BY <1>2 DEF NoKey, Repos
  <2>2. Len(repos) \in Nat
    BY KeyNamesAssumption DEF KeysInv
  <2> QED
    BY <2>1, <2>2 DEF KeysInv, Base, Distinguishable, KeysStayApart, Repos
<1>3. CASE ImportKey
  <2>1. PICK n, name, place :
           /\ n = next /\ name = GpgKeyName(repos[next + 1], next, usedNames)
           /\ place = IF backend = "apt" THEN SafeKeyName(name) ELSE <<next>>
    OBVIOUS
  <2>2. /\ n \in 0..(Len(repos) - 1) /\ next' = n + 1 /\ usedNames' = usedNames \union {name}
        /\ repos' = repos /\ backend' = backend
        /\ \/ UNCHANGED <<fileOf, keys>>
           \/ fileOf' = Stored(fileOf, n, place) /\ keys' = Stored(keys, place, n)
    BY <1>3, <2>1 DEF ImportKey, Repos
  <2>3. Len(repos) \in Nat
    BY KeyNamesAssumption DEF KeysInv
  <2>4. Base(n) \in usedNames' /\ name \in {Base(n), Append(Base(n), n)}
    BY <2>1, <2>2 DEF GpgKeyName, Base
  <2>5. next' \in 0..Len(repos') /\ repos' \in RepoLists /\ backend' \in Backends
    BY <2>2, <2>3 DEF KeysInv
  <2>6. \A r : Base(r)' = Base(r)
    BY <2>2 DEF Base
  <2>7. Distinguishable' <=> Distinguishable
    BY <2>2 DEF Distinguishable, Repos
  <2>8. CASE UNCHANGED <<fileOf, keys>>
    <3>1. DOMAIN fileOf' \subseteq 0..(next' - 1)
      BY <2>2, <2>3, <2>8, <2>1 DEF KeysInv
    <3>2. ASSUME NEW r \in DOMAIN fileOf'
          PROVE  /\ Base(r)' \in usedNames' /\ fileOf'[r] \in DOMAIN keys'
                 /\ IF backend' = "apt"
                    THEN fileOf'[r] \in {SafeKeyName(Base(r)'), SafeKeyName(Append(Base(r)', r))}
                    ELSE fileOf'[r] = <<r>>
      BY <2>2, <2>6, <2>8 DEF KeysInv
    <3>3. Distinguishable' => KeysStayApart'
      BY <2>7, <2>8 DEF KeysInv, KeysStayApart
    <3> QED
      BY <2>5, <3>1, <3>2, <3>3 DEF KeysInv
  <2>9. CASE fileOf' = Stored(fileOf, n, place) /\ keys' = Stored(keys, place, n)
    <3>1. /\ DOMAIN fileOf' = DOMAIN fileOf \union {n}
          /\ \A r \in DOMAIN fileOf' : fileOf'[r] = IF r = n THEN place ELSE fileOf[r]
      BY <2>9 DEF Stored
    <3>2. DOMAIN fileOf \subseteq 0..(n - 1) /\ n \notin DOMAIN fileOf
      BY <2>1, <2>2 DEF KeysInv
    <3>3. DOMAIN fileOf' \subseteq 0..(next' - 1)
      BY <2>2, <2>3, <3>1, <3>2
    <3>4. ASSUME NEW r \in DOMAIN fileOf'
          PROVE  /\ Base(r)' \in usedNames' /\ fileOf'[r] \in DOMAIN keys'
                 /\ IF backend' = "apt"
                    THEN fileOf'[r] \in {SafeKeyName(Base(r)'), SafeKeyName(Append(Base(r)', r))}
                    ELSE fileOf'[r] = <<r>>
      <4>0. DOMAIN keys' = DOMAIN keys \union {place}
        BY <2>9 DEF Stored
      <4>1. CASE r = n
        BY <2>1, <2>2, <2>4, <2>6, <3>1, <4>0, <4>1
      <4>2. CASE r # n
        BY <2>2, <2>6, <3>1, <4>0, <4>2 DEF KeysInv
      <4> QED
        BY <4>1, <4>2
    <3>5. ASSUME Distinguishable, NEW r \in DOMAIN fileOf' PROVE keys'[fileOf'[r]] = r
      <4>1. /\ keys'[place] = n
            /\ \A f : f \in DOMAIN keys /\ f # place => keys'[f] = keys[f]
        BY <2>9 DEF Stored
      <4>2. CASE r = n
        BY <3>1, <4>1, <4>2
      <4>3. CASE r # n
        <5>1. r \in DOMAIN fileOf /\ fileOf'[r] = fileOf[r] /\ keys[fileOf[r]] = r
          BY <3>1, <3>5, <4>3 DEF KeysInv, KeysStayApart
        <5>2. fileOf[r] # place
          BY <2>1, <2>2, <3>5, <5>1, PlaceIsFree
        <5>3. fileOf[r] \in DOMAIN keys
          BY <5>1 DEF KeysInv
        <5> QED
          BY <4>1, <5>1, <5>2, <5>3
      <4> QED
        BY <4>2, <4>3
    <3> QED
      BY <2>5, <2>7, <3>3, <3>4, <3>5 DEF KeysInv, KeysStayApart
  <2> QED
    BY <2>2, <2>8, <2>9
<1> QED
  BY <1>1, <1>2, <1>3 DEF KeysNext, Imported

(* Repositories whose files share a base name, or have none, keep their    *)
(* keys apart as long as names stay distinguishable, whatever they are and *)
(* however cleaning changes them (importGPGKeys, gpgKeyName, safeKeyName). *)
THEOREM KeysKeptApart == KeysSpec => []SharedNamesStayApart
<1>1. KeysInv => SharedNamesStayApart
  BY DEF KeysInv, SharedNamesStayApart
<1> QED
  BY <1>1, KeysInvInit, KeysInvNext, PTL DEF KeysSpec

-----------------------------------------------------------------------------
(* Lines of an output (OutputStream).                                      *)

(* Sequences with the same elements at the same places.                    *)
LEMMA SameSeq ==
    ASSUME NEW S, NEW s \in Seq(S), NEW t \in Seq(S), Len(s) = Len(t),
           \A i \in 1..Len(s) : s[i] = t[i]
    PROVE  s = t
OBVIOUS

(* A sequence is its front and its last element.                           *)
LEMMA FrontAndLast ==
    ASSUME NEW S, NEW t \in Seq(S), t # <<>>
    PROVE  /\ SubSeq(t, 1, Len(t) - 1) \in Seq(S)
           /\ Len(SubSeq(t, 1, Len(t) - 1)) = Len(t) - 1
           /\ t[Len(t)] \in S
           /\ t = Append(SubSeq(t, 1, Len(t) - 1), t[Len(t)])
<1>1. Len(t) \in Nat /\ Len(t) # 0
  OBVIOUS
<1>2. t[Len(t)] \in S
  BY <1>1
<1>3. PICK u : u = SubSeq(t, 1, Len(t) - 1)
  OBVIOUS
<1>4. u \in Seq(S) /\ Len(u) = Len(t) - 1 /\ \A i \in 1..(Len(t) - 1) : u[i] = t[i]
  <2>1. PICK m \in Nat : m = Len(t) - 1 /\ m + 1 = Len(t)
    BY <1>1
  <2>2. u = SubSeq(t, 1, m)
    BY <1>3, <2>1
  <2>3. \A i \in 1..m : t[i] \in S
    BY <2>1
  <2>4. u = [i \in 1..m |-> t[i]]
    BY <2>2, <2>1
  <2> QED
    BY <2>1, <2>3, <2>4
<1>5. PICK v : v = Append(u, t[Len(t)])
  OBVIOUS
<1>6. /\ v \in Seq(S) /\ Len(v) = Len(t) /\ v[Len(t)] = t[Len(t)]
      /\ \A i \in 1..(Len(t) - 1) : v[i] = u[i]
  BY <1>1, <1>2, <1>4, <1>5
<1>7. \A i \in 1..Len(t) : t[i] = v[i]
  BY <1>1, <1>4, <1>6
<1>8. t = v
  BY <1>6, <1>7, SameSeq
<1> QED
  BY <1>2, <1>3, <1>4, <1>5, <1>8

(* A set of sequences that holds the empty one, and with each the longer   *)
(* ones by one element, holds all of them.                                 *)
LEMMA SeqInduction ==
    ASSUME NEW S, NEW G \in SUBSET Seq(S), <<>> \in G,
           \A t \in G : \A b \in S : Append(t, b) \in G
    PROVE  G = Seq(S)
<1> DEFINE Lengths == {Len(t) : t \in Seq(S) \ G}
<1> SUFFICES ASSUME Seq(S) \ G # {} PROVE FALSE
  OBVIOUS
<1>1. Lengths \in SUBSET Nat /\ Lengths # {}
  <2>1. \A t \in Seq(S) : Len(t) \in Nat
    OBVIOUS
  <2>2. PICK t : t \in Seq(S) \ G
    OBVIOUS
  <2>3. Len(t) \in Lengths
    BY <2>2
  <2> QED
    BY <2>1, <2>3
<1>2. PICK n \in Lengths : \A m \in Lengths : n <= m
  <2> HIDE DEF Lengths
  <2> QED
    BY <1>1, LeastNat
<1>3. PICK t \in Seq(S) \ G : n = Len(t)
  OBVIOUS
<1>4. t # <<>>
  OBVIOUS
<1>5. PICK u : u = SubSeq(t, 1, Len(t) - 1)
  OBVIOUS
<1>6. u \in Seq(S) /\ Len(u) = Len(t) - 1 /\ t[Len(t)] \in S /\ t = Append(u, t[Len(t)])
  BY <1>3, <1>4, <1>5, FrontAndLast
<1>7. u \in G
  <2>1. Len(u) < n /\ Len(u) \in Nat
    <3>1. Len(t) \in Nat /\ Len(u) \in Nat
      BY <1>3, <1>6
    <3> QED
      BY <1>3, <1>6, <3>1
  <2>2. Len(u) \notin Lengths
    <3>1. Len(u) \in Lengths => n <= Len(u)
      BY <1>2
    <3> QED
      BY <2>1, <3>1, <1>1
  <2> QED
    BY <2>2, <1>6
<1> QED
  BY <1>3, <1>6, <1>7

(* What one byte does to the lines before it.                              *)
CutStep(lines, byte) ==
    IF byte = LF THEN Append(lines, <<>>)
    ELSE Append(Front(lines), Append(Last(lines), byte))

(* c holds the lines of the first bytes of the text, n of them.            *)
Cuts(c, text, n) == c = [k \in 0..n |-> IF k = 0 THEN << <<>> >> ELSE CutStep(c[k - 1], text[k])]

LEMMA CutsExist ==
    ASSUME NEW text
    PROVE  \A n \in Nat : \E c : Cuts(c, text, n)
<1> DEFINE Without == {n \in Nat : ~\E c : Cuts(c, text, n)}
<1> SUFFICES ASSUME Without # {} PROVE FALSE
  OBVIOUS
<1>1. PICK m \in Without : \A n \in Without : m <= n
  <2>1. Without \in SUBSET Nat
    OBVIOUS
  <2> HIDE DEF Without
  <2> QED
    BY <2>1, LeastNat
<1>2. m \in Nat /\ ~\E c : Cuts(c, text, m)
  OBVIOUS
<1>3. PICK below : m # 0 => Cuts(below, text, m - 1)
  <2>1. CASE m # 0
    <3>1. m - 1 \in Nat /\ m - 1 \notin Without
      BY <1>1, <1>2, <2>1
    <3> QED
      BY <3>1
  <2> QED
    BY <2>1
<1> DEFINE c == [k \in 0..m |-> IF k = 0 THEN << <<>> >> ELSE CutStep(below[k - 1], text[k])]
<1>4. ASSUME NEW k \in 0..m, k # 0 PROVE c[k - 1] = below[k - 1]
  <2>1. k - 1 \in 0..m /\ k - 1 \in 0..(m - 1) /\ m # 0
    BY <1>2, <1>4
  <2>2. below[k - 1] = IF k - 1 = 0 THEN << <<>> >> ELSE CutStep(below[k - 1 - 1], text[k - 1])
    BY <1>3, <2>1 DEF Cuts
  <2>3. c[k - 1] = IF k - 1 = 0 THEN << <<>> >> ELSE CutStep(below[k - 1 - 1], text[k - 1])
    BY <2>1
  <2> QED
    BY <2>2, <2>3
<1>5. c = [k \in 0..m |-> IF k = 0 THEN << <<>> >> ELSE CutStep(c[k - 1], text[k])]
  <2>1. \A k \in 0..m : c[k] = IF k = 0 THEN << <<>> >> ELSE CutStep(c[k - 1], text[k])
    BY <1>4
  <2>2. c = [k \in 0..m |-> c[k]]
    OBVIOUS
  <2> HIDE DEF c
  <2> QED
    BY <2>1, <2>2
<1>6. Cuts(c, text, m)
  <2> HIDE DEF c
  <2> QED
    BY <1>5, Zenon DEF Cuts
<1> QED
  BY <1>2, <1>6

LEMMA CutBy ==
    ASSUME NEW text, Len(text) \in Nat
    PROVE  \E c : Cuts(c, text, Len(text)) /\ CutAtLF(text) = c[Len(text)]
<1> DEFINE Body(c) == [n \in 0..Len(text) |->
                          IF n = 0 THEN << <<>> >>
                          ELSE IF text[n] = LF THEN Append(c[n - 1], <<>>)
                               ELSE Append(Front(c[n - 1]), Append(Last(c[n - 1]), text[n]))]
<1>1. PICK d : Cuts(d, text, Len(text))
  BY CutsExist
<1>2. \A c : Cuts(c, text, Len(text)) <=> c = Body(c)
  BY DEF Cuts, CutStep
<1> DEFINE f == CHOOSE c : c = Body(c)
<1>3. f = Body(f)
  <2>1. d = Body(d)
    BY <1>1, <1>2
  <2> HIDE DEF Body
  <2> QED
    BY <2>1, Zenon
<1>4. CutAtLF(text) = f[Len(text)]
  BY DEF CutAtLF
<1>5. Cuts(f, text, Len(text))
  <2> HIDE DEF Body, f
  <2> QED
    BY <1>2, <1>3
<1> HIDE DEF f
<1> QED
  BY <1>4, <1>5

(* The lines of a text that is longer by one byte.                         *)
LEMMA CutMore ==
    ASSUME NEW S, NEW text \in Seq(S), NEW byte \in S
    PROVE  CutAtLF(Append(text, byte)) = CutStep(CutAtLF(text), byte)
<1>1. PICK more : more = Append(text, byte)
  OBVIOUS
<1>2. PICK n \in Nat : n = Len(text)
  OBVIOUS
<1>3. /\ Len(more) = n + 1 /\ more[n + 1] = byte
      /\ \A k \in 1..n : more[k] = text[k]
  BY <1>1, <1>2
<1>4. PICK c : Cuts(c, text, n) /\ CutAtLF(text) = c[n]
  BY <1>2, CutBy
<1>5. PICK d : Cuts(d, more, n + 1) /\ CutAtLF(more) = d[n + 1]
  BY <1>3, CutBy
<1> DEFINE Bad == {k \in 0..n : d[k] # c[k]}
<1>6. Bad = {}
  <2> SUFFICES ASSUME Bad # {} PROVE FALSE
    OBVIOUS
  <2>1. Bad \in SUBSET Nat
    OBVIOUS
  <2>2. PICK k \in Bad : \A j \in Bad : k <= j
    <3> HIDE DEF Bad
    <3> QED
      BY <2>1, LeastNat
  <2>3. k \in 0..n /\ k \in 0..(n + 1) /\ d[k] # c[k]
    OBVIOUS
  <2>4. /\ c[k] = IF k = 0 THEN << <<>> >> ELSE CutStep(c[k - 1], text[k])
        /\ d[k] = IF k = 0 THEN << <<>> >> ELSE CutStep(d[k - 1], more[k])
    BY <1>4, <1>5, <2>3 DEF Cuts
  <2>5. k # 0
    BY <2>3, <2>4
  <2>6. k - 1 \in 0..n /\ k - 1 \notin Bad /\ k \in 1..n
    BY <2>2, <2>3, <2>5
  <2>7. d[k - 1] = c[k - 1] /\ more[k] = text[k]
    BY <1>3, <2>6
  <2> QED
    BY <2>3, <2>4, <2>5, <2>7
<1>7. d[n] = c[n]
  BY <1>6
<1>8. d[n + 1] = CutStep(d[n], more[n + 1])
  <2>1. n + 1 \in 0..(n + 1) /\ n + 1 # 0 /\ (n + 1) - 1 = n
    OBVIOUS
  <2>2. d[n + 1] = CutStep(d[(n + 1) - 1], more[n + 1])
    BY <1>5, <2>1 DEF Cuts
  <2> QED
    BY <2>1, <2>2
<1> QED
  BY <1>1, <1>3, <1>4, <1>5, <1>7, <1>8

LEMMA CutOfNothing == CutAtLF(<<>>) = << <<>> >>
<1>1. Len(<<>>) = 0
  OBVIOUS
<1>2. PICK c : Cuts(c, <<>>, 0) /\ CutAtLF(<<>>) = c[0]
  BY <1>1, CutBy
<1>3. c[0] = << <<>> >>
  BY <1>2 DEF Cuts
<1> QED
  BY <1>2, <1>3

(* A sequence that is not empty is its front and its last element.         *)
LEMMA Ends ==
    ASSUME NEW S, NEW t \in Seq(S), t # <<>>
    PROVE  /\ Front(t) \in Seq(S) /\ Last(t) \in S
           /\ Len(Front(t)) = Len(t) - 1
           /\ t = Append(Front(t), Last(t))
           /\ t = Front(t) \o <<Last(t)>>
<1>1. /\ Front(t) \in Seq(S) /\ Last(t) \in S
      /\ Len(Front(t)) = Len(t) - 1
      /\ t = Append(Front(t), Last(t))
  BY FrontAndLast DEF Front, Last
<1> QED
  BY <1>1, AppendIsConcat

LEMMA EndsOfAppend ==
    ASSUME NEW S, NEW s \in Seq(S), NEW e \in S
    PROVE  Front(Append(s, e)) = s /\ Last(Append(s, e)) = e
<1>1. PICK t : t = Append(s, e)
  OBVIOUS
<1>2. t \in Seq(S) /\ t # <<>> /\ Len(t) = Len(s) + 1 /\ t[Len(s) + 1] = e
      /\ \A i \in 1..Len(s) : t[i] = s[i]
  BY <1>1, AppendProperties
<1>3. Last(t) = e
  BY <1>2 DEF Last
<1>4. PICK f : f = Front(t)
  OBVIOUS
<1>5. f \in Seq(S) /\ Len(f) = Len(s)
  <2>1. f \in Seq(S) /\ Len(f) = Len(t) - 1
    BY <1>2, <1>4, Ends
  <2>2. Len(s) \in Nat
    OBVIOUS
  <2> QED
    BY <1>2, <2>1, <2>2
<1>6. \A i \in 1..Len(s) : f[i] = t[i]
  BY <1>2, <1>4, <1>5, SubSeqProperties DEF Front
<1>7. f = s
  BY <1>2, <1>5, <1>6, SameSeq
<1> QED
  BY <1>1, <1>3, <1>4, <1>7

(* An element at the end of what is joined.                                *)
LEMMA JoinAppend ==
    ASSUME NEW S, NEW s \in Seq(S), NEW t \in Seq(S), NEW e \in S
    PROVE  s \o Append(t, e) = Append(s \o t, e)
<1>1. PICK j, x : j = s \o t /\ x = <<e>>
  OBVIOUS
<1>2. j \in Seq(S) /\ x \in Seq(S)
  BY <1>1
<1>3. Append(t, e) = t \o x /\ Append(j, e) = j \o x
  BY <1>1, <1>2, AppendIsConcat
<1>4. (s \o t) \o x = s \o (t \o x)
  <2>1. x \in Seq(S)
    BY <1>2
  <2> QED
    BY <2>1, ConcatAssociative
<1> QED
  BY <1>1, <1>3, <1>4

(* A line holds no LF.                                                     *)
Lines(S) == Seq(S \ {LF})

(* There is always a last line.                                            *)
LEMMA CutType ==
    ASSUME NEW S
    PROVE  \A t \in Seq(S) : CutAtLF(t) \in Seq(Lines(S)) /\ CutAtLF(t) # <<>>
<1> DEFINE G == {t \in Seq(S) : CutAtLF(t) \in Seq(Lines(S)) /\ CutAtLF(t) # <<>>}
<1>1. <<>> \in G
  <2>1. <<>> \in Seq(S) /\ <<>> \in Lines(S)
    BY DEF Lines
  <2> HIDE DEF G
  <2>2. << <<>> >> \in Seq(Lines(S)) /\ << <<>> >> # <<>>
    BY <2>1
  <2> QED
    BY <2>1, <2>2, CutOfNothing DEF G
<1>2. ASSUME NEW t \in G, NEW b \in S PROVE Append(t, b) \in G
  <2>1. t \in Seq(S) /\ Append(t, b) \in Seq(S)
    OBVIOUS
  <2>2. PICK ls : ls = CutAtLF(t)
    OBVIOUS
  <2>3. ls \in Seq(Lines(S)) /\ ls # <<>>
    BY <2>2
  <2>4. Front(ls) \in Seq(Lines(S)) /\ Last(ls) \in Lines(S) /\ <<>> \in Lines(S)
    <3>1. <<>> \in Lines(S)
      BY DEF Lines
    <3>2. Front(ls) \in Seq(Lines(S)) /\ Last(ls) \in Lines(S)
      BY <2>3, Ends
    <3> QED
      BY <3>1, <3>2
  <2>5. b # LF => Append(Last(ls), b) \in Lines(S)
    BY <2>4 DEF Lines
  <2>6. CutStep(ls, b) \in Seq(Lines(S)) /\ CutStep(ls, b) # <<>>
    <3>1. PICK e : e = Append(Last(ls), b)
      OBVIOUS
    <3>2. CASE b = LF
      <4>1. CutStep(ls, b) = Append(ls, <<>>)
        BY <3>2 DEF CutStep
      <4> QED
        BY <2>3, <2>4, <4>1, AppendProperties
    <3>3. CASE b # LF
      <4>1. CutStep(ls, b) = Append(Front(ls), e) /\ e \in Lines(S)
        BY <2>5, <3>1, <3>3 DEF CutStep
      <4> QED
        BY <2>4, <4>1, AppendProperties
    <3> QED
      BY <3>2, <3>3
  <2> QED
    BY <2>1, <2>2, <2>6, CutMore
<1>3. G = Seq(S)
  <2>1. G \in SUBSET Seq(S) /\ \A t \in G : \A b \in S : Append(t, b) \in G
    BY <1>2
  <2> HIDE DEF G
  <2> QED
    BY <1>1, <2>1, SeqInduction
<1> QED
  BY <1>3

(* A text without LF is one line.                                          *)
LEMMA CutOfLine ==
    ASSUME NEW S
    PROVE  \A t \in Lines(S) : CutAtLF(t) = <<t>>
<1> DEFINE G == {t \in Lines(S) : CutAtLF(t) = <<t>>}
<1>1. <<>> \in G
  BY CutOfNothing DEF Lines
<1>2. ASSUME NEW t \in G, NEW b \in S \ {LF} PROVE Append(t, b) \in G
  <2>1. t \in Seq(S \ {LF}) /\ Append(t, b) \in Seq(S \ {LF}) /\ CutAtLF(t) = <<t>>
    BY DEF Lines
  <2>2. CutAtLF(Append(t, b)) = CutStep(<<t>>, b)
    BY <2>1, CutMore
  <2>3. Front(<<t>>) = <<>> /\ Last(<<t>>) = t
    <3>1. <<>> \in Seq({t}) /\ t \in {t}
      OBVIOUS
    <3>2. Front(Append(<<>>, t)) = <<>> /\ Last(Append(<<>>, t)) = t
      BY <3>1, EndsOfAppend
    <3>3. Append(<<>>, t) = <<t>>
      OBVIOUS
    <3> QED
      BY <3>2, <3>3
  <2>4. CutStep(<<t>>, b) = Append(<<>>, Append(t, b))
    BY <2>3 DEF CutStep
  <2>5. Append(<<>>, Append(t, b)) = <<Append(t, b)>>
    OBVIOUS
  <2> QED
    BY <2>1, <2>2, <2>4, <2>5 DEF Lines
<1>3. G = Seq(S \ {LF})
  <2>1. G \in SUBSET Seq(S \ {LF}) /\ \A t \in G : \A b \in S \ {LF} : Append(t, b) \in G
    BY <1>2 DEF Lines
  <2> HIDE DEF G
  <2> QED
    BY <1>1, <2>1, SeqInduction
<1> QED
  BY <1>3 DEF Lines

(* What one byte does leaves the complete lines alone.                     *)
LEMMA CutStepJoin ==
    ASSUME NEW T, NEW f \in Seq(Seq(T)), NEW c \in Seq(Seq(T)), c # <<>>, NEW b \in T
    PROVE  CutStep(f \o c, b) = f \o CutStep(c, b)
<1>1. PICK g, l : g = Front(c) /\ l = Last(c)
  OBVIOUS
<1>2. g \in Seq(Seq(T)) /\ l \in Seq(T) /\ c = Append(g, l)
  BY <1>1, Ends
<1>3. \A e \in Seq(T) : f \o Append(g, e) = Append(f \o g, e)
  BY <1>2, JoinAppend
<1>4. PICK h : h = f \o g /\ h \in Seq(Seq(T))
  <2>1. f \o g \in Seq(Seq(T))
    BY <1>2, ConcatProperties
  <2> QED
    BY <2>1
<1>5. f \o c = Append(h, l)
  BY <1>2, <1>3, <1>4
<1>6. Front(f \o c) = h /\ Last(f \o c) = l
  <2>1. Front(Append(h, l)) = h /\ Last(Append(h, l)) = l
    BY <1>2, <1>4, EndsOfAppend
  <2> QED
    BY <1>5, <2>1
<1>7. CASE b = LF
  <2>1. f \o Append(c, <<>>) = Append(f \o c, <<>>)
    OBVIOUS
  <2> QED
    BY <1>7, <2>1 DEF CutStep
<1>8. CASE b # LF
  <2>1. Append(l, b) \in Seq(T)
    BY <1>2
  <2>2. Append(h, Append(l, b)) = f \o Append(g, Append(l, b))
    BY <1>3, <1>4, <2>1
  <2> QED
    BY <1>1, <1>6, <1>8, <2>2 DEF CutStep
<1> QED
  BY <1>7, <1>8

(* Cut in two writes, the second of which begins with the unfinished line  *)
(* of the first, a text has the lines of the whole.                        *)
LEMMA CutJoin ==
    ASSUME NEW S, NEW t \in Seq(S)
    PROVE  \A u \in Seq(S) :
              CutAtLF(t \o u) = Front(CutAtLF(t)) \o CutAtLF(Last(CutAtLF(t)) \o u)
<1>1. PICK f, l : f = Front(CutAtLF(t)) /\ l = Last(CutAtLF(t))
  OBVIOUS
<1>2. /\ f \in Seq(Lines(S)) /\ l \in Lines(S) /\ CutAtLF(t) = f \o <<l>>
  BY <1>1, CutType, Ends
<1>3. f \in Seq(Seq(S)) /\ l \in Seq(S)
  <2>1. Lines(S) \subseteq Seq(S)
    BY DEF Lines
  <2> QED
    BY <1>2, <2>1
<1> DEFINE G == {u \in Seq(S) : CutAtLF(t \o u) = f \o CutAtLF(l \o u)}
<1>4. <<>> \in G
  <2>1. t \o <<>> = t /\ l \o <<>> = l /\ <<>> \in Seq(S)
    BY <1>3
  <2>2. CutAtLF(l) = <<l>>
    BY <1>2, CutOfLine
  <2> QED
    BY <1>2, <2>1, <2>2
<1>5. ASSUME NEW u \in G, NEW b \in S PROVE Append(u, b) \in G
  <2>1. u \in Seq(S) /\ Append(u, b) \in Seq(S) /\ CutAtLF(t \o u) = f \o CutAtLF(l \o u)
    OBVIOUS
  <2> HIDE DEF G
  <2>2. PICK tu, lu : tu = t \o u /\ lu = l \o u
    OBVIOUS
  <2>3. tu \in Seq(S) /\ lu \in Seq(S)
    BY <1>3, <2>1, <2>2
  <2>4. t \o Append(u, b) = Append(tu, b) /\ l \o Append(u, b) = Append(lu, b)
    <3>1. t \o Append(u, b) = Append(t \o u, b)
      BY <2>1, JoinAppend
    <3>2. l \o Append(u, b) = Append(l \o u, b)
      BY <1>3, <2>1, JoinAppend
    <3> QED
      BY <2>2, <3>1, <3>2, Zenon
  <2>5. PICK c : c = CutAtLF(lu)
    OBVIOUS
  <2>6. c \in Seq(Seq(S)) /\ c # <<>>
    <3>1. c \in Seq(Lines(S)) /\ c # <<>>
      BY <2>3, <2>5, CutType
    <3>2. Lines(S) \subseteq Seq(S)
      BY DEF Lines
    <3> QED
      BY <3>1, <3>2
  <2>7. CutAtLF(Append(tu, b)) = CutStep(f \o c, b)
    BY <2>1, <2>2, <2>3, <2>5, CutMore
  <2>8. CutAtLF(Append(lu, b)) = CutStep(c, b)
    BY <2>3, <2>5, CutMore
  <2>9. CutStep(f \o c, b) = f \o CutStep(c, b)
    BY <1>3, <2>6, CutStepJoin
  <2> QED
    BY <2>1, <2>4, <2>7, <2>8, <2>9 DEF G
<1>6. G = Seq(S)
  <2>1. G \in SUBSET Seq(S) /\ \A u \in G : \A b \in S : Append(u, b) \in G
    BY <1>5
  <2> HIDE DEF G
  <2> QED
    BY <1>4, <2>1, SeqInduction
<1> QED
  BY <1>1, <1>6

-----------------------------------------------------------------------------
(* Lines that are kept.                                                    *)

KeptStep(shownLines, line) == IF Kept(line) THEN Append(shownLines, line) ELSE shownLines

(* k holds what is kept of the first lines, n of them.                     *)
Keeps(k, lines, n) == k = [i \in 0..n |-> IF i = 0 THEN <<>> ELSE KeptStep(k[i - 1], lines[i])]

LEMMA KeepsExist ==
    ASSUME NEW lines
    PROVE  \A n \in Nat : \E k : Keeps(k, lines, n)
<1> DEFINE Without == {n \in Nat : ~\E k : Keeps(k, lines, n)}
<1> SUFFICES ASSUME Without # {} PROVE FALSE
  OBVIOUS
<1>1. PICK m \in Without : \A n \in Without : m <= n
  <2>1. Without \in SUBSET Nat
    OBVIOUS
  <2> HIDE DEF Without
  <2> QED
    BY <2>1, LeastNat
<1>2. m \in Nat /\ ~\E k : Keeps(k, lines, m)
  OBVIOUS
<1>3. PICK below : m # 0 => Keeps(below, lines, m - 1)
  <2>1. CASE m # 0
    <3>1. m - 1 \in Nat /\ m - 1 \notin Without
      BY <1>1, <1>2, <2>1
    <3> QED
      BY <3>1
  <2> QED
    BY <2>1
<1> DEFINE k == [i \in 0..m |-> IF i = 0 THEN <<>> ELSE KeptStep(below[i - 1], lines[i])]
<1>4. ASSUME NEW i \in 0..m, i # 0 PROVE k[i - 1] = below[i - 1]
  <2>1. i - 1 \in 0..m /\ i - 1 \in 0..(m - 1) /\ m # 0
    BY <1>2, <1>4
  <2>2. below[i - 1] = IF i - 1 = 0 THEN <<>> ELSE KeptStep(below[i - 1 - 1], lines[i - 1])
    BY <1>3, <2>1 DEF Keeps
  <2>3. k[i - 1] = IF i - 1 = 0 THEN <<>> ELSE KeptStep(below[i - 1 - 1], lines[i - 1])
    BY <2>1
  <2> QED
    BY <2>2, <2>3
<1>5. k = [i \in 0..m |-> IF i = 0 THEN <<>> ELSE KeptStep(k[i - 1], lines[i])]
  <2>1. \A i \in 0..m : k[i] = IF i = 0 THEN <<>> ELSE KeptStep(k[i - 1], lines[i])
    BY <1>4
  <2>2. k = [i \in 0..m |-> k[i]]
    OBVIOUS
  <2> HIDE DEF k
  <2> QED
    BY <2>1, <2>2
<1>6. Keeps(k, lines, m)
  <2> HIDE DEF k
  <2> QED
    BY <1>5, Zenon DEF Keeps
<1> QED
  BY <1>2, <1>6

LEMMA KeptBy ==
    ASSUME NEW lines, Len(lines) \in Nat
    PROVE  \E k : Keeps(k, lines, Len(lines)) /\ KeptOf(lines) = k[Len(lines)]
<1> DEFINE Body(k) == [n \in 0..Len(lines) |->
                          IF n = 0 THEN <<>>
                          ELSE IF Kept(lines[n]) THEN Append(k[n - 1], lines[n]) ELSE k[n - 1]]
<1>1. PICK d : Keeps(d, lines, Len(lines))
  BY KeepsExist
<1>2. \A k : Keeps(k, lines, Len(lines)) <=> k = Body(k)
  BY DEF Keeps, KeptStep
<1> DEFINE f == CHOOSE k : k = Body(k)
<1>3. f = Body(f)
  <2>1. d = Body(d)
    BY <1>1, <1>2
  <2> HIDE DEF Body
  <2> QED
    BY <2>1, Zenon
<1>4. KeptOf(lines) = f[Len(lines)]
  BY DEF KeptOf
<1>5. Keeps(f, lines, Len(lines))
  <2> HIDE DEF Body, f
  <2> QED
    BY <1>2, <1>3
<1> HIDE DEF f
<1> QED
  BY <1>4, <1>5

LEMMA KeptMore ==
    ASSUME NEW T, NEW lines \in Seq(T), NEW line \in T
    PROVE  KeptOf(Append(lines, line)) = KeptStep(KeptOf(lines), line)
<1>1. PICK more : more = Append(lines, line)
  OBVIOUS
<1>2. PICK n \in Nat : n = Len(lines)
  OBVIOUS
<1>3. /\ Len(more) = n + 1 /\ more[n + 1] = line
      /\ \A i \in 1..n : more[i] = lines[i]
  BY <1>1, <1>2
<1>4. PICK c : Keeps(c, lines, n) /\ KeptOf(lines) = c[n]
  BY <1>2, KeptBy
<1>5. PICK d : Keeps(d, more, n + 1) /\ KeptOf(more) = d[n + 1]
  BY <1>3, KeptBy
<1> DEFINE Bad == {k \in 0..n : d[k] # c[k]}
<1>6. Bad = {}
  <2> SUFFICES ASSUME Bad # {} PROVE FALSE
    OBVIOUS
  <2>1. Bad \in SUBSET Nat
    OBVIOUS
  <2>2. PICK k \in Bad : \A j \in Bad : k <= j
    <3> HIDE DEF Bad
    <3> QED
      BY <2>1, LeastNat
  <2>3. k \in 0..n /\ k \in 0..(n + 1) /\ d[k] # c[k]
    OBVIOUS
  <2>4. /\ c[k] = IF k = 0 THEN <<>> ELSE KeptStep(c[k - 1], lines[k])
        /\ d[k] = IF k = 0 THEN <<>> ELSE KeptStep(d[k - 1], more[k])
    BY <1>4, <1>5, <2>3 DEF Keeps
  <2>5. k # 0
    BY <2>3, <2>4
  <2>6. k - 1 \in 0..n /\ k - 1 \notin Bad /\ k \in 1..n
    BY <2>2, <2>3, <2>5
  <2>7. d[k - 1] = c[k - 1] /\ more[k] = lines[k]
    BY <1>3, <2>6
  <2> QED
    BY <2>3, <2>4, <2>5, <2>7
<1>7. d[n] = c[n]
  BY <1>6
<1>8. d[n + 1] = KeptStep(d[n], more[n + 1])
  <2>1. n + 1 \in 0..(n + 1) /\ n + 1 # 0 /\ (n + 1) - 1 = n
    OBVIOUS
  <2>2. d[n + 1] = KeptStep(d[(n + 1) - 1], more[n + 1])
    BY <1>5, <2>1 DEF Keeps
  <2> QED
    BY <2>1, <2>2
<1> QED
  BY <1>1, <1>3, <1>4, <1>5, <1>7, <1>8

LEMMA KeptOfNothing == KeptOf(<<>>) = <<>>
<1>1. Len(<<>>) = 0
  OBVIOUS
<1>2. PICK k : Keeps(k, <<>>, 0) /\ KeptOf(<<>>) = k[0]
  BY <1>1, KeptBy
<1>3. k[0] = <<>>
  BY <1>2 DEF Keeps
<1> QED
  BY <1>2, <1>3

LEMMA KeptType ==
    ASSUME NEW T
    PROVE  \A ls \in Seq(T) : KeptOf(ls) \in Seq(T)
<1> DEFINE G == {ls \in Seq(T) : KeptOf(ls) \in Seq(T)}
<1>1. <<>> \in G
  <2>1. <<>> \in Seq(T)
    OBVIOUS
  <2> QED
    BY <2>1, KeptOfNothing
<1>2. ASSUME NEW ls \in G, NEW l \in T PROVE Append(ls, l) \in G
  <2>1. ls \in Seq(T) /\ Append(ls, l) \in Seq(T) /\ KeptOf(ls) \in Seq(T)
    OBVIOUS
  <2>2. KeptOf(Append(ls, l)) = KeptStep(KeptOf(ls), l)
    BY <2>1, KeptMore
  <2>3. KeptStep(KeptOf(ls), l) \in Seq(T)
    BY <2>1, AppendProperties DEF KeptStep
  <2> QED
    BY <2>1, <2>2, <2>3
<1>3. G = Seq(T)
  <2>1. G \in SUBSET Seq(T) /\ \A ls \in G : \A l \in T : Append(ls, l) \in G
    BY <1>2
  <2> HIDE DEF G
  <2> QED
    BY <1>1, <2>1, SeqInduction
<1> QED
  BY <1>3

(* What is kept of joined lines.                                           *)
LEMMA KeptJoin ==
    ASSUME NEW T, NEW a \in Seq(T)
    PROVE  \A b \in Seq(T) : KeptOf(a \o b) = KeptOf(a) \o KeptOf(b)
<1> DEFINE G == {b \in Seq(T) : KeptOf(a \o b) = KeptOf(a) \o KeptOf(b)}
<1>1. <<>> \in G
  <2>1. a \o <<>> = a /\ <<>> \in Seq(T)
    OBVIOUS
  <2>2. KeptOf(a) \o <<>> = KeptOf(a)
    BY KeptType, ConcatEmptySeq
  <2> QED
    BY <2>1, <2>2, KeptOfNothing
<1>2. ASSUME NEW b \in G, NEW l \in T PROVE Append(b, l) \in G
  <2>1. b \in Seq(T) /\ Append(b, l) \in Seq(T) /\ KeptOf(a \o b) = KeptOf(a) \o KeptOf(b)
    OBVIOUS
  <2> HIDE DEF G
  <2>2. PICK ab, ka, kb : ab = a \o b /\ ka = KeptOf(a) /\ kb = KeptOf(b)
    OBVIOUS
  <2>3. ab \in Seq(T) /\ ka \in Seq(T) /\ kb \in Seq(T)
    <3>1. a \o b \in Seq(T)
      BY <2>1, ConcatProperties
    <3> QED
      BY <2>1, <2>2, <3>1, KeptType
  <2>4. a \o Append(b, l) = Append(ab, l)
    BY <2>1, <2>2, JoinAppend
  <2>5. KeptOf(Append(ab, l)) = KeptStep(ka \o kb, l)
    BY <2>1, <2>2, <2>3, KeptMore
  <2>6. KeptOf(Append(b, l)) = KeptStep(kb, l)
    BY <2>1, <2>2, KeptMore
  <2>7. KeptStep(ka \o kb, l) = ka \o KeptStep(kb, l)
    <3>1. ka \o Append(kb, l) = Append(ka \o kb, l)
      BY <2>3, JoinAppend
    <3> QED
      BY <3>1 DEF KeptStep
  <2> QED
    BY <2>1, <2>2, <2>4, <2>5, <2>6, <2>7 DEF G
<1>3. G = Seq(T)
  <2>1. G \in SUBSET Seq(T) /\ \A b \in G : \A l \in T : Append(b, l) \in G
    BY <1>2
  <2> HIDE DEF G
  <2> QED
    BY <1>1, <2>1, SeqInduction
<1> QED
  BY <1>3

(* Lines none of which is kept.                                            *)
LEMMA NothingKept ==
    ASSUME NEW T, \A l \in T : ~Kept(l)
    PROVE  \A ls \in Seq(T) : KeptOf(ls) = <<>>
<1> DEFINE G == {ls \in Seq(T) : KeptOf(ls) = <<>>}
<1>1. <<>> \in G
  <2>1. <<>> \in Seq(T)
    OBVIOUS
  <2> QED
    BY <2>1, KeptOfNothing
<1>2. ASSUME NEW ls \in G, NEW l \in T PROVE Append(ls, l) \in G
  <2>1. ls \in Seq(T) /\ Append(ls, l) \in Seq(T) /\ KeptOf(ls) = <<>>
    OBVIOUS
  <2>2. KeptOf(Append(ls, l)) = KeptStep(KeptOf(ls), l)
    BY <2>1, KeptMore
  <2> QED
    BY <2>1, <2>2 DEF KeptStep
<1>3. G = Seq(T)
  <2>1. G \in SUBSET Seq(T) /\ \A ls \in G : \A l \in T : Append(ls, l) \in G
    BY <1>2
  <2> HIDE DEF G
  <2> QED
    BY <1>1, <2>1, SeqInduction
<1> QED
  BY <1>3

(* A redrawn line is the end of the line.                                  *)
LEMMA FoldType ==
    ASSUME NEW S, NEW line \in Seq(S)
    PROVE  Fold(line) \in Seq(S)
<1> DEFINE CRs == {i \in 1..Len(line) : line[i] = CR}
           at  == SelectLastInSeq(line, LAMBDA byte : byte = CR)
<1>1. at = IF CRs # {} THEN Max(CRs) ELSE 0
  BY DEF SelectLastInSeq
<1>2. Len(line) \in Nat /\ CRs \in SUBSET (1..Len(line))
  OBVIOUS
<1>3. at \in Nat
  <2>1. CRs # {} => Max(CRs) \in CRs
    <3> HIDE DEF CRs
    <3> QED
      BY <1>2, EndsOf
  <2>2. PICK k : k = Max(CRs)
    OBVIOUS
  <2>3. CRs # {} => k \in Nat
    <3>1. \A x \in CRs : x \in Nat
      OBVIOUS
    <3> HIDE DEF CRs
    <3>2. CRs # {} => k \in CRs
      BY <2>1, <2>2, Zenon
    <3> QED
      BY <3>1, <3>2, Zenon
  <2>4. at = IF CRs # {} THEN k ELSE 0
    <3> HIDE DEF CRs, at
    <3> QED
      BY <1>1, <2>2, Zenon
  <2> HIDE DEF at, CRs
  <2> QED
    BY <2>3, <2>4
<1>4. Fold(line) = SubSeq(line, 1 + at, Len(line))
  BY DEF Fold
<1> HIDE DEF at
<1>5. \A i \in (1 + at)..Len(line) : line[i] \in S
  BY <1>2, <1>3
<1> QED
  BY <1>2, <1>3, <1>4, <1>5, SubSeqProperties

LEMMA FoldOfNothing == Fold(<<>>) = <<>>
<1> DEFINE at == SelectLastInSeq(<<>>, LAMBDA byte : byte = CR)
<1>1. at = 0
  BY DEF SelectLastInSeq
<1>2. Fold(<<>>) = SubSeq(<<>>, 1 + at, Len(<<>>))
  BY DEF Fold
<1> HIDE DEF at
<1> QED
  BY <1>1, <1>2, SubSeqEmpty

LEMMA BlankIsNotKept == ~Kept(<<>>) /\ \A line : IsBlank(line) => ~Kept(line)
<1>1. IsBlank(<<>>)
  <2>1. DOMAIN <<>> = {}
    OBVIOUS
  <2> QED
    BY <2>1 DEF IsBlank, ToSet
<1> QED
  BY <1>1 DEF Kept

Folded(lines) == [i \in DOMAIN lines |-> Fold(lines[i])]

LEMMA FoldedProperties ==
    ASSUME NEW S, NEW lines \in Seq(Seq(S))
    PROVE  /\ Folded(lines) \in Seq(Seq(S)) /\ Len(Folded(lines)) = Len(lines)
           /\ \A i \in 1..Len(lines) : Folded(lines)[i] = Fold(lines[i])
<1>1. DOMAIN lines = 1..Len(lines) /\ Len(lines) \in Nat
      /\ \A i \in 1..Len(lines) : lines[i] \in Seq(S)
  OBVIOUS
<1>2. \A i \in 1..Len(lines) : Fold(lines[i]) \in Seq(S)
  BY <1>1, FoldType
<1>3. Folded(lines) = [i \in 1..Len(lines) |-> Fold(lines[i])]
  BY <1>1 DEF Folded
<1> QED
  BY <1>1, <1>2, <1>3

(* What is emitted of joined lines.                                        *)
LEMMA EmitJoin ==
    ASSUME NEW S, NEW a \in Seq(Seq(S)), NEW b \in Seq(Seq(S))
    PROVE  /\ Emit(a) \in Seq(Seq(S))
           /\ Emit(a \o b) = Emit(a) \o Emit(b)
<1>1. PICK fa, fb, ab : fa = Folded(a) /\ fb = Folded(b) /\ ab = a \o b
  OBVIOUS
<1>2. /\ fa \in Seq(Seq(S)) /\ Len(fa) = Len(a) /\ \A i \in 1..Len(a) : fa[i] = Fold(a[i])
      /\ fb \in Seq(Seq(S)) /\ Len(fb) = Len(b) /\ \A i \in 1..Len(b) : fb[i] = Fold(b[i])
  BY <1>1, FoldedProperties
<1>3. /\ ab \in Seq(Seq(S)) /\ Len(ab) = Len(a) + Len(b)
      /\ \A i \in 1..(Len(a) + Len(b)) : ab[i] = IF i <= Len(a) THEN a[i] ELSE b[i - Len(a)]
  BY <1>1, ConcatProperties
<1>4. PICK g, h : g = Folded(ab) /\ h = fa \o fb
  OBVIOUS
<1>5. /\ g \in Seq(Seq(S)) /\ Len(g) = Len(ab) /\ \A i \in 1..Len(ab) : g[i] = Fold(ab[i])
  BY <1>3, <1>4, FoldedProperties
<1>6. /\ h \in Seq(Seq(S)) /\ Len(h) = Len(fa) + Len(fb)
      /\ \A i \in 1..(Len(fa) + Len(fb)) : h[i] = IF i <= Len(fa) THEN fa[i] ELSE fb[i - Len(fa)]
  BY <1>2, <1>4, ConcatProperties
<1>7. PICK m, n \in Nat : m = Len(a) /\ n = Len(b)
  OBVIOUS
<1>8. ASSUME NEW i \in 1..(m + n) PROVE g[i] = h[i]
  <2>1. CASE i <= m
    <3>1. i \in 1..m
      BY <2>1
    <3>2. ab[i] = a[i] /\ h[i] = fa[i]
      BY <1>2, <1>3, <1>6, <1>7, <2>1
    <3> QED
      BY <1>2, <1>3, <1>5, <1>7, <3>1, <3>2
  <2>2. CASE ~(i <= m)
    <3>1. i - m \in 1..n
      BY <2>2
    <3>2. ab[i] = b[i - m] /\ h[i] = fb[i - m]
      BY <1>2, <1>3, <1>6, <1>7, <2>2
    <3> QED
      BY <1>2, <1>3, <1>5, <1>7, <3>1, <3>2
  <2> QED
    BY <2>1, <2>2
<1>9. g = h
  <2>1. Len(g) = m + n /\ Len(h) = m + n
    BY <1>2, <1>3, <1>5, <1>6, <1>7
  <2> QED
    BY <1>5, <1>6, <1>8, <2>1, SameSeq
<1>10. Emit(a) = KeptOf(fa) /\ Emit(b) = KeptOf(fb) /\ Emit(a \o b) = KeptOf(g)
  BY <1>1, <1>4 DEF Emit, Folded
<1>11. KeptOf(fa \o fb) = KeptOf(fa) \o KeptOf(fb)
  BY <1>2, KeptJoin
<1>12. KeptOf(fa) \in Seq(Seq(S))
  BY <1>2, KeptType
<1> QED
  BY <1>4, <1>9, <1>10, <1>11, <1>12

(* Lines after the last that is kept add nothing.                          *)
LEMMA KeptUpTo ==
    ASSUME NEW T, NEW lines \in Seq(T), NEW m \in 0..Len(lines),
           \A i \in 1..Len(lines) : m < i => ~Kept(lines[i])
    PROVE  KeptOf(SubSeq(lines, 1, m)) = KeptOf(lines)
<1>1. PICK n \in Nat : n = Len(lines)
  OBVIOUS
<1>2. PICK a, b : a = SubSeq(lines, 1, m) /\ b = SubSeq(lines, m + 1, n)
  OBVIOUS
<1> DEFINE Dropped == {l \in T : ~Kept(l)}
<1>3. m \in 0..n /\ m \in Nat
  BY <1>1
<1>4. \A i \in (m + 1)..n : lines[i] \in Dropped
  BY <1>1, <1>3
<1>5. b \in Seq(Dropped) /\ b \in Seq(T)
  <2>1. m + 1 \in Int /\ n \in Int
    BY <1>3
  <2>2. \A i \in (m + 1)..n : lines[i] \in T
    BY <1>4
  <2> HIDE DEF Dropped
  <2> QED
    BY <1>2, <1>4, <2>1, <2>2, SubSeqProperties
<1>6. KeptOf(b) = <<>>
  <2>1. \A l \in Dropped : ~Kept(l)
    OBVIOUS
  <2> HIDE DEF Dropped
  <2> QED
    BY <1>5, <2>1, NothingKept
<1>7. a \o b = lines
  <2>1. SubSeq(lines, 1, m) \o SubSeq(lines, m + 1, n) = SubSeq(lines, 1, n)
    <3>1. 1 \in 1..(Len(lines) + 1) /\ m \in (1 - 1)..Len(lines) /\ n \in m..Len(lines)
      BY <1>1, <1>3
    <3> QED
      BY <3>1, ConcatAdjacentSubSeq
  <2>2. SubSeq(lines, 1, n) = lines
    BY <1>1, SubSeqFull
  <2> QED
    BY <1>2, <2>1, <2>2
<1>8. a \in Seq(T)
  <2>1. \A i \in 1..m : lines[i] \in T
    BY <1>1, <1>3
  <2> QED
    BY <1>2, <1>3, <2>1, SubSeqProperties
<1>9. KeptOf(lines) = KeptOf(a) \o KeptOf(b)
  BY <1>5, <1>7, <1>8, KeptJoin
<1>10. KeptOf(a) \in Seq(T)
  BY <1>8, KeptType
<1> QED
  BY <1>2, <1>6, <1>9, <1>10, ConcatEmptySeq

LEMMA NothingEmitted == Emit(<< <<>> >>) = <<>>
<1>1. PICK ls : ls = << <<>> >>
  OBVIOUS
<1>2. DOMAIN ls = {1} /\ ls[1] = <<>>
  BY <1>1
<1>3. Folded(ls) = [i \in {1} |-> <<>>]
  BY <1>2, FoldOfNothing DEF Folded
<1>4. Folded(ls) = << <<>> >>
  BY <1>3
<1>5. << <<>> >> \in Seq({<<>>})
  OBVIOUS
<1>6. KeptOf(Folded(ls)) = <<>>
  <2>1. \A l \in {<<>>} : ~Kept(l)
    BY BlankIsNotKept
  <2>2. \A x \in Seq({<<>>}) : KeptOf(x) = <<>>
    BY <2>1, NothingKept
  <2> QED
    BY <1>4, <1>5, <2>2
<1> QED
  BY <1>1, <1>6 DEF Emit, Folded

(* What the block writer shows of the lines it has cut, but for those that *)
(* are not kept, is what emit shows of them.                               *)
LEMMA BlockOfLines ==
    ASSUME NEW T, NEW lines \in Seq(T)
    PROVE  LET m == SelectLastInSeq(lines, LAMBDA line : ~IsBlank(line))
           IN  KeptOf(SubSeq(lines, 1, m)) = KeptOf(lines)
<1> DEFINE Full == {i \in 1..Len(lines) : ~IsBlank(lines[i])}
           m    == SelectLastInSeq(lines, LAMBDA line : ~IsBlank(line))
<1>1. m = IF Full # {} THEN Max(Full) ELSE 0
  BY DEF SelectLastInSeq
<1>2. Len(lines) \in Nat /\ Full \in SUBSET (1..Len(lines))
  OBVIOUS
<1>3. PICK k : k = Max(Full)
  OBVIOUS
<1>4. Full # {} => k \in Full /\ \A i \in Full : i <= k
  <2>1. Full # {} => Max(Full) \in Full /\ \A i \in Full : i <= Max(Full)
    <3> HIDE DEF Full
    <3> QED
      BY <1>2, EndsOf
  <2> HIDE DEF Full
  <2> QED
    BY <1>3, <2>1, Zenon
<1>5. m = IF Full # {} THEN k ELSE 0
  <2> HIDE DEF m, Full
  <2> QED
    BY <1>1, <1>3, Zenon
<1>6. m \in 0..Len(lines) /\ \A i \in Full : i <= m
  <2>1. \A x \in Full : x \in 1..Len(lines)
    OBVIOUS
  <2> HIDE DEF m, Full
  <2>2. CASE Full = {}
    <3>1. m = 0
      BY <1>5, <2>2
    <3> QED
      BY <1>2, <2>2, <3>1
  <2>3. CASE Full # {}
    <3>1. m = k /\ k \in Full /\ \A i \in Full : i <= k
      BY <1>4, <1>5, <2>3
    <3>2. k \in 1..Len(lines)
      BY <2>1, <3>1
    <3> QED
      BY <1>2, <3>1, <3>2
  <2> QED
    BY <2>2, <2>3
<1>7. ASSUME NEW i \in 1..Len(lines), m < i PROVE ~Kept(lines[i])
  <2>1. i \notin Full
    <3> HIDE DEF m, Full
    <3> QED
      BY <1>2, <1>6, <1>7
  <2>2. IsBlank(lines[i])
    BY <2>1
  <2> QED
    BY <2>2, BlankIsNotKept
<1> HIDE DEF m
<1>8. KeptOf(SubSeq(lines, 1, m)) = KeptOf(lines)
  BY <1>6, <1>7, KeptUpTo
<1> QED
  BY <1>8 DEF m

(* Without a line that ends in CR, the block writer shows what emit shows  *)
(* of all lines.                                                           *)
LEMMA BlockShowsLines ==
    ASSUME NEW S, NEW text \in Seq(S),
           \A i \in DOMAIN CutAtLF(text) :
              LET line == CutAtLF(text)[i] IN ~(line # <<>> /\ Last(line) = CR)
    PROVE  KeptOf(NormalizeStreamLines(text)) = Emit(CutAtLF(text))
<1>1. PICK cut : cut = CutAtLF(text)
  OBVIOUS
<1>2. cut \in Seq(Seq(S)) /\ cut # <<>>
  <2>1. Lines(S) \subseteq Seq(S)
    BY DEF Lines
  <2>2. cut \in Seq(Lines(S)) /\ cut # <<>>
    BY <1>1, CutType
  <2> QED
    BY <2>1, <2>2
<1>3. \A i \in DOMAIN cut : cut[i] = <<>> \/ Last(cut[i]) # CR
  BY <1>1
<1>4. PICK lines : lines = IF Last(cut) = <<>> THEN Front(cut) ELSE cut
  OBVIOUS
<1>5. lines \in Seq(Seq(S))
  BY <1>2, <1>4, Ends
<1>6. DOMAIN lines \subseteq DOMAIN cut /\ \A i \in DOMAIN lines : lines[i] = cut[i]
  <2>1. CASE Last(cut) = <<>>
    <3>1. cut = Append(lines, Last(cut)) /\ Last(cut) \in Seq(S)
      BY <1>2, <1>4, <2>1, Ends
    <3> QED
      BY <1>5, <3>1
  <2>2. CASE Last(cut) # <<>>
    BY <1>4, <2>2
  <2> QED
    BY <2>1, <2>2
<1>7. Emit(cut) = Emit(lines)
  <2>1. CASE Last(cut) = <<>>
    <3>1. cut = lines \o << <<>> >>
      BY <1>2, <1>4, <2>1, Ends
    <3>2. << <<>> >> \in Seq(Seq(S))
      OBVIOUS
    <3>3. Emit(lines \o << <<>> >>) = Emit(lines) \o Emit(<< <<>> >>) /\ Emit(lines) \in Seq(Seq(S))
      BY <1>5, <3>2, EmitJoin
    <3>4. Emit(lines) \o <<>> = Emit(lines)
      BY <3>3, ConcatEmptySeq
    <3> QED
      BY <3>1, <3>3, <3>4, NothingEmitted
  <2>2. CASE Last(cut) # <<>>
    BY <1>4, <2>2
  <2> QED
    BY <2>1, <2>2
<1> DEFINE DropCR(line) == IF line # <<>> /\ Last(line) = CR THEN Front(line) ELSE line
           folded == [i \in DOMAIN lines |-> Fold(DropCR(lines[i]))]
           m == SelectLastInSeq(folded, LAMBDA line : ~IsBlank(line))
<1>8. folded = Folded(lines)
  <2>1. \A i \in DOMAIN lines : DropCR(lines[i]) = lines[i]
    BY <1>3, <1>6
  <2> HIDE DEF DropCR
  <2> QED
    BY <2>1 DEF Folded
<1>9. NormalizeStreamLines(text) = SubSeq(folded, 1, m)
  BY <1>1, <1>4, Zenon DEF NormalizeStreamLines
<1>10. Folded(lines) \in Seq(Seq(S))
  BY <1>5, FoldedProperties
<1>11. KeptOf(SubSeq(folded, 1, m)) = KeptOf(folded)
  <2>1. folded \in Seq(Seq(S))
    <3> HIDE DEF folded
    <3> QED
      BY <1>8, <1>10
  <2> HIDE DEF folded
  <2> QED
    BY <2>1, BlockOfLines
<1>12. KeptOf(folded) = Emit(lines)
  <2> HIDE DEF folded
  <2> QED
    BY <1>8 DEF Emit, Folded
<1> HIDE DEF folded, m
<1> QED
  BY <1>1, <1>7, <1>9, <1>11, <1>12

-----------------------------------------------------------------------------
(* The two writers.                                                        *)

(* The lines of the first bytes of an output, w of them.                   *)
LinesAt(text, w) == CutAtLF(SubSeq(text, 1, w))

LEMMA LinesAtType ==
    ASSUME NEW S, NEW text \in Seq(S), NEW w \in 0..Len(text)
    PROVE  /\ SubSeq(text, 1, w) \in Seq(S)
           /\ LinesAt(text, w) \in Seq(Seq(S)) /\ LinesAt(text, w) # <<>>
           /\ Front(LinesAt(text, w)) \in Seq(Seq(S)) /\ Last(LinesAt(text, w)) \in Seq(S)
<1>1. PICK t : t = SubSeq(text, 1, w)
  OBVIOUS
<1>2. t \in Seq(S)
  <2>1. w \in Int /\ \A i \in 1..w : text[i] \in S
    OBVIOUS
  <2> QED
    BY <1>1, <2>1, SubSeqProperties
<1>3. CutAtLF(t) \in Seq(Seq(S)) /\ CutAtLF(t) # <<>>
  <2>1. Lines(S) \subseteq Seq(S)
    BY DEF Lines
  <2>2. CutAtLF(t) \in Seq(Lines(S)) /\ CutAtLF(t) # <<>>
    BY <1>2, CutType
  <2> QED
    BY <2>1, <2>2
<1>4. Front(CutAtLF(t)) \in Seq(Seq(S)) /\ Last(CutAtLF(t)) \in Seq(S)
  BY <1>3, Ends
<1> QED
  BY <1>1, <1>2, <1>3, <1>4 DEF LinesAt

(* What a write from byte w to byte v adds: it completes lines, and leaves *)
(* the unfinished one of what is written by then.                          *)
LEMMA WriteAdds ==
    ASSUME NEW S, NEW text \in Seq(S), NEW w \in 0..Len(text), NEW v \in w..Len(text)
    PROVE  LET more == CutAtLF(Last(LinesAt(text, w)) \o SubSeq(text, w + 1, v))
           IN  /\ Last(more) = Last(LinesAt(text, v))
               /\ Emit(Front(more)) \in Seq(Seq(S))
               /\ Emit(Front(LinesAt(text, w))) \in Seq(Seq(S))
               /\ Emit(Front(LinesAt(text, v))) = Emit(Front(LinesAt(text, w))) \o Emit(Front(more))
<1>1. PICK f, l, u : /\ f = Front(LinesAt(text, w)) /\ l = Last(LinesAt(text, w))
                     /\ u = SubSeq(text, w + 1, v)
  OBVIOUS
<1>2. f \in Seq(Seq(S)) /\ l \in Seq(S)
  BY <1>1, LinesAtType
<1>3. w \in Nat /\ v \in Nat /\ w <= v /\ v <= Len(text) /\ Len(text) \in Nat
  OBVIOUS
<1>4. u \in Seq(S)
  <2>1. w + 1 \in Int /\ v \in Int /\ \A i \in (w + 1)..v : text[i] \in S
    BY <1>3
  <2> QED
    BY <1>1, <2>1, SubSeqProperties
<1>5. SubSeq(text, 1, v) = SubSeq(text, 1, w) \o u
  <2>1. 1 \in 1..(Len(text) + 1) /\ w \in (1 - 1)..Len(text) /\ v \in w..Len(text)
    BY <1>3
  <2> QED
    BY <1>1, <2>1, ConcatAdjacentSubSeq
<1>6. PICK more : more = CutAtLF(l \o u)
  OBVIOUS
<1>7. LinesAt(text, v) = f \o more
  <2>1. SubSeq(text, 1, w) \in Seq(S)
    BY LinesAtType
  <2>2. CutAtLF(SubSeq(text, 1, w) \o u) = f \o more
    BY <1>1, <1>4, <1>6, <2>1, CutJoin DEF LinesAt
  <2> QED
    BY <1>5, <2>2 DEF LinesAt
<1>8. more \in Seq(Seq(S)) /\ more # <<>>
  <2>1. l \o u \in Seq(S)
    BY <1>2, <1>4, ConcatProperties
  <2>2. Lines(S) \subseteq Seq(S)
    BY DEF Lines
  <2>3. more \in Seq(Lines(S)) /\ more # <<>>
    BY <1>6, <2>1, CutType
  <2> QED
    BY <2>2, <2>3
<1>9. PICK fm, lm : fm = Front(more) /\ lm = Last(more)
  OBVIOUS
<1>10. fm \in Seq(Seq(S)) /\ lm \in Seq(S) /\ more = Append(fm, lm)
  BY <1>8, <1>9, Ends
<1>11. PICK ffm : ffm = f \o fm /\ ffm \in Seq(Seq(S))
  <2>1. f \o fm \in Seq(Seq(S))
    BY <1>2, <1>10, ConcatProperties
  <2> QED
    BY <2>1
<1>12. LinesAt(text, v) = Append(ffm, lm)
  <2>1. f \o Append(fm, lm) = Append(ffm, lm)
    <3>1. f \o Append(fm, lm) = Append(f \o fm, lm)
      <4>1. PICK R : R = Seq(S)
        OBVIOUS
      <4>2. f \in Seq(R) /\ fm \in Seq(R) /\ lm \in R
        BY <1>2, <1>10, <4>1
      <4> QED
        BY <4>2, JoinAppend
    <3> QED
      BY <1>11, <3>1, Zenon
  <2> QED
    BY <1>7, <1>10, <2>1
<1>13. Front(LinesAt(text, v)) = ffm /\ Last(LinesAt(text, v)) = lm
  <2>1. Front(Append(ffm, lm)) = ffm /\ Last(Append(ffm, lm)) = lm
    BY <1>10, <1>11, EndsOfAppend
  <2> QED
    BY <1>12, <2>1
<1>14. /\ Emit(f) \in Seq(Seq(S)) /\ Emit(fm) \in Seq(Seq(S))
       /\ Emit(f \o fm) = Emit(f) \o Emit(fm)
  BY <1>2, <1>10, EmitJoin
<1> QED
  BY <1>1, <1>6, <1>9, <1>11, <1>13, <1>14

(* The lines of the whole are emitted as the complete ones, and the rest.  *)
LEMMA FlushAdds ==
    ASSUME NEW S, NEW text \in Seq(S)
    PROVE  LET lines == LinesAt(text, Len(text))
           IN  /\ lines = CutAtLF(text)
               /\ Emit(<<Last(lines)>>) \in Seq(Seq(S))
               /\ Emit(Front(lines)) \in Seq(Seq(S))
               /\ Emit(CutAtLF(text)) = Emit(Front(lines)) \o Emit(<<Last(lines)>>)
<1>1. PICK lines : lines = LinesAt(text, Len(text))
  OBVIOUS
<1>2. lines = CutAtLF(text)
  BY <1>1, SubSeqFull DEF LinesAt
<1>3. lines \in Seq(Seq(S)) /\ lines # <<>>
  <2>1. Len(text) \in 0..Len(text)
    OBVIOUS
  <2> QED
    BY <1>1, <2>1, LinesAtType
<1>4. PICK f, x : f = Front(lines) /\ x = <<Last(lines)>>
  OBVIOUS
<1>5. f \in Seq(Seq(S)) /\ x \in Seq(Seq(S)) /\ lines = f \o x
  <2>1. Last(lines) \in Seq(S) /\ Front(lines) \in Seq(Seq(S)) /\ lines = Front(lines) \o <<Last(lines)>>
    BY <1>3, Ends
  <2> QED
    BY <1>4, <2>1
<1>6. /\ Emit(f) \in Seq(Seq(S)) /\ Emit(x) \in Seq(Seq(S))
      /\ Emit(f \o x) = Emit(f) \o Emit(x)
  BY <1>5, EmitJoin
<1> QED
  BY <1>1, <1>2, <1>4, <1>5, <1>6

(* A sequence is a prefix of what is joined to it.                         *)
LEMMA PrefixOfJoin ==
    ASSUME NEW T, NEW a \in Seq(T), NEW b \in Seq(T)
    PROVE  IsPrefix(a, a \o b) /\ IsPrefix(a, a)
<1>1. PICK c : c = a \o b
  OBVIOUS
<1>2. /\ c \in Seq(T) /\ Len(c) = Len(a) + Len(b)
      /\ \A i \in 1..Len(a) : c[i] = a[i]
  <2>1. \A i \in 1..(Len(a) + Len(b)) : c[i] = IF i <= Len(a) THEN a[i] ELSE b[i - Len(a)]
    BY <1>1, ConcatProperties
  <2>2. Len(a) \in Nat /\ Len(b) \in Nat
    OBVIOUS
  <2> QED
    BY <1>1, <2>1, <2>2, ConcatProperties
<1>3. Len(a) <= Len(c) /\ Len(a) \in Nat
  BY <1>2
<1>4. PICK d : d = SubSeq(c, 1, Len(a))
  OBVIOUS
<1>5. d \in Seq(T) /\ Len(d) = Len(a) /\ \A i \in 1..Len(a) : d[i] = c[i]
  BY <1>2, <1>3, <1>4, SubSeqProperties
<1>6. d = a
  BY <1>2, <1>5, SameSeq
<1>7. SubSeq(a, 1, Len(a)) = a
  BY SubSeqFull
<1> QED
  BY <1>1, <1>3, <1>4, <1>6, <1>7 DEF IsPrefix

(* A box is open once a line is shown, until the command has ended.        *)
Boxed == IF format = "textblock" /\ shown # <<>> THEN 1 ELSE 0

(* The lines shown are those that are complete, the one pending is the     *)
(* last of what is written; at the end all are shown.                      *)
StreamInv ==
    /\ output \in Outputs
    /\ written \in 0..Len(output)
    /\ flushed \in BOOLEAN
    /\ ~flushed => /\ pending = Last(LinesAt(output, written))
                   /\ shown = Emit(Front(LinesAt(output, written)))
    /\ flushed => shown = Emit(CutAtLF(output))
    /\ box = [opened |-> Boxed, closed |-> IF flushed THEN Boxed ELSE 0]

LEMMA OutputBytes ==
    ASSUME output \in Outputs
    PROVE  \E S : output \in Seq(S) /\ Len(output) \in Nat
<1>1. output \in Seq(ToSet(output))
  BY OutputAssumption
<1>2. PICK S : S = ToSet(output)
  OBVIOUS
<1>3. output \in Seq(S) /\ Len(output) \in Nat
  BY <1>1, <1>2
<1> QED
  BY <1>3

LEMMA StreamStarts == StreamInit => StreamInv
<1> SUFFICES ASSUME StreamInit PROVE StreamInv
  OBVIOUS
<1>1. output \in Outputs /\ written = 0 /\ pending = <<>> /\ shown = <<>> /\ ~flushed /\ flushed \in BOOLEAN
      /\ box = [opened |-> 0, closed |-> 0]
  BY DEF StreamInit
<1>2. PICK S : output \in Seq(S) /\ Len(output) \in Nat
  BY <1>1, OutputBytes
<1>3. SubSeq(output, 1, 0) = <<>>
  BY SubSeqEmpty
<1>4. LinesAt(output, 0) = << <<>> >>
  BY <1>3, CutOfNothing DEF LinesAt
<1>5. Front(<< <<>> >>) = <<>> /\ Last(<< <<>> >>) = <<>>
  <2>1. <<>> \in Seq({<<>>}) /\ <<>> \in {<<>>}
    OBVIOUS
  <2>2. Front(Append(<<>>, <<>>)) = <<>> /\ Last(Append(<<>>, <<>>)) = <<>>
    BY <2>1, EndsOfAppend
  <2>3. Append(<<>>, <<>>) = << <<>> >>
    OBVIOUS
  <2> QED
    BY <2>2, <2>3
<1>6. Emit(<<>>) = <<>>
  <2>1. PICK ls : ls = <<>>
    OBVIOUS
  <2>2. DOMAIN ls = {}
    BY <2>1
  <2>3. Folded(ls) = [i \in {} |-> Fold(ls[i])]
    BY <2>2 DEF Folded
  <2>4. Folded(ls) = <<>>
    BY <2>3
  <2> QED
    BY <2>1, <2>4, KeptOfNothing DEF Emit, Folded
<1>7. pending = Last(LinesAt(output, written)) /\ shown = Emit(Front(LinesAt(output, written)))
  BY <1>1, <1>4, <1>5, <1>6
<1>8. Boxed = 0
  BY <1>1 DEF Boxed
<1>9. written \in 0..Len(output)
  BY <1>1, <1>2
<1>10. box = [opened |-> Boxed, closed |-> IF flushed THEN Boxed ELSE 0]
  BY <1>1, <1>8
<1> QED
  BY <1>1, <1>7, <1>9, <1>10 DEF StreamInv

LEMMA WriteKeepsInv ==
    ASSUME StreamInv, NEW n \in 1..Len(output), Write(n)
    PROVE  StreamInv'
<1>1. /\ ~flushed /\ written + n <= Len(output) /\ written' = written + n
      /\ output' = output /\ format' = format /\ flushed' = flushed
  BY DEF Write
<1>2. /\ output \in Outputs /\ written \in 0..Len(output) /\ flushed \in BOOLEAN
      /\ pending = Last(LinesAt(output, written))
      /\ shown = Emit(Front(LinesAt(output, written)))
      /\ box = [opened |-> Boxed, closed |-> 0]
  BY <1>1 DEF StreamInv
<1>3. PICK S : output \in Seq(S) /\ Len(output) \in Nat
  BY <1>2, OutputBytes
<1>4. PICK v : v = written + n
  OBVIOUS
<1>5. v \in written..Len(output) /\ v \in 0..Len(output)
  BY <1>1, <1>2, <1>3, <1>4
<1>6. PICK more : more = CutAtLF(Last(LinesAt(output, written)) \o SubSeq(output, written + 1, v))
  OBVIOUS
<1>7. /\ Last(more) = Last(LinesAt(output, v))
      /\ Emit(Front(more)) \in Seq(Seq(S))
      /\ Emit(Front(LinesAt(output, written))) \in Seq(Seq(S))
      /\ Emit(Front(LinesAt(output, v)))
            = Emit(Front(LinesAt(output, written))) \o Emit(Front(more))
  BY <1>2, <1>3, <1>5, <1>6, WriteAdds
<1>8. PICK e : e = Emit(Front(more))
  OBVIOUS
<1>9. /\ shown' = shown \o e /\ pending' = Last(more)
      /\ box' = IF format = "textblock" /\ e # <<>> /\ box.opened = box.closed
                THEN [box EXCEPT !.opened = @ + 1] ELSE box
  <2>1. more = CutAtLF(pending \o SubSeq(output, written + 1, written + n))
    BY <1>2, <1>4, <1>6
  <2> QED
    BY <1>8, <2>1 DEF Write, Show
<1>10. shown \in Seq(Seq(S)) /\ e \in Seq(Seq(S))
  BY <1>2, <1>7, <1>8
<1>11. shown \o e = <<>> <=> shown = <<>> /\ e = <<>>
  BY <1>10, ConcatEqualIffEmpty
<1>12. box' = [opened |-> Boxed', closed |-> 0]
  <2>1. Boxed' = IF format = "textblock" /\ ~(shown = <<>> /\ e = <<>>) THEN 1 ELSE 0
    BY <1>1, <1>9, <1>11 DEF Boxed
  <2>2. box.opened = Boxed /\ box.closed = 0
    BY <1>2
  <2>3. CASE format = "textblock" /\ e # <<>> /\ shown = <<>>
    <3>1. Boxed = 0 /\ Boxed' = 1
      BY <2>1, <2>3 DEF Boxed
    <3>2. box' = [box EXCEPT !.opened = @ + 1]
      BY <1>9, <2>2, <2>3, <3>1
    <3> QED
      BY <1>2, <2>2, <3>1, <3>2
  <2>4. CASE ~(format = "textblock" /\ e # <<>> /\ shown = <<>>)
    <3>1. Boxed' = Boxed
      BY <2>1, <2>4 DEF Boxed
    <3>2. ~(format = "textblock" /\ e # <<>> /\ box.opened = box.closed)
      BY <2>2, <2>4 DEF Boxed
    <3>3. box' = box
      BY <1>9, <3>2
    <3> QED
      BY <1>2, <3>1, <3>3
  <2> QED
    BY <2>3, <2>4
<1>13. /\ output' \in Outputs /\ written' \in 0..Len(output') /\ flushed' \in BOOLEAN /\ ~flushed'
  BY <1>1, <1>2, <1>4, <1>5
<1>14. pending' = Last(LinesAt(output', written')) /\ shown' = Emit(Front(LinesAt(output', written')))
  BY <1>1, <1>2, <1>4, <1>7, <1>8, <1>9
<1>15. box' = [opened |-> Boxed', closed |-> IF flushed' THEN Boxed' ELSE 0]
  BY <1>12, <1>13
<1> QED
  BY <1>13, <1>14, <1>15 DEF StreamInv

LEMMA FlushKeepsInv ==
    ASSUME StreamInv, Flush
    PROVE  StreamInv'
<1>1. /\ ~flushed /\ written = Len(output) /\ flushed' = TRUE
      /\ output' = output /\ format' = format /\ written' = written
  BY DEF Flush
<1>2. /\ output \in Outputs /\ written \in 0..Len(output)
      /\ pending = Last(LinesAt(output, written))
      /\ shown = Emit(Front(LinesAt(output, written)))
      /\ box = [opened |-> Boxed, closed |-> 0]
  BY <1>1 DEF StreamInv
<1>3. PICK S : output \in Seq(S) /\ Len(output) \in Nat
  BY <1>2, OutputBytes
<1>4. PICK e : e = Emit(<<pending>>)
  OBVIOUS
<1>5. PICK o : o = IF format = "textblock" /\ e # <<>> /\ box.opened = box.closed
                   THEN box.opened + 1 ELSE box.opened
  OBVIOUS
<1>6. /\ shown' = shown \o e
      /\ box' = [opened |-> o, closed |-> IF o > box.closed THEN box.closed + 1 ELSE box.closed]
  BY <1>4, <1>5 DEF Flush
<1>7. /\ e \in Seq(Seq(S)) /\ shown \in Seq(Seq(S))
      /\ Emit(CutAtLF(output)) = shown \o e
  BY <1>1, <1>2, <1>3, <1>4, FlushAdds
<1>8. shown \o e = <<>> <=> shown = <<>> /\ e = <<>>
  BY <1>7, ConcatEqualIffEmpty
<1>9. box' = [opened |-> Boxed', closed |-> Boxed']
  <2>1. Boxed' = IF format = "textblock" /\ ~(shown = <<>> /\ e = <<>>) THEN 1 ELSE 0
    BY <1>1, <1>6, <1>8 DEF Boxed
  <2>2. box.opened = Boxed /\ box.closed = 0 /\ Boxed \in {0, 1}
    BY <1>2 DEF Boxed
  <2>3. o = Boxed'
    BY <1>5, <2>1, <2>2 DEF Boxed
  <2>4. Boxed' \in {0, 1}
    BY <2>1
  <2>5. (IF o > box.closed THEN box.closed + 1 ELSE box.closed) = o
    BY <2>2, <2>3, <2>4
  <2> QED
    BY <1>6, <2>3, <2>5
<1>10. shown' = Emit(CutAtLF(output'))
  BY <1>1, <1>6, <1>7
<1>11. output' \in Outputs /\ written' \in 0..Len(output') /\ flushed' \in BOOLEAN
  BY <1>1, <1>2
<1>12. box' = [opened |-> Boxed', closed |-> IF flushed' THEN Boxed' ELSE 0]
  BY <1>1, <1>9
<1> QED
  BY <1>1, <1>10, <1>11, <1>12 DEF StreamInv

LEMMA StreamInvMatches == StreamInv => StreamMatchesBlock
<1> SUFFICES ASSUME StreamInv PROVE StreamMatchesBlock
  OBVIOUS
<1>1. /\ output \in Outputs /\ written \in 0..Len(output) /\ flushed \in BOOLEAN
      /\ ~flushed => shown = Emit(Front(LinesAt(output, written)))
      /\ flushed => shown = Emit(CutAtLF(output))
      /\ box = [opened |-> Boxed, closed |-> IF flushed THEN Boxed ELSE 0]
  BY DEF StreamInv
<1>2. PICK S : output \in Seq(S) /\ Len(output) \in Nat
  BY <1>1, OutputBytes
<1>3. PICK whole : whole = KeptOf(NormalizeStreamLines(output))
  OBVIOUS
<1>4. ~EndsInCR => whole = Emit(CutAtLF(output))
  <2>1. ~EndsInCR => \A i \in DOMAIN CutAtLF(output) :
                        LET line == CutAtLF(output)[i] IN ~(line # <<>> /\ Last(line) = CR)
    BY DEF EndsInCR
  <2> QED
    BY <1>2, <1>3, <2>1, BlockShowsLines
<1>5. ~flushed => IsPrefix(shown, Emit(CutAtLF(output)))
  <2>1. SUFFICES ASSUME ~flushed PROVE IsPrefix(shown, Emit(CutAtLF(output)))
    OBVIOUS
  <2>2. PICK v : v = Len(output) /\ v \in written..Len(output) /\ v \in 0..Len(output)
    BY <1>1, <1>2
  <2>3. PICK e : e = Emit(Front(CutAtLF(Last(LinesAt(output, written)) \o SubSeq(output, written + 1, v))))
    OBVIOUS
  <2>4. /\ e \in Seq(Seq(S)) /\ shown \in Seq(Seq(S))
        /\ Emit(Front(LinesAt(output, v))) = shown \o e
    BY <1>1, <1>2, <2>1, <2>2, <2>3, WriteAdds
  <2>5. PICK x : x = Emit(<<Last(LinesAt(output, v))>>)
    OBVIOUS
  <2>6. x \in Seq(Seq(S)) /\ Emit(CutAtLF(output)) = Emit(Front(LinesAt(output, v))) \o x
    BY <1>2, <2>2, <2>5, FlushAdds
  <2>7. Emit(CutAtLF(output)) = shown \o (e \o x) /\ e \o x \in Seq(Seq(S))
    <3>1. (shown \o e) \o x = shown \o (e \o x)
      BY <2>4, <2>6, ConcatAssociative
    <3>2. e \o x \in Seq(Seq(S))
      BY <2>4, <2>6, ConcatProperties
    <3> QED
      BY <2>4, <2>6, <3>1, <3>2
  <2> QED
    BY <2>4, <2>7, PrefixOfJoin
<1>6. ~EndsInCR => IF flushed THEN shown = whole ELSE IsPrefix(shown, whole)
  BY <1>1, <1>4, <1>5
<1>7. /\ box.opened = IF format = "textblock" /\ shown # <<>> THEN 1 ELSE 0
      /\ box.closed = IF flushed THEN box.opened ELSE 0
  BY <1>1 DEF Boxed
<1> QED
  BY <1>3, <1>6, <1>7, Zenon DEF StreamMatchesBlock

(* However the output of a command is cut into writes, the streaming       *)
(* writer shows, line by line, what the block writer shows of the whole,   *)
(* in one box that is closed at the end: for every output without a line   *)
(* that ends in CR LF, of any length (Write, Flush, emit,                  *)
(* normalizeStreamLines).                                                  *)
THEOREM StreamIsBlock == StreamSpec => []StreamMatchesBlock
<1>1. StreamInv /\ [StreamNext]_streamVars => StreamInv'
  <2> SUFFICES ASSUME StreamInv, [StreamNext]_streamVars PROVE StreamInv'
    OBVIOUS
  <2>1. CASE \E n \in 1..Len(output) : Write(n)
    BY <2>1, WriteKeepsInv
  <2>2. CASE Flush
    BY <2>2, FlushKeepsInv
  <2>3. CASE UNCHANGED streamVars
    BY <2>3 DEF StreamInv, Boxed, streamVars
  <2> QED
    BY <2>1, <2>2, <2>3 DEF StreamNext, Ended
<1> QED
  BY <1>1, StreamStarts, StreamInvMatches, PTL DEF StreamSpec
================================================================================
