----------------------------- MODULE LayerHashProofs ----------------------------
(***************************************************************************)
(* Proofs about LayerHash, for any configs, host trees and edits: what the *)
(* tag covers and what it does not.                                        *)
(***************************************************************************)
EXTENDS LayerHash, FiniteSetTheorems, WellFoundedInduction, TLAPS

-----------------------------------------------------------------------------
(* Sequences.                                                              *)

(* A non-empty set of natural numbers has a least element.                 *)
LEMMA LeastNat ==
    ASSUME NEW T \in SUBSET Nat, T # {}
    PROVE  \E n \in T : \A m \in T : n <= m
<1>1. PICK n \in T : \A m \in T : <<m, n>> \notin OpToRel(<, Nat)
  BY NatLessThanWellFounded, WFMin, Zenon
<1>2. \A m \in T : ~(m < n)
  BY <1>1 DEF OpToRel
<1> QED
  BY <1>2

(* A set of indices has a greatest.                                        *)
LEMMA GreatestIndex ==
    ASSUME NEW n \in Nat, NEW T \in SUBSET (1..n), T # {}
    PROVE  \E i \in T : \A k \in T : k <= i
<1> DEFINE Left == {n - i : i \in T}
<1>0. \A i \in T : i \in 1..n /\ n - i \in Nat
  OBVIOUS
<1>1. Left \in SUBSET Nat /\ Left # {}
  BY <1>0
<1>2. PICK x \in Left : \A y \in Left : x <= y
  <2> HIDE DEF Left
  <2> QED
    BY <1>1, LeastNat
<1>3. PICK i \in T : x = n - i
  OBVIOUS
<1>4. ASSUME NEW k \in T PROVE k <= i
  <2>1. n - k \in Left
    OBVIOUS
  <2>2. n - i <= n - k
    BY <1>2, <1>3, <2>1
  <2> QED
    BY <2>2
<1> QED
  BY <1>4

(* g holds the concatenations of the first sequences of ss, k of them.     *)
Flattens(g, ss, k) == g = [i \in 1..k |-> IF i = 1 THEN ss[i] ELSE g[i-1] \o ss[i]]

(* The function that FlattenSeq is defined by exists, however many         *)
(* sequences there are.                                                    *)
LEMMA FlattenExists ==
    ASSUME NEW ss
    PROVE  \A k \in Nat : \E g : Flattens(g, ss, k)
<1> DEFINE Without == {k \in Nat : ~\E g : Flattens(g, ss, k)}
<1> SUFFICES ASSUME Without # {} PROVE FALSE
  OBVIOUS
<1>1. PICK m \in Without : \A n \in Without : m <= n
  <2>1. Without \in SUBSET Nat
    OBVIOUS
  <2> HIDE DEF Without
  <2> QED
    BY <2>1, LeastNat
<1>2. m \in Nat /\ ~\E g : Flattens(g, ss, m)
  OBVIOUS
<1>3. PICK below : m # 0 => Flattens(below, ss, m - 1)
  <2>1. CASE m # 0
    <3>1. m - 1 \in Nat /\ m - 1 \notin Without
      BY <1>1, <1>2, <2>1
    <3> QED
      BY <3>1
  <2> QED
    BY <2>1
<1> DEFINE g == [i \in 1..m |-> IF i = 1 THEN ss[i] ELSE below[i-1] \o ss[i]]
<1>4. ASSUME NEW i \in 1..m, i # 1 PROVE g[i-1] = below[i-1]
  <2>1. i - 1 \in 1..m /\ i - 1 \in 1..(m-1) /\ m # 0
    BY <1>2, <1>4
  <2>2. below[i-1] = IF i - 1 = 1 THEN ss[i-1] ELSE below[i-1-1] \o ss[i-1]
    BY <1>3, <2>1 DEF Flattens
  <2>3. g[i-1] = IF i - 1 = 1 THEN ss[i-1] ELSE below[i-1-1] \o ss[i-1]
    BY <2>1
  <2> QED
    BY <2>2, <2>3
<1>5. g = [i \in 1..m |-> IF i = 1 THEN ss[i] ELSE g[i-1] \o ss[i]]
  <2>1. \A i \in 1..m : g[i] = IF i = 1 THEN ss[i] ELSE g[i-1] \o ss[i]
    BY <1>4
  <2>2. g = [i \in 1..m |-> g[i]]
    OBVIOUS
  <2> HIDE DEF g
  <2> QED
    BY <2>1, <2>2
<1>6. Flattens(g, ss, m)
  <2> HIDE DEF g
  <2> QED
    BY <1>5, Zenon DEF Flattens
<1> QED
  BY <1>2, <1>6

LEMMA FlattenBy ==
    ASSUME NEW ss, Len(ss) \in Nat, Len(ss) # 0
    PROVE  \E g : Flattens(g, ss, Len(ss)) /\ FlattenSeq(ss) = g[Len(ss)]
<1>1. \E g : g = [i \in 1..Len(ss) |-> IF i = 1 THEN ss[i] ELSE g[i-1] \o ss[i]]
  BY FlattenExists DEF Flattens
<1> DEFINE f == CHOOSE g : g = [i \in 1..Len(ss) |-> IF i = 1 THEN ss[i] ELSE g[i-1] \o ss[i]]
<1>2. f = [i \in 1..Len(ss) |-> IF i = 1 THEN ss[i] ELSE f[i-1] \o ss[i]]
  BY <1>1, Zenon
<1>3. FlattenSeq(ss) = f[Len(ss)]
  BY DEF FlattenSeq
<1> HIDE DEF f
<1> QED
  BY <1>2, <1>3 DEF Flattens

(* FlattenSeq of sequences, the last of which is appended to the others.   *)
LEMMA FlattenMore ==
    ASSUME NEW S, NEW ss \in Seq(Seq(S)), ss # <<>>, NEW t \in Seq(S)
    PROVE  /\ FlattenSeq(ss) \in Seq(S)
           /\ FlattenSeq(Append(ss, t)) = FlattenSeq(ss) \o t
<1> DEFINE more == Append(ss, t)
           n    == Len(ss)
<1>1. n \in Nat /\ n # 0 /\ \A i \in 1..n : ss[i] \in Seq(S)
  OBVIOUS
<1>2. /\ Len(more) = n + 1 /\ Len(more) \in Nat /\ Len(more) # 0
      /\ \A i \in 1..n : more[i] = ss[i]
      /\ more[n + 1] = t
  OBVIOUS
<1> HIDE DEF more
<1>3. PICK g : Flattens(g, ss, n) /\ FlattenSeq(ss) = g[n]
  BY <1>1, FlattenBy
<1>4. PICK h : Flattens(h, more, n + 1) /\ FlattenSeq(more) = h[n + 1]
  <2>1. \E h : Flattens(h, more, Len(more)) /\ FlattenSeq(more) = h[Len(more)]
    BY <1>2, FlattenBy
  <2> QED
    BY <1>2, <2>1
<1> HIDE DEF n
<1> DEFINE Bad == {k \in 1..n : ~(g[k] \in Seq(S) /\ h[k] = g[k])}
<1>5. Bad = {}
  <2> SUFFICES ASSUME Bad # {} PROVE FALSE
    OBVIOUS
  <2>1. Bad \in SUBSET Nat
    BY <1>1
  <2>2. PICK k \in Bad : \A j \in Bad : k <= j
    <3> HIDE DEF Bad
    <3> QED
      BY <2>1, LeastNat
  <2>3. k \in 1..n /\ k \in 1..(n + 1) /\ ~(g[k] \in Seq(S) /\ h[k] = g[k])
    BY <1>1
  <2>4. /\ g[k] = IF k = 1 THEN ss[k] ELSE g[k-1] \o ss[k]
        /\ h[k] = IF k = 1 THEN more[k] ELSE h[k-1] \o more[k]
    BY <1>3, <1>4, <2>3 DEF Flattens
  <2>5. CASE k = 1
    BY <1>1, <1>2, <2>3, <2>4, <2>5
  <2>6. CASE k # 1
    <3>1. k - 1 \in 1..n /\ k - 1 \notin Bad
      BY <1>1, <2>2, <2>3, <2>6
    <3>2. g[k-1] \in Seq(S) /\ h[k-1] = g[k-1]
      BY <3>1
    <3>3. g[k] = g[k-1] \o ss[k] /\ h[k] = g[k-1] \o ss[k] /\ ss[k] \in Seq(S)
      BY <1>1, <1>2, <2>3, <2>4, <2>6, <3>2
    <3> QED
      BY <2>3, <3>2, <3>3
  <2> QED
    BY <2>5, <2>6
<1>6. g[n] \in Seq(S) /\ h[n] = g[n]
  <2>1. n \in 1..n
    BY <1>1
  <2> QED
    BY <1>5, <2>1
<1>7. h[n + 1] = h[n] \o t
  <2>1. n + 1 \in 1..(n + 1) /\ n + 1 # 1 /\ (n + 1) - 1 = n
    BY <1>1
  <2>2. h[n + 1] = h[(n + 1) - 1] \o more[n + 1]
    BY <1>4, <2>1 DEF Flattens
  <2> QED
    BY <1>2, <2>1, <2>2
<1> QED
  BY <1>3, <1>4, <1>6, <1>7 DEF more

-----------------------------------------------------------------------------
(* Excludes.                                                               *)

LEMMA PrefixIs ==
    ASSUME NEW s \in Seq(Nat), NEW t \in Seq(Nat)
    PROVE  IsPrefix(s, t) <=> Len(s) <= Len(t) /\ \A k \in 1..Len(s) : s[k] = t[k]
<1>1. Len(s) \in Nat /\ Len(t) \in Nat /\ SubSeq(s, 1, Len(s)) = s
  OBVIOUS
<1>2. ASSUME Len(s) <= Len(t)
      PROVE  s = SubSeq(t, 1, Len(s)) <=> \A k \in 1..Len(s) : s[k] = t[k]
  <2> DEFINE u == SubSeq(t, 1, Len(s))
  <2>1. u \in Seq(Nat) /\ Len(u) = Len(s) /\ \A k \in 1..Len(s) : u[k] = t[k]
    BY <1>1, <1>2
  <2> HIDE DEF u
  <2>2. ASSUME \A k \in 1..Len(s) : s[k] = u[k] PROVE s = u
    BY <1>1, <2>1, <2>2
  <2> QED
    BY <2>1, <2>2 DEF u
<1> QED
  BY <1>1, <1>2 DEF IsPrefix

(* Without a negated pattern a path is excluded as soon as one matches.    *)
LEMMA ExcludedIs ==
    ASSUME NEW patterns \in Seq(PatternType), \A i \in DOMAIN patterns : ~patterns[i].negated, NEW p
    PROVE  Excluded(patterns, p) <=> \E i \in DOMAIN patterns : Matches(patterns[i], p)
<1> DEFINE T == {i \in DOMAIN patterns : Matches(patterns[i], p)}
<1>1. Len(patterns) \in Nat /\ DOMAIN patterns = 1..Len(patterns)
  OBVIOUS
<1>2. ASSUME T # {} PROVE Excluded(patterns, p)
  <2>1. T \in SUBSET (1..Len(patterns))
    BY <1>1
  <2>2. PICK i \in T : \A k \in T : k <= i
    <3> HIDE DEF T
    <3> QED
      BY <1>1, <1>2, <2>1, GreatestIndex
  <2>3. i \in 1..Len(patterns) /\ Matches(patterns[i], p)
    BY <1>1
  <2>4. ASSUME NEW k \in DOMAIN patterns, k > i PROVE ~Matches(patterns[k], p)
    <3>1. k \notin T
      <4> HIDE DEF T
      <4> QED
        BY <1>1, <2>2, <2>3, <2>4
    <3> QED
      BY <3>1
  <2> QED
    BY <1>1, <2>3, <2>4, Zenon DEF Excluded
<1>3. Excluded(patterns, p) => T # {}
  BY DEF Excluded
<1> QED
  BY <1>2, <1>3

(* The patterns of an item, of which none is negated.                      *)
Plain(item) == \A i \in DOMAIN item.excludes : ~item.excludes[i].negated

GitPattern == [negated |-> FALSE, floating |-> TRUE, path |-> <<Git>>]

LEMMA PatternsOf ==
    ASSUME NEW item \in ItemType, Plain(item)
    PROVE  /\ EffectiveExcludes(item) \in Seq(PatternType)
           /\ \A i \in DOMAIN EffectiveExcludes(item) : ~EffectiveExcludes(item)[i].negated
           /\ 1 \in DOMAIN EffectiveExcludes(item) /\ EffectiveExcludes(item)[1] = GitPattern
           /\ \A i \in DOMAIN EffectiveExcludes(item) :
                 i # 1 => i - 1 \in DOMAIN item.excludes /\ EffectiveExcludes(item)[i] = item.excludes[i - 1]
<1> DEFINE own == item.excludes
<1>1. own \in Seq(PatternType)
  BY DEF ItemType
<1>2. GitPattern \in PatternType
  <2>1. <<Git>> \in Seq(Nat) /\ <<Git>> # <<>>
    BY LayerHashAssumption
  <2> QED
    BY <2>1 DEF GitPattern, PatternType, Path
<1>3. EffectiveExcludes(item) = <<GitPattern>> \o own
  BY DEF EffectiveExcludes, GitPattern
<1>4. \A i \in DOMAIN own : ~own[i].negated
  BY DEF Plain
<1> HIDE DEF own
<1>5. <<GitPattern>> \in Seq(PatternType) /\ Len(<<GitPattern>>) = 1 /\ <<GitPattern>>[1] = GitPattern
  BY <1>2
<1> DEFINE all == <<GitPattern>> \o own
<1>6. /\ all \in Seq(PatternType) /\ DOMAIN all = 1..(1 + Len(own)) /\ Len(own) \in Nat
      /\ DOMAIN own = 1..Len(own)
  BY <1>1, <1>5
<1>7. all[1] = GitPattern /\ \A i \in 2..(1 + Len(own)) : all[i] = own[i - 1]
  BY <1>1, <1>5
<1> HIDE DEF all
<1>8. ASSUME NEW i \in DOMAIN all, i # 1 PROVE i - 1 \in DOMAIN own /\ all[i] = own[i - 1]
  BY <1>6, <1>7, <1>8
<1>9. ~GitPattern.negated
  BY DEF GitPattern
<1>10. \A i \in DOMAIN all : ~all[i].negated
  BY <1>4, <1>7, <1>8, <1>9
<1>11. 1 \in DOMAIN all
  BY <1>6
<1> QED
  BY <1>3, <1>6, <1>7, <1>8, <1>10, <1>11 DEF all, own

(* What has .git in its path is excluded, wherever its parts start.        *)
LEMMA GitExcluded ==
    ASSUME NEW item \in ItemType, Plain(item), NEW p \in Seq(Nat), Git \in ToSet(p)
    PROVE  Excluded(EffectiveExcludes(item), p)
<1>1. PICK i \in 1..Len(p) : p[i] = Git
  BY DEF ToSet
<1> DEFINE rest == SubSeq(p, i, Len(p))
<1>2. Len(p) \in Nat /\ rest \in Seq(Nat) /\ Len(rest) = Len(p) - i + 1 /\ rest[1] = p[i]
  OBVIOUS
<1> HIDE DEF rest
<1>3. <<Git>> \in Seq(Nat) /\ Len(<<Git>>) = 1 /\ <<Git>>[1] = Git
  BY LayerHashAssumption
<1>4. IsPrefix(<<Git>>, rest)
  <2>1. Len(<<Git>>) <= Len(rest) /\ \A k \in 1..Len(<<Git>>) : <<Git>>[k] = rest[k]
    BY <1>1, <1>2, <1>3
  <2> QED
    BY <1>2, <1>3, <2>1, PrefixIs
<1>5. IsPrefix(GitPattern.path, SubSeq(p, i, Len(p)))
  BY <1>4 DEF GitPattern, rest
<1>6. Matches(GitPattern, p)
  BY <1>1, <1>5 DEF Matches, GitPattern
<1> QED
  BY <1>6, PatternsOf, ExcludedIs

-----------------------------------------------------------------------------
(* The order of the entries.                                               *)

LEMMA SameSeq ==
    ASSUME NEW S, NEW s \in Seq(S), NEW t \in Seq(S), Len(s) = Len(t), \A k \in 1..Len(s) : s[k] = t[k]
    PROVE  s = t
OBVIOUS

(* p of length l comes before q of length m.                               *)
Precedes(p, l, q, m) ==
    \/ l < m /\ \A k \in 1..l : p[k] = q[k]
    \/ \E i \in 1..l : i <= m /\ p[i] < q[i] /\ \A k \in 1..(i-1) : p[k] = q[k]

LEMMA BeforeIs ==
    ASSUME NEW p \in Seq(Nat), NEW q \in Seq(Nat)
    PROVE  Before(p, q) <=> Precedes(p, Len(p), q, Len(q))
<1>1. /\ Len(p) \in Nat /\ Len(q) \in Nat /\ DOMAIN p = 1..Len(p) /\ DOMAIN q = 1..Len(q)
  OBVIOUS
<1>2. IsStrictPrefix(p, q) <=> Len(p) < Len(q) /\ \A k \in 1..Len(p) : p[k] = q[k]
  <2>1. IsPrefix(p, q) <=> Len(p) <= Len(q) /\ \A k \in 1..Len(p) : p[k] = q[k]
    BY PrefixIs
  <2>2. Len(p) = Len(q) /\ (\A k \in 1..Len(p) : p[k] = q[k]) <=> p = q
    BY SameSeq
  <2>3. \A l, m \in Nat : l <= m /\ l # m <=> l < m
    OBVIOUS
  <2> QED
    BY <1>1, <2>1, <2>2, <2>3, Zenon DEF IsStrictPrefix
<1>3. ASSUME NEW i, i \in 1..Len(p), i <= Len(q)
      PROVE  SubSeq(p, 1, i - 1) = SubSeq(q, 1, i - 1) <=> \A k \in 1..(i-1) : p[k] = q[k]
  <2> DEFINE u == SubSeq(p, 1, i - 1)
             v == SubSeq(q, 1, i - 1)
  <2>0. i \in Nat /\ i >= 1 /\ i <= Len(p) /\ i <= Len(q)
    BY <1>1, <1>3
  <2>1. u \in Seq(Nat) /\ Len(u) = i - 1 /\ \A k \in 1..(i-1) : u[k] = p[k]
    BY <1>1, <2>0
  <2>2. v \in Seq(Nat) /\ Len(v) = i - 1 /\ \A k \in 1..(i-1) : v[k] = q[k]
    BY <1>1, <2>0
  <2> HIDE DEF u, v
  <2>3. ASSUME \A k \in 1..(i-1) : p[k] = q[k] PROVE u = v
    <3>1. \A k \in 1..Len(u) : u[k] = v[k]
      BY <2>1, <2>2, <2>3
    <3> QED
      BY <2>1, <2>2, <3>1, SameSeq
  <2>4. ASSUME u = v PROVE \A k \in 1..(i-1) : p[k] = q[k]
    BY <2>1, <2>2, <2>4
  <2> QED
    BY <2>3, <2>4 DEF u, v
<1>4. \A i : i \in DOMAIN p \intersect DOMAIN q <=> i \in 1..Len(p) /\ i <= Len(q)
  BY <1>1
<1>5. (\E i \in DOMAIN p \intersect DOMAIN q : p[i] < q[i] /\ SubSeq(p, 1, i - 1) = SubSeq(q, 1, i - 1))
      <=> \E i \in 1..Len(p) : i <= Len(q) /\ p[i] < q[i] /\ \A k \in 1..(i-1) : p[k] = q[k]
  BY <1>3, <1>4, Zenon
<1> QED
  BY <1>2, <1>5, Zenon DEF Before, Precedes

(* Numbered(p, l): the first l elements of p are natural numbers.          *)
Numbered(p, l) == l \in Nat /\ \A k \in 1..l : p[k] \in Nat

LEMMA PrecedesTotal ==
    ASSUME NEW p, NEW l, Numbered(p, l), NEW q, NEW m, Numbered(q, m),
           ~(l = m /\ \A k \in 1..l : p[k] = q[k])
    PROVE  Precedes(p, l, q, m) \/ Precedes(q, m, p, l)
<1> USE DEF Numbered
<1> DEFINE D == {k \in 1..l : k <= m /\ p[k] # q[k]}
<1>1. CASE D = {}
  <2>1. \A k \in 1..l : k <= m => p[k] = q[k]
    BY <1>1
  <2> HIDE DEF D
  <2>2. CASE l < m
    BY <2>1, <2>2 DEF Precedes
  <2>3. CASE m < l
    BY <2>1, <2>3 DEF Precedes
  <2>4. CASE l = m
    BY <2>1, <2>4
  <2> QED
    BY <2>2, <2>3, <2>4
<1>2. CASE D # {}
  <2>1. D \in SUBSET Nat
    OBVIOUS
  <2>2. PICK i \in D : \A k \in D : i <= k
    <3> HIDE DEF D
    <3> QED
      BY <1>2, <2>1, LeastNat
  <2>3. i \in 1..l /\ i <= m /\ p[i] # q[i]
    OBVIOUS
  <2>4. \A k \in 1..(i-1) : p[k] = q[k]
    <3> SUFFICES ASSUME NEW k \in 1..(i-1) PROVE p[k] = q[k]
      OBVIOUS
    <3>1. k \in 1..l /\ k <= m /\ ~(i <= k)
      BY <2>3
    <3>2. k \notin D
      <4> HIDE DEF D
      <4> QED
        BY <2>2, <3>1
    <3> QED
      BY <3>1, <3>2
  <2> HIDE DEF D
  <2>5. CASE p[i] < q[i]
    BY <2>3, <2>4, <2>5 DEF Precedes
  <2>6. CASE q[i] < p[i]
    BY <2>3, <2>4, <2>6 DEF Precedes
  <2> QED
    BY <2>3, <2>5, <2>6
<1> QED
  BY <1>1, <1>2

LEMMA PrecedesTransitive ==
    ASSUME NEW p, NEW l, Numbered(p, l), NEW q, NEW m, Numbered(q, m), NEW r, NEW n, Numbered(r, n),
           Precedes(p, l, q, m), Precedes(q, m, r, n)
    PROVE  Precedes(p, l, r, n)
<1> USE DEF Numbered
<1>1. CASE l < m /\ \A k \in 1..l : p[k] = q[k]
  <2>1. CASE m < n /\ \A k \in 1..m : q[k] = r[k]
    <3>1. l < n /\ \A k \in 1..l : p[k] = r[k]
      BY <1>1, <2>1
    <3> QED
      BY <3>1 DEF Precedes
  <2>2. CASE \E j \in 1..m : j <= n /\ q[j] < r[j] /\ \A k \in 1..(j-1) : q[k] = r[k]
    <3>1. PICK j \in 1..m : j <= n /\ q[j] < r[j] /\ \A k \in 1..(j-1) : q[k] = r[k]
      BY <2>2
    <3>2. CASE j <= l
      <4>1. j \in 1..l /\ p[j] < r[j] /\ \A k \in 1..(j-1) : p[k] = r[k]
        BY <1>1, <3>1, <3>2
      <4> QED
        BY <3>1, <4>1 DEF Precedes
    <3>3. CASE j > l
      <4>1. l < n /\ \A k \in 1..l : p[k] = r[k]
        BY <1>1, <3>1, <3>3
      <4> QED
        BY <4>1 DEF Precedes
    <3> QED
      BY <3>2, <3>3
  <2> QED
    BY <2>1, <2>2 DEF Precedes
<1>2. CASE \E i \in 1..l : i <= m /\ p[i] < q[i] /\ \A k \in 1..(i-1) : p[k] = q[k]
  <2>1. PICK i \in 1..l : i <= m /\ p[i] < q[i] /\ \A k \in 1..(i-1) : p[k] = q[k]
    BY <1>2
  <2>2. CASE m < n /\ \A k \in 1..m : q[k] = r[k]
    <3>1. i <= n /\ p[i] < r[i] /\ \A k \in 1..(i-1) : p[k] = r[k]
      BY <2>1, <2>2
    <3> QED
      BY <3>1 DEF Precedes
  <2>3. CASE \E j \in 1..m : j <= n /\ q[j] < r[j] /\ \A k \in 1..(j-1) : q[k] = r[k]
    <3>1. PICK j \in 1..m : j <= n /\ q[j] < r[j] /\ \A k \in 1..(j-1) : q[k] = r[k]
      BY <2>3
    <3>2. CASE j < i
      <4>1. j \in 1..l /\ p[j] < r[j] /\ \A k \in 1..(j-1) : p[k] = r[k]
        BY <2>1, <3>1, <3>2
      <4> QED
        BY <3>1, <4>1 DEF Precedes
    <3>3. CASE j = i
      <4>1. i <= n /\ p[i] < r[i] /\ \A k \in 1..(i-1) : p[k] = r[k]
        BY <2>1, <3>1, <3>3
      <4> QED
        BY <4>1 DEF Precedes
    <3>4. CASE j > i
      <4>1. i <= n /\ p[i] < r[i] /\ \A k \in 1..(i-1) : p[k] = r[k]
        BY <2>1, <3>1, <3>4
      <4> QED
        BY <4>1 DEF Precedes
    <3> QED
      BY <3>2, <3>3, <3>4
  <2> QED
    BY <2>2, <2>3 DEF Precedes
<1> QED
  BY <1>1, <1>2 DEF Precedes

(* Before is a strict and total order of paths.                            *)
LEMMA BeforeIsOrder ==
    ASSUME NEW p \in Seq(Nat), NEW q \in Seq(Nat)
    PROVE  /\ ~Before(p, p)
           /\ p # q => Before(p, q) \/ Before(q, p)
           /\ \A r \in Seq(Nat) : Before(p, q) /\ Before(q, r) => Before(p, r)
<1>1. \A r \in Seq(Nat) : Numbered(r, Len(r))
  BY DEF Numbered
<1>2. ~Precedes(p, Len(p), p, Len(p))
  BY <1>1 DEF Precedes, Numbered
<1>3. p # q => Precedes(p, Len(p), q, Len(q)) \/ Precedes(q, Len(q), p, Len(p))
  BY <1>1, PrecedesTotal, SameSeq
<1>4. ASSUME NEW r \in Seq(Nat), Precedes(p, Len(p), q, Len(q)), Precedes(q, Len(q), r, Len(r))
      PROVE  Precedes(p, Len(p), r, Len(r))
  BY <1>1, <1>4, PrecedesTransitive
<1> QED
  BY <1>2, <1>3, <1>4, BeforeIs

(* Sorting keeps every path, each once.                                    *)
LEMMA SortedIs ==
    ASSUME NEW S \in SUBSET Seq(Nat), IsFiniteSet(S)
    PROVE  /\ Sorted(S) \in Seq(S)
           /\ \A p \in S : \E k \in DOMAIN Sorted(S) : Sorted(S)[k] = p
<1> DEFINE n        == Cardinality(S)
           below(p) == {q \in S : Before(q, p)}
           place    == [p \in S |-> Cardinality(below(p))]
<1>1. n \in Nat
  BY FS_CardinalityType
<1>2. \A p \in S : IsFiniteSet(below(p)) /\ place[p] \in 0..(n-1)
  <2> SUFFICES ASSUME NEW p \in S PROVE IsFiniteSet(below(p)) /\ place[p] \in 0..(n-1)
    OBVIOUS
  <2>1. below(p) \in SUBSET (S \ {p})
    BY BeforeIsOrder
  <2>2. IsFiniteSet(S \ {p}) /\ Cardinality(S \ {p}) = n - 1
    BY FS_RemoveElement
  <2>3. IsFiniteSet(below(p)) /\ Cardinality(below(p)) <= n - 1
    <3> HIDE DEF below
    <3> QED
      BY <2>1, <2>2, FS_Subset
  <2>4. Cardinality(below(p)) \in Nat
    <3> HIDE DEF below
    <3> QED
      BY <2>3, FS_CardinalityType
  <2> QED
    BY <1>1, <2>3, <2>4
<1>3. ASSUME NEW p \in S, NEW q \in S, Before(p, q) PROVE place[p] < place[q]
  <2>1. below(p) \subseteq below(q)
    BY <1>3, BeforeIsOrder
  <2>2. p \in below(q) /\ p \notin below(p)
    BY <1>3, BeforeIsOrder
  <2>3. IsFiniteSet(below(p)) /\ IsFiniteSet(below(q))
    BY <1>2
  <2>4. Cardinality(below(p)) <= Cardinality(below(q)) /\ Cardinality(below(p)) # Cardinality(below(q))
    <3> HIDE DEF below
    <3>1. Cardinality(below(q)) = Cardinality(below(p)) => below(q) = below(p)
      BY <2>1, <2>3, FS_Subset
    <3> QED
      BY <2>1, <2>2, <2>3, <3>1, FS_Subset
  <2>5. place[p] = Cardinality(below(p)) /\ place[q] = Cardinality(below(q))
    BY DEF place
  <2> HIDE DEF place, below, n
  <2>6. place[p] \in Int /\ place[q] \in Int
    BY <1>1, <1>2
  <2> QED
    BY <2>4, <2>5, <2>6
<1>4. \A p, q \in S : place[p] = place[q] => p = q
  <2> SUFFICES ASSUME NEW p \in S, NEW q \in S, place[p] = place[q], p # q PROVE FALSE
    OBVIOUS
  <2>1. Before(p, q) \/ Before(q, p)
    BY BeforeIsOrder
  <2> HIDE DEF place, n, below
  <2>2. place[p] \in Int /\ place[q] \in Int
    BY <1>1, <1>2
  <2> QED
    BY <1>3, <2>1, <2>2
<1>5. place \in [S -> 0..(n-1)]
  <2>1. \A p \in S : place[p] \in 0..(n-1)
    BY <1>2
  <2>2. place = [p \in S |-> place[p]]
    OBVIOUS
  <2> HIDE DEF place
  <2> QED
    BY <2>1, <2>2
<1>6. IsFiniteSet(0..(n-1)) /\ Cardinality(0..(n-1)) = n
  BY <1>1, FS_Interval
<1> HIDE DEF place
<1>7. place \in Injection(S, 0..(n-1))
  BY <1>4, <1>5 DEF Injection, IsInjective
<1>8. place \in Surjection(S, 0..(n-1))
  BY <1>6, <1>7, FS_Injection DEF n
<1>9. \A k \in 1..n : \E p \in S : place[p] = k - 1
  <2> SUFFICES ASSUME NEW k \in 1..n PROVE \E p \in S : place[p] = k - 1
    OBVIOUS
  <2>1. k - 1 \in 0..(n-1)
    BY <1>1
  <2> QED
    BY <1>8, <2>1 DEF Surjection
<1> DEFINE at == [k \in 1..n |-> CHOOSE p \in S : place[p] = k - 1]
<1>10. Sorted(S) = at
  <2>1. \A p \in S : place[p] = Cardinality({q \in S : Before(q, p)})
    BY DEF place
  <2>2. \A k \in 1..n : (CHOOSE p \in S : place[p] = k - 1)
                        = (CHOOSE p \in S : Cardinality({q \in S : Before(q, p)}) = k - 1)
    BY <2>1
  <2> QED
    BY <2>2 DEF Sorted
<1>11. \A k \in 1..n : at[k] \in S /\ place[at[k]] = k - 1
  BY <1>9
<1>12. at \in Seq(S) /\ DOMAIN at = 1..n
  <2>1. at = [k \in 1..n |-> at[k]]
    OBVIOUS
  <2> HIDE DEF at, n, place
  <2>2. \A k \in 1..n : at[k] \in S
    BY <1>11
  <2>3. at \in [1..n -> S]
    BY <2>1, <2>2
  <2> QED
    BY <1>1, <2>3
<1>13. \A p \in S : \E k \in 1..n : at[k] = p
  <2> SUFFICES ASSUME NEW p \in S PROVE \E k \in 1..n : at[k] = p
    OBVIOUS
  <2>1. place[p] \in 0..(n-1)
    BY <1>5
  <2>2. place[p] + 1 \in 1..n /\ (place[p] + 1) - 1 = place[p]
    BY <1>1, <2>1
  <2>3. at[place[p] + 1] \in S /\ place[at[place[p] + 1]] = place[p]
    <3> HIDE DEF at
    <3> QED
      BY <1>11, <2>2
  <2> HIDE DEF at
  <2> QED
    BY <1>4, <2>2, <2>3
<1> HIDE DEF at
<1> QED
  BY <1>10, <1>12, <1>13

-----------------------------------------------------------------------------
(* What is hashed and what is taken.                                       *)

LEMMA HostTree ==
    ASSUME NEW d, IsHost(d), NEW s \in Sources
    PROVE  /\ IsFiniteSet(DOMAIN d[s]) /\ DOMAIN d[s] \subseteq Path
           /\ \A p \in DOMAIN d[s] : d[s][p] \in NodeType
           /\ RootOf[s] = "missing" => DOMAIN d[s] = {}
BY DEF IsHost

(* The set of all parts of a path, with one more in front.                 *)
LEMMA Inside ==
    ASSUME NEW b \in Nat, NEW p \in Seq(Nat)
    PROVE  <<b>> \o p \in Seq(Nat) /\ ToSet(p) \subseteq ToSet(<<b>> \o p)
<1>1. /\ <<b>> \o p \in Seq(Nat) /\ Len(p) \in Nat /\ DOMAIN (<<b>> \o p) = 1..(Len(p) + 1)
      /\ DOMAIN p = 1..Len(p) /\ \A k \in 1..Len(p) : (<<b>> \o p)[k + 1] = p[k]
  OBVIOUS
<1>2. ASSUME NEW k \in DOMAIN p PROVE p[k] \in ToSet(<<b>> \o p)
  <2>1. k + 1 \in DOMAIN (<<b>> \o p) /\ (<<b>> \o p)[k + 1] = p[k]
    BY <1>1
  <2> QED
    BY <2>1 DEF ToSet
<1> QED
  BY <1>1, <1>2 DEF ToSet

LEMMA HashedIsClear ==
    ASSUME NEW item \in ItemType, Plain(item), NEW tree, DOMAIN tree \subseteq Path,
           NEW p \in HashedPaths(item, tree)
    PROVE  p \in DOMAIN tree /\ Git \notin ToSet(p)
<1>1. /\ p \in DOMAIN tree /\ p \in Seq(Nat) /\ p # <<>>
      /\ \A k \in 1..Len(p) : ~Excluded(EffectiveExcludes(item), SubSeq(p, 1, k))
  BY DEF HashedPaths, Path
<1>2. Len(p) \in 1..Len(p) /\ SubSeq(p, 1, Len(p)) = p
  BY <1>1
<1>3. ~Excluded(EffectiveExcludes(item), p)
  BY <1>1, <1>2
<1> QED
  BY <1>1, <1>3, GitExcluded

(* A tree without what is git's own.                                       *)
Clear(tree) == [p \in {q \in DOMAIN tree : Git \notin ToSet(q)} |-> tree[p]]

LEMMA ClearHashed ==
    ASSUME NEW item \in ItemType, Plain(item), NEW tree, DOMAIN tree \subseteq Path, IsFiniteSet(DOMAIN tree)
    PROVE  HashDirectory(item, tree) = HashDirectory(item, Clear(tree))
<1> DEFINE H == HashedPaths(item, tree)
           paths == Sorted(H)
<1>1. \A p \in H : p \in DOMAIN tree /\ Git \notin ToSet(p)
  BY HashedIsClear
<1>2. \A p : p \in DOMAIN Clear(tree) <=> p \in DOMAIN tree /\ Git \notin ToSet(p)
  BY DEF Clear
<1>3. H = HashedPaths(item, Clear(tree))
  BY <1>1, <1>2 DEF HashedPaths
<1>4. \A p \in H : Clear(tree)[p] = tree[p]
  BY <1>1 DEF Clear
<1>5. paths \in Seq(H)
  <2>1. H \in SUBSET DOMAIN tree /\ H \in SUBSET Seq(Nat)
    BY <1>1 DEF Path
  <2>2. IsFiniteSet(H)
    BY <2>1, FS_Subset
  <2> HIDE DEF H
  <2> QED
    BY <2>1, <2>2, SortedIs
<1> HIDE DEF H, paths
<1>6. \A i \in DOMAIN paths : Clear(tree)[paths[i]] = tree[paths[i]]
  BY <1>4, <1>5
<1>7. [i \in DOMAIN paths |-> WriteLengthPrefixed(paths[i]) \o HashNode(item, Clear(tree)[paths[i]])]
      = [i \in DOMAIN paths |-> WriteLengthPrefixed(paths[i]) \o HashNode(item, tree[paths[i]])]
  BY <1>6
<1>8. CASE item.inTag
  <2>1. HashDirectory(item, tree) = FlattenSeq(
           [i \in DOMAIN paths |-> WriteLengthPrefixed(paths[i]) \o HashNode(item, tree[paths[i]])])
    BY <1>8 DEF HashDirectory, paths, H
  <2>2. HashDirectory(item, Clear(tree)) = FlattenSeq(
           [i \in DOMAIN paths |-> WriteLengthPrefixed(paths[i]) \o HashNode(item, Clear(tree)[paths[i]])])
    BY <1>3, <1>8 DEF HashDirectory, paths
  <2> QED
    BY <1>7, <2>1, <2>2, Zenon
<1>9. CASE ~item.inTag
  BY <1>9 DEF HashDirectory
<1> QED
  BY <1>8, <1>9

LEMMA ClearTaken ==
    ASSUME NEW item \in ItemType, item.kind = "file" \/ Plain(item), Git \notin ToSet(item.path),
           NEW tree, DOMAIN tree \subseteq Path,
           item.kind = "file" => item.path \in DOMAIN tree
    PROVE  /\ Taken(item, tree) = Taken(item, Clear(tree))
           /\ Taken(item, tree) \subseteq DOMAIN Clear(tree)
<1>1. \A p : p \in DOMAIN Clear(tree) <=> p \in DOMAIN tree /\ Git \notin ToSet(p)
  BY DEF Clear
<1>2. MountedPaths(tree) = MountedPaths(Clear(tree)) /\ MountedPaths(tree) \subseteq DOMAIN Clear(tree)
  BY <1>1 DEF MountedPaths
<1>3. item.src \in Sources /\ BaseName[item.src] \in Nat /\ item.kind \in {"file", "copy", "roles"}
  BY LayerHashAssumption DEF ItemType
<1>4. ASSUME Plain(item), NEW p \in CopiedPaths(item, tree) PROVE p \in DOMAIN Clear(tree)
  <2>1. p \in DOMAIN tree /\ p \in Seq(Nat)
    BY <1>4 DEF CopiedPaths, Path
  <2> DEFINE whole == <<BaseName[item.src]>> \o p
  <2>2. whole \in Seq(Nat) /\ ToSet(p) \subseteq ToSet(whole)
    BY <1>3, <2>1, Inside
  <2> HIDE DEF whole
  <2>3. ~Excluded(EffectiveExcludes(item), IF item.contentsOnly THEN p ELSE whole)
    BY <1>4 DEF CopiedPaths, whole
  <2>4. Git \notin ToSet(p)
    <3>1. CASE item.contentsOnly
      BY <1>4, <2>1, <2>3, <3>1, GitExcluded
    <3>2. CASE ~item.contentsOnly
      BY <1>4, <2>2, <2>3, <3>2, GitExcluded
    <3> QED
      BY <3>1, <3>2
  <2> QED
    BY <1>1, <2>1, <2>4
<1>5. ASSUME Plain(item)
      PROVE  /\ CopiedPaths(item, tree) = CopiedPaths(item, Clear(tree))
             /\ CopiedPaths(item, tree) \subseteq DOMAIN Clear(tree)
  <2>1. CopiedPaths(item, tree) \subseteq DOMAIN Clear(tree)
    BY <1>4, <1>5
  <2> QED
    BY <1>1, <2>1 DEF CopiedPaths
<1>6. item.kind = "file" => {item.path} \subseteq DOMAIN Clear(tree)
  BY <1>1
<1>7. CASE RootOf[item.src] = "missing"
  BY <1>7 DEF Taken
<1>8. CASE RootOf[item.src] # "missing" /\ item.kind = "file"
  BY <1>6, <1>8 DEF Taken
<1>9. CASE RootOf[item.src] # "missing" /\ item.kind = "copy"
  BY <1>5, <1>9 DEF Taken
<1>10. CASE RootOf[item.src] # "missing" /\ item.kind = "roles"
  BY <1>2, <1>10 DEF Taken
<1> QED
  BY <1>3, <1>7, <1>8, <1>9, <1>10

(* What an image holds of one item.                                        *)
Entries(item, tree) ==
    LET paths == Sorted(Taken(item, tree))
    IN  [k \in DOMAIN paths |-> NodeInImage(item, paths[k], Opened(item, tree[paths[k]]))]

LEMMA ClearEntries ==
    ASSUME NEW item \in ItemType, item.kind = "file" \/ Plain(item), Git \notin ToSet(item.path),
           NEW tree, DOMAIN tree \subseteq Path, IsFiniteSet(DOMAIN tree),
           item.kind = "file" => item.path \in DOMAIN tree
    PROVE  Entries(item, tree) = Entries(item, Clear(tree))
<1> DEFINE T == Taken(item, tree)
           paths == Sorted(T)
<1>1. T = Taken(item, Clear(tree)) /\ T \subseteq DOMAIN Clear(tree)
  BY ClearTaken
<1>2. T \in SUBSET DOMAIN tree /\ T \in SUBSET Seq(Nat)
  BY <1>1 DEF Clear, Path
<1> HIDE DEF T
<1>3. paths \in Seq(T)
  BY <1>2, FS_Subset, SortedIs
<1>4. \A p \in T : Clear(tree)[p] = tree[p]
  BY <1>1 DEF Clear
<1> HIDE DEF paths
<1>5. \A k \in DOMAIN paths : Clear(tree)[paths[k]] = tree[paths[k]]
  BY <1>3, <1>4
<1>6. Entries(item, tree) = [k \in DOMAIN paths |-> NodeInImage(item, paths[k], Opened(item, tree[paths[k]]))]
  BY DEF Entries, paths, T
<1>7. Entries(item, Clear(tree)) = [k \in DOMAIN paths |-> NodeInImage(item, paths[k], Opened(item, Clear(tree)[paths[k]]))]
  BY <1>1 DEF Entries, paths
<1>8. [k \in DOMAIN paths |-> NodeInImage(item, paths[k], Opened(item, tree[paths[k]]))]
      = [k \in DOMAIN paths |-> NodeInImage(item, paths[k], Opened(item, Clear(tree)[paths[k]]))]
  BY <1>5
<1> QED
  BY <1>6, <1>7, <1>8

-----------------------------------------------------------------------------
(* Hosts stay hosts.                                                       *)

LEMMA HostReplaced ==
    ASSUME NEW d, IsHost(d), NEW s \in Sources, NEW P \in SUBSET Path, IsFiniteSet(P),
           NEW tree \in [P -> NodeType], RootOf[s] = "missing" => P = {}
    PROVE  IsHost([d EXCEPT ![s] = tree])
<1> DEFINE e == [d EXCEPT ![s] = tree]
<1>1. d = [r \in Sources |-> d[r]]
  BY DEF IsHost
<1>2. e = [r \in Sources |-> IF r = s THEN tree ELSE d[r]]
  BY <1>1
<1>3. e[s] = tree /\ \A r \in Sources : r # s => e[r] = d[r]
  BY <1>2
<1>4. e = [r \in Sources |-> e[r]]
  BY <1>2
<1> HIDE DEF e
<1>5. /\ IsFiniteSet(DOMAIN e[s]) /\ e[s] = [p \in DOMAIN e[s] |-> e[s][p]]
      /\ \A p \in DOMAIN e[s] : p \in Path /\ e[s][p] \in NodeType
      /\ RootOf[s] = "missing" => DOMAIN e[s] = {}
  BY <1>3
<1>6. ASSUME NEW r \in Sources, r # s
      PROVE  /\ IsFiniteSet(DOMAIN e[r]) /\ e[r] = [p \in DOMAIN e[r] |-> e[r][p]]
             /\ \A p \in DOMAIN e[r] : p \in Path /\ e[r][p] \in NodeType
             /\ RootOf[r] = "missing" => DOMAIN e[r] = {}
  <2>1. e[r] = d[r]
    BY <1>3, <1>6
  <2>2. /\ IsFiniteSet(DOMAIN d[r]) /\ d[r] = [p \in DOMAIN d[r] |-> d[r][p]]
        /\ \A p \in DOMAIN d[r] : p \in Path /\ d[r][p] \in NodeType
        /\ RootOf[r] = "missing" => DOMAIN d[r] = {}
    BY DEF IsHost
  <2> QED
    BY <2>1, <2>2
<1>7. IsHost(e)
  BY <1>4, <1>5, <1>6, Zenon DEF IsHost
<1> QED
  BY <1>7 DEF e

HostInv == layer \in Seq(ItemType) /\ IsHost(disk)

LEMMA HostInvInit == Init => HostInv
BY LayerHashAssumption DEF Init, HostInv

LEMMA HostInvNext == HostInv /\ [Next]_vars => HostInv'
<1> SUFFICES ASSUME HostInv, [Next]_vars PROVE HostInv'
  OBVIOUS
<1>1. PICK d : d = disk
  OBVIOUS
<1>2. IsHost(d)
  BY <1>1 DEF HostInv
<1>3. ASSUME NEW w \in Writes, Write(w.src, w.path, w.node) PROVE IsHost(disk') /\ layer' = layer
  <2> DEFINE s == w.src
             P == DOMAIN d[s] \union {w.path}
             tree == [q \in P |-> IF q = w.path THEN w.node ELSE d[s][q]]
  <2>1. s \in Sources /\ RootOf[s] # "missing" /\ w.path \in Path /\ w.node \in NodeType
    BY LayerHashAssumption
  <2>2. /\ IsFiniteSet(DOMAIN d[s]) /\ DOMAIN d[s] \subseteq Path
        /\ \A p \in DOMAIN d[s] : d[s][p] \in NodeType
    BY <1>2, <2>1, HostTree
  <2>3. P \in SUBSET Path /\ IsFiniteSet(P) /\ tree \in [P -> NodeType]
    BY <2>1, <2>2, FS_AddElement
  <2>4. disk' = [d EXCEPT ![s] = tree] /\ layer' = layer
    BY <1>1, <1>3 DEF Write, Edited
  <2> HIDE DEF tree, P, s
  <2> QED
    BY <1>2, <2>1, <2>3, <2>4, HostReplaced
<1>4. ASSUME NEW s \in Sources, NEW p \in DOMAIN disk[s], Delete(s, p) PROVE IsHost(disk') /\ layer' = layer
  <2> DEFINE P == {r \in DOMAIN d[s] : ~IsPrefix(p, r)}
             tree == [q \in P |-> d[s][q]]
  <2>1. /\ IsFiniteSet(DOMAIN d[s]) /\ DOMAIN d[s] \subseteq Path
        /\ \A q \in DOMAIN d[s] : d[s][q] \in NodeType
        /\ RootOf[s] = "missing" => DOMAIN d[s] = {}
    BY <1>2, HostTree
  <2>2. P \in SUBSET DOMAIN d[s]
    OBVIOUS
  <2>3. IsFiniteSet(P)
    <3> HIDE DEF P
    <3> QED
      BY <2>1, <2>2, FS_Subset
  <2>4. P \in SUBSET Path /\ tree \in [P -> NodeType] /\ (RootOf[s] = "missing" => P = {})
    BY <2>1, <2>2
  <2>5. disk' = [d EXCEPT ![s] = tree] /\ layer' = layer
    BY <1>1, <1>4 DEF Delete, Edited
  <2> HIDE DEF tree, P
  <2> QED
    BY <1>2, <2>3, <2>4, <2>5, HostReplaced
<1>5. CASE UNCHANGED <<layer, disk>>
  BY <1>5 DEF HostInv
<1>6. Build \/ ComputeFails \/ Finished \/ UNCHANGED vars => UNCHANGED <<layer, disk>>
  BY DEF Build, ComputeFails, Finished, vars
<1> QED
  BY <1>3, <1>4, <1>5, <1>6 DEF Next, HostInv

LEMMA AlwaysHost == Spec => []HostInv
BY HostInvInit, HostInvNext, PTL DEF Spec

(* However .git looks, neither the tag nor the image moves                 *)
(* (EffectiveExcludes, gitExcludes).                                       *)
THEOREM GitIsInvisible == Spec => []GitBookkeepingInvisible
<1>1. ASSUME HostInv, \A i \in DOMAIN layer : Covered(layer[i]) /\ Git \notin ToSet(layer[i].path), CanHash(disk)
      PROVE  HashLayer(disk) = HashLayer(WithoutGit) /\ Image(disk) = Image(WithoutGit)
  <2> DEFINE clean(i) == WithoutGit[layer[i].src]
  <2>1. ASSUME NEW i \in DOMAIN layer
        PROVE  /\ HashItem(layer[i], disk[layer[i].src]) = HashItem(layer[i], clean(i))
               /\ Entries(layer[i], disk[layer[i].src]) = Entries(layer[i], clean(i))
    <3>1. PICK item \in ItemType : item = layer[i]
      BY <1>1 DEF HostInv
    <3>2. item.src \in Sources
      BY DEF ItemType
    <3>0. PICK tree : tree = disk[item.src]
      OBVIOUS
    <3>3. IsFiniteSet(DOMAIN tree) /\ DOMAIN tree \subseteq Path
      BY <1>1, <3>0, <3>2, HostTree DEF HostInv
    <3>4. clean(i) = Clear(tree)
      BY <3>0, <3>1, <3>2 DEF WithoutGit, Clear
    <3>5. item.kind = "file" \/ Plain(item)
      BY <1>1, <3>1 DEF Covered, Plain
    <3>6. Git \notin ToSet(item.path)
      BY <1>1, <3>1
    <3>7. item.kind = "file" => item.path \in DOMAIN tree
      BY <1>1, <3>0, <3>1 DEF CanHash
    <3>8. Entries(item, tree) = Entries(item, Clear(tree))
      BY <3>3, <3>5, <3>6, <3>7, ClearEntries
    <3>9. HashItem(item, tree) = HashItem(item, Clear(tree))
      <4>1. CASE item.kind = "file"
        <5>1. Clear(tree)[item.path] = tree[item.path]
          BY <3>6, <3>7, <4>1 DEF Clear
        <5> QED
          BY <4>1, <5>1 DEF HashItem
      <4>2. CASE item.kind # "file"
        BY <3>3, <3>5, <4>2, ClearHashed DEF HashItem
      <4> QED
        BY <4>1, <4>2
    <3> QED
      BY <3>0, <3>1, <3>4, <3>8, <3>9
  <2>2. HashLayer(disk) = HashLayer(WithoutGit)
    BY <2>1 DEF HashLayer
  <2>3. Image(disk) = [i \in DOMAIN layer |-> Entries(layer[i], disk[layer[i].src])]
    BY DEF Image, Entries
  <2>4. Image(WithoutGit) = [i \in DOMAIN layer |-> Entries(layer[i], clean(i))]
    BY DEF Image, Entries
  <2>5. Image(disk) = Image(WithoutGit)
    BY <2>1, <2>3, <2>4
  <2> QED
    BY <2>2, <2>5
<1>2. HostInv => GitBookkeepingInvisible
  BY <1>1 DEF GitBookkeepingInvisible
<1> QED
  BY <1>2, AlwaysHost, PTL

-----------------------------------------------------------------------------
(* Concatenations.                                                         *)

(* Lengths and elements of a concatenation.                                *)
LEMMA Joined ==
    ASSUME NEW S, NEW s \in Seq(S), NEW t \in Seq(S)
    PROVE  /\ s \o t \in Seq(S) /\ Len(s) \in Nat /\ Len(t) \in Nat /\ Len(s \o t) = Len(s) + Len(t)
           /\ DOMAIN s = 1..Len(s) /\ DOMAIN t = 1..Len(t) /\ DOMAIN (s \o t) = 1..(Len(s) + Len(t))
           /\ \A k \in 1..Len(s) : (s \o t)[k] = s[k]
           /\ \A k \in 1..Len(t) : (s \o t)[Len(s) + k] = t[k]
OBVIOUS

LEMMA Associative ==
    ASSUME NEW S, NEW s \in Seq(S), NEW t \in Seq(S), NEW u \in Seq(S)
    PROVE  (s \o t) \o u = s \o (t \o u)
<1> DEFINE x == (s \o t) \o u
           y == s \o (t \o u)
<1>1. PICK l, m, n : l = Len(s) /\ m = Len(t) /\ n = Len(u)
  OBVIOUS
<1>2. /\ l \in Nat /\ m \in Nat /\ n \in Nat
      /\ s \o t \in Seq(S) /\ Len(s \o t) = l + m /\ t \o u \in Seq(S) /\ Len(t \o u) = m + n
  BY <1>1
<1>3. x \in Seq(S) /\ y \in Seq(S) /\ Len(x) = l + m + n /\ Len(y) = l + m + n
  BY <1>1, <1>2
<1>4. \A k \in 1..l : x[k] = s[k] /\ y[k] = s[k]
  BY <1>1, <1>2
<1>5. ASSUME NEW k \in 1..m PROVE x[l + k] = t[k] /\ y[l + k] = t[k]
  <2>1. (s \o t)[l + k] = t[k] /\ (t \o u)[k] = t[k]
    BY <1>1, <1>2
  <2>2. x[l + k] = (s \o t)[l + k]
    BY <1>1, <1>2
  <2>3. y[l + k] = (t \o u)[k]
    BY <1>1, <1>2
  <2> QED
    BY <2>1, <2>2, <2>3
<1>6. ASSUME NEW k \in 1..n PROVE x[l + m + k] = u[k] /\ y[l + m + k] = u[k]
  <2>1. (t \o u)[m + k] = u[k]
    BY <1>1, <1>2
  <2>2. x[l + m + k] = u[k]
    BY <1>1, <1>2
  <2>3. m + k \in 1..(m + n) /\ l + (m + k) = l + m + k
    BY <1>2
  <2>4. y[l + (m + k)] = (t \o u)[m + k]
    BY <1>1, <1>2, <2>3
  <2> QED
    BY <2>1, <2>2, <2>3, <2>4
<1> HIDE DEF x, y
<1>7. ASSUME NEW k \in 1..(l + m + n) PROVE x[k] = y[k]
  <2>1. CASE k <= l
    BY <1>2, <1>4, <2>1
  <2>2. CASE k > l /\ k <= l + m
    <3>1. k - l \in 1..m /\ l + (k - l) = k
      BY <1>2, <2>2
    <3> QED
      BY <1>5, <3>1
  <2>3. CASE k > l + m
    <3>1. k - l - m \in 1..n /\ l + m + (k - l - m) = k
      BY <1>2, <2>3
    <3> QED
      BY <1>6, <3>1
  <2> QED
    BY <1>2, <2>1, <2>2, <2>3
<1>8. x = y
  BY <1>3, <1>7, SameSeq
<1> QED
  BY <1>8 DEF x, y

LEMMA EmptyJoined ==
    ASSUME NEW S, NEW s \in Seq(S)
    PROVE  <<>> \o s = s /\ s \o <<>> = s
<1>1. <<>> \in Seq(S) /\ Len(<<>>) = 0
  OBVIOUS
<1>2. PICK x, y : x = <<>> \o s /\ y = s \o <<>>
  OBVIOUS
<1>3. Len(s) \in Nat /\ x \in Seq(S) /\ Len(x) = Len(s) /\ y \in Seq(S) /\ Len(y) = Len(s)
  BY <1>2
<1>4. \A k \in 1..Len(s) : x[k] = s[k] /\ y[k] = s[k]
  BY <1>2
<1>5. x = s
  BY <1>3, <1>4, SameSeq
<1>6. y = s
  BY <1>3, <1>4, SameSeq
<1> QED
  BY <1>2, <1>5, <1>6

(* Two texts whose first parts are of one length agree in both parts.      *)
LEMMA SplitSame ==
    ASSUME NEW S, NEW s \in Seq(S), NEW t \in Seq(S), NEW u \in Seq(S), NEW v \in Seq(S),
           Len(s) = Len(t), s \o u = t \o v
    PROVE  s = t /\ u = v
<1>1. \A k \in 1..Len(s) : s[k] = t[k]
  <2> SUFFICES ASSUME NEW k \in 1..Len(s) PROVE s[k] = t[k]
    OBVIOUS
  <2>1. (s \o u)[k] = s[k]
    BY Joined
  <2>2. (t \o v)[k] = t[k]
    BY Joined
  <2> QED
    BY <2>1, <2>2
<1>2. Len(u) = Len(v)
  <2>1. Len(s \o u) = Len(s) + Len(u) /\ Len(t \o v) = Len(t) + Len(v)
    BY Joined
  <2>2. Len(s) \in Nat /\ Len(u) \in Nat /\ Len(v) \in Nat
    OBVIOUS
  <2> QED
    BY <2>1, <2>2
<1>3. \A k \in 1..Len(u) : u[k] = v[k]
  <2> SUFFICES ASSUME NEW k \in 1..Len(u) PROVE u[k] = v[k]
    OBVIOUS
  <2>1. (s \o u)[Len(s) + k] = u[k]
    BY Joined
  <2>2. (t \o v)[Len(t) + k] = v[k]
    BY <1>2, Joined
  <2> QED
    BY <2>1, <2>2
<1>4. s = t
  BY <1>1, SameSeq
<1>5. u = v
  BY <1>2, <1>3, SameSeq
<1> QED
  BY <1>4, <1>5

(* A set that holds the empty sequence, and with a sequence also all that  *)
(* are one element longer, holds all sequences.                            *)
LEMMA AllSequences ==
    ASSUME NEW S, NEW G, <<>> \in G, \A s \in Seq(S) : s \in G => \A e \in S : Append(s, e) \in G
    PROVE  Seq(S) \subseteq G
<1> SUFFICES ASSUME NEW bad \in Seq(S), bad \notin G PROVE FALSE
  OBVIOUS
<1> DEFINE T == {Len(s) : s \in {r \in Seq(S) : r \notin G}}
<1>1. T \in SUBSET Nat /\ T # {}
  <2>1. \A r \in Seq(S) : Len(r) \in Nat
    OBVIOUS
  <2>2. Len(bad) \in T
    OBVIOUS
  <2> QED
    BY <2>1, <2>2
<1>2. PICK n \in T : \A m \in T : n <= m
  <2> HIDE DEF T
  <2> QED
    BY <1>1, LeastNat
<1>3. PICK s \in Seq(S) : s \notin G /\ Len(s) = n
  OBVIOUS
<1>4. s # <<>>
  BY <1>3
<1> DEFINE f == SubSeq(s, 1, Len(s) - 1)
<1>5. f \in Seq(S) /\ Len(f) = Len(s) - 1 /\ Len(s) \in Nat /\ s[Len(s)] \in S /\ s = Append(f, s[Len(s)])
  <2>1. Len(s) \in Nat /\ Len(s) # 0
    BY <1>4
  <2>2. f \in Seq(S) /\ Len(f) = Len(s) - 1 /\ \A k \in 1..Len(f) : f[k] = s[k]
    <3>1. Len(s) - 1 \in 0..Len(s)
      BY <2>1
    <3>2. f \in Seq(S) /\ Len(f) = Len(s) - 1
      <4>1. PICK m : m = Len(s) - 1
        OBVIOUS
      <4>2. m \in 0..Len(s) /\ f = SubSeq(s, 1, m)
        BY <3>1, <4>1
      <4>3. SubSeq(s, 1, m) \in Seq(S) /\ Len(SubSeq(s, 1, m)) = m
        BY <2>1, <4>2
      <4> QED
        BY <4>1, <4>2, <4>3
    <3>3. \A k \in 1..(Len(s) - 1) : f[k] = s[k]
      BY <2>1
    <3> QED
      BY <3>2, <3>3
  <2>3. s[Len(s)] \in S
    BY <2>1
  <2> DEFINE a == Append(f, s[Len(s)])
  <2> HIDE DEF f
  <2>4. a \in Seq(S) /\ Len(a) = Len(s) /\ a[Len(s)] = s[Len(s)] /\ \A k \in 1..(Len(s) - 1) : a[k] = f[k]
    BY <2>1, <2>2, <2>3
  <2> HIDE DEF a
  <2>5. ASSUME NEW k \in 1..Len(s) PROVE s[k] = a[k]
    <3>1. CASE k = Len(s)
      BY <2>4, <3>1
    <3>2. CASE k # Len(s)
      <4>1. k \in 1..(Len(s) - 1)
        BY <2>1, <3>2
      <4> QED
        BY <2>2, <2>4, <4>1
    <3> QED
      BY <3>1, <3>2
  <2>6. s = a
    BY <2>4, <2>5, SameSeq
  <2> QED
    BY <2>1, <2>2, <2>3, <2>6 DEF a
<1>6. f \in G
  <2> SUFFICES ASSUME f \notin G PROVE FALSE
    OBVIOUS
  <2>1. Len(f) \in T
    <3> HIDE DEF f
    <3> QED
      BY <1>5
  <2> HIDE DEF f, T
  <2> QED
    BY <1>2, <1>3, <1>5, <2>1
<1> HIDE DEF f
<1> QED
  BY <1>3, <1>5, <1>6

LEMMA FlattenFirst == FlattenSeq(<<>>) = <<>> /\ \A t : FlattenSeq(<<t>>) = t
<1>1. FlattenSeq(<<>>) = <<>>
  BY DEF FlattenSeq
<1>2. ASSUME NEW t PROVE FlattenSeq(<<t>>) = t
  <2>1. PICK ss : ss = <<t>>
    OBVIOUS
  <2>2. Len(ss) = 1 /\ ss[1] = t
    BY <2>1
  <2>3. Len(ss) \in Nat /\ Len(ss) # 0
    BY <2>2
  <2>4. PICK g : Flattens(g, ss, Len(ss)) /\ FlattenSeq(ss) = g[Len(ss)]
    BY <2>3, FlattenBy
  <2>5. g[1] = ss[1]
    BY <2>2, <2>4 DEF Flattens
  <2> QED
    BY <2>1, <2>2, <2>4, <2>5
<1> QED
  BY <1>1, <1>2

(* What FlattenSeq does of one more sequence, and of two sequences.        *)
LEMMA FlattenAppend ==
    ASSUME NEW S, NEW ss \in Seq(Seq(S)), NEW t \in Seq(S)
    PROVE  FlattenSeq(Append(ss, t)) = FlattenSeq(ss) \o t
<1>1. CASE ss = <<>>
  <2>1. Append(ss, t) = <<t>>
    BY <1>1
  <2>2. FlattenSeq(ss) = <<>> /\ FlattenSeq(<<t>>) = t
    BY <1>1, FlattenFirst
  <2>3. <<>> \o t = t
    BY EmptyJoined
  <2> QED
    BY <2>1, <2>2, <2>3
<1>2. CASE ss # <<>>
  BY <1>2, FlattenMore
<1> QED
  BY <1>1, <1>2

LEMMA FlattenType ==
    ASSUME NEW S, NEW ss \in Seq(Seq(S))
    PROVE  FlattenSeq(ss) \in Seq(S)
<1>0. <<>> \in Seq(S)
  OBVIOUS
<1>1. CASE ss = <<>>
  <2>1. FlattenSeq(<<>>) = <<>>
    BY FlattenFirst
  <2> QED
    BY <1>0, <1>1, <2>1, Zenon
<1>2. CASE ss # <<>>
  BY <1>0, <1>2, FlattenMore
<1> QED
  BY <1>1, <1>2

LEMMA FlattenJoin ==
    ASSUME NEW S, NEW ss \in Seq(Seq(S)), NEW tt \in Seq(Seq(S))
    PROVE  FlattenSeq(ss \o tt) = FlattenSeq(ss) \o FlattenSeq(tt)
<1> DEFINE G == {rr \in Seq(Seq(S)) : FlattenSeq(ss \o rr) = FlattenSeq(ss) \o FlattenSeq(rr)}
<1>1. <<>> \in G
  <2>1. <<>> \in Seq(Seq(S)) /\ ss \o <<>> = ss
    BY EmptyJoined
  <2>2. FlattenSeq(ss) \in Seq(S)
    BY FlattenType
  <2>3. FlattenSeq(ss) \o <<>> = FlattenSeq(ss)
    BY <2>2, EmptyJoined
  <2> QED
    BY <2>1, <2>3, FlattenFirst
<1>2. ASSUME NEW rr \in Seq(Seq(S)), rr \in G, NEW t \in Seq(S) PROVE Append(rr, t) \in G
  <2>1. ss \o Append(rr, t) = Append(ss \o rr, t) /\ ss \o rr \in Seq(Seq(S)) /\ Append(rr, t) \in Seq(Seq(S))
    OBVIOUS
  <2>2. FlattenSeq(Append(ss \o rr, t)) = FlattenSeq(ss \o rr) \o t
    BY <2>1, FlattenAppend
  <2>3. FlattenSeq(ss \o rr) = FlattenSeq(ss) \o FlattenSeq(rr)
    BY <1>2
  <2>4. FlattenSeq(Append(rr, t)) = FlattenSeq(rr) \o t
    BY FlattenAppend
  <2>5. FlattenSeq(ss) \in Seq(S) /\ FlattenSeq(rr) \in Seq(S)
    BY FlattenType
  <2>6. (FlattenSeq(ss) \o FlattenSeq(rr)) \o t = FlattenSeq(ss) \o (FlattenSeq(rr) \o t)
    BY <2>5, Associative
  <2> QED
    BY <2>1, <2>2, <2>3, <2>4, <2>6
<1> HIDE DEF G
<1>3. Seq(Seq(S)) \subseteq G
  BY <1>1, <1>2, AllSequences
<1> QED
  BY <1>3 DEF G

(* To flatten each and then all is to flatten twice.                       *)
LEMMA FlattenNested ==
    ASSUME NEW S, NEW sss \in Seq(Seq(Seq(S)))
    PROVE  FlattenSeq([i \in DOMAIN sss |-> FlattenSeq(sss[i])]) = FlattenSeq(FlattenSeq(sss))
<1> DEFINE F(q) == [i \in DOMAIN q |-> FlattenSeq(q[i])]
           G    == {q \in Seq(Seq(Seq(S))) : FlattenSeq(F(q)) = FlattenSeq(FlattenSeq(q))}
<1>1. <<>> \in G
  <2>1. <<>> \in Seq(Seq(Seq(S))) /\ F(<<>>) = <<>>
    OBVIOUS
  <2>2. FlattenSeq(<<>>) = <<>>
    BY FlattenFirst
  <2> HIDE DEF F
  <2> QED
    BY <2>1, <2>2
<1>2. ASSUME NEW q \in Seq(Seq(Seq(S))), q \in G, NEW t \in Seq(Seq(S)) PROVE Append(q, t) \in G
  <2> DEFINE more == Append(q, t)
  <2>1. more \in Seq(Seq(Seq(S))) /\ DOMAIN more = 1..(Len(q) + 1) /\ Len(q) \in Nat /\ DOMAIN q = 1..Len(q)
        /\ more[Len(q) + 1] = t /\ \A i \in 1..Len(q) : more[i] = q[i]
    OBVIOUS
  <2>2. \A i \in 1..Len(q) : q[i] \in Seq(Seq(S))
    OBVIOUS
  <2>3. FlattenSeq(t) \in Seq(S) /\ \A i \in 1..Len(q) : FlattenSeq(q[i]) \in Seq(S)
    BY <2>2, FlattenType
  <2>4. F(q) \in Seq(Seq(S)) /\ Len(F(q)) = Len(q) /\ \A i \in 1..Len(q) : F(q)[i] = FlattenSeq(q[i])
    BY <2>1, <2>3
  <2> HIDE DEF more
  <2>5. /\ F(more) \in Seq(Seq(S)) /\ Len(F(more)) = Len(q) + 1
        /\ \A i \in 1..(Len(q) + 1) : F(more)[i] = FlattenSeq(more[i])
    <3>1. \A i \in 1..(Len(q) + 1) : FlattenSeq(more[i]) \in Seq(S)
      <4> SUFFICES ASSUME NEW i \in 1..(Len(q) + 1) PROVE FlattenSeq(more[i]) \in Seq(S)
        OBVIOUS
      <4>1. i \in 1..Len(q) \/ i = Len(q) + 1
        BY <2>1
      <4> QED
        BY <2>1, <2>3, <4>1
    <3> QED
      BY <2>1, <3>1
  <2> DEFINE fq == F(q)
             fm == F(more)
             z  == FlattenSeq(t)
             a  == Append(fq, z)
  <2>6. ASSUME NEW i \in 1..Len(q) PROVE fm[i] = fq[i]
    <3>1. i \in 1..(Len(q) + 1)
      BY <2>1
    <3>2. more[i] = q[i]
      BY <2>1
    <3>3. fm[i] = FlattenSeq(more[i])
      BY <2>5, <3>1
    <3> QED
      BY <2>4, <3>2, <3>3
  <2>7. fm[Len(q) + 1] = z
    BY <2>1, <2>5
  <2>8. fq \in Seq(Seq(S)) /\ Len(fq) = Len(q) /\ fm \in Seq(Seq(S)) /\ Len(fm) = Len(q) + 1 /\ z \in Seq(S)
    BY <2>3, <2>4, <2>5
  <2> HIDE DEF fq, fm, z, F
  <2>9. a \in Seq(Seq(S)) /\ Len(a) = Len(q) + 1 /\ a[Len(q) + 1] = z /\ \A i \in 1..Len(q) : a[i] = fq[i]
    BY <2>1, <2>8
  <2> HIDE DEF a
  <2>10. ASSUME NEW i \in 1..Len(fm) PROVE fm[i] = a[i]
    <3>1. i \in 1..Len(q) \/ i = Len(q) + 1
      BY <2>1, <2>8
    <3> QED
      BY <2>6, <2>7, <2>9, <3>1
  <2>11. fm = a
    <3>1. Len(fm) = Len(a)
      BY <2>8, <2>9
    <3>2. fm \in Seq(Seq(S)) /\ a \in Seq(Seq(S))
      BY <2>8, <2>9
    <3> QED
      BY <2>10, <3>1, <3>2, SameSeq
  <2>12. FlattenSeq(fm) = FlattenSeq(fq) \o z
    BY <2>8, <2>11, FlattenAppend DEF a
  <2>13. FlattenSeq(fq) = FlattenSeq(FlattenSeq(q))
    BY <1>2 DEF fq
  <2>14. FlattenSeq(more) = FlattenSeq(q) \o t /\ FlattenSeq(q) \in Seq(Seq(S))
    BY FlattenAppend, FlattenType DEF more
  <2>15. FlattenSeq(FlattenSeq(q) \o t) = FlattenSeq(FlattenSeq(q)) \o FlattenSeq(t)
    BY <2>14, FlattenJoin
  <2>16. FlattenSeq(F(more)) = FlattenSeq(FlattenSeq(more))
    BY <2>12, <2>13, <2>14, <2>15 DEF fm, z
  <2> QED
    BY <2>1, <2>16 DEF more
<1> HIDE DEF G
<1>3. Seq(Seq(Seq(S))) \subseteq G
  BY <1>1, <1>2, AllSequences
<1> QED
  BY <1>3 DEF G

-----------------------------------------------------------------------------
(* Rows.                                                                   *)

(* n pieces lie in a row, of the lengths l, each behind the place in o.    *)
Laid(n, l, o) ==
    /\ n \in Nat /\ o[1] = 0
    /\ \A i \in 1..n : l[i] \in Nat
    /\ \A i \in 1..(n + 1) : o[i] \in Nat
    /\ \A i \in 1..n : o[i + 1] = o[i] + l[i]

LEMMA LaidRises ==
    ASSUME NEW n, NEW l, NEW o, Laid(n, l, o), NEW i \in 1..(n + 1), NEW k \in 1..(n + 1), i <= k
    PROVE  o[i] <= o[k]
<1> DEFINE T == {m \in 1..(n + 1) : m >= i /\ o[m] < o[i]}
<1> USE DEF Laid
<1>1. T = {}
  <2> SUFFICES ASSUME T # {} PROVE FALSE
    OBVIOUS
  <2>1. T \in SUBSET Nat
    OBVIOUS
  <2>2. PICK m \in T : \A j \in T : m <= j
    <3> HIDE DEF T
    <3> QED
      BY <2>1, LeastNat
  <2>3. m \in 1..(n + 1) /\ m >= i /\ o[m] < o[i]
    OBVIOUS
  <2>4. m # i
    BY <2>3
  <2>5. m - 1 \in 1..n /\ m - 1 >= i /\ (m - 1) + 1 = m /\ ~(m <= m - 1) /\ m - 1 \in 1..(n + 1)
    BY <2>3, <2>4
  <2>6. m - 1 \notin T
    <3> HIDE DEF T
    <3> QED
      BY <2>2, <2>5
  <2>7. ~(o[m - 1] < o[i])
    BY <2>5, <2>6
  <2>8. o[m] = o[m - 1] + l[m - 1] /\ l[m - 1] \in Nat /\ o[m - 1] \in Nat
    BY <2>5
  <2> HIDE DEF T
  <2> QED
    BY <2>3, <2>7, <2>8
<1>2. ~(o[k] < o[i])
  BY <1>1
<1> HIDE DEF T
<1> QED
  BY <1>2

(* Every place up to the end is in a piece.                                *)
LEMMA LaidCovers ==
    ASSUME NEW n, NEW l, NEW o, Laid(n, l, o), NEW k \in 1..o[n + 1]
    PROVE  \E i \in 1..n : k - o[i] \in 1..l[i]
<1> DEFINE T == {m \in 1..(n + 1) : o[m] >= k}
<1> USE DEF Laid
<1>1. n + 1 \in 1..(n + 1)
  OBVIOUS
<1>2. o[n + 1] \in Nat
  BY <1>1
<1>3. k \in Nat /\ k >= 1 /\ k <= o[n + 1]
  BY <1>2
<1>4. n + 1 \in T /\ T \in SUBSET Nat
  BY <1>1, <1>3
<1>5. PICK m \in T : \A j \in T : m <= j
  <2> HIDE DEF T
  <2> QED
    BY <1>4, LeastNat
<1>6. m \in 1..(n + 1) /\ o[m] >= k
  OBVIOUS
<1>7. m # 1
  BY <1>3, <1>6
<1>8. m - 1 \in 1..n /\ (m - 1) + 1 = m /\ ~(m <= m - 1) /\ m - 1 \in 1..(n + 1)
  BY <1>6, <1>7
<1>9. m - 1 \notin T
  <2> HIDE DEF T
  <2> QED
    BY <1>5, <1>8
<1>10. ~(o[m - 1] >= k)
  BY <1>8, <1>9
<1> HIDE DEF T
<1>11. o[m] = o[m - 1] + l[m - 1] /\ l[m - 1] \in Nat /\ o[m - 1] \in Nat
  BY <1>8
<1>12. k - o[m - 1] \in 1..l[m - 1]
  BY <1>3, <1>6, <1>10, <1>11
<1> QED
  BY <1>8, <1>12

LEMMA LaidByLength ==
    ASSUME NEW n, NEW l, NEW o, Laid(n, l, o), NEW m, NEW p, Laid(n, m, p), \A i \in 1..n : l[i] = m[i]
    PROVE  \A i \in 1..(n + 1) : o[i] = p[i]
<1> DEFINE T == {i \in 1..(n + 1) : o[i] # p[i]}
<1> USE DEF Laid
<1>1. T = {}
  <2> SUFFICES ASSUME T # {} PROVE FALSE
    OBVIOUS
  <2>1. T \in SUBSET Nat
    OBVIOUS
  <2>2. PICK i \in T : \A j \in T : i <= j
    <3> HIDE DEF T
    <3> QED
      BY <2>1, LeastNat
  <2>3. i \in 1..(n + 1) /\ o[i] # p[i]
    OBVIOUS
  <2>4. i # 1
    BY <2>3
  <2>5. i - 1 \in 1..n /\ (i - 1) + 1 = i /\ ~(i <= i - 1) /\ i - 1 \in 1..(n + 1)
    BY <2>3, <2>4
  <2>6. i - 1 \notin T
    <3> HIDE DEF T
    <3> QED
      BY <2>2, <2>5
  <2>7. o[i - 1] = p[i - 1]
    BY <2>5, <2>6
  <2>8. o[i] = o[i - 1] + l[i - 1] /\ p[i] = p[i - 1] + m[i - 1] /\ l[i - 1] = m[i - 1]
    BY <2>5
  <2> HIDE DEF T
  <2> QED
    BY <2>3, <2>7, <2>8
<1> QED
  BY <1>1

(* The pieces in F are of length 1 and on a place in K; the others have    *)
(* none of these.                                                          *)
Marked(n, l, o, F, K) ==
    /\ Laid(n, l, o)
    /\ \A i \in 1..n : IF i \in F THEN l[i] = 1 /\ o[i] + 1 \in K
                       ELSE \A k \in K : ~(o[i] < k /\ k <= o[i + 1])

LEMMA NotBefore ==
    ASSUME NEW n, NEW l, NEW o, NEW m, NEW p, NEW F \in SUBSET (1..n), NEW K,
           Marked(n, l, o, F, K), Marked(n, m, p, F, K), o[n + 1] = p[n + 1],
           NEW i \in F, \A j \in F : j < i => o[j] = p[j]
    PROVE  ~(o[i] < p[i])
<1> SUFFICES ASSUME o[i] < p[i] PROVE FALSE
  OBVIOUS
<1>1. Laid(n, l, o) /\ Laid(n, m, p)
  BY DEF Marked
<1>2. n \in Nat /\ i \in 1..n /\ i \in 1..(n + 1) /\ i + 1 \in 1..(n + 1) /\ n + 1 \in 1..(n + 1) /\ i + 1 <= n + 1
  BY <1>1 DEF Laid
<1>3. l[i] = 1 /\ o[i] + 1 \in K /\ o[i + 1] = o[i] + 1 /\ o[i] \in Nat /\ o[n + 1] \in Nat /\ p[i] \in Nat
  BY <1>1, <1>2 DEF Marked, Laid
<1>4. o[i + 1] <= o[n + 1]
  BY <1>1, <1>2, LaidRises
<1>5. o[i] + 1 \in 1..p[n + 1]
  BY <1>3, <1>4
<1>6. PICK k \in 1..n : (o[i] + 1) - p[k] \in 1..m[k]
  BY <1>1, <1>5, LaidCovers
<1>7. p[k] \in Nat /\ m[k] \in Nat /\ p[k + 1] = p[k] + m[k] /\ k \in Nat /\ k \in 1..(n + 1)
  BY <1>1, <1>2, <1>6 DEF Laid
<1>8. k \in F
  <2> SUFFICES ASSUME k \notin F PROVE FALSE
    OBVIOUS
  <2>1. ~(p[k] < o[i] + 1 /\ o[i] + 1 <= p[k + 1])
    BY <1>3, <1>6 DEF Marked
  <2> QED
    BY <1>3, <1>6, <1>7, <2>1
<1>9. m[k] = 1 /\ l[k] = 1
  BY <1>6, <1>8 DEF Marked
<1>10. p[k] = o[i]
  BY <1>3, <1>6, <1>7, <1>9
<1>11. k < i
  <2> SUFFICES ASSUME i <= k PROVE FALSE
    BY <1>2, <1>7
  <2>1. p[i] <= p[k]
    BY <1>1, <1>2, <1>7, LaidRises
  <2> QED
    BY <1>3, <1>10, <2>1
<1>12. o[k] = o[i]
  BY <1>8, <1>10, <1>11
<1>13. o[k + 1] <= o[i]
  <2>1. k + 1 \in 1..(n + 1) /\ k + 1 <= i
    BY <1>2, <1>6, <1>11
  <2> QED
    BY <1>1, <1>2, <2>1, LaidRises
<1>14. o[k + 1] = o[k] + 1
  BY <1>1, <1>6, <1>9 DEF Laid
<1> QED
  BY <1>3, <1>12, <1>13, <1>14

(* Two rows with the same marks have the marked pieces in the same places. *)
LEMMA InPlace ==
    ASSUME NEW n, NEW l, NEW o, NEW m, NEW p, NEW F \in SUBSET (1..n), NEW K,
           Marked(n, l, o, F, K), Marked(n, m, p, F, K), o[n + 1] = p[n + 1]
    PROVE  \A i \in F : o[i] = p[i]
<1> DEFINE T == {i \in F : o[i] # p[i]}
<1> SUFFICES ASSUME T # {} PROVE FALSE
  OBVIOUS
<1>0. n \in Nat
  BY DEF Marked, Laid
<1>1. T \in SUBSET Nat
  <2>1. \A j \in 1..n : j \in Nat
    BY <1>0
  <2>2. T \subseteq 1..n
    OBVIOUS
  <2> HIDE DEF T
  <2> QED
    BY <2>1, <2>2
<1>2. PICK i \in T : \A j \in T : i <= j
  <2> HIDE DEF T
  <2> QED
    BY <1>1, LeastNat
<1>3. i \in F /\ o[i] # p[i] /\ i \in 1..n
  OBVIOUS
<1>4. \A j \in F : j < i => o[j] = p[j]
  <2> SUFFICES ASSUME NEW j \in F, j < i PROVE o[j] = p[j]
    OBVIOUS
  <2>1. j \in 1..n /\ ~(i <= j)
    OBVIOUS
  <2>2. j \notin T
    <3> HIDE DEF T
    <3> QED
      BY <1>2, <2>1
  <2> QED
    BY <2>2
<1>5. ~(o[i] < p[i])
  BY <1>3, <1>4, NotBefore
<1>6. ~(p[i] < o[i])
  <2>1. \A j \in F : j < i => p[j] = o[j]
    BY <1>4
  <2> QED
    BY <1>3, <2>1, NotBefore
<1>7. o[i] \in Nat /\ p[i] \in Nat
  <2>1. n \in Nat
    BY DEF Marked, Laid
  <2> QED
    BY <1>3, <2>1 DEF Marked, Laid
<1> HIDE DEF T
<1> QED
  BY <1>3, <1>5, <1>6, <1>7

(* With at most one piece that is not marked, all are in the same places.  *)
LEMMA AllInPlace ==
    ASSUME NEW n, NEW l, NEW o, NEW m, NEW p, NEW F \in SUBSET (1..n), NEW K,
           Marked(n, l, o, F, K), Marked(n, m, p, F, K), o[n + 1] = p[n + 1],
           \A i, k \in 1..n : i \notin F /\ k \notin F => i = k, NEW i \in 1..n
    PROVE  o[i] = p[i] /\ l[i] = m[i]
<1>1. Laid(n, l, o) /\ Laid(n, m, p)
  BY DEF Marked
<1>2. n \in Nat /\ o[1] = 0 /\ p[1] = 0 /\ i \in 1..(n + 1)
  BY <1>1 DEF Laid
<1>3. \A j \in F : j \in 1..n /\ o[j] = p[j] /\ l[j] = 1 /\ m[j] = 1
  <2>1. \A j \in F : o[j] = p[j]
    BY InPlace
  <2> QED
    BY <2>1 DEF Marked
<1>4. \A j \in 1..n : o[j + 1] = o[j] + l[j] /\ p[j + 1] = p[j] + m[j] /\ l[j] \in Nat /\ m[j] \in Nat
  BY <1>1 DEF Laid
<1>5. o[i] \in Nat /\ p[i] \in Nat
  BY <1>1, <1>2 DEF Laid
<1>6. CASE i \in F
  BY <1>3, <1>6
<1>7. CASE i \notin F
  <2>1. o[i] = p[i]
    <3>1. CASE i = 1
      BY <1>2, <3>1
    <3>2. CASE i # 1
      <4>1. i - 1 \in 1..n /\ (i - 1) + 1 = i /\ i - 1 # i
        BY <1>2, <3>2
      <4>2. i - 1 \in F
        BY <1>7, <4>1
      <4>3. o[i - 1] = p[i - 1] /\ l[i - 1] = 1 /\ m[i - 1] = 1
        BY <1>3, <4>2
      <4> QED
        BY <1>4, <4>1, <4>3
    <3> QED
      BY <3>1, <3>2
  <2>2. o[i + 1] = p[i + 1]
    <3>1. CASE i = n
      BY <3>1
    <3>2. CASE i # n
      <4>1. i + 1 \in 1..n /\ i + 1 # i
        BY <1>2, <3>2
      <4> QED
        BY <1>3, <1>7, <4>1
    <3> QED
      BY <3>1, <3>2
  <2> QED
    BY <1>4, <1>5, <2>1, <2>2
<1> QED
  BY <1>6, <1>7

Lengths(ss) == [i \in DOMAIN ss |-> Len(ss[i])]

(* o holds where each sequence of ss lies in the concatenation.            *)
Offsets(o, ss) ==
    /\ Laid(Len(ss), Lengths(ss), o) /\ o[Len(ss) + 1] = Len(FlattenSeq(ss))
    /\ \A i \in 1..Len(ss) : \A j \in 1..Len(ss[i]) : FlattenSeq(ss)[o[i] + j] = ss[i][j]

LEMMA LengthsAre ==
    ASSUME NEW S, NEW ss \in Seq(Seq(S))
    PROVE  /\ Len(ss) \in Nat /\ DOMAIN ss = 1..Len(ss)
           /\ \A i \in 1..Len(ss) : ss[i] \in Seq(S) /\ Len(ss[i]) \in Nat /\ Lengths(ss)[i] = Len(ss[i])
<1>1. Len(ss) \in Nat /\ DOMAIN ss = 1..Len(ss)
  OBVIOUS
<1>2. \A i \in 1..Len(ss) : ss[i] \in Seq(S)
  OBVIOUS
<1>3. \A t \in Seq(S) : Len(t) \in Nat
  OBVIOUS
<1>4. \A i \in 1..Len(ss) : Lengths(ss)[i] = Len(ss[i])
  BY <1>1 DEF Lengths
<1> QED
  BY <1>1, <1>2, <1>3, <1>4

(* Each sequence of ss has a place in the concatenation.                   *)
LEMMA OffsetsExist ==
    ASSUME NEW S, NEW ss \in Seq(Seq(S))
    PROVE  \E o : Offsets(o, ss)
<1> DEFINE G == {rr \in Seq(Seq(S)) : \E o : Offsets(o, rr)}
<1>1. <<>> \in G
  <2> DEFINE o == [i \in 1..1 |-> 0]
  <2>1. PICK rr : rr = <<>>
    OBVIOUS
  <2>2. rr \in Seq(Seq(S)) /\ Len(rr) = 0
    BY <2>1
  <2>3. Len(FlattenSeq(rr)) = 0
    BY <2>1, FlattenFirst
  <2>4. \A l : Laid(0, l, o)
    BY DEF Laid
  <2>5. o[1] = 0
    OBVIOUS
  <2> HIDE DEF o
  <2>6. Offsets(o, rr)
    BY <2>2, <2>3, <2>4, <2>5 DEF Offsets
  <2> QED
    BY <2>1, <2>2, <2>6
<1>2. ASSUME NEW rr \in Seq(Seq(S)), rr \in G, NEW t \in Seq(S) PROVE Append(rr, t) \in G
  <2>1. PICK more, n, old, all : more = Append(rr, t) /\ n = Len(rr) /\ old = FlattenSeq(rr) /\ all = FlattenSeq(more)
    OBVIOUS
  <2>2. /\ n \in Nat /\ more \in Seq(Seq(S)) /\ Len(more) = n + 1
        /\ more[n + 1] = t /\ \A i \in 1..n : more[i] = rr[i]
    BY <2>1
  <2>3. PICK old_o : Offsets(old_o, rr)
    BY <1>2
  <2>4. PICK k, l : k = Len(old) /\ l = Len(t)
    OBVIOUS
  <2>5. /\ k \in Nat /\ l \in Nat /\ Len(all) = k + l
        /\ (\A j \in 1..k : all[j] = old[j]) /\ (\A j \in 1..l : all[k + j] = t[j])
    <3>1. all = old \o t /\ old \in Seq(S)
      BY <2>1, FlattenAppend, FlattenType
    <3> QED
      BY <2>4, <3>1, Joined
  <2>6. PICK f : f = Lengths(rr)
    OBVIOUS
  <2>7. Laid(n, f, old_o) /\ old_o[n + 1] = k
    BY <2>1, <2>3, <2>4, <2>6 DEF Offsets
  <2>8. \A i \in 1..n : \A j \in 1..Len(rr[i]) : old[old_o[i] + j] = rr[i][j]
    BY <2>1, <2>3 DEF Offsets
  <2>9. \A i \in 1..n : Len(rr[i]) = f[i]
    BY <2>1, <2>6, LengthsAre
  <2>10. PICK g : g = Lengths(more)
    OBVIOUS
  <2>11. g[n + 1] = l /\ \A i \in 1..n : g[i] = f[i]
    <3>1. n + 1 \in 1..(n + 1) /\ \A i \in 1..n : i \in 1..(n + 1)
      BY <2>2
    <3>2. \A i \in 1..(n + 1) : g[i] = Len(more[i])
      BY <2>2, <2>10, LengthsAre
    <3> QED
      BY <2>2, <2>4, <2>9, <3>1, <3>2
  <2> DEFINE o == [i \in 1..(n + 2) |-> IF i = n + 2 THEN k + l ELSE old_o[i]]
  <2>12. o[n + 2] = k + l /\ \A i \in 1..(n + 1) : o[i] = old_o[i]
    BY <2>2
  <2> HIDE DEF o
  <2>13. Laid(n + 1, g, o)
    <3>1. o[1] = 0
      BY <2>2, <2>7, <2>12 DEF Laid
    <3>2. \A i \in 1..(n + 1) : g[i] \in Nat
      <4> SUFFICES ASSUME NEW i \in 1..(n + 1) PROVE g[i] \in Nat
        OBVIOUS
      <4>1. i \in 1..n \/ i = n + 1
        BY <2>2
      <4> QED
        BY <2>5, <2>7, <2>11, <4>1 DEF Laid
    <3>3. \A i \in 1..(n + 2) : o[i] \in Nat
      <4> SUFFICES ASSUME NEW i \in 1..(n + 2) PROVE o[i] \in Nat
        OBVIOUS
      <4>1. CASE i \in 1..(n + 1)
        BY <2>7, <2>12, <4>1 DEF Laid
      <4>2. CASE i = n + 2
        BY <2>5, <2>12, <4>2
      <4> QED
        BY <2>2, <4>1, <4>2
    <3>4. \A i \in 1..(n + 1) : o[i + 1] = o[i] + g[i]
      <4> SUFFICES ASSUME NEW i \in 1..(n + 1) PROVE o[i + 1] = o[i] + g[i]
        OBVIOUS
      <4>1. CASE i = n + 1
        BY <2>2, <2>7, <2>11, <2>12, <4>1
      <4>2. CASE i \in 1..n
        <5>1. i + 1 \in 1..(n + 1)
          BY <2>2, <4>2
        <5> QED
          BY <2>7, <2>11, <2>12, <4>2, <5>1 DEF Laid
      <4> QED
        BY <2>2, <4>1, <4>2
    <3> QED
      BY <2>2, <3>1, <3>2, <3>3, <3>4 DEF Laid
  <2>14. ASSUME NEW i \in 1..(n + 1), NEW j \in 1..Len(more[i]) PROVE all[o[i] + j] = more[i][j]
    <3>1. CASE i = n + 1
      <4>1. more[i] = t /\ o[i] = k
        BY <2>2, <2>7, <2>12, <3>1
      <4> QED
        BY <2>4, <2>5, <4>1
    <3>2. CASE i \in 1..n
      <4>1. more[i] = rr[i] /\ o[i] = old_o[i] /\ j \in 1..f[i]
        BY <2>2, <2>9, <2>12, <3>2
      <4>2. old_o[i] \in Nat /\ f[i] \in Nat /\ old_o[i + 1] = old_o[i] + f[i]
        BY <2>2, <2>7, <3>2 DEF Laid
      <4>3. old_o[i + 1] <= k
        <5>1. i + 1 \in 1..(n + 1) /\ n + 1 \in 1..(n + 1) /\ i + 1 <= n + 1
          BY <2>2, <3>2
        <5> QED
          BY <2>7, <5>1, LaidRises
      <4>4. old_o[i] + j \in 1..k
        <5>1. PICK x, y : x = old_o[i] /\ y = f[i] /\ x \in Nat /\ y \in Nat
          BY <4>2
        <5>2. x + y <= k /\ j \in 1..y
          BY <4>1, <4>2, <4>3, <5>1
        <5>3. k \in Nat
          BY <2>5
        <5>4. x + j \in 1..k
          BY <5>1, <5>2, <5>3
        <5> QED
          BY <5>1, <5>4
      <4>5. all[old_o[i] + j] = old[old_o[i] + j]
        BY <2>5, <4>4
      <4>6. old[old_o[i] + j] = rr[i][j]
        BY <2>8, <2>9, <3>2, <4>1
      <4> QED
        BY <4>1, <4>5, <4>6
    <3> QED
      BY <2>2, <3>1, <3>2
  <2>15. Offsets(o, more)
    <3>1. n + 1 + 1 = n + 2
      BY <2>2
    <3>2. Laid(Len(more), Lengths(more), o)
      BY <2>2, <2>10, <2>13, Zenon
    <3>3. o[Len(more) + 1] = Len(FlattenSeq(more))
      BY <2>1, <2>2, <2>5, <2>12, <3>1, Zenon
    <3>4. \A i \in 1..Len(more) : \A j \in 1..Len(more[i]) : FlattenSeq(more)[o[i] + j] = more[i][j]
      BY <2>1, <2>2, <2>14, Zenon
    <3> QED
      BY <3>2, <3>3, <3>4, Zenon DEF Offsets
  <2> QED
    BY <2>1, <2>2, <2>15
<1> HIDE DEF G
<1>3. Seq(Seq(S)) \subseteq G
  BY <1>1, <1>2, AllSequences
<1> QED
  BY <1>3 DEF G

(* Two rows of sequences of codes that give one text; those of the items   *)
(* in F are of one code, of a kind (A) of which the others have none.      *)
Aligned(X, Y, A, F) ==
    /\ Len(X) = Len(Y) /\ FlattenSeq(X) = FlattenSeq(Y)
    /\ \A i \in 1..Len(X) :
          IF i \in F THEN /\ Len(X[i]) = 1 /\ X[i][1] \in A
                          /\ Len(Y[i]) = 1 /\ Y[i][1] \in A
          ELSE /\ \A j \in 1..Len(X[i]) : X[i][j] \notin A
               /\ \A j \in 1..Len(Y[i]) : Y[i][j] \notin A

LEMMA AlignedBack == \A X, Y, A, F : Aligned(X, Y, A, F) => Aligned(Y, X, A, F)
BY DEF Aligned

(* The places of the text that have a code in A.                           *)
Places(text, A) == {k \in 1..Len(text) : text[k] \in A}

LEMMA AlignedMarks ==
    ASSUME NEW C, NEW X \in Seq(Seq(C)), NEW Y, NEW A, NEW F, Aligned(X, Y, A, F), NEW o, Offsets(o, X)
    PROVE  Marked(Len(X), Lengths(X), o, F, Places(FlattenSeq(X), A))
<1>1. PICK n, text, l : n = Len(X) /\ text = FlattenSeq(X) /\ l = Lengths(X)
  OBVIOUS
<1>2. /\ n \in Nat
      /\ \A i \in 1..n : X[i] \in Seq(C) /\ Len(X[i]) \in Nat /\ l[i] = Len(X[i])
  BY <1>1, LengthsAre
<1>3. /\ Laid(n, l, o) /\ o[n + 1] = Len(text)
      /\ \A i \in 1..n : \A j \in 1..Len(X[i]) : text[o[i] + j] = X[i][j]
  BY <1>1 DEF Offsets
<1>4. \A i \in 1..n : i \in 1..(n + 1) /\ i + 1 \in 1..(n + 1) /\ i + 1 <= n + 1
  BY <1>2
<1>5. n + 1 \in 1..(n + 1)
  BY <1>2
<1>6. ASSUME NEW i \in 1..n
      PROVE  /\ o[i] \in Nat /\ o[i + 1] = o[i] + l[i] /\ o[i + 1] <= Len(text) /\ Len(text) \in Nat
             /\ l[i] \in Nat
  <2>1. o[i + 1] <= o[n + 1]
    BY <1>3, <1>4, <1>5, LaidRises
  <2> QED
    BY <1>2, <1>3, <1>4, <1>5, <2>1 DEF Laid
<1>7. ASSUME NEW i \in 1..n, i \in F PROVE l[i] = 1 /\ o[i] + 1 \in Places(text, A)
  <2>1. Len(X[i]) = 1 /\ X[i][1] \in A
    BY <1>1, <1>7 DEF Aligned
  <2>2. l[i] = 1 /\ 1 \in 1..Len(X[i])
    <3>1. l[i] = Len(X[i])
      BY <1>2
    <3> QED
      BY <2>1, <3>1
  <2>4. text[o[i] + 1] \in A
    BY <1>3, <2>1, <2>2
  <2>3. o[i] + 1 \in 1..Len(text)
    <3>1. /\ o[i] \in Nat /\ o[i + 1] = o[i] + l[i] /\ o[i + 1] <= Len(text) /\ Len(text) \in Nat
      BY <1>6
    <3> QED
      BY <2>2, <3>1
  <2> QED
    BY <2>2, <2>3, <2>4 DEF Places
<1>8. ASSUME NEW i \in 1..n, i \notin F, NEW k \in Places(text, A), o[i] < k, k <= o[i + 1] PROVE FALSE
  <2>1. \A j \in 1..Len(X[i]) : X[i][j] \notin A
    BY <1>1, <1>8 DEF Aligned
  <2>2. k \in Nat /\ text[k] \in A
    BY <1>6 DEF Places
  <2>3. PICK j : j = k - o[i]
    OBVIOUS
  <2>4. j \in 1..l[i] /\ k = o[i] + j
    BY <1>6, <1>8, <2>2, <2>3
  <2>5. j \in 1..Len(X[i])
    BY <1>2, <2>4
  <2>6. text[k] = X[i][j]
    BY <1>3, <2>4, <2>5
  <2> QED
    BY <2>1, <2>2, <2>5, <2>6
<1>9. Marked(n, l, o, F, Places(text, A))
  BY <1>3, <1>7, <1>8 DEF Marked
<1> QED
  BY <1>1, <1>9

(* Both rows of an alignment, with the places of their sequences.          *)
LEMMA AlignedRows ==
    ASSUME NEW C, NEW X \in Seq(Seq(C)), NEW Y \in Seq(Seq(C)), NEW A, NEW F, Aligned(X, Y, A, F)
    PROVE  \E o, p : /\ Offsets(o, X) /\ Offsets(p, Y) /\ o[Len(X) + 1] = p[Len(X) + 1]
                     /\ Marked(Len(X), Lengths(X), o, F, Places(FlattenSeq(X), A))
                     /\ Marked(Len(X), Lengths(Y), p, F, Places(FlattenSeq(X), A))
<1>1. PICK o : Offsets(o, X)
  BY OffsetsExist
<1>2. PICK p : Offsets(p, Y)
  BY OffsetsExist
<1>3. Len(X) = Len(Y) /\ FlattenSeq(X) = FlattenSeq(Y) /\ Aligned(Y, X, A, F)
  BY AlignedBack DEF Aligned
<1>4. Marked(Len(X), Lengths(X), o, F, Places(FlattenSeq(X), A))
  BY <1>1, AlignedMarks
<1>5. Marked(Len(Y), Lengths(Y), p, F, Places(FlattenSeq(Y), A))
  BY <1>2, <1>3, AlignedMarks
<1>6. o[Len(X) + 1] = Len(FlattenSeq(X)) /\ p[Len(Y) + 1] = Len(FlattenSeq(Y))
  BY <1>1, <1>2 DEF Offsets
<1> QED
  BY <1>1, <1>2, <1>3, <1>4, <1>5, <1>6, Zenon

(* Sequences that are in one place of one text are the same.               *)
LEMMA SameThere ==
    ASSUME NEW C, NEW X \in Seq(Seq(C)), NEW Y \in Seq(Seq(C)), FlattenSeq(X) = FlattenSeq(Y),
           NEW o, Offsets(o, X), NEW p, Offsets(p, Y), NEW i \in 1..Len(X), i \in 1..Len(Y),
           o[i] = p[i], Len(X[i]) = Len(Y[i])
    PROVE  X[i] = Y[i]
<1>1. PICK s, t : s = X[i] /\ t = Y[i]
  OBVIOUS
<1>2. s \in Seq(C) /\ t \in Seq(C) /\ Len(s) = Len(t)
  BY <1>1
<1>3. \A j \in 1..Len(s) : s[j] = t[j]
  BY <1>1 DEF Offsets
<1>4. s = t
  BY <1>2, <1>3, SameSeq
<1> QED
  BY <1>1, <1>4

(* The items in F have the same codes in both rows.                        *)
LEMMA FilesSame ==
    ASSUME NEW C, NEW X \in Seq(Seq(C)), NEW Y \in Seq(Seq(C)), NEW A, NEW F \in SUBSET (1..Len(X)),
           Aligned(X, Y, A, F), NEW i \in F
    PROVE  X[i] = Y[i]
<1>1. PICK o, p : /\ Offsets(o, X) /\ Offsets(p, Y) /\ o[Len(X) + 1] = p[Len(X) + 1]
                  /\ Marked(Len(X), Lengths(X), o, F, Places(FlattenSeq(X), A))
                  /\ Marked(Len(X), Lengths(Y), p, F, Places(FlattenSeq(X), A))
  BY AlignedRows
<1>2. o[i] = p[i]
  <2>1. PICK n, l, m, K : n = Len(X) /\ l = Lengths(X) /\ m = Lengths(Y) /\ K = Places(FlattenSeq(X), A)
    OBVIOUS
  <2>2. Marked(n, l, o, F, K) /\ Marked(n, m, p, F, K) /\ o[n + 1] = p[n + 1] /\ F \in SUBSET (1..n)
    BY <1>1, <2>1
  <2> QED
    BY <2>2, InPlace
<1>3. i \in 1..Len(X) /\ i \in 1..Len(Y) /\ Len(X[i]) = Len(Y[i]) /\ FlattenSeq(X) = FlattenSeq(Y)
  BY DEF Aligned
<1> QED
  BY <1>1, <1>2, <1>3, SameThere

(* With at most one item that is not in F, the rows are the same.          *)
LEMMA RowsSame ==
    ASSUME NEW C, NEW X \in Seq(Seq(C)), NEW Y \in Seq(Seq(C)), NEW A, NEW F \in SUBSET (1..Len(X)),
           Aligned(X, Y, A, F), \A i, k \in 1..Len(X) : i \notin F /\ k \notin F => i = k
    PROVE  X = Y
<1>1. PICK o, p : /\ Offsets(o, X) /\ Offsets(p, Y) /\ o[Len(X) + 1] = p[Len(X) + 1]
                  /\ Marked(Len(X), Lengths(X), o, F, Places(FlattenSeq(X), A))
                  /\ Marked(Len(X), Lengths(Y), p, F, Places(FlattenSeq(X), A))
  BY AlignedRows
<1>2. Len(X) = Len(Y) /\ FlattenSeq(X) = FlattenSeq(Y)
  BY DEF Aligned
<1>3. ASSUME NEW i \in 1..Len(X) PROVE X[i] = Y[i]
  <2>1. o[i] = p[i] /\ Lengths(X)[i] = Lengths(Y)[i]
    BY <1>1, AllInPlace
  <2>2. i \in 1..Len(Y)
    BY <1>2
  <2>3. Len(X[i]) = Len(Y[i])
    BY <2>1, <2>2, LengthsAre
  <2>4. Offsets(o, X) /\ Offsets(p, Y) /\ o[i] = p[i]
    BY <1>1, <2>1
  <2>5. FlattenSeq(X) = FlattenSeq(Y)
    BY <1>2
  <2> QED
    BY <2>2, <2>3, <2>4, <2>5, SameThere
<1> QED
  BY <1>2, <1>3, SameSeq

(* V is got from X, sequence by sequence.                                  *)
LikeLong(V, X) == Len(V) = Len(X) /\ \A i \in 1..Len(X) : Len(V[i]) = Len(X[i])

(* Piece i of n, l[i] long, is X[i].                                       *)
Reads(text, n, l, o, X) == \A i \in 1..n : \A j \in 1..l[i] : text[o[i] + j] = X[i][j]

(* A row of results lies like the row of codes it is got from.             *)
LEMMA OffsetsByLength ==
    ASSUME NEW S, NEW X \in Seq(Seq(S)), NEW o, Offsets(o, X),
           NEW T, NEW V \in Seq(Seq(T)), LikeLong(V, X)
    PROVE  /\ Len(FlattenSeq(V)) = o[Len(X) + 1]
           /\ Reads(FlattenSeq(V), Len(X), Lengths(X), o, V)
<1>0. Len(V) = Len(X) /\ \A i \in 1..Len(X) : Len(V[i]) = Len(X[i])
  BY DEF LikeLong
<1>1. PICK v : Offsets(v, V)
  BY OffsetsExist
<1>2. PICK n, l, m : n = Len(X) /\ l = Lengths(X) /\ m = Lengths(V)
  OBVIOUS
<1>3. Laid(n, l, o) /\ Laid(n, m, v) /\ v[n + 1] = Len(FlattenSeq(V))
  BY <1>0, <1>1, <1>2 DEF Offsets
<1>4. \A i \in 1..n : l[i] = Len(X[i]) /\ m[i] = Len(V[i])
  BY <1>0, <1>2, LengthsAre
<1>5. \A i \in 1..n : l[i] = m[i]
  BY <1>0, <1>2, <1>4
<1>6. \A i \in 1..(n + 1) : o[i] = v[i]
  BY <1>3, <1>5, LaidByLength
<1>7. n \in Nat
  BY <1>3 DEF Laid
<1>8. n + 1 \in 1..(n + 1) /\ \A i \in 1..n : i \in 1..(n + 1)
  BY <1>7
<1>9. \A i \in 1..n : \A j \in 1..Len(V[i]) : FlattenSeq(V)[v[i] + j] = V[i][j]
  BY <1>0, <1>1, <1>2 DEF Offsets
<1>10. ASSUME NEW i \in 1..n, NEW j \in 1..Len(X[i]) PROVE FlattenSeq(V)[o[i] + j] = V[i][j]
  <2>1. o[i] = v[i] /\ Len(V[i]) = Len(X[i])
    BY <1>0, <1>2, <1>6, <1>8
  <2>2. j \in 1..Len(V[i])
    BY <2>1
  <2> QED
    BY <1>9, <2>1, <2>2
<1>11. Reads(FlattenSeq(V), n, l, o, V)
  <2> SUFFICES ASSUME NEW i \in 1..n, NEW j \in 1..l[i] PROVE FlattenSeq(V)[o[i] + j] = V[i][j]
    BY DEF Reads
  <2>1. j \in 1..Len(X[i])
    BY <1>4
  <2> QED
    BY <1>10, <2>1
<1> QED
  BY <1>2, <1>3, <1>6, <1>8, <1>11

(* What is in V is determined by what is in X, as what is in W by Y.       *)
Determined(n, l, m, F, X, Y, V, W) ==
    /\ \A i \in F : V[i] = W[i]
    /\ \A i, k \in 1..n : i \notin F /\ k \notin F =>
          \A j \in 1..l[i], q \in 1..m[k] : X[i][j] = Y[k][q] => V[i][j] = W[k][q]

(* Two rows of one text and the rows of their results.                     *)
Results(n, l, o, m, p, F, K, text, X, Y, V, W, vs, ws) ==
    /\ F \in SUBSET (1..n) /\ o[n + 1] = p[n + 1]
    /\ Marked(n, l, o, F, K) /\ Marked(n, m, p, F, K)
    /\ Reads(text, n, l, o, X) /\ Reads(text, n, m, p, Y)
    /\ Reads(vs, n, l, o, V) /\ Reads(ws, n, m, p, W)
    /\ Determined(n, l, m, F, X, Y, V, W)

(* Marked pieces have one result, and others of one code have one result.  *)
LEMMA RowsOfResults ==
    ASSUME NEW n, NEW l, NEW o, NEW m, NEW p, NEW F, NEW K,
           NEW text, NEW X, NEW Y, NEW V, NEW W, NEW vs, NEW ws,
           Results(n, l, o, m, p, F, K, text, X, Y, V, W, vs, ws)
    PROVE  \A k \in 1..o[n + 1] : vs[k] = ws[k]
<1>0. /\ F \in SUBSET (1..n) /\ o[n + 1] = p[n + 1]
      /\ Marked(n, l, o, F, K) /\ Marked(n, m, p, F, K)
      /\ Reads(text, n, l, o, X) /\ Reads(text, n, m, p, Y)
      /\ Reads(vs, n, l, o, V) /\ Reads(ws, n, m, p, W)
      /\ Determined(n, l, m, F, X, Y, V, W)
  BY DEF Results
<1>1. Laid(n, l, o) /\ Laid(n, m, p) /\ n \in Nat
  BY <1>0 DEF Marked, Laid
<1>2. n + 1 \in 1..(n + 1) /\ \A i \in 1..n : i \in 1..(n + 1)
  BY <1>1
<1>3. \A i \in F : i \in 1..n /\ o[i] = p[i] /\ l[i] = 1 /\ m[i] = 1 /\ o[i] + 1 \in K
  <2>1. \A i \in F : o[i] = p[i]
    BY <1>0, InPlace
  <2> QED
    BY <1>0, <2>1 DEF Marked
<1>4. \A i \in 1..n : i \notin F =>
          (\A k \in K : ~(o[i] < k /\ k <= o[i + 1])) /\ \A k \in K : ~(p[i] < k /\ k <= p[i + 1])
  BY <1>0 DEF Marked
<1> SUFFICES ASSUME NEW k \in 1..o[n + 1] PROVE vs[k] = ws[k]
  OBVIOUS
<1>5. PICK i \in 1..n : k - o[i] \in 1..l[i]
  BY <1>1, LaidCovers
<1>6. PICK r \in 1..n : k - p[r] \in 1..m[r]
  BY <1>0, <1>1, LaidCovers
<1>7. PICK j, q : j = k - o[i] /\ q = k - p[r]
  OBVIOUS
<1>8. /\ o[i] \in Nat /\ p[r] \in Nat /\ p[i] \in Nat /\ o[n + 1] \in Nat
      /\ l[i] \in Nat /\ m[r] \in Nat /\ o[i + 1] = o[i] + l[i] /\ p[r + 1] = p[r] + m[r]
  BY <1>1, <1>2 DEF Laid
<1>9. j \in 1..l[i] /\ q \in 1..m[r] /\ k = o[i] + j /\ k = p[r] + q
  BY <1>5, <1>6, <1>7, <1>8
<1>10. text[k] = X[i][j] /\ text[k] = Y[r][q] /\ vs[k] = V[i][j] /\ ws[k] = W[r][q]
  BY <1>0, <1>9 DEF Reads
<1>11. o[i] < k /\ k <= o[i + 1] /\ p[r] < k /\ k <= p[r + 1]
  BY <1>8, <1>9
<1>12. ASSUME i \in F PROVE r \in F /\ j = 1
  <2>1. l[i] = 1 /\ o[i] + 1 \in K
    BY <1>3, <1>12
  <2>2. j = 1 /\ k \in K
    BY <1>9, <2>1
  <2> QED
    BY <1>4, <1>11, <2>2
<1>13. ASSUME r \in F PROVE i \in F /\ q = 1
  <2>1. m[r] = 1 /\ p[r] + 1 \in K
    BY <1>3, <1>13
  <2>2. q = 1 /\ k \in K
    BY <1>9, <2>1
  <2> QED
    BY <1>4, <1>11, <2>2
<1>14. CASE i \notin F
  BY <1>0, <1>9, <1>10, <1>13, <1>14 DEF Determined
<1>15. CASE i \in F
  <2>1. r \in F /\ j = 1 /\ q = 1 /\ o[i] = p[i]
    BY <1>3, <1>12, <1>13, <1>15
  <2>2. p[i] = p[r]
    BY <1>8, <1>9, <2>1
  <2>3. ASSUME NEW s \in F, NEW t \in F, s < t PROVE p[s] # p[t]
    <3>1. s \in 1..n /\ t \in 1..n /\ m[s] = 1
      BY <1>3
    <3>2. s + 1 \in 1..(n + 1) /\ t \in 1..(n + 1) /\ s + 1 <= t /\ s \in 1..(n + 1)
      BY <1>1, <2>3, <3>1
    <3>3. p[s + 1] <= p[t]
      BY <1>1, <3>2, LaidRises
    <3>4. p[s + 1] = p[s] + 1 /\ p[s] \in Nat /\ p[t] \in Nat
      BY <1>1, <3>1, <3>2 DEF Laid
    <3> QED
      BY <3>3, <3>4
  <2>4. ~(i < r) /\ ~(r < i)
    BY <1>15, <2>1, <2>2, <2>3
  <2>5. i = r
    BY <1>1, <2>4
  <2> QED
    BY <1>0, <1>10, <1>15, <2>1, <2>5 DEF Determined
<1> QED
  BY <1>14, <1>15

(* V is got from X and W from Y, code by code.                             *)
Yields(X, Y, F, V, W) ==
    /\ LikeLong(V, X) /\ LikeLong(W, Y)
    /\ Determined(Len(X), Lengths(X), Lengths(Y), F, X, Y, V, W)

(* What is got from the codes one by one gives one row of results.         *)
LEMMA ResultsSame ==
    ASSUME NEW C, NEW X \in Seq(Seq(C)), NEW Y \in Seq(Seq(C)), NEW A, NEW F \in SUBSET (1..Len(X)),
           Aligned(X, Y, A, F), NEW T, NEW V \in Seq(Seq(T)), NEW W \in Seq(Seq(T)), Yields(X, Y, F, V, W)
    PROVE  FlattenSeq(V) = FlattenSeq(W)
<1>1. PICK o, p : /\ Offsets(o, X) /\ Offsets(p, Y) /\ o[Len(X) + 1] = p[Len(X) + 1]
                  /\ Marked(Len(X), Lengths(X), o, F, Places(FlattenSeq(X), A))
                  /\ Marked(Len(X), Lengths(Y), p, F, Places(FlattenSeq(X), A))
  BY AlignedRows
<1>2. PICK n, l, m, K, text, vs, ws :
         /\ n = Len(X) /\ l = Lengths(X) /\ m = Lengths(Y) /\ K = Places(text, A) /\ text = FlattenSeq(X)
         /\ vs = FlattenSeq(V) /\ ws = FlattenSeq(W)
  OBVIOUS
<1>3. n = Len(Y) /\ text = FlattenSeq(Y)
  BY <1>2 DEF Aligned
<1>4. Marked(n, l, o, F, K) /\ Marked(n, m, p, F, K) /\ o[n + 1] = p[n + 1] /\ F \in SUBSET (1..n)
  BY <1>1, <1>2
<1>5. LikeLong(V, X) /\ LikeLong(W, Y) /\ Determined(n, l, m, F, X, Y, V, W)
  BY <1>2 DEF Yields
<1>6. Len(vs) = o[n + 1] /\ Reads(vs, n, l, o, V)
  <2>1. /\ Len(FlattenSeq(V)) = o[Len(X) + 1]
        /\ Reads(FlattenSeq(V), Len(X), Lengths(X), o, V)
    BY <1>1, <1>5, OffsetsByLength
  <2> QED
    BY <1>2, <2>1
<1>7. Len(ws) = p[n + 1] /\ Reads(ws, n, m, p, W)
  <2>1. /\ Len(FlattenSeq(W)) = p[Len(Y) + 1]
        /\ Reads(FlattenSeq(W), Len(Y), Lengths(Y), p, W)
    BY <1>1, <1>5, OffsetsByLength
  <2> QED
    BY <1>2, <1>3, <2>1
<1>8. Reads(text, n, l, o, X)
  <2>1. \A i \in 1..Len(X) : \A j \in 1..Len(X[i]) : FlattenSeq(X)[o[i] + j] = X[i][j]
    BY <1>1 DEF Offsets
  <2>2. \A i \in 1..n : l[i] = Len(X[i])
    BY <1>2, LengthsAre
  <2> QED
    BY <1>2, <2>1, <2>2 DEF Reads
<1>9. Reads(text, n, m, p, Y)
  <2>1. \A i \in 1..Len(Y) : \A j \in 1..Len(Y[i]) : FlattenSeq(Y)[p[i] + j] = Y[i][j]
    BY <1>1 DEF Offsets
  <2>2. \A i \in 1..n : m[i] = Len(Y[i])
    BY <1>2, <1>3, LengthsAre
  <2> QED
    BY <1>2, <1>3, <2>1, <2>2 DEF Reads
<1>10. \A k \in 1..o[n + 1] : vs[k] = ws[k]
  <2>1. Marked(n, l, o, F, K) /\ Marked(n, m, p, F, K)
    BY <1>4
  <2>2. o[n + 1] = p[n + 1]
    BY <1>4
  <2>3. F \in SUBSET (1..n)
    BY <1>4
  <2>4. Determined(n, l, m, F, X, Y, V, W)
    BY <1>5
  <2>5. Reads(vs, n, l, o, V) /\ Reads(ws, n, m, p, W)
    BY <1>6, <1>7
  <2>6. Results(n, l, o, m, p, F, K, text, X, Y, V, W, vs, ws)
    BY <1>8, <1>9, <2>1, <2>2, <2>3, <2>4, <2>5 DEF Results
  <2> QED
    BY <2>6, RowsOfResults
<1>11. vs \in Seq(T) /\ ws \in Seq(T)
  BY <1>2, FlattenType
<1>12. Len(vs) = Len(ws) /\ \A k \in 1..Len(vs) : vs[k] = ws[k]
  BY <1>4, <1>6, <1>7, <1>10
<1> QED
  BY <1>2, <1>11, <1>12, SameSeq

-----------------------------------------------------------------------------
(* Codes.                                                                  *)

LEMMA SequencesFromFront ==
    ASSUME NEW S, NEW G, <<>> \in G,
           \A s \in Seq(S) : s \in G => \A e \in S : <<e>> \o s \in G
    PROVE  Seq(S) \subseteq G
<1> DEFINE H == {s \in Seq(S) : \A t \in Seq(S) : t \in G => s \o t \in G}
<1>1. <<>> \in H
  <2>1. \A t \in Seq(S) : <<>> \o t = t
    BY EmptyJoined
  <2> QED
    BY <2>1
<1>2. ASSUME NEW s \in Seq(S), s \in H, NEW e \in S PROVE Append(s, e) \in H
  <2>1. Append(s, e) \in Seq(S) /\ <<e>> \in Seq(S) /\ Append(s, e) = s \o <<e>>
    OBVIOUS
  <2> SUFFICES ASSUME NEW t \in Seq(S), t \in G PROVE Append(s, e) \o t \in G
    BY <2>1
  <2>2. <<e>> \o t \in G /\ <<e>> \o t \in Seq(S)
    BY <2>1
  <2>3. s \o (<<e>> \o t) \in G
    BY <1>2, <2>2
  <2>4. (s \o <<e>>) \o t = s \o (<<e>> \o t)
    BY <2>1, Associative
  <2> QED
    BY <2>1, <2>3, <2>4
<1> HIDE DEF H
<1>3. Seq(S) \subseteq H
  BY <1>1, <1>2, AllSequences
<1>4. ASSUME NEW s \in Seq(S) PROVE s \in G
  <2>1. s \o <<>> = s
    BY EmptyJoined
  <2>2. s \in H /\ <<>> \in Seq(S)
    BY <1>3
  <2>3. s \o <<>> \in G
    BY <2>2, Zenon DEF H
  <2> QED
    BY <2>1, <2>3, Zenon
<1> QED
  BY <1>4

(* What follows a code, another one or nothing, starts with a length.      *)
Opens(u) == u # <<>> => u[1] \in Nat

(* What is hashed, and what a length is written before.                    *)
Text  == Seq(Int)
Bytes == Seq(Nat)

(* \o, but not for the provers to look into.                               *)
s ++ t == s \o t

Decodable(C) ==
    /\ C \subseteq Text
    /\ \A c \in C : c # <<>> /\ c[1] \in Nat
    /\ \A c, e \in C : \A u, v \in Text : Opens(u) /\ Opens(v) /\ c ++ u = e ++ v => c = e /\ u = v

LEMMA FlattenFront ==
    ASSUME NEW S, NEW c \in Seq(S), NEW cs \in Seq(Seq(S))
    PROVE  FlattenSeq(<<c>> \o cs) = c \o FlattenSeq(cs)
<1>1. <<c>> \in Seq(Seq(S))
  OBVIOUS
<1>2. FlattenSeq(<<c>> \o cs) = FlattenSeq(<<c>>) \o FlattenSeq(cs)
  BY <1>1, FlattenJoin
<1> QED
  BY <1>2, FlattenFirst

LEMMA HeadAndTail ==
    ASSUME NEW S, NEW s \in Seq(S), s # <<>>
    PROVE  \E e \in S : \E r \in Seq(S) : s = <<e>> \o r
<1>1. s[1] \in S /\ Tail(s) \in Seq(S) /\ Len(s) \in Nat /\ Len(s) >= 1 /\ Len(Tail(s)) = Len(s) - 1
  OBVIOUS
<1>2. \A k \in 1..(Len(s) - 1) : Tail(s)[k] = s[k + 1]
  OBVIOUS
<1>3. <<s[1]>> \o Tail(s) = s
  <2>1. PICK a, r : a = <<s[1]>> /\ r = Tail(s) /\ a \in Seq(S) /\ r \in Seq(S) /\ Len(a) = 1 /\ a[1] = s[1]
    <3>1. PICK e \in S : e = s[1]
      BY <1>1
    <3>2. <<e>> \in Seq(S) /\ Len(<<e>>) = 1 /\ <<e>>[1] = e
      OBVIOUS
    <3> QED
      BY <1>1, <3>1, <3>2
  <2>2. /\ a \o r \in Seq(S) /\ Len(a \o r) = Len(s) /\ (a \o r)[1] = s[1]
        /\ \A k \in 1..(Len(s) - 1) : (a \o r)[1 + k] = r[k]
    BY <1>1, <2>1, Joined
  <2>3. ASSUME NEW k \in 1..Len(s) PROVE (a \o r)[k] = s[k]
    <3>1. CASE k = 1
      BY <2>2, <3>1
    <3>2. CASE k # 1
      <4>1. k - 1 \in 1..(Len(s) - 1) /\ 1 + (k - 1) = k /\ (k - 1) + 1 = k
        BY <1>1, <3>2
      <4>2. (a \o r)[1 + (k - 1)] = r[k - 1] /\ Tail(s)[k - 1] = s[(k - 1) + 1]
        BY <1>2, <2>2, <4>1
      <4> QED
        BY <2>1, <4>1, <4>2
    <3> QED
      BY <3>1, <3>2
  <2>4. a \o r = s
    BY <2>2, <2>3, SameSeq
  <2> QED
    BY <2>1, <2>4
<1> QED
  BY <1>1, <1>3

LEMMA CodesOpen ==
    ASSUME NEW C, Decodable(C), NEW cs \in Seq(C)
    PROVE  /\ FlattenSeq(cs) \in Text /\ Opens(FlattenSeq(cs))
           /\ cs # <<>> => FlattenSeq(cs) # <<>>
<1>1. C \subseteq Seq(Int) /\ \A c \in C : c # <<>> /\ c[1] \in Nat
  BY DEF Decodable, Text
<1>2. \A s \in Seq(C) : s \in Seq(Seq(Int))
  BY <1>1
<1>3. \A s \in Seq(C) : FlattenSeq(s) \in Seq(Int)
  BY <1>2, FlattenType
<1>4. CASE cs = <<>>
  BY <1>3, <1>4, FlattenFirst DEF Opens, Text
<1>5. CASE cs # <<>>
  <2>1. PICK c \in C, r \in Seq(C) : cs = <<c>> \o r
    BY <1>5, HeadAndTail
  <2>2. FlattenSeq(<<c>> \o r) = c \o FlattenSeq(r)
    BY <1>1, <1>2, FlattenFront
  <2>3. PICK x, y : x = c /\ y = FlattenSeq(r)
    OBVIOUS
  <2>4. x \in Seq(Int) /\ y \in Seq(Int) /\ x # <<>> /\ x[1] \in Nat
    BY <1>1, <1>3, <2>3
  <2>5. Len(x) >= 1 /\ Len(x) \in Nat
    BY <2>4
  <2>6. (x \o y)[1] = x[1] /\ Len(x \o y) >= 1
    BY <2>4, <2>5, Joined
  <2>7. x \o y # <<>>
    BY <2>6
  <2>8. FlattenSeq(cs) = x \o y
    BY <2>1, <2>2, <2>3
  <2> QED
    BY <1>3, <2>4, <2>6, <2>7, <2>8 DEF Opens, Text
<1> QED
  BY <1>4, <1>5 DEF Text

(* One text is not that of two sequences of codes.                         *)
LEMMA Decodes ==
    ASSUME NEW C, Decodable(C), NEW cs \in Seq(C), NEW es \in Seq(C), FlattenSeq(cs) = FlattenSeq(es)
    PROVE  cs = es
<1> DEFINE G == {s \in Seq(C) : \A t \in Seq(C) : FlattenSeq(s) = FlattenSeq(t) => s = t}
<1>1. <<>> \in G
  BY CodesOpen, FlattenFirst
<1>2. ASSUME NEW s \in Seq(C), s \in G, NEW c \in C PROVE <<c>> \o s \in G
  <2>1. <<c>> \in Seq(C) /\ <<c>> \o s \in Seq(C)
    OBVIOUS
  <2> SUFFICES ASSUME NEW t \in Seq(C), FlattenSeq(<<c>> \o s) = FlattenSeq(t) PROVE <<c>> \o s = t
    BY <2>1
  <2>2. <<c>> \o s # <<>>
    OBVIOUS
  <2>3. t # <<>>
    BY <2>1, <2>2, CodesOpen, FlattenFirst
  <2>4. PICK e \in C, r \in Seq(C) : t = <<e>> \o r
    BY <2>3, HeadAndTail
  <2>5. C \subseteq Seq(Int) /\ s \in Seq(Seq(Int)) /\ r \in Seq(Seq(Int))
    BY DEF Decodable, Text
  <2>6. FlattenSeq(<<c>> \o s) = c \o FlattenSeq(s) /\ FlattenSeq(<<e>> \o r) = e \o FlattenSeq(r)
    BY <2>5, FlattenFront
  <2>7. /\ FlattenSeq(s) \in Text /\ Opens(FlattenSeq(s))
        /\ FlattenSeq(r) \in Text /\ Opens(FlattenSeq(r))
    BY CodesOpen
  <2>8. c ++ FlattenSeq(s) = e ++ FlattenSeq(r)
    BY <2>4, <2>6 DEF ++
  <2>9. c = e /\ FlattenSeq(s) = FlattenSeq(r)
    BY <2>7, <2>8 DEF Decodable
  <2> QED
    BY <1>2, <2>4, <2>9
<1> HIDE DEF G
<1>3. Seq(C) \subseteq G
  BY <1>1, <1>2, SequencesFromFront
<1> QED
  BY <1>3 DEF G

(* The facts about sequences above, for texts.                             *)

LEMMA TextTyped ==
    /\ <<>> \in Text /\ \A n \in Int : <<n>> \in Text /\ Len(<<n>>) = 1 /\ <<n>>[1] = n
    /\ \A s \in Bytes : s \in Text /\ Len(s) \in Nat
    /\ \A s \in Text : Len(s) \in Nat /\ (Len(s) > 0 => s # <<>>)
BY DEF Text, Bytes

LEMMA TextJoined ==
    \A s, t \in Text :
        /\ s ++ t \in Text /\ Len(s ++ t) = Len(s) + Len(t)
        /\ Len(s) > 0 => (s ++ t)[1] = s[1] /\ s ++ t # <<>>
<1> SUFFICES ASSUME NEW s \in Text, NEW t \in Text
             PROVE  /\ s ++ t \in Text /\ Len(s ++ t) = Len(s) + Len(t)
                    /\ Len(s) > 0 => (s ++ t)[1] = s[1] /\ s ++ t # <<>>
  OBVIOUS
<1>1. PICK S : S = Int
  OBVIOUS
<1>2. s \in Seq(S) /\ t \in Seq(S)
  BY <1>1 DEF Text
<1>3. /\ s ++ t \in Seq(S) /\ Len(s) \in Nat /\ Len(t) \in Nat /\ Len(s ++ t) = Len(s) + Len(t)
      /\ \A k \in 1..Len(s) : (s ++ t)[k] = s[k]
  BY <1>2, Joined DEF ++
<1>4. ASSUME Len(s) > 0 PROVE (s ++ t)[1] = s[1] /\ s ++ t # <<>>
  <2>1. 1 \in 1..Len(s) /\ Len(s ++ t) # 0
    BY <1>3, <1>4
  <2> QED
    BY <1>3, <2>1
<1> QED
  BY <1>1, <1>3, <1>4 DEF Text

LEMMA TextAssociative == \A s, t, u \in Text : (s ++ t) ++ u = s ++ (t ++ u)
<1> SUFFICES ASSUME NEW s \in Text, NEW t \in Text, NEW u \in Text PROVE (s ++ t) ++ u = s ++ (t ++ u)
  OBVIOUS
<1>1. PICK S : S = Int
  OBVIOUS
<1>2. s \in Seq(S) /\ t \in Seq(S) /\ u \in Seq(S)
  BY <1>1 DEF Text
<1> QED
  BY <1>2, Associative DEF ++

LEMMA TextSplit ==
    \A s, t, u, v \in Text : Len(s) = Len(t) /\ s ++ u = t ++ v => s = t /\ u = v
<1> SUFFICES ASSUME NEW s \in Text, NEW t \in Text, NEW u \in Text, NEW v \in Text, Len(s) = Len(t), s ++ u = t ++ v
             PROVE  s = t /\ u = v
  OBVIOUS
<1>1. PICK S : S = Int
  OBVIOUS
<1>2. s \in Seq(S) /\ t \in Seq(S) /\ u \in Seq(S) /\ v \in Seq(S)
  BY <1>1 DEF Text
<1> QED
  BY <1>2, SplitSame DEF ++

LEMMA TextEmpty == \A s \in Text : <<>> ++ s = s /\ s ++ <<>> = s
<1> SUFFICES ASSUME NEW s \in Text PROVE <<>> ++ s = s /\ s ++ <<>> = s
  OBVIOUS
<1>1. PICK S : S = Int
  OBVIOUS
<1>2. s \in Seq(S)
  BY <1>1 DEF Text
<1> QED
  BY <1>2, EmptyJoined DEF ++

LEMMA PrefixedTyped ==
    \A s \in Bytes :
        /\ WriteLengthPrefixed(s) \in Text /\ s \in Text /\ Len(s) \in Nat
        /\ WriteLengthPrefixed(s) = <<Len(s)>> ++ s /\ <<Len(s)>> \in Text
        /\ WriteLengthPrefixed(s) # <<>> /\ WriteLengthPrefixed(s)[1] = Len(s)
        /\ Len(WriteLengthPrefixed(s)) = 1 + Len(s)
<1> SUFFICES ASSUME NEW s \in Bytes
             PROVE  /\ WriteLengthPrefixed(s) \in Text /\ s \in Text /\ Len(s) \in Nat
                    /\ WriteLengthPrefixed(s) = <<Len(s)>> ++ s /\ <<Len(s)>> \in Text
                    /\ WriteLengthPrefixed(s) # <<>> /\ WriteLengthPrefixed(s)[1] = Len(s)
                    /\ Len(WriteLengthPrefixed(s)) = 1 + Len(s)
  OBVIOUS
<1>1. s \in Text /\ Len(s) \in Nat
  BY TextTyped
<1>2. PICK n : n = Len(s) /\ n \in Int
  BY <1>1
<1>3. PICK a : a = <<n>> /\ a \in Text /\ Len(a) = 1 /\ a[1] = n
  BY <1>2, TextTyped
<1>4. a ++ s \in Text /\ Len(a ++ s) = 1 + n /\ (a ++ s)[1] = n /\ a ++ s # <<>>
  <2>1. a \in Text /\ s \in Text /\ Len(a) > 0
    BY <1>1, <1>3
  <2>2. a ++ s \in Text /\ Len(a ++ s) = Len(a) + Len(s) /\ (a ++ s)[1] = a[1] /\ a ++ s # <<>>
    BY <2>1, TextJoined
  <2> QED
    BY <1>2, <1>3, <2>2
<1>5. WriteLengthPrefixed(s) = a ++ s
  BY <1>2, <1>3 DEF WriteLengthPrefixed, ++
<1> QED
  BY <1>1, <1>2, <1>3, <1>4, <1>5

(* A text with its length in front can be told from what follows it.       *)
LEMMA PrefixedDecodes ==
    \A s, t \in Bytes : \A u, v \in Text :
        WriteLengthPrefixed(s) ++ u = WriteLengthPrefixed(t) ++ v => s = t /\ u = v
<1> SUFFICES ASSUME NEW s \in Bytes, NEW t \in Bytes, NEW u \in Text, NEW v \in Text,
                    WriteLengthPrefixed(s) ++ u = WriteLengthPrefixed(t) ++ v
             PROVE  s = t /\ u = v
  OBVIOUS
<1>1. PICK x, y : x = WriteLengthPrefixed(s) /\ y = WriteLengthPrefixed(t)
  OBVIOUS
<1>2. /\ x \in Text /\ x[1] = Len(s) /\ Len(x) = 1 + Len(s) /\ Len(s) \in Nat
      /\ y \in Text /\ y[1] = Len(t) /\ Len(y) = 1 + Len(t) /\ Len(t) \in Nat
  BY <1>1, PrefixedTyped
<1>3. (x ++ u)[1] = x[1] /\ (y ++ v)[1] = y[1]
  <2>1. x \in Text /\ y \in Text /\ Len(x) > 0 /\ Len(y) > 0
    BY <1>2
  <2> QED
    BY <2>1, TextJoined
<1>4. x ++ u = y ++ v
  BY <1>1
<1>5. Len(s) = Len(t)
  BY <1>2, <1>3, <1>4
<1>6. Len(x) = Len(y)
  BY <1>2, <1>5
<1>7. x = y /\ u = v
  <2>1. x \in Text /\ y \in Text
    BY <1>2
  <2> QED
    BY <1>4, <1>6, <2>1, TextSplit
<1>8. s = t
  <2>1. PICK a : a = <<Len(s)>>
    OBVIOUS
  <2>2. x = a ++ s /\ y = a ++ t /\ s \in Text /\ t \in Text /\ a \in Text
    BY <1>1, <1>5, <2>1, PrefixedTyped
  <2>3. a ++ s = a ++ t
    BY <1>7, <2>2
  <2> QED
    BY <2>2, <2>3, TextSplit
<1> QED
  BY <1>7, <1>8

(* The parts of what is hashed of a node.                                  *)
DataPart(node)     == IF node.type = "dir" THEN <<>> ELSE WriteLengthPrefixed(node.data)
ModePart(g, node)  == IF g.keepMode THEN <<node.mode>> ELSE <<>>
OwnerPart(g, node) == IF g.keepOwner THEN <<node.owner>> ELSE <<>>

LEMMA PartsTyped ==
    ASSUME NEW g, NEW node \in NodeType
    PROVE  /\ <<Letter[node.type]>> \in Text /\ Len(<<Letter[node.type]>>) = 1
           /\ Letter[node.type] \in Int /\ Letter[node.type] < 0
           /\ DataPart(node) \in Text
           /\ ModePart(g, node) \in Text /\ Len(ModePart(g, node)) = IF g.keepMode THEN 1 ELSE 0
           /\ OwnerPart(g, node) \in Text /\ Len(OwnerPart(g, node)) = IF g.keepOwner THEN 1 ELSE 0
<1>1. /\ node.type \in {"file", "dir", "link"} /\ node.data \in Bytes
      /\ node.mode \in Nat /\ node.owner \in Nat
  BY DEF NodeType, Bytes
<1>2. Letter[node.type] \in Int /\ Letter[node.type] < 0
  BY <1>1 DEF Letter
<1>6. <<Letter[node.type]>> \in Text /\ Len(<<Letter[node.type]>>) = 1
  BY <1>2, TextTyped
<1>3. DataPart(node) \in Text
  <2>1. WriteLengthPrefixed(node.data) \in Text
    BY <1>1, PrefixedTyped
  <2> QED
    BY <2>1, TextTyped DEF DataPart
<1>4. ModePart(g, node) \in Text /\ Len(ModePart(g, node)) = IF g.keepMode THEN 1 ELSE 0
  <2>1. <<>> \in Text /\ Len(<<>>) = 0
    BY TextTyped
  <2>2. <<node.mode>> \in Text /\ Len(<<node.mode>>) = 1
    BY <1>1, TextTyped
  <2> QED
    BY <2>1, <2>2 DEF ModePart
<1>5. OwnerPart(g, node) \in Text /\ Len(OwnerPart(g, node)) = IF g.keepOwner THEN 1 ELSE 0
  <2>1. <<>> \in Text /\ Len(<<>>) = 0
    BY TextTyped
  <2>2. <<node.owner>> \in Text /\ Len(<<node.owner>>) = 1
    BY <1>1, TextTyped
  <2> QED
    BY <2>1, <2>2 DEF OwnerPart
<1> QED
  BY <1>2, <1>3, <1>4, <1>5, <1>6

LEMMA NodeInParts ==
    ASSUME NEW g, NEW node \in NodeType, NEW u \in Text
    PROVE  /\ HashNode(g, node) \in Text
           /\ HashNode(g, node) ++ u =
                <<Letter[node.type]>> ++ (DataPart(node) ++ (ModePart(g, node) ++ (OwnerPart(g, node) ++ u)))
<1>1. PICK a, d, m, o : /\ a = <<Letter[node.type]>> /\ d = DataPart(node)
                        /\ m = ModePart(g, node) /\ o = OwnerPart(g, node)
  OBVIOUS
<1>2. a \in Text /\ d \in Text /\ m \in Text /\ o \in Text
  BY <1>1, PartsTyped
<1>3. HashNode(g, node) = ((a ++ d) ++ m) ++ o
  BY <1>1 DEF HashNode, DataPart, ModePart, OwnerPart, ++
<1>4. PICK ad : ad = a ++ d /\ ad \in Text
  BY <1>2, TextJoined
<1>5. PICK adm : adm = ad ++ m /\ adm \in Text
  BY <1>2, <1>4, TextJoined
<1>6. adm ++ o \in Text
  BY <1>2, <1>5, TextJoined
<1>7. PICK ou : ou = o ++ u /\ ou \in Text
  BY <1>2, TextJoined
<1>8. PICK mou : mou = m ++ ou /\ mou \in Text
  BY <1>2, <1>7, TextJoined
<1>9. (adm ++ o) ++ u = adm ++ ou
  <2>1. adm \in Text /\ o \in Text
    BY <1>2, <1>5
  <2>2. (adm ++ o) ++ u = adm ++ (o ++ u)
    BY <2>1, TextAssociative
  <2> QED
    BY <1>7, <2>2
<1>10. adm ++ ou = ad ++ mou
  <2>1. ad \in Text /\ m \in Text /\ ou \in Text
    BY <1>2, <1>4, <1>7
  <2>2. (ad ++ m) ++ ou = ad ++ (m ++ ou)
    BY <2>1, TextAssociative
  <2> QED
    BY <1>5, <1>8, <2>2
<1>11. ad ++ mou = a ++ (d ++ mou)
  <2>1. a \in Text /\ d \in Text /\ mou \in Text
    BY <1>2, <1>8
  <2>2. (a ++ d) ++ mou = a ++ (d ++ mou)
    BY <2>1, TextAssociative
  <2> QED
    BY <1>4, <2>2
<1>12. HashNode(g, node) = adm ++ o
  BY <1>3, <1>4, <1>5
<1>13. HashNode(g, node) ++ u = a ++ (d ++ (m ++ (o ++ u)))
  BY <1>7, <1>8, <1>9, <1>10, <1>11, <1>12
<1> QED
  BY <1>1, <1>6, <1>12, <1>13

(* What the tag records of a node.                                         *)
Recorded(g, a, b) ==
    /\ a.type = b.type /\ a.data = b.data
    /\ g.keepMode => a.mode = b.mode
    /\ g.keepOwner => a.owner = b.owner

(* What is hashed of a node can be told from what follows it.              *)
LEMMA NodeDecodes ==
    ASSUME NEW g, NEW a \in NodeType, NEW b \in NodeType, NEW u \in Text, NEW v \in Text,
           HashNode(g, a) ++ u = HashNode(g, b) ++ v
    PROVE  Recorded(g, a, b) /\ u = v
<1>1. PICK la, da, ma, oa : /\ la = <<Letter[a.type]>> /\ da = DataPart(a)
                            /\ ma = ModePart(g, a) /\ oa = OwnerPart(g, a)
  OBVIOUS
<1>2. PICK lb, db, mb, ob : /\ lb = <<Letter[b.type]>> /\ db = DataPart(b)
                            /\ mb = ModePart(g, b) /\ ob = OwnerPart(g, b)
  OBVIOUS
<1>3. /\ la \in Text /\ Len(la) = 1 /\ da \in Text /\ ma \in Text /\ oa \in Text
      /\ lb \in Text /\ Len(lb) = 1 /\ db \in Text /\ mb \in Text /\ ob \in Text
      /\ Len(ma) = Len(mb) /\ Len(oa) = Len(ob)
  BY <1>1, <1>2, PartsTyped
<1>4. la ++ (da ++ (ma ++ (oa ++ u))) = lb ++ (db ++ (mb ++ (ob ++ v)))
  <2>1. HashNode(g, a) ++ u = la ++ (da ++ (ma ++ (oa ++ u)))
    BY <1>1, NodeInParts
  <2>2. HashNode(g, b) ++ v = lb ++ (db ++ (mb ++ (ob ++ v)))
    BY <1>2, NodeInParts
  <2> QED
    BY <2>1, <2>2
<1>5. PICK ra, rb : ra = ma ++ (oa ++ u) /\ rb = mb ++ (ob ++ v)
  OBVIOUS
<1>6. /\ oa ++ u \in Text /\ ob ++ v \in Text /\ ra \in Text /\ rb \in Text
      /\ da ++ ra \in Text /\ db ++ rb \in Text
  <2>1. oa ++ u \in Text /\ ob ++ v \in Text
    BY <1>3, TextJoined
  <2>2. ra \in Text /\ rb \in Text
    BY <1>3, <1>5, <2>1, TextJoined
  <2> QED
    BY <1>3, <2>1, <2>2, TextJoined
<1>7. la ++ (da ++ ra) = lb ++ (db ++ rb)
  BY <1>4, <1>5
<1>8. la = lb /\ da ++ ra = db ++ rb
  <2>1. la \in Text /\ lb \in Text /\ Len(la) = Len(lb)
    BY <1>3
  <2>2. PICK x, y : x = da ++ ra /\ y = db ++ rb /\ x \in Text /\ y \in Text
    BY <1>6
  <2>3. la ++ x = lb ++ y
    BY <1>7, <2>2
  <2>5. x \in Text /\ y \in Text
    BY <2>2
  <2>4. la = lb /\ x = y
    BY <2>1, <2>3, <2>5, TextSplit
  <2> QED
    BY <2>2, <2>4
<1>9. /\ a.type \in {"file", "dir", "link"} /\ b.type \in {"file", "dir", "link"}
      /\ a.data \in Bytes /\ b.data \in Bytes /\ a.mode \in Nat /\ b.mode \in Nat
      /\ a.owner \in Nat /\ b.owner \in Nat
      /\ (a.type = "dir" => a.data = <<>>) /\ (b.type = "dir" => b.data = <<>>)
  BY DEF NodeType, Bytes
<1>10. a.type = b.type
  <2>1. la[1] = Letter[a.type] /\ lb[1] = Letter[b.type]
    BY <1>1, <1>2
  <2>2. Letter[a.type] = Letter[b.type]
    BY <1>8, <2>1
  <2> QED
    BY <1>9, <2>2 DEF Letter
<1>11. a.data = b.data /\ ra = rb
  <2>1. CASE a.type = "dir"
    <3>1. da = <<>> /\ db = <<>>
      BY <1>1, <1>2, <1>10, <2>1 DEF DataPart
    <3>2. ra = rb
      BY <1>6, <1>8, <3>1, TextEmpty
    <3> QED
      BY <1>9, <1>10, <2>1, <3>2
  <2>2. CASE a.type # "dir"
    <3>1. da = WriteLengthPrefixed(a.data) /\ db = WriteLengthPrefixed(b.data)
      BY <1>1, <1>2, <1>10, <2>2 DEF DataPart
    <3>2. PICK x, y : x = a.data /\ y = b.data /\ x \in Bytes /\ y \in Bytes
      BY <1>9
    <3>3. WriteLengthPrefixed(x) ++ ra = WriteLengthPrefixed(y) ++ rb
      BY <1>8, <3>1, <3>2
    <3>4. ra \in Text /\ rb \in Text
      BY <1>6
    <3>6. x \in Bytes /\ y \in Bytes
      BY <3>2
    <3>5. x = y /\ ra = rb
      BY <3>3, <3>4, <3>6, PrefixedDecodes
    <3> QED
      BY <3>2, <3>5
  <2> QED
    BY <2>1, <2>2
<1>12. ma = mb /\ oa ++ u = ob ++ v
  <2>1. ma ++ (oa ++ u) = mb ++ (ob ++ v)
    BY <1>5, <1>11
  <2>2. PICK x, y : x = oa ++ u /\ y = ob ++ v /\ x \in Text /\ y \in Text
    BY <1>6
  <2>3. ma \in Text /\ mb \in Text /\ Len(ma) = Len(mb)
    BY <1>3
  <2>4. ma ++ x = mb ++ y
    BY <2>1, <2>2
  <2>6. x \in Text /\ y \in Text
    BY <2>2
  <2>5. ma = mb /\ x = y
    BY <2>3, <2>4, <2>6, TextSplit
  <2> QED
    BY <2>2, <2>5
<1>13. oa = ob /\ u = v
  <2>1. oa \in Text /\ ob \in Text /\ Len(oa) = Len(ob)
    BY <1>3
  <2>2. oa ++ u = ob ++ v
    BY <1>12
  <2> QED
    BY <2>1, <2>2, TextSplit
<1>14. g.keepMode => a.mode = b.mode
  <2>1. g.keepMode => ma = <<a.mode>> /\ mb = <<b.mode>>
    BY <1>1, <1>2 DEF ModePart
  <2> QED
    BY <1>12, <2>1
<1>15. g.keepOwner => a.owner = b.owner
  <2>1. g.keepOwner => oa = <<a.owner>> /\ ob = <<b.owner>>
    BY <1>1, <1>2 DEF OwnerPart
  <2> QED
    BY <1>13, <2>1
<1> QED
  BY <1>10, <1>11, <1>13, <1>14, <1>15 DEF Recorded

LEMMA NodeOpens ==
    ASSUME NEW g, NEW node \in NodeType, NEW u \in Text
    PROVE  ~Opens(HashNode(g, node) ++ u)
<1>1. PICK a : a = <<Letter[node.type]>> /\ a \in Text /\ Len(a) = 1 /\ a[1] \in Int /\ a[1] < 0
  <2>1. PICK n : n = Letter[node.type] /\ n \in Int /\ n < 0
    BY PartsTyped
  <2>2. <<n>> \in Text /\ Len(<<n>>) = 1 /\ <<n>>[1] = n
    BY <2>1, TextTyped
  <2> QED
    BY <2>1, <2>2
<1>2. PICK r : r = DataPart(node) ++ (ModePart(g, node) ++ (OwnerPart(g, node) ++ u)) /\ r \in Text
  <2>1. PICK d, m, o : /\ d = DataPart(node) /\ m = ModePart(g, node) /\ o = OwnerPart(g, node)
                       /\ d \in Text /\ m \in Text /\ o \in Text
    BY PartsTyped
  <2>2. d ++ (m ++ (o ++ u)) \in Text
    <3>1. o ++ u \in Text
      BY <2>1, TextJoined
    <3>2. m ++ (o ++ u) \in Text
      BY <2>1, <3>1, TextJoined
    <3> QED
      BY <2>1, <3>2, TextJoined
  <2> QED
    BY <2>1, <2>2
<1>3. HashNode(g, node) ++ u = a ++ r
  BY <1>1, <1>2, NodeInParts
<1>4. (a ++ r)[1] = a[1] /\ a ++ r # <<>>
  <2>1. a \in Text /\ r \in Text /\ Len(a) > 0
    BY <1>1, <1>2
  <2> QED
    BY <2>1, TextJoined
<1>6. a ++ r # <<>> /\ (a ++ r)[1] \notin Nat
  BY <1>1, <1>4
<1> QED
  BY <1>3, <1>6 DEF Opens

(* What is hashed of a file of the config, and of an entry of a tree.      *)
FileCodes == {WriteLengthPrefixed(data) : data \in Bytes}

Entry(g, p, node) == WriteLengthPrefixed(p) ++ HashNode(g, node)

EntryCodes(g) == {Entry(g, x[1], x[2]) : x \in Bytes \X NodeType}

LEMMA EntryTyped ==
    \A g : \A p \in Bytes, node \in NodeType, u \in Text :
        /\ Entry(g, p, node) \in EntryCodes(g)
        /\ Entry(g, p, node) \in Text /\ Entry(g, p, node) # <<>> /\ Entry(g, p, node)[1] \in Nat
        /\ HashNode(g, node) ++ u \in Text
        /\ Entry(g, p, node) ++ u = WriteLengthPrefixed(p) ++ (HashNode(g, node) ++ u)
<1> SUFFICES ASSUME NEW g, NEW p \in Bytes, NEW node \in NodeType, NEW u \in Text
             PROVE  /\ Entry(g, p, node) \in EntryCodes(g)
                    /\ Entry(g, p, node) \in Text /\ Entry(g, p, node) # <<>> /\ Entry(g, p, node)[1] \in Nat
                    /\ HashNode(g, node) ++ u \in Text
                    /\ Entry(g, p, node) ++ u = WriteLengthPrefixed(p) ++ (HashNode(g, node) ++ u)
  OBVIOUS
<1>1. PICK a, h : a = WriteLengthPrefixed(p) /\ h = HashNode(g, node)
  OBVIOUS
<1>2. a \in Text /\ Len(a) = 1 + Len(p) /\ Len(p) \in Nat /\ a[1] = Len(p) /\ h \in Text
  <2>1. <<>> \in Text
    BY TextTyped
  <2>2. h \in Text
    BY <1>1, <2>1, NodeInParts
  <2> QED
    BY <1>1, <2>2, PrefixedTyped
<1>3. Entry(g, p, node) = a ++ h
  BY <1>1 DEF Entry
<1>4. a ++ h \in Text /\ (a ++ h) ++ u = a ++ (h ++ u) /\ h ++ u \in Text
  <2>1. a \in Text /\ h \in Text
    BY <1>2
  <2>2. a ++ h \in Text /\ h ++ u \in Text
    BY <2>1, TextJoined
  <2>3. (a ++ h) ++ u = a ++ (h ++ u)
    BY <2>1, TextAssociative
  <2> QED
    BY <2>2, <2>3
<1>5. (a ++ h)[1] = a[1] /\ a ++ h # <<>>
  <2>1. a \in Text /\ h \in Text /\ Len(a) > 0
    BY <1>2
  <2> QED
    BY <2>1, TextJoined
<1>7. a ++ h # <<>> /\ (a ++ h)[1] \in Nat
  BY <1>2, <1>5
<1>8. Entry(g, p, node) \in EntryCodes(g)
  <2>1. <<p, node>> \in Bytes \X NodeType /\ <<p, node>>[1] = p /\ <<p, node>>[2] = node
    OBVIOUS
  <2> QED
    BY <2>1 DEF EntryCodes
<1> QED
  BY <1>1, <1>3, <1>4, <1>7, <1>8

LEMMA EntryJoined ==
    ASSUME NEW g, NEW p \in Bytes, NEW node \in NodeType, NEW u \in Text
    PROVE  \E x \in Text : x = HashNode(g, node) ++ u /\ Entry(g, p, node) ++ u = WriteLengthPrefixed(p) ++ x
<1>1. PICK x : x = HashNode(g, node) ++ u
  OBVIOUS
<1>2. x \in Text /\ Entry(g, p, node) ++ u = WriteLengthPrefixed(p) ++ (HashNode(g, node) ++ u)
  BY <1>1, EntryTyped
<1> QED
  BY <1>1, <1>2

(* What is hashed of an entry can be told from what follows it.            *)
LEMMA EntryDecodes ==
    ASSUME NEW g, NEW p \in Bytes, NEW q \in Bytes, NEW a \in NodeType, NEW b \in NodeType,
           NEW u \in Text, NEW v \in Text, Entry(g, p, a) ++ u = Entry(g, q, b) ++ v
    PROVE  p = q /\ Recorded(g, a, b) /\ u = v
<1>1. PICK x \in Text : x = HashNode(g, a) ++ u /\ Entry(g, p, a) ++ u = WriteLengthPrefixed(p) ++ x
  BY EntryJoined
<1>2. PICK y \in Text : y = HashNode(g, b) ++ v /\ Entry(g, q, b) ++ v = WriteLengthPrefixed(q) ++ y
  BY EntryJoined
<1>3. WriteLengthPrefixed(p) ++ x = WriteLengthPrefixed(q) ++ y
  BY <1>1, <1>2
<1>4. x \in Text /\ y \in Text
  BY <1>1, <1>2
<1>5. p = q /\ x = y
  BY <1>3, <1>4, PrefixedDecodes
<1>6. HashNode(g, a) ++ u = HashNode(g, b) ++ v
  BY <1>1, <1>2, <1>5
<1> QED
  BY <1>5, <1>6, NodeDecodes

LEMMA RecordedAlike ==
    ASSUME NEW g, NEW a \in NodeType, NEW b \in NodeType, Recorded(g, a, b)
    PROVE  HashNode(g, a) = HashNode(g, b)
BY DEF HashNode, Recorded

(* A file of the config is not taken for an entry of a tree.               *)
LEMMA FileIsNoEntry ==
    ASSUME NEW g, NEW s \in Bytes, NEW p \in Bytes, NEW node \in NodeType,
           NEW u \in Text, NEW v \in Text, Opens(u)
    PROVE  WriteLengthPrefixed(s) ++ u # Entry(g, p, node) ++ v
<1> SUFFICES ASSUME WriteLengthPrefixed(s) ++ u = Entry(g, p, node) ++ v PROVE FALSE
  OBVIOUS
<1>1. PICK x \in Text : x = HashNode(g, node) ++ v /\ Entry(g, p, node) ++ v = WriteLengthPrefixed(p) ++ x
  BY EntryJoined
<1>2. WriteLengthPrefixed(s) ++ u = WriteLengthPrefixed(p) ++ x
  BY <1>1
<1>5. x \in Text
  BY <1>1
<1>3. u = x
  BY <1>2, <1>5, PrefixedDecodes
<1>4. ~Opens(HashNode(g, node) ++ v)
  BY NodeOpens
<1> QED
  BY <1>1, <1>3, <1>4

LEMMA FilesApart == ASSUME NEW g PROVE FileCodes \intersect EntryCodes(g) = {}
<1> SUFFICES ASSUME NEW c \in FileCodes, c \in EntryCodes(g) PROVE FALSE
  OBVIOUS
<1>1. PICK s \in Bytes : c = WriteLengthPrefixed(s)
  BY DEF FileCodes
<1>2. PICK x \in Bytes \X NodeType : c = Entry(g, x[1], x[2])
  BY DEF EntryCodes
<1>3. PICK p, node : p = x[1] /\ node = x[2] /\ p \in Bytes /\ node \in NodeType
  OBVIOUS
<1>4. <<>> \in Text /\ Opens(<<>>)
  BY TextTyped DEF Opens
<1>5. WriteLengthPrefixed(s) ++ <<>> # Entry(g, p, node) ++ <<>>
  BY <1>3, <1>4, FileIsNoEntry
<1> QED
  BY <1>1, <1>2, <1>3, <1>5

(* A code can be told from what follows it.                                *)
LEMMA CodesDecode == ASSUME NEW g PROVE Decodable(FileCodes \union EntryCodes(g))
<1> DEFINE C == FileCodes \union EntryCodes(g)
<1>1. ASSUME NEW c \in FileCodes
      PROVE  \E s \in Bytes : c = WriteLengthPrefixed(s) /\ c \in Text /\ c # <<>> /\ c[1] \in Nat
  <2>1. PICK s \in Bytes : c = WriteLengthPrefixed(s)
    BY DEF FileCodes
  <2> QED
    BY <2>1, PrefixedTyped
<1>2. ASSUME NEW c \in EntryCodes(g)
      PROVE  \E p \in Bytes : \E node \in NodeType :
                 c = Entry(g, p, node) /\ c \in Text /\ c # <<>> /\ c[1] \in Nat
  <2>1. PICK x \in Bytes \X NodeType : c = Entry(g, x[1], x[2])
    BY DEF EntryCodes
  <2>2. PICK p, node : p = x[1] /\ node = x[2] /\ p \in Bytes /\ node \in NodeType
    OBVIOUS
  <2>3. <<>> \in Text
    BY TextTyped
  <2>4. c = Entry(g, p, node)
    BY <2>1, <2>2
  <2> QED
    BY <2>2, <2>3, <2>4, EntryTyped
<1>3. C \subseteq Text /\ \A c \in C : c # <<>> /\ c[1] \in Nat
  BY <1>1, <1>2
<1>4. ASSUME NEW c \in C, NEW e \in C, NEW u \in Text, NEW v \in Text, Opens(u), Opens(v), c ++ u = e ++ v
      PROVE  c = e /\ u = v
  <2>1. CASE c \in FileCodes /\ e \in FileCodes
    <3>1. PICK s \in Bytes, t \in Bytes : c = WriteLengthPrefixed(s) /\ e = WriteLengthPrefixed(t)
      BY <2>1 DEF FileCodes
    <3>2. WriteLengthPrefixed(s) ++ u = WriteLengthPrefixed(t) ++ v
      BY <1>4, <3>1
    <3>3. s = t /\ u = v
      BY <3>2, PrefixedDecodes
    <3> QED
      BY <3>1, <3>3
  <2>2. CASE c \in FileCodes /\ e \in EntryCodes(g)
    <3>1. PICK s \in Bytes : c = WriteLengthPrefixed(s)
      BY <2>2 DEF FileCodes
    <3>2. PICK p \in Bytes : \E node \in NodeType : e = Entry(g, p, node)
      BY <1>2, <2>2
    <3>3. PICK node \in NodeType : e = Entry(g, p, node)
      BY <3>2
    <3>4. WriteLengthPrefixed(s) ++ u # Entry(g, p, node) ++ v
      BY <1>4, FileIsNoEntry
    <3> QED
      BY <1>4, <3>1, <3>3, <3>4
  <2>3. CASE c \in EntryCodes(g) /\ e \in FileCodes
    <3>1. PICK s \in Bytes : e = WriteLengthPrefixed(s)
      BY <2>3 DEF FileCodes
    <3>2. PICK p \in Bytes : \E node \in NodeType : c = Entry(g, p, node)
      BY <1>2, <2>3
    <3>3. PICK node \in NodeType : c = Entry(g, p, node)
      BY <3>2
    <3>4. WriteLengthPrefixed(s) ++ v # Entry(g, p, node) ++ u
      BY <1>4, FileIsNoEntry
    <3> QED
      BY <1>4, <3>1, <3>3, <3>4
  <2>4. CASE c \in EntryCodes(g) /\ e \in EntryCodes(g)
    <3>1. PICK p \in Bytes : \E a \in NodeType : c = Entry(g, p, a)
      BY <1>2, <2>4
    <3>2. PICK a \in NodeType : c = Entry(g, p, a)
      BY <3>1
    <3>3. PICK q \in Bytes : \E b \in NodeType : e = Entry(g, q, b)
      BY <1>2, <2>4
    <3>4. PICK b \in NodeType : e = Entry(g, q, b)
      BY <3>3
    <3>5. Entry(g, p, a) ++ u = Entry(g, q, b) ++ v
      BY <1>4, <3>2, <3>4
    <3>6. p = q /\ Recorded(g, a, b) /\ u = v
      BY <3>5, EntryDecodes
    <3>7. HashNode(g, a) = HashNode(g, b)
      BY <3>6, RecordedAlike
    <3> QED
      BY <3>2, <3>4, <3>6, <3>7 DEF Entry
  <2> QED
    BY <2>1, <2>2, <2>3, <2>4
<1> QED
  BY <1>3, <1>4 DEF Decodable

-----------------------------------------------------------------------------
(* Patterns that match more, and less, of a path.                          *)

(* path lies in p from place i on.                                         *)
LiesIn(path, p, i) ==
    i + Len(path) - 1 <= Len(p) /\ \A k \in 1..Len(path) : path[k] = p[i + k - 1]

LEMMA RestIs ==
    ASSUME NEW p \in Seq(Nat), NEW n, n = Len(p), NEW i \in 1..n
    PROVE  \A k \in 1..(n - i + 1) : SubSeq(p, i, n)[k] = p[i + k - 1]
OBVIOUS

LEMMA LiesInIs ==
    ASSUME NEW path \in Seq(Nat), NEW p \in Seq(Nat), NEW i \in 1..Len(p)
    PROVE  IsPrefix(path, SubSeq(p, i, Len(p))) <=> LiesIn(path, p, i)
<1>1. PICK n : n = Len(p) /\ n \in Nat
  OBVIOUS
<1>2. PICK rest : rest = SubSeq(p, i, n)
  OBVIOUS
<1>3. i \in 1..n
  BY <1>1
<1>4. rest \in Seq(Nat) /\ Len(rest) = n - i + 1
  BY <1>1, <1>2, <1>3
<1>5. \A k \in 1..(n - i + 1) : rest[k] = p[i + k - 1]
  <2>1. \A k \in 1..(n - i + 1) : SubSeq(p, i, n)[k] = p[i + k - 1]
    BY <1>1, <1>3, RestIs
  <2> QED
    BY <1>2, <2>1, Zenon
<1>6. IsPrefix(path, rest) <=> Len(path) <= Len(rest) /\ \A k \in 1..Len(path) : path[k] = rest[k]
  BY <1>4, PrefixIs
<1>7. Len(path) \in Nat
  OBVIOUS
<1>8. Len(path) <= Len(rest) <=> i + Len(path) - 1 <= n
  BY <1>1, <1>3, <1>4, <1>7
<1>9. ASSUME Len(path) <= Len(rest), NEW k \in 1..Len(path) PROVE rest[k] = p[i + k - 1]
  <2>1. k \in 1..(n - i + 1)
    BY <1>1, <1>3, <1>4, <1>7, <1>9
  <2> QED
    BY <1>5, <2>1
<1> QED
  BY <1>1, <1>2, <1>6, <1>8, <1>9 DEF LiesIn

LEMMA MatchesIs ==
    ASSUME NEW pattern \in PatternType, NEW p \in Seq(Nat)
    PROVE  Matches(pattern, p) <=>
              IF pattern.floating THEN \E i \in 1..Len(p) : LiesIn(pattern.path, p, i)
              ELSE Len(pattern.path) <= Len(p) /\ \A k \in 1..Len(pattern.path) : pattern.path[k] = p[k]
<1>1. PICK path : path = pattern.path /\ path \in Seq(Nat)
  BY DEF PatternType, Path
<1>2. \A i \in 1..Len(p) : IsPrefix(path, SubSeq(p, i, Len(p))) <=> LiesIn(path, p, i)
  BY <1>1, LiesInIs
<1>3. IsPrefix(path, p) <=> Len(path) <= Len(p) /\ \A k \in 1..Len(path) : path[k] = p[k]
  BY <1>1, PrefixIs
<1> QED
  BY <1>1, <1>2, <1>3 DEF Matches

(* A pattern that matches a directory matches what is in it.               *)
LEMMA MatchesUnder ==
    ASSUME NEW pattern \in PatternType, NEW p \in Seq(Nat), NEW n \in 1..Len(p),
           Matches(pattern, SubSeq(p, 1, n))
    PROVE  Matches(pattern, p)
<1>1. PICK path : path = pattern.path /\ path \in Seq(Nat)
  BY DEF PatternType, Path
<1>2. PICK q : q = SubSeq(p, 1, n)
  OBVIOUS
<1>3. q \in Seq(Nat) /\ Len(q) = n /\ \A k \in 1..n : q[k] = p[k]
  BY <1>2
<1>4. Len(path) \in Nat /\ Len(p) \in Nat /\ n \in Nat /\ n <= Len(p)
  BY <1>1
<1>5. Matches(pattern, q)
  BY <1>2
<1>6. CASE pattern.floating
  <2>1. PICK i \in 1..n : LiesIn(path, q, i)
    BY <1>1, <1>3, <1>5, <1>6, MatchesIs
  <2>2. i \in 1..Len(p) /\ i + Len(path) - 1 <= Len(p)
    BY <1>3, <1>4, <2>1 DEF LiesIn
  <2>3. ASSUME NEW k \in 1..Len(path) PROVE path[k] = p[i + k - 1]
    <3>1. i + k - 1 \in 1..n
      BY <1>3, <1>4, <2>1 DEF LiesIn
    <3>2. path[k] = q[i + k - 1]
      BY <2>1 DEF LiesIn
    <3> QED
      BY <1>3, <3>1, <3>2
  <2>4. LiesIn(path, p, i)
    BY <2>2, <2>3 DEF LiesIn
  <2> QED
    BY <1>1, <1>6, <2>2, <2>4, MatchesIs
<1>7. CASE ~pattern.floating
  <2>1. Len(path) <= n /\ \A k \in 1..Len(path) : path[k] = q[k]
    BY <1>1, <1>3, <1>5, <1>7, MatchesIs
  <2>2. Len(path) <= Len(p) /\ \A k \in 1..Len(path) : path[k] = p[k]
    BY <1>3, <1>4, <2>1
  <2> QED
    BY <1>1, <1>7, <2>2, MatchesIs
<1> QED
  BY <1>6, <1>7

(* A path with the name of its source in front.                            *)
LEMMA InFront ==
    ASSUME NEW b \in Nat, NEW p \in Seq(Nat)
    PROVE  /\ <<b>> \o p \in Seq(Nat) /\ Len(<<b>> \o p) = Len(p) + 1 /\ Len(p) \in Nat
           /\ (<<b>> \o p)[1] = b /\ \A k \in 1..Len(p) : (<<b>> \o p)[k + 1] = p[k]
<1>1. PICK a : a = <<b>> /\ a \in Seq(Nat) /\ Len(a) = 1 /\ a[1] = b
  <2>1. <<b>> \in Seq(Nat) /\ Len(<<b>>) = 1 /\ <<b>>[1] = b
    OBVIOUS
  <2> QED
    BY <2>1, Zenon
<1>2. /\ a \o p \in Seq(Nat) /\ Len(a \o p) = 1 + Len(p) /\ Len(p) \in Nat /\ (a \o p)[1] = a[1]
      /\ \A k \in 1..Len(p) : (a \o p)[1 + k] = p[k]
  BY <1>1, Joined
<1>3. \A k \in 1..Len(p) : 1 + k = k + 1
  BY <1>2
<1> QED
  BY <1>1, <1>2, <1>3

(* A floating pattern matches below the source what it matches in it, and  *)
(* no more than that unless it starts with the name of the source.         *)
LEMMA MatchesBelow ==
    ASSUME NEW pattern \in PatternType, pattern.floating, NEW p \in Seq(Nat), NEW b \in Nat
    PROVE  /\ Matches(pattern, p) => Matches(pattern, <<b>> \o p)
           /\ Matches(pattern, <<b>> \o p) /\ pattern.path[1] # b => Matches(pattern, p)
<1>1. PICK path : path = pattern.path /\ path \in Seq(Nat) /\ path # <<>>
  BY DEF PatternType, Path
<1>2. PICK q : q = <<b>> \o p
  OBVIOUS
<1>3. q \in Seq(Nat) /\ Len(q) = Len(p) + 1 /\ Len(p) \in Nat /\ q[1] = b /\ \A k \in 1..Len(p) : q[k + 1] = p[k]
  BY <1>2, InFront
<1>4. Len(path) \in Nat /\ Len(path) # 0
  BY <1>1
<1>5. ASSUME Matches(pattern, p) PROVE Matches(pattern, q)
  <2>1. PICK i \in 1..Len(p) : LiesIn(path, p, i)
    BY <1>1, <1>5, MatchesIs
  <2>2. i + 1 \in 1..Len(q) /\ (i + 1) + Len(path) - 1 <= Len(q)
    BY <1>3, <1>4, <2>1 DEF LiesIn
  <2>3. ASSUME NEW k \in 1..Len(path) PROVE path[k] = q[(i + 1) + k - 1]
    <3>1. i + k - 1 \in 1..Len(p) /\ (i + k - 1) + 1 = (i + 1) + k - 1
      BY <1>3, <1>4, <2>1 DEF LiesIn
    <3>2. path[k] = p[i + k - 1]
      BY <2>1 DEF LiesIn
    <3>3. q[(i + k - 1) + 1] = p[i + k - 1]
      BY <1>3, <3>1
    <3> QED
      BY <3>1, <3>2, <3>3
  <2>4. LiesIn(path, q, i + 1)
    BY <2>2, <2>3 DEF LiesIn
  <2> QED
    BY <1>1, <1>3, <2>2, <2>4, MatchesIs
<1>6. ASSUME Matches(pattern, q), path[1] # b PROVE Matches(pattern, p)
  <2>1. PICK i \in 1..Len(q) : LiesIn(path, q, i)
    BY <1>1, <1>3, <1>6, MatchesIs
  <2>2. path[1] = q[i]
    <3>1. 1 \in 1..Len(path) /\ i + 1 - 1 = i
      BY <1>3, <1>4
    <3>2. path[1] = q[i + 1 - 1]
      BY <2>1, <3>1 DEF LiesIn
    <3> QED
      BY <3>1, <3>2
  <2>3. i # 1
    BY <1>3, <1>6, <2>2
  <2>4. PICK j : j = i - 1 /\ j \in Nat /\ i = j + 1
    BY <1>3, <2>3
  <2>5. j \in 1..Len(p) /\ j + Len(path) - 1 <= Len(p)
    BY <1>3, <1>4, <2>1, <2>3, <2>4 DEF LiesIn
  <2>6. ASSUME NEW k \in 1..Len(path) PROVE path[k] = p[j + k - 1]
    <3>1. j + k - 1 \in 1..Len(p) /\ (j + k - 1) + 1 = i + k - 1
      BY <1>3, <1>4, <2>4, <2>5
    <3>2. path[k] = q[i + k - 1]
      BY <2>1 DEF LiesIn
    <3>3. q[(j + k - 1) + 1] = p[j + k - 1]
      BY <1>3, <3>1
    <3> QED
      BY <3>1, <3>2, <3>3
  <2>7. LiesIn(path, p, j)
    BY <2>5, <2>6 DEF LiesIn
  <2> QED
    BY <1>1, <2>5, <2>7, MatchesIs
<1> QED
  BY <1>1, <1>2, <1>5, <1>6

-----------------------------------------------------------------------------
(* What is taken, of what is hashed.                                       *)

GoodTree(item, tree) ==
    /\ IsFiniteSet(DOMAIN tree) /\ DOMAIN tree \subseteq Path
    /\ \A p \in DOMAIN tree : tree[p] \in NodeType
    /\ RootOf[item.src] = "missing" => DOMAIN tree = {}
    /\ item.kind = "file" => item.path \in DOMAIN tree /\ Opened(item, tree[item.path]).type = "file"
    /\ item.kind = "copy" => RootOf[item.src] # "missing" \/ ~item.inTag

(* The path that the patterns of a copied source are matched against.      *)
Seen(item, p) == IF item.contentsOnly THEN p ELSE <<BaseName[item.src]>> \o p

Kept(item, p) == item.kind = "copy" => ~Excluded(EffectiveExcludes(item), Seen(item, p))

LEMMA HashedSorted ==
    ASSUME NEW item \in ItemType, NEW tree, GoodTree(item, tree)
    PROVE  /\ HashedPaths(item, tree) \in SUBSET DOMAIN tree /\ HashedPaths(item, tree) \in SUBSET Seq(Nat)
           /\ IsFiniteSet(HashedPaths(item, tree))
           /\ Sorted(HashedPaths(item, tree)) \in Seq(HashedPaths(item, tree))
           /\ \A p \in HashedPaths(item, tree) :
                 \E k \in DOMAIN Sorted(HashedPaths(item, tree)) : Sorted(HashedPaths(item, tree))[k] = p
<1>1. PICK H : H = HashedPaths(item, tree)
  OBVIOUS
<1>2. H \in SUBSET DOMAIN tree
  BY <1>1 DEF HashedPaths
<1>3. H \in SUBSET Seq(Nat)
  BY <1>2 DEF GoodTree, Path
<1>4. IsFiniteSet(H)
  BY <1>2, FS_Subset DEF GoodTree
<1>5. Sorted(H) \in Seq(H) /\ \A p \in H : \E k \in DOMAIN Sorted(H) : Sorted(H)[k] = p
  BY <1>3, <1>4, SortedIs
<1> QED
  BY <1>1, <1>2, <1>3, <1>4, <1>5

(* A path that the copy keeps is reached by the walk that hashes.          *)
LEMMA KeptIsReached ==
    ASSUME NEW item \in ItemType, item.kind = "copy", Plain(item),
           item.contentsOnly \/ \A i \in DOMAIN item.excludes : item.excludes[i].floating,
           NEW p \in Seq(Nat), Kept(item, p), NEW n \in 1..Len(p)
    PROVE  ~Excluded(EffectiveExcludes(item), SubSeq(p, 1, n))
<1>1. PICK all : all = EffectiveExcludes(item)
  OBVIOUS
<1>2. /\ all \in Seq(PatternType) /\ \A i \in DOMAIN all : ~all[i].negated
      /\ 1 \in DOMAIN all /\ all[1] = GitPattern
      /\ \A i \in DOMAIN all : i # 1 => i - 1 \in DOMAIN item.excludes /\ all[i] = item.excludes[i - 1]
  BY <1>1, PatternsOf
<1>3. \A q : Excluded(all, q) <=> \E i \in DOMAIN all : Matches(all[i], q)
  BY <1>2, ExcludedIs
<1> SUFFICES ASSUME Excluded(all, SubSeq(p, 1, n)) PROVE FALSE
  BY <1>1
<1>4. PICK i \in DOMAIN all : Matches(all[i], SubSeq(p, 1, n))
  BY <1>3
<1>5. all[i] \in PatternType
  BY <1>2
<1>6. Matches(all[i], p)
  BY <1>4, <1>5, MatchesUnder
<1>7. ~Excluded(all, Seen(item, p))
  BY <1>1 DEF Kept
<1>8. CASE item.contentsOnly
  BY <1>3, <1>6, <1>7, <1>8 DEF Seen
<1>9. CASE ~item.contentsOnly
  <2>1. all[i].floating
    <3>1. GitPattern.floating
      BY DEF GitPattern
    <3> QED
      BY <1>2, <1>9, <3>1
  <2>2. PICK b \in Nat : b = BaseName[item.src]
    BY LayerHashAssumption DEF ItemType
  <2>3. Matches(all[i], <<b>> \o p)
    BY <1>5, <1>6, <2>1, MatchesBelow
  <2>4. Excluded(all, <<b>> \o p)
    BY <1>3, <2>3
  <2>5. Seen(item, p) = <<b>> \o p
    BY <1>9, <2>2 DEF Seen
  <2> QED
    BY <1>7, <2>4, <2>5
<1> QED
  BY <1>8, <1>9

(* Of what is hashed, all is taken that the copy keeps.                    *)
LEMMA TakenHashed ==
    ASSUME NEW item \in ItemType, Covered(item), item.kind # "file", NEW tree, GoodTree(item, tree)
    PROVE  Taken(item, tree) = {p \in HashedPaths(item, tree) : Kept(item, p)}
<1>1. /\ item.kind \in {"copy", "roles"} /\ item.inTag /\ Plain(item)
      /\ item.contentsOnly \/ \A i \in DOMAIN item.excludes : item.excludes[i].floating
      /\ item.src \in Sources /\ RootOf[item.src] \in {"dir", "missing"}
  BY LayerHashAssumption DEF Covered, Plain, ItemType
<1>2. DOMAIN tree \subseteq Path
  BY DEF GoodTree
<1>3. CASE RootOf[item.src] = "missing"
  BY <1>3 DEF Taken, HashedPaths
<1>4. CASE RootOf[item.src] = "dir" /\ item.kind = "copy"
  <2>1. Taken(item, tree) = {p \in DOMAIN tree : Kept(item, p)}
    BY <1>4 DEF Taken, CopiedPaths, Kept, Seen
  <2>2. ASSUME NEW p \in DOMAIN tree, Kept(item, p) PROVE p \in HashedPaths(item, tree)
    <3>1. p \in Seq(Nat)
      BY <1>2 DEF Path
    <3>2. \A n \in 1..Len(p) : ~Excluded(EffectiveExcludes(item), SubSeq(p, 1, n))
      BY <1>1, <1>4, <2>2, <3>1, KeptIsReached
    <3> QED
      BY <1>4, <3>2 DEF HashedPaths
  <2>3. HashedPaths(item, tree) \subseteq DOMAIN tree
    BY DEF HashedPaths
  <2> QED
    BY <2>1, <2>2, <2>3
<1>5. CASE RootOf[item.src] = "dir" /\ item.kind = "roles"
  <2>1. Taken(item, tree) = {p \in DOMAIN tree : Git \notin ToSet(p)}
    BY <1>5 DEF Taken, MountedPaths
  <2>2. ASSUME NEW p \in DOMAIN tree, Git \notin ToSet(p) PROVE p \in HashedPaths(item, tree)
    <3>1. p \in Seq(Nat)
      BY <1>2 DEF Path
    <3>2. PICK all : all = EffectiveExcludes(item)
      OBVIOUS
    <3>3. /\ all \in Seq(PatternType) /\ \A i \in DOMAIN all : ~all[i].negated
          /\ \A i \in DOMAIN all : i # 1 => i - 1 \in DOMAIN item.excludes
          /\ 1 \in DOMAIN all /\ all[1] = GitPattern
      BY <1>1, <3>2, PatternsOf
    <3>4. DOMAIN item.excludes = {}
      BY <1>5 DEF ItemType
    <3>5. ASSUME NEW n \in 1..Len(p), Excluded(all, SubSeq(p, 1, n)) PROVE FALSE
      <4>1. Matches(GitPattern, SubSeq(p, 1, n))
        BY <3>3, <3>4, <3>5, ExcludedIs
      <4>2. GitPattern \in PatternType /\ GitPattern.floating /\ GitPattern.path = <<Git>>
        <5>1. GitPattern \in PatternType
          BY <3>3
        <5>2. GitPattern.floating /\ GitPattern.path = <<Git>>
          BY DEF GitPattern
        <5> QED
          BY <5>1, <5>2
      <4>3. Matches(GitPattern, p)
        BY <3>1, <4>1, <4>2, MatchesUnder
      <4>4. PICK i \in 1..Len(p) : LiesIn(<<Git>>, p, i)
        BY <3>1, <4>2, <4>3, MatchesIs
      <4>5. p[i] = Git
        <5>1. 1 \in 1..Len(<<Git>>) /\ <<Git>>[1] = Git /\ i + 1 - 1 = i
          BY <3>1
        <5> QED
          BY <4>4, <5>1 DEF LiesIn
      <4> QED
        BY <2>2, <3>1, <4>5 DEF ToSet
    <3> QED
      BY <1>5, <3>2, <3>5 DEF HashedPaths
  <2>3. \A p \in HashedPaths(item, tree) : p \in DOMAIN tree /\ Git \notin ToSet(p)
    BY <1>1, <1>2, HashedIsClear
  <2>4. \A p : Kept(item, p)
    BY <1>5 DEF Kept
  <2> QED
    BY <2>1, <2>2, <2>3, <2>4
<1> QED
  BY <1>1, <1>3, <1>4, <1>5

(* The copy keeps all that is hashed.                                      *)
LEMMA AllKept ==
    ASSUME NEW item \in ItemType, Covered(item), item.kind # "file", CopiesAllHashed(item),
           NEW tree, GoodTree(item, tree)
    PROVE  Taken(item, tree) = HashedPaths(item, tree)
<1>1. /\ item.kind \in {"copy", "roles"} /\ Plain(item)
      /\ item.contentsOnly \/ \A i \in DOMAIN item.excludes : item.excludes[i].floating
  BY DEF Covered, Plain, ItemType
<1> SUFFICES ASSUME NEW p \in HashedPaths(item, tree), item.kind = "copy",
                    Excluded(EffectiveExcludes(item), Seen(item, p))
             PROVE  FALSE
  BY TakenHashed DEF Kept
<1>2. p \in Seq(Nat) /\ p # <<>>
  BY DEF HashedPaths, GoodTree, Path
<1>3. ~Excluded(EffectiveExcludes(item), p)
  <2>1. Len(p) \in 1..Len(p) /\ SubSeq(p, 1, Len(p)) = p
    BY <1>2
  <2> QED
    BY <2>1 DEF HashedPaths
<1>4. CASE item.contentsOnly
  BY <1>3, <1>4 DEF Seen
<1>5. CASE ~item.contentsOnly
  <2>1. PICK b \in Nat : b = BaseName[item.src]
    BY LayerHashAssumption DEF ItemType
  <2>2. PICK all : all = EffectiveExcludes(item)
    OBVIOUS
  <2>3. /\ all \in Seq(PatternType) /\ \A i \in DOMAIN all : ~all[i].negated
        /\ all[1] = GitPattern
        /\ \A i \in DOMAIN all : i # 1 => i - 1 \in DOMAIN item.excludes /\ all[i] = item.excludes[i - 1]
    BY <1>1, <2>2, PatternsOf
  <2>4. Excluded(all, <<b>> \o p) /\ ~Excluded(all, p)
    BY <1>3, <1>5, <2>1, <2>2 DEF Seen
  <2>5. PICK i \in DOMAIN all : Matches(all[i], <<b>> \o p) /\ ~Matches(all[i], p)
    BY <2>3, <2>4, ExcludedIs
  <2>6. GitPattern.floating /\ GitPattern.path[1] = Git
    BY DEF GitPattern
  <2>7. b # Git /\ \A k \in DOMAIN item.excludes : item.excludes[k].path[1] # b
    BY <1>5, <2>1 DEF CopiesAllHashed
  <2>8. all[i].floating /\ all[i].path[1] # b /\ all[i] \in PatternType
    BY <1>1, <1>5, <2>3, <2>6, <2>7
  <2> QED
    BY <1>2, <2>5, <2>8, MatchesBelow
<1> QED
  BY <1>4, <1>5

-----------------------------------------------------------------------------
(* The codes of an item, and what is in the image of one.                  *)

Codes(item, tree) ==
    LET paths == Sorted(HashedPaths(item, tree))
    IN  IF item.kind = "file" THEN <<WriteLengthPrefixed(Opened(item, tree[item.path]).data)>>
        ELSE IF ~item.inTag THEN <<>>
        ELSE [k \in DOMAIN paths |-> Entry(item, paths[k], tree[paths[k]])]

(* What is hashed of an item is the concatenation of its codes.            *)
LEMMA ItemIsCodes ==
    ASSUME NEW item, NEW tree
    PROVE  HashItem(item, tree) = FlattenSeq(Codes(item, tree))
<1> DEFINE paths == Sorted(HashedPaths(item, tree))
           codes == [k \in DOMAIN paths |-> Entry(item, paths[k], tree[paths[k]])]
<1>1. CASE item.kind = "file"
  BY <1>1, FlattenFirst DEF HashItem, Codes
<1>2. CASE item.kind # "file" /\ ~item.inTag
  BY <1>2, FlattenFirst DEF HashItem, HashDirectory, Codes
<1>3. CASE item.kind # "file" /\ item.inTag
  <2>1. codes = [k \in DOMAIN paths |-> WriteLengthPrefixed(paths[k]) \o HashNode(item, tree[paths[k]])]
    BY DEF Entry, ++
  <2>2. HashItem(item, tree) =
            FlattenSeq([k \in DOMAIN paths |-> WriteLengthPrefixed(paths[k]) \o HashNode(item, tree[paths[k]])])
    BY <1>3 DEF HashItem, HashDirectory
  <2>3. Codes(item, tree) = codes
    BY <1>3 DEF Codes
  <2> QED
    BY <2>1, <2>2, <2>3, Zenon
<1> QED
  BY <1>1, <1>2, <1>3

(* Only these options of an item decide what is hashed of a node.          *)
SameOptions(g, h) == g.keepMode = h.keepMode /\ g.keepOwner = h.keepOwner

LEMMA OptionsMatter ==
    ASSUME NEW g, NEW h, SameOptions(g, h), NEW p, NEW node
    PROVE  Entry(g, p, node) = Entry(h, p, node)
BY DEF SameOptions, Entry, HashNode

(* The codes of a tree are those of the paths that are hashed of it.       *)
Listed(item, tree, paths) ==
    /\ paths \in Seq(HashedPaths(item, tree)) /\ paths = Sorted(HashedPaths(item, tree))
    /\ Len(Codes(item, tree)) = Len(paths)
    /\ \A p \in HashedPaths(item, tree) : \E k \in 1..Len(paths) : paths[k] = p
    /\ \A k \in 1..Len(paths) :
          /\ paths[k] \in Bytes /\ paths[k] \in HashedPaths(item, tree) /\ tree[paths[k]] \in NodeType
          /\ Codes(item, tree)[k] = Entry(item, paths[k], tree[paths[k]])

LEMMA TreeCodes ==
    ASSUME NEW item \in ItemType, item.kind # "file", item.inTag, NEW tree, GoodTree(item, tree)
    PROVE  \E paths : Listed(item, tree, paths)
<1>1. PICK H : H = HashedPaths(item, tree)
  OBVIOUS
<1>2. H \in SUBSET DOMAIN tree /\ H \in SUBSET Seq(Nat)
  BY <1>1, HashedSorted
<1>3. PICK paths \in Seq(H) : paths = Sorted(H) /\ \A p \in H : \E k \in DOMAIN paths : paths[k] = p
  BY <1>1, HashedSorted
<1>4. DOMAIN paths = 1..Len(paths) /\ Len(paths) \in Nat /\ \A k \in 1..Len(paths) : paths[k] \in H
  OBVIOUS
<1>5. Codes(item, tree) = [k \in 1..Len(paths) |-> Entry(item, paths[k], tree[paths[k]])]
  BY <1>1, <1>3, <1>4 DEF Codes
<1>6. Len(Codes(item, tree)) = Len(paths)
  BY <1>4, <1>5
<1>7. ASSUME NEW k \in 1..Len(paths)
      PROVE  /\ paths[k] \in Bytes /\ paths[k] \in H /\ tree[paths[k]] \in NodeType
             /\ Codes(item, tree)[k] = Entry(item, paths[k], tree[paths[k]])
  <2>1. paths[k] \in H
    BY <1>4
  <2>2. paths[k] \in DOMAIN tree /\ paths[k] \in Seq(Nat)
    BY <1>2, <2>1
  <2>3. tree[paths[k]] \in NodeType
    BY <2>2 DEF GoodTree
  <2>4. Codes(item, tree)[k] = Entry(item, paths[k], tree[paths[k]])
    BY <1>5
  <2> QED
    BY <2>1, <2>2, <2>3, <2>4 DEF Bytes
<1>8. Listed(item, tree, paths)
  BY <1>1, <1>3, <1>4, <1>6, <1>7 DEF Listed
<1> QED
  BY <1>8

(* What is opened is a node, and in a tree the node itself.                *)
LEMMA OpenedIs ==
    ASSUME NEW item, NEW node \in NodeType
    PROVE  Opened(item, node) \in NodeType /\ (item.kind # "file" => Opened(item, node) = node)
<1>1. CASE item.kind = "file" /\ node.type = "link" /\ node.behind # None
  <2>1. PICK data \in Seq(Nat) : data = node.behind
    BY <1>1 DEF NodeType
  <2>2. [node EXCEPT !.type = "file", !.data = data] \in NodeType
    BY DEF NodeType
  <2> QED
    BY <1>1, <2>1, <2>2 DEF Opened
<1>2. CASE ~(item.kind = "file" /\ node.type = "link" /\ node.behind # None)
  BY <1>2 DEF Opened
<1> QED
  BY <1>1, <1>2

LEMMA FileCode ==
    ASSUME NEW item \in ItemType, item.kind = "file", NEW tree, GoodTree(item, tree)
    PROVE  \E data \in Bytes : \E node \in NodeType :
               /\ node = Opened(item, tree[item.path]) /\ data = node.data /\ node.type = "file"
               /\ Codes(item, tree) = <<WriteLengthPrefixed(data)>>
               /\ WriteLengthPrefixed(data) \in FileCodes
<1>1. PICK node \in NodeType : node = Opened(item, tree[item.path])
  BY OpenedIs DEF GoodTree
<1>2. node.data \in Bytes
  BY DEF NodeType, Bytes
<1>3. Codes(item, tree) = <<WriteLengthPrefixed(node.data)>>
  BY <1>1 DEF Codes
<1>4. WriteLengthPrefixed(node.data) \in FileCodes
  BY <1>2 DEF FileCodes
<1>5. node.type = "file"
  BY <1>1 DEF GoodTree
<1> QED
  BY <1>1, <1>2, <1>3, <1>4, <1>5

LEMMA CodesTyped ==
    ASSUME NEW item \in ItemType, NEW tree, GoodTree(item, tree), NEW g, item.kind # "file" => SameOptions(g, item)
    PROVE  /\ Codes(item, tree) \in Seq(FileCodes \union EntryCodes(g))
           /\ IF item.kind = "file" THEN Len(Codes(item, tree)) = 1 /\ Codes(item, tree)[1] \in FileCodes
              ELSE \A k \in 1..Len(Codes(item, tree)) : Codes(item, tree)[k] \notin FileCodes
<1>1. CASE item.kind = "file"
  <2>1. PICK c \in FileCodes : Codes(item, tree) = <<c>>
    BY <1>1, FileCode
  <2>2. <<c>> \in Seq(FileCodes \union EntryCodes(g)) /\ Len(<<c>>) = 1 /\ <<c>>[1] = c
    OBVIOUS
  <2> QED
    BY <1>1, <2>1, <2>2
<1>2. CASE item.kind # "file" /\ ~item.inTag
  <2>1. Codes(item, tree) = <<>>
    BY <1>2 DEF Codes
  <2> QED
    BY <1>2, <2>1
<1>3. CASE item.kind # "file" /\ item.inTag
  <2>1. PICK paths \in Seq(HashedPaths(item, tree)) :
              /\ paths = Sorted(HashedPaths(item, tree)) /\ Len(Codes(item, tree)) = Len(paths)
              /\ \A k \in 1..Len(paths) :
                    /\ paths[k] \in Bytes /\ tree[paths[k]] \in NodeType
                    /\ Codes(item, tree)[k] = Entry(item, paths[k], tree[paths[k]])
    <3>1. PICK paths : Listed(item, tree, paths)
      BY <1>3, TreeCodes
    <3> QED
      BY <3>1 DEF Listed
  <2>2. PICK codes : codes = Codes(item, tree)
    OBVIOUS
  <2>3. codes = [k \in DOMAIN paths |-> Entry(item, paths[k], tree[paths[k]])]
    BY <1>3, <2>1, <2>2 DEF Codes
  <2>4. ASSUME NEW k \in 1..Len(paths) PROVE codes[k] \in EntryCodes(g) /\ codes[k] \notin FileCodes
    <3>1. codes[k] = Entry(g, paths[k], tree[paths[k]])
      BY <1>3, <2>1, <2>2, OptionsMatter
    <3>2. <<>> \in Text
      BY TextTyped
    <3>3. Entry(g, paths[k], tree[paths[k]]) \in EntryCodes(g)
      BY <2>1, <3>2, EntryTyped
    <3> QED
      BY <3>1, <3>3, FilesApart
  <2>5. Len(paths) \in Nat /\ DOMAIN paths = 1..Len(paths)
    OBVIOUS
  <2>6. PICK C : C = FileCodes \union EntryCodes(g)
    OBVIOUS
  <2>7. DOMAIN codes = 1..Len(paths) /\ codes = [k \in 1..Len(paths) |-> codes[k]]
    BY <2>3, <2>5
  <2>8. \A k \in 1..Len(paths) : codes[k] \in C
    BY <2>4, <2>6
  <2>9. codes \in [1..Len(paths) -> C]
    BY <2>7, <2>8
  <2>10. codes \in Seq(C) /\ Len(codes) = Len(paths)
    BY <2>5, <2>9
  <2> QED
    BY <1>3, <2>2, <2>4, <2>6, <2>10
<1> QED
  BY <1>1, <1>2, <1>3

BareNode(item, p, node) == [NodeInImage(item, p, node) EXCEPT !.setid = FALSE]

Bare(item, tree) == WithoutSetid(Entries(item, tree))

(* Nodes recorded alike are one in the image, set-id apart.                *)
LEMMA RecordedBare ==
    ASSUME NEW g, NEW h, SameOptions(g, h), NEW p, NEW a, NEW b, Recorded(g, a, b)
    PROVE  BareNode(g, p, a) = BareNode(h, p, b)
<1>1. ASSUME NEW i, NEW node, NEW m, NEW o,
             m = (IF i.keepMode THEN node.mode ELSE 0), o = (IF i.keepOwner THEN node.owner ELSE 0)
      PROVE  BareNode(i, p, node) =
                [path |-> p, type |-> node.type, data |-> node.data, mode |-> m, setid |-> FALSE, owner |-> o]
  <2>1. PICK y, d, s : y = node.type /\ d = node.data /\ s = (i.keepMode /\ node.setid)
    OBVIOUS
  <2>2. NodeInImage(i, p, node) = [path |-> p, type |-> y, data |-> d, mode |-> m, setid |-> s, owner |-> o]
    BY <1>1, <2>1, Zenon DEF NodeInImage
  <2>3. [[path |-> p, type |-> y, data |-> d, mode |-> m, setid |-> s, owner |-> o] EXCEPT !.setid = FALSE]
            = [path |-> p, type |-> y, data |-> d, mode |-> m, setid |-> FALSE, owner |-> o]
    <3>1. \A f : [[path |-> p, type |-> y, data |-> d, mode |-> m, setid |-> s, owner |-> o] EXCEPT !.setid = f]
            = [path |-> p, type |-> y, data |-> d, mode |-> m, setid |-> f, owner |-> o]
      OBVIOUS
    <3> QED
      BY <3>1, Zenon
  <2> QED
    BY <2>1, <2>2, <2>3, Zenon DEF BareNode
<1>2. PICK ma, mb, oa, ob : /\ ma = (IF g.keepMode THEN a.mode ELSE 0) /\ mb = (IF h.keepMode THEN b.mode ELSE 0)
                            /\ oa = (IF g.keepOwner THEN a.owner ELSE 0) /\ ob = (IF h.keepOwner THEN b.owner ELSE 0)
  OBVIOUS
<1>3. ma = mb /\ oa = ob
  BY <1>2, Zenon DEF SameOptions, Recorded
<1>4. BareNode(g, p, a) = [path |-> p, type |-> a.type, data |-> a.data, mode |-> ma, setid |-> FALSE, owner |-> oa]
  BY <1>1, <1>2
<1>5. BareNode(h, p, b) = [path |-> p, type |-> b.type, data |-> b.data, mode |-> mb, setid |-> FALSE, owner |-> ob]
  BY <1>1, <1>2
<1>6. a.type = b.type /\ a.data = b.data
  BY DEF Recorded
<1> QED
  BY <1>3, <1>4, <1>5, <1>6, Zenon

LEMMA BareIs ==
    ASSUME NEW item, NEW tree, NEW paths, paths = Sorted(Taken(item, tree))
    PROVE  Bare(item, tree) = [k \in DOMAIN paths |-> BareNode(item, paths[k], Opened(item, tree[paths[k]]))]
BY DEF Bare, Entries, WithoutSetid, BareNode

LEMMA BareSame ==
    ASSUME NEW item, NEW t, NEW u, NEW T \in SUBSET Seq(Nat), IsFiniteSet(T),
           Taken(item, t) = T, Taken(item, u) = T,
           \A p \in T : Recorded(item, Opened(item, t[p]), Opened(item, u[p]))
    PROVE  Bare(item, t) = Bare(item, u)
<1>1. PICK paths \in Seq(T) : paths = Sorted(T)
  BY SortedIs
<1>2. \A k \in DOMAIN paths : paths[k] \in T
  OBVIOUS
<1>3. SameOptions(item, item)
  BY DEF SameOptions
<1>4. \A k \in DOMAIN paths :
          BareNode(item, paths[k], Opened(item, t[paths[k]])) = BareNode(item, paths[k], Opened(item, u[paths[k]]))
  BY <1>2, <1>3, RecordedBare
<1>5. Bare(item, t) = [k \in DOMAIN paths |-> BareNode(item, paths[k], Opened(item, t[paths[k]]))]
  BY <1>1, BareIs
<1>6. Bare(item, u) = [k \in DOMAIN paths |-> BareNode(item, paths[k], Opened(item, u[paths[k]]))]
  BY <1>1, BareIs
<1> QED
  BY <1>4, <1>5, <1>6

(* Entries that are one code are one in the image.                         *)
LEMMA EntrySame ==
    ASSUME NEW g, NEW p \in Bytes, NEW q \in Bytes, NEW a \in NodeType, NEW b \in NodeType,
           Entry(g, p, a) = Entry(g, q, b)
    PROVE  p = q /\ Recorded(g, a, b)
<1>1. <<>> \in Text
  BY TextTyped
<1>2. Entry(g, p, a) ++ <<>> = Entry(g, q, b) ++ <<>>
  OBVIOUS
<1> QED
  BY <1>1, <1>2, EntryDecodes

(* With the same codes an item has the same image.                         *)
LEMMA SameCodes ==
    ASSUME NEW item \in ItemType, Covered(item), NEW t, GoodTree(item, t), NEW u, GoodTree(item, u),
           Codes(item, t) = Codes(item, u)
    PROVE  Bare(item, t) = Bare(item, u)
<1>1. CASE item.kind = "file"
  <2>1. PICK x \in Bytes : /\ x = Opened(item, t[item.path]).data /\ Opened(item, t[item.path]).type = "file"
                           /\ Codes(item, t) = <<WriteLengthPrefixed(x)>>
    BY <1>1, FileCode
  <2>2. PICK y \in Bytes : /\ y = Opened(item, u[item.path]).data /\ Opened(item, u[item.path]).type = "file"
                           /\ Codes(item, u) = <<WriteLengthPrefixed(y)>>
    BY <1>1, FileCode
  <2>3. WriteLengthPrefixed(x) = WriteLengthPrefixed(y)
    <3>1. PICK c, e : c = WriteLengthPrefixed(x) /\ e = WriteLengthPrefixed(y)
      OBVIOUS
    <3>2. <<c>> = <<e>>
      BY <2>1, <2>2, <3>1
    <3> QED
      BY <3>1, <3>2
  <2>4. x = y
    <3>1. <<>> \in Text
      BY TextTyped
    <3>2. WriteLengthPrefixed(x) ++ <<>> = WriteLengthPrefixed(y) ++ <<>>
      BY <2>3
    <3> QED
      BY <3>1, <3>2, PrefixedDecodes
  <2>5. item.path \in DOMAIN t /\ item.path \in DOMAIN u
    BY <1>1 DEF GoodTree
  <2>6. ~item.keepMode /\ ~item.keepOwner
    BY <1>1 DEF ItemType
  <2>7. Recorded(item, Opened(item, t[item.path]), Opened(item, u[item.path]))
    BY <2>1, <2>2, <2>4, <2>6 DEF Recorded
  <2>8. RootOf[item.src] # "missing" /\ item.path \in Seq(Nat)
    BY <2>5 DEF GoodTree, ItemType
  <2>9. Taken(item, t) = {item.path} /\ Taken(item, u) = {item.path}
    BY <1>1, <2>8 DEF Taken
  <2>10. {item.path} \in SUBSET Seq(Nat) /\ IsFiniteSet({item.path})
    BY <2>8, FS_Singleton
  <2>11. \A p \in {item.path} : Recorded(item, Opened(item, t[p]), Opened(item, u[p]))
    BY <2>7
  <2> QED
    BY <2>9, <2>10, <2>11, BareSame
<1>2. CASE item.kind # "file"
  <2>1. item.inTag
    BY <1>2 DEF Covered
  <2>2. (\E ps : Listed(item, t, ps)) /\ (\E qs : Listed(item, u, qs))
    <3>1. \E ps : Listed(item, t, ps)
      BY <1>2, <2>1, TreeCodes
    <3>2. \E qs : Listed(item, u, qs)
      BY <1>2, <2>1, TreeCodes
    <3> QED
      BY <3>1, <3>2
  <2> PICK H : H = HashedPaths(item, t)
    OBVIOUS
  <2>3. PICK ps \in Seq(H) :
              /\ Len(Codes(item, t)) = Len(ps)
              /\ \A p \in H : \E k \in 1..Len(ps) : ps[k] = p
              /\ \A k \in 1..Len(ps) : /\ ps[k] \in Bytes /\ ps[k] \in H /\ t[ps[k]] \in NodeType
                                       /\ Codes(item, t)[k] = Entry(item, ps[k], t[ps[k]])
    BY <2>2 DEF Listed
  <2> PICK K : K = HashedPaths(item, u)
    OBVIOUS
  <2>4. PICK qs \in Seq(K) :
              /\ Len(Codes(item, u)) = Len(qs)
              /\ \A p \in K : \E k \in 1..Len(qs) : qs[k] = p
              /\ \A k \in 1..Len(qs) : /\ qs[k] \in Bytes /\ qs[k] \in K /\ u[qs[k]] \in NodeType
                                       /\ Codes(item, u)[k] = Entry(item, qs[k], u[qs[k]])
    BY <2>2 DEF Listed
  <2>5. Len(ps) = Len(qs)
    BY <2>3, <2>4
  <2>6. ASSUME NEW k \in 1..Len(ps) PROVE ps[k] = qs[k] /\ Recorded(item, t[ps[k]], u[ps[k]])
    <3>1. k \in 1..Len(qs)
      BY <2>5
    <3>2. PICK p, q, a, b : p = ps[k] /\ q = qs[k] /\ a = t[ps[k]] /\ b = u[qs[k]]
      OBVIOUS
    <3>3. p \in Bytes /\ q \in Bytes /\ a \in NodeType /\ b \in NodeType
      BY <2>3, <2>4, <3>1, <3>2
    <3>4. Entry(item, p, a) = Entry(item, q, b)
      BY <2>3, <2>4, <3>1, <3>2
    <3>5. p = q /\ Recorded(item, a, b)
      BY <3>3, <3>4, EntrySame
    <3> QED
      BY <3>2, <3>5
  <2>7. H = K
    <3>1. ASSUME NEW p \in H PROVE p \in K
      <4>1. PICK k \in 1..Len(ps) : ps[k] = p
        BY <2>3
      <4>2. k \in 1..Len(qs) /\ qs[k] = p
        BY <2>5, <2>6, <4>1
      <4> QED
        BY <2>4, <4>2
    <3>2. ASSUME NEW p \in K PROVE p \in H
      <4>1. PICK k \in 1..Len(qs) : qs[k] = p
        BY <2>4
      <4>2. k \in 1..Len(ps) /\ ps[k] = p
        BY <2>5, <2>6, <4>1
      <4> QED
        BY <2>3, <4>2
    <3> QED
      BY <3>1, <3>2
  <2>8. \A p \in H : Recorded(item, t[p], u[p])
    BY <2>3, <2>6
  <2>9. PICK T : T = {p \in H : Kept(item, p)}
    OBVIOUS
  <2>10. Taken(item, t) = T /\ Taken(item, u) = T
    BY <1>2, <2>7, <2>9, TakenHashed
  <2>11. H \in SUBSET Seq(Nat) /\ IsFiniteSet(H)
    BY HashedSorted
  <2>12. T \in SUBSET H
    BY <2>9
  <2>13. T \in SUBSET Seq(Nat) /\ IsFiniteSet(T)
    BY <2>11, <2>12, FS_Subset
  <2>14. \A p \in T : Recorded(item, Opened(item, t[p]), Opened(item, u[p]))
    <3>1. ASSUME NEW p \in T PROVE t[p] \in NodeType /\ u[p] \in NodeType /\ Recorded(item, t[p], u[p])
      BY <2>3, <2>4, <2>7, <2>8, <2>12
    <3> QED
      BY <1>2, <3>1, OpenedIs
  <2> QED
    BY <2>10, <2>13, <2>14, BareSame
<1> QED
  BY <1>1, <1>2

-----------------------------------------------------------------------------
(* Entries of an image.                                                    *)

EntryType ==
    [path : Bytes, type : {"file", "dir", "link"}, data : Bytes, mode : Nat, setid : BOOLEAN, owner : Nat]

LEMMA NodeInImageTyped ==
    ASSUME NEW item \in ItemType, NEW p \in Bytes, NEW node \in NodeType
    PROVE  NodeInImage(item, p, node) \in EntryType
<1>1. /\ node.type \in {"file", "dir", "link"} /\ node.data \in Bytes
      /\ node.mode \in Nat /\ node.setid \in BOOLEAN /\ node.owner \in Nat
  BY DEF NodeType, Bytes
<1>2. PICK m, s, o : /\ m = (IF item.keepMode THEN node.mode ELSE 0)
                     /\ s = (item.keepMode /\ node.setid)
                     /\ o = (IF item.keepOwner THEN node.owner ELSE 0)
  OBVIOUS
<1>3. m \in Nat /\ o \in Nat
  BY <1>1, <1>2
<1>4. s \in BOOLEAN
  BY <1>2
<1>5. NodeInImage(item, p, node)
         = [path |-> p, type |-> node.type, data |-> node.data, mode |-> m, setid |-> s, owner |-> o]
  BY <1>2, Zenon DEF NodeInImage
<1>6. [path |-> p, type |-> node.type, data |-> node.data, mode |-> m, setid |-> s, owner |-> o] \in EntryType
  BY <1>1, <1>3, <1>4 DEF EntryType
<1> QED
  BY <1>5, <1>6

LEMMA TakenIs ==
    ASSUME NEW item \in ItemType, Covered(item), NEW tree, GoodTree(item, tree)
    PROVE  /\ Taken(item, tree) \in SUBSET DOMAIN tree /\ Taken(item, tree) \in SUBSET Seq(Nat)
           /\ IsFiniteSet(Taken(item, tree))
           /\ item.kind = "file" => Taken(item, tree) = {item.path}
<1>1. CASE item.kind = "file"
  <2>1. item.path \in DOMAIN tree /\ item.path \in Seq(Nat)
    BY <1>1 DEF GoodTree, ItemType
  <2>2. RootOf[item.src] # "missing"
    BY <2>1 DEF GoodTree
  <2>3. Taken(item, tree) = {item.path}
    BY <1>1, <2>2 DEF Taken
  <2> QED
    BY <2>1, <2>3, FS_Singleton
<1>2. CASE item.kind # "file"
  <2>1. PICK H : H = HashedPaths(item, tree) /\ H \in SUBSET DOMAIN tree /\ H \in SUBSET Seq(Nat) /\ IsFiniteSet(H)
    BY HashedSorted
  <2>2. PICK T : T = {p \in H : Kept(item, p)} /\ T \in SUBSET H
    OBVIOUS
  <2>3. Taken(item, tree) = T
    BY <1>2, <2>1, <2>2, TakenHashed
  <2>4. IsFiniteSet(T)
    BY <2>1, <2>2, FS_Subset
  <2> QED
    BY <1>2, <2>1, <2>2, <2>3, <2>4
<1> QED
  BY <1>1, <1>2

(* The entries, with the paths they are of.                                *)
LEMMA EntriesTyped ==
    ASSUME NEW item \in ItemType, Covered(item), NEW tree, GoodTree(item, tree)
    PROVE  \E paths \in Seq(Bytes) :
              /\ paths = Sorted(Taken(item, tree))
              /\ \A k \in 1..Len(paths) : paths[k] \in Taken(item, tree)
              /\ Entries(item, tree) \in Seq(EntryType) /\ Len(Entries(item, tree)) = Len(paths)
              /\ \A k \in 1..Len(paths) :
                    Entries(item, tree)[k] = NodeInImage(item, paths[k], Opened(item, tree[paths[k]]))
<1>1. PICK T : T = Taken(item, tree) /\ T \in SUBSET DOMAIN tree /\ T \in SUBSET Seq(Nat) /\ IsFiniteSet(T)
  BY TakenIs
<1>2. PICK paths \in Seq(T) : paths = Sorted(T)
  BY <1>1, SortedIs
<1>3. Len(paths) \in Nat /\ DOMAIN paths = 1..Len(paths) /\ \A k \in 1..Len(paths) : paths[k] \in T
  OBVIOUS
<1>4. PICK es : es = [k \in 1..Len(paths) |-> NodeInImage(item, paths[k], Opened(item, tree[paths[k]]))]
  OBVIOUS
<1>5. Entries(item, tree) = es
  BY <1>1, <1>2, <1>3, <1>4 DEF Entries
<1>6. ASSUME NEW k \in 1..Len(paths) PROVE es[k] \in EntryType
  <2>1. PICK p \in T : p = paths[k]
    BY <1>3
  <2>2. p \in Bytes /\ tree[p] \in NodeType
    BY <1>1 DEF Bytes, GoodTree
  <2>3. Opened(item, tree[p]) \in NodeType
    BY <2>2, OpenedIs
  <2> QED
    BY <1>4, <2>1, <2>2, <2>3, NodeInImageTyped
<1>7. es \in [1..Len(paths) -> EntryType]
  BY <1>4, <1>6
<1>8. es \in Seq(EntryType) /\ Len(es) = Len(paths)
  BY <1>3, <1>7
<1>9. paths \in Seq(Bytes)
  BY <1>1, <1>2 DEF Bytes
<1> QED
  BY <1>1, <1>2, <1>3, <1>4, <1>5, <1>8, <1>9

LEMMA WithoutSetidIs ==
    ASSUME NEW s \in Seq(EntryType)
    PROVE  /\ WithoutSetid(s) \in Seq(EntryType) /\ Len(WithoutSetid(s)) = Len(s)
           /\ \A k \in 1..Len(s) : WithoutSetid(s)[k] = [s[k] EXCEPT !.setid = FALSE]
<1>1. Len(s) \in Nat /\ DOMAIN s = 1..Len(s) /\ \A k \in 1..Len(s) : s[k] \in EntryType
  OBVIOUS
<1>2. \A r \in EntryType : [r EXCEPT !.setid = FALSE] \in EntryType
  BY DEF EntryType
<1>3. WithoutSetid(s) = [k \in 1..Len(s) |-> [s[k] EXCEPT !.setid = FALSE]]
  BY <1>1 DEF WithoutSetid
<1> QED
  BY <1>1, <1>2, <1>3

LEMMA BareTyped ==
    ASSUME NEW item \in ItemType, Covered(item), NEW tree, GoodTree(item, tree)
    PROVE  \E paths \in Seq(Bytes) :
              /\ paths = Sorted(Taken(item, tree))
              /\ Bare(item, tree) \in Seq(EntryType) /\ Len(Bare(item, tree)) = Len(paths)
              /\ \A k \in 1..Len(paths) :
                    Bare(item, tree)[k] = BareNode(item, paths[k], Opened(item, tree[paths[k]]))
<1>1. PICK paths \in Seq(Bytes) :
              /\ paths = Sorted(Taken(item, tree))
              /\ Entries(item, tree) \in Seq(EntryType) /\ Len(Entries(item, tree)) = Len(paths)
              /\ \A k \in 1..Len(paths) :
                    Entries(item, tree)[k] = NodeInImage(item, paths[k], Opened(item, tree[paths[k]]))
  BY EntriesTyped
<1>2. PICK es \in Seq(EntryType) : es = Entries(item, tree)
  BY <1>1
<1>3. /\ WithoutSetid(es) \in Seq(EntryType) /\ Len(WithoutSetid(es)) = Len(es)
      /\ \A k \in 1..Len(es) : WithoutSetid(es)[k] = [es[k] EXCEPT !.setid = FALSE]
  BY WithoutSetidIs
<1> QED
  BY <1>1, <1>2, <1>3 DEF Bare, BareNode

(* An item has as many codes as entries in the image.                      *)
LEMMA AsManyCodes ==
    ASSUME NEW item \in ItemType, Covered(item), item.kind # "file" => CopiesAllHashed(item),
           NEW tree, GoodTree(item, tree)
    PROVE  Len(Bare(item, tree)) = Len(Codes(item, tree))
<1>1. Len(Bare(item, tree)) = Len(Sorted(Taken(item, tree)))
  BY BareTyped
<1>2. CASE item.kind = "file"
  <2>1. PICK c : Codes(item, tree) = <<c>>
    BY <1>2 DEF Codes
  <2>2. PICK T : T = {item.path}
    OBVIOUS
  <2>3. Taken(item, tree) = T
    BY <1>2, <2>2, TakenIs
  <2>4. Cardinality(T) = 1
    BY <2>2, FS_Singleton
  <2>5. Len(Sorted(T)) = 1
    BY <2>4 DEF Sorted
  <2> QED
    BY <1>1, <2>1, <2>3, <2>5
<1>3. CASE item.kind # "file"
  <2>1. Taken(item, tree) = HashedPaths(item, tree)
    BY <1>3, AllKept
  <2>2. item.inTag
    BY <1>3 DEF Covered
  <2>3. PICK paths : Listed(item, tree, paths)
    BY <1>3, <2>2, TreeCodes
  <2> QED
    BY <1>1, <2>1, <2>3 DEF Listed
<1> QED
  BY <1>2, <1>3

LEMMA CodeAndBare ==
    ASSUME NEW item \in ItemType, Covered(item), item.kind # "file", CopiesAllHashed(item),
           NEW tree, GoodTree(item, tree), NEW j \in 1..Len(Codes(item, tree))
    PROVE  \E p \in Bytes : \E node \in NodeType :
              Codes(item, tree)[j] = Entry(item, p, node) /\ Bare(item, tree)[j] = BareNode(item, p, node)
<1>1. Taken(item, tree) = HashedPaths(item, tree) /\ item.inTag
  BY AllKept DEF Covered
<1>2. PICK paths : Listed(item, tree, paths)
  BY <1>1, TreeCodes
<1>3. /\ paths = Sorted(HashedPaths(item, tree)) /\ Len(Codes(item, tree)) = Len(paths)
      /\ paths[j] \in Bytes /\ tree[paths[j]] \in NodeType
      /\ Codes(item, tree)[j] = Entry(item, paths[j], tree[paths[j]])
  BY <1>2 DEF Listed
<1>4. Opened(item, tree[paths[j]]) = tree[paths[j]]
  BY <1>3, OpenedIs
<1>5. Bare(item, tree)[j] = BareNode(item, paths[j], tree[paths[j]])
  BY <1>1, <1>3, <1>4, BareTyped
<1> QED
  BY <1>3, <1>5

(* One code is of one entry of the image, in whichever tree.               *)
LEMMA OneBare ==
    ASSUME NEW g \in ItemType, Covered(g), g.kind # "file", CopiesAllHashed(g),
           NEW h \in ItemType, Covered(h), h.kind # "file", CopiesAllHashed(h), SameOptions(g, h),
           NEW t, GoodTree(g, t), NEW j \in 1..Len(Codes(g, t)),
           NEW u, GoodTree(h, u), NEW q \in 1..Len(Codes(h, u)),
           Codes(g, t)[j] = Codes(h, u)[q]
    PROVE  Bare(g, t)[j] = Bare(h, u)[q]
<1>1. PICK p \in Bytes, a \in NodeType :
          Codes(g, t)[j] = Entry(g, p, a) /\ Bare(g, t)[j] = BareNode(g, p, a)
  BY CodeAndBare
<1>2. PICK r \in Bytes, b \in NodeType :
          Codes(h, u)[q] = Entry(h, r, b) /\ Bare(h, u)[q] = BareNode(h, r, b)
  BY CodeAndBare
<1>3. Entry(g, p, a) = Entry(g, r, b)
  <2>1. Entry(g, r, b) = Entry(h, r, b)
    BY OptionsMatter
  <2> QED
    BY <1>1, <1>2, <2>1
<1>4. p = r /\ Recorded(g, a, b)
  BY <1>3, EntrySame
<1>5. BareNode(g, p, a) = BareNode(h, p, b)
  BY <1>4, RecordedBare
<1> QED
  BY <1>1, <1>2, <1>4, <1>5

-----------------------------------------------------------------------------
(* Layers.                                                                 *)

Files(items) == {i \in 1..Len(items) : items[i].kind = "file"}

GoodHost(items, d) == \A i \in 1..Len(items) : GoodTree(items[i], d[items[i].src])

AllCodes(items, d) == [i \in 1..Len(items) |-> Codes(items[i], d[items[i].src])]

AllBare(items, d) == [i \in 1..Len(items) |-> Bare(items[i], d[items[i].src])]

Hashed(items, d) == FlattenSeq([i \in 1..Len(items) |-> HashItem(items[i], d[items[i].src])])

(* All trees are hashed with the options of g.                             *)
Alike(items, g) == \A i \in 1..Len(items) : items[i].kind # "file" => SameOptions(g, items[i])

LEMMA ItemsAre ==
    ASSUME NEW items \in Seq(ItemType)
    PROVE  /\ Len(items) \in Nat /\ DOMAIN items = 1..Len(items)
           /\ \A i \in 1..Len(items) : items[i] \in ItemType
OBVIOUS

LEMMA LayerCodes ==
    ASSUME NEW items \in Seq(ItemType), NEW g, Alike(items, g), NEW d, GoodHost(items, d)
    PROVE  /\ AllCodes(items, d) \in Seq(Seq(FileCodes \union EntryCodes(g)))
           /\ Len(AllCodes(items, d)) = Len(items)
           /\ \A i \in 1..Len(items) :
                 IF i \in Files(items) THEN Len(AllCodes(items, d)[i]) = 1 /\ AllCodes(items, d)[i][1] \in FileCodes
                 ELSE \A k \in 1..Len(AllCodes(items, d)[i]) : AllCodes(items, d)[i][k] \notin FileCodes
<1>1. PICK C : C = FileCodes \union EntryCodes(g)
  OBVIOUS
<1>2. PICK n : n = Len(items) /\ n \in Nat /\ \A i \in 1..n : items[i] \in ItemType
  BY ItemsAre
<1>3. ASSUME NEW i \in 1..n
      PROVE  /\ Codes(items[i], d[items[i].src]) \in Seq(C)
             /\ IF i \in Files(items)
                THEN Len(Codes(items[i], d[items[i].src])) = 1 /\ Codes(items[i], d[items[i].src])[1] \in FileCodes
                ELSE \A k \in 1..Len(Codes(items[i], d[items[i].src])) :
                        Codes(items[i], d[items[i].src])[k] \notin FileCodes
  <2>1. PICK item \in ItemType : item = items[i]
    BY <1>2
  <2>2. PICK tree : tree = d[item.src]
    OBVIOUS
  <2>3. GoodTree(item, tree) /\ (item.kind # "file" => SameOptions(g, item))
    BY <1>2, <2>1, <2>2 DEF GoodHost, Alike
  <2>4. i \in Files(items) <=> item.kind = "file"
    BY <1>2, <2>1 DEF Files
  <2>5. /\ Codes(item, tree) \in Seq(FileCodes \union EntryCodes(g))
        /\ IF item.kind = "file" THEN Len(Codes(item, tree)) = 1 /\ Codes(item, tree)[1] \in FileCodes
           ELSE \A k \in 1..Len(Codes(item, tree)) : Codes(item, tree)[k] \notin FileCodes
    BY <2>3, CodesTyped
  <2> QED
    BY <1>1, <2>1, <2>2, <2>4, <2>5
<1>4. PICK X : X = AllCodes(items, d) /\ X = [i \in 1..n |-> Codes(items[i], d[items[i].src])]
  BY <1>2 DEF AllCodes
<1>5. \A i \in 1..n : X[i] \in Seq(C)
  BY <1>3, <1>4
<1>6. X \in [1..n -> Seq(C)]
  BY <1>4, <1>5
<1>7. X \in Seq(Seq(C)) /\ Len(X) = n
  BY <1>2, <1>6
<1>8. \A i \in 1..n : X[i] = Codes(items[i], d[items[i].src])
  BY <1>4
<1> QED
  BY <1>1, <1>2, <1>3, <1>4, <1>7, <1>8

LEMMA HashedIsCodes ==
    ASSUME NEW items \in Seq(ItemType), NEW g, Alike(items, g), NEW d, GoodHost(items, d)
    PROVE  Hashed(items, d) = FlattenSeq(FlattenSeq(AllCodes(items, d)))
<1>1. PICK C : C = FileCodes \union EntryCodes(g)
  OBVIOUS
<1>2. PICK X : X = AllCodes(items, d) /\ X \in Seq(Seq(C)) /\ Len(X) = Len(items)
  BY <1>1, LayerCodes
<1>3. C \subseteq Seq(Int)
  BY <1>1, CodesDecode DEF Decodable, Text
<1>4. \A s \in Seq(C) : s \in Seq(Seq(Int))
  BY <1>3
<1>5. X \in Seq(Seq(Seq(Int)))
  BY <1>2, <1>4
<1>6. FlattenSeq([i \in DOMAIN X |-> FlattenSeq(X[i])]) = FlattenSeq(FlattenSeq(X))
  BY <1>5, FlattenNested
<1>7. DOMAIN X = 1..Len(items)
  BY <1>2
<1>8. \A i \in 1..Len(items) : FlattenSeq(X[i]) = HashItem(items[i], d[items[i].src])
  BY <1>2, ItemIsCodes DEF AllCodes
<1>9. [i \in DOMAIN X |-> FlattenSeq(X[i])] = [i \in 1..Len(items) |-> HashItem(items[i], d[items[i].src])]
  BY <1>7, <1>8
<1> QED
  BY <1>2, <1>6, <1>9 DEF Hashed

(* Layers that hash alike have the same row of codes.                      *)
LEMMA LayersAligned ==
    ASSUME NEW items \in Seq(ItemType), NEW g, Alike(items, g), NEW d, GoodHost(items, d),
           NEW e, GoodHost(items, e), Hashed(items, d) = Hashed(items, e)
    PROVE  Aligned(AllCodes(items, d), AllCodes(items, e), FileCodes, Files(items))
<1>1. PICK C : C = FileCodes \union EntryCodes(g)
  OBVIOUS
<1>2. PICK X : X = AllCodes(items, d)
  OBVIOUS
<1>3. PICK Y : Y = AllCodes(items, e)
  OBVIOUS
<1>4. /\ X \in Seq(Seq(C)) /\ Len(X) = Len(items)
      /\ \A i \in 1..Len(items) :
            IF i \in Files(items) THEN Len(X[i]) = 1 /\ X[i][1] \in FileCodes
            ELSE \A k \in 1..Len(X[i]) : X[i][k] \notin FileCodes
  BY <1>1, <1>2, LayerCodes
<1>5. /\ Y \in Seq(Seq(C)) /\ Len(Y) = Len(items)
      /\ \A i \in 1..Len(items) :
            IF i \in Files(items) THEN Len(Y[i]) = 1 /\ Y[i][1] \in FileCodes
            ELSE \A k \in 1..Len(Y[i]) : Y[i][k] \notin FileCodes
  BY <1>1, <1>3, LayerCodes
<1>6. FlattenSeq(FlattenSeq(X)) = FlattenSeq(FlattenSeq(Y))
  BY <1>2, <1>3, HashedIsCodes
<1>7. FlattenSeq(X) \in Seq(C) /\ FlattenSeq(Y) \in Seq(C)
  BY <1>4, <1>5, FlattenType
<1>8. FlattenSeq(X) = FlattenSeq(Y)
  BY <1>1, <1>6, <1>7, CodesDecode, Decodes
<1> QED
  BY <1>2, <1>3, <1>4, <1>5, <1>8 DEF Aligned

LEMMA SameCodesThere ==
    ASSUME NEW items \in Seq(ItemType), NEW d, GoodHost(items, d), NEW e, GoodHost(items, e),
           NEW i \in 1..Len(items), Covered(items[i]), AllCodes(items, d)[i] = AllCodes(items, e)[i]
    PROVE  AllBare(items, d)[i] = AllBare(items, e)[i]
<1>1. PICK item \in ItemType : item = items[i]
  BY ItemsAre
<1>2. PICK t, u : t = d[item.src] /\ u = e[item.src]
  OBVIOUS
<1>3. GoodTree(item, t) /\ GoodTree(item, u)
  BY <1>1, <1>2 DEF GoodHost
<1>4. Codes(item, t) = Codes(item, u)
  BY <1>1, <1>2 DEF AllCodes
<1>5. Covered(item)
  BY <1>1
<1>6. Bare(item, t) = Bare(item, u)
  BY <1>3, <1>4, <1>5, SameCodes
<1> QED
  BY <1>1, <1>2, <1>6 DEF AllBare

LEMMA AllBareIs ==
    ASSUME NEW items \in Seq(ItemType), \A i \in 1..Len(items) : Covered(items[i]), NEW d, GoodHost(items, d)
    PROVE  AllBare(items, d) \in Seq(Seq(EntryType)) /\ Len(AllBare(items, d)) = Len(items)
<1>1. PICK n : n = Len(items) /\ n \in Nat /\ \A i \in 1..n : items[i] \in ItemType
  BY ItemsAre
<1>2. ASSUME NEW i \in 1..n PROVE Bare(items[i], d[items[i].src]) \in Seq(EntryType)
  <2>1. PICK item \in ItemType : item = items[i]
    BY <1>1
  <2>2. PICK tree : tree = d[item.src]
    OBVIOUS
  <2>3. GoodTree(item, tree) /\ Covered(item)
    BY <1>1, <2>1, <2>2 DEF GoodHost
  <2>4. Bare(item, tree) \in Seq(EntryType)
    BY <2>3, BareTyped
  <2> QED
    BY <2>1, <2>2, <2>4
<1>3. PICK V : V = [i \in 1..n |-> Bare(items[i], d[items[i].src])]
  OBVIOUS
<1>4. V \in [1..n -> Seq(EntryType)]
  BY <1>2, <1>3
<1>5. V \in Seq(Seq(EntryType)) /\ Len(V) = n
  BY <1>1, <1>4
<1> QED
  BY <1>1, <1>3, <1>5 DEF AllBare

AllCopied(items) ==
    \A i \in 1..Len(items) :
       Covered(items[i]) /\ (items[i].kind # "file" => CopiesAllHashed(items[i]))

(* Of each item, as many entries are in the image as codes in the text.    *)
LEMMA BareLikeCodes ==
    ASSUME NEW items \in Seq(ItemType), NEW g, Alike(items, g), NEW d, GoodHost(items, d),
           AllCopied(items)
    PROVE  LikeLong(AllBare(items, d), AllCodes(items, d))
<1>1. Len(AllBare(items, d)) = Len(items) /\ Len(AllCodes(items, d)) = Len(items)
  BY AllBareIs, LayerCodes DEF AllCopied
<1>2. ASSUME NEW i \in 1..Len(items) PROVE Len(AllBare(items, d)[i]) = Len(AllCodes(items, d)[i])
  <2>1. PICK item \in ItemType : item = items[i]
    BY ItemsAre
  <2>2. PICK tree : tree = d[item.src]
    OBVIOUS
  <2>3. GoodTree(item, tree) /\ Covered(item) /\ (item.kind # "file" => CopiesAllHashed(item))
    BY <2>1, <2>2 DEF GoodHost, AllCopied
  <2>4. Len(Bare(item, tree)) = Len(Codes(item, tree))
    BY <2>3, AsManyCodes
  <2> QED
    BY <2>1, <2>2, <2>4 DEF AllBare, AllCodes
<1> QED
  BY <1>1, <1>2 DEF LikeLong

(* Codes that are equal have results that are equal.                       *)
Corresponds(n, F, X, Y, V, W) ==
    \A i, k \in 1..n : i \notin F /\ k \notin F =>
       \A j \in 1..Len(X[i]), q \in 1..Len(Y[k]) : X[i][j] = Y[k][q] => V[i][j] = W[k][q]

LEMMA CodesDetermine ==
    ASSUME NEW items \in Seq(ItemType), NEW g, Alike(items, g), AllCopied(items),
           NEW d, GoodHost(items, d), NEW e, GoodHost(items, e)
    PROVE  Corresponds(Len(items), Files(items), AllCodes(items, d), AllCodes(items, e),
                       AllBare(items, d), AllBare(items, e))
<1> SUFFICES
       ASSUME NEW i \in 1..Len(items), i \notin Files(items), NEW k \in 1..Len(items), k \notin Files(items),
              NEW j \in 1..Len(AllCodes(items, d)[i]), NEW q \in 1..Len(AllCodes(items, e)[k]),
              AllCodes(items, d)[i][j] = AllCodes(items, e)[k][q]
       PROVE  AllBare(items, d)[i][j] = AllBare(items, e)[k][q]
  BY DEF Corresponds
<1>1. PICK f \in ItemType : f = items[i]
  BY ItemsAre
<1>2. PICK h \in ItemType : h = items[k]
  BY ItemsAre
<1>3. PICK t, u : t = d[f.src] /\ u = e[h.src]
  OBVIOUS
<1>4. GoodTree(f, t) /\ GoodTree(h, u)
  BY <1>1, <1>2, <1>3 DEF GoodHost
<1>5. f.kind # "file" /\ h.kind # "file"
  BY <1>1, <1>2 DEF Files
<1>6. Covered(f) /\ CopiesAllHashed(f) /\ Covered(h) /\ CopiesAllHashed(h)
  BY <1>1, <1>2, <1>5 DEF AllCopied
<1>7. SameOptions(g, f) /\ SameOptions(g, h)
  BY <1>1, <1>2, <1>5 DEF Alike
<1>8. SameOptions(f, h)
  BY <1>7 DEF SameOptions
<1>9. AllCodes(items, d)[i] = Codes(f, t) /\ AllBare(items, d)[i] = Bare(f, t)
  BY <1>1, <1>3 DEF AllCodes, AllBare
<1>10. AllCodes(items, e)[k] = Codes(h, u) /\ AllBare(items, e)[k] = Bare(h, u)
  BY <1>2, <1>3 DEF AllCodes, AllBare
<1>11. j \in 1..Len(Codes(f, t)) /\ q \in 1..Len(Codes(h, u)) /\ Codes(f, t)[j] = Codes(h, u)[q]
  BY <1>9, <1>10
<1>12. Bare(f, t)[j] = Bare(h, u)[q]
  BY <1>4, <1>5, <1>6, <1>8, <1>11, OneBare
<1> QED
  BY <1>9, <1>10, <1>12

AtMostOneTree(items) ==
    \A i, k \in 1..Len(items) : i \notin Files(items) /\ k \notin Files(items) => i = k

TreesCopied(items) == \A i \in 1..Len(items) : items[i].kind # "file" => CopiesAllHashed(items[i])

(* Two hosts hash alike: the files are the same, a single tree is, and the *)
(* entries of the trees are, one after the other.                          *)
LEMMA SameBare ==
    ASSUME NEW items \in Seq(ItemType), NEW g, Alike(items, g), \A i \in 1..Len(items) : Covered(items[i]),
           NEW d, GoodHost(items, d), NEW e, GoodHost(items, e), Hashed(items, d) = Hashed(items, e)
    PROVE  /\ \A i \in Files(items) : AllBare(items, d)[i] = AllBare(items, e)[i]
           /\ AtMostOneTree(items) => AllBare(items, d) = AllBare(items, e)
           /\ TreesCopied(items) => FlattenSeq(AllBare(items, d)) = FlattenSeq(AllBare(items, e))
<1>1. PICK C : C = FileCodes \union EntryCodes(g)
  OBVIOUS
<1>2. PICK F : F = Files(items) /\ F \in SUBSET (1..Len(items))
  BY DEF Files
<1>3. PICK X : X = AllCodes(items, d) /\ X \in Seq(Seq(C)) /\ Len(X) = Len(items)
  BY <1>1, LayerCodes
<1>4. PICK Y : Y = AllCodes(items, e) /\ Y \in Seq(Seq(C)) /\ Len(Y) = Len(items)
  BY <1>1, LayerCodes
<1>5. Aligned(X, Y, FileCodes, F)
  BY <1>2, <1>3, <1>4, LayersAligned
<1>6. PICK V : V = AllBare(items, d) /\ V \in Seq(Seq(EntryType)) /\ Len(V) = Len(items)
  BY AllBareIs
<1>7. PICK W : W = AllBare(items, e) /\ W \in Seq(Seq(EntryType)) /\ Len(W) = Len(items)
  BY AllBareIs
<1>8. ASSUME NEW i \in 1..Len(items), X[i] = Y[i] PROVE V[i] = W[i]
  BY <1>3, <1>4, <1>6, <1>7, <1>8, SameCodesThere
<1>9. F \in SUBSET (1..Len(X))
  BY <1>2, <1>3
<1>10. ASSUME NEW i \in F PROVE V[i] = W[i]
  <2>1. X \in Seq(Seq(C)) /\ Y \in Seq(Seq(C))
    BY <1>3, <1>4
  <2>2. X[i] = Y[i]
    BY <1>5, <1>9, <2>1, FilesSame
  <2> QED
    BY <1>2, <1>8, <2>2
<1>11. ASSUME AtMostOneTree(items) PROVE V = W
  <2>1. \A i, k \in 1..Len(X) : i \notin F /\ k \notin F => i = k
    BY <1>2, <1>3, <1>11 DEF AtMostOneTree
  <2>2. X = Y
    BY <1>3, <1>4, <1>5, <1>9, <2>1, RowsSame
  <2>3. \A i \in 1..Len(items) : V[i] = W[i]
    BY <1>8, <2>2
  <2> QED
    BY <1>6, <1>7, <2>3, SameSeq
<1>12. ASSUME TreesCopied(items)
       PROVE  FlattenSeq(V) = FlattenSeq(W)
  <2>0. AllCopied(items)
    BY <1>12 DEF AllCopied, TreesCopied
  <2>1. LikeLong(V, X) /\ LikeLong(W, Y)
    BY <1>3, <1>4, <1>6, <1>7, <2>0, BareLikeCodes
  <2>2. PICK n, l, m : n = Len(X) /\ l = Lengths(X) /\ m = Lengths(Y)
    OBVIOUS
  <2>3. \A i \in 1..n : l[i] = Len(X[i]) /\ m[i] = Len(Y[i])
    BY <1>3, <1>4, <2>2, LengthsAre
  <2>4. \A i, k \in 1..n : i \notin F /\ k \notin F =>
           \A j \in 1..l[i], q \in 1..m[k] : X[i][j] = Y[k][q] => V[i][j] = W[k][q]
    <3>1. Corresponds(Len(items), Files(items), AllCodes(items, d), AllCodes(items, e),
                      AllBare(items, d), AllBare(items, e))
      BY <2>0, CodesDetermine
    <3>2. Corresponds(n, F, X, Y, V, W)
      BY <1>2, <1>3, <1>4, <1>6, <1>7, <2>2, <3>1
    <3> SUFFICES ASSUME NEW i \in 1..n, NEW k \in 1..n, i \notin F, k \notin F,
                        NEW j \in 1..l[i], NEW q \in 1..m[k], X[i][j] = Y[k][q]
                 PROVE  V[i][j] = W[k][q]
      OBVIOUS
    <3>3. j \in 1..Len(X[i]) /\ q \in 1..Len(Y[k])
      BY <2>3
    <3> QED
      BY <3>2, <3>3 DEF Corresponds
  <2>5. Determined(n, l, m, F, X, Y, V, W)
    BY <1>10, <2>4 DEF Determined
  <2>6. Yields(X, Y, F, V, W)
    BY <2>1, <2>2, <2>5 DEF Yields
  <2> QED
    BY <1>3, <1>4, <1>5, <1>6, <1>7, <1>9, <2>6, ResultsSame
<1> QED
  BY <1>2, <1>6, <1>7, <1>10, <1>11, <1>12

-----------------------------------------------------------------------------
(* Images.                                                                 *)

ImageOf(items, d) == [i \in 1..Len(items) |-> Entries(items[i], d[items[i].src])]

LEMMA ImageTyped ==
    ASSUME NEW items \in Seq(ItemType), \A i \in 1..Len(items) : Covered(items[i]), NEW d, GoodHost(items, d)
    PROVE  ImageOf(items, d) \in Seq(Seq(EntryType)) /\ Len(ImageOf(items, d)) = Len(items)
<1>1. PICK n : n = Len(items) /\ n \in Nat /\ \A i \in 1..n : items[i] \in ItemType
  BY ItemsAre
<1>2. ASSUME NEW i \in 1..n PROVE Entries(items[i], d[items[i].src]) \in Seq(EntryType)
  <2>1. PICK item \in ItemType : item = items[i]
    BY <1>1
  <2>2. PICK tree : tree = d[item.src]
    OBVIOUS
  <2>3. GoodTree(item, tree) /\ Covered(item)
    BY <1>1, <2>1, <2>2 DEF GoodHost
  <2>4. Entries(item, tree) \in Seq(EntryType)
    BY <2>3, EntriesTyped
  <2> QED
    BY <2>1, <2>2, <2>4
<1>3. PICK V : V = [i \in 1..n |-> Entries(items[i], d[items[i].src])]
  OBVIOUS
<1>4. V \in [1..n -> Seq(EntryType)]
  BY <1>2, <1>3
<1>5. V \in Seq(Seq(EntryType)) /\ Len(V) = n
  BY <1>1, <1>4
<1> QED
  BY <1>1, <1>3, <1>5 DEF ImageOf

(* The set-id bits go entry by entry.                                      *)
LEMMA BareFlatten ==
    ASSUME NEW im \in Seq(Seq(EntryType)), NEW V \in Seq(Seq(EntryType)), Len(V) = Len(im),
           \A i \in 1..Len(im) : V[i] = WithoutSetid(im[i])
    PROVE  WithoutSetid(FlattenSeq(im)) = FlattenSeq(V)
<1>1. PICK n, l : n = Len(im) /\ l = Lengths(im)
  OBVIOUS
<1>2. \A i \in 1..n : im[i] \in Seq(EntryType) /\ Len(im[i]) \in Nat /\ l[i] = Len(im[i])
  BY <1>1, LengthsAre
<1>3. \A i \in 1..n : /\ Len(V[i]) = Len(im[i])
                      /\ \A j \in 1..Len(im[i]) : V[i][j] = [im[i][j] EXCEPT !.setid = FALSE]
  BY <1>1, <1>2, WithoutSetidIs
<1>4. LikeLong(V, im)
  BY <1>1, <1>3 DEF LikeLong
<1>5. PICK o : Offsets(o, im)
  BY OffsetsExist
<1>6. PICK s, v : s = FlattenSeq(im) /\ v = FlattenSeq(V)
  OBVIOUS
<1>7. s \in Seq(EntryType) /\ v \in Seq(EntryType)
  BY <1>6, FlattenType
<1>8. /\ Laid(n, l, o) /\ o[n + 1] = Len(s)
      /\ \A i \in 1..n : \A j \in 1..Len(im[i]) : s[o[i] + j] = im[i][j]
  BY <1>1, <1>5, <1>6 DEF Offsets
<1>9. Len(v) = o[n + 1] /\ Reads(v, n, l, o, V)
  BY <1>1, <1>4, <1>5, <1>6, OffsetsByLength
<1>10. ASSUME NEW k \in 1..Len(s) PROVE v[k] = [s[k] EXCEPT !.setid = FALSE]
  <2>1. PICK i \in 1..n : k - o[i] \in 1..l[i]
    BY <1>8, LaidCovers
  <2>2. PICK j : j = k - o[i] /\ j \in 1..l[i]
    BY <2>1
  <2>3. o[i] \in Nat /\ l[i] \in Nat
    <3>1. n \in Nat
      BY <1>8 DEF Laid
    <3>2. i \in 1..(n + 1)
      BY <3>1
    <3> QED
      BY <1>8, <3>2 DEF Laid
  <2>4. k = o[i] + j
    BY <2>2, <2>3
  <2>5. v[k] = V[i][j]
    BY <1>9, <2>2, <2>4 DEF Reads
  <2>6. j \in 1..Len(im[i])
    BY <1>2, <2>2
  <2>7. s[k] = im[i][j] /\ V[i][j] = [im[i][j] EXCEPT !.setid = FALSE]
    BY <1>3, <1>8, <2>4, <2>6
  <2> QED
    BY <2>5, <2>7
<1>11. PICK w : w = WithoutSetid(s)
  OBVIOUS
<1>12. /\ w \in Seq(EntryType) /\ Len(w) = Len(s)
       /\ \A k \in 1..Len(s) : w[k] = [s[k] EXCEPT !.setid = FALSE]
  BY <1>7, <1>11, WithoutSetidIs
<1>13. Len(w) = Len(v) /\ \A k \in 1..Len(w) : w[k] = v[k]
  BY <1>8, <1>9, <1>10, <1>12
<1>14. w = v
  BY <1>7, <1>12, <1>13, SameSeq
<1> QED
  BY <1>6, <1>11, <1>14

LEMMA ImageBare ==
    ASSUME NEW items \in Seq(ItemType), \A i \in 1..Len(items) : Covered(items[i]), NEW d, GoodHost(items, d)
    PROVE  /\ \A i \in 1..Len(items) : WithoutSetid(ImageOf(items, d)[i]) = AllBare(items, d)[i]
           /\ WithoutSetid(FlattenSeq(ImageOf(items, d))) = FlattenSeq(AllBare(items, d))
<1>1. PICK im : im = ImageOf(items, d) /\ im \in Seq(Seq(EntryType)) /\ Len(im) = Len(items)
  BY ImageTyped
<1>2. PICK V : V = AllBare(items, d) /\ V \in Seq(Seq(EntryType)) /\ Len(V) = Len(items)
  BY AllBareIs
<1>3. \A i \in 1..Len(items) : V[i] = WithoutSetid(im[i])
  BY <1>1, <1>2 DEF ImageOf, AllBare, Bare
<1>4. WithoutSetid(FlattenSeq(im)) = FlattenSeq(V)
  BY <1>1, <1>2, <1>3, BareFlatten
<1> QED
  BY <1>1, <1>2, <1>3, <1>4

(* Images of two hosts that hash alike.                                    *)
LEMMA SameImages ==
    ASSUME NEW items \in Seq(ItemType), NEW g, Alike(items, g), \A i \in 1..Len(items) : Covered(items[i]),
           NEW d, GoodHost(items, d), NEW e, GoodHost(items, e), Hashed(items, d) = Hashed(items, e)
    PROVE  /\ \A i \in Files(items) : WithoutSetid(ImageOf(items, d)[i]) = WithoutSetid(ImageOf(items, e)[i])
           /\ AtMostOneTree(items)
              => \A i \in 1..Len(items) : WithoutSetid(ImageOf(items, d)[i]) = WithoutSetid(ImageOf(items, e)[i])
           /\ TreesCopied(items)
              => WithoutSetid(FlattenSeq(ImageOf(items, d))) = WithoutSetid(FlattenSeq(ImageOf(items, e)))
<1>1. PICK V, W, F : V = AllBare(items, d) /\ W = AllBare(items, e) /\ F = Files(items)
  OBVIOUS
<1>2. PICK I, J : I = ImageOf(items, d) /\ J = ImageOf(items, e)
  OBVIOUS
<1>3. /\ \A i \in 1..Len(items) : WithoutSetid(I[i]) = V[i]
      /\ WithoutSetid(FlattenSeq(I)) = FlattenSeq(V)
  BY <1>1, <1>2, ImageBare
<1>4. /\ \A i \in 1..Len(items) : WithoutSetid(J[i]) = W[i]
      /\ WithoutSetid(FlattenSeq(J)) = FlattenSeq(W)
  BY <1>1, <1>2, ImageBare
<1>5. \A i \in F : i \in 1..Len(items)
  BY <1>1 DEF Files
<1>6. \A i \in F : V[i] = W[i]
  BY <1>1, SameBare
<1>7. AtMostOneTree(items) => V = W
  BY <1>1, SameBare
<1>8. TreesCopied(items)
         => FlattenSeq(V) = FlattenSeq(W)
  BY <1>1, SameBare
<1>9. \A i \in F : WithoutSetid(I[i]) = WithoutSetid(J[i])
  BY <1>3, <1>4, <1>5, <1>6
<1>10. AtMostOneTree(items)
          => \A i \in 1..Len(items) : WithoutSetid(I[i]) = WithoutSetid(J[i])
  BY <1>3, <1>4, <1>7
<1>11. TreesCopied(items)
       => WithoutSetid(FlattenSeq(I)) = WithoutSetid(FlattenSeq(J))
  BY <1>3, <1>4, <1>8
<1> QED
  BY <1>1, <1>2, <1>9, <1>10, <1>11

-----------------------------------------------------------------------------
(* What the registry holds was made from a host that hashes to the tag.    *)

LEMMA HostIsGood ==
    ASSUME layer \in Seq(ItemType), NEW d, IsHost(d), CanHash(d)
    PROVE  GoodHost(layer, d)
<1> SUFFICES ASSUME NEW i \in 1..Len(layer) PROVE GoodTree(layer[i], d[layer[i].src])
  BY DEF GoodHost
<1>1. i \in DOMAIN layer
  OBVIOUS
<1>2. PICK item \in ItemType : item = layer[i]
  OBVIOUS
<1>3. item.src \in Sources
  BY DEF ItemType
<1>4. PICK tree : tree = d[item.src]
  OBVIOUS
<1>5. /\ IsFiniteSet(DOMAIN tree) /\ DOMAIN tree \subseteq Path
      /\ \A p \in DOMAIN tree : tree[p] \in NodeType
      /\ RootOf[item.src] = "missing" => DOMAIN tree = {}
  BY <1>3, <1>4, HostTree
<1>6. /\ item.kind = "file" => item.path \in DOMAIN tree /\ Opened(item, tree[item.path]).type = "file"
      /\ item.kind = "copy" => RootOf[item.src] # "missing" \/ ~item.inTag
  BY <1>1, <1>2, <1>4 DEF CanHash
<1>7. GoodTree(item, tree)
  BY <1>5, <1>6 DEF GoodTree
<1> QED
  BY <1>2, <1>4, <1>7

LEMMA OfLayer ==
    ASSUME layer \in Seq(ItemType), NEW d
    PROVE  HashLayer(d) = Hashed(layer, d) /\ Image(d) = ImageOf(layer, d)
<1>1. DOMAIN layer = 1..Len(layer)
  OBVIOUS
<1> QED
  BY <1>1, Zenon DEF HashLayer, Hashed, Image, ImageOf, Entries

Made(items, tag, image) ==
    \E e : GoodHost(items, e) /\ tag = Hashed(items, e) /\ image = ImageOf(items, e)

RegistryMade == \A t \in DOMAIN registry : Made(layer, t, registry[t])

GotMade == state = "built" => GoodHost(layer, disk) /\ Made(layer, Hashed(layer, disk), got)

StaleInv == HostInv /\ RegistryMade /\ GotMade

LEMMA StaleInvInit == Init => StaleInv
<1> SUFFICES ASSUME Init PROVE StaleInv
  OBVIOUS
<1>1. HostInv
  BY HostInvInit
<1>2. DOMAIN registry = {} /\ state = "edited"
  BY DEF Init
<1> QED
  BY <1>1, <1>2 DEF StaleInv, RegistryMade, GotMade

(* Edits leave the registry; a build adds an image under its own tag.      *)
LEMMA StaleInvNext == StaleInv /\ [Next]_vars => StaleInv'
<1> SUFFICES ASSUME StaleInv, [Next]_vars PROVE StaleInv'
  OBVIOUS
<1>1. HostInv'
  BY HostInvNext DEF StaleInv
<1>2. layer \in Seq(ItemType) /\ IsHost(disk) /\ RegistryMade /\ GotMade
  BY DEF StaleInv, HostInv
<1>3. ASSUME layer' = layer, registry' = registry, state' # "built"
      PROVE  RegistryMade' /\ GotMade'
  BY <1>2, <1>3 DEF RegistryMade, GotMade
<1>4. ASSUME NEW w \in Writes, Write(w.src, w.path, w.node) PROVE RegistryMade' /\ GotMade'
  <2>1. layer' = layer /\ registry' = registry /\ state' # "built"
    BY <1>4 DEF Write, Edited
  <2> QED
    BY <1>3, <2>1
<1>5. ASSUME NEW s \in Sources, NEW p \in DOMAIN disk[s], Delete(s, p) PROVE RegistryMade' /\ GotMade'
  <2>1. layer' = layer /\ registry' = registry /\ state' # "built"
    BY <1>5 DEF Delete, Edited
  <2> QED
    BY <1>3, <2>1
<1>6. ASSUME Build PROVE RegistryMade' /\ GotMade'
  <2>1. PICK items, d : items = layer /\ d = disk
    OBVIOUS
  <2>2. layer' = items /\ disk' = d /\ CanHash(disk)
    BY <1>6, <2>1 DEF Build
  <2>3. GoodHost(items, d)
    BY <1>2, <2>1, <2>2, HostIsGood
  <2>4. PICK tag, image : tag = HashLayer(disk) /\ image = Image(disk)
    OBVIOUS
  <2>5. tag = Hashed(items, d) /\ image = ImageOf(items, d)
    BY <1>2, <2>1, <2>4, OfLayer
  <2>6. Made(items, tag, image)
    BY <2>3, <2>5 DEF Made
  <2>7. CASE tag \in DOMAIN registry /\ got' = registry[tag] /\ state' = "built" /\ registry' = registry
    <3>1. Made(items, tag, registry[tag])
      BY <1>2, <2>1, <2>7 DEF RegistryMade
    <3> QED
      BY <1>2, <2>1, <2>2, <2>3, <2>5, <2>7, <3>1 DEF RegistryMade, GotMade
  <2>8. CASE /\ tag \notin DOMAIN registry /\ got' = image /\ state' = "built"
             /\ registry' = [t \in DOMAIN registry \union {tag} |-> IF t = tag THEN image ELSE registry[t]]
    <3>1. ASSUME NEW t \in DOMAIN registry' PROVE Made(items, t, registry'[t])
      <4>1. CASE t = tag
        BY <2>6, <2>8, <4>1
      <4>2. CASE t # tag
        <5>1. t \in DOMAIN registry /\ registry'[t] = registry[t]
          BY <2>8, <4>2
        <5> QED
          BY <1>2, <2>1, <5>1 DEF RegistryMade
      <4> QED
        BY <4>1, <4>2
    <3>2. RegistryMade'
      BY <2>2, <3>1 DEF RegistryMade
    <3>3. GotMade'
      BY <2>2, <2>3, <2>5, <2>6, <2>8 DEF GotMade
    <3> QED
      BY <3>2, <3>3
  <2>9. CASE state' = "failed" /\ registry' = registry
    BY <1>3, <2>1, <2>2, <2>9
  <2> QED
    BY <1>6, <2>4, <2>7, <2>8, <2>9 DEF Build
<1>7. ASSUME ComputeFails PROVE RegistryMade' /\ GotMade'
  <2>1. layer' = layer /\ registry' = registry /\ state' # "built"
    BY <1>7 DEF ComputeFails
  <2> QED
    BY <1>3, <2>1
<1>8. ASSUME Finished \/ UNCHANGED vars PROVE RegistryMade' /\ GotMade'
  <2>1. UNCHANGED <<layer, disk, registry, got, state>>
    BY <1>8 DEF Finished, vars
  <2> QED
    BY <1>2, <2>1 DEF RegistryMade, GotMade
<1>9. RegistryMade' /\ GotMade'
  BY <1>4, <1>5, <1>6, <1>7, <1>8 DEF Next
<1> QED
  BY <1>1, <1>9 DEF StaleInv

LEMMA AlwaysMade == Spec => []StaleInv
BY StaleInvInit, StaleInvNext, PTL DEF Spec

(* All trees of the config are hashed with the same options.               *)
TreesAlike ==
    \A i, k \in DOMAIN layer :
       layer[i].kind # "file" /\ layer[k].kind # "file" => SameOptions(layer[i], layer[k])

AllAlike(items) ==
    \A i, k \in 1..Len(items) :
       items[i].kind # "file" /\ items[k].kind # "file" => SameOptions(items[i], items[k])

LEMMA AlikeExists ==
    ASSUME NEW items \in Seq(ItemType), AllAlike(items)
    PROVE  \E g : Alike(items, g)
<1>1. CASE \E i \in 1..Len(items) : items[i].kind # "file"
  <2>1. PICK i \in 1..Len(items) : items[i].kind # "file"
    BY <1>1
  <2>2. Alike(items, items[i])
    BY <2>1 DEF Alike, AllAlike
  <2> QED
    BY <2>2
<1>2. CASE \A i \in 1..Len(items) : items[i].kind = "file"
  <2>1. Alike(items, 0)
    BY <1>2 DEF Alike
  <2> QED
    BY <2>1
<1> QED
  BY <1>1, <1>2

(* No two items are trees.                                                 *)
LEMMA OneTreeIs ==
    ASSUME layer \in Seq(ItemType), OneTree
    PROVE  AtMostOneTree(layer)
<1>1. PICK T : T = {i \in DOMAIN layer : layer[i].kind # "file"} /\ Cardinality(T) <= 1
  BY DEF OneTree
<1>2. DOMAIN layer = 1..Len(layer) /\ Len(layer) \in Nat
  OBVIOUS
<1>3. T \in SUBSET (1..Len(layer))
  BY <1>1, <1>2
<1>4. IsFiniteSet(1..Len(layer))
  BY <1>2, FS_Interval
<1>5. IsFiniteSet(T)
  BY <1>3, <1>4, FS_Subset
<1>6. ASSUME NEW i \in T, NEW k \in T PROVE i = k
  <2>1. IsFiniteSet(T \ {i}) /\ Cardinality(T \ {i}) = Cardinality(T) - 1
    BY <1>5, FS_RemoveElement
  <2>2. Cardinality(T) \in Nat /\ Cardinality(T \ {i}) \in Nat
    BY <1>5, <2>1, FS_CardinalityType
  <2>3. Cardinality(T \ {i}) = 0
    BY <1>1, <2>1, <2>2
  <2>4. T \ {i} = {}
    BY <2>1, <2>3, FS_EmptySet
  <2> QED
    BY <2>4
<1>7. \A i \in 1..Len(layer) : i \notin Files(layer) => i \in T
  BY <1>1, <1>2 DEF Files
<1> QED
  BY <1>6, <1>7 DEF AtMostOneTree

(* What a build got is, but for the known gaps, what it makes.             *)
LEMMA MadeIsCurrent ==
    ASSUME StaleInv, TreesAlike, state = "built", \A i \in DOMAIN layer : Covered(layer[i])
    PROVE  /\ \A i \in DOMAIN layer : layer[i].kind = "file" \/ OneTree
                 => WithoutSetid(got[i]) = WithoutSetid(Image(disk)[i])
           /\ (\A i \in DOMAIN layer : CopiesAllHashed(layer[i]))
              => WithoutSetid(FlattenSeq(got)) = WithoutSetid(FlattenSeq(Image(disk)))
<1>1. PICK items, d : items = layer /\ d = disk /\ items \in Seq(ItemType)
  BY DEF StaleInv, HostInv
<1>2. DOMAIN items = 1..Len(items)
  OBVIOUS
<1>3. GoodHost(items, d)
  BY <1>1 DEF StaleInv, GotMade
<1>4. PICK e : GoodHost(items, e) /\ Hashed(items, d) = Hashed(items, e) /\ got = ImageOf(items, e)
  BY <1>1 DEF StaleInv, GotMade, Made
<1>5. Image(disk) = ImageOf(items, d)
  BY <1>1, OfLayer
<1>6. \A i \in 1..Len(items) : Covered(items[i])
  BY <1>1, <1>2
<1>7. OneTree => AtMostOneTree(items)
  BY <1>1, OneTreeIs
<1>8. (\A i \in DOMAIN layer : CopiesAllHashed(layer[i])) => TreesCopied(items)
  BY <1>1, <1>2 DEF TreesCopied
<1>10. PICK g : Alike(items, g)
  <2>1. AllAlike(items)
    BY <1>1, <1>2 DEF AllAlike, TreesAlike
  <2> QED
    BY <1>1, <2>1, AlikeExists
<1>11. PICK I, J : I = ImageOf(items, d) /\ J = ImageOf(items, e)
  OBVIOUS
<1>12. /\ \A i \in Files(items) : WithoutSetid(I[i]) = WithoutSetid(J[i])
       /\ AtMostOneTree(items) => \A i \in 1..Len(items) : WithoutSetid(I[i]) = WithoutSetid(J[i])
       /\ TreesCopied(items) => WithoutSetid(FlattenSeq(I)) = WithoutSetid(FlattenSeq(J))
  <2>1. GoodHost(items, e) /\ Hashed(items, d) = Hashed(items, e)
    BY <1>4
  <2>2. \A i \in Files(items) : WithoutSetid(ImageOf(items, d)[i]) = WithoutSetid(ImageOf(items, e)[i])
    BY <1>1, <1>3, <1>6, <1>10, <2>1, SameImages
  <2>3. AtMostOneTree(items)
        => \A i \in 1..Len(items) : WithoutSetid(ImageOf(items, d)[i]) = WithoutSetid(ImageOf(items, e)[i])
    BY <1>1, <1>3, <1>6, <1>10, <2>1, SameImages
  <2>4. TreesCopied(items)
        => WithoutSetid(FlattenSeq(ImageOf(items, d))) = WithoutSetid(FlattenSeq(ImageOf(items, e)))
    BY <1>1, <1>3, <1>6, <1>10, <2>1, SameImages
  <2> QED
    BY <1>11, <2>2, <2>3, <2>4
<1>13. ASSUME NEW i \in DOMAIN layer, layer[i].kind = "file" \/ OneTree
       PROVE  WithoutSetid(got[i]) = WithoutSetid(Image(disk)[i])
  <2>1. i \in 1..Len(items)
    BY <1>1, <1>2
  <2>2. WithoutSetid(I[i]) = WithoutSetid(J[i])
    <3>1. CASE layer[i].kind = "file"
      <4>1. i \in Files(items)
        BY <1>1, <2>1, <3>1 DEF Files
      <4> QED
        BY <1>12, <4>1
    <3>2. CASE OneTree
      BY <1>7, <1>12, <2>1, <3>2
    <3> QED
      BY <1>13, <3>1, <3>2
  <2> QED
    BY <1>4, <1>5, <1>11, <2>2
<1>14. ASSUME \A i \in DOMAIN layer : CopiesAllHashed(layer[i])
       PROVE  WithoutSetid(FlattenSeq(got)) = WithoutSetid(FlattenSeq(Image(disk)))
  <2>1. WithoutSetid(FlattenSeq(I)) = WithoutSetid(FlattenSeq(J))
    BY <1>8, <1>12, <1>14
  <2> QED
    BY <1>4, <1>5, <1>11, <2>1
<1> QED
  BY <1>13, <1>14

(* A build that skips hands out a stale image for none but the known       *)
(* reasons, where the trees of a config are hashed with the same options   *)
(* (hashLayer, hashDirectory, EffectiveExcludes, CopyDirectory).           *)
THEOREM StaleIsKnown == Spec => [](TreesAlike => StaleOnlyByKnownGap)
<1>1. StaleInv => (TreesAlike => StaleOnlyByKnownGap)
  BY MadeIsCurrent DEF StaleOnlyByKnownGap
<1> QED
  BY <1>1, AlwaysMade, PTL
=============================================================================
