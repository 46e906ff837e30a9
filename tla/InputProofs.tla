------------------------------ MODULE InputProofs ------------------------------
(***************************************************************************)
(* What StreamLines and Settings promise, for every body and every way it  *)
(* is cut into reads, every bound, and every value of every layer.         *)
(*                                                                         *)
(* StreamLines computes with folds.  The first part opens them: a set of   *)
(* numbers has a smallest one, so a property of 0 and of n + 1 whenever of *)
(* n holds of all; and a fold has one value, that of any run of its steps. *)
(***************************************************************************)
EXTENDS StreamLines, Settings, SequenceTheorems, FiniteSetTheorems,
        WellFoundedInduction, TLAPS

(* Induction and folds.                                                    *)

(* A set of numbers has a smallest one...                                  *)
LEMMA Smallest ==
  ASSUME NEW S, S \subseteq Nat, S # {}
  PROVE  \E m \in S : \A k \in S : m <= k
<1> DEFINE R == {ss \in Nat \X Nat : ss[1] < ss[2]}
<1>1. IsWellFoundedOn(R, Nat)
  BY NatLessThanWellFounded DEF OpToRel
<1>2. PICK m \in S : \A k \in S : <<k, m>> \notin R
  BY <1>1, WFMin
<1>3. ASSUME NEW k \in S, ~(m <= k) PROVE FALSE
  <2>1. <<k, m>> \in R
    BY <1>3
  <2> QED BY <1>2, <2>1
<1> QED BY <1>3

(* ...so what holds of 0 and passes from n to n + 1 holds up to N.         *)
LEMMA Induction ==
  ASSUME NEW N \in Nat, NEW S, 0 \in S, \A n \in 0..(N - 1) : n \in S => n + 1 \in S
  PROVE  \A n \in 0..N : n \in S
<1> SUFFICES ASSUME NEW n \in 0..N, n \notin S PROVE FALSE
  OBVIOUS
<1> DEFINE U == (0..N) \ S
<1>0. U \subseteq Nat /\ U # {}
  OBVIOUS
<1>1. PICK m \in U : \A k \in U : m <= k
  <2> HIDE DEF U
  <2> QED BY <1>0, Smallest
<1>2. m # 0 /\ m - 1 \in 0..(N - 1) /\ m - 1 \in 0..N /\ ~(m <= m - 1)
  BY <1>1
<1>3. m - 1 \in S
  BY <1>1, <1>2
<1>4. (m - 1) + 1 \in S
  BY <1>2, <1>3
<1> QED
  BY <1>1, <1>4

(* Max of a set of indices, by which the folds take one after the other.   *)
LEMMA LastOne ==
  ASSUME NEW n \in Nat, NEW t, t \subseteq 1..n, t # {}
  PROVE  Max(t) \in t /\ \A i \in t : i <= Max(t)
<1> DEFINE U == {n - i : i \in t}
<1>1. U \subseteq Nat /\ U # {}
  <2>1. \A i \in t : n - i \in Nat
    OBVIOUS
  <2> QED BY <2>1
<1>2. PICK m \in U : \A k \in U : m <= k
  BY <1>1, Smallest
<1>3. PICK i \in t : m = n - i
  OBVIOUS
<1>4. ASSUME NEW j \in t PROVE i >= j
  <2>1. n - j \in U
    OBVIOUS
  <2> HIDE DEF U
  <2>2. n - i <= n - j
    BY <1>2, <1>3, <2>1
  <2> QED BY <2>2
<1>5. \E x \in t : \A y \in t : x >= y
  BY <1>4
<1>6. Max(t) \in t /\ \A y \in t : Max(t) >= y
  BY <1>5 DEF Max
<1> QED
  BY <1>6

(* r holds what a fold with g has after each element of s. *)
IsRun(r, g, base, s, n) ==
  /\ r[0] = base
  /\ \A i \in 1..n : r[i] = g[r[i - 1]][s[i]]

LEMMA RunExists ==
  ASSUME NEW A, NEW B, NEW g \in [A -> [B -> A]], NEW base \in A, NEW s \in Seq(B)
  PROVE  \E r \in [0..Len(s) -> A] : IsRun(r, g, base, s, Len(s))
<1> DEFINE S == {n \in 0..Len(s) : \E r \in [0..n -> A] : IsRun(r, g, base, s, n)}
<1>0. Len(s) \in Nat
  BY LenProperties
<1>1. 0 \in S
  <2> DEFINE r == [i \in 0..0 |-> base]
  <2>1. r \in [0..0 -> A] /\ IsRun(r, g, base, s, 0)
    BY DEF IsRun
  <2> HIDE DEF r
  <2> QED BY <1>0, <2>1
<1>2. ASSUME NEW n \in 0..(Len(s) - 1), n \in S PROVE n + 1 \in S
  <2>1. s[n + 1] \in B /\ n \in Nat /\ n + 1 \in 0..Len(s)
    BY <1>0, ElementOfSeq
  <2>2. PICK r \in [0..n -> A] : IsRun(r, g, base, s, n)
    BY <1>2
  <2> DEFINE q == [i \in 0..(n + 1) |-> IF i <= n THEN r[i] ELSE g[r[n]][s[n + 1]]]
  <2>3. r[n] \in A /\ g[r[n]][s[n + 1]] \in A
    BY <2>1, <2>2
  <2>4. q \in [0..(n + 1) -> A]
    BY <2>2, <2>3, <2>1
  <2>5. ASSUME NEW i \in 1..(n + 1) PROVE q[i] = g[q[i - 1]][s[i]]
    <3>1. CASE i \in 1..n
      <4>1. q[i] = r[i] /\ q[i - 1] = r[i - 1]
        BY <2>1, <3>1
      <4> HIDE DEF q
      <4> QED BY <4>1, <3>1, <2>2 DEF IsRun
    <3>2. CASE i = n + 1
      <4>1. q[i] = g[r[n]][s[n + 1]] /\ q[i - 1] = r[n]
        BY <2>1, <3>2
      <4> QED BY <4>1, <3>2
    <3> QED BY <3>1, <3>2, <2>1
  <2>6. q[0] = base
    BY <2>1, <2>2 DEF IsRun
  <2> HIDE DEF q
  <2>7. IsRun(q, g, base, s, n + 1)
    BY <2>5, <2>6 DEF IsRun
  <2> QED BY <2>1, <2>4, <2>7
<1>3. \A n \in 0..Len(s) : n \in S
  <2> HIDE DEF S
  <2> QED BY <1>0, <1>1, <1>2, Induction
<1> QED
  BY <1>0, <1>3

(* The same, for an r of which only that is known. *)
Follows(r, A, B, g, base, s) ==
  /\ g \in [A -> [B -> A]] /\ base \in A /\ s \in Seq(B)
  /\ r[0] = base
  /\ \A i \in 1..Len(s) : r[i - 1] \in A => r[i] = g[r[i - 1]][s[i]]

(* Two runs are the same.                                                  *)
LEMMA SameRun ==
  ASSUME NEW A, NEW B, NEW g, NEW base, NEW s, NEW r, Follows(r, A, B, g, base, s),
         NEW q \in [0..Len(s) -> A], IsRun(q, g, base, s, Len(s))
  PROVE  \A i \in 0..Len(s) : r[i] = q[i]
<1> DEFINE S == {n \in 0..Len(s) : r[n] = q[n]}
<1>0. Len(s) \in Nat
  BY LenProperties DEF Follows
<1>1. 0 \in S
  BY <1>0 DEF IsRun, Follows
<1>2. ASSUME NEW n \in 0..(Len(s) - 1), n \in S PROVE n + 1 \in S
  <2>1. n + 1 \in 1..Len(s) /\ (n + 1) - 1 = n /\ n \in 0..Len(s) /\ n + 1 \in 0..Len(s)
    BY <1>0
  <2>2. r[n] = q[n] /\ q[n] \in A
    BY <1>2, <2>1
  <2>3. q[n + 1] = g[q[(n + 1) - 1]][s[n + 1]]
    BY <2>1 DEF IsRun
  <2>4. r[n + 1] = g[r[(n + 1) - 1]][s[n + 1]]
    BY <2>1, <2>2 DEF Follows
  <2> QED
    BY <2>1, <2>2, <2>3, <2>4
<1>3. \A n \in 0..Len(s) : n \in S
  <2> HIDE DEF S
  <2> QED BY <1>0, <1>1, <1>2, Induction
<1> QED
  BY <1>3

(* The value of a fold: where its run ends.                                *)
Folded(A, g, base, s) ==
  (CHOOSE r \in [0..Len(s) -> A] : IsRun(r, g, base, s, Len(s)))[Len(s)]

(* To know a fold it is enough to have a run of it.                        *)
LEMMA FoldedIs ==
  ASSUME NEW A, NEW B, NEW g, NEW base, NEW s, NEW r, Follows(r, A, B, g, base, s)
  PROVE  Folded(A, g, base, s) = r[Len(s)] /\ r[Len(s)] \in A
<1> DEFINE q == CHOOSE q \in [0..Len(s) -> A] : IsRun(q, g, base, s, Len(s))
<1>1. q \in [0..Len(s) -> A] /\ IsRun(q, g, base, s, Len(s))
  <2>1. g \in [A -> [B -> A]] /\ base \in A /\ s \in Seq(B)
    BY DEF Follows
  <2> QED BY <2>1, RunExists
<1>2. Folded(A, g, base, s) = q[Len(s)]
  BY DEF Folded
<1> HIDE DEF q
<1>3. \A i \in 0..Len(s) : r[i] = q[i]
  BY <1>1, SameRun
<1>4. Len(s) \in 0..Len(s)
  BY LenProperties DEF Follows
<1> QED
  BY <1>1, <1>2, <1>3, <1>4

Foldable(A, B, g, base) == g \in [A -> [B -> A]] /\ base \in A

(* A fold of two sequences begins the second where it ended the first.     *)
LEMMA FoldedConcat ==
  ASSUME NEW A, NEW B, NEW g, NEW base, Foldable(A, B, g, base),
         NEW s \in Seq(B), NEW t \in Seq(B)
  PROVE  /\ Folded(A, g, base, s) \in A
         /\ Folded(A, g, base, s \o t) = Folded(A, g, Folded(A, g, base, s), t)
<1>0. g \in [A -> [B -> A]] /\ base \in A
  BY DEF Foldable
<1>2. /\ Len(s) \in Nat /\ Len(t) \in Nat
      /\ s \o t \in Seq(B)
      /\ Len(s \o t) = Len(s) + Len(t)
      /\ \A i \in 1..(Len(s) + Len(t)) :
           (s \o t)[i] = IF i <= Len(s) THEN s[i] ELSE t[i - Len(s)]
  BY ConcatProperties, LenProperties
<1>1. PICK q \in [0..Len(s \o t) -> A] : IsRun(q, g, base, s \o t, Len(s \o t))
  BY <1>0, <1>2, RunExists
<1>3. q[0] = base
  BY <1>1 DEF IsRun
<1>4. ASSUME NEW i \in 1..(Len(s) + Len(t))
      PROVE  q[i - 1] \in A /\ q[i] = g[q[i - 1]][(s \o t)[i]]
  <2>1. q \in [0..(Len(s) + Len(t)) -> A] /\ i - 1 \in 0..(Len(s) + Len(t))
    BY <1>1, <1>2
  <2> QED BY <2>1, <1>1, <1>2 DEF IsRun
<1>5. Folded(A, g, base, s \o t) = q[Len(s) + Len(t)]
  <2>1. \A i \in 1..Len(s \o t) : q[i] = g[q[i - 1]][(s \o t)[i]]
    BY <1>0, <1>2, <1>4
  <2>2. Follows(q, A, B, g, base, s \o t)
    BY <1>0, <1>2, <1>3, <2>1 DEF Follows
  <2>3. Folded(A, g, base, s \o t) = q[Len(s \o t)]
    <3> DEFINE st == s \o t
    <3>1. Follows(q, A, B, g, base, st)
      BY <2>2
    <3> HIDE DEF st
    <3>2. Folded(A, g, base, st) = q[Len(st)]
      BY <3>1, FoldedIs
    <3> QED BY <3>2 DEF st
  <2> QED BY <1>2, <2>3
<1>6. Folded(A, g, base, s) = q[Len(s)] /\ q[Len(s)] \in A
  <2>1. ASSUME NEW i \in 1..Len(s) PROVE q[i] = g[q[i - 1]][s[i]]
    <3>1. i \in 1..(Len(s) + Len(t)) /\ i <= Len(s)
      BY <1>2
    <3> QED BY <1>2, <1>4, <3>1
  <2>2. Follows(q, A, B, g, base, s)
    BY <1>0, <1>2, <1>3, <2>1 DEF Follows
  <2> QED BY <2>2, FoldedIs
<1> DEFINE r == [i \in 0..Len(t) |-> q[Len(s) + i]]
<1>7. ASSUME NEW i \in 1..Len(t) PROVE r[i] = g[r[i - 1]][t[i]]
  <2>1. /\ Len(s) + i \in 1..(Len(s) + Len(t)) /\ (Len(s) + i) - 1 = Len(s) + (i - 1)
        /\ ~(Len(s) + i <= Len(s)) /\ (Len(s) + i) - Len(s) = i
        /\ i - 1 \in 0..Len(t) /\ i \in 0..Len(t)
    BY <1>2
  <2>2. (s \o t)[Len(s) + i] = t[i]
    BY <1>0, <1>2, <2>1
  <2>3. r[i] = q[Len(s) + i] /\ r[i - 1] = q[(Len(s) + i) - 1]
    BY <2>1
  <2> HIDE DEF r
  <2> QED BY <1>4, <2>1, <2>2, <2>3
<1>8. r[0] = q[Len(s)] /\ r[Len(t)] = q[Len(s) + Len(t)]
  BY <1>2
<1>9. Folded(A, g, q[Len(s)], t) = r[Len(t)]
  <2> HIDE DEF r
  <2>1. Follows(r, A, B, g, q[Len(s)], t)
    BY <1>0, <1>2, <1>6, <1>7, <1>8 DEF Follows
  <2> QED BY <1>6, <2>1, FoldedIs
<1> QED
  BY <1>5, <1>6, <1>8, <1>9

LEMMA FoldedEmpty ==
  ASSUME NEW A, NEW B, NEW g, NEW base, Foldable(A, B, g, base)
  PROVE  Folded(A, g, base, <<>>) = base
<1> DEFINE e == <<>>
           r == [i \in 0..0 |-> base]
<1>1. e \in Seq(B) /\ Len(e) = 0 /\ r[0] = base
  OBVIOUS
<1> HIDE DEF r, e
<1>2. Follows(r, A, B, g, base, e)
  BY <1>1 DEF Follows, Foldable
<1>3. Folded(A, g, base, e) = r[Len(e)]
  BY <1>2, FoldedIs
<1> QED
  BY <1>1, <1>3 DEF e

LEMMA FoldedOne ==
  ASSUME NEW A, NEW B, NEW g, NEW base, Foldable(A, B, g, base), NEW x \in B
  PROVE  Folded(A, g, base, <<x>>) = g[base][x]
<1> DEFINE one == <<x>>
           r == [i \in 0..1 |-> IF i = 0 THEN base ELSE g[base][x]]
<1>1. one \in Seq(B) /\ Len(one) = 1 /\ one[1] = x
  OBVIOUS
<1>2. r[0] = base /\ r[1] = g[base][x]
  OBVIOUS
<1> HIDE DEF r, one
<1>3. \A i \in 1..Len(one) : r[i] = g[r[i - 1]][one[i]]
  BY <1>1, <1>2
<1>4. Follows(r, A, B, g, base, one)
  BY <1>1, <1>2, <1>3 DEF Follows, Foldable
<1>5. Folded(A, g, base, one) = r[Len(one)]
  BY <1>4, FoldedIs
<1> QED
  BY <1>1, <1>2, <1>5 DEF one

LEMMA Applied ==
  ASSUME NEW A, NEW B, NEW g \in [A -> [B -> A]], NEW a \in A, NEW b \in B
  PROVE  g[a][b] \in A
OBVIOUS

(* What the fold of the community modules computes for a set of indices. *)
IsFold(f, g, base, s, n) ==
  \A t \in SUBSET (1..n) :
    f[t] = IF t = {} THEN base ELSE g[f[t \ {Max(t)}]][s[Max(t)]]

LEMMA FoldExists ==
  ASSUME NEW A, NEW B, NEW g \in [A -> [B -> A]], NEW base \in A, NEW s \in Seq(B)
  PROVE  \E f \in [SUBSET (1..Len(s)) -> A] : IsFold(f, g, base, s, Len(s))
<1> DEFINE S == {n \in 0..Len(s) :
             \E f \in [SUBSET (1..n) -> A] : IsFold(f, g, base, s, n)}
<1>0. Len(s) \in Nat
  BY LenProperties
<1>1. 0 \in S
  <2> DEFINE f == [t \in SUBSET (1..0) |-> base]
  <2>1. f \in [SUBSET (1..0) -> A] /\ \A t \in SUBSET (1..0) : t = {} /\ f[t] = base
    OBVIOUS
  <2> HIDE DEF f
  <2>2. IsFold(f, g, base, s, 0)
    BY <2>1 DEF IsFold
  <2> QED BY <1>0, <2>1, <2>2
<1>2. ASSUME NEW n \in 0..(Len(s) - 1), n \in S PROVE n + 1 \in S
  <2>1. s[n + 1] \in B /\ n \in Nat /\ n + 1 \in Nat /\ n + 1 \in 0..Len(s)
    BY <1>0, ElementOfSeq
  <2>2. PICK f \in [SUBSET (1..n) -> A] : IsFold(f, g, base, s, n)
    BY <1>2
  <2> DEFINE h == [t \in SUBSET (1..(n + 1)) |->
        IF n + 1 \in t THEN g[f[t \ {n + 1}]][s[n + 1]] ELSE f[t]]
  <2>3. ASSUME NEW t \in SUBSET (1..(n + 1)), n + 1 \in t
        PROVE  t \ {n + 1} \in SUBSET (1..n) /\ Max(t) = n + 1
    <3>1. Max(t) \in t /\ n + 1 <= Max(t)
      BY <2>1, <2>3, LastOne
    <3>2. \A i \in t : i \in 1..(n + 1)
      OBVIOUS
    <3>3. Max(t) = n + 1
      <4> HIDE DEF h, S
      <4> DEFINE m == Max(t)
      <4>1. m \in 1..(n + 1) /\ n + 1 <= m
        BY <3>1, <3>2
      <4> HIDE DEF m
      <4>2. m = n + 1
        BY <4>1, <2>1
      <4> QED BY <4>2 DEF m
    <3>4. \A i \in t \ {n + 1} : i \in 1..n
      BY <2>1, <3>2
    <3> QED BY <3>3, <3>4
  <2>4. ASSUME NEW t \in SUBSET (1..(n + 1)), n + 1 \notin t
        PROVE  t \in SUBSET (1..n)
    BY <2>1, <2>4
  <2>5. ASSUME NEW t \in SUBSET (1..(n + 1)) PROVE h[t] \in A
    <3>1. CASE n + 1 \in t
      <4>1. f[t \ {n + 1}] \in A
        BY <3>1, <2>2, <2>3
      <4>2. g[f[t \ {n + 1}]][s[n + 1]] \in A
        <5> DEFINE v == f[t \ {n + 1}]
                   y == s[n + 1]
        <5>1. v \in A /\ y \in B
          BY <4>1, <2>1
        <5> HIDE DEF v, y, h, S
        <5>2. g[v][y] \in A
          BY <5>1
        <5> QED BY <5>2 DEF v, y
      <4> QED BY <4>2, <3>1
    <3>2. CASE n + 1 \notin t
      BY <3>2, <2>2, <2>4
    <3> QED BY <3>1, <3>2
  <2>6. h \in [SUBSET (1..(n + 1)) -> A]
    BY <2>5
  <2>7. ASSUME NEW t \in SUBSET (1..(n + 1))
        PROVE  h[t] = IF t = {} THEN base ELSE g[h[t \ {Max(t)}]][s[Max(t)]]
    <3>1. CASE n + 1 \in t
      <4>1. t \ {n + 1} \in SUBSET (1..(n + 1)) /\ n + 1 \notin t \ {n + 1}
        OBVIOUS
      <4>2. h[t \ {n + 1}] = f[t \ {n + 1}] /\ h[t] = g[f[t \ {n + 1}]][s[n + 1]]
        BY <3>1, <4>1
      <4> HIDE DEF h
      <4> QED BY <3>1, <4>2, <2>3
    <3>2. CASE n + 1 \notin t /\ t # {}
      <4>1. t \in SUBSET (1..n) /\ t \ {Max(t)} \in SUBSET (1..(n + 1)) /\ n + 1 \notin t \ {Max(t)}
        BY <3>2, <2>4
      <4>2. h[t] = f[t] /\ h[t \ {Max(t)}] = f[t \ {Max(t)}]
        BY <3>2, <4>1
      <4> HIDE DEF h
      <4> QED BY <3>2, <4>1, <4>2, <2>2 DEF IsFold
    <3>3. CASE t = {}
      <4>1. h[t] = f[t] /\ t \in SUBSET (1..n)
        BY <3>3
      <4> HIDE DEF h
      <4> QED BY <3>3, <4>1, <2>2 DEF IsFold
    <3> QED BY <3>1, <3>2, <3>3
  <2> HIDE DEF h
  <2>8. IsFold(h, g, base, s, n + 1)
    BY <2>7 DEF IsFold
  <2> QED BY <2>1, <2>6, <2>8
<1>3. \A n \in 0..Len(s) : n \in S
  <2> HIDE DEF S
  <2> QED BY <1>0, <1>1, <1>2, Induction
<1>4. Len(s) \in S
  <2> HIDE DEF S
  <2> QED BY <1>0, <1>3
<1> QED
  BY <1>4

WeakFold(f, A, B, g, base, s) ==
  /\ g \in [A -> [B -> A]] /\ base \in A /\ s \in Seq(B)
  /\ f[{}] = base
  /\ \A t \in SUBSET (1..Len(s)) :
       t # {} /\ f[t \ {Max(t)}] \in A => f[t] = g[f[t \ {Max(t)}]][s[Max(t)]]

(* The fold of the community modules, of which f is the function over sets *)
(* of indices, is the value of a run.                                      *)
LEMMA FoldIsFolded ==
  ASSUME NEW A, NEW B, NEW g, NEW base, NEW s, NEW f, WeakFold(f, A, B, g, base, s)
  PROVE  f[1..Len(s)] = Folded(A, g, base, s)
<1>0. Len(s) \in Nat
  BY LenProperties DEF WeakFold
<1> DEFINE r == [i \in 0..Len(s) |-> f[1..i]]
<1>1. ASSUME NEW i \in 1..Len(s), r[i - 1] \in A PROVE r[i] = g[r[i - 1]][s[i]]
  <2> DEFINE t == 1..i
  <2>0. i \in Nat /\ i >= 1 /\ i <= Len(s)
    BY <1>0
  <2>1. t \in SUBSET (1..Len(s)) /\ t # {} /\ i \in t
    <3>1. i \in t
      BY <2>0
    <3>2. \A j \in t : j \in 1..Len(s)
      BY <2>0, <1>0
    <3> QED BY <3>1, <3>2
  <2>2. Max(t) \in t /\ \A j \in t : j <= Max(t)
    BY <2>0, <2>1, LastOne
  <2>3. Max(t) = i
    BY <2>0, <2>1, <2>2
  <2>4. t \ {i} = 1..(i - 1)
    BY <2>0
  <2>5. r[i] = f[t] /\ r[i - 1] = f[1..(i - 1)]
    BY <1>0
  <2>6. r[i - 1] = f[t \ {Max(t)}]
    BY <2>3, <2>4, <2>5
  <2> HIDE DEF r, t
  <2>7. f[t] = g[f[t \ {Max(t)}]][s[Max(t)]]
    BY <1>1, <2>1, <2>6, <2>0 DEF WeakFold
  <2> QED BY <2>3, <2>5, <2>6, <2>7
<1>2. r[0] = base /\ r[Len(s)] = f[1..Len(s)]
  <2>1. 1..0 = {} /\ 0 \in 0..Len(s) /\ Len(s) \in 0..Len(s)
    BY <1>0
  <2>2. r[0] = f[1..0]
    BY <2>1
  <2> QED BY <2>1, <2>2 DEF WeakFold
<1> HIDE DEF r
<1>3. Follows(r, A, B, g, base, s)
  BY <1>1, <1>2 DEF Follows, WeakFold
<1> QED
  BY <1>2, <1>3, FoldedIs

-----------------------------------------------------------------------------
(* The beginning and the rest of a sequence.                               *)

Upto(text, k) == SubSeq(text, 1, k)

LEMMA UptoStep ==
  ASSUME NEW S, NEW text \in Seq(S)
  PROVE  /\ Upto(text, 0) = <<>>
         /\ Upto(text, Len(text)) = text
         /\ \A k \in 0..Len(text) : Upto(text, k) \in Seq(S) /\ Len(Upto(text, k)) = k
         /\ \A k \in 0..(Len(text) - 1) :
              /\ text[k + 1] \in S
              /\ Upto(text, k + 1) = Upto(text, k) \o <<text[k + 1]>>
<1>0. Len(text) \in Nat
  BY LenProperties
<1>1. Upto(text, 0) = <<>>
  BY SubSeqEmpty DEF Upto
<1>2. Upto(text, Len(text)) = text
  BY SubSeqFull DEF Upto
<1>3. ASSUME NEW k \in 0..Len(text) PROVE Upto(text, k) \in Seq(S) /\ Len(Upto(text, k)) = k
  <2>1. \A i \in 1..k : text[i] \in S
    BY <1>0, ElementOfSeq
  <2>2. /\ SubSeq(text, 1, k) \in Seq(S)
        /\ Len(SubSeq(text, 1, k)) = IF 1 <= k THEN k - 1 + 1 ELSE 0
    BY <2>1, <1>0, SubSeqProperties
  <2> QED BY <2>2, <1>0 DEF Upto
<1>4. ASSUME NEW k \in 0..(Len(text) - 1)
      PROVE  text[k + 1] \in S /\ Upto(text, k + 1) = Upto(text, k) \o <<text[k + 1]>>
  <2>1. k + 1 \in 1..Len(text) /\ (k + 1) - 1 = k /\ 1 \in 1..Len(text) /\ k + 1 \in 1..Len(text)
    BY <1>0
  <2>2. SubSeq(text, 1, k + 1) = SubSeq(text, 1, (k + 1) - 1) \o <<text[k + 1]>>
    BY <2>1, SubSeqRecursiveSecond
  <2>3. text[k + 1] \in S
    BY <2>1, ElementOfSeq
  <2> QED BY <2>1, <2>2, <2>3 DEF Upto
<1> QED
  BY <1>1, <1>2, <1>3, <1>4

LEMMA UptoElement ==
  ASSUME NEW S, NEW s \in Seq(S), NEW k \in 0..Len(s)
  PROVE  \A i \in 1..k : Upto(s, k)[i] = s[i]
<1>0. Len(s) \in Nat
  BY LenProperties
<1>1. ASSUME NEW i \in 1..k PROVE Upto(s, k)[i] = s[i]
  <2>1. /\ i \in 1..(k - 1 + 1) /\ 1 + i - 1 = i /\ k \in Int
        /\ \A j \in 1..k : j \in 1..Len(s)
    BY <1>0
  <2>2. \A j \in 1..k : s[j] \in S
    BY <2>1, ElementOfSeq
  <2>3. \A j \in 1..(k - 1 + 1) : SubSeq(s, 1, k)[j] = s[1 + j - 1]
    BY <2>1, <2>2, SubSeqProperties
  <2> QED BY <2>1, <2>3 DEF Upto
<1> QED
  BY <1>1

LEMMA Splits ==
  ASSUME NEW S, NEW s \in Seq(S), NEW k \in 0..Len(s)
  PROVE  /\ Upto(s, k) \in Seq(S) /\ Len(Upto(s, k)) = k
         /\ SubSeq(s, k + 1, Len(s)) \in Seq(S)
         /\ Len(SubSeq(s, k + 1, Len(s))) = Len(s) - k
         /\ s = Upto(s, k) \o SubSeq(s, k + 1, Len(s))
<1>0. Len(s) \in Nat
  BY LenProperties
<1>1. Upto(s, k) \in Seq(S) /\ Len(Upto(s, k)) = k
  BY UptoStep
<1>2. /\ SubSeq(s, k + 1, Len(s)) \in Seq(S)
      /\ Len(SubSeq(s, k + 1, Len(s))) = Len(s) - k
  <2>1. \A i \in (k + 1)..Len(s) : s[i] \in S
    BY <1>0, ElementOfSeq
  <2>2. k + 1 \in Nat
    BY <1>0
  <2>3. /\ SubSeq(s, k + 1, Len(s)) \in Seq(S)
        /\ Len(SubSeq(s, k + 1, Len(s))) = IF k + 1 <= Len(s) THEN Len(s) - (k + 1) + 1 ELSE 0
    BY <1>0, <2>1, <2>2, SubSeqProperties
  <2> QED BY <1>0, <2>3
<1>3. s = Upto(s, k) \o SubSeq(s, k + 1, Len(s))
  <2>1. SubSeq(s, 1, Len(s)) = SubSeq(s, 1, k) \o SubSeq(s, k + 1, Len(s))
    <3>1. 1 \in 1..(Len(s) + 1) /\ k \in (1 - 1)..Len(s) /\ Len(s) \in k..Len(s)
      BY <1>0
    <3> QED BY <1>0, <3>1, ConcatAdjacentSubSeq
  <2> QED BY <2>1, SubSeqFull DEF Upto
<1> QED
  BY <1>1, <1>2, <1>3

LEMMA PrefixOfConcat ==
  ASSUME NEW S, NEW s \in Seq(S), NEW t \in Seq(S)
  PROVE  IsPrefix(s, s \o t) /\ IsPrefix(s, s)
<1>0. Len(s) \in Nat /\ Len(t) \in Nat /\ Len(s \o t) = Len(s) + Len(t)
  BY LenProperties, ConcatProperties
<1>1. SubSeq(s, 1, Len(s)) = SubSeq(s \o t, 1, Len(s))
  <2>1. CASE Len(s) = 0
    BY <2>1, SubSeqEmpty
  <2>2. CASE Len(s) # 0
    <3>1. 1 \in 1..Len(s) /\ Len(s) \in 1..Len(s)
      BY <1>0, <2>2
    <3> QED BY <3>1, SubSeqOfConcat1
  <2> QED BY <2>1, <2>2
<1> QED
  BY <1>0, <1>1 DEF IsPrefix

-----------------------------------------------------------------------------
(* StreamLines: its folds.                                                 *)

(* A character, known by the number of its bytes, and their sum.           *)
Chars == 1..4
Plus == [n \in Nat |-> [char \in Chars |-> n + char]]

(* The three folds of the model are folds of these functions.              *)
LEMMA BytesFolds ==
  ASSUME NEW text \in Seq(Chars)
  PROVE  Bytes(text) = Folded(Nat, Plus, 0, text)
<1>0. Plus \in [Nat -> [Chars -> Nat]] /\ DOMAIN text = 1..Len(text) /\ Len(text) \in Nat
  BY LenProperties DEF Plus, Chars
<1> DEFINE P(f) == f = [t \in SUBSET (DOMAIN text) |->
                          IF t = {} THEN 0 ELSE f[t \ {Max(t)}] + text[Max(t)]]
<1>1. PICK f \in [SUBSET (1..Len(text)) -> Nat] : IsFold(f, Plus, 0, text, Len(text))
  BY <1>0, FoldExists
<1>2. P(f)
  <2>1. ASSUME NEW t \in SUBSET (1..Len(text))
        PROVE  f[t] = IF t = {} THEN 0 ELSE f[t \ {Max(t)}] + text[Max(t)]
    <3>1. CASE t = {}
      BY <3>1, <1>1 DEF IsFold
    <3>2. CASE t # {}
      <4>1. Max(t) \in 1..Len(text) /\ t \ {Max(t)} \in SUBSET (1..Len(text))
        BY <3>2, <1>0, LastOne
      <4>2. f[t \ {Max(t)}] \in Nat /\ text[Max(t)] \in Chars
        BY <4>1, <1>1, ElementOfSeq
      <4>3. Plus[f[t \ {Max(t)}]][text[Max(t)]] = f[t \ {Max(t)}] + text[Max(t)]
        BY <4>2 DEF Plus
      <4> QED BY <3>2, <4>3, <1>1 DEF IsFold
    <3> QED BY <3>1, <3>2
  <2> QED BY <1>0, <2>1
<1> DEFINE h == CHOOSE f1 : P(f1)
<1>3. P(h)
  BY <1>2
<1>4. Bytes(text) = h[DOMAIN text]
  BY DEF Bytes, FoldLeft, MapThenFoldSet
<1> HIDE DEF h
<1>5. WeakFold(h, Nat, Chars, Plus, 0, text)
  <2>1. \A t \in SUBSET (1..Len(text)) :
          h[t] = IF t = {} THEN 0 ELSE h[t \ {Max(t)}] + text[Max(t)]
    BY <1>0, <1>3
  <2>2. h[{}] = 0
    BY <2>1
  <2>3. ASSUME NEW t \in SUBSET (1..Len(text)), t # {}, h[t \ {Max(t)}] \in Nat
        PROVE  h[t] = Plus[h[t \ {Max(t)}]][text[Max(t)]]
    <3>1. Max(t) \in 1..Len(text)
      BY <2>3, <1>0, LastOne
    <3>2. text[Max(t)] \in Chars
      BY <3>1, ElementOfSeq
    <3> QED BY <2>1, <2>3, <3>2 DEF Plus
  <2> QED BY <1>0, <2>2, <2>3 DEF WeakFold
<1> QED
  BY <1>0, <1>4, <1>5, FoldIsFolded

(* The bytes of a character of n. *)
Char(n) == [i \in 1..n |-> i = 1]
Flags == Seq(BOOLEAN)
Extend == [bytes \in Flags |-> [n \in Chars |-> bytes \o Char(n)]]

LEMMA CharType ==
  ASSUME NEW n \in Chars
  PROVE  Char(n) \in Flags /\ Len(Char(n)) = n /\ n \in Nat /\ n >= 1
<1>1. n \in Nat /\ n >= 1
  BY DEF Chars
<1>2. Char(n) \in [1..n -> BOOLEAN]
  BY DEF Char
<1> QED
  BY <1>1, <1>2 DEF Flags

LEMMA ExtendType == Extend \in [Flags -> [Chars -> Flags]]
<1>1. ASSUME NEW b \in Flags, NEW n \in Chars PROVE b \o Char(n) \in Flags
  BY CharType, ConcatProperties DEF Flags
<1> QED
  BY <1>1 DEF Extend

LEMMA EncodedFolds ==
  ASSUME NEW text \in Seq(Chars)
  PROVE  Encoded(text) = Folded(Flags, Extend, <<>>, text)
<1>0. Extend \in [Flags -> [Chars -> Flags]] /\ DOMAIN text = 1..Len(text) /\ Len(text) \in Nat
  BY LenProperties, ExtendType
<1>e. <<>> \in Flags
  BY DEF Flags
<1> DEFINE P(f) == f = [t \in SUBSET (DOMAIN text) |->
                          IF t = {} THEN <<>> ELSE f[t \ {Max(t)}] \o Char(text[Max(t)])]
<1>1. PICK f \in [SUBSET (1..Len(text)) -> Flags] : IsFold(f, Extend, <<>>, text, Len(text))
  BY <1>0, <1>e, FoldExists
<1>2. P(f)
  <2>1. ASSUME NEW t \in SUBSET (1..Len(text))
        PROVE  f[t] = IF t = {} THEN <<>> ELSE f[t \ {Max(t)}] \o Char(text[Max(t)])
    <3>1. CASE t = {}
      BY <3>1, <1>1 DEF IsFold
    <3>2. CASE t # {}
      <4>1. Max(t) \in 1..Len(text) /\ t \ {Max(t)} \in SUBSET (1..Len(text))
        BY <3>2, <1>0, LastOne
      <4>2. f[t \ {Max(t)}] \in Flags /\ text[Max(t)] \in Chars
        BY <4>1, <1>1, ElementOfSeq
      <4>3. Extend[f[t \ {Max(t)}]][text[Max(t)]] = f[t \ {Max(t)}] \o Char(text[Max(t)])
        BY <4>2 DEF Extend
      <4> QED BY <3>2, <4>3, <1>1 DEF IsFold
    <3> QED BY <3>1, <3>2
  <2> QED BY <1>0, <2>1
<1> DEFINE h == CHOOSE f1 : P(f1)
<1>3. P(h)
  BY <1>2
<1>4. Encoded(text) = h[DOMAIN text]
  BY DEF Encoded, FoldLeft, MapThenFoldSet, Char
<1> HIDE DEF h
<1>5. WeakFold(h, Flags, Chars, Extend, <<>>, text)
  <2>1. \A t \in SUBSET (1..Len(text)) :
          h[t] = IF t = {} THEN <<>> ELSE h[t \ {Max(t)}] \o Char(text[Max(t)])
    BY <1>0, <1>3
  <2>2. h[{}] = <<>>
    BY <2>1
  <2>3. ASSUME NEW t \in SUBSET (1..Len(text)), t # {}, h[t \ {Max(t)}] \in Flags
        PROVE  h[t] = Extend[h[t \ {Max(t)}]][text[Max(t)]]
    <3>1. Max(t) \in 1..Len(text)
      BY <2>3, <1>0, LastOne
    <3>2. text[Max(t)] \in Chars
      BY <3>1, ElementOfSeq
    <3> QED BY <2>1, <2>3, <3>2 DEF Extend
  <2> QED BY <1>0, <1>e, <2>2, <2>3 DEF WeakFold
<1> QED
  BY <1>0, <1>e, <1>4, <1>5, FoldIsFolded

(* What a body can mean, read one symbol at a time.                        *)
Meanings ==
  [line : Seq(Symbols), text : Seq(Chars), usage : Reports \cup {"none"},
   over : {"no", "stop", "too_long"}]

Meaning == [w \in Meanings |-> [x \in Symbols |-> WholeSymbol(w, x)]]

LEMMA WholeLineType ==
  ASSUME NEW w \in Meanings
  PROVE  WholeLine(w) \in Meanings
<1>1. /\ w.line \in Seq(Symbols) /\ w.text \in Seq(Chars)
      /\ w.usage \in Reports \cup {"none"} /\ <<>> \in Seq(Symbols)
  BY DEF Meanings
<1> DEFINE said == Payload(w.line)
           text == IF said \in Deltas THEN w.text \o Text[said] ELSE w.text
<1>2. text \in Seq(Chars)
  <2>1. CASE said \in Deltas
    <3>1. Text[said] \in Seq(Chars)
      BY <2>1, StreamAssumption DEF Chars
    <3> HIDE DEF said
    <3> QED BY <1>1, <2>1, <3>1, ConcatProperties
  <2> QED BY <1>1, <2>1
<1> HIDE DEF text, said
<1>3. \A full : (IF said \in Reports /\ ~full THEN said ELSE w.usage) \in Reports \cup {"none"}
  BY <1>1
<1> QED
  BY <1>1, <1>2, <1>3 DEF Meanings, WholeLine, said, text

LEMMA MeaningType == Meaning \in [Meanings -> [Symbols -> Meanings]]
<1>1. ASSUME NEW w \in Meanings, NEW x \in Symbols PROVE WholeSymbol(w, x) \in Meanings
  <2>1. Append(w.line, x) \in Seq(Symbols)
    BY AppendProperties DEF Meanings
  <2>2. [w EXCEPT !.over = "too_long"] \in Meanings
    BY DEF Meanings
  <2>3. [w EXCEPT !.line = Append(@, x)] \in Meanings
    BY <2>1 DEF Meanings
  <2> QED BY <2>2, <2>3, WholeLineType DEF WholeSymbol
<1> QED
  BY <1>1 DEF Meaning

LEMMA WholeFolds ==
  ASSUME NEW w \in Meanings, NEW s \in Seq(Symbols)
  PROVE  FoldLeft(WholeSymbol, w, s) = Folded(Meanings, Meaning, w, s)
<1>0. Meaning \in [Meanings -> [Symbols -> Meanings]] /\ DOMAIN s = 1..Len(s) /\ Len(s) \in Nat
  BY LenProperties, MeaningType
<1> DEFINE P(f) == f = [t \in SUBSET (DOMAIN s) |->
                          IF t = {} THEN w ELSE WholeSymbol(f[t \ {Max(t)}], s[Max(t)])]
<1>1. PICK f \in [SUBSET (1..Len(s)) -> Meanings] : IsFold(f, Meaning, w, s, Len(s))
  BY <1>0, FoldExists
<1>2. P(f)
  <2>1. ASSUME NEW t \in SUBSET (1..Len(s))
        PROVE  f[t] = IF t = {} THEN w ELSE WholeSymbol(f[t \ {Max(t)}], s[Max(t)])
    <3>1. CASE t = {}
      BY <3>1, <1>1 DEF IsFold
    <3>2. CASE t # {}
      <4>1. Max(t) \in 1..Len(s) /\ t \ {Max(t)} \in SUBSET (1..Len(s))
        BY <3>2, <1>0, LastOne
      <4>2. f[t \ {Max(t)}] \in Meanings /\ s[Max(t)] \in Symbols
        BY <4>1, <1>1, ElementOfSeq
      <4>3. Meaning[f[t \ {Max(t)}]][s[Max(t)]] = WholeSymbol(f[t \ {Max(t)}], s[Max(t)])
        BY <4>2 DEF Meaning
      <4> QED BY <3>2, <4>3, <1>1 DEF IsFold
    <3> QED BY <3>1, <3>2
  <2> QED BY <1>0, <2>1
<1> DEFINE h == CHOOSE f1 : P(f1)
<1>3. P(h)
  BY <1>2
<1>4. FoldLeft(WholeSymbol, w, s) = h[DOMAIN s]
  BY DEF FoldLeft, MapThenFoldSet
<1> HIDE DEF h
<1>5. WeakFold(h, Meanings, Symbols, Meaning, w, s)
  <2>1. \A t \in SUBSET (1..Len(s)) :
          h[t] = IF t = {} THEN w ELSE WholeSymbol(h[t \ {Max(t)}], s[Max(t)])
    BY <1>0, <1>3
  <2>2. h[{}] = w
    BY <2>1
  <2>3. ASSUME NEW t \in SUBSET (1..Len(s)), t # {}, h[t \ {Max(t)}] \in Meanings
        PROVE  h[t] = Meaning[h[t \ {Max(t)}]][s[Max(t)]]
    <3>1. Max(t) \in 1..Len(s)
      BY <2>3, <1>0, LastOne
    <3>2. s[Max(t)] \in Symbols
      BY <3>1, ElementOfSeq
    <3> QED BY <2>1, <2>3, <3>2 DEF Meaning
  <2> QED BY <1>0, <2>2, <2>3 DEF WeakFold
<1> QED
  BY <1>0, <1>4, <1>5, FoldIsFolded

LEMMA BytesStep ==
  /\ Bytes(<<>>) = 0
  /\ \A text \in Seq(Chars) : Bytes(text) \in Nat
  /\ \A text \in Seq(Chars), char \in Chars :
       Bytes(text \o <<char>>) = Bytes(text) + char
<1>0. /\ \A n \in Nat : Foldable(Nat, Chars, Plus, n)
      /\ <<>> \in Seq(Chars) /\ 0 \in Nat /\ 1 \in Chars
  BY DEF Plus, Chars, Foldable
<1>1. Bytes(<<>>) = 0
  <2>1. Folded(Nat, Plus, 0, <<>>) = 0
    BY <1>0, FoldedEmpty
  <2> QED BY <1>0, <2>1, BytesFolds
<1>2. ASSUME NEW text \in Seq(Chars), NEW char \in Chars
      PROVE  Bytes(text) \in Nat /\ Bytes(text \o <<char>>) = Bytes(text) + char
  <2> DEFINE one == <<char>>
  <2>1. one \in Seq(Chars)
    OBVIOUS
  <2> HIDE DEF one
  <2>2. /\ Folded(Nat, Plus, 0, text) \in Nat
        /\ Folded(Nat, Plus, 0, text \o one) = Folded(Nat, Plus, Folded(Nat, Plus, 0, text), one)
    BY <1>0, <2>1, FoldedConcat
  <2>3. Folded(Nat, Plus, Bytes(text), <<char>>) = Plus[Bytes(text)][char]
    <3>1. Bytes(text) \in Nat
      BY <2>2, BytesFolds
    <3>2. Foldable(Nat, Chars, Plus, Bytes(text))
      BY <1>0, <3>1
    <3> QED BY <3>2, FoldedOne
  <2>4. text \o one \in Seq(Chars)
    BY <2>1, ConcatProperties
  <2>5. Bytes(text \o one) = Plus[Bytes(text)][char]
    BY <2>2, <2>3, <2>4, BytesFolds DEF one
  <2>6. Bytes(text) \in Nat
    BY <2>2, BytesFolds
  <2> QED BY <2>5, <2>6 DEF Plus, one
<1>3. 1 \in Chars
  BY DEF Chars
<1> QED
  BY <1>1, <1>2, <1>3

LEMMA EncodedStep ==
  /\ Encoded(<<>>) = <<>>
  /\ \A text \in Seq(Chars) : Encoded(text) \in Flags
  /\ \A text \in Seq(Chars), char \in Chars :
       Encoded(text \o <<char>>) = Encoded(text) \o Char(char)
<1>0. /\ \A bytes \in Flags : Foldable(Flags, Chars, Extend, bytes)
      /\ <<>> \in Seq(Chars) /\ <<>> \in Flags
  BY ExtendType DEF Flags, Foldable
<1>3. 1 \in Chars
  BY DEF Chars
<1>1. Encoded(<<>>) = <<>>
  <2>1. Folded(Flags, Extend, <<>>, <<>>) = <<>>
    BY <1>0, FoldedEmpty
  <2> QED BY <1>0, <2>1, EncodedFolds
<1>2. ASSUME NEW text \in Seq(Chars), NEW char \in Chars
      PROVE  Encoded(text) \in Flags /\ Encoded(text \o <<char>>) = Encoded(text) \o Char(char)
  <2> DEFINE one == <<char>>
             none == <<>>
  <2>1. one \in Seq(Chars) /\ none \in Flags
    BY <1>0
  <2> HIDE DEF one, none
  <2>2. /\ Folded(Flags, Extend, none, text) \in Flags
        /\ Folded(Flags, Extend, none, text \o one)
             = Folded(Flags, Extend, Folded(Flags, Extend, none, text), one)
    BY <1>0, <2>1, FoldedConcat
  <2>6. Encoded(text) = Folded(Flags, Extend, none, text)
    BY EncodedFolds DEF none
  <2>3. Folded(Flags, Extend, Encoded(text), <<char>>) = Extend[Encoded(text)][char]
    <3>1. Foldable(Flags, Chars, Extend, Encoded(text))
      BY <1>0, <2>2, <2>6
    <3> QED BY <3>1, FoldedOne
  <2>4. text \o one \in Seq(Chars)
    BY <2>1, ConcatProperties
  <2>5. Encoded(text \o one) = Folded(Flags, Extend, none, text \o one)
    BY <2>4, EncodedFolds DEF none
  <2> QED BY <2>2, <2>3, <2>5, <2>6 DEF Extend, one
<1> QED
  BY <1>1, <1>2, <1>3

LEMMA BytesGrow ==
  ASSUME NEW text \in Seq(Chars)
  PROVE  /\ Bytes(Upto(text, 0)) = 0
         /\ Bytes(Upto(text, Len(text))) = Bytes(text)
         /\ \A k \in 0..Len(text) : Bytes(Upto(text, k)) \in Nat
         /\ \A k \in 0..(Len(text) - 1) :
              /\ text[k + 1] \in Chars
              /\ Bytes(Upto(text, k + 1)) = Bytes(Upto(text, k)) + text[k + 1]
         /\ \A k \in 0..Len(text) : \A j \in 0..(k - 1) :
              Bytes(Upto(text, j)) < Bytes(Upto(text, k))
<1>0. Len(text) \in Nat
  BY LenProperties
<1>1. /\ Bytes(Upto(text, 0)) = 0
      /\ Bytes(Upto(text, Len(text))) = Bytes(text)
  BY UptoStep, BytesStep
<1>2. \A k \in 0..Len(text) : Bytes(Upto(text, k)) \in Nat
  BY UptoStep, BytesStep
<1>3. ASSUME NEW k \in 0..(Len(text) - 1)
      PROVE  /\ text[k + 1] \in Chars
             /\ Bytes(Upto(text, k + 1)) = Bytes(Upto(text, k)) + text[k + 1]
  <2>1. k \in 0..Len(text)
    BY <1>0
  <2>2. text[k + 1] \in Chars /\ Upto(text, k) \in Seq(Chars)
        /\ Upto(text, k + 1) = Upto(text, k) \o <<text[k + 1]>>
    BY <2>1, UptoStep
  <2> QED BY <2>2, BytesStep
<1> DEFINE S == {k \in 0..Len(text) : \A j \in 0..(k - 1) :
                   Bytes(Upto(text, j)) < Bytes(Upto(text, k))}
<1>4. 0 \in S
  BY <1>0
<1>5. ASSUME NEW k \in 0..(Len(text) - 1), k \in S PROVE k + 1 \in S
  <2>1. k \in 0..Len(text) /\ k + 1 \in 0..Len(text) /\ k \in Nat
    BY <1>0
  <2>2. Bytes(Upto(text, k + 1)) > Bytes(Upto(text, k))
    <3>1. text[k + 1] \in Nat /\ text[k + 1] > 0
      BY <1>3 DEF Chars
    <3> QED BY <1>2, <1>3, <2>1, <3>1
  <2>3. ASSUME NEW j \in 0..((k + 1) - 1)
        PROVE  Bytes(Upto(text, j)) < Bytes(Upto(text, k + 1))
    <3>1. CASE j = k
      BY <2>2, <3>1
    <3>2. CASE j \in 0..(k - 1)
      <4>1. Bytes(Upto(text, j)) < Bytes(Upto(text, k)) /\ j \in 0..Len(text)
        BY <1>5, <3>2, <2>1, <1>0
      <4>2. /\ Bytes(Upto(text, j)) \in Nat /\ Bytes(Upto(text, k)) \in Nat
            /\ Bytes(Upto(text, k + 1)) \in Nat
        BY <4>1, <2>1, <1>2
      <4> QED BY <2>2, <4>1, <4>2
    <3> QED BY <2>1, <3>1, <3>2
  <2> QED BY <2>1, <2>3
<1>6. \A k \in 0..Len(text) : k \in S
  <2> HIDE DEF S
  <2> QED BY <1>0, <1>4, <1>5, Induction
<1> QED
  BY <1>1, <1>2, <1>3, <1>6

LEMMA BytesConcat ==
  ASSUME NEW s \in Seq(Chars), NEW t \in Seq(Chars)
  PROVE  Bytes(s \o t) = Bytes(s) + Bytes(t)
<1>0. Len(t) \in Nat /\ Bytes(s) \in Nat
  BY LenProperties, BytesStep
<1> DEFINE S == {k \in 0..Len(t) : Bytes(s \o Upto(t, k)) = Bytes(s) + Bytes(Upto(t, k))}
<1>1. 0 \in S
  <2>1. s \o Upto(t, 0) = s
    BY UptoStep, ConcatEmptySeq
  <2>2. Bytes(Upto(t, 0)) = 0
    BY BytesGrow
  <2>3. Bytes(s) = Bytes(s) + 0 /\ 0 \in 0..Len(t)
    BY <1>0
  <2> QED BY <2>1, <2>2, <2>3
<1>2. ASSUME NEW k \in 0..(Len(t) - 1), k \in S PROVE k + 1 \in S
  <2> DEFINE u == Upto(t, k)
             c == t[k + 1]
             one == <<c>>
  <2>0. k \in 0..Len(t) /\ k + 1 \in 0..Len(t)
    BY <1>0
  <2>1. u \in Seq(Chars) /\ c \in Chars /\ Upto(t, k + 1) = u \o one
    BY <2>0, UptoStep
  <2>2. one \in Seq(Chars)
    BY <2>1
  <2>3. Bytes(s \o u) = Bytes(s) + Bytes(u)
    BY <1>2
  <2>4. Bytes(Upto(t, k + 1)) = Bytes(u) + c
    BY BytesGrow
  <2> HIDE DEF u, c
  <2>5. s \o u \in Seq(Chars) /\ Bytes(u) \in Nat /\ c \in Nat
    BY <2>1, ConcatProperties, BytesStep DEF Chars
  <2>6. Bytes((s \o u) \o <<c>>) = Bytes(s \o u) + c
    BY <2>1, <2>5, BytesStep
  <2> HIDE DEF one
  <2>7. (s \o u) \o one = s \o (u \o one)
    BY <2>1, <2>2, ConcatAssociative
  <2>8. Bytes(s \o Upto(t, k + 1)) = Bytes(s) + Bytes(u) + c
    BY <2>1, <2>3, <2>6, <2>7 DEF one
  <2> QED BY <1>0, <2>0, <2>4, <2>5, <2>8
<1>3. \A k \in 0..Len(t) : k \in S
  <2> HIDE DEF S
  <2> QED BY <1>0, <1>1, <1>2, Induction
<1>4. Len(t) \in 0..Len(t) /\ Upto(t, Len(t)) = t
  BY <1>0, UptoStep
<1> QED
  BY <1>3, <1>4

(* The bytes of the first k characters, and how many they are. *)
Enc(text, k) == Encoded(Upto(text, k))
Size(text, k) == Bytes(Upto(text, k))

LEMMA SizeStep ==
  ASSUME NEW text \in Seq(Chars)
  PROVE  /\ Size(text, 0) = 0 /\ Size(text, Len(text)) = Bytes(text)
         /\ \A k \in 0..Len(text) : Size(text, k) \in Nat
         /\ \A k \in 0..(Len(text) - 1) :
              /\ text[k + 1] \in Chars
              /\ Size(text, k + 1) = Size(text, k) + text[k + 1]
         /\ \A k \in 0..Len(text) : \A j \in 0..(k - 1) : Size(text, j) < Size(text, k)
  BY BytesGrow DEF Size

LEMMA EncStep ==
  ASSUME NEW text \in Seq(Chars)
  PROVE  /\ Enc(text, 0) = <<>> /\ Enc(text, Len(text)) = Encoded(text)
         /\ \A k \in 0..Len(text) : Enc(text, k) \in Flags
         /\ \A k \in 0..(Len(text) - 1) : Enc(text, k + 1) = Enc(text, k) \o Char(text[k + 1])
<1>0. Len(text) \in Nat
  BY LenProperties
<1>1. ASSUME NEW k \in 0..(Len(text) - 1)
      PROVE  Enc(text, k + 1) = Enc(text, k) \o Char(text[k + 1])
  <2>1. k \in 0..Len(text)
    BY <1>0
  <2>2. text[k + 1] \in Chars /\ Upto(text, k) \in Seq(Chars)
        /\ Upto(text, k + 1) = Upto(text, k) \o <<text[k + 1]>>
    BY <2>1, UptoStep
  <2> QED BY <2>2, EncodedStep DEF Enc
<1> QED
  BY <1>1, UptoStep, EncodedStep DEF Enc

(* The encoding of the first characters is where that of all begins, as    *)
(* long as their bytes, and has a first byte where a character begins.     *)
EncOK(text, k) ==
  /\ Len(Enc(text, k)) = Size(text, k)
  /\ \A j \in 0..k : \A i \in 1..Size(text, j) : Enc(text, k)[i] = Enc(text, j)[i]
  /\ \A i \in 1..Size(text, k) :
       Enc(text, k)[i] <=> \E j \in 0..(k - 1) : i = Size(text, j) + 1

LEMMA EncodedPrefixes ==
  ASSUME NEW text \in Seq(Chars)
  PROVE  \A k \in 0..Len(text) : EncOK(text, k)
<1>0. Len(text) \in Nat
  BY LenProperties
<1> DEFINE S == {k \in 0..Len(text) : EncOK(text, k)}
<1>1. 0 \in S
  <2>1. Enc(text, 0) = <<>> /\ Size(text, 0) = 0
    BY EncStep, SizeStep
  <2> QED BY <1>0, <2>1 DEF EncOK
<1>2. ASSUME NEW k \in 0..(Len(text) - 1), k \in S PROVE k + 1 \in S
  <2>1. k \in 0..Len(text) /\ k + 1 \in 0..Len(text) /\ k \in Nat
    BY <1>0
  <2> DEFINE e == Enc(text, k)
             c == text[k + 1]
             n == Size(text, k)
             full == Enc(text, k + 1)
  <2>2. e \in Seq(BOOLEAN) /\ full = e \o Char(c) /\ Len(e) = n
    BY <1>2, <2>1, EncStep DEF Flags, EncOK
  <2>3. c \in Nat /\ c >= 1 /\ Char(c) \in Seq(BOOLEAN) /\ Len(Char(c)) = c
    <3>1. c \in Chars
      BY SizeStep
    <3> HIDE DEF c, e, n, full
    <3>2. Char(c) \in Flags /\ Len(Char(c)) = c /\ c \in Nat /\ c >= 1
      BY <3>1, CharType
    <3> QED BY <3>2 DEF Flags
  <2>4. n \in Nat /\ Size(text, k + 1) = n + c /\ \A j \in 0..k : Size(text, j) \in Nat /\ Size(text, j) <= n
    <3>1. n \in Nat /\ Size(text, k + 1) = n + c
      BY <2>1, SizeStep
    <3>2. ASSUME NEW j \in 0..k PROVE Size(text, j) \in Nat /\ Size(text, j) <= n
      <4>1. CASE j = k
        BY <4>1, <3>1
      <4>2. CASE j \in 0..(k - 1)
        <5>1. j \in 0..Len(text)
          BY <2>1
        <5> QED BY <4>2, <5>1, <2>1, <3>1, SizeStep
      <4> QED BY <4>1, <4>2, <2>1
    <3> QED BY <3>1, <3>2
  <2>5. EncOK(text, k)
    BY <1>2
  <2> HIDE DEF e, c, n, full
  <2>6. /\ Len(full) = n + c
        /\ \A i \in 1..n : full[i] = e[i]
        /\ \A i \in 1..c : full[n + i] = (i = 1)
    <3>1. /\ Len(full) = n + c
          /\ \A i \in 1..(n + c) : full[i] = IF i <= n THEN e[i] ELSE Char(c)[i - n]
      <4> DEFINE ch == Char(c)
                 both == e \o ch
      <4>1. e \in Seq(BOOLEAN) /\ ch \in Seq(BOOLEAN) /\ Len(e) = n /\ Len(ch) = c
        BY <2>2, <2>3
      <4>2. full = both
        BY <2>2
      <4> HIDE DEF ch
      <4>3. /\ Len(both) = Len(e) + Len(ch)
            /\ \A i \in 1..(Len(e) + Len(ch)) : both[i] = IF i <= Len(e) THEN e[i] ELSE ch[i - Len(e)]
        BY <4>1, ConcatProperties
      <4> HIDE DEF both
      <4> QED BY <4>1, <4>2, <4>3 DEF ch
    <3>2. ASSUME NEW i \in 1..c PROVE full[n + i] = (i = 1)
      <4>1. n + i \in 1..(n + c) /\ ~(n + i <= n) /\ (n + i) - n = i
        BY <2>3, <2>4
      <4>2. Char(c)[i] = (i = 1)
        BY DEF Char
      <4> QED BY <3>1, <4>1, <4>2
    <3>3. ASSUME NEW i \in 1..n PROVE full[i] = e[i]
      BY <2>3, <2>4, <3>1
    <3> QED BY <3>1, <3>2, <3>3
  <2>7. ASSUME NEW j \in 0..(k + 1), NEW i \in 1..Size(text, j) PROVE full[i] = Enc(text, j)[i]
    <3>1. CASE j = k + 1
      BY <3>1 DEF full
    <3>2. CASE j \in 0..k
      <4>1. i \in 1..n
        BY <2>4, <3>2
      <4>2. e[i] = Enc(text, j)[i]
        BY <3>2, <2>5 DEF EncOK, e
      <4> QED BY <4>1, <4>2, <2>6
    <3> QED BY <3>1, <3>2, <2>1
  <2>8. ASSUME NEW i \in 1..(n + c)
        PROVE  full[i] <=> \E j \in 0..((k + 1) - 1) : i = Size(text, j) + 1
    <3>1. CASE i \in 1..n
      <4>1. e[i] <=> \E j \in 0..(k - 1) : i = Size(text, j) + 1
        BY <3>1, <2>5 DEF EncOK, e, n
      <4>2. ~(i = Size(text, k) + 1)
        BY <3>1, <2>4 DEF n
      <4>3. full[i] = e[i]
        BY <3>1, <2>6
      <4>4. \A j : j \in 0..((k + 1) - 1) <=> j \in 0..(k - 1) \/ j = k
        BY <2>1
      <4> QED BY <4>1, <4>2, <4>3, <4>4
    <3>2. CASE i \notin 1..n
      <4>1. i - n \in 1..c /\ n + (i - n) = i
        BY <3>2, <2>3, <2>4
      <4>2. full[i] <=> i = n + 1
        <5> DEFINE d == i - n
        <5>1. d \in 1..c /\ n + d = i
          BY <4>1
        <5>2. (d = 1) <=> (i = n + 1)
          BY <2>4
        <5> HIDE DEF d
        <5>3. full[n + d] = (d = 1)
          BY <5>1, <2>6
        <5> QED BY <5>1, <5>2, <5>3
      <4>3. \A j \in 0..k : i = Size(text, j) + 1 => i = n + 1
        BY <2>4, <3>2, <2>3
      <4>4. k \in 0..((k + 1) - 1) /\ (k + 1) - 1 = k
        BY <2>1
      <4> QED BY <4>2, <4>3, <4>4 DEF n
    <3> QED BY <3>1, <3>2
  <2>9. EncOK(text, k + 1)
    BY <2>4, <2>6, <2>7, <2>8 DEF EncOK, full
  <2> QED BY <2>1, <2>9
<1>3. \A k \in 0..Len(text) : k \in S
  <2> HIDE DEF S
  <2> QED BY <1>0, <1>1, <1>2, Induction
<1> QED
  BY <1>3

(* As many characters begin in the bytes of k characters as that.          *)
LEMMA CharactersCounted ==
  ASSUME NEW text \in Seq(Chars)
  PROVE  \A k \in 0..Len(text) :
           Cardinality({i \in 1..Size(text, k) : Encoded(text)[i]}) = k
<1>0. Len(text) \in Nat
  BY LenProperties
<1> DEFINE Heads(k) == {i \in 1..Size(text, k) : Encoded(text)[i]}
<1>1. ASSUME NEW k \in 0..Len(text)
      PROVE  Heads(k) = {i \in 1..Size(text, k) : \E j \in 0..(k - 1) : i = Size(text, j) + 1}
  <2>1. Len(text) \in 0..Len(text) /\ Enc(text, Len(text)) = Encoded(text)
    BY <1>0, EncStep
  <2>2. EncOK(text, k) /\ EncOK(text, Len(text)) /\ k \in 0..Len(text)
    BY <2>1, EncodedPrefixes
  <2>3. ASSUME NEW i \in 1..Size(text, k)
        PROVE  Encoded(text)[i] <=> \E j \in 0..(k - 1) : i = Size(text, j) + 1
    <3>1. Encoded(text)[i] = Enc(text, k)[i]
      BY <2>1, <2>2 DEF EncOK
    <3> QED BY <3>1, <2>2 DEF EncOK
  <2> QED BY <2>3
<1> DEFINE S == {k \in 0..Len(text) : IsFiniteSet(Heads(k)) /\ Cardinality(Heads(k)) = k}
<1>2. 0 \in S
  <2>1. Size(text, 0) = 0
    BY SizeStep
  <2>2. Heads(0) = {}
    BY <2>1
  <2> HIDE DEF Heads
  <2> QED BY <1>0, <2>2, FS_EmptySet
<1>3. ASSUME NEW k \in 0..(Len(text) - 1), k \in S PROVE k + 1 \in S
  <2>1. k \in 0..Len(text) /\ k + 1 \in 0..Len(text) /\ k \in Nat
    BY <1>0
  <2> DEFINE n == Size(text, k)
             m == Size(text, k + 1)
  <2>2. n \in Nat /\ m \in Nat /\ n < m
    <3>1. k \in 0..((k + 1) - 1)
      BY <2>1
    <3> QED BY <2>1, <3>1, SizeStep
  <2>3. \A j \in 0..(k - 1) : Size(text, j) \in Nat /\ Size(text, j) < n
    <3>1. \A j \in 0..(k - 1) : j \in 0..Len(text)
      BY <2>1, <1>0
    <3> QED BY <2>1, <3>1, SizeStep
  <2>4. Heads(k + 1) = Heads(k) \cup {n + 1} /\ n + 1 \notin Heads(k)
    <3>1. Heads(k) = {i \in 1..n : \E j \in 0..(k - 1) : i = Size(text, j) + 1}
      BY <1>1, <2>1
    <3>2. Heads(k + 1) = {i \in 1..m : \E j \in 0..((k + 1) - 1) : i = Size(text, j) + 1}
      BY <1>1, <2>1
    <3>3. \A j : j \in 0..((k + 1) - 1) <=> j \in 0..(k - 1) \/ j = k
      BY <2>1
    <3> HIDE DEF Heads
    <3>4. ASSUME NEW i PROVE i \in Heads(k + 1) <=> i \in Heads(k) \/ i = n + 1
      <4>1. i \in Heads(k + 1) <=> i \in 1..m /\ \E j \in 0..((k + 1) - 1) : i = Size(text, j) + 1
        BY <3>2
      <4>2. (\E j \in 0..((k + 1) - 1) : i = Size(text, j) + 1)
              <=> (\E j \in 0..(k - 1) : i = Size(text, j) + 1) \/ i = n + 1
        BY <3>3
      <4>3. i \in Heads(k) <=> i \in 1..n /\ \E j \in 0..(k - 1) : i = Size(text, j) + 1
        BY <3>1
      <4>4. (\E j \in 0..(k - 1) : i = Size(text, j) + 1) => i \in 1..n /\ i \in 1..m
        BY <2>2, <2>3
      <4>5. n + 1 \in 1..m
        BY <2>2
      <4> QED BY <4>1, <4>2, <4>3, <4>4, <4>5
    <3>5. n + 1 \notin Heads(k)
      BY <3>1, <2>2
    <3> QED BY <3>4, <3>5
  <2> HIDE DEF Heads, n, m
  <2>5. IsFiniteSet(Heads(k)) /\ Cardinality(Heads(k)) = k
    BY <1>3
  <2>6. IsFiniteSet(Heads(k + 1)) /\ Cardinality(Heads(k + 1)) = k + 1
    <3> DEFINE H == Heads(k)
               x == n + 1
    <3>1. IsFiniteSet(H) /\ x \notin H /\ Heads(k + 1) = H \cup {x} /\ Cardinality(H) = k
      BY <2>4, <2>5
    <3> HIDE DEF H, x
    <3>2. IsFiniteSet(H \cup {x}) /\ Cardinality(H \cup {x}) = Cardinality(H) + 1
      BY <3>1, FS_AddElement
    <3> QED BY <3>1, <3>2
  <2> QED BY <2>1, <2>6
<1>4. \A k \in 0..Len(text) : k \in S
  <2> HIDE DEF S
  <2> QED BY <1>0, <1>2, <1>3, Induction
<1> QED
  BY <1>4

LEMMA SizesOrdered ==
  ASSUME NEW text \in Seq(Chars), NEW j \in 0..Len(text), NEW k \in 0..Len(text)
  PROVE  /\ Size(text, j) \in Nat /\ Size(text, k) \in Nat
         /\ j < k => Size(text, j) < Size(text, k)
         /\ j <= k => Size(text, j) <= Size(text, k)
<1>1. Size(text, j) \in Nat /\ Size(text, k) \in Nat
  BY SizeStep
<1>0. Len(text) \in Nat
  BY LenProperties
<1>2. ASSUME j < k PROVE Size(text, j) < Size(text, k)
  <2>1. j \in 0..(k - 1)
    BY <1>0, <1>2
  <2> QED BY <2>1, SizeStep
<1>3. ASSUME j <= k PROVE Size(text, j) <= Size(text, k)
  <2>1. CASE j = k
    BY <2>1, <1>1
  <2>2. CASE j # k
    <3>1. j < k
      BY <1>0, <1>3, <2>2
    <3> QED BY <3>1, <1>1, <1>2
  <2> QED BY <2>1, <2>2
<1> QED
  BY <1>1, <1>2, <1>3

(* The first k characters fit into max bytes, and no more of them do. *)
Fitting(text, max, k) ==
  /\ k \in 0..Len(text)
  /\ Size(text, k) <= max
  /\ k < Len(text) => Size(text, k + 1) > max

(* As many characters as fit are one number.                               *)
LEMMA OneFits ==
  ASSUME NEW text \in Seq(Chars), NEW max \in Nat
  PROVE  /\ \E k \in 0..Len(text) : Fitting(text, max, k)
         /\ \A j, k : Fitting(text, max, j) /\ Fitting(text, max, k) => j = k
<1>0. Len(text) \in Nat /\ Len(text) + 1 \in Nat
  BY LenProperties
<1> DEFINE T == {i \in 1..(Len(text) + 1) : Size(text, i - 1) <= max}
<1>1. 1 \in T
  <2>1. Size(text, 0) = 0 /\ 1 - 1 = 0 /\ 1 \in 1..(Len(text) + 1)
    BY <1>0, SizeStep
  <2> QED BY <2>1
<1>2. Max(T) \in T /\ \A i \in T : i <= Max(T)
  <2>1. T \subseteq 1..(Len(text) + 1) /\ T # {}
    BY <1>1
  <2> HIDE DEF T
  <2> QED BY <1>0, <2>1, LastOne
<1>3. PICK m \in T : \A i \in T : i <= m
  BY <1>2
<1>4. Fitting(text, max, m - 1) /\ m - 1 \in 0..Len(text)
  <2>1. m - 1 \in 0..Len(text) /\ Size(text, m - 1) <= max /\ m \in Nat
    BY <1>0
  <2>2. ASSUME m - 1 < Len(text) PROVE Size(text, (m - 1) + 1) > max
    <3>1. m + 1 \in 1..(Len(text) + 1) /\ ~(m + 1 <= m) /\ (m + 1) - 1 = m /\ (m - 1) + 1 = m /\ m \in 0..Len(text)
      BY <1>0, <2>1, <2>2
    <3>2. ~(Size(text, m) <= max)
      BY <1>3, <3>1
    <3>3. Size(text, m) \in Nat
      BY <3>1, SizeStep
    <3> QED BY <3>1, <3>2, <3>3
  <2> QED BY <2>1, <2>2 DEF Fitting
<1>5. ASSUME NEW j, NEW k, Fitting(text, max, j), Fitting(text, max, k), j < k PROVE FALSE
  <2>1. j \in 0..Len(text) /\ k \in 0..Len(text) /\ j + 1 \in 0..Len(text) /\ j + 1 <= k /\ j < Len(text)
    BY <1>0, <1>5 DEF Fitting
  <2>2. Size(text, j + 1) \in Nat /\ Size(text, k) \in Nat /\ Size(text, j + 1) <= Size(text, k)
    BY <2>1, SizesOrdered
  <2>3. Size(text, j + 1) > max /\ Size(text, k) <= max
    BY <1>5, <2>1 DEF Fitting
  <2> QED BY <2>2, <2>3
<1>6. ASSUME NEW j, NEW k, Fitting(text, max, j), Fitting(text, max, k) PROVE j = k
  <2>1. j \in Nat /\ k \in Nat
    BY <1>0, <1>6 DEF Fitting
  <2>2. ~(j < k) /\ ~(k < j)
    BY <1>5, <1>6
  <2> QED BY <2>1, <2>2
<1> QED
  BY <1>4, <1>6

(* Truncate, which looks for the cut from the byte after the budget back,  *)
(* and Fits, which counts characters, keep the same.                       *)
LEMMA TruncateIs ==
  ASSUME NEW text \in Seq(Chars), NEW max \in Nat, NEW k, Fitting(text, max, k)
  PROVE  Truncate(text, max) = Upto(text, k)
<1>0. Len(text) \in Nat /\ k \in 0..Len(text) /\ Len(text) \in 0..Len(text)
  BY LenProperties DEF Fitting
<1>1. Len(Encoded(text)) = Size(text, Len(text)) /\ EncOK(text, Len(text)) /\ Enc(text, Len(text)) = Encoded(text)
  BY <1>0, EncStep, EncodedPrefixes DEF EncOK
<1>2. CASE Len(Encoded(text)) <= max
  <2>1. Fitting(text, max, Len(text))
    BY <1>0, <1>1, <1>2 DEF Fitting
  <2>2. k = Len(text)
    BY <2>1, OneFits
  <2> QED BY <1>2, <2>2, UptoStep DEF Truncate
<1>3. CASE ~(Len(Encoded(text)) <= max)
  <2> DEFINE T == {c \in 0..max : c = 0 \/ Encoded(text)[c + 1]}
             z == Size(text, k)
             all == Size(text, Len(text))
  <2>1. z \in Nat /\ all \in Nat /\ all > max /\ z <= max
    BY <1>0, <1>1, <1>3, SizeStep DEF Fitting
  <2>2. k < Len(text)
    <3>1. k # Len(text)
      BY <2>1
    <3> QED BY <3>1, <1>0
  <2>3. \A i \in 1..all : Encoded(text)[i] <=> \E j \in 0..(Len(text) - 1) : i = Size(text, j) + 1
    BY <1>1 DEF EncOK
  <2>4. z \in T
    <3>1. z + 1 \in 1..all /\ z \in 0..max
      BY <2>1
    <3>2. k \in 0..(Len(text) - 1)
      BY <1>0, <2>2
    <3>3. Encoded(text)[z + 1]
      BY <2>3, <3>1, <3>2
    <3> QED BY <3>1, <3>3
  <2>5. ASSUME NEW c \in T PROVE c <= z
    <3>1. CASE c = 0
      BY <3>1, <2>1
    <3>2. CASE c # 0
      <4>1. c \in 0..max /\ Encoded(text)[c + 1]
        BY <3>2
      <4>2. c + 1 \in 1..all
        BY <2>1, <4>1
      <4> HIDE DEF T
      <4>3. PICK j \in 0..(Len(text) - 1) : c + 1 = Size(text, j) + 1
        BY <2>3, <4>1, <4>2
      <4>4. j \in 0..Len(text) /\ k + 1 \in 0..Len(text)
        BY <1>0, <2>2
      <4>5. c = Size(text, j)
        <5>1. Size(text, j) \in Nat
          BY <4>4, SizeStep
        <5> QED BY <4>1, <4>3, <5>1
      <4>6. ~(k + 1 <= j)
        <5>1. Size(text, k + 1) > max
          BY <2>2 DEF Fitting
        <5>2. k + 1 <= j => Size(text, k + 1) <= Size(text, j) /\ Size(text, k + 1) \in Nat
          BY <4>4, SizesOrdered
        <5> QED BY <4>1, <4>5, <5>1, <5>2
      <4>7. j <= k
        BY <1>0, <4>4, <4>6
      <4> QED BY <1>0, <4>4, <4>5, <4>7, SizesOrdered
    <3> QED BY <3>1, <3>2
  <2>6. Max(T) = z
    <3>1. \A c \in T : c \in Nat
      OBVIOUS
    <3> HIDE DEF T, z
    <3>2. \E x \in T : \A y \in T : x >= y
      BY <2>1, <2>4, <2>5, <3>1
    <3>3. Max(T) \in T /\ \A y \in T : Max(T) >= y
      BY <3>2 DEF Max
    <3> DEFINE m == Max(T)
    <3>4. m \in Nat /\ m <= z /\ m >= z
      BY <2>4, <2>5, <3>1, <3>3
    <3> HIDE DEF m
    <3>5. m = z
      BY <2>1, <3>4
    <3> QED BY <3>5 DEF m
  <2>7. Truncate(text, max) = Decoded(text, z)
    BY <1>3, <2>6 DEF Truncate
  <2>8. Decoded(text, z) = Upto(text, k)
    BY <1>0, CharactersCounted DEF Decoded, Upto
  <2> QED BY <2>7, <2>8
<1> QED
  BY <1>2, <1>3

LEMMA FitsIs ==
  ASSUME NEW text \in Seq(Chars), NEW k, Fitting(text, MaxBytes, k)
  PROVE  Fits(text) = Upto(text, k)
<1>0. MaxBytes \in Nat
  BY StreamAssumption
<1> DEFINE kept == CHOOSE n \in 0..Len(text) :
             /\ Bytes(SubSeq(text, 1, n)) <= MaxBytes
             /\ n < Len(text) => Bytes(SubSeq(text, 1, n + 1)) > MaxBytes
<1>1. \A n \in 0..Len(text) :
        Fitting(text, MaxBytes, n) <=>
          /\ Bytes(SubSeq(text, 1, n)) <= MaxBytes
          /\ n < Len(text) => Bytes(SubSeq(text, 1, n + 1)) > MaxBytes
  BY DEF Fitting, Size, Upto
<1>2. k \in 0..Len(text)
  BY DEF Fitting
<1>3. kept \in 0..Len(text) /\ Fitting(text, MaxBytes, kept)
  BY <1>1, <1>2
<1>4. Fits(text) = Upto(text, kept)
  BY DEF Fits, Upto
<1> HIDE DEF kept
<1>5. kept = k
  BY <1>0, <1>3, OneFits
<1> QED
  BY <1>4, <1>5

(* What is left of a delta after the text so far. *)
Kept(text, delta) == Truncate(delta, MaxBytes - Bytes(text))

(* To cut a delta to what is left cuts the whole text to the cap.          *)
LEMMA KeptFits ==
  ASSUME NEW text \in Seq(Chars), NEW delta \in Seq(Chars), Bytes(text) < MaxBytes
  PROVE  /\ Kept(text, delta) \in Seq(Chars)
         /\ text \o Kept(text, delta) = Fits(text \o delta)
         /\ Bytes(text \o Kept(text, delta)) = Bytes(text) + Bytes(Kept(text, delta))
         /\ Bytes(text \o Kept(text, delta)) <= MaxBytes
         /\ Kept(text, delta) # delta => Bytes(text \o delta) >= MaxBytes
<1> DEFINE left == MaxBytes - Bytes(text)
           n == Len(text)
<1>0. /\ MaxBytes \in Nat /\ Bytes(text) \in Nat /\ Bytes(delta) \in Nat /\ left \in Nat
      /\ n \in Nat /\ Len(delta) \in Nat
  BY StreamAssumption, BytesStep, LenProperties
<1>1. PICK k \in 0..Len(delta) : Fitting(delta, left, k)
  <2> HIDE DEF left
  <2> QED BY <1>0, OneFits
<1>2. Kept(text, delta) = Upto(delta, k)
  <2>1. Truncate(delta, left) = Upto(delta, k)
    <3> HIDE DEF left
    <3> QED BY <1>0, <1>1, TruncateIs
  <2> QED BY <2>1 DEF Kept
<1>3. \A j \in 0..Len(delta) :
        Upto(delta, j) \in Seq(Chars) /\ Len(Upto(delta, j)) = j /\ Size(delta, j) \in Nat
  BY UptoStep, SizeStep
<1> DEFINE both == text \o delta
<1>4. both \in Seq(Chars) /\ Len(both) = n + Len(delta) /\ Bytes(both) = Bytes(text) + Bytes(delta)
  BY ConcatProperties, BytesConcat
<1>5. ASSUME NEW j \in 0..Len(delta)
      PROVE  /\ Upto(both, n + j) = text \o Upto(delta, j)
             /\ Size(both, n + j) = Bytes(text) + Size(delta, j)
  <2> DEFINE u == Upto(delta, j)
             rest == SubSeq(delta, j + 1, Len(delta))
             tu == text \o u
  <2>1. u \in Seq(Chars) /\ rest \in Seq(Chars) /\ delta = u \o rest /\ Len(u) = j
    BY Splits
  <2>2. Size(delta, j) = Bytes(u)
    BY DEF Size
  <2> HIDE DEF u, rest
  <2>3. tu \in Seq(Chars) /\ Len(tu) = n + j
    BY <1>0, <2>1, ConcatProperties
  <2>4. both = tu \o rest
    <3>1. (text \o u) \o rest = text \o (u \o rest)
      <4> HIDE DEF left, n, both, tu
      <4>1. u \in Seq(Chars) /\ rest \in Seq(Chars)
        BY <2>1
      <4> QED BY <4>1, ConcatAssociative
    <3> DEFINE ur == u \o rest
    <3>2. delta = ur /\ tu \o rest = text \o ur
      BY <2>1, <3>1
    <3> HIDE DEF ur, tu
    <3> QED BY <3>2
  <2>5. Bytes(tu) = Bytes(text) + Bytes(u)
    BY <2>1, BytesConcat
  <2> HIDE DEF tu, both
  <2>6. Upto(both, n + j) = tu
    <3>1. CASE n + j = 0
      <4>1. Upto(both, 0) = <<>>
        BY <1>4, UptoStep
      <4>2. tu = <<>>
        BY <2>3, <3>1, EmptySeq
      <4> QED BY <3>1, <4>1, <4>2
    <3>2. CASE n + j # 0
      <4>1. 1 \in 1..Len(tu) /\ Len(tu) \in 1..Len(tu)
        BY <1>0, <2>3, <3>2
      <4>2. SubSeq(tu \o rest, 1, Len(tu)) = SubSeq(tu, 1, Len(tu))
        BY <2>1, <2>3, <4>1, SubSeqOfConcat1
      <4>3. SubSeq(tu, 1, Len(tu)) = tu
        BY <2>3, SubSeqFull
      <4> QED BY <2>3, <2>4, <4>2, <4>3 DEF Upto
    <3> QED BY <3>1, <3>2
  <2> QED BY <2>2, <2>5, <2>6 DEF Size, u, tu
<1>6. Size(delta, k) <= left /\ (k < Len(delta) => Size(delta, k + 1) > left)
  BY <1>1 DEF Fitting
<1>7. Fitting(both, MaxBytes, n + k)
  <2>1. n + k \in 0..Len(both) /\ (n + k < Len(both) <=> k < Len(delta))
    BY <1>0, <1>4
  <2>2. Size(both, n + k) <= MaxBytes
    BY <1>0, <1>3, <1>5, <1>6
  <2>3. ASSUME k < Len(delta) PROVE Size(both, n + k + 1) > MaxBytes
    <3>1. k + 1 \in 0..Len(delta) /\ n + k + 1 = n + (k + 1)
      BY <1>0, <2>3
    <3>2. Size(both, n + (k + 1)) = Bytes(text) + Size(delta, k + 1) /\ Size(delta, k + 1) \in Nat
      BY <1>3, <1>5, <3>1
    <3>3. Size(delta, k + 1) > left
      BY <1>6, <2>3
    <3> QED BY <1>0, <3>1, <3>2, <3>3
  <2> HIDE DEF both, n
  <2> QED BY <2>1, <2>2, <2>3 DEF Fitting
<1>8. text \o Kept(text, delta) = Fits(both)
  <2>1. Fits(both) = Upto(both, n + k)
    <3> HIDE DEF both, n
    <3> QED BY <1>4, <1>7, FitsIs
  <2> QED BY <1>2, <1>5, <2>1
<1>9. /\ Bytes(text \o Kept(text, delta)) = Bytes(text) + Bytes(Kept(text, delta))
      /\ Bytes(text \o Kept(text, delta)) <= MaxBytes
  <2>1. Kept(text, delta) \in Seq(Chars) /\ Bytes(Kept(text, delta)) = Size(delta, k)
    BY <1>2, <1>3 DEF Size
  <2>2. Bytes(text \o Kept(text, delta)) = Bytes(text) + Bytes(Kept(text, delta))
    BY <2>1, BytesConcat
  <2> QED BY <1>0, <1>3, <1>6, <2>1, <2>2
<1>10. ASSUME Kept(text, delta) # delta PROVE Bytes(both) >= MaxBytes
  <2>1. k # Len(delta)
    BY <1>2, <1>10, UptoStep
  <2>2. k < Len(delta) /\ k + 1 \in 0..Len(delta) /\ Len(delta) \in 0..Len(delta) /\ k + 1 <= Len(delta)
    BY <1>0, <2>1
  <2>3. Size(delta, k + 1) <= Size(delta, Len(delta)) /\ Size(delta, Len(delta)) = Bytes(delta)
        /\ Size(delta, k + 1) \in Nat
    BY <2>2, SizesOrdered, SizeStep
  <2>4. Size(delta, k + 1) > left
    BY <1>6, <2>2
  <2> QED BY <1>0, <1>4, <2>3, <2>4
<1> QED
  BY <1>2, <1>3, <1>8, <1>9, <1>10

(* Text within the cap is not cut.                                         *)
LEMMA FitsAll ==
  ASSUME NEW text \in Seq(Chars), Bytes(text) <= MaxBytes
  PROVE  Fits(text) = text
<1>1. Fitting(text, MaxBytes, Len(text))
  <2>1. Len(text) \in 0..Len(text) /\ ~(Len(text) < Len(text)) /\ Size(text, Len(text)) = Bytes(text)
    BY LenProperties, SizeStep
  <2> QED BY <2>1 DEF Fitting
<1> QED
  BY <1>1, FitsIs, UptoStep

(* What comes after the end means nothing.                                 *)
LEMMA Absorbed ==
  ASSUME NEW w \in Meanings, w.over # "no", NEW s \in Seq(Symbols)
  PROVE  Folded(Meanings, Meaning, w, s) = w
<1> DEFINE r == [i \in 0..Len(s) |-> w]
<1>0. Len(s) \in Nat
  BY LenProperties
<1>1. r[0] = w /\ r[Len(s)] = w
  BY <1>0
<1>2. ASSUME NEW i \in 1..Len(s) PROVE r[i] = Meaning[r[i - 1]][s[i]]
  <2>1. s[i] \in Symbols
    BY <1>0, ElementOfSeq
  <2>2. Meaning[w][s[i]] = w
    BY <2>1 DEF Meaning, WholeSymbol
  <2>3. r[i] = w /\ r[i - 1] = w
    BY <1>0
  <2> QED BY <2>2, <2>3
<1> HIDE DEF r
<1>3. Follows(r, Meanings, Symbols, Meaning, w, s)
  BY <1>1, <1>2, MeaningType DEF Follows
<1> QED
  BY <1>1, <1>3, FoldedIs

Unbroken(s) == \A i \in 1..Len(s) : s[i] # NewLine

(* What the text and the usage so far mean, at the beginning of a line. *)
Begun(text, said) == [line |-> <<>>, text |-> text, usage |-> said, over |-> "no"]
Within(line, text, said) == [line |-> line, text |-> text, usage |-> said, over |-> "no"]

(* The bytes of one line, no longer than it may be, are that line...       *)
LEMMA LineFolds ==
  ASSUME NEW text \in Seq(Chars), NEW said \in Reports \cup {"none"},
         NEW s \in Seq(Symbols), Unbroken(s), Len(s) <= MaxLine
  PROVE  /\ Begun(text, said) \in Meanings
         /\ Folded(Meanings, Meaning, Begun(text, said), s) = Within(s, text, said)
<1>0. Len(s) \in Nat /\ MaxLine \in Nat
  BY LenProperties, StreamAssumption
<1>1. ASSUME NEW l \in Seq(Symbols) PROVE Within(l, text, said) \in Meanings
  BY DEF Within, Meanings
<1>2. Begun(text, said) = Within(<<>>, text, said) /\ <<>> \in Seq(Symbols)
  BY DEF Begun, Within
<1> DEFINE r == [i \in 0..Len(s) |-> Within(Upto(s, i), text, said)]
<1>3. r[0] = Begun(text, said) /\ r[Len(s)] = Within(s, text, said)
  <2>1. Upto(s, 0) = <<>> /\ Upto(s, Len(s)) = s
    BY UptoStep
  <2> QED BY <1>0, <1>2, <2>1
<1>4. ASSUME NEW i \in 1..Len(s) PROVE r[i] = Meaning[r[i - 1]][s[i]]
  <2>1. /\ i - 1 \in 0..(Len(s) - 1) /\ (i - 1) + 1 = i /\ i - 1 \in 0..Len(s) /\ i \in 0..Len(s)
        /\ i - 1 # MaxLine
    BY <1>0
  <2> DEFINE u == Upto(s, i - 1)
             x == s[i]
  <2>2. u \in Seq(Symbols) /\ Len(u) = i - 1 /\ x \in Symbols /\ Upto(s, i) = u \o <<x>>
    BY <2>1, UptoStep
  <2>3. x # NewLine
    BY DEF Unbroken
  <2>4. r[i] = Within(u \o <<x>>, text, said) /\ r[i - 1] = Within(u, text, said)
    BY <2>1, <2>2
  <2> HIDE DEF u, x, r
  <2>5. Append(u, x) = u \o <<x>>
    BY <2>2, AppendIsConcat
  <2>6. WholeSymbol(Within(u, text, said), x) = Within(Append(u, x), text, said)
    BY <2>1, <2>2, <2>3 DEF Within, WholeSymbol
  <2>7. Meaning[Within(u, text, said)][x] = WholeSymbol(Within(u, text, said), x)
    BY <1>1, <2>2 DEF Meaning
  <2> QED BY <2>4, <2>5, <2>6, <2>7 DEF x
<1> HIDE DEF r
<1>5. Follows(r, Meanings, Symbols, Meaning, Begun(text, said), s)
  BY <1>1, <1>2, <1>3, <1>4, MeaningType DEF Follows
<1>6. Folded(Meanings, Meaning, Begun(text, said), s) = r[Len(s)]
  BY <1>5, FoldedIs
<1> QED
  BY <1>1, <1>2, <1>3, <1>6

(* ...and more of them are too long, whatever comes after.                 *)
LEMMA LongLineFolds ==
  ASSUME NEW text \in Seq(Chars), NEW said \in Reports \cup {"none"},
         NEW s \in Seq(Symbols), Unbroken(s), Len(s) > MaxLine
  PROVE  Folded(Meanings, Meaning, Begun(text, said), s).over = "too_long"
<1>0. Len(s) \in Nat /\ MaxLine \in Nat /\ MaxLine \in 0..(Len(s) - 1) /\ MaxLine \in 0..Len(s)
      /\ MaxLine + 1 \in 1..Len(s) /\ MaxLine + 1 \in 0..Len(s)
  BY LenProperties, StreamAssumption
<1> DEFINE b == Begun(text, said)
           u == Upto(s, MaxLine)
           x == s[MaxLine + 1]
           one == <<x>>
           uo == u \o one
           rest == SubSeq(s, (MaxLine + 1) + 1, Len(s))
           w == [Within(u, text, said) EXCEPT !.over = "too_long"]
<1>1. /\ u \in Seq(Symbols) /\ Len(u) = MaxLine /\ x \in Symbols
      /\ one \in Seq(Symbols) /\ Upto(s, MaxLine + 1) = uo
  BY <1>0, UptoStep
<1>2. uo \in Seq(Symbols) /\ rest \in Seq(Symbols) /\ s = uo \o rest
  <2> DEFINE k == MaxLine + 1
  <2>1. k \in 0..Len(s) /\ Upto(s, k) = uo /\ SubSeq(s, k + 1, Len(s)) = rest
    BY <1>0, <1>1
  <2> HIDE DEF k, uo, rest
  <2>2. /\ Upto(s, k) \in Seq(Symbols) /\ SubSeq(s, k + 1, Len(s)) \in Seq(Symbols)
        /\ s = Upto(s, k) \o SubSeq(s, k + 1, Len(s))
    BY <2>1, Splits
  <2> QED BY <2>1, <2>2
<1>3. Unbroken(u) /\ x # NewLine
  <2>1. ASSUME NEW i \in 1..Len(u) PROVE u[i] # NewLine
    <3>1. i \in 1..MaxLine /\ i \in 1..Len(s)
      BY <1>0, <1>1
    <3>2. u[i] = s[i]
      BY <1>0, <3>1, UptoElement DEF Upto
    <3> QED BY <3>1, <3>2 DEF Unbroken
  <2> QED BY <2>1, <1>0 DEF Unbroken
<1>4. b \in Meanings /\ Folded(Meanings, Meaning, b, u) = Within(u, text, said)
  <2>1. Len(u) <= MaxLine
    BY <1>0, <1>1
  <2> HIDE DEF u
  <2> QED BY <1>1, <1>3, <2>1, LineFolds
<1>5. Within(u, text, said) \in Meanings /\ w \in Meanings /\ w.over = "too_long"
  <2> HIDE DEF u
  <2> QED BY <1>1 DEF Within, Meanings
<1>6. Meaning[Within(u, text, said)][x] = w
  <2> HIDE DEF u, x
  <2>1. WholeSymbol(Within(u, text, said), x) = [Within(u, text, said) EXCEPT !.over = "too_long"]
    BY <1>1, <1>3 DEF WholeSymbol, Within
  <2> QED BY <1>1, <1>5, <2>1 DEF Meaning
<1> HIDE DEF b, u, x, rest, w
<1>7. Folded(Meanings, Meaning, Within(u, text, said), one) = w
  <2>1. Foldable(Meanings, Symbols, Meaning, Within(u, text, said))
    BY <1>5, MeaningType DEF Foldable
  <2>2. Folded(Meanings, Meaning, Within(u, text, said), <<x>>) = Meaning[Within(u, text, said)][x]
    BY <1>1, <2>1, FoldedOne
  <2> QED BY <1>6, <2>2
<1> HIDE DEF one
<1>8. Foldable(Meanings, Symbols, Meaning, b)
  BY <1>4, MeaningType DEF Foldable
<1>9. Folded(Meanings, Meaning, b, u \o one) = w
  BY <1>1, <1>4, <1>7, <1>8, FoldedConcat
<1> HIDE DEF uo
<1>10. Folded(Meanings, Meaning, b, uo \o rest) = Folded(Meanings, Meaning, w, rest)
  <2>1. Folded(Meanings, Meaning, b, uo) = w
    BY <1>9 DEF uo
  <2> QED BY <1>2, <1>8, <2>1, FoldedConcat
<1>11. Folded(Meanings, Meaning, w, rest) = w
  BY <1>2, <1>5, Absorbed
<1> QED
  BY <1>2, <1>5, <1>10, <1>11 DEF b

(* s is a line, its end and the rest. *)
LineEnds(s, e) ==
  /\ e \in 1..Len(s)
  /\ s[e] = NewLine
  /\ \A i \in 1..(e - 1) : s[i] # NewLine

LEMMA EndOfLineIs ==
  ASSUME buf \in Seq(Symbols)
  PROVE  \/ EndOfLine = 0 /\ Unbroken(buf)
         \/ EndOfLine # 0 /\ LineEnds(buf, EndOfLine)
<1>0. Len(buf) \in Nat
  BY LenProperties
<1> DEFINE I == {i \in 1..Len(buf) : buf[i] = NewLine}
<1>1. EndOfLine = IF I # {} THEN Min(I) ELSE 0
  BY DEF EndOfLine, SelectInSeq
<1>2. CASE I = {}
  BY <1>1, <1>2 DEF Unbroken
<1>3. CASE I # {}
  <2>1. PICK m \in I : \A k \in I : m <= k
    <3>1. I \subseteq Nat
      OBVIOUS
    <3> HIDE DEF I
    <3> QED BY <1>3, <3>1, Smallest
  <2>2. Min(I) \in I /\ \A k \in I : Min(I) <= k
    <3>1. \E x \in I : \A y \in I : x <= y
      BY <2>1
    <3> HIDE DEF I
    <3> QED BY <3>1 DEF Min
  <2> DEFINE e == Min(I)
  <2>3. e \in 1..Len(buf) /\ buf[e] = NewLine
    <3> HIDE DEF e
    <3> QED BY <2>2 DEF e
  <2>4. ASSUME NEW i \in 1..(e - 1) PROVE buf[i] # NewLine
    <3>1. i \in 1..Len(buf) /\ ~(e <= i)
      <4> HIDE DEF e
      <4> QED BY <1>0, <2>3
    <3> QED BY <2>2, <3>1
  <2>5. EndOfLine = e /\ e # 0
    <3> HIDE DEF I
    <3> QED BY <1>1, <1>3, <2>3
  <2> HIDE DEF e
  <2> QED BY <2>3, <2>4, <2>5 DEF LineEnds
<1> QED
  BY <1>2, <1>3

(* The line that NextLine takes and the buffer it leaves.                  *)
LEMMA LineFound ==
  ASSUME NEW s \in Seq(Symbols), NEW e, LineEnds(s, e)
  PROVE  /\ SubSeq(s, 1, e - 1) \in Seq(Symbols) /\ Len(SubSeq(s, 1, e - 1)) = e - 1
         /\ Unbroken(SubSeq(s, 1, e - 1))
         /\ SubSeq(s, e + 1, Len(s)) \in Seq(Symbols)
         /\ Len(SubSeq(s, e + 1, Len(s))) = Len(s) - e
         /\ s = (SubSeq(s, 1, e - 1) \o <<NewLine>>) \o SubSeq(s, e + 1, Len(s))
<1>0. /\ Len(s) \in Nat /\ e \in 1..Len(s) /\ e \in 0..Len(s)
      /\ e - 1 \in 0..Len(s) /\ e - 1 \in 0..(Len(s) - 1) /\ (e - 1) + 1 = e
  BY LenProperties DEF LineEnds
<1> DEFINE d == e - 1
<1>1. Upto(s, d) \in Seq(Symbols) /\ Len(Upto(s, d)) = d
  BY <1>0, UptoStep
<1>2. Unbroken(Upto(s, d))
  <2>1. ASSUME NEW i \in 1..d PROVE Upto(s, d)[i] # NewLine
    <3>1. d \in 0..Len(s)
      BY <1>0
    <3>2. s[i] # NewLine
      BY DEF LineEnds
    <3> HIDE DEF d
    <3>3. Upto(s, d)[i] = s[i]
      BY <3>1, UptoElement
    <3> QED BY <3>2, <3>3
  <2> QED BY <1>1, <2>1 DEF Unbroken
<1>3. Upto(s, e) = Upto(s, d) \o <<NewLine>>
  <2>1. d \in 0..(Len(s) - 1) /\ d + 1 = e
    BY <1>0
  <2> HIDE DEF d
  <2>2. Upto(s, d + 1) = Upto(s, d) \o <<s[d + 1]>>
    BY <2>1, UptoStep
  <2> QED BY <2>1, <2>2 DEF LineEnds
<1>4. /\ SubSeq(s, e + 1, Len(s)) \in Seq(Symbols)
      /\ Len(SubSeq(s, e + 1, Len(s))) = Len(s) - e
      /\ s = Upto(s, e) \o SubSeq(s, e + 1, Len(s))
  BY <1>0, Splits
<1> QED
  BY <1>1, <1>2, <1>3, <1>4 DEF Upto

(* A line at the beginning of the buffer means what WholeLine says of it.  *)
LEMMA LineMeans ==
  ASSUME NEW text \in Seq(Chars), NEW said \in Reports \cup {"none"},
         NEW line \in Seq(Symbols), Unbroken(line), NEW rest \in Seq(Symbols)
  PROVE  LET all == (line \o <<NewLine>>) \o rest
         IN /\ Len(line) <= MaxLine =>
                 Folded(Meanings, Meaning, Begun(text, said), all)
                   = Folded(Meanings, Meaning, WholeLine(Within(line, text, said)), rest)
            /\ Len(line) > MaxLine =>
                 Folded(Meanings, Meaning, Begun(text, said), all).over = "too_long"
<1> DEFINE b == Begun(text, said)
           nl == <<NewLine>>
           ln == line \o nl
           all == ln \o rest
           m == Within(line, text, said)
<1>0. nl \in Seq(Symbols) /\ Len(line) \in Nat /\ MaxLine \in Nat /\ NewLine \in Symbols
  BY LenProperties, StreamAssumption DEF Symbols
<1>1. b \in Meanings /\ m \in Meanings /\ m.over = "no"
  BY DEF Begun, Within, Meanings
<1>2. \A w \in Meanings : Foldable(Meanings, Symbols, Meaning, w)
  BY MeaningType DEF Foldable
<1>3. /\ ln \in Seq(Symbols)
      /\ Folded(Meanings, Meaning, b, ln) = Folded(Meanings, Meaning, Folded(Meanings, Meaning, b, line), nl)
      /\ Folded(Meanings, Meaning, b, line) \in Meanings
      /\ Folded(Meanings, Meaning, b, ln) \in Meanings
  <2> HIDE DEF b, nl
  <2>1. ln \in Seq(Symbols)
    BY <1>0, ConcatProperties
  <2>2. Foldable(Meanings, Symbols, Meaning, b)
    BY <1>1, <1>2
  <2>3. /\ Folded(Meanings, Meaning, b, line) \in Meanings
        /\ Folded(Meanings, Meaning, b, line \o nl) = Folded(Meanings, Meaning, Folded(Meanings, Meaning, b, line), nl)
    BY <1>0, <2>2, FoldedConcat
  <2>4. Folded(Meanings, Meaning, b, ln) \in Meanings
    <3> HIDE DEF ln
    <3> QED BY <2>1, <2>2, <1>0, FoldedConcat
  <2> QED BY <2>1, <2>3, <2>4
<1>4. Folded(Meanings, Meaning, b, all) = Folded(Meanings, Meaning, Folded(Meanings, Meaning, b, ln), rest)
  <2> HIDE DEF b, ln
  <2> QED BY <1>1, <1>2, <1>3, FoldedConcat
<1>5. ASSUME Len(line) <= MaxLine
      PROVE  Folded(Meanings, Meaning, b, ln) = WholeLine(m)
  <2>1. Folded(Meanings, Meaning, b, line) = m
    BY <1>5, LineFolds
  <2>2. Folded(Meanings, Meaning, m, nl) = Meaning[m][NewLine]
    <3>1. Foldable(Meanings, Symbols, Meaning, m)
      BY <1>1, <1>2
    <3> HIDE DEF m
    <3> QED BY <3>1, <1>0, FoldedOne
  <2>3. Meaning[m][NewLine] = WholeLine(m)
    <3> HIDE DEF m
    <3> QED BY <1>0, <1>1 DEF Meaning, WholeSymbol
  <2> QED BY <1>3, <2>1, <2>2, <2>3
<1>6. ASSUME Len(line) > MaxLine
      PROVE  Folded(Meanings, Meaning, b, all).over = "too_long"
  <2> DEFINE l == Folded(Meanings, Meaning, b, line)
  <2>1. l \in Meanings /\ l.over = "too_long"
    BY <1>3, <1>6, LongLineFolds
  <2> HIDE DEF l
  <2>2. Folded(Meanings, Meaning, l, nl) = l
    <3> HIDE DEF nl
    <3> QED BY <1>0, <2>1, Absorbed
  <2>3. Folded(Meanings, Meaning, l, rest) = l
    BY <2>1, Absorbed
  <2>4. Folded(Meanings, Meaning, b, ln) = l
    BY <1>3, <2>2 DEF l
  <2> QED BY <1>4, <2>1, <2>3, <2>4
<1> QED
  BY <1>4, <1>5, <1>6

(* The state in which a line is taken: everything so far was kept. *)
AllKept ==
  /\ content \in Seq(Chars) /\ shown = content
  /\ usage \in Reports \cup {"none"}
  /\ truncated = FALSE
  /\ Bytes(content) < MaxBytes

(* What the loop's body may do with a line that means w: go on, end with   *)
(* a result, or fail with the sink.                                        *)
GoesOn(w, then) ==
  /\ w = Begun(content', usage')
  /\ at' = then
  /\ AllKept'

Returns(w) ==
  /\ w.over = "stop"
  /\ at' = "returned"
  /\ content' = Fits(w.text)
  /\ usage' = w.usage
  /\ content' # w.text => truncated'
  /\ shown' = content'

SinkFails == at' = "sink_failed"

Received ==
  /\ content \in Seq(Chars) /\ shown \in Seq(Chars)
  /\ usage \in Reports \cup {"none"}
  /\ truncated \in BOOLEAN
  /\ IsPrefix(shown, content)
  /\ Bytes(content) <= MaxBytes

(* Consume does with a line what WholeLine says it means, up to the cap.   *)
LEMMA ConsumeMeans ==
  ASSUME AllKept, NEW line \in Seq(Symbols), NEW then, Consume(line, then)
  PROVE  LET w == WholeLine(Within(line, content, usage))
         IN /\ w \in Meanings
            /\ Received'
            /\ GoesOn(w, then) \/ Returns(w) \/ SinkFails
<1> DEFINE m == Within(line, content, usage)
           w == WholeLine(m)
           said == Payload(line)
           delta == IF said \in Deltas THEN Text[said] ELSE <<>>
           text == content \o delta
           kept == Kept(content, delta)
           full == kept # delta \/ Bytes(content) + Bytes(kept) >= MaxBytes
<1>0. MaxBytes \in Nat /\ Finish \notin Deltas /\ Reports \subseteq Deltas
  BY StreamAssumption
<1>1. m \in Meanings /\ w \in Meanings
  <2>1. m \in Meanings
    BY DEF AllKept, Within, Meanings
  <2> HIDE DEF m
  <2> QED BY <2>1, WholeLineType
<1>2. delta \in Seq(Chars) /\ content \in Seq(Chars) /\ Bytes(content) \in Nat
  <2>1. content \in Seq(Chars) /\ Bytes(content) \in Nat
    BY BytesStep DEF AllKept
  <2>2. CASE said \in Deltas
    <3> HIDE DEF said
    <3> QED BY <2>1, <2>2, StreamAssumption DEF Chars
  <2>3. CASE said \notin Deltas
    BY <2>1, <2>3
  <2> QED BY <2>1, <2>2, <2>3
<1>3. /\ w.line = <<>>
      /\ w.text = text
      /\ w.usage = IF said \in Reports /\ ~(text # content /\ Bytes(text) >= MaxBytes)
                   THEN said ELSE usage
      /\ w.over = IF said = Finish \/ (text # content /\ Bytes(text) >= MaxBytes)
                  THEN "stop" ELSE "no"
  <2>1. text = IF said \in Deltas THEN content \o Text[said] ELSE content
    <3>1. CASE said \in Deltas
      BY <3>1
    <3>2. CASE said \notin Deltas
      <4>1. delta = <<>>
        BY <3>2
      <4> HIDE DEF delta
      <4> QED BY <3>2, <4>1, <1>2, ConcatEmptySeq
    <3> QED BY <3>1, <3>2
  <2>2. /\ m.line = line /\ m.text = content /\ m.usage = usage /\ DOMAIN m = {"line", "text", "usage", "over"}
    BY DEF Within
  <2> HIDE DEF text, m
  <2> QED BY <2>1, <2>2 DEF WholeLine
<1>4. w = [line |-> w.line, text |-> w.text, usage |-> w.usage, over |-> w.over]
  <2> HIDE DEF w
  <2> QED BY <1>1 DEF Meanings
<1> HIDE DEF w, m
<1>5. kept = Truncate(delta, MaxBytes - Bytes(content))
  BY DEF Kept
<1>6. \/ /\ delta = <<>>
         /\ at' = IF said = Finish THEN "returned" ELSE then
         /\ usage' = UsageAfter(said)
         /\ UNCHANGED <<content, shown, truncated>>
      \/ /\ delta # <<>>
         /\ content' = content \o kept
         /\ shown' = shown \o kept
         /\ truncated' = full
         /\ at' = IF full THEN "returned" ELSE then
         /\ usage' = IF full THEN usage ELSE UsageAfter(said)
      \/ /\ delta # <<>>
         /\ content' = content \o kept
         /\ at' = "sink_failed"
         /\ UNCHANGED <<shown, usage, truncated>>
  BY <1>5 DEF Consume
<1>7. /\ kept \in Seq(Chars) /\ content \o kept \in Seq(Chars)
      /\ content \o kept = Fits(text)
      /\ Bytes(content \o kept) = Bytes(content) + Bytes(kept) /\ Bytes(kept) \in Nat
      /\ Bytes(content \o kept) <= MaxBytes
      /\ kept # delta => Bytes(text) >= MaxBytes
      /\ IsPrefix(content, content \o kept) /\ IsPrefix(content \o kept, content \o kept)
  <2> HIDE DEF delta
  <2>1. Bytes(content) < MaxBytes
    BY DEF AllKept
  <2>2. /\ kept \in Seq(Chars)
        /\ content \o kept = Fits(text)
        /\ Bytes(content \o kept) = Bytes(content) + Bytes(kept)
        /\ Bytes(content \o kept) <= MaxBytes
        /\ kept # delta => Bytes(text) >= MaxBytes
    BY <1>2, <2>1, KeptFits
  <2> DEFINE ck == content \o kept
  <2> HIDE DEF kept
  <2>3. ck \in Seq(Chars) /\ IsPrefix(content, ck)
    BY <1>2, <2>2, ConcatProperties, PrefixOfConcat
  <2>4. IsPrefix(ck, ck)
    <3> HIDE DEF ck
    <3> QED BY <2>3, PrefixOfConcat
  <2> QED BY <2>2, <2>3, <2>4, BytesStep
<1>8. full <=> Bytes(text) >= MaxBytes
  <2>1. ASSUME kept = delta PROVE Bytes(text) = Bytes(content) + Bytes(kept)
    <3> HIDE DEF delta, kept
    <3> QED BY <1>7, <2>1
  <2> HIDE DEF text, kept, delta
  <2> QED BY <1>7, <2>1
<1>9. (text # content) <=> (delta # <<>>)
  <2> HIDE DEF delta
  <2> QED BY <1>2, ConcatEqualIffEmpty
<1>10. delta # <<>> => said \in Deltas
  OBVIOUS
<1>11. UsageAfter(said) = (IF said \in Reports THEN said ELSE usage) /\ UsageAfter(said) \in Reports \cup {"none"}
  BY DEF UsageAfter, AllKept
<1>12. shown = content /\ truncated = FALSE /\ usage \in Reports \cup {"none"} /\ Bytes(content) < MaxBytes
  BY DEF AllKept
<1> HIDE DEF said
<1>13. CASE delta = <<>>
  <2>1. /\ at' = (IF said = Finish THEN "returned" ELSE then) /\ usage' = UsageAfter(said)
        /\ content' = content /\ shown' = content /\ truncated' = truncated
    <3> HIDE DEF delta, kept
    <3> QED BY <1>6, <1>12, <1>13
  <2>2. text = content /\ w.text = content
    BY <1>3, <1>9, <1>13
  <2>3. w.usage = usage' /\ w.over = IF said = Finish THEN "stop" ELSE "no"
    <3> HIDE DEF text
    <3> QED BY <1>3, <1>11, <2>1, <2>2
  <2>4. AllKept'
    BY <1>2, <1>11, <1>12, <2>1 DEF AllKept
  <2>5. Received'
    <3>1. IsPrefix(content, content)
      BY <1>2, PrefixOfConcat
    <3>2. Bytes(content) <= MaxBytes
      BY <1>0, <1>2, <1>12
    <3> QED BY <1>2, <1>11, <1>12, <2>1, <3>1, <3>2 DEF Received
  <2>6. CASE said = Finish
    <3>1. Fits(w.text) = content
      <4>1. Bytes(content) <= MaxBytes
        BY <1>0, <1>2, <1>12
      <4> QED BY <4>1, <1>2, <2>2, FitsAll
    <3>2. Returns(w)
      BY <2>1, <2>2, <2>3, <2>6, <3>1 DEF Returns
    <3> QED BY <1>1, <2>5, <3>2 DEF w, m
  <2>7. CASE said # Finish
    <3>1. GoesOn(w, then)
      BY <1>3, <1>4, <2>1, <2>2, <2>3, <2>4, <2>7 DEF GoesOn, Begun
    <3> QED BY <1>1, <2>5, <3>1 DEF w, m
  <2> QED BY <2>6, <2>7
<1>14. CASE delta # <<>>
  <2>0. said \in Deltas /\ said # Finish /\ text # content
    BY <1>0, <1>9, <1>10, <1>14
  <2>1. content' = content \o kept /\ content' \in Seq(Chars) /\ Bytes(content') <= MaxBytes
        /\ content' = Fits(text) /\ Bytes(content') = Bytes(content) + Bytes(kept)
        /\ IsPrefix(content, content') /\ IsPrefix(content', content')
    <3>1. content' = content \o kept
      <4> HIDE DEF delta, kept, full
      <4> QED BY <1>6, <1>14
    <3> HIDE DEF kept, delta
    <3> QED BY <1>7, <3>1
  <2> DEFINE much == Bytes(text) >= MaxBytes
  <2>2. \/ /\ shown' = content' /\ truncated' = full
           /\ at' = IF full THEN "returned" ELSE then
           /\ usage' = IF full THEN usage ELSE UsageAfter(said)
        \/ at' = "sink_failed" /\ shown' = content /\ usage' = usage /\ truncated' = truncated
    <3> HIDE DEF delta, kept, full
    <3> QED BY <1>6, <1>12, <1>14, <2>1
  <2>3. full = much /\ full \in BOOLEAN
    <3>1. full \in BOOLEAN
      <4> HIDE DEF delta, kept
      <4> QED OBVIOUS
    <3> HIDE DEF text, kept
    <3> QED BY <1>8, <3>1
  <2>4. ~much => kept = delta /\ content' = text
    <3> HIDE DEF kept, delta
    <3> QED BY <1>7, <2>1
  <2>5. Received'
    <3>1. truncated' \in BOOLEAN /\ usage' \in Reports \cup {"none"}
      <4> HIDE DEF full, much, delta, kept, text
      <4> QED BY <1>11, <1>12, <2>2, <2>3
    <3>2. shown' = content' \/ shown' = content
      BY <2>2
    <3> HIDE DEF kept, full, delta, text, much
    <3>3. IsPrefix(shown', content') /\ shown' \in Seq(Chars)
      BY <1>2, <2>1, <3>2
    <3> QED BY <2>1, <3>1, <3>3 DEF Received
  <2> HIDE DEF full, kept, text
  <2>6. CASE at' = "sink_failed" /\ shown' = content /\ usage' = usage /\ truncated' = truncated
    BY <1>1, <2>5, <2>6 DEF SinkFails, w, m
  <2>7. CASE /\ shown' = content' /\ truncated' = full
             /\ at' = IF full THEN "returned" ELSE then
             /\ usage' = IF full THEN usage ELSE UsageAfter(said)
    <3>1. CASE much
      <4>1. Returns(w)
        BY <1>3, <2>0, <2>1, <2>3, <2>7, <3>1 DEF Returns
      <4> QED BY <1>1, <2>5, <4>1 DEF w, m
    <3>2. CASE ~much
      <4>1. content' = text /\ truncated' = FALSE /\ at' = then /\ usage' = UsageAfter(said)
        <5> HIDE DEF much
        <5>1. full = FALSE
          BY <2>3, <3>2
        <5> QED BY <2>4, <2>7, <3>2, <5>1
      <4>2. w.line = <<>> /\ w.text = content' /\ w.usage = usage' /\ w.over = "no"
        BY <1>3, <1>11, <2>0, <3>2, <4>1
      <4>3. Bytes(content') < MaxBytes
        <5>1. Bytes(content') \in Nat
          BY <2>1, BytesStep
        <5> QED BY <1>0, <3>2, <4>1, <5>1
      <4>4. AllKept'
        BY <1>11, <2>1, <2>7, <4>1, <4>3 DEF AllKept
      <4>5. GoesOn(w, then)
        BY <1>4, <4>1, <4>2, <4>4 DEF GoesOn, Begun
      <4> QED BY <1>1, <2>5, <4>5 DEF w, m
    <3> QED BY <3>1, <3>2
  <2> QED BY <2>2, <2>6, <2>7
<1> QED
  BY <1>13, <1>14

(* The bytes waiting are the beginning of what comes after the text kept,  *)
(* and a read is made only when they are part of one line.                 *)
Waiting ==
  /\ at \in Reading =>
       /\ AllKept
       /\ whole = FoldLeft(WholeSymbol, Begun(content, usage), buf)
  /\ at = "read" => Unbroken(buf) /\ Len(buf) <= MaxLine

Outcome ==
  /\ at = "returned" =>
       /\ whole.over = "stop"
       /\ content = Fits(whole.text)
       /\ usage = whole.usage
       /\ content # whole.text => truncated
  /\ at = "too_long" => whole.over = "too_long"
  /\ at # "sink_failed" => shown = content

StreamInv ==
  /\ at \in Reading \cup Ended
  /\ buf \in Seq(Symbols)
  /\ Received
  /\ BufferBounded
  /\ Waiting
  /\ Outcome

Folds(w, s) == Folded(Meanings, Meaning, w, s)

LEMMA BegunFolds ==
  ASSUME NEW text \in Seq(Chars), NEW said \in Reports \cup {"none"}, NEW s \in Seq(Symbols)
  PROVE  /\ Begun(text, said) \in Meanings
         /\ FoldLeft(WholeSymbol, Begun(text, said), s) = Folds(Begun(text, said), s)
         /\ Folds(Begun(text, said), s) \in Meanings
<1>1. Begun(text, said) \in Meanings
  BY DEF Begun, Meanings
<1> DEFINE b == Begun(text, said)
<1> HIDE DEF b
<1>2. b \in Meanings
  BY <1>1 DEF b
<1>3. FoldLeft(WholeSymbol, b, s) = Folds(b, s)
  BY <1>2, WholeFolds DEF Folds
<1>4. Folds(b, s) \in Meanings
  BY <1>2, MeaningType, FoldedConcat DEF Folds, Foldable
<1> QED
  BY <1>1, <1>3, <1>4 DEF b

LEMMA FoldsConcat ==
  ASSUME NEW w \in Meanings, NEW s \in Seq(Symbols), NEW t \in Seq(Symbols)
  PROVE  Folds(w, s \o t) = Folds(Folds(w, s), t)
<1>1. Foldable(Meanings, Symbols, Meaning, w)
  BY MeaningType DEF Foldable
<1> QED
  BY <1>1, FoldedConcat DEF Folds

LEMMA StreamInitInv == StreamInit => StreamInv
<1> SUFFICES ASSUME StreamInit PROVE StreamInv
  OBVIOUS
<1> DEFINE none == <<>>
<1>1. none \in Seq(Symbols) /\ none \in Seq(Chars) /\ Len(none) = 0 /\ Unbroken(none)
  BY DEF Unbroken
<1>2. Bytes(none) = 0 /\ MaxBytes \in Nat \ {0} /\ MaxLine \in Nat /\ ReadChunk \in Nat
  BY BytesStep, StreamAssumption
<1>3. IsPrefix(none, none)
  <2> HIDE DEF none
  <2> QED BY <1>1, PrefixOfConcat
<1>4. /\ at = "read" /\ buf = none /\ content = none /\ shown = none /\ usage = "none"
      /\ truncated = FALSE /\ whole = Begun(none, "none")
  BY DEF StreamInit, NothingYet, Begun
<1>5. FoldLeft(WholeSymbol, Begun(none, "none"), none) = Begun(none, "none")
  <2>1. /\ Begun(none, "none") \in Meanings
        /\ FoldLeft(WholeSymbol, Begun(none, "none"), none) = Folds(Begun(none, "none"), none)
    <3> HIDE DEF none
    <3> QED BY <1>1, BegunFolds
  <2>2. Folds(Begun(none, "none"), <<>>) = Begun(none, "none")
    <3> HIDE DEF none
    <3> QED BY <2>1, MeaningType, FoldedEmpty DEF Folds, Foldable
  <2> QED BY <2>1, <2>2
<1> HIDE DEF none
<1>6. AllKept /\ Received
  <2>1. Bytes(content) = 0 /\ content \in Seq(Chars) /\ shown = content /\ IsPrefix(shown, content)
    BY <1>1, <1>2, <1>3, <1>4
  <2>2. Bytes(content) < MaxBytes /\ Bytes(content) <= MaxBytes
    BY <1>2, <2>1
  <2>3. usage \in Reports \cup {"none"} /\ truncated = FALSE
    BY <1>4
  <2> QED BY <2>1, <2>2, <2>3 DEF AllKept, Received
<1>7. BufferBounded /\ Waiting /\ Outcome
  BY <1>1, <1>2, <1>4, <1>5, <1>6 DEF BufferBounded, Waiting, Outcome
<1> QED
  BY <1>1, <1>4, <1>6, <1>7 DEF StreamInv, Reading

(* The state of a step that reads or takes lines. *)
LEMMA Underway ==
  ASSUME StreamInv, at \in Reading
  PROVE  /\ AllKept /\ Received /\ buf \in Seq(Symbols)
         /\ Begun(content, usage) \in Meanings
         /\ whole = Folds(Begun(content, usage), buf) /\ whole \in Meanings
         /\ Len(buf) \in Nat /\ Len(buf) <= MaxLine + ReadChunk
         /\ shown = content /\ content \in Seq(Chars) /\ usage \in Reports \cup {"none"}
         /\ truncated = FALSE
<1>1. AllKept /\ Received /\ buf \in Seq(Symbols) /\ whole = FoldLeft(WholeSymbol, Begun(content, usage), buf)
  BY DEF StreamInv, Waiting
<1>2. content \in Seq(Chars) /\ usage \in Reports \cup {"none"} /\ shown = content /\ truncated = FALSE
  BY <1>1 DEF AllKept
<1> QED
  BY <1>1, <1>2, BegunFolds, LenProperties DEF StreamInv, BufferBounded

LEMMA ReadInv == StreamInv /\ Read => StreamInv'
<1> SUFFICES ASSUME StreamInv, Read PROVE StreamInv'
  OBVIOUS
<1>1. at = "read" /\ at' = "lines" /\ UNCHANGED <<content, shown, usage, truncated>>
  BY DEF Read, received
<1>2. PICK n \in 1..ReadChunk : \E chunk \in [1..n -> Symbols] :
        buf' = buf \o chunk /\ whole' = FoldLeft(WholeSymbol, whole, chunk)
  BY DEF Read
<1>3. PICK chunk \in [1..n -> Symbols] :
        buf' = buf \o chunk /\ whole' = FoldLeft(WholeSymbol, whole, chunk)
  BY <1>2
<1>4. ReadChunk \in Nat /\ n \in Nat /\ n <= ReadChunk /\ MaxLine \in Nat
  BY StreamAssumption
<1>5. chunk \in Seq(Symbols) /\ Len(chunk) = n
  BY <1>4
<1>6. Len(buf) <= MaxLine
  BY <1>1 DEF StreamInv, Waiting
<1> DEFINE b == Begun(content, usage)
<1>7. /\ AllKept /\ Received /\ buf \in Seq(Symbols) /\ b \in Meanings /\ Len(buf) \in Nat
      /\ whole = Folds(b, buf) /\ whole \in Meanings
      /\ content \in Seq(Chars) /\ usage \in Reports \cup {"none"} /\ shown = content
  BY <1>1, Underway DEF Reading
<1>8. /\ buf' \in Seq(Symbols) /\ Len(buf') = Len(buf) + n
  BY <1>3, <1>5, <1>7, ConcatProperties
<1>9. whole' = Folds(b, buf')
  <2>1. whole' = Folds(whole, chunk)
    BY <1>3, <1>5, <1>7, WholeFolds DEF Folds
  <2> HIDE DEF b
  <2>2. Folds(b, buf \o chunk) = Folds(Folds(b, buf), chunk)
    BY <1>5, <1>7, FoldsConcat
  <2> QED BY <1>3, <1>7, <2>1, <2>2
<1>10. FoldLeft(WholeSymbol, b, buf') = Folds(b, buf')
  BY <1>7, <1>8, BegunFolds
<1>11. AllKept' /\ Received'
  BY <1>1, <1>7 DEF AllKept, Received
<1>12. Begun(content', usage') = b
  BY <1>1
<1>13. Waiting'
  <2> HIDE DEF b
  <2> QED BY <1>1, <1>9, <1>10, <1>11, <1>12 DEF Waiting
<1>14. BufferBounded'
  BY <1>4, <1>6, <1>7, <1>8 DEF BufferBounded
<1>15. Outcome'
  BY <1>1, <1>7 DEF Outcome
<1> QED
  BY <1>1, <1>8, <1>11, <1>13, <1>14, <1>15 DEF StreamInv, Reading

LEMMA FailReadInv == StreamInv /\ FailRead => StreamInv'
<1> SUFFICES ASSUME StreamInv, FailRead PROVE StreamInv'
  OBVIOUS
<1>1. at = "read" /\ at' \in {"timeout", "broken"} /\ UNCHANGED <<buf, content, shown, usage, truncated, whole>>
  BY DEF FailRead, received
<1>2. Received /\ buf \in Seq(Symbols) /\ BufferBounded /\ shown = content
  BY <1>1, Underway DEF StreamInv, Reading
<1>3. Received' /\ BufferBounded'
  BY <1>1, <1>2 DEF Received, BufferBounded
<1>4. Waiting' /\ Outcome'
  BY <1>1, <1>2 DEF Waiting, Outcome, Reading
<1> QED
  BY <1>1, <1>2, <1>3, <1>4 DEF StreamInv, Ended

LEMMA EndOfBodyInv == StreamInv /\ EndOfBody => StreamInv'
<1> SUFFICES ASSUME StreamInv, EndOfBody PROVE StreamInv'
  OBVIOUS
<1> DEFINE w == WholeLine(Within(buf, content, usage))
<1>1. at = "read" /\ buf' = <<>> /\ whole' = [WholeLine(whole) EXCEPT !.over = "stop"]
  BY DEF EndOfBody
<1>2. /\ AllKept /\ Received /\ buf \in Seq(Symbols) /\ content \in Seq(Chars)
      /\ usage \in Reports \cup {"none"} /\ shown = content /\ truncated = FALSE
      /\ whole = Folds(Begun(content, usage), buf)
  BY <1>1, Underway DEF Reading
<1>3. Unbroken(buf) /\ Len(buf) <= MaxLine
  BY <1>1 DEF StreamInv, Waiting
<1>4. whole = Within(buf, content, usage)
  BY <1>2, <1>3, LineFolds DEF Folds
<1>5. whole' = [w EXCEPT !.over = "stop"]
  BY <1>1, <1>4
<1>6. /\ Bytes(content) \in Nat /\ Bytes(content) < MaxBytes /\ MaxBytes \in Nat
      /\ NewLine \notin Deltas /\ Reports \subseteq Deltas
  BY <1>2, BytesStep, StreamAssumption DEF AllKept
<1>7. BufferBounded' /\ buf' \in Seq(Symbols)
  BY <1>1, StreamAssumption DEF BufferBounded
<1>8. CASE buf = <<>> /\ at' = "returned" /\ UNCHANGED received
  <2>1. content' = content /\ shown' = shown /\ usage' = usage /\ truncated' = truncated
    BY <1>8 DEF received
  <2>2. w.text = content /\ w.usage = usage
    <3> DEFINE m == Within(<<>>, content, usage)
    <3>1. m.line = <<>> /\ m.text = content /\ m.usage = usage /\ DOMAIN m = {"line", "text", "usage", "over"}
      BY DEF Within
    <3>2. Payload(<<>>) = NewLine
      BY DEF Payload
    <3> HIDE DEF m
    <3>3. WholeLine(m).text = content /\ WholeLine(m).usage = usage
      BY <1>6, <3>1, <3>2 DEF WholeLine
    <3> QED BY <1>8, <3>3 DEF m
  <2>3. w \in Meanings
    <3>1. Within(buf, content, usage) \in Meanings
      BY <1>2 DEF Within, Meanings
    <3> QED BY <3>1, WholeLineType
  <2> HIDE DEF w
  <2>4. whole'.over = "stop" /\ whole'.text = content /\ whole'.usage = usage
    BY <1>5, <2>2, <2>3 DEF Meanings
  <2>5. Fits(content) = content
    BY <1>2, <1>6, FitsAll
  <2>6. Outcome'
    BY <1>2, <1>8, <2>1, <2>4, <2>5 DEF Outcome
  <2>7. Received'
    BY <1>2, <2>1 DEF Received
  <2>8. Waiting'
    BY <1>8 DEF Waiting, Reading
  <2> QED BY <1>7, <1>8, <2>6, <2>7, <2>8 DEF StreamInv, Ended
<1>9. CASE buf # <<>> /\ Consume(buf, "returned")
  <2>1. w \in Meanings /\ Received' /\ (GoesOn(w, "returned") \/ Returns(w) \/ SinkFails)
    BY <1>2, <1>9, ConsumeMeans
  <2> HIDE DEF w
  <2>2. whole'.over = "stop" /\ whole'.text = w.text /\ whole'.usage = w.usage
    BY <1>5, <2>1 DEF Meanings
  <2>3. Outcome' /\ at' \in {"returned", "sink_failed"}
    <3>1. CASE GoesOn(w, "returned")
      <4>1. AllKept' /\ at' = "returned" /\ w = Begun(content', usage')
        BY <3>1 DEF GoesOn
      <4>2. content' \in Seq(Chars) /\ Bytes(content') <= MaxBytes /\ shown' = content'
        BY <2>1, <4>1 DEF AllKept, Received
      <4>3. Fits(content') = content'
        BY <4>2, FitsAll
      <4>4. w.text = content' /\ w.usage = usage'
        BY <4>1 DEF Begun
      <4> QED BY <2>2, <4>1, <4>2, <4>3, <4>4 DEF Outcome
    <3>2. CASE Returns(w)
      BY <2>2, <3>2 DEF Returns, Outcome
    <3>3. CASE SinkFails
      BY <3>3 DEF SinkFails, Outcome
    <3> QED BY <2>1, <3>1, <3>2, <3>3
  <2>4. Waiting'
    BY <2>3 DEF Waiting, Reading
  <2> QED BY <1>7, <2>1, <2>3, <2>4 DEF StreamInv, Ended
<1> QED
  BY <1>8, <1>9 DEF EndOfBody

LEMMA NextLineInv == StreamInv /\ NextLine => StreamInv'
<1> SUFFICES ASSUME StreamInv, NextLine PROVE StreamInv'
  OBVIOUS
<1> DEFINE e == EndOfLine
           line == SubSeq(buf, 1, e - 1)
           rest == SubSeq(buf, e + 1, Len(buf))
           w == WholeLine(Within(line, content, usage))
<1>1. /\ at = "lines" /\ e # 0 /\ e - 1 <= MaxLine
      /\ buf' = rest /\ Consume(line, "lines") /\ whole' = whole
  BY DEF NextLine
<1>2. /\ AllKept /\ Received /\ buf \in Seq(Symbols) /\ content \in Seq(Chars)
      /\ usage \in Reports \cup {"none"}
      /\ whole = Folds(Begun(content, usage), buf)
      /\ Len(buf) \in Nat /\ Len(buf) <= MaxLine + ReadChunk
  BY <1>1, Underway DEF Reading
<1>3. LineEnds(buf, e)
  BY <1>1, <1>2, EndOfLineIs
<1> HIDE DEF e
<1>4. /\ line \in Seq(Symbols) /\ Len(line) = e - 1 /\ Unbroken(line)
      /\ rest \in Seq(Symbols) /\ Len(rest) = Len(buf) - e
      /\ buf = (line \o <<NewLine>>) \o rest
  BY <1>2, <1>3, LineFound
<1>5. w \in Meanings /\ Received' /\ (GoesOn(w, "lines") \/ Returns(w) \/ SinkFails)
  <2> HIDE DEF line
  <2> QED BY <1>1, <1>2, <1>4, ConsumeMeans
<1>6. whole' = Folds(w, rest)
  <2>1. Len(line) <= MaxLine
    BY <1>1, <1>4
  <2> HIDE DEF line, rest
  <2> QED BY <1>1, <1>2, <1>4, <2>1, LineMeans DEF Folds
<1>7. BufferBounded' /\ buf' \in Seq(Symbols)
  <2>1. Len(buf') <= Len(buf) /\ Len(buf') \in Nat
    <3>1. e \in 1..Len(buf)
      BY <1>3 DEF LineEnds
    <3> HIDE DEF rest
    <3> QED BY <1>1, <1>2, <1>4, <3>1
  <2> HIDE DEF rest
  <2> QED BY <1>1, <1>2, <1>4, <2>1, StreamAssumption DEF BufferBounded
<1> HIDE DEF w, rest, line
<1>8. CASE GoesOn(w, "lines")
  <2>1. AllKept' /\ at' = "lines" /\ w = Begun(content', usage')
    BY <1>8 DEF GoesOn
  <2>2. content' \in Seq(Chars) /\ usage' \in Reports \cup {"none"} /\ shown' = content'
    BY <2>1 DEF AllKept
  <2>3. whole' = FoldLeft(WholeSymbol, Begun(content', usage'), buf')
    <3>1. buf' \in Seq(Symbols) /\ buf' = rest
      BY <1>1, <1>4
    <3> QED BY <1>6, <2>1, <2>2, <3>1, BegunFolds
  <2>4. Waiting' /\ Outcome'
    BY <2>1, <2>2, <2>3 DEF Waiting, Outcome
  <2> QED BY <1>5, <1>7, <2>1, <2>4 DEF StreamInv, Reading
<1>9. CASE Returns(w)
  <2>1. whole' = w
    <3>1. w.over # "no"
      BY <1>9 DEF Returns
    <3> QED BY <1>4, <1>5, <1>6, <3>1, Absorbed DEF Folds
  <2>2. Outcome' /\ Waiting'
    BY <1>9, <2>1 DEF Returns, Outcome, Waiting, Reading
  <2> QED BY <1>5, <1>7, <1>9, <2>2 DEF StreamInv, Ended, Returns
<1>10. CASE SinkFails
  <2>1. Outcome' /\ Waiting'
    BY <1>10 DEF SinkFails, Outcome, Waiting, Reading
  <2> QED BY <1>5, <1>7, <1>10, <2>1 DEF StreamInv, Ended, SinkFails
<1> QED
  BY <1>5, <1>8, <1>9, <1>10

LEMMA LongLineInv == StreamInv /\ LongLine => StreamInv'
<1> SUFFICES ASSUME StreamInv, LongLine PROVE StreamInv'
  OBVIOUS
<1> DEFINE e == EndOfLine
           line == SubSeq(buf, 1, e - 1)
           rest == SubSeq(buf, e + 1, Len(buf))
<1>1. /\ at = "lines" /\ e # 0 /\ e - 1 > MaxLine /\ at' = "too_long"
      /\ UNCHANGED <<buf, content, shown, usage, truncated, whole>>
  BY DEF LongLine, received
<1>2. /\ Received /\ buf \in Seq(Symbols) /\ content \in Seq(Chars) /\ shown = content
      /\ usage \in Reports \cup {"none"}
      /\ whole = Folds(Begun(content, usage), buf)
  BY <1>1, Underway DEF Reading
<1>3. LineEnds(buf, e)
  BY <1>1, <1>2, EndOfLineIs
<1> HIDE DEF e
<1>4. /\ line \in Seq(Symbols) /\ Len(line) = e - 1 /\ Unbroken(line)
      /\ rest \in Seq(Symbols) /\ buf = (line \o <<NewLine>>) \o rest
  BY <1>2, <1>3, LineFound
<1>5. whole.over = "too_long"
  <2>1. Len(line) > MaxLine
    BY <1>1, <1>4
  <2> HIDE DEF line, rest
  <2> QED BY <1>2, <1>4, <2>1, LineMeans DEF Folds
<1>6. Outcome' /\ Waiting'
  BY <1>1, <1>2, <1>5 DEF Outcome, Waiting, Reading
<1>7. Received' /\ BufferBounded'
  BY <1>1, <1>2 DEF StreamInv, Received, BufferBounded
<1> QED
  BY <1>1, <1>2, <1>6, <1>7 DEF StreamInv, Ended

LEMMA NeedMoreInv == StreamInv /\ NeedMore => StreamInv'
<1> SUFFICES ASSUME StreamInv, NeedMore PROVE StreamInv'
  OBVIOUS
<1>1. /\ at = "lines" /\ EndOfLine = 0 /\ at' = (IF Len(buf) > MaxLine THEN "too_long" ELSE "read")
      /\ UNCHANGED <<buf, content, shown, usage, truncated, whole>>
  BY DEF NeedMore, received
<1>2. /\ AllKept /\ Received /\ buf \in Seq(Symbols) /\ content \in Seq(Chars) /\ shown = content
      /\ usage \in Reports \cup {"none"} /\ Len(buf) \in Nat
      /\ whole = Folds(Begun(content, usage), buf)
      /\ whole = FoldLeft(WholeSymbol, Begun(content, usage), buf)
  BY <1>1, Underway DEF Reading, StreamInv, Waiting
<1>3. Unbroken(buf)
  BY <1>1, <1>2, EndOfLineIs
<1>4. Received' /\ BufferBounded' /\ AllKept'
  BY <1>1, <1>2 DEF StreamInv, Received, BufferBounded, AllKept
<1>5. CASE Len(buf) > MaxLine
  <2>1. whole.over = "too_long"
    BY <1>2, <1>3, <1>5, LongLineFolds DEF Folds
  <2>2. Outcome' /\ Waiting'
    BY <1>1, <1>2, <1>5, <2>1 DEF Outcome, Waiting, Reading
  <2> QED BY <1>1, <1>2, <1>4, <1>5, <2>2 DEF StreamInv, Ended
<1>6. CASE ~(Len(buf) > MaxLine)
  <2>1. Unbroken(buf') /\ Len(buf') <= MaxLine
    BY <1>1, <1>2, <1>3, <1>6, StreamAssumption
  <2>2. Outcome' /\ Waiting'
    BY <1>1, <1>2, <1>4, <1>6, <2>1 DEF Outcome, Waiting
  <2> QED BY <1>1, <1>2, <1>4, <1>6, <2>2 DEF StreamInv, Reading
<1> QED
  BY <1>5, <1>6

(* Whatever is read, wherever it is cut: the buffer and the text kept      *)
(* determine what the bytes so far mean.                                   *)
THEOREM StreamInvariant == StreamSpec => []StreamInv
<1>1. StreamInv /\ [StreamNext]_streamVars => StreamInv'
  <2> SUFFICES ASSUME StreamInv, [StreamNext]_streamVars PROVE StreamInv'
    OBVIOUS
  <2>1. CASE StreamNext
    BY <2>1, ReadInv, FailReadInv, EndOfBodyInv, NextLineInv, LongLineInv, NeedMoreInv
    DEF StreamNext
  <2>2. CASE UNCHANGED streamVars
    BY <2>2 DEF streamVars, received, StreamInv, Received, BufferBounded, Waiting, Outcome, AllKept
  <2> QED BY <2>1, <2>2
<1> QED
  BY StreamInitInv, <1>1, PTL DEF StreamSpec

LEMMA StreamInvImplies ==
  StreamInv => StreamTypeOK /\ AsWhole /\ ShownIsKept /\ BufferBounded
<1> SUFFICES ASSUME StreamInv PROVE StreamTypeOK /\ AsWhole /\ ShownIsKept /\ BufferBounded
  OBVIOUS
<1>1. Received /\ Waiting /\ Outcome /\ BufferBounded
  BY DEF StreamInv
<1>2. StreamTypeOK
  BY DEF StreamInv, Received, StreamTypeOK, Chars
<1>3. ShownIsKept
  BY <1>1 DEF Received, Waiting, AllKept, Outcome, ShownIsKept
<1>4. ASSUME at = "read"
      PROVE  buf = whole.line /\ content = whole.text /\ usage = whole.usage /\ ~truncated
  <2>1. /\ AllKept /\ buf \in Seq(Symbols) /\ content \in Seq(Chars) /\ usage \in Reports \cup {"none"}
        /\ whole = Folds(Begun(content, usage), buf)
    BY <1>4, Underway DEF Reading
  <2>2. whole = Within(buf, content, usage)
    BY <1>1, <1>4, <2>1, LineFolds DEF Folds, Waiting
  <2> QED BY <2>1, <2>2 DEF Within, AllKept
<1>5. AsWhole
  BY <1>1, <1>4 DEF AsWhole, Outcome
<1> QED
  BY <1>1, <1>2, <1>3, <1>5

(* _consume's variables are type correct for any body and any bounds.      *)
THEOREM StreamTypeCorrect == StreamSpec => []StreamTypeOK
  BY StreamInvariant, StreamInvImplies, PTL

(* The result of _consume is that of reading the body one symbol at a time *)
(* and cutting the whole text once at the cap: the reads' boundaries, the  *)
(* buffer and the truncation of each delta change nothing.                 *)
THEOREM ReadsAsWhole == StreamSpec => []AsWhole
  BY StreamInvariant, StreamInvImplies, PTL

(* The sink has seen what a result holds, within the cap, for any deltas,  *)
(* any cap and a sink that fails anywhere.                                 *)
THEOREM SinkSeesResult == StreamSpec => []ShownIsKept
  BY StreamInvariant, StreamInvImplies, PTL

(* The buffer stays within a line and a read, whatever the endpoint sends. *)
THEOREM BufferStaysBounded == StreamSpec => []BufferBounded
  BY StreamInvariant, StreamInvImplies, PTL

-----------------------------------------------------------------------------
(* Settings.                                                               *)

(* A layer holds what it can hold; the key looked at stays the same.       *)
SettingsInv ==
  /\ key \in Keys
  /\ setting \in [{"env", "repo", "global", "generic"} -> Values]
  /\ \A layer \in DOMAIN setting : setting[layer] \in Possible(layer)

LEMMA SettingsInitInv == SettingsInit => SettingsInv
  BY DEF SettingsInit, SettingsInv, Possible, Values

LEMMA SettingsNextInv == SettingsInv /\ [SettingsNext]_settingsVars => SettingsInv'
<1> SUFFICES ASSUME SettingsInv, [SettingsNext]_settingsVars PROVE SettingsInv'
  OBVIOUS
<1>1. CASE UNCHANGED settingsVars
  BY <1>1 DEF settingsVars, SettingsInv, Possible
<1>2. CASE SettingsNext
  <2>1. PICK layer \in DOMAIN setting : Edit(layer)
    BY <1>2 DEF SettingsNext
  <2>2. PICK value \in Possible(layer) : setting' = [setting EXCEPT ![layer] = value]
    BY <2>1 DEF Edit
  <2>3. key' = key /\ DOMAIN setting = {"env", "repo", "global", "generic"}
    BY <2>1 DEF Edit, SettingsInv
  <2>4. value \in Values
    BY <2>2 DEF Possible, Values
  <2>5. setting' \in [{"env", "repo", "global", "generic"} -> Values]
    BY <2>2, <2>3, <2>4 DEF SettingsInv
  <2>6. \A l \in DOMAIN setting' : setting'[l] \in Possible(l)
    BY <2>2, <2>3 DEF SettingsInv
  <2>7. \A l : Possible(l)' = Possible(l)
    BY <2>3 DEF Possible
  <2> QED BY <2>3, <2>5, <2>6, <2>7 DEF SettingsInv
<1> QED
  BY <1>1, <1>2

(* Every edit leaves in a layer what can be there.                         *)
THEOREM SettingsInvariant == SettingsSpec => []SettingsInv
  BY SettingsInitInv, SettingsNextInv, PTL DEF SettingsSpec

(* First, for the values s of the layers: the m-th is the first that counts. *)
Leads(s, layers, counting, m) ==
  /\ m \in DOMAIN layers
  /\ s[layers[m]] \in counting
  /\ \A j \in 1..(m - 1) : s[layers[j]] \notin counting

FirstIn(s, layers, counting, otherwise) ==
  LET there == {i \in DOMAIN layers : s[layers[i]] \in counting}
  IN IF there = {} THEN otherwise
     ELSE s[layers[CHOOSE i \in there : \A j \in there : i <= j]]

(* First finds nothing, or the first value that counts.                    *)
LEMMA Found ==
  ASSUME NEW s, NEW layers, NEW n \in Nat, DOMAIN layers = 1..n, NEW counting, NEW otherwise
  PROVE  \/ /\ \A j \in 1..n : s[layers[j]] \notin counting
            /\ FirstIn(s, layers, counting, otherwise) = otherwise
         \/ \E m \in 1..n :
              /\ Leads(s, layers, counting, m)
              /\ FirstIn(s, layers, counting, otherwise) = s[layers[m]]
<1> DEFINE there == {i \in DOMAIN layers : s[layers[i]] \in counting}
           least == CHOOSE i \in there : \A j \in there : i <= j
<1>1. CASE there = {}
  <2>1. \A j \in 1..n : s[layers[j]] \notin counting
    BY <1>1
  <2> QED BY <1>1, <2>1 DEF FirstIn
<1>2. CASE there # {}
  <2>1. \E m \in there : \A k \in there : m <= k
    <3>1. there \subseteq Nat
      OBVIOUS
    <3> HIDE DEF there
    <3> QED BY <1>2, <3>1, Smallest
  <2>2. least \in there /\ \A k \in there : least <= k
    <3> HIDE DEF there
    <3> QED BY <2>1
  <2>3. FirstIn(s, layers, counting, otherwise) = s[layers[least]]
    BY <1>2 DEF FirstIn
  <2> HIDE DEF least
  <2>4. least \in 1..n /\ s[layers[least]] \in counting
    BY <2>2
  <2>5. ASSUME NEW j \in 1..(least - 1) PROVE s[layers[j]] \notin counting
    <3>1. j \in 1..n /\ ~(least <= j)
      BY <2>4
    <3> QED BY <2>2, <3>1
  <2>6. Leads(s, layers, counting, least)
    BY <2>4, <2>5 DEF Leads
  <2> QED BY <2>3, <2>4, <2>6
<1> QED
  BY <1>1, <1>2

LEMMA OneLeads ==
  ASSUME NEW s, NEW layers, NEW n \in Nat, DOMAIN layers = 1..n, NEW counting,
         NEW m, NEW k, Leads(s, layers, counting, m), Leads(s, layers, counting, k)
  PROVE  m = k
<1>1. m \in 1..n /\ k \in 1..n
  BY DEF Leads
<1>2. ~(m \in 1..(k - 1)) /\ ~(k \in 1..(m - 1))
  BY DEF Leads
<1> QED
  BY <1>1, <1>2

Own == SubSeq(Layers, 1, 3)

(* The three lists of layers that the resolver goes through.               *)
LEMMA LayerLists ==
  /\ DOMAIN Layers = 1..4 /\ Len(Layers) = 4
  /\ Layers[1] = "env" /\ Layers[2] = "repo" /\ Layers[3] = "global" /\ Layers[4] = "generic"
  /\ DOMAIN Own = 1..3 /\ \A i \in 1..3 : Own[i] = Layers[i]
  /\ DOMAIN Tail(Own) = 1..2 /\ \A i \in 1..2 : Tail(Own)[i] = Layers[i + 1]
<1>1. /\ DOMAIN Layers = 1..4 /\ Len(Layers) = 4
      /\ Layers[1] = "env" /\ Layers[2] = "repo" /\ Layers[3] = "global" /\ Layers[4] = "generic"
  BY DEF Layers
<1> DEFINE N == {"env", "repo", "global", "generic"}
<1>2. \A i \in 1..4 : Layers[i] \in N
  <2>1. \A i \in 1..4 : i = 1 \/ i = 2 \/ i = 3 \/ i = 4
    OBVIOUS
  <2> QED BY <1>1, <2>1
<1> HIDE DEF N
<1>3. /\ Own \in Seq(N) /\ Len(Own) = 3
      /\ \A i \in 1..3 : Own[i] = Layers[i]
  <2>1. \A i \in 1..3 : Layers[i] \in N
    BY <1>2
  <2>2. /\ Own \in Seq(N) /\ Len(Own) = IF 1 <= 3 THEN 3 - 1 + 1 ELSE 0
        /\ \A i \in 1..(3 - 1 + 1) : Own[i] = Layers[1 + i - 1]
    BY <2>1, SubSeqProperties DEF Own
  <2>3. \A i \in 1..3 : i \in 1..(3 - 1 + 1) /\ 1 + i - 1 = i
    OBVIOUS
  <2>4. \A i \in 1..3 : Own[i] = Layers[i]
    BY <2>2, <2>3
  <2>5. Len(Own) = 3
    BY <2>2
  <2> QED BY <2>2, <2>4, <2>5
<1> HIDE DEF N
<1>4. DOMAIN Own = 1..3 /\ Own # <<>>
  BY <1>3, LenProperties
<1>5. /\ Tail(Own) \in Seq(N) /\ Len(Tail(Own)) = 2
      /\ \A i \in 1..2 : Tail(Own)[i] = Own[i + 1]
  <2> DEFINE own == Own
  <2>1. own \in Seq(N) /\ own # <<>> /\ Len(own) = 3
    BY <1>3, <1>4
  <2> HIDE DEF own
  <2>2. /\ Tail(own) \in Seq(N) /\ Len(Tail(own)) = Len(own) - 1
        /\ \A i \in 1..Len(Tail(own)) : Tail(own)[i] = own[i + 1]
    BY <2>1, HeadTailProperties
  <2>3. Len(Tail(own)) = 2
    BY <2>1, <2>2
  <2> QED BY <2>2, <2>3 DEF own
<1>6. \A i \in 1..2 : i + 1 \in 1..3
  OBVIOUS
<1>7. DOMAIN Tail(Own) = 1..2
  BY <1>5, LenProperties
<1> QED
  BY <1>1, <1>3, <1>4, <1>5, <1>6, <1>7

(* What the i-th layer holds.                                              *)
Held(i) == setting[Layers[i]]

LEMMA LayerValues ==
  ASSUME SettingsInv
  PROVE  /\ \A i \in 1..4 : Held(i) \in Values /\ Layers[i] \in DOMAIN setting
         /\ key \notin {"base_url", "api_key"} => Held(4) = "absent"
         /\ \A i \in 1..3 : setting[Own[i]] = Held(i)
         /\ \A i \in 1..2 : setting[Tail(Own)[i]] = Held(i + 1)
<1>1. \A i \in 1..4 : i = 1 \/ i = 2 \/ i = 3 \/ i = 4
  OBVIOUS
<1>2. DOMAIN setting = {"env", "repo", "global", "generic"}
  BY DEF SettingsInv
<1>3. \A i \in 1..4 : Held(i) \in Values /\ Layers[i] \in DOMAIN setting
  BY <1>1, <1>2, LayerLists DEF SettingsInv, Held
<1>4. ASSUME key \notin {"base_url", "api_key"} PROVE Held(4) = "absent"
  <2>1. setting["generic"] \in Possible("generic")
    BY <1>2 DEF SettingsInv
  <2> QED BY <1>4, <2>1, LayerLists DEF Held, Possible
<1> QED
  BY <1>3, <1>4, LayerLists DEF Held

(* How the resolver's tests of a value differ, and how not.                *)
LEMMA Kinds ==
  /\ \A v : Decisive(v) <=> v \in Truthy
  /\ \A v \in Values : v # "default" /\ Typed(v) = OfItsType(v)
  /\ Truthy \subseteq NotEmpty /\ NotEmpty \subseteq There
  /\ \A v \in Values : v \in NotEmpty /\ ~Decisive(v) => v = "falsy"
  /\ \A v \in Values : v \in There /\ ~Decisive(v) => v \in {"falsy", "empty"}
  /\ "empty" \in There
  /\ OfItsType("falsy") = "error" /\ OfItsType("empty") = "error"
  /\ "default" \notin There /\ ~Decisive("empty") /\ ~Decisive("absent")
  BY SettingsAssumption DEF Decisive, Truthy, NotEmpty, There, Values, Typed, OfItsType

(* Which of the resolver's loops a key goes through. *)
ResolvedIn(k, s) ==
  CASE k = "base_url" -> Typed(FirstIn(s, Layers, Truthy, "default"))
    [] k = "api_key" ->
         IF FirstIn(s, Layers, There, "default") = "empty" THEN "none"
         ELSE Typed(FirstIn(s, Layers, There, "default"))
    [] k = "stream" ->
         IF s["env"] \in NotEmpty THEN OfItsType(s["env"])
         ELSE Typed(FirstIn(s, Tail(Own), There, "default"))
    [] k = "transport" -> Typed(FirstIn(s, Own, Truthy, "default"))
    [] OTHER -> Typed(FirstIn(s, Own, NotEmpty, "default"))

LEMMA Resolves == Resolved = ResolvedIn(key, setting) /\ Resolved' = ResolvedIn(key', setting')
<1>1. \A layers, counting, otherwise :
        First(layers, counting, otherwise) = FirstIn(setting, layers, counting, otherwise)
  BY DEF First, FirstIn
<1>2. \A layers, counting, otherwise :
        First(layers, counting, otherwise)' = FirstIn(setting', layers, counting, otherwise)
  BY DEF First, FirstIn
<1>3. Resolved = ResolvedIn(key, setting)
  BY <1>1 DEF Resolved, ResolvedIn, Own, Url, ApiKey, Stream, Present
<1>4. Resolved' = ResolvedIn(key', setting')
  BY <1>2 DEF Resolved, ResolvedIn, Own, Url, ApiKey, Stream, Present
<1> QED
  BY <1>3, <1>4

Undecided(i) == \A j \in 1..(i - 1) : ~Decisive(Held(j))

Counts(s, layers, n, counting, i) ==
  n \in Nat /\ DOMAIN layers = 1..n /\ i \in 1..n /\ s[layers[i]] \in counting

(* If a layer's value counts, the one that leads is it or one above it. *)
LEMMA LeadsAbove ==
  ASSUME NEW s, NEW layers, NEW n, NEW counting, NEW otherwise, NEW i,
         Counts(s, layers, n, counting, i)
  PROVE  \E m \in 1..i :
           /\ Leads(s, layers, counting, m)
           /\ FirstIn(s, layers, counting, otherwise) = s[layers[m]]
<1>0. n \in Nat /\ DOMAIN layers = 1..n /\ i \in 1..n /\ s[layers[i]] \in counting
  BY DEF Counts
<1>1. PICK m \in 1..n :
        /\ Leads(s, layers, counting, m)
        /\ FirstIn(s, layers, counting, otherwise) = s[layers[m]]
  <2>1. ~ \A j \in 1..n : s[layers[j]] \notin counting
    BY <1>0
  <2> QED BY <1>0, <2>1, Found
<1>2. m \in 1..i
  <2>1. ~(i \in 1..(m - 1))
    BY <1>0, <1>1 DEF Leads
  <2> QED BY <1>0, <2>1
<1> QED
  BY <1>1, <1>2

(* One case for each way through the resolver.                             *)
LEMMA PrecedenceHolds == SettingsInv => Precedence
<1> SUFFICES ASSUME SettingsInv PROVE Precedence
  OBVIOUS
<1>0. /\ \A i \in 1..4 : Held(i) \in Values
      /\ key \notin {"base_url", "api_key"} => Held(4) = "absent"
      /\ \A i \in 1..3 : setting[Own[i]] = Held(i)
      /\ \A i \in 1..2 : setting[Tail(Own)[i]] = Held(i + 1)
      /\ setting["env"] = Held(1)
  BY LayerValues, LayerLists DEF Held
<1> SUFFICES ASSUME NEW i \in 1..4, Undecided(i),
                    \/ Decisive(Held(i))
                    \/ key = "api_key" /\ (Held(i) = "empty" \/ Above(i, "empty"))
             PROVE  LET malformed == Above(i, "falsy") \/ (key = "stream" /\ Above(i, "empty"))
                        removed == key = "api_key" /\ (Held(i) = "empty" \/ Above(i, "empty"))
                    IN \/ Resolved = IF removed THEN "none" ELSE OfItsType(Held(i))
                       \/ malformed /\ Resolved = "error"
  BY LayerLists DEF Precedence, Undecided, Held
<1>1. \A v, j : j \in 1..(i - 1) /\ Held(j) = v => Above(i, v)
  BY DEF Above, Held
<1>2. \A j \in 1..i : j \in 1..4 /\ (j = i \/ j \in 1..(i - 1))
  OBVIOUS
<1>3. ASSUME key # "api_key" PROVE Decisive(Held(i))
  BY <1>3
<1>4. CASE key = "base_url"
  <2>1. PICK m \in 1..i : Leads(setting, Layers, Truthy, m)
                          /\ FirstIn(setting, Layers, Truthy, "default") = Held(m)
    <3>1. Counts(setting, Layers, 4, Truthy, i)
      BY <1>3, <1>4, Kinds, LayerLists DEF Counts, Held
    <3> QED BY <3>1, LeadsAbove DEF Held
  <2>2. m = i
    <3>1. Decisive(Held(m))
      BY <2>1, Kinds DEF Leads, Held
    <3> QED BY <1>2, <3>1 DEF Undecided
  <2> QED BY <1>0, <1>4, <2>1, <2>2, Resolves, Kinds DEF ResolvedIn
<1>5. CASE key = "transport"
  <2>0. i \in 1..3
    <3>1. i # 4
      BY <1>0, <1>3, <1>5, Kinds
    <3> QED BY <3>1
  <2>1. PICK m \in 1..i : Leads(setting, Own, Truthy, m)
                          /\ FirstIn(setting, Own, Truthy, "default") = setting[Own[m]]
    <3>1. Counts(setting, Own, 3, Truthy, i)
      BY <1>0, <1>3, <1>5, <2>0, Kinds, LayerLists DEF Counts
    <3> QED BY <3>1, LeadsAbove
  <2>2. m \in 1..3 /\ setting[Own[m]] = Held(m)
    BY <1>0, <2>0
  <2>3. m = i
    <3>1. Decisive(Held(m))
      BY <2>1, <2>2, Kinds DEF Leads
    <3> QED BY <1>2, <3>1 DEF Undecided
  <2> QED BY <1>0, <1>5, <2>1, <2>2, <2>3, Resolves, Kinds DEF ResolvedIn
<1>6. CASE key \notin {"base_url", "api_key", "stream", "transport"}
  <2>0. i \in 1..3
    <3>1. i # 4
      BY <1>0, <1>3, <1>6, Kinds
    <3> QED BY <3>1
  <2>1. PICK m \in 1..i : Leads(setting, Own, NotEmpty, m)
                          /\ FirstIn(setting, Own, NotEmpty, "default") = setting[Own[m]]
    <3>1. Counts(setting, Own, 3, NotEmpty, i)
      BY <1>0, <1>3, <1>6, <2>0, Kinds, LayerLists DEF Counts
    <3> QED BY <3>1, LeadsAbove
  <2>2. m \in 1..3 /\ setting[Own[m]] = Held(m) /\ Held(m) \in NotEmpty
    BY <1>0, <2>0, <2>1 DEF Leads
  <2>3. Resolved = OfItsType(Held(m))
    BY <1>0, <1>2, <1>6, <2>1, <2>2, Resolves, Kinds DEF ResolvedIn
  <2>4. CASE m = i
    BY <1>6, <2>3, <2>4
  <2>5. CASE m \in 1..(i - 1)
    <3>1. Held(m) = "falsy"
      BY <1>0, <1>2, <2>2, <2>5, Kinds DEF Undecided
    <3> QED BY <1>1, <2>3, <2>5, <3>1, Kinds
  <2> QED BY <1>2, <2>4, <2>5
<1>7. CASE key = "stream"
  <2>0. i \in 1..3 /\ Decisive(Held(i))
    <3>1. i # 4
      BY <1>0, <1>3, <1>7, Kinds
    <3> QED BY <1>3, <1>7, <3>1
  <2>1. CASE Held(1) \in NotEmpty
    <3>1. Resolved = OfItsType(Held(1))
      BY <1>0, <1>7, <2>1, Resolves DEF ResolvedIn
    <3>2. CASE i = 1
      BY <1>7, <3>1, <3>2
    <3>3. CASE i # 1
      <4>1. 1 \in 1..(i - 1)
        BY <3>3
      <4>2. Held(1) = "falsy"
        BY <1>0, <2>1, <4>1, Kinds DEF Undecided
      <4> QED BY <1>1, <3>1, <4>1, <4>2, Kinds
    <3> QED BY <3>2, <3>3
  <2>2. CASE Held(1) \notin NotEmpty
    <3> DEFINE k == i - 1
    <3>1. k \in 1..2 /\ k + 1 = i
      <4>1. i # 1
        BY <2>0, <2>2, Kinds
      <4> QED BY <2>0, <4>1
    <3> HIDE DEF k
    <3>2. PICK m \in 1..k : Leads(setting, Tail(Own), There, m)
                            /\ FirstIn(setting, Tail(Own), There, "default") = setting[Tail(Own)[m]]
      <4>1. Counts(setting, Tail(Own), 2, There, k)
        BY <1>0, <2>0, <3>1, Kinds, LayerLists DEF Counts
      <4> DEFINE tail == Tail(Own)
      <4>2. Counts(setting, tail, 2, There, k)
        BY <4>1
      <4> HIDE DEF tail
      <4>3. \E m \in 1..k : Leads(setting, tail, There, m)
                            /\ FirstIn(setting, tail, There, "default") = setting[tail[m]]
        BY <4>2, LeadsAbove
      <4> QED BY <4>3 DEF tail
    <3>3. m \in 1..2 /\ m + 1 \in 1..4 /\ setting[Tail(Own)[m]] = Held(m + 1) /\ Held(m + 1) \in There
      BY <1>0, <3>1, <3>2 DEF Leads
    <3>4. Resolved = OfItsType(Held(m + 1))
      BY <1>0, <1>7, <2>2, <3>2, <3>3, Resolves, Kinds DEF ResolvedIn
    <3>5. CASE m = k
      BY <1>7, <3>1, <3>4, <3>5
    <3>6. CASE m # k
      <4>1. m + 1 \in 1..(i - 1)
        BY <3>1, <3>3, <3>2, <3>6
      <4>2. Held(m + 1) \in {"falsy", "empty"}
        BY <1>0, <3>3, <4>1, Kinds DEF Undecided
      <4> QED BY <1>1, <1>7, <3>4, <4>1, <4>2, Kinds
    <3> QED BY <3>5, <3>6
  <2> QED BY <2>1, <2>2
<1>8. CASE key = "api_key"
  <2>1. \E j \in 1..i : Held(j) \in There
    <3>1. CASE Decisive(Held(i)) \/ Held(i) = "empty"
      <4>1. Held(i) \in There
        BY <3>1, Kinds
      <4> QED BY <4>1
    <3>2. CASE Above(i, "empty")
      <4>1. PICK j \in 1..(i - 1) : Held(j) = "empty"
        BY <3>2 DEF Above, Held
      <4>2. j \in 1..i
        OBVIOUS
      <4> QED BY <4>1, <4>2, Kinds
    <3> QED BY <3>1, <3>2
  <2>2. PICK m \in 1..i : Leads(setting, Layers, There, m)
                          /\ FirstIn(setting, Layers, There, "default") = Held(m)
    <3>1. PICK j \in 1..i : Held(j) \in There
      BY <2>1
    <3>2. j \in 1..4
      BY <1>2
    <3>3. PICK m \in 1..j : Leads(setting, Layers, There, m)
                            /\ FirstIn(setting, Layers, There, "default") = Held(m)
      <4>1. Counts(setting, Layers, 4, There, j)
        BY <3>1, <3>2, LayerLists DEF Counts, Held
      <4> QED BY <4>1, LeadsAbove DEF Held
    <3>4. m \in 1..i
      BY <3>2
    <3> QED BY <3>3, <3>4
  <2>3. Held(m) \in There /\ Held(m) \in Values /\ \A j \in 1..(m - 1) : Held(j) \notin There
    BY <1>0, <1>2, <2>2 DEF Leads, Held
  <2>4. Resolved = IF Held(m) = "empty" THEN "none" ELSE OfItsType(Held(m))
    BY <1>8, <2>2, <2>3, Resolves, Kinds DEF ResolvedIn
  <2>5. CASE m \in 1..(i - 1)
    <3>1. Held(m) \in {"falsy", "empty"}
      BY <2>3, <2>5, Kinds DEF Undecided
    <3>2. Above(i, Held(m))
      BY <1>1, <2>5
    <3> QED BY <1>8, <2>4, <3>1, <3>2, Kinds
  <2>6. CASE m = i
    <3>1. ~Above(i, "empty")
      BY <2>3, <2>6, Kinds DEF Above, Held
    <3> QED BY <1>8, <2>4, <2>6, <3>1, Kinds
  <2> QED BY <1>2, <2>5, <2>6
<1> QED
  BY <1>4, <1>5, <1>6, <1>7, <1>8

LEMMA TypeHolds == SettingsInv => SettingsTypeOK
<1> SUFFICES ASSUME SettingsInv PROVE Resolved \in Good \cup {"default", "none", "error"}
  BY DEF SettingsInv, SettingsTypeOK
<1>1. \A v : OfItsType(v) \in Good \cup {"default", "none", "error"}
  BY DEF OfItsType
<1>2. \A v : Typed(v) \in Good \cup {"default", "none", "error"}
  BY <1>1 DEF Typed
<1> QED
  BY <1>1, <1>2, Resolves DEF ResolvedIn

(* What First finds depends on nothing below a layer whose value counts. *)
LEMMA FoundAbove ==
  ASSUME NEW s, NEW t, NEW layers, NEW n, NEW counting, NEW otherwise, NEW i,
         Counts(s, layers, n, counting, i),
         \A j \in 1..i : t[layers[j]] = s[layers[j]]
  PROVE  FirstIn(t, layers, counting, otherwise) = FirstIn(s, layers, counting, otherwise)
<1>0. n \in Nat /\ DOMAIN layers = 1..n /\ i \in 1..n /\ s[layers[i]] \in counting
  BY DEF Counts
<1>1. PICK m \in 1..i :
        Leads(s, layers, counting, m) /\ FirstIn(s, layers, counting, otherwise) = s[layers[m]]
  BY LeadsAbove
<1>2. Counts(t, layers, n, counting, i)
  <2>1. i \in 1..i
    BY <1>0
  <2> QED BY <1>0, <2>1 DEF Counts
<1>3. PICK k \in 1..i :
        Leads(t, layers, counting, k) /\ FirstIn(t, layers, counting, otherwise) = t[layers[k]]
  BY <1>2, LeadsAbove
<1>4. Leads(t, layers, counting, m)
  <2>1. \A j \in 1..(m - 1) : j \in 1..i
    BY <1>0
  <2> QED BY <1>1, <2>1 DEF Leads
<1>5. k = m
  BY <1>0, <1>3, <1>4, OneLeads
<1> QED
  BY <1>1, <1>3, <1>5

LEMMA ShadowedHolds ==
  SettingsInv /\ [SettingsNext]_settingsVars =>
    \A i \in 1..Len(Layers) :
      /\ Decisive(setting[Layers[i]])
      /\ \A j \in 1..i : setting'[Layers[j]] = setting[Layers[j]]
      => Resolved' = Resolved
<1> SUFFICES ASSUME SettingsInv, [SettingsNext]_settingsVars, NEW i \in 1..4, Decisive(Held(i)),
                    \A j \in 1..i : setting'[Layers[j]] = setting[Layers[j]]
             PROVE  Resolved' = Resolved
  BY LayerLists DEF Held
<1>0. /\ \A j \in 1..4 : Held(j) \in Values
      /\ key \notin {"base_url", "api_key"} => Held(4) = "absent"
      /\ \A j \in 1..3 : setting[Own[j]] = Held(j)
      /\ \A j \in 1..2 : setting[Tail(Own)[j]] = Held(j + 1)
      /\ setting["env"] = Held(1)
  BY LayerValues, LayerLists DEF Held
<1>1. key' = key
  BY DEF SettingsNext, Edit, settingsVars
<1>2. Held(i) \in Truthy /\ Held(i) \in NotEmpty /\ Held(i) \in There
  BY Kinds
<1>3. key \notin {"base_url", "api_key"} => i \in 1..3
  <2>1. key \notin {"base_url", "api_key"} => i # 4
    BY <1>0, Kinds
  <2> QED BY <2>1
<1>4. \A counting : Held(i) \in counting =>
        FirstIn(setting', Layers, counting, "default") = FirstIn(setting, Layers, counting, "default")
  <2> SUFFICES ASSUME NEW counting, Held(i) \in counting
               PROVE  FirstIn(setting', Layers, counting, "default") = FirstIn(setting, Layers, counting, "default")
    OBVIOUS
  <2>1. Counts(setting, Layers, 4, counting, i)
    BY LayerLists DEF Counts, Held
  <2> QED BY <2>1, FoundAbove
<1>5. ASSUME i \in 1..3
      PROVE  \A counting : Held(i) \in counting =>
               FirstIn(setting', Own, counting, "default") = FirstIn(setting, Own, counting, "default")
  <2> SUFFICES ASSUME NEW counting, Held(i) \in counting
               PROVE  FirstIn(setting', Own, counting, "default") = FirstIn(setting, Own, counting, "default")
    OBVIOUS
  <2>1. Counts(setting, Own, 3, counting, i)
    BY <1>0, <1>5, LayerLists DEF Counts
  <2>2. \A j \in 1..i : setting'[Own[j]] = setting[Own[j]]
    <3>1. \A j \in 1..i : j \in 1..3
      BY <1>5
    <3> QED BY <3>1, LayerLists
  <2> QED BY <2>1, <2>2, FoundAbove
<1>6. CASE key \notin {"base_url", "api_key", "stream"}
  BY <1>1, <1>2, <1>3, <1>5, <1>6, Resolves DEF ResolvedIn
<1>7. CASE key \in {"base_url", "api_key"}
  BY <1>1, <1>2, <1>4, <1>7, Resolves DEF ResolvedIn
<1>8. CASE key = "stream"
  <2>1. i \in 1..3 /\ setting'["env"] = setting["env"]
    <3>1. 1 \in 1..i
      OBVIOUS
    <3> QED BY <1>3, <1>8, <3>1, LayerLists
  <2>2. CASE setting["env"] \in NotEmpty
    BY <1>1, <1>8, <2>1, <2>2, Resolves DEF ResolvedIn
  <2>3. CASE setting["env"] \notin NotEmpty
    <3> DEFINE k == i - 1
    <3>1. k \in 1..2 /\ k + 1 = i
      <4>1. i # 1
        BY <1>0, <1>2, <2>3
      <4> QED BY <2>1, <4>1
    <3> HIDE DEF k
    <3>2. Counts(setting, Tail(Own), 2, There, k)
      BY <1>0, <1>2, <3>1, LayerLists DEF Counts
    <3>3. \A j \in 1..k : setting'[Tail(Own)[j]] = setting[Tail(Own)[j]]
      <4>1. \A j \in 1..k : j + 1 \in 1..i /\ j \in 1..2
        BY <3>1
      <4> QED BY <4>1, LayerLists
    <3>4. FirstIn(setting', Tail(Own), There, "default") = FirstIn(setting, Tail(Own), There, "default")
      <4> DEFINE tail == Tail(Own)
      <4>1. Counts(setting, tail, 2, There, k) /\ \A j \in 1..k : setting'[tail[j]] = setting[tail[j]]
        BY <3>2, <3>3
      <4> HIDE DEF tail
      <4>2. FirstIn(setting', tail, There, "default") = FirstIn(setting, tail, There, "default")
        BY <4>1, FoundAbove
      <4> QED BY <4>2 DEF tail
    <3> QED BY <1>1, <1>8, <2>1, <2>3, <3>4, Resolves DEF ResolvedIn
  <2> QED BY <2>2, <2>3
<1> QED
  BY <1>6, <1>7, <1>8

(* A key resolves to a value of its own, the default or none, or fails.    *)
THEOREM SettingsTypeCorrect == SettingsSpec => []SettingsTypeOK
  BY SettingsInvariant, TypeHolds, PTL

(* The first layer that sets a key decides, an empty API key above it      *)
(* removes it, and only a malformed value above it can fail instead, for   *)
(* any values a key may have.                                              *)
THEOREM LayersDecide == SettingsSpec => []Precedence
  BY SettingsInvariant, PrecedenceHolds, PTL

(* Below the layer that decides, no edit changes what a key resolves to.   *)
THEOREM ShadowedNeverRead == SettingsSpec => ShadowedIsUnread
<1>1. SettingsInv /\ [SettingsNext]_settingsVars =>
        [\A i \in 1..Len(Layers) :
           /\ Decisive(setting[Layers[i]])
           /\ \A j \in 1..i : setting'[Layers[j]] = setting[Layers[j]]
           => Resolved' = Resolved]_settingsVars
  BY ShadowedHolds
<1> QED
  BY <1>1, SettingsInvariant, PTL DEF SettingsSpec, ShadowedIsUnread
===============================================================================
