--------------------------- MODULE SequenceLemmas ---------------------------
(***************************************************************************)
(* Facts about the operators of SequencesExt that the models of the server *)
(* are written with: prefixes, the least element of a set, the             *)
(* concatenation of a sequence of sequences, and the first occurrence of   *)
(* one sequence in another.                                                *)
(***************************************************************************)
EXTENDS Integers, SequencesExt, SequenceTheorems, NaturalsInduction,
        WellFoundedInduction, TLAPS

-----------------------------------------------------------------------------
(* Induction over a set instead of a predicate *)

\* Every set of naturals that is not empty has a least element.
LEMMA LeastElement ==
  ASSUME NEW T \in SUBSET Nat, T # {}
  PROVE  \E x \in T : \A y \in T : x <= y
<1>1. IsWellFoundedOn(OpToRel(<, Nat), Nat)
  BY NatLessThanWellFounded
<1>2. PICK x \in T : \A y \in T : ~(<<y, x>> \in OpToRel(<, Nat))
  BY <1>1, WFMin, Zenon
<1>3. \A y \in T : ~(y < x)
  BY <1>2 DEF OpToRel
<1>4. QED
  BY <1>3

LEMMA MinIsLeast ==
  ASSUME NEW T \in SUBSET Nat, T # {}
  PROVE  Min(T) \in T /\ \A y \in T : Min(T) <= y
BY LeastElement DEF Min

\* A set that holds 0 and is closed under successors below n holds n.
LEMMA SetInduction ==
  ASSUME NEW n \in Nat, NEW T, 0 \in T, \A i \in 0..(n - 1) : i \in T => i + 1 \in T
  PROVE  \A i \in 0..n : i \in T
<1> DEFINE U == {i \in 0..n : i \notin T}
<1> SUFFICES ASSUME U # {} PROVE FALSE
  OBVIOUS
<1>1. PICK x \in U : \A y \in U : x <= y
  <2>1. U \in SUBSET Nat
    OBVIOUS
  <2>2. QED
    BY <2>1, LeastElement, Zenon
<1>2. x - 1 \in 0..(n - 1) /\ x - 1 \notin U
  BY <1>1
<1>3. QED
  BY <1>2

-----------------------------------------------------------------------------
(* Concatenations *)

LEMMA ConcatAt ==
  ASSUME NEW S, NEW s \in Seq(S), NEW t \in Seq(S)
  PROVE  /\ s \o t \in Seq(S) /\ Len(s) \in Nat /\ Len(t) \in Nat
         /\ Len(s \o t) = Len(s) + Len(t)
         /\ \A i \in 1..Len(s) : (s \o t)[i] = s[i]
         /\ \A i \in 1..Len(t) : (s \o t)[Len(s) + i] = t[i]
<1>1. s \o t \in Seq(S) /\ Len(s \o t) = Len(s) + Len(t)
  BY ConcatProperties
<1>2. Len(s) \in Nat /\ Len(t) \in Nat
  OBVIOUS
<1>3. ASSUME NEW i \in 1..Len(s) PROVE (s \o t)[i] = s[i]
  BY ConcatProperties
<1>4. ASSUME NEW i \in 1..Len(t) PROVE (s \o t)[Len(s) + i] = t[i]
  OBVIOUS
<1>5. QED
  BY <1>1, <1>2, <1>3, <1>4

\* A sequence between two elements and one, index by index.
LEMMA WrappedAt ==
  ASSUME NEW S, NEW a \in S, NEW b \in S, NEW c \in S, NEW p \in Seq(S)
  PROVE  LET w == <<a, b>> \o p \o <<c>>
         IN /\ w \in Seq(S) /\ Len(p) \in Nat /\ Len(w) = Len(p) + 3
            /\ w[1] = a /\ w[2] = b /\ w[Len(p) + 3] = c
            /\ \A i \in 1..Len(p) : w[i + 2] = p[i]
<1>1. PICK n \in Nat : n = Len(p)
  OBVIOUS
<1>2. PICK e \in Seq(S) : e = <<a, b>> /\ Len(e) = 2 /\ e[1] = a /\ e[2] = b
  <2>1. <<a, b>> \in Seq(S)
    OBVIOUS
  <2>2. QED
    BY <2>1
<1>3. PICK d \in Seq(S) : d = <<c>> /\ Len(d) = 1 /\ d[1] = c
  <2>1. <<c>> \in Seq(S)
    OBVIOUS
  <2>2. QED
    BY <2>1
<1>4. PICK t \in Seq(S) : t = e \o p
  BY ConcatProperties
<1>5. Len(t) = n + 2 /\ t[1] = a /\ t[2] = b /\ \A i \in 1..n : t[i + 2] = p[i]
  BY <1>1, <1>2, <1>4
<1>6. PICK w \in Seq(S) : w = t \o d
  BY ConcatProperties
<1>7. Len(w) = n + 3 /\ w[n + 3] = c /\ \A i \in 1..(n + 2) : w[i] = t[i]
  BY <1>1, <1>3, <1>5, <1>6
<1>8. w[1] = a /\ w[2] = b
  BY <1>5, <1>7
<1>9. ASSUME NEW i \in 1..n PROVE w[i + 2] = p[i]
  BY <1>5, <1>7
<1>10. w = <<a, b>> \o p \o <<c>>
  BY <1>2, <1>3, <1>4, <1>6
<1>11. QED
  BY <1>1, <1>7, <1>8, <1>9, <1>10

LEMMA FollowedAt ==
  ASSUME NEW S, NEW c \in S, NEW p \in Seq(S)
  PROVE  LET w == p \o <<c>>
         IN /\ w \in Seq(S) /\ Len(w) = Len(p) + 1 /\ w[Len(p) + 1] = c
            /\ \A i \in 1..Len(p) : w[i] = p[i]
<1>1. PICK d \in Seq(S) : d = <<c>> /\ Len(d) = 1 /\ d[1] = c
  <2>1. <<c>> \in Seq(S)
    OBVIOUS
  <2>2. QED
    BY <2>1
<1>2. PICK w \in Seq(S) : w = p \o d
  BY ConcatProperties
<1>3. Len(w) = Len(p) + 1 /\ w[Len(p) + 1] = c /\ \A i \in 1..Len(p) : w[i] = p[i]
  BY <1>1, <1>2
<1>4. QED
  BY <1>1, <1>2, <1>3

LEMMA PrecededAt ==
  ASSUME NEW S, NEW c \in S, NEW p \in Seq(S)
  PROVE  LET w == <<c>> \o p
         IN /\ w \in Seq(S) /\ Len(w) = Len(p) + 1 /\ w[1] = c
            /\ \A i \in 1..Len(p) : w[i + 1] = p[i]
<1>1. PICK d \in Seq(S) : d = <<c>> /\ Len(d) = 1 /\ d[1] = c
  <2>1. <<c>> \in Seq(S)
    OBVIOUS
  <2>2. QED
    BY <2>1
<1>2. PICK w \in Seq(S) : w = d \o p
  BY ConcatProperties
<1>3. Len(w) = Len(p) + 1 /\ w[1] = c /\ \A i \in 1..Len(p) : w[i + 1] = p[i]
  BY <1>1, <1>2
<1>4. QED
  BY <1>1, <1>2, <1>3

LEMMA FollowedTwice ==
  ASSUME NEW S, NEW c \in S, NEW d \in S, NEW p \in Seq(S)
  PROVE  p \o <<c, d>> = (p \o <<c>>) \o <<d>>
<1>1. PICK n \in Nat : n = Len(p)
  OBVIOUS
<1>2. PICK e \in Seq(S) : e = <<c, d>> /\ Len(e) = 2 /\ e[1] = c /\ e[2] = d
  <2>1. <<c, d>> \in Seq(S)
    OBVIOUS
  <2>2. QED
    BY <2>1
<1>3. PICK u \in Seq(S) : /\ u = p \o <<c>> /\ Len(u) = n + 1 /\ u[n + 1] = c
                          /\ \A i \in 1..n : u[i] = p[i]
  <2>1. LET u == p \o <<c>>
        IN /\ u \in Seq(S) /\ Len(u) = Len(p) + 1 /\ u[Len(p) + 1] = c
           /\ \A i \in 1..Len(p) : u[i] = p[i]
    BY FollowedAt
  <2>2. QED
    BY <1>1, <2>1, Zenon
<1>4. PICK v \in Seq(S) : /\ v = u \o <<d>> /\ Len(v) = Len(u) + 1 /\ v[Len(u) + 1] = d
                          /\ \A i \in 1..Len(u) : v[i] = u[i]
  <2>1. LET v == u \o <<d>>
        IN /\ v \in Seq(S) /\ Len(v) = Len(u) + 1 /\ v[Len(u) + 1] = d
           /\ \A i \in 1..Len(u) : v[i] = u[i]
    BY FollowedAt
  <2>2. QED
    BY <2>1, Zenon
<1>5. PICK w \in Seq(S) : w = p \o e
  BY ConcatProperties
<1>6. /\ Len(w) = n + 2 /\ w[n + 1] = c /\ w[n + 2] = d
      /\ \A i \in 1..n : w[i] = p[i]
  BY <1>1, <1>2, <1>5
<1>7. /\ Len(v) = n + 2 /\ v[n + 1] = c /\ v[n + 2] = d
      /\ \A i \in 1..n : v[i] = p[i]
  <2>1. Len(u) + 1 = n + 2 /\ n + 1 \in 1..Len(u) /\ \A i \in 1..n : i \in 1..Len(u)
    BY <1>3
  <2>2. QED
    BY <1>3, <1>4, <2>1
<1>8. ASSUME NEW i \in 1..(n + 2) PROVE v[i] = w[i]
  <2>1. i \in 1..n \/ i = n + 1 \/ i = n + 2
    OBVIOUS
  <2>2. QED
    BY <1>6, <1>7, <2>1
<1>9. v = w
  BY <1>6, <1>7, <1>8, SeqEqual
<1>10. QED
  BY <1>2, <1>3, <1>4, <1>5, <1>9

-----------------------------------------------------------------------------
(* Prefixes *)

LEMMA PrefixMeans ==
  ASSUME NEW S, NEW s \in Seq(S), NEW t \in Seq(S)
  PROVE  IsPrefix(s, t) <=> Len(s) <= Len(t) /\ \A i \in 1..Len(s) : s[i] = t[i]
BY DEF IsPrefix

LEMMA PrefixIntro ==
  ASSUME NEW S, NEW s \in Seq(S), NEW t \in Seq(S),
         Len(s) <= Len(t), \A i \in 1..Len(s) : s[i] = t[i]
  PROVE  IsPrefix(s, t)
BY PrefixMeans

\* Two prefixes of a sequence are prefixes of each other.
LEMMA PrefixesNested ==
  ASSUME NEW S, NEW s \in Seq(S), NEW t \in Seq(S), NEW u \in Seq(S),
         IsPrefix(s, u), IsPrefix(t, u)
  PROVE  IsPrefix(s, t) \/ IsPrefix(t, s)
BY PrefixMeans

LEMMA PrefixOfConcat ==
  ASSUME NEW S, NEW s \in Seq(S), NEW t \in Seq(S), NEW u \in Seq(S)
  PROVE  IsPrefix(u \o s, u \o t) <=> IsPrefix(s, t)
<1> DEFINE n == Len(u)
<1>1. PICK us \in Seq(S) : us = u \o s
  BY ConcatProperties
<1>2. PICK ut \in Seq(S) : ut = u \o t
  BY ConcatProperties
<1>3. /\ n \in Nat /\ Len(us) = n + Len(s) /\ Len(ut) = n + Len(t)
      /\ \A i \in 1..n : us[i] = u[i] /\ ut[i] = u[i]
      /\ \A i \in 1..Len(s) : us[n + i] = s[i]
      /\ \A i \in 1..Len(t) : ut[n + i] = t[i]
  BY <1>1, <1>2
<1> HIDE DEF n
<1>4. ASSUME IsPrefix(us, ut)
      PROVE  IsPrefix(s, t)
  <2>1. Len(us) <= Len(ut) /\ \A i \in 1..Len(us) : us[i] = ut[i]
    BY <1>4, PrefixMeans
  <2>2. Len(s) <= Len(t)
    BY <2>1, <1>3
  <2>3. ASSUME NEW i \in 1..Len(s) PROVE s[i] = t[i]
    <3>1. n + i \in 1..Len(us) /\ i \in 1..Len(t)
      BY <1>3, <2>2
    <3>2. QED
      BY <3>1, <2>1, <1>3
  <2>4. QED
    BY <2>2, <2>3, PrefixMeans
<1>5. ASSUME IsPrefix(s, t)
      PROVE  IsPrefix(us, ut)
  <2>1. Len(s) <= Len(t) /\ \A i \in 1..Len(s) : s[i] = t[i]
    BY <1>5, PrefixMeans
  <2>2. Len(us) <= Len(ut)
    BY <2>1, <1>3
  <2>3. ASSUME NEW i \in 1..Len(us) PROVE us[i] = ut[i]
    <3>1. CASE i <= n
      BY <3>1, <1>3
    <3>2. CASE i > n
      <4>1. i - n \in 1..Len(s) /\ i - n \in 1..Len(t) /\ i = n + (i - n)
        BY <3>2, <1>3, <2>1
      <4>2. us[n + (i - n)] = ut[n + (i - n)]
        BY <4>1, <1>3, <2>1
      <4>3. QED
        BY <4>1, <4>2
    <3>3. QED
      BY <3>1, <3>2, <1>3
  <2>4. QED
    BY <2>2, <2>3, PrefixMeans
<1>6. QED
  BY <1>1, <1>2, <1>4, <1>5

LEMMA PrefixOfItself ==
  ASSUME NEW S, NEW s \in Seq(S), NEW t \in Seq(S)
  PROVE  IsPrefix(s, s \o t)
<1>1. PICK u \in Seq(S) : u = s \o t
  BY ConcatProperties
<1>2. Len(s) <= Len(u) /\ \A i \in 1..Len(s) : s[i] = u[i]
  BY <1>1, ConcatProperties
<1>3. QED
  BY <1>1, <1>2, PrefixIntro

-----------------------------------------------------------------------------
(* FlattenSeq, the concatenation of a sequence of sequences *)

\* f[i] is the concatenation of the first i of them.
Flattens(f, s, n) ==
  /\ n > 0 => f[1] = s[1]
  /\ \A i \in 1..(n - 1) : f[i + 1] = f[i] \o s[i + 1]

LEMMA FlattensStep ==
  ASSUME NEW f, NEW s, NEW n \in Nat, Flattens(f, s, n), NEW i \in 0..(n - 1)
  PROVE  f[i + 1] = IF i = 0 THEN s[i + 1] ELSE f[i] \o s[i + 1]
<1>1. CASE i = 0
  <2>1. i + 1 = 1
    BY <1>1
  <2>2. QED
    BY <1>1, <2>1 DEF Flattens
<1>2. CASE i # 0
  <2>1. i \in 1..(n - 1)
    BY <1>2
  <2>2. QED
    BY <1>2, <2>1 DEF Flattens
<1>3. QED
  BY <1>1, <1>2

LEMMA FlattensExists ==
  ASSUME NEW s, NEW n \in Nat
  PROVE  \E g : g = [i \in 1..n |-> IF i = 1 THEN s[i] ELSE g[i - 1] \o s[i]]
<1> DEFINE Defined(g, m) ==
             g = [i \in 1..m |-> IF i = 1 THEN s[i] ELSE g[i - 1] \o s[i]]
           T == {m \in 0..n : \E g : Defined(g, m)}
<1>1. 0 \in T
  <2>1. Defined([i \in 1..0 |-> s[i]], 0)
    OBVIOUS
  <2>2. 0 \in 0..n
    OBVIOUS
  <2> HIDE DEF Defined
  <2>3. QED
    BY <2>1, <2>2
<1>2. ASSUME NEW m \in 0..(n - 1), m \in T
      PROVE  m + 1 \in T
  <2>1. PICK g : Defined(g, m)
    BY <1>2
  <2> DEFINE last == IF m = 0 THEN s[1] ELSE g[m] \o s[m + 1]
             h == [i \in 1..(m + 1) |-> IF i <= m THEN g[i] ELSE last]
  <2>2. \A i \in 1..m : g[i] = IF i = 1 THEN s[i] ELSE g[i - 1] \o s[i]
    BY <2>1
  <2>3. ASSUME NEW i \in 1..(m + 1)
        PROVE  h[i] = IF i = 1 THEN s[i] ELSE h[i - 1] \o s[i]
    <3>1. CASE i <= m
      BY <3>1, <2>2
    <3>2. CASE i = m + 1
      BY <3>2
    <3>3. QED
      BY <3>1, <3>2
  <2>4. Defined(h, m + 1)
    BY <2>3
  <2>5. m + 1 \in 0..n
    OBVIOUS
  <2> HIDE DEF Defined, h
  <2>6. QED
    BY <2>4, <2>5
<1>3. n \in T
  <2> HIDE DEF T
  <2>1. QED
    BY <1>1, <1>2, SetInduction
<1>4. QED
  BY <1>3

LEMMA FlattenUnfolds ==
  ASSUME NEW s, Len(s) \in Nat \ {0}
  PROVE  \E f : FlattenSeq(s) = f[Len(s)] /\ Flattens(f, s, Len(s))
<1> DEFINE n == Len(s)
           f == CHOOSE g : g = [i \in 1..n |-> IF i = 1 THEN s[i]
                                              ELSE g[i - 1] \o s[i]]
<1>1. f = [i \in 1..n |-> IF i = 1 THEN s[i] ELSE f[i - 1] \o s[i]]
  BY FlattensExists
<1>2. FlattenSeq(s) = f[n]
  BY Zenon DEF FlattenSeq
<1> HIDE DEF f
<1>3. \A i \in 1..n : f[i] = IF i = 1 THEN s[i] ELSE f[i - 1] \o s[i]
  BY <1>1, Zenon
<1>4. n \in Nat \ {0}
  OBVIOUS
<1> HIDE DEF n
<1>5. Flattens(f, s, n)
  <2>1. f[1] = s[1]
    BY <1>3, <1>4
  <2>2. ASSUME NEW i \in 1..(n - 1)
        PROVE  f[i + 1] = f[i] \o s[i + 1]
    <3>1. i + 1 \in 1..n /\ i + 1 # 1 /\ (i + 1) - 1 = i
      BY <1>4
    <3>2. QED
      BY <1>3, <3>1
  <2>3. QED
    BY <2>1, <2>2 DEF Flattens
<1>6. QED
  BY <1>2, <1>5 DEF n

\* Sequences of sequences that agree have concatenations that agree.
LEMMA FlattensUnique ==
  ASSUME NEW f, NEW g, NEW s, NEW t, NEW n \in Nat,
         Flattens(f, s, n), Flattens(g, t, n), \A i \in 1..n : s[i] = t[i]
  PROVE  \A i \in 1..n : f[i] = g[i]
<1> DEFINE T == {i \in 0..n : i > 0 => f[i] = g[i]}
<1>1. 0 \in T
  OBVIOUS
<1>2. ASSUME NEW i \in 0..(n - 1), i \in T
      PROVE  i + 1 \in T
  <2>1. f[i + 1] = IF i = 0 THEN s[i + 1] ELSE f[i] \o s[i + 1]
    BY FlattensStep
  <2>2. g[i + 1] = IF i = 0 THEN t[i + 1] ELSE g[i] \o t[i + 1]
    BY FlattensStep
  <2>3. s[i + 1] = t[i + 1]
    OBVIOUS
  <2>4. f[i + 1] = g[i + 1]
    BY <1>2, <2>1, <2>2, <2>3
  <2>5. QED
    BY <2>4
<1>3. \A i \in 0..n : i \in T
  <2> HIDE DEF T
  <2>1. QED
    BY <1>1, <1>2, SetInduction
<1>4. QED
  BY <1>3

LEMMA FlattenType ==
  ASSUME NEW S, NEW s \in Seq(Seq(S))
  PROVE  FlattenSeq(s) \in Seq(S)
<1>1. CASE s = <<>>
  BY <1>1 DEF FlattenSeq
<1>2. CASE s # <<>>
  <2>1. PICK n \in Nat : n = Len(s) /\ n # 0
    BY <1>2
  <2>2. PICK f : FlattenSeq(s) = f[n] /\ Flattens(f, s, n)
    BY <2>1, FlattenUnfolds
  <2> DEFINE T == {i \in 0..n : i > 0 => f[i] \in Seq(S)}
  <2>3. 0 \in T
    OBVIOUS
  <2>4. ASSUME NEW i \in 0..(n - 1), i \in T
        PROVE  i + 1 \in T
    <3>1. s[i + 1] \in Seq(S)
      BY <2>1
    <3>2. f[i + 1] = IF i = 0 THEN s[i + 1] ELSE f[i] \o s[i + 1]
      BY <2>2, FlattensStep
    <3>3. i > 0 => f[i] \o s[i + 1] \in Seq(S)
      BY <3>1, <2>4
    <3>4. f[i + 1] \in Seq(S)
      BY <3>1, <3>2, <3>3
    <3>5. QED
      BY <3>4
  <2>5. n \in T
    <3> HIDE DEF T
    <3>1. QED
      BY <2>3, <2>4, SetInduction
  <2>6. QED
    BY <2>1, <2>2, <2>5
<1>3. QED
  BY <1>1, <1>2

LEMMA FlattenEmpty == FlattenSeq(<<>>) = <<>>
BY DEF FlattenSeq

\* One more sequence is concatenated at the end.
LEMMA FlattenAppend ==
  ASSUME NEW S, NEW s \in Seq(Seq(S)), NEW x \in Seq(S)
  PROVE  FlattenSeq(Append(s, x)) = FlattenSeq(s) \o x
<1>1. PICK n \in Nat : n = Len(s)
  OBVIOUS
<1>2. PICK t \in Seq(Seq(S)) : t = Append(s, x)
  BY AppendProperties
<1>3. Len(t) = n + 1 /\ t[n + 1] = x /\ \A i \in 1..n : t[i] = s[i]
  BY <1>1, <1>2
<1>4. PICK f : FlattenSeq(t) = f[n + 1] /\ Flattens(f, t, n + 1)
  <2>1. Len(t) \in Nat \ {0}
    BY <1>3
  <2>2. QED
    BY <2>1, <1>3, FlattenUnfolds
<1>5. CASE n = 0
  <2>1. f[1] = x
    BY <1>3, <1>4, <1>5 DEF Flattens
  <2>2. s = <<>>
    BY <1>1, <1>5, EmptySeq
  <2>3. FlattenSeq(s) = <<>>
    BY <2>2, FlattenEmpty
  <2>4. <<>> \o x = x
    BY ConcatEmptySeq
  <2>5. QED
    BY <1>2, <1>4, <1>5, <2>1, <2>3, <2>4
<1>6. CASE n > 0
  <2>1. PICK g : FlattenSeq(s) = g[n] /\ Flattens(g, s, n)
    BY <1>1, <1>6, FlattenUnfolds
  <2>2. Flattens(f, t, n)
    <3>1. ASSUME NEW i \in 1..(n - 1)
          PROVE  f[i + 1] = f[i] \o t[i + 1]
      <4>1. i \in 0..((n + 1) - 1) /\ n + 1 \in Nat /\ i # 0
        OBVIOUS
      <4>2. QED
        BY <1>4, <4>1, FlattensStep
    <3>2. f[1] = t[1]
      BY <1>4 DEF Flattens
    <3>3. QED
      BY <3>1, <3>2 DEF Flattens
  <2>3. f[n] = g[n]
    <3>1. \A i \in 1..n : t[i] = s[i]
      BY <1>3
    <3>2. \A i \in 1..n : f[i] = g[i]
      BY <2>1, <2>2, <3>1, FlattensUnique
    <3>3. QED
      BY <1>6, <3>2
  <2>4. f[n + 1] = f[n] \o t[n + 1]
    <3>1. n + 1 \in Nat /\ n \in 0..((n + 1) - 1) /\ n # 0
      BY <1>6
    <3>2. QED
      BY <1>4, <3>1, FlattensStep
  <2>5. QED
    BY <1>2, <1>3, <1>4, <2>1, <2>3, <2>4
<1>7. QED
  BY <1>5, <1>6

LEMMA Singles ==
  ASSUME NEW S, NEW s \in Seq(S)
  PROVE  LET g == [i \in DOMAIN s |-> <<s[i]>>]
         IN /\ g \in Seq(Seq(S)) /\ Len(g) = Len(s)
            /\ \A i \in 1..Len(s) : g[i] = <<s[i]>>
<1>1. PICK n \in Nat : n = Len(s) /\ DOMAIN s = 1..n
  OBVIOUS
<1>2. PICK T : T = Seq(S)
  OBVIOUS
<1>3. PICK g : g = [i \in 1..n |-> <<s[i]>>]
  OBVIOUS
<1>4. \A i \in 1..n : <<s[i]>> \in T
  <2>1. \A i \in 1..n : s[i] \in S
    BY <1>1
  <2>2. \A x \in S : <<x>> \in Seq(S)
    OBVIOUS
  <2>3. QED
    BY <1>2, <2>1, <2>2
<1>5. g \in [1..n -> T] /\ \A i \in 1..n : g[i] = <<s[i]>>
  BY <1>3, <1>4, Zenon
<1>6. g \in Seq(T) /\ Len(g) = n
  BY <1>5
<1>7. QED
  BY <1>1, <1>2, <1>3, <1>5, <1>6, Zenon

\* A sequence is the concatenation of its elements.
LEMMA FlattenSingles ==
  ASSUME NEW S, NEW s \in Seq(S), NEW g \in Seq(Seq(S)), Len(g) = Len(s),
         \A i \in 1..Len(s) : g[i] = <<s[i]>>
  PROVE  FlattenSeq(g) = s
<1>1. PICK n \in Nat : n = Len(s)
  OBVIOUS
<1>2. CASE n = 0
  <2>1. g = <<>> /\ s = <<>>
    BY <1>1, <1>2, EmptySeq
  <2>2. QED
    BY <2>1, FlattenEmpty, Zenon
<1>3. CASE n # 0
  <2>1. PICK f : FlattenSeq(g) = f[n] /\ Flattens(f, g, n)
    BY <1>1, <1>3, FlattenUnfolds
  <2> DEFINE Upto(i) == /\ f[i] \in Seq(S) /\ Len(f[i]) = i
                        /\ \A j \in 1..i : f[i][j] = s[j]
             T == {i \in 0..n : i > 0 => Upto(i)}
  <2>2. 0 \in T
    OBVIOUS
  <2>3. ASSUME NEW i \in 0..(n - 1), i \in T
        PROVE  i + 1 \in T
    <3>1. s[i + 1] \in S /\ g[i + 1] = <<s[i + 1]>> /\ i + 1 \in 0..n
      BY <1>1
    <3>2. f[i + 1] = IF i = 0 THEN g[i + 1] ELSE f[i] \o g[i + 1]
      BY <2>1, FlattensStep
    <3>3. CASE i = 0
      <4>1. f[1] = <<s[1]>> /\ s[1] \in S
        BY <3>1, <3>2, <3>3
      <4>2. <<s[1]>> \in Seq(S) /\ Len(<<s[1]>>) = 1 /\ <<s[1]>>[1] = s[1]
        BY <4>1
      <4>3. Upto(1)
        BY <4>1, <4>2
      <4> HIDE DEF Upto
      <4>4. QED
        BY <1>3, <3>3, <4>3
    <3>4. CASE i # 0
      <4>1. PICK u \in Seq(S) : u = f[i] /\ Len(u) = i /\ \A j \in 1..i : u[j] = s[j]
        BY <2>3, <3>4
      <4>2. PICK v \in Seq(S) : /\ v = u \o <<s[i + 1]>> /\ Len(v) = i + 1
                                /\ v[i + 1] = s[i + 1] /\ \A j \in 1..i : v[j] = u[j]
        <5>1. LET v == u \o <<s[i + 1]>>
              IN /\ v \in Seq(S) /\ Len(v) = Len(u) + 1 /\ v[Len(u) + 1] = s[i + 1]
                 /\ \A j \in 1..Len(u) : v[j] = u[j]
          BY <3>1, FollowedAt
        <5>2. QED
          BY <4>1, <5>1, Zenon
      <4>3. v = f[i + 1]
        BY <3>1, <3>2, <3>4, <4>1, <4>2
      <4>4. \A j \in 1..(i + 1) : v[j] = s[j]
        BY <4>1, <4>2
      <4>5. Upto(i + 1)
        BY <4>2, <4>3, <4>4
      <4> HIDE DEF Upto
      <4>6. QED
        BY <3>1, <4>5
    <3>5. QED
      BY <3>3, <3>4
  <2>4. \A i \in 0..n : i \in T
    <3> HIDE DEF T
    <3>1. QED
      BY <2>2, <2>3, SetInduction
  <2>5. Upto(n)
    <3> HIDE DEF Upto
    <3>1. n \in T /\ n > 0
      BY <1>3, <2>4
    <3>2. QED
      BY <3>1
  <2>6. f[n] = s
    BY <1>1, <2>5, SeqEqual
  <2>7. QED
    BY <2>1, <2>6
<1>4. QED
  BY <1>2, <1>3

-----------------------------------------------------------------------------
(* ReplaceFirstSubSeq *)

OccursAt(s, t, n) == \A i \in 1..Len(s) : t[n + i] = s[i]

LEMMA SubSeqsMeans ==
  ASSUME NEW S, NEW s \in Seq(S), NEW t \in Seq(S), s # <<>>, NEW i \in 0..Len(t)
  PROVE  s \in SubSeqs(SubSeq(t, 1, i)) <=> \E k \in 0..(i - Len(s)) : OccursAt(s, t, k)
<1>1. PICK u \in Seq(S) : /\ u = SubSeq(t, 1, i) /\ Len(u) = i
                           /\ \A k \in 1..i : u[k] = t[k]
  <2>1. PICK u : u = SubSeq(t, 1, i)
    OBVIOUS
  <2>2. u \in Seq(S) /\ Len(u) = i /\ \A k \in 1..i : u[k] = t[k]
    BY <2>1
  <2>3. QED
    BY <2>1, <2>2
<1>2. PICK n \in Nat : n = Len(s) /\ n > 0
  BY EmptySeq
<1>3. ASSUME s \in SubSeqs(u)
      PROVE  \E k \in 0..(i - n) : OccursAt(s, t, k)
  <2>1. PICK a, b \in 0..i : s = SubSeq(u, a + 1, b)
    <3>1. \E a, b \in 0..Len(u) : s = SubSeq(u, a + 1, b)
      BY <1>3 DEF SubSeqs
    <3>2. QED
      BY <1>1, <3>1
  <2>2. \A k \in (a + 1)..b : u[k] \in S
    BY <1>1
  <2>3. /\ n = IF a + 1 <= b THEN b - (a + 1) + 1 ELSE 0
        /\ \A k \in 1..(b - (a + 1) + 1) : s[k] = u[(a + 1) + k - 1]
    BY <1>2, <2>1, <2>2, SubSeqProperties
  <2>4. b = a + n
    BY <1>2, <2>3
  <2>5. \A k \in 1..n : s[k] = t[a + k]
    <3>1. SUFFICES ASSUME NEW k \in 1..n PROVE s[k] = t[a + k]
      OBVIOUS
    <3>2. (a + 1) + k - 1 = a + k /\ a + k \in 1..i /\ k \in 1..(b - (a + 1) + 1)
      BY <2>4
    <3>3. QED
      BY <1>1, <2>3, <3>2
  <2>6. QED
    BY <1>2, <2>4, <2>5 DEF OccursAt
<1>4. ASSUME NEW k \in 0..(i - n), OccursAt(s, t, k)
      PROVE  s \in SubSeqs(u)
  <2>1. PICK v : v = SubSeq(u, k + 1, k + n)
    OBVIOUS
  <2>2. \A j \in (k + 1)..(k + n) : u[j] \in S
    BY <1>1
  <2>3. /\ v \in Seq(S) /\ Len(v) = n
        /\ \A j \in 1..n : v[j] = u[(k + 1) + j - 1]
    <3>1. (k + n) - (k + 1) + 1 = n /\ k + 1 \in Int /\ k + n \in Int /\ k + 1 <= k + n
      BY <1>2
    <3>2. QED
      BY <2>1, <2>2, <3>1, SubSeqProperties
  <2>4. ASSUME NEW j \in 1..n PROVE v[j] = s[j]
    <3>1. (k + 1) + j - 1 = k + j /\ k + j \in 1..i
      OBVIOUS
    <3>2. QED
      BY <1>1, <1>2, <1>4, <2>3, <3>1 DEF OccursAt
  <2>5. v = s
    BY <1>2, <2>3, <2>4, SeqEqual
  <2>6. k \in 0..Len(u) /\ k + n \in 0..Len(u)
    BY <1>1
  <2>7. QED
    BY <2>1, <2>5, <2>6 DEF SubSeqs
<1>5. QED
  BY <1>1, <1>2, <1>3, <1>4

Before(t, n) == SubSeq(t, 1, n)
After(t, n) == SubSeq(t, n + 1, Len(t))

\* The first occurrence is replaced, and what is around it stays.
LEMMA ReplaceFirst ==
  ASSUME NEW S, NEW r \in Seq(S), NEW s \in Seq(S), NEW t \in Seq(S), s # <<>>,
         NEW n \in 0..(Len(t) - Len(s)), OccursAt(s, t, n),
         \A k \in 0..(n - 1) : ~OccursAt(s, t, k)
  PROVE  ReplaceFirstSubSeq(r, s, t) = Before(t, n) \o r \o After(t, n + Len(s))
<1>1. PICK m \in Nat : m = Len(s) /\ m > 0
  BY EmptySeq
<1> DEFINE Occurs(i) == s \in SubSeqs(SubSeq(t, 1, i))
           First(i) == Occurs(i) /\ \A j \in 0..i-1 : ~Occurs(j)
<1>2. \A i \in 0..Len(t) : Occurs(i) <=> \E k \in 0..(i - m) : OccursAt(s, t, k)
  BY <1>1, SubSeqsMeans
<1>3. n + m \in 0..Len(t)
  BY <1>1
<1> HIDE DEF Occurs
<1>4. First(n + m)
  <2>1. Occurs(n + m)
    <3>1. n \in 0..((n + m) - m)
      OBVIOUS
    <3>2. QED
      BY <1>2, <1>3, <3>1
  <2>2. ASSUME NEW j \in 0..((n + m) - 1) PROVE ~Occurs(j)
    <3>1. j \in 0..Len(t) /\ \A k \in 0..(j - m) : k \in 0..(n - 1)
      BY <1>1, <1>3
    <3>2. QED
      BY <1>2, <3>1
  <2>3. QED
    BY <2>1, <2>2
<1>5. ASSUME NEW i \in 0..Len(t), First(i)
      PROVE  i = n + m
  <2>1. ~(n + m < i)
    BY <1>3, <1>4, <1>5
  <2>2. ~(i < n + m)
    BY <1>3, <1>4, <1>5
  <2>3. QED
    BY <1>3, <2>1, <2>2
<1>6. (CHOOSE i \in 0..Len(t) : First(i)) = n + m
  <2> HIDE DEF First
  <2>1. QED
    BY <1>3, <1>4, <1>5
<1>7. IndexFirstSubSeq(s, t) = n + 1
  <2>1. IndexFirstSubSeq(s, t) = (n + m) - (m - 1)
    BY <1>1, <1>6 DEF IndexFirstSubSeq, Occurs
  <2>2. QED
    BY <2>1
<1>8. s \in SubSeqs(t)
  <2>1. SubSeq(t, 1, Len(t)) = t
    BY SubSeqFull
  <2>2. Len(t) \in 0..Len(t) /\ n \in 0..(Len(t) - m)
    BY <1>1
  <2>3. QED
    BY <1>2, <2>1, <2>2 DEF Occurs
<1>9. (n + 1) - 1 = n /\ (n + 1) + Len(s) = (n + Len(s)) + 1
  OBVIOUS
<1>10. QED
  BY <1>7, <1>8, <1>9, Zenon DEF ReplaceFirstSubSeq, ReplaceSubSeqAt, Before, After

LEMMA AfterAt ==
  ASSUME NEW S, NEW t \in Seq(S), NEW m \in 0..Len(t)
  PROVE  /\ After(t, m) \in Seq(S) /\ Len(After(t, m)) = Len(t) - m
         /\ \A i \in 1..(Len(t) - m) : After(t, m)[i] = t[m + i]
<1>1. PICK n \in Nat : n = Len(t)
  OBVIOUS
<1>2. PICK v : v = SubSeq(t, m + 1, n)
  OBVIOUS
<1>3. v \in Seq(S) /\ Len(v) = n - m
  BY <1>1, <1>2
<1>4. ASSUME NEW i \in 1..(n - m) PROVE v[i] = t[m + i]
  <2>1. (m + 1) + i - 1 = m + i
    BY <1>1
  <2>2. v[i] = t[(m + 1) + i - 1]
    BY <1>1, <1>2
  <2>3. QED
    BY <2>1, <2>2
<1>5. QED
  BY <1>1, <1>2, <1>3, <1>4 DEF After

\* What is replaced begins the sequence.
LEMMA ReplaceStart ==
  ASSUME NEW S, NEW r \in Seq(S), NEW s \in Seq(S), NEW t \in Seq(S), s # <<>>,
         IsPrefix(s, t)
  PROVE  ReplaceFirstSubSeq(r, s, t) = r \o After(t, Len(s))
<1>1. Len(s) \in 0..Len(t)
  BY PrefixMeans
<1>2. OccursAt(s, t, 0)
  <2>1. \A i \in 1..Len(s) : t[0 + i] = s[i]
    BY PrefixMeans
  <2>2. QED
    BY <2>1 DEF OccursAt
<1>3. ReplaceFirstSubSeq(r, s, t) = Before(t, 0) \o r \o After(t, 0 + Len(s))
  <2>1. 0 \in 0..(Len(t) - Len(s)) /\ \A j \in 0..(0 - 1) : ~OccursAt(s, t, j)
    BY <1>1
  <2>2. QED
    BY <1>2, <2>1, ReplaceFirst, Zenon
<1>4. 0 + Len(s) = Len(s)
  OBVIOUS
<1>5. Before(t, 0) = <<>>
  BY DEF Before
<1>6. <<>> \o r = r
  BY ConcatEmptySeq
<1>7. QED
  BY <1>3, <1>4, <1>5, <1>6, Zenon

\* t is p and two different elements, the last of which is nowhere in p.
EndsOnce(p, s, t) ==
  /\ Len(s) = 2 /\ s[1] # s[2]
  /\ Len(t) = Len(p) + 2 /\ t[Len(p) + 1] = s[1] /\ t[Len(p) + 2] = s[2]
  /\ \A i \in 1..Len(p) : t[i] = p[i] /\ p[i] # s[2]

LEMMA RemoveEnd ==
  ASSUME NEW S, NEW e \in Seq(S), NEW s \in Seq(S), NEW p \in Seq(S), NEW t \in Seq(S),
         Len(e) = 0, EndsOnce(p, s, t)
  PROVE  ReplaceFirstSubSeq(e, s, t) = p
<1>0. /\ Len(s) = 2 /\ s[1] # s[2]
      /\ Len(t) = Len(p) + 2 /\ t[Len(p) + 1] = s[1] /\ t[Len(p) + 2] = s[2]
      /\ \A i \in 1..Len(p) : t[i] = p[i] /\ p[i] # s[2]
  BY DEF EndsOnce
<1>1. PICK n \in Nat : n = Len(p)
  OBVIOUS
<1>2. Len(s) = 2
  BY <1>0
<1>3. OccursAt(s, t, n)
  BY <1>0, <1>1, <1>2 DEF OccursAt
<1>4. ASSUME NEW k \in 0..(n - 1), OccursAt(s, t, k)
      PROVE  FALSE
  <2>1. t[k + 2] = s[2]
    BY <1>2, <1>4 DEF OccursAt
  <2>2. k + 2 \in 1..n \/ k + 2 = n + 1
    BY <1>1
  <2>3. QED
    BY <1>0, <1>1, <2>1, <2>2
<1>5. ReplaceFirstSubSeq(e, s, t) = Before(t, n) \o e \o After(t, n + 2)
  <2>1. n \in 0..(Len(t) - Len(s)) /\ s # <<>> /\ n + Len(s) = n + 2
    <3>1. s # <<>>
      <4>1. Len(<<>>) = 0 /\ 0 # 2
        OBVIOUS
      <4>2. QED
        BY <1>2, <4>1, Zenon
    <3>2. n \in 0..(Len(t) - Len(s)) /\ n + Len(s) = n + 2
      BY <1>0, <1>1
    <3>3. QED
      BY <3>1, <3>2
  <2>2. \A k \in 0..(n - 1) : ~OccursAt(s, t, k)
    BY <1>4
  <2>3. s \in Seq(S) /\ t \in Seq(S) /\ e \in Seq(S)
    OBVIOUS
  <2>4. ReplaceFirstSubSeq(e, s, t) = Before(t, n) \o e \o After(t, n + Len(s))
    <3>1. s # <<>> /\ n \in 0..(Len(t) - Len(s))
      BY <2>1
    <3>2. QED
      BY ONLY <1>3, <2>2, <2>3, <3>1, ReplaceFirst
  <2>5. QED
    BY <2>1, <2>4, Zenon
<1>6. PICK u \in Seq(S) : u = Before(t, n) /\ Len(u) = n /\ \A i \in 1..n : u[i] = t[i]
  <2>1. PICK u : u = SubSeq(t, 1, n)
    OBVIOUS
  <2>2. u \in Seq(S) /\ Len(u) = n /\ \A i \in 1..n : u[i] = t[i]
    BY <1>0, <1>1, <2>1
  <2>3. QED
    BY <2>1, <2>2 DEF Before
<1>7. u = p
  BY <1>0, <1>1, <1>6, SeqEqual
<1>8. After(t, n + 2) = <<>>
  BY <1>0, <1>1 DEF After
<1>9. (p \o <<>>) \o <<>> = p /\ e = <<>>
  BY ConcatEmptySeq, EmptySeq
<1>10. QED
  BY <1>2, <1>5, <1>6, <1>7, <1>8, <1>9

=============================================================================
