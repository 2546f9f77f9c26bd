------------------------------ MODULE TextProofs ------------------------------
(* How texts are cut.  For any chapters, windows, answers and number of repairs: *)
(* the windows of a chapter lead back to it, a valid draft has every claim in it *)
(* or on record, every call is in the usage, and evidence is a proof.  For any   *)
(* book files, imports and crashes: the stored chapters tile the text, chunks    *)
(* cover a chapter, and the volumes of a grouping share out the chapters.        *)
EXTENDS MapExtractionProps, BookImportProps, FiniteSetTheorems, SequenceTheorems, WellFoundedInduction, TLAPS

-----------------------------------------------------------------------------
(* Numbers *)

\* A set of numbers has a least element.
LEMMA Least == ASSUME NEW T \in SUBSET Nat, T # {} PROVE \E x \in T : \A y \in T : x <= y
<1> DEFINE R == {ss \in Nat \X Nat : ss[1] < ss[2]}
<1>1. IsWellFoundedOn(R, Nat)
  BY NatLessThanWellFounded, Zenon DEF OpToRel
<1>2. PICK x \in T : \A y \in T : <<y, x>> \notin R
  BY <1>1, WFMin, Zenon
<1>3. ASSUME NEW y \in T PROVE x <= y
  <2>1. x \in Nat /\ y \in Nat /\ ~(y < x)
    BY <1>2
  <2> QED
    BY <2>1
<1> QED
  BY <1>3

\* A set of numbers that has 0 and what follows its members is all of them.
LEMMA Induction ==
  ASSUME NEW G \in SUBSET Nat, 0 \in G, \A k \in G : k + 1 \in G
  PROVE  G = Nat
<1> SUFFICES ASSUME Nat \ G # {} PROVE FALSE
  OBVIOUS
<1>1. PICK x \in Nat \ G : \A y \in Nat \ G : x <= y
  BY Least
<1>2. x - 1 \in Nat /\ x = (x - 1) + 1 /\ ~(x <= x - 1)
  BY <1>1
<1> QED
  BY <1>1, <1>2

\* Max and Min of the numbers up to a bound are among them.
LEMMA Extremes ==
  ASSUME NEW B \in Nat, NEW T \in SUBSET (0..B), T # {}
  PROVE  /\ Max(T) \in T /\ \A x \in T : x <= Max(T)
         /\ Min(T) \in T /\ \A x \in T : Min(T) <= x
<1>1. T \in SUBSET Nat
  OBVIOUS
<1>2. \E x \in T : \A y \in T : x <= y
  BY <1>1, Least
<1>3. \E x \in T : \A y \in T : y <= x
  <2> DEFINE U == {B - x : x \in T}
  <2>1. U \in SUBSET Nat /\ U # {}
    <3>1. \A x \in T : x \in 0..B /\ B - x \in Nat
      OBVIOUS
    <3> QED
      BY <3>1
  <2>2. PICK u \in U : \A v \in U : u <= v
    BY <2>1, Least
  <2>3. PICK x \in T : u = B - x
    OBVIOUS
  <2>4. ASSUME NEW y \in T PROVE y <= x
    <3>1. B - x <= B - y
      BY <2>2, <2>3
    <3> QED
      BY <3>1
  <2> QED
    BY <2>4
<1> QED
  BY <1>2, <1>3 DEF Max, Min
-----------------------------------------------------------------------------
(* Sums over windows *)

Total(f, S) == FoldFunctionOnSet(+, 0, f, S)
One(s) == CHOOSE x \in s : TRUE
Sums(sum, f, S) ==
  /\ Total(f, S) = sum[S] /\ sum[{}] = 0
  /\ \A s \in SUBSET S : s # {} => sum[s] = f[One(s)] + sum[s \ {One(s)}]

\* A sum is one term and the sum of the others.
LEMMA TotalDef ==
  ASSUME NEW S, NEW f, IsFiniteSet(S)
  PROVE  \E sum : Sums(sum, f, S)
<1> DEFINE Step(h, s) == IF s = {} THEN 0 ELSE f[One(s)] + h[s \ {One(s)}]
           Is(h, k) == \A s \in SUBSET S : Cardinality(s) <= k => h[s] = Step(h, s)
           Fun(h) == h = [s \in SUBSET S |-> Step(h, s)]
           G == {k \in Nat : \E h : Is(h, k)}
<1>1. \A s \in SUBSET S : IsFiniteSet(s) /\ Cardinality(s) \in Nat
  BY FS_Subset, FS_CardinalityType
<1>2. ASSUME NEW s \in SUBSET S, NEW g, NEW h,
             \A t \in SUBSET S : Cardinality(t) < Cardinality(s) => g[t] = h[t]
      PROVE  Step(g, s) = Step(h, s)
  <2> SUFFICES ASSUME s # {} PROVE g[s \ {One(s)}] = h[s \ {One(s)}]
    OBVIOUS
  <2>1. One(s) \in s
    BY DEF One
  <2>2. Cardinality(s \ {One(s)}) < Cardinality(s)
    <3>1. Cardinality(s \ {One(s)}) = Cardinality(s) - 1
      BY <1>1, <2>1, FS_RemoveElement
    <3> QED
      BY <1>1, <3>1
  <2> QED
    BY <1>2, <2>2
<1>3. 0 \in G
  <2> DEFINE h == [s \in SUBSET S |-> 0]
  <2>1. \A s \in SUBSET S : Cardinality(s) <= 0 => s = {}
    BY <1>1, FS_EmptySet
  <2>2. Is(h, 0)
    BY <2>1
  <2> HIDE DEF Is
  <2> QED
    BY <2>2
<1>4. ASSUME NEW k \in G PROVE k + 1 \in G
  <2>1. PICK g : Is(g, k)
    OBVIOUS
  <2>2. k \in Nat /\ k + 1 \in Nat
    OBVIOUS
  <2> DEFINE h == [s \in SUBSET S |-> IF Cardinality(s) <= k THEN g[s] ELSE Step(g, s)]
  <2> HIDE DEF Step
  <2>3. \A s \in SUBSET S : Cardinality(s) <= k => h[s] = g[s]
    OBVIOUS
  <2>4. \A s \in SUBSET S : h[s] = Step(g, s)
    BY <2>1
  <2>5. ASSUME NEW s \in SUBSET S, Cardinality(s) <= k + 1 PROVE h[s] = Step(h, s)
    <3> HIDE DEF h
    <3>1. \A t \in SUBSET S : Cardinality(t) < Cardinality(s) => g[t] = h[t]
      BY <1>1, <2>2, <2>3, <2>5
    <3>2. Step(g, s) = Step(h, s)
      BY <1>2, <3>1
    <3> QED
      BY <2>4, <3>2
  <2> HIDE DEF h
  <2>6. Is(h, k + 1)
    BY <2>5
  <2> HIDE DEF Is
  <2> QED
    BY <2>2, <2>6
<1>5. G = Nat
  <2> HIDE DEF G
  <2>1. G \in SUBSET Nat
    BY DEF G
  <2> QED
    BY <1>3, <1>4, <2>1, Induction
<1>6. PICK h : Is(h, Cardinality(S))
  <2>1. Cardinality(S) \in G
    BY <1>1, <1>5
  <2> HIDE DEF Is
  <2> QED
    BY <2>1
<1> DEFINE all == [s \in SUBSET S |-> h[s]]
<1>7. \A s \in SUBSET S : all[s] = Step(all, s)
  <2> TAKE s \in SUBSET S
  <2>1. Cardinality(s) <= Cardinality(S)
    BY <1>1, FS_Subset
  <2>2. h[s] = Step(h, s)
    BY <1>6, <2>1
  <2>3. \A t \in SUBSET S : all[t] = h[t]
    OBVIOUS
  <2> HIDE DEF Step, all
  <2>4. Step(h, s) = Step(all, s)
    BY <1>2, <2>3
  <2> QED
    BY <2>2, <2>3, <2>4
<1>8. Fun(all)
  <2>1. all = [s \in SUBSET S |-> all[s]]
    OBVIOUS
  <2> HIDE DEF all, Step
  <2> QED
    BY <1>7, <2>1
<1> DEFINE sum == CHOOSE g : Fun(g)
<1>9. Fun(sum)
  <2> HIDE DEF Fun, all
  <2> QED
    BY <1>8, Zenon
<1>10. Total(f, S) = sum[S]
  BY Zenon DEF Total, One, FoldFunctionOnSet, MapThenFoldSet
<1> HIDE DEF sum
<1>11. \A s \in SUBSET S : sum[s] = Step(sum, s)
  <2> HIDE DEF Step
  <2> QED
    BY <1>9
<1> QED
  BY <1>10, <1>11 DEF Sums

\* A sum of numbers is a number; it grows by one with one of the terms.
LEMMA TotalGrows ==
  ASSUME NEW S, IsFiniteSet(S), NEW f, \A x \in S : f[x] \in Nat, NEW g, NEW i,
         \A x \in S : g[x] = IF x = i THEN f[x] + 1 ELSE f[x]
  PROVE  /\ Total(f, S) \in Nat
         /\ Total(g, S) = IF i \in S THEN Total(f, S) + 1 ELSE Total(f, S)
<1>1. PICK a : Sums(a, f, S)
  BY TotalDef
<1>2. PICK b : Sums(b, g, S)
  BY TotalDef
<1> DEFINE Good(s) == a[s] \in Nat /\ b[s] = IF i \in s THEN a[s] + 1 ELSE a[s]
           H == {k \in Nat : \A s \in SUBSET S : Cardinality(s) = k => Good(s)}
<1>3. \A s \in SUBSET S : IsFiniteSet(s) /\ Cardinality(s) \in Nat
  BY FS_Subset, FS_CardinalityType
<1>4. 0 \in H
  <2>1. \A s \in SUBSET S : Cardinality(s) = 0 => s = {}
    BY <1>3, FS_EmptySet
  <2>2. Good({})
    BY <1>1, <1>2 DEF Sums
  <2> HIDE DEF Good
  <2> QED
    BY <2>1, <2>2
<1>5. ASSUME NEW k \in H PROVE k + 1 \in H
  <2> SUFFICES ASSUME NEW s \in SUBSET S, Cardinality(s) = k + 1 PROVE Good(s)
    OBVIOUS
  <2>1. s # {}
    <3>1. k \in Nat /\ Cardinality({}) = 0
      BY FS_EmptySet
    <3>2. k + 1 # 0
      BY <3>1
    <3> QED
      BY <3>1, <3>2, Zenon
  <2>2. One(s) \in s
    BY <2>1 DEF One
  <2>3. PICK x \in s : x = One(s)
    BY <2>2
  <2>4. Cardinality(s \ {x}) = k /\ s \ {x} \in SUBSET S
    <3>1. Cardinality(s \ {x}) = Cardinality(s) - 1
      BY <1>3, <2>3, FS_RemoveElement
    <3> QED
      BY <3>1
  <2>5. Good(s \ {x})
    <3> HIDE DEF Good
    <3> QED
      BY <2>4
  <2>6. a[s] = f[x] + a[s \ {x}] /\ b[s] = g[x] + b[s \ {x}]
    <3> QED
      BY <1>1, <1>2, <2>1, <2>3 DEF Sums
  <2>7. f[x] \in Nat /\ g[x] = IF x = i THEN f[x] + 1 ELSE f[x]
    OBVIOUS
  <2> QED
    BY <2>5, <2>6, <2>7
<1>6. H = Nat
  <2> HIDE DEF H
  <2>1. H \in SUBSET Nat
    BY DEF H
  <2> QED
    BY <1>4, <1>5, <2>1, Induction
<1>7. Good(S)
  <2> HIDE DEF Good
  <2>1. Cardinality(S) \in H /\ S \in SUBSET S
    BY <1>3, <1>6
  <2> QED
    BY <2>1
<1> QED
  BY <1>1, <1>2, <1>7 DEF Sums

\* A sum of nothing but 0 is 0.
LEMMA TotalOfNothing ==
  ASSUME NEW S, IsFiniteSet(S), NEW f, \A x \in S : f[x] = 0
  PROVE  Total(f, S) = 0
<1>1. PICK a : Sums(a, f, S)
  BY TotalDef
<1> DEFINE H == {k \in Nat : \A s \in SUBSET S : Cardinality(s) = k => a[s] = 0}
<1>2. \A s \in SUBSET S : IsFiniteSet(s) /\ Cardinality(s) \in Nat
  BY FS_Subset, FS_CardinalityType
<1>3. 0 \in H
  <2>1. \A s \in SUBSET S : Cardinality(s) = 0 => s = {}
    BY <1>2, FS_EmptySet
  <2> QED
    BY <1>1, <2>1 DEF Sums
<1>4. ASSUME NEW k \in H PROVE k + 1 \in H
  <2> SUFFICES ASSUME NEW s \in SUBSET S, Cardinality(s) = k + 1 PROVE a[s] = 0
    OBVIOUS
  <2>1. s # {}
    <3>1. k \in Nat /\ Cardinality({}) = 0
      BY FS_EmptySet
    <3>2. k + 1 # 0
      BY <3>1
    <3> QED
      BY <3>1, <3>2, Zenon
  <2>2. PICK x \in s : x = One(s)
    BY <2>1 DEF One
  <2>3. Cardinality(s \ {x}) = k /\ s \ {x} \in SUBSET S
    <3>1. Cardinality(s \ {x}) = Cardinality(s) - 1
      BY <1>2, <2>2, FS_RemoveElement
    <3> QED
      BY <3>1
  <2>4. a[s] = f[x] + a[s \ {x}]
    <3> QED
      BY <1>1, <2>1, <2>2 DEF Sums
  <2> QED
    BY <2>3, <2>4
<1>5. H = Nat
  <2> HIDE DEF H
  <2>1. H \in SUBSET Nat
    BY DEF H
  <2> QED
    BY <1>3, <1>4, <2>1, Induction
<1>6. Cardinality(S) \in H /\ S \in SUBSET S
  BY <1>2, <1>5
<1> QED
  BY <1>1, <1>6 DEF Sums
-----------------------------------------------------------------------------
(* Flattened sequences *)

\* One sequence after the other: what it has, and what its first n parts have.
LEMMA FlattenDef ==
  ASSUME NEW X, NEW seqs \in Seq(Seq(X)), seqs # <<>>
  PROVE  \E flat : /\ FlattenSeq(seqs) = flat[Len(seqs)] /\ flat[1] = seqs[1]
                   /\ \A i \in 2..Len(seqs) : flat[i] = flat[i - 1] \o seqs[i]
<1> DEFINE n == Len(seqs)
           Step(h, i) == IF i = 1 THEN seqs[i] ELSE h[i - 1] \o seqs[i]
           Is(h, k) == \A i \in 1..k : h[i] = Step(h, i)
           Fun(h) == h = [i \in 1..n |-> Step(h, i)]
           G == {k \in Nat : \E h : Is(h, k)}
<1>1. n \in Nat /\ n # 0
  BY EmptySeq
<1>2. 0 \in G
  BY SMT
<1>3. ASSUME NEW k \in G PROVE k + 1 \in G
  <2>1. PICK g : Is(g, k)
    OBVIOUS
  <2>2. k \in Nat /\ k + 1 \in Nat
    OBVIOUS
  <2> DEFINE h == [i \in 1..(k + 1) |-> IF i <= k THEN g[i] ELSE Step(g, i)]
  <2> HIDE DEF Step
  <2>3. \A i \in 1..k : h[i] = g[i]
    BY <2>2
  <2>4. \A i \in 1..(k + 1) : h[i] = Step(g, i)
    <3> TAKE i \in 1..(k + 1)
    <3>1. i \in 1..k \/ ~(i <= k)
      BY <2>2
    <3> QED
      BY <2>1, <3>1
  <2>5. ASSUME NEW i \in 1..(k + 1) PROVE h[i] = Step(h, i)
    <3> HIDE DEF h
    <3>1. i = 1 \/ i - 1 \in 1..k
      BY <2>2
    <3>2. Step(g, i) = Step(h, i)
      BY <2>3, <3>1 DEF Step
    <3> QED
      BY <2>4, <3>2
  <2> HIDE DEF h
  <2>6. Is(h, k + 1)
    BY <2>5
  <2> HIDE DEF Is
  <2> QED
    BY <2>2, <2>6
<1>4. G = Nat
  <2> HIDE DEF G
  <2>1. G \in SUBSET Nat
    BY DEF G
  <2> QED
    BY <1>2, <1>3, <2>1, Induction
<1>5. PICK h : Is(h, n)
  <2> HIDE DEF Is
  <2> QED
    BY <1>1, <1>4
<1> DEFINE all == [i \in 1..n |-> h[i]]
<1>6. \A i \in 1..n : all[i] = Step(all, i)
  <2> TAKE i \in 1..n
  <2>1. i = 1 \/ i - 1 \in 1..n
    BY <1>1
  <2> QED
    BY <1>5, <2>1
<1>7. Fun(all)
  <2>1. all = [i \in 1..n |-> all[i]]
    OBVIOUS
  <2> HIDE DEF all, Step
  <2> QED
    BY <1>6, <2>1
<1> DEFINE flat == CHOOSE g : Fun(g)
<1>8. Fun(flat)
  <2> HIDE DEF Fun, all
  <2> QED
    BY <1>7, Zenon
<1>9. FlattenSeq(seqs) = flat[n]
  BY <1>1, Zenon DEF FlattenSeq
<1> HIDE DEF flat
<1>10. \A i \in 1..n : flat[i] = Step(flat, i)
  <2> HIDE DEF Step
  <2> QED
    BY <1>8
<1>11. flat[1] = seqs[1]
  BY <1>1, <1>10
<1>12. \A i \in 2..n : i \in 1..n /\ i # 1
  BY <1>1
<1>13. \A i \in 2..n : flat[i] = flat[i - 1] \o seqs[i]
  BY <1>10, <1>12
<1> QED
  BY <1>9, <1>11, <1>13

\* What one sequence after the other has.
LEMMA ConcatRange ==
  ASSUME NEW X, NEW a \in Seq(X), NEW b \in Seq(X)
  PROVE  Range(a \o b) = Range(a) \cup Range(b)
<1> DEFINE c == a \o b
<1>1. /\ c \in Seq(X) /\ Len(c) = Len(a) + Len(b) /\ Len(a) \in Nat /\ Len(b) \in Nat
      /\ \A i \in 1..(Len(a) + Len(b)) : c[i] = IF i <= Len(a) THEN a[i] ELSE b[i - Len(a)]
  BY ConcatProperties
<1>2. DOMAIN c = 1..Len(c) /\ DOMAIN a = 1..Len(a) /\ DOMAIN b = 1..Len(b)
  BY <1>1
<1> HIDE DEF c
<1>3. \A i \in DOMAIN a : i \in DOMAIN c /\ c[i] = a[i]
  BY <1>1, <1>2
<1>4. \A i \in DOMAIN b : i + Len(a) \in DOMAIN c /\ c[i + Len(a)] = b[i]
  <2> TAKE i \in DOMAIN b
  <2>1. i \in Nat /\ i > 0 /\ i <= Len(b)
    BY <1>1, <1>2
  <2>2. i + Len(a) \in 1..(Len(a) + Len(b)) /\ ~(i + Len(a) <= Len(a)) /\ (i + Len(a)) - Len(a) = i
    BY <1>1, <2>1
  <2> QED
    BY <1>1, <1>2, <2>2
<1>5. ASSUME NEW i \in DOMAIN c
      PROVE  \/ i \in DOMAIN a /\ c[i] = a[i]
             \/ i - Len(a) \in DOMAIN b /\ c[i] = b[i - Len(a)]
  <2>1. i \in Nat /\ i > 0 /\ i <= Len(a) + Len(b) /\ i \in 1..(Len(a) + Len(b))
    BY <1>1, <1>2
  <2>2. CASE i <= Len(a)
    BY <1>1, <1>2, <2>1, <2>2
  <2>3. CASE ~(i <= Len(a))
    BY <1>1, <1>2, <2>1, <2>3
  <2> QED
    BY <2>2, <2>3
<1>6. \A x : x \in Range(c) <=> x \in Range(a) \cup Range(b)
  BY <1>3, <1>4, <1>5 DEF Range
<1> QED
  BY <1>6 DEF c

Members(seqs, k) == UNION {Range(seqs[i]) : i \in 1..k}

\* Flattening keeps what the parts have.
LEMMA FlattenRange ==
  ASSUME NEW X, NEW seqs \in Seq(Seq(X)), seqs # <<>>
  PROVE  /\ FlattenSeq(seqs) \in Seq(X)
         /\ Range(FlattenSeq(seqs)) = UNION {Range(seqs[i]) : i \in DOMAIN seqs}
<1> DEFINE n == Len(seqs)
<1>1. PICK flat : /\ FlattenSeq(seqs) = flat[n] /\ flat[1] = seqs[1]
                  /\ \A i \in 2..n : flat[i] = flat[i - 1] \o seqs[i]
  BY FlattenDef
<1>2. /\ n \in Nat /\ n # 0 /\ DOMAIN seqs = 1..n
      /\ \A i \in 1..n : seqs[i] \in Seq(X)
  BY EmptySeq
<1> HIDE DEF n
<1> DEFINE Good(k) == /\ flat[k] \in Seq(X)
                      /\ Range(flat[k]) = Members(seqs, k)
           H == {k \in Nat : k + 1 <= n => Good(k + 1)}
<1>3. 0 \in H
  <2>1. Good(1)
    <3>1. \A x : x \in Members(seqs, 1) <=> \E i \in 1..1 : x \in Range(seqs[i])
      BY Zenon DEF Members
    <3>2. Members(seqs, 1) = Range(seqs[1])
      <4>1. \A i : i \in 1..1 <=> i = 1
        OBVIOUS
      <4>2. \A x : x \in Members(seqs, 1) => x \in Range(seqs[1])
        BY <3>1, <4>1
      <4>3. \A x : x \in Range(seqs[1]) => x \in Members(seqs, 1)
        <5>1. 1 \in 1..1
          OBVIOUS
        <5> QED
          BY <3>1, <5>1, Zenon
      <4> QED
        BY <4>2, <4>3
    <3> QED
      BY <1>1, <1>2, <3>2
  <2> HIDE DEF Good
  <2> QED
    BY <2>1
<1>4. ASSUME NEW k \in H PROVE k + 1 \in H
  <2>1. k \in Nat
    OBVIOUS
  <2> SUFFICES ASSUME (k + 1) + 1 <= n PROVE Good((k + 1) + 1)
    BY <2>1
  <2>2. PICK m \in Nat : m = k + 1
    BY <2>1
  <2>3. Good(m) /\ m + 1 \in 2..n /\ (m + 1) - 1 = m
    <3> HIDE DEF Good
    <3> QED
      BY <1>2, <2>1, <2>2
  <2>4. flat[m + 1] = flat[m] \o seqs[m + 1] /\ seqs[m + 1] \in Seq(X)
    <3>1. m + 1 \in 1..n
      BY <1>2, <2>3
    <3> QED
      BY <1>1, <1>2, <2>3, <3>1
  <2>5. flat[m + 1] \in Seq(X)
    BY <2>3, <2>4, ConcatProperties
  <2>6. Range(flat[m + 1]) = Range(flat[m]) \cup Range(seqs[m + 1])
    BY <2>3, <2>4, ConcatRange
  <2>7. Members(seqs, m + 1) = Members(seqs, m) \cup Range(seqs[m + 1])
    <3>1. \A i : i \in 1..(m + 1) <=> i \in 1..m \/ i = m + 1
      OBVIOUS
    <3>2. \A x, j : x \in Members(seqs, j) <=> \E i \in 1..j : x \in Range(seqs[i])
      BY Zenon DEF Members
    <3>3. \A x : x \in Members(seqs, m + 1) <=> x \in Members(seqs, m) \/ x \in Range(seqs[m + 1])
      BY <3>1, <3>2, Zenon
    <3> QED
      BY <3>3
  <2>8. Range(flat[m + 1]) = Members(seqs, m + 1)
    BY <2>3, <2>6, <2>7
  <2> QED
    BY <2>2, <2>5, <2>8
<1>5. H = Nat
  <2> HIDE DEF H
  <2>1. H \in SUBSET Nat
    BY DEF H
  <2> QED
    BY <1>3, <1>4, <2>1, Induction
<1>6. Good(n)
  <2>1. PICK k \in Nat : k + 1 = n
    <3>1. n - 1 \in Nat /\ (n - 1) + 1 = n
      BY <1>2
    <3> QED
      BY <3>1
  <2>2. k \in H /\ k + 1 <= n
    <3>1. k \in H
      BY <1>5, <2>1, Zenon
    <3> QED
      BY <1>2, <2>1, <3>1
  <2>3. Good(k + 1)
    <3> HIDE DEF Good
    <3> QED
      BY <2>2
  <2> QED
    BY <2>1, <2>3, Zenon
<1> QED
  BY <1>1, <1>2, <1>6, Zenon DEF n, Members
-----------------------------------------------------------------------------
(* Windows *)

\* What a piece of a text is.
LEMMA Pieces ==
  ASSUME NEW X, NEW t \in Seq(X), NEW lo \in 0..Len(t), NEW hi \in lo..Len(t)
  PROVE  /\ Cut(t, lo, hi) \in Seq(X) /\ Len(Cut(t, lo, hi)) = hi - lo
         /\ \A i \in 1..(hi - lo) : Cut(t, lo, hi)[i] = t[lo + i]
<1>1. Len(t) \in Nat /\ lo \in Nat /\ hi \in Nat /\ lo <= hi /\ hi <= Len(t)
  OBVIOUS
<1>2. lo + 1 \in 1..(hi + 1)
  BY <1>1
<1>3. Cut(t, lo, hi) \in Seq(X)
  <2>1. \A i \in (lo + 1)..hi : t[i] \in X
    BY <1>1
  <2> QED
    BY <1>1, <1>2, <2>1 DEF Cut
<1>4. Len(Cut(t, lo, hi)) = hi - lo /\ \A i \in 1..(hi - lo) : Cut(t, lo, hi)[i] = t[lo + i]
  BY <1>1 DEF Cut
<1> QED
  BY <1>3, <1>4

\* Two pieces side by side are one.
LEMMA Adjoined ==
  ASSUME NEW X, NEW t \in Seq(X), NEW a \in 0..Len(t), NEW b \in a..Len(t)
  PROVE  Cut(t, 0, a) \o Cut(t, a, b) = Cut(t, 0, b)
<1>1. Len(t) \in Nat /\ a \in Nat /\ b \in Nat /\ a <= b /\ b <= Len(t)
  OBVIOUS
<1> DEFINE p == Cut(t, 0, a)
           q == Cut(t, a, b)
           r == Cut(t, 0, b)
<1>2. /\ p \in Seq(X) /\ Len(p) = a /\ \A i \in 1..a : p[i] = t[i]
      /\ q \in Seq(X) /\ Len(q) = b - a /\ \A i \in 1..(b - a) : q[i] = t[a + i]
      /\ r \in Seq(X) /\ Len(r) = b /\ \A i \in 1..b : r[i] = t[i]
  <2>1. /\ 0 \in 0..Len(t) /\ a \in 0..Len(t) /\ b \in 0..Len(t)
        /\ a - 0 = a /\ b - 0 = b
    BY <1>1
  <2>2. p \in Seq(X) /\ Len(p) = a - 0 /\ \A i \in 1..(a - 0) : p[i] = t[0 + i]
    BY <2>1, Pieces, Zenon
  <2>3. q \in Seq(X) /\ Len(q) = b - a /\ \A i \in 1..(b - a) : q[i] = t[a + i]
    BY <2>1, Pieces, Zenon
  <2>4. r \in Seq(X) /\ Len(r) = b - 0 /\ \A i \in 1..(b - 0) : r[i] = t[0 + i]
    BY <2>1, Pieces, Zenon
  <2>5. \A i \in Nat : 0 + i = i
    OBVIOUS
  <2> HIDE DEF p, q, r
  <2> QED
    BY <1>1, <2>1, <2>2, <2>3, <2>4, <2>5
<1> HIDE DEF p, q, r
<1>3. /\ p \o q \in Seq(X) /\ Len(p \o q) = b
      /\ \A i \in 1..b : (p \o q)[i] = IF i <= a THEN p[i] ELSE q[i - a]
  <2>1. a + (b - a) = b
    BY <1>1
  <2> QED
    BY <1>2, <2>1, ConcatProperties
<1>4. ASSUME NEW i \in 1..b PROVE (p \o q)[i] = r[i]
  <2>1. CASE i <= a
    <3>1. i \in 1..a
      BY <1>1, <2>1
    <3>2. (p \o q)[i] = p[i]
      BY <1>3, <2>1
    <3> QED
      BY <1>2, <3>1, <3>2
  <2>2. CASE ~(i <= a)
    <3>1. i - a \in 1..(b - a) /\ a + (i - a) = i
      BY <1>1, <2>2
    <3> QED
      BY <1>2, <1>3, <2>2, <3>1
  <2> QED
    BY <2>1, <2>2
<1>5. p \o q = r
  BY <1>1, <1>2, <1>3, <1>4, SeqEqual
<1> QED
  BY <1>5 DEF p, q, r

\* A window ends after its beginning, in the chapter, and no further than the
\* model can take.
LEMMA Ended ==
  ASSUME NEW X, NEW t \in Seq(X), NEW lo \in 0..Len(t), lo # Len(t), NEW max \in Nat \ {0}
  PROVE  /\ WindowEnd(t, lo, max) \in (lo + 1)..Len(t)
         /\ WindowEnd(t, lo, max) - lo <= max
<1> DEFINE rest == Cut(t, lo, Len(t))
           n == Len(rest)
           fits == {i \in Ends(rest) : \A j \in Ends(rest) : j <= i => Count(Cut(rest, 0, j)) <= max}
           hard == {i \in 1..Len(rest) : Count(Cut(rest, 0, i)) <= max}
<1>1. Len(t) \in Nat /\ lo \in Nat /\ lo < Len(t) /\ Len(t) \in lo..Len(t) /\ max \in Nat /\ 1 <= max
  OBVIOUS
<1>2. rest \in Seq(X) /\ Len(rest) = Len(t) - lo
  BY <1>1, Pieces
<1>3. n \in Nat /\ n = Len(t) - lo /\ 1 <= n /\ lo + n = Len(t)
  BY <1>1, <1>2
<1> HIDE DEF rest
<1>4. \A i \in 1..n : Count(Cut(rest, 0, i)) = i
  <2> TAKE i \in 1..n
  <2>1. 0 \in 0..Len(rest) /\ i \in 0..Len(rest) /\ i - 0 = i
    BY <1>3
  <2>2. Len(Cut(rest, 0, i)) = i - 0
    BY <1>2, <2>1, Pieces
  <2> QED
    BY <2>1, <2>2 DEF Count
<1>5. Ends(rest) \subseteq 1..n
  BY DEF Ends
<1> HIDE DEF n
<1>6. CASE Count(rest) <= max
  <2>1. WindowEnd(t, lo, max) = Len(t)
    BY <1>6 DEF WindowEnd, rest
  <2> QED
    BY <1>1, <1>3, <1>6, <2>1 DEF Count, n
<1>7. ASSUME NEW k \in 1..n, k <= max
      PROVE  lo + k \in (lo + 1)..Len(t) /\ (lo + k) - lo <= max
  BY <1>1, <1>3, <1>7
<1>8. CASE ~(Count(rest) <= max) /\ fits # {}
  <2>1. WindowEnd(t, lo, max) = lo + Max(fits)
    BY <1>8, Zenon DEF WindowEnd, rest
  <2>2. fits \in SUBSET (0..n)
    BY <1>3, <1>5
  <2> HIDE DEF fits
  <2>3. Max(fits) \in fits
    BY <1>3, <1>8, <2>2, Extremes
  <2>4. PICK k \in fits : k = Max(fits)
    BY <2>3
  <2>5. k \in Ends(rest) /\ k \in 1..n /\ k <= k
    BY <1>3, <1>5 DEF fits
  <2>6. k <= max
    BY <1>4, <2>5 DEF fits
  <2> QED
    BY <1>7, <2>1, <2>4, <2>5, <2>6
<1>9. CASE ~(Count(rest) <= max) /\ ~(fits # {})
  <2> DEFINE T == {1} \cup hard
  <2>1. WindowEnd(t, lo, max) = lo + Max(T)
    BY <1>9, Zenon DEF WindowEnd, rest
  <2>2. T \in SUBSET (0..n) /\ T # {}
    BY <1>3 DEF n
  <2>3. \A x \in T : x \in 1..n /\ x <= max
    <3>1. 1 \in 1..n /\ 1 <= max
      BY <1>1, <1>3
    <3>2. \A x \in hard : x \in 1..n /\ x <= max
      BY <1>4 DEF n
    <3> QED
      BY <3>1, <3>2
  <2> HIDE DEF T
  <2>4. Max(T) \in T
    BY <1>3, <2>2, Extremes
  <2>5. PICK k \in T : k = Max(T)
    BY <2>4
  <2> QED
    BY <1>7, <2>1, <2>3, <2>5
<1> QED
  BY <1>6, <1>8, <1>9

\* Windows that lie side by side, from lo to the end of a text of n characters.
Tiling(w, lo, n, max) ==
  /\ w \in Seq(Nat \X Nat)
  /\ w = <<>> <=> lo = n
  /\ w # <<>> => w[1][1] = lo /\ w[Len(w)][2] = n
  /\ \A i \in DOMAIN w : lo <= w[i][1] /\ w[i][1] < w[i][2] /\ w[i][2] <= n
                         /\ w[i][2] - w[i][1] <= max
  /\ \A i, j \in DOMAIN w : i < j => w[i][2] <= w[j][1]
  /\ \A i \in 1..(Len(w) - 1) : w[i + 1][1] = w[i][2]

\* One more window in front.
LEMMA Fronted ==
  ASSUME NEW n \in Nat, NEW max \in Nat, NEW lo \in Nat, NEW e \in Nat, NEW w, Tiling(w, e, n, max),
         lo < e, e <= n, e - lo <= max
  PROVE  Tiling(<<<<lo, e>>>> \o w, lo, n, max)
<1> DEFINE f == <<<<lo, e>>>>
           v == f \o w
<1>1. f \in Seq(Nat \X Nat) /\ Len(f) = 1 /\ f[1] = <<lo, e>>
  OBVIOUS
<1>2. w \in Seq(Nat \X Nat) /\ Len(w) \in Nat /\ DOMAIN w = 1..Len(w)
  BY DEF Tiling
<1> HIDE DEF f
<1>3. /\ v \in Seq(Nat \X Nat) /\ Len(v) = 1 + Len(w)
      /\ \A i \in 1..(1 + Len(w)) : v[i] = IF i <= 1 THEN f[i] ELSE w[i - 1]
  <2>1. /\ v \in Seq(Nat \X Nat) /\ Len(v) = Len(f) + Len(w)
        /\ \A i \in 1..(Len(f) + Len(w)) : v[i] = IF i <= Len(f) THEN f[i] ELSE w[i - Len(f)]
    BY <1>1, <1>2, ConcatProperties
  <2> QED
    BY <1>1, <2>1
<1> HIDE DEF v
<1>4. v[1][1] = lo /\ v[1][2] = e /\ DOMAIN v = 1..Len(v) /\ 1 \in DOMAIN v
  <2>1. 1 \in 1..(1 + Len(w))
    BY <1>2
  <2> QED
    BY <1>1, <1>3, <2>1
<1>5. ASSUME NEW i \in DOMAIN v
      PROVE  i = 1 \/ (i - 1 \in DOMAIN w /\ v[i] = w[i - 1])
  <2>1. i \in 1..(1 + Len(w))
    BY <1>3, <1>4
  <2>2. i = 1 \/ (~(i <= 1) /\ i - 1 \in 1..Len(w))
    BY <1>2, <2>1
  <2> QED
    BY <1>2, <1>3, <2>1, <2>2
<1>6. \A i \in DOMAIN w : w[i][1] \in Nat /\ w[i][2] \in Nat
  BY <1>2
<1>7. v # <<>>
  BY <1>2, <1>3, EmptySeq
<1>8. v[Len(v)][2] = n
  <2>1. CASE w = <<>>
    <3>1. Len(v) = 1
      BY <1>3, <2>1
    <3> QED
      BY <1>4, <2>1, <3>1 DEF Tiling
  <2>2. CASE w # <<>>
    <3>1. Len(w) # 0
      BY <1>2, <2>2, EmptySeq
    <3>2. v[1 + Len(w)] = w[Len(w)]
      <4>1. 1 + Len(w) \in 1..(1 + Len(w)) /\ ~(1 + Len(w) <= 1) /\ (1 + Len(w)) - 1 = Len(w)
        BY <1>2, <3>1
      <4> QED
        BY <1>3, <4>1
    <3> QED
      BY <1>3, <2>2, <3>2 DEF Tiling
  <2> QED
    BY <2>1, <2>2
<1>9. ASSUME NEW i \in DOMAIN v
      PROVE  lo <= v[i][1] /\ v[i][1] < v[i][2] /\ v[i][2] <= n /\ v[i][2] - v[i][1] <= max
  <2>1. CASE i = 1
    BY <1>4, <2>1
  <2>2. CASE i - 1 \in DOMAIN w /\ v[i] = w[i - 1]
    <3>1. e <= v[i][1] /\ v[i][1] < v[i][2] /\ v[i][2] <= n /\ v[i][2] - v[i][1] <= max
      BY <2>2 DEF Tiling
    <3> QED
      BY <1>6, <2>2, <3>1
  <2> QED
    BY <1>5, <2>1, <2>2
<1>10. ASSUME NEW i \in DOMAIN v, NEW j \in DOMAIN v, i < j PROVE v[i][2] <= v[j][1]
  <2>1. i \in Nat /\ j \in Nat /\ i > 0 /\ j # 1
    <3>1. i \in 1..(1 + Len(w)) /\ j \in 1..(1 + Len(w))
      BY <1>3, <1>4
    <3> QED
      BY <1>2, <1>10, <3>1
  <2>2. j - 1 \in DOMAIN w /\ v[j] = w[j - 1]
    BY <1>5, <2>1
  <2>3. CASE i = 1
    BY <1>4, <2>2, <2>3 DEF Tiling
  <2>4. CASE i # 1
    <3>1. i - 1 \in DOMAIN w /\ v[i] = w[i - 1] /\ i - 1 < j - 1
      BY <1>5, <1>10, <2>1, <2>4
    <3> QED
      BY <2>2, <3>1 DEF Tiling
  <2> QED
    BY <2>3, <2>4
<1>11. ASSUME NEW i \in 1..(Len(v) - 1) PROVE v[i + 1][1] = v[i][2]
  <2>1. i \in Nat /\ i > 0 /\ i <= Len(w) /\ i + 1 \in 1..(1 + Len(w)) /\ ~(i + 1 <= 1)
        /\ (i + 1) - 1 = i /\ i \in 1..(1 + Len(w))
    BY <1>2, <1>3
  <2>2. v[i + 1] = w[i]
    BY <1>3, <2>1
  <2>3. CASE i = 1
    <3>1. w # <<>>
      BY <2>1, <2>3
    <3> QED
      BY <1>4, <2>2, <2>3, <3>1 DEF Tiling
  <2>4. CASE i # 1
    <3>1. PICK k \in Nat : i = k + 1
      <4>1. i - 1 \in Nat /\ i = (i - 1) + 1
        BY <2>1
      <4> QED
        BY <4>1
    <3>2. k \in 1..(Len(w) - 1)
      BY <1>2, <2>1, <2>4, <3>1
    <3>3. v[i] = w[k]
      <4>1. i - 1 = k /\ ~(i <= 1)
        BY <2>1, <2>4, <3>1
      <4> QED
        BY <1>3, <2>1, <4>1
    <3>4. w[k + 1][1] = w[k][2]
      BY <3>2 DEF Tiling
    <3> QED
      BY <2>2, <3>1, <3>3, <3>4
  <2> QED
    BY <2>3, <2>4
<1>12. ~(lo = n)
  OBVIOUS
<1>13. Tiling(v, lo, n, max)
  <2>1. v = <<>> <=> lo = n
    BY <1>7, <1>12
  <2> QED
    BY <1>3, <1>4, <1>8, <1>9, <1>10, <1>11, <2>1 DEF Tiling
<1> QED
  BY <1>13 DEF v, f

\* Cutting a text at the ends of its windows: what Split computes.
LEMMA SplitDef ==
  ASSUME NEW X, NEW t \in Seq(X), NEW max \in Nat \ {0}
  PROVE  \E from : /\ Split(t, max) = from[0] /\ from[Len(t)] = <<>>
                   /\ \A lo \in 0..Len(t) : lo # Len(t) =>
                        from[lo] = <<<<lo, WindowEnd(t, lo, max)>>>> \o from[WindowEnd(t, lo, max)]
<1> DEFINE n == Len(t)
           E(lo) == WindowEnd(t, lo, max)
           Step(h, lo) == IF lo = n THEN <<>> ELSE <<<<lo, E(lo)>>>> \o h[E(lo)]
           Is(h, k) == \A lo \in 0..n : n - lo <= k => h[lo] = Step(h, lo)
           Fun(h) == h = [lo \in 0..n |-> Step(h, lo)]
           G == {k \in Nat : \E h : Is(h, k)}
<1>1. n \in Nat
  OBVIOUS
<1>2. ASSUME NEW lo \in 0..n, lo # n PROVE E(lo) \in 0..n /\ n - E(lo) < n - lo
  <2>1. E(lo) \in (lo + 1)..n
    BY <1>2, Ended
  <2> HIDE DEF E
  <2> QED
    BY <1>1, <2>1
<1> HIDE DEF n, E
<1>3. ASSUME NEW lo \in 0..n, NEW g, NEW h, \A x \in 0..n : n - x < n - lo => g[x] = h[x]
      PROVE  Step(g, lo) = Step(h, lo)
  BY <1>2, <1>3
<1>4. 0 \in G
  <2> DEFINE h == [lo \in 0..n |-> <<>>]
  <2>1. \A lo \in 0..n : n - lo <= 0 => lo = n
    BY <1>1
  <2>2. Is(h, 0)
    BY <2>1
  <2> HIDE DEF Is
  <2> QED
    BY <2>2
<1>5. ASSUME NEW k \in G PROVE k + 1 \in G
  <2>1. PICK g : Is(g, k)
    OBVIOUS
  <2>2. k \in Nat /\ k + 1 \in Nat
    OBVIOUS
  <2> DEFINE h == [lo \in 0..n |-> IF n - lo <= k THEN g[lo] ELSE Step(g, lo)]
  <2> HIDE DEF Step
  <2>3. \A lo \in 0..n : n - lo <= k => h[lo] = g[lo]
    OBVIOUS
  <2>4. \A lo \in 0..n : h[lo] = Step(g, lo)
    BY <2>1
  <2>5. ASSUME NEW lo \in 0..n, n - lo <= k + 1 PROVE h[lo] = Step(h, lo)
    <3> HIDE DEF h
    <3>1. \A x \in 0..n : n - x < n - lo => g[x] = h[x]
      BY <1>1, <2>2, <2>3, <2>5
    <3>2. Step(g, lo) = Step(h, lo)
      BY <1>3, <3>1
    <3> QED
      BY <2>4, <3>2
  <2> HIDE DEF h
  <2>6. Is(h, k + 1)
    BY <2>5
  <2> HIDE DEF Is
  <2> QED
    BY <2>2, <2>6
<1>6. G = Nat
  <2> HIDE DEF G
  <2>1. G \in SUBSET Nat
    BY DEF G
  <2> QED
    BY <1>4, <1>5, <2>1, Induction
<1>7. PICK h : Is(h, n)
  <2> HIDE DEF Is
  <2> QED
    BY <1>1, <1>6
<1> DEFINE all == [lo \in 0..n |-> h[lo]]
<1>8. \A lo \in 0..n : all[lo] = Step(all, lo)
  <2> TAKE lo \in 0..n
  <2>1. n - lo <= n
    BY <1>1
  <2>2. h[lo] = Step(h, lo)
    BY <1>7, <2>1
  <2>3. \A x \in 0..n : all[x] = h[x]
    OBVIOUS
  <2> HIDE DEF Step, all
  <2>4. Step(h, lo) = Step(all, lo)
    BY <1>3, <2>3
  <2> QED
    BY <2>2, <2>3, <2>4
<1>9. Fun(all)
  <2>1. all = [lo \in 0..n |-> all[lo]]
    OBVIOUS
  <2> HIDE DEF all, Step
  <2> QED
    BY <1>8, <2>1
<1> DEFINE from == CHOOSE g : Fun(g)
<1>10. Fun(from)
  <2> HIDE DEF Fun, all
  <2> QED
    BY <1>9, Zenon
<1>11. Split(t, max) = from[0]
  BY Zenon DEF Split, n, E
<1> HIDE DEF from
<1>12. \A lo \in 0..n : from[lo] = Step(from, lo)
  <2> HIDE DEF Step
  <2> QED
    BY <1>10
<1>13. n \in 0..n
  BY <1>1
<1> QED
  BY <1>11, <1>12, <1>13, Zenon DEF n, E

\* The windows of a text lie side by side and take it all.
LEMMA Tiled ==
  ASSUME NEW X, NEW t \in Seq(X), NEW max \in Nat \ {0}
  PROVE  Tiling(Split(t, max), 0, Len(t), max)
<1> DEFINE n == Len(t)
           E(lo) == WindowEnd(t, lo, max)
<1>1. n \in Nat /\ max \in Nat
  OBVIOUS
<1>2. PICK from : /\ Split(t, max) = from[0] /\ from[n] = <<>>
                  /\ \A lo \in 0..n : lo # n => from[lo] = <<<<lo, E(lo)>>>> \o from[E(lo)]
  BY SplitDef
<1>3. \A lo \in 0..n : lo # n => E(lo) \in (lo + 1)..n /\ E(lo) - lo <= max
  BY Ended
<1> HIDE DEF n, E
<1> DEFINE H == {k \in Nat : \A lo \in 0..n : n - lo <= k => Tiling(from[lo], lo, n, max)}
<1>4. Tiling(<<>>, n, n, max)
  BY <1>1 DEF Tiling
<1>5. 0 \in H
  <2>1. \A lo \in 0..n : n - lo <= 0 => lo = n
    BY <1>1
  <2> QED
    BY <1>2, <1>4, <2>1
<1>6. ASSUME NEW k \in H PROVE k + 1 \in H
  <2>1. k \in Nat
    OBVIOUS
  <2> SUFFICES ASSUME NEW lo \in 0..n, n - lo <= k + 1 PROVE Tiling(from[lo], lo, n, max)
    OBVIOUS
  <2>2. CASE lo = n
    BY <1>2, <1>4, <2>2
  <2>3. CASE lo # n
    <3>1. /\ E(lo) \in Nat /\ lo \in Nat /\ lo < E(lo) /\ E(lo) <= n /\ E(lo) - lo <= max
          /\ E(lo) \in 0..n /\ n - E(lo) <= k
      BY <1>1, <1>3, <2>1, <2>3
    <3>2. Tiling(from[E(lo)], E(lo), n, max)
      BY <3>1
    <3>3. Tiling(<<<<lo, E(lo)>>>> \o from[E(lo)], lo, n, max)
      BY <1>1, <3>1, <3>2, Fronted
    <3> QED
      BY <1>2, <2>3, <3>3
  <2> QED
    BY <2>2, <2>3
<1>7. H = Nat
  <2> HIDE DEF H
  <2>1. H \in SUBSET Nat
    BY DEF H
  <2> QED
    BY <1>5, <1>6, <2>1, Induction
<1>8. Tiling(from[0], 0, n, max)
  <2>1. n \in H
    BY <1>1, <1>7, Zenon
  <2>2. 0 \in 0..n /\ n - 0 <= n
    BY <1>1
  <2> QED
    BY <2>1, <2>2
<1> QED
  BY <1>2, <1>8 DEF n

\* The pieces of a text between the ends of its windows, put together, are the text.
LEMMA Whole ==
  ASSUME NEW X, NEW t \in Seq(X), NEW max \in Nat, NEW w, Tiling(w, 0, Len(t), max)
  PROVE  FlattenSeq([i \in DOMAIN w |-> Cut(t, w[i][1], w[i][2])]) = t
<1> DEFINE n == Len(t)
           cuts == [i \in DOMAIN w |-> Cut(t, w[i][1], w[i][2])]
<1>1. /\ n \in Nat /\ w \in Seq(Nat \X Nat) /\ Len(w) \in Nat /\ DOMAIN w = 1..Len(w)
      /\ \A i \in DOMAIN w : w[i][1] \in Nat /\ w[i][2] \in Nat
  BY DEF Tiling
<1>2. ASSUME NEW i \in DOMAIN w
      PROVE  w[i][1] \in 0..n /\ w[i][2] \in w[i][1]..n /\ w[i][2] \in 0..n
  <2>1. w[i][1] < w[i][2] /\ w[i][2] <= n
    BY DEF Tiling
  <2> QED
    BY <1>1, <2>1
<1>3. cuts \in Seq(Seq(X)) /\ Len(cuts) = Len(w)
  <2>1. \A i \in DOMAIN w : Cut(t, w[i][1], w[i][2]) \in Seq(X)
    <3> TAKE i \in DOMAIN w
    <3>1. w[i][1] \in 0..Len(t) /\ w[i][2] \in w[i][1]..Len(t)
      BY <1>2
    <3> QED
      BY <3>1, Pieces
  <2> QED
    BY <1>1, <2>1
<1>4. CASE w = <<>>
  <2>1. t = <<>> /\ cuts = <<>>
    <3>1. 0 = n
      BY <1>4 DEF Tiling
    <3> QED
      BY <1>1, <1>3, <1>4, <3>1, EmptySeq
  <2>2. FlattenSeq(<<>>) = <<>>
    BY Zenon, EmptySeq DEF FlattenSeq
  <2> QED
    BY <2>1, <2>2
<1>5. CASE w # <<>>
  <2>1. Len(w) # 0 /\ cuts # <<>>
    BY <1>1, <1>3, <1>5, EmptySeq
  <2>2. PICK flat : /\ FlattenSeq(cuts) = flat[Len(cuts)] /\ flat[1] = cuts[1]
                    /\ \A i \in 2..Len(cuts) : flat[i] = flat[i - 1] \o cuts[i]
    BY <1>3, <2>1, FlattenDef
  <2>3. \A i \in DOMAIN w : cuts[i] = Cut(t, w[i][1], w[i][2])
    OBVIOUS
  <2> HIDE DEF cuts, n
  <2> DEFINE Good(k) == flat[k] = Cut(t, 0, w[k][2])
             H == {k \in Nat : k + 1 <= Len(w) => Good(k + 1)}
  <2>4. 0 \in H
    <3>1. 1 \in DOMAIN w /\ w[1][1] = 0
      BY <1>1, <1>5, <2>1 DEF Tiling
    <3>2. Good(1)
      BY <2>2, <2>3, <3>1
    <3> HIDE DEF Good
    <3> QED
      BY <3>2
  <2>5. ASSUME NEW k \in H PROVE k + 1 \in H
    <3>1. k \in Nat
      OBVIOUS
    <3> SUFFICES ASSUME (k + 1) + 1 <= Len(w) PROVE Good((k + 1) + 1)
      BY <3>1
    <3>2. PICK m \in Nat : m = k + 1
      BY <3>1
    <3>3. /\ Good(m) /\ m + 1 \in 2..Len(w) /\ (m + 1) - 1 = m
          /\ m \in DOMAIN w /\ m + 1 \in DOMAIN w /\ m \in 1..(Len(w) - 1)
      <4> HIDE DEF Good
      <4> QED
        BY <1>1, <3>1, <3>2
    <3>4. PICK p \in DOMAIN w : p = m + 1
      BY <3>3
    <3>5. w[p][1] = w[m][2]
      BY <3>3, <3>4 DEF Tiling
    <3>6. flat[p] = Cut(t, 0, w[m][2]) \o Cut(t, w[m][2], w[p][2])
      <4>1. flat[p] = flat[m] \o cuts[p]
        BY <1>3, <2>2, <3>3, <3>4
      <4> QED
        BY <2>3, <3>3, <3>5, <4>1
    <3>7. w[m][2] \in 0..Len(t) /\ w[p][2] \in w[m][2]..Len(t)
      <4>1. w[m][2] \in 0..n /\ w[p][2] \in w[p][1]..n
        BY <1>2, <3>3
      <4> QED
        BY <3>5, <4>1 DEF n
    <3>8. Good(p)
      BY <3>6, <3>7, Adjoined
    <3> HIDE DEF Good
    <3> QED
      BY <3>2, <3>4, <3>8
  <2>6. H = Nat
    <3> HIDE DEF H
    <3>1. H \in SUBSET Nat
      BY DEF H
    <3> QED
      BY <2>4, <2>5, <3>1, Induction
  <2>7. Good(Len(w))
    <3>1. PICK k \in Nat : k + 1 = Len(w)
      <4>1. Len(w) - 1 \in Nat /\ (Len(w) - 1) + 1 = Len(w)
        BY <1>1, <2>1
      <4> QED
        BY <4>1
    <3>2. k \in H /\ k + 1 <= Len(w)
      <4>1. k \in H
        BY <2>6, <3>1, Zenon
      <4> QED
        BY <1>1, <3>1, <4>1
    <3>3. Good(k + 1)
      <4> HIDE DEF Good
      <4> QED
        BY <3>2
    <3> QED
      BY <3>1, <3>3, Zenon
  <2>8. w[Len(w)][2] = n
    BY <1>5 DEF Tiling, n
  <2>9. Cut(t, 0, n) = t
    <3>1. n \in 0..Len(t) /\ 0 \in 0..Len(t) /\ n - 0 = Len(t) /\ n = Len(t)
      BY <1>1 DEF n
    <3>2. Cut(t, 0, n) \in Seq(X) /\ Len(Cut(t, 0, n)) = n - 0
          /\ \A i \in 1..(n - 0) : Cut(t, 0, n)[i] = t[0 + i]
      BY <3>1, Pieces
    <3>3. \A i \in 1..Len(t) : Cut(t, 0, n)[i] = t[i]
      BY <1>1, <3>1, <3>2
    <3> QED
      BY <3>1, <3>2, <3>3, SeqEqual
  <2>10. FlattenSeq(cuts) = t
    BY <1>3, <2>2, <2>7, <2>8, <2>9
  <2> QED
    BY <2>10 DEF cuts
<1> QED
  BY <1>4, <1>5

\* What a draft keeps of its windows is enough to find them again.
LEMMA Found ==
  ASSUME NEW X, NEW t \in Seq(X), NEW max \in Nat, NEW w, w # <<>>, Tiling(w, 0, Len(t), max)
  PROVE  RefSpans(t, Refs(t, w)) = w
<1> DEFINE n == Len(t)
           refs == Refs(t, w)
           Later(i) == {refs[j].offset : j \in {k \in DOMAIN refs : refs[k].offset > refs[i].offset}}
           End(i) == Min({n} \cup Later(i))
<1>1. /\ n \in Nat /\ w \in Seq(Nat \X Nat) /\ Len(w) \in Nat /\ DOMAIN w = 1..Len(w)
      /\ \A i \in DOMAIN w : w[i] = <<w[i][1], w[i][2]>> /\ w[i][1] \in Nat /\ w[i][2] \in Nat
  BY DEF Tiling
<1>2. /\ DOMAIN refs = DOMAIN w
      /\ \A i \in DOMAIN w : refs[i] = [offset |-> w[i][1], hash |-> Cut(t, w[i][1], w[i][2])]
  BY DEF Refs
<1>3. \A i \in DOMAIN w : refs[i].offset = w[i][1] /\ refs[i].hash = Cut(t, w[i][1], w[i][2])
  BY <1>2
<1>4. refs # <<>>
  <2>1. w \in Seq(Nat \X Nat) /\ Len(w) # 0
    BY <1>1, EmptySeq
  <2>2. 1 \in DOMAIN refs
    BY <1>1, <1>2, <2>1
  <2> HIDE DEF refs
  <2> QED
    BY <2>2
<1> HIDE DEF refs
<1>5. \A i, j \in DOMAIN w : i < j => w[i][2] <= w[j][1]
  BY DEF Tiling
<1>6. \A i \in DOMAIN w : w[i][1] < w[i][2] /\ w[i][2] <= n
  BY DEF Tiling
<1>7. ASSUME NEW i \in DOMAIN w, NEW j \in DOMAIN w, w[j][1] > w[i][1] PROVE w[i][2] <= w[j][1]
  <2>1. i \in Nat /\ j \in Nat
    BY <1>1
  <2>2. CASE i < j
    BY <1>5, <2>2
  <2>3. CASE i = j
    BY <1>1, <1>7, <2>3
  <2>4. CASE j < i
    <3>1. w[j][2] <= w[i][1] /\ w[j][1] < w[j][2]
      BY <1>5, <1>6, <2>4
    <3> QED
      BY <1>1, <1>7, <3>1
  <2> QED
    BY <2>1, <2>2, <2>3, <2>4
<1>8. ASSUME NEW i \in DOMAIN w PROVE End(i) = w[i][2]
  <2> DEFINE T == {n} \cup Later(i)
  <2>1. Later(i) = {w[j][1] : j \in {k \in DOMAIN w : w[k][1] > w[i][1]}}
    BY <1>2, <1>3
  <2>2. ASSUME NEW x \in T PROVE x \in 0..n /\ w[i][2] <= x
    <3>1. CASE x = n
      BY <1>1, <1>6, <3>1
    <3>2. ASSUME NEW j \in DOMAIN w, w[j][1] > w[i][1], x = w[j][1] PROVE x \in 0..n /\ w[i][2] <= x
      <4>1. w[i][2] <= w[j][1]
        BY <1>7, <3>2
      <4>2. w[j][1] < w[j][2] /\ w[j][2] <= n
        BY <1>6
      <4> QED
        BY <1>1, <3>2, <4>1, <4>2
    <3> QED
      BY <2>1, <3>1, <3>2
  <2>3. w[i][2] \in T
    <3>1. CASE i = Len(w)
      <4>1. w[i][2] = n
        BY <3>1 DEF Tiling
      <4> QED
        BY <4>1
    <3>2. CASE i # Len(w)
      <4>6. Len(w) \in Nat /\ DOMAIN w = 1..Len(w)
        BY <1>1
      <4>1. i \in 1..(Len(w) - 1) /\ i + 1 \in DOMAIN w
        <5> HIDE DEF refs, n, T, End, Later
        <5> QED
          BY <3>2, <4>6
      <4>2. PICK j \in DOMAIN w : j = i + 1
        BY <4>1
      <4>3. w[j][1] = w[i][2]
        BY <4>1, <4>2 DEF Tiling
      <4>4. w[j][1] > w[i][1]
        BY <1>1, <1>6, <4>3
      <4>5. w[j][1] \in Later(i)
        BY <2>1, <4>4
      <4> QED
        BY <4>3, <4>5
    <3> QED
      BY <3>1, <3>2
  <2>4. T \in SUBSET (0..n)
    BY <2>2
  <2> HIDE DEF T
  <2>5. Min(T) \in T /\ \A x \in T : Min(T) <= x
    BY <1>1, <2>3, <2>4, Extremes
  <2>6. PICK x \in T : x = Min(T)
    BY <2>5
  <2>7. Min(T) = w[i][2]
    <3>1. x <= w[i][2] /\ w[i][2] <= x
      BY <2>2, <2>3, <2>5, <2>6
    <3>2. x \in Nat /\ w[i][2] \in Nat
      BY <1>1, <2>2
    <3> QED
      BY <2>6, <3>1, <3>2
  <2> QED
    BY <2>7 DEF T
<1>9. \A i \in DOMAIN refs : refs[i].offset <= n /\ Cut(t, refs[i].offset, End(i)) = refs[i].hash
  <2> HIDE DEF End
  <2>1. \A i \in DOMAIN w : w[i][1] <= n
    BY <1>1, <1>6
  <2> QED
    BY <1>2, <1>3, <1>8, <2>1
<1>10. RefSpans(t, refs) = [i \in DOMAIN refs |-> <<refs[i].offset, End(i)>>]
  BY <1>4, <1>9, Zenon DEF RefSpans
<1>11. [i \in DOMAIN refs |-> <<refs[i].offset, End(i)>>] = w
  <2> HIDE DEF End
  <2>1. \A i \in DOMAIN w : <<refs[i].offset, End(i)>> = w[i]
    BY <1>1, <1>3, <1>8
  <2>2. w = [i \in DOMAIN w |-> w[i]]
    BY <1>1
  <2> QED
    BY <1>2, <2>1, <2>2
<1> QED
  BY <1>10, <1>11 DEF refs

-----------------------------------------------------------------------------
(* The inductive invariant *)

\* What a chapter is cut into never changes; requests are counted from 0.
Shape ==
  /\ text \in Texts /\ windows = Split(text, Window)
  /\ asked \in [DOMAIN windows -> Nat] /\ again \subseteq DOMAIN windows
  /\ part \in [DOMAIN windows -> Answers \cup {Bad, Null}]
  /\ calls \in Nat /\ booked \in Nat

\* A call is in the usage already or was made in this round.  A window that is not
\* asked in this round has its answer, and when process has returned a draft or
\* given the chapter up, the others have theirs: no call comes after the last.
Counted ==
  /\ result.status = "running" => calls = booked + Total(asked, again)
  /\ result.status \in {"running", "valid"} => \A i \in DOMAIN windows \ again : part[i] # Null
  /\ result.status \in {"valid", "invalid"} => booked = calls /\ \A i \in again : part[i] # Null

\* A valid draft is made of the answers that still stand, less the claims whose ids
\* are read off the issues on record.
Made ==
  result.status = "valid" =>
    /\ windows # <<>> /\ \A i \in DOMAIN windows : part[i] \in Answers
    /\ Valid(Merged) /\ result.draft.mentions = Merged.mentions
    /\ result.draft.claims = {c \in Range(Merged.claims) : c.id \notin MissingIds(issues)}
    /\ issues = QuoteIssues(Merged)
    /\ result.refs = Refs(text, windows)

MapInv == Shape /\ Counted /\ Made

\* The windows of a chapter.
LEMMA Windows ==
  ASSUME Shape
  PROVE  /\ text \in Seq(Range(text)) /\ Tiling(windows, 0, Len(text), Window)
         /\ windows \in Seq(Nat \X Nat) /\ Len(windows) \in Nat
         /\ DOMAIN windows = 1..Len(windows) /\ IsFiniteSet(DOMAIN windows)
         /\ \A S \in SUBSET DOMAIN windows : IsFiniteSet(S)
<1>1. text \in Seq(Range(text)) /\ Window \in Nat \ {0}
  BY MapAssumption DEF Shape
<1>2. Tiling(windows, 0, Len(text), Window)
  BY <1>1, Tiled DEF Shape
<1>3. windows \in Seq(Nat \X Nat) /\ Len(windows) \in Nat /\ DOMAIN windows = 1..Len(windows)
  BY <1>2 DEF Tiling
<1>4. IsFiniteSet(DOMAIN windows)
  <2>1. 1 \in Int /\ Len(windows) \in Int
    BY <1>3
  <2> QED
    BY <1>3, <2>1, FS_Interval
<1> QED
  BY <1>1, <1>2, <1>3, <1>4, FS_Subset

\* Claims of a merged draft are those of its parts.
LEMMA MergedClaims ==
  ASSUME Shape, windows # <<>>, \A i \in DOMAIN windows : part[i] \in Answers
  PROVE  Range(Merged.claims) = Answered
<1> DEFINE ps == [i \in DOMAIN windows |-> part[i]]
           cs == [i \in DOMAIN ps |-> ps[i].claims]
<1>1. Len(windows) \in Nat /\ DOMAIN windows = 1..Len(windows) /\ windows \in Seq(Nat \X Nat)
  BY Windows
<1>2. Merged.claims = FlattenSeq(cs)
  BY DEF Merged, Merge
<1>3. DOMAIN cs = DOMAIN windows /\ \A i \in DOMAIN windows : cs[i] = part[i].claims
  OBVIOUS
<1>4. DOMAIN part = DOMAIN windows
  BY DEF Shape
<1>5. \A i \in DOMAIN windows : cs[i] \in Seq(Answered)
  <2> TAKE i \in DOMAIN windows
  <2>1. part[i].claims \in Seq(Range(part[i].claims))
    BY MapAssumption
  <2>2. Range(part[i].claims) \subseteq Answered
    BY <1>4 DEF Answered
  <2> HIDE DEF cs
  <2> QED
    BY <1>3, <2>1, <2>2
<1>6. Len(windows) # 0
  BY <1>1, EmptySeq
<1>7. cs \in Seq(Seq(Answered)) /\ cs # <<>>
  <2>1. cs = [i \in 1..Len(windows) |-> cs[i]]
    BY <1>1, <1>3
  <2>2. 1 \in DOMAIN cs
    BY <1>1, <1>3, <1>6
  <2> HIDE DEF cs
  <2>3. cs \in Seq(Seq(Answered))
    BY <1>1, <1>5, <2>1
  <2> QED
    BY <2>2, <2>3
<1> HIDE DEF cs
<1>8. Range(FlattenSeq(cs)) = UNION {Range(cs[i]) : i \in DOMAIN cs}
  BY <1>7, FlattenRange
<1>9. UNION {Range(cs[i]) : i \in DOMAIN cs} = Answered
  <2>1. \A x : x \in UNION {Range(cs[i]) : i \in DOMAIN cs} <=> \E i \in DOMAIN cs : x \in Range(cs[i])
    BY Zenon
  <2>2. \A x : x \in Answered <=> \E i \in DOMAIN part : x \in Range(part[i].claims)
    BY Zenon DEF Answered
  <2>3. \A x : x \in UNION {Range(cs[i]) : i \in DOMAIN cs} <=> x \in Answered
    BY <1>3, <1>4, <2>1, <2>2, Zenon
  <2> QED
    BY <2>3
<1> QED
  BY <1>2, <1>8, <1>9

\* Only a chapter with text has a valid draft.
LEMMA ValidHasWindows ==
  ASSUME Shape, Valid(Merged) PROVE windows # <<>>
<1> SUFFICES ASSUME windows = <<>> PROVE FALSE
  OBVIOUS
<1> DEFINE ps == [i \in DOMAIN windows |-> part[i]]
<1>1. ps = <<>>
  OBVIOUS
<1>2. Merged.home = (ps # <<>> /\ ps[1].home)
  BY DEF Merged, Merge
<1>3. Merged.home
  BY DEF Valid
<1> QED
  BY <1>1, <1>2, <1>3

\* A round is complete: who answered, and what it has used.
LEMMA Rounds ==
  ASSUME MapInv, Complete
  PROVE  /\ result.status = "running" /\ calls = Used
         /\ \A i \in DOMAIN windows : part[i] # Null
         /\ Parsed => \A i \in DOMAIN windows : part[i] \in Answers
<1>1. result.status = "running"
  BY DEF Complete, Running
<1>2. Total(asked, again) = FoldFunctionOnSet(+, 0, asked, again)
  BY DEF Total
<1>3. calls = Used
  BY <1>1, <1>2 DEF MapInv, Counted, Used
<1>4. \A i \in DOMAIN windows : part[i] # Null
  BY <1>1 DEF MapInv, Counted, Complete
<1>5. ASSUME Parsed, NEW i \in DOMAIN windows PROVE part[i] \in Answers
  <2>1. part[i].json /\ part[i] \in Answers \cup {Bad, Null}
    BY <1>5 DEF MapInv, Shape, Parsed
  <2>2. part[i] # Bad
    BY <2>1 DEF Bad
  <2> QED
    BY <1>4, <2>1, <2>2
<1> QED
  BY <1>1, <1>3, <1>4, <1>5

\* A chapter nobody has asked about yet satisfies the invariant.
THEOREM MapInit == Init => MapInv
<1> SUFFICES ASSUME Init PROVE MapInv
  OBVIOUS
<1>1. Shape
  BY DEF Init, Shape
<1>2. Total(asked, again) = 0
  <2>1. IsFiniteSet(again) /\ \A i \in again : asked[i] = 0
    BY <1>1, Windows DEF Init
  <2> QED
    BY <2>1, TotalOfNothing
<1>3. result.status = "running"
  BY DEF Init, Running
<1>4. Counted
  BY <1>2, <1>3 DEF Init, Counted
<1> QED
  BY <1>1, <1>3, <1>4 DEF MapInv, Made

\* Every answer, failure, repair, return and align keeps it.
THEOREM MapStep == MapInv /\ [Next]_vars => MapInv'
<1> SUFFICES ASSUME MapInv, [Next]_vars PROVE MapInv'
  OBVIOUS
<1>s. Shape /\ Counted /\ Made
  BY DEF MapInv
<1>f. again \subseteq DOMAIN windows /\ IsFiniteSet(again) /\ booked \in Nat /\ calls \in Nat
  BY <1>s, Windows DEF Shape
<1>0. ASSUME UNCHANGED <<text, windows, asked, part, again, calls, booked, issues, result>>
      PROVE  MapInv'
  <2>1. Shape'
    BY <1>s, <1>0 DEF Shape
  <2>2. Total(asked, again)' = Total(asked, again)
    BY <1>0
  <2>3. Counted'
    BY <1>s, <1>0, <2>2 DEF Counted
  <2>4. /\ Merged' = Merged /\ QuoteIssues(Merged)' = QuoteIssues(Merged)
        /\ Valid(Merged)' = Valid(Merged)
    BY <1>0 DEF Merged, QuoteIssues, Lost, Scope, Quotes, Valid, Distinct
  <2>5. Refs(text, windows)' = Refs(text, windows)
    BY <1>0
  <2>6. Made'
    BY <1>s, <1>0, <2>4, <2>5 DEF Made
  <2> QED
    BY <2>1, <2>3, <2>6 DEF MapInv
<1>1. ASSUME NEW i \in DOMAIN windows, Request(i) PROVE MapInv'
  <2>1. i \in again /\ part[i] = Null /\ UNCHANGED <<text, windows, again, booked, issues, result>>
    BY <1>1 DEF Request
  <2>2. PICK a \in Answers \cup {Bad} :
          part' = [part EXCEPT ![i] = IF a.json \/ asked[i] = MaxRepairs THEN a ELSE Null]
    BY <1>1 DEF Request
  <2>3. asked' = [asked EXCEPT ![i] = asked[i] + 1] /\ calls' = calls + 1
    BY <1>1 DEF Request
  <2>4. Shape'
    BY <1>s, <2>1, <2>2, <2>3 DEF Shape
  <2>5. result.status \notin {"valid", "invalid"}
    BY <1>s, <2>1 DEF Counted
  <2>6. /\ Total(asked, again) \in Nat
        /\ Total(asked', again) = Total(asked, again) + 1
    <3>1. \A x \in again : asked[x] \in Nat
      BY <1>s DEF Shape
    <3>2. \A x \in again : asked'[x] = IF x = i THEN asked[x] + 1 ELSE asked[x]
      BY <1>s, <2>3 DEF Shape
    <3>3. /\ Total(asked, again) \in Nat
          /\ Total(asked', again) = IF i \in again THEN Total(asked, again) + 1 ELSE Total(asked, again)
      BY <1>f, <3>1, <3>2, TotalGrows
    <3> QED
      BY <2>1, <3>3
  <2>7. Counted'
    <3>1. ASSUME result.status = "running" PROVE calls' = booked' + Total(asked', again')
      <4>1. calls = booked + Total(asked, again)
        BY <1>s, <3>1 DEF Counted
      <4> DEFINE n == Total(asked, again)
                 m == Total(asked', again)
      <4>2. m = n + 1 /\ n \in Nat /\ calls = booked + n
        BY <2>6, <4>1
      <4>3. Total(asked', again') = m
        BY <2>1
      <4> HIDE DEF n, m
      <4> QED
        BY <1>f, <2>1, <2>3, <4>2, <4>3
    <3>2. \A x \in DOMAIN windows \ again : part'[x] = part[x]
      BY <1>s, <2>1, <2>2 DEF Shape
    <3> QED
      BY <1>s, <2>1, <2>5, <3>1, <3>2 DEF Counted
  <2>8. Made'
    BY <2>1, <2>5 DEF Made
  <2> QED
    BY <2>4, <2>7, <2>8 DEF MapInv
<1>2. ASSUME NEW i \in DOMAIN windows, GiveUp(i) PROVE MapInv'
  <2>1. Shape'
    BY <1>s, <1>2 DEF GiveUp, Shape
  <2>2. result'.status = "raised"
    BY <1>2 DEF GiveUp, Failed
  <2> QED
    BY <2>1, <2>2 DEF MapInv, Counted, Made
<1>3. ASSUME Unparsed \/ Invalid PROVE MapInv'
  <2>1. /\ Complete /\ booked' = Used /\ result' = Failed("invalid")
        /\ UNCHANGED <<text, windows, asked, part, again, calls>>
    BY <1>3 DEF Unparsed, Invalid, Return
  <2>2. calls = Used /\ \A j \in DOMAIN windows : part[j] # Null
    BY <2>1, Rounds
  <2>3. Shape'
    BY <1>s, <2>1, <2>2 DEF Shape
  <2>4. result'.status = "invalid"
    BY <2>1 DEF Failed
  <2> QED
    BY <1>f, <2>1, <2>2, <2>3, <2>4 DEF MapInv, Counted, Made
<1>4. ASSUME Repair PROVE MapInv'
  <2>1. /\ Complete /\ Parsed /\ Valid(Merged) /\ booked' = Used
        /\ again' = IF Troubled(QuoteIssues(Merged)) = {} THEN DOMAIN windows
                    ELSE Troubled(QuoteIssues(Merged))
        /\ asked' = [i \in DOMAIN windows |-> 0]
        /\ part' = [i \in DOMAIN windows |-> IF i \in again' THEN Null ELSE part[i]]
        /\ UNCHANGED <<text, windows, calls, result>>
    BY <1>4 DEF Repair
  <2>2. /\ result.status = "running" /\ calls = Used
        /\ \A j \in DOMAIN windows : part[j] # Null
    BY <2>1, Rounds
  <2>3. again' \subseteq DOMAIN windows
    <3>1. \A c \in Range(Merged.claims) : c.ref \in {Null} \cup DOMAIN windows
      BY <2>1 DEF Valid
    <3>2. Troubled(QuoteIssues(Merged)) \subseteq DOMAIN windows
      BY <3>1 DEF Troubled
    <3> QED
      BY <2>1, <3>2
  <2>4. Shape'
    BY <1>s, <2>1, <2>2, <2>3 DEF Shape
  <2>5. Total(asked', again') = 0
    <3>1. IsFiniteSet(again')
      BY <1>s, <2>3, Windows
    <3>2. \A x \in again' : asked'[x] = 0
      BY <2>1, <2>3
    <3> QED
      BY <3>1, <3>2, TotalOfNothing
  <2>6. calls' = booked' + Total(asked', again')
    BY <1>f, <2>1, <2>2, <2>5
  <2>7. \A j \in DOMAIN windows' \ again' : part'[j] # Null
    BY <2>1, <2>2
  <2>8. result'.status = "running"
    BY <2>1, <2>2
  <2> QED
    BY <2>4, <2>6, <2>7, <2>8 DEF MapInv, Counted, Made
<1>5. ASSUME Finish PROVE MapInv'
  <2> DEFINE is == QuoteIssues(Merged)
             kept == [Merged EXCEPT !.claims = {c \in Range(@) : c.id \notin MissingIds(is)}]
  <2>1. /\ Complete /\ Parsed /\ Valid(Merged) /\ booked' = Used /\ issues' = is
        /\ result' = [status |-> "valid", draft |-> kept, refs |-> Refs(text, windows)]
        /\ UNCHANGED <<text, windows, asked, part, again, calls>>
    BY <1>5 DEF Finish, Return
  <2>2. /\ calls = Used /\ \A j \in DOMAIN windows : part[j] # Null /\ part[j] \in Answers
    BY <2>1, Rounds
  <2>3. windows # <<>>
    BY <1>s, <2>1, ValidHasWindows
  <2>4. Shape'
    BY <1>s, <2>1, <2>2 DEF Shape
  <2>5. Counted'
    <3>1. result'.status = "valid"
      BY <2>1
    <3> QED
      BY <1>f, <2>1, <2>2, <3>1 DEF Counted
  <2>6. /\ kept.claims = {c \in Range(Merged.claims) : c.id \notin MissingIds(is)}
        /\ kept.mentions = Merged.mentions
    BY DEF Merged, Merge
  <2>7. Merged' = Merged /\ QuoteIssues(Merged)' = is /\ Valid(Merged)'
    BY <2>1 DEF Merged, QuoteIssues, Lost, Scope, Quotes, Valid, Distinct
  <2>8. Refs(text, windows)' = Refs(text, windows)
    BY <2>1
  <2> HIDE DEF is, kept
  <2>9. /\ result'.draft = kept /\ result'.refs = Refs(text, windows)
    BY <2>1
  <2>10. Made'
    BY <2>1, <2>2, <2>3, <2>6, <2>7, <2>8, <2>9 DEF Made
  <2> QED
    BY <2>4, <2>5, <2>10 DEF MapInv
<1>6. ASSUME Align \/ UNCHANGED vars PROVE MapInv'
  BY <1>0, <1>6 DEF Align, vars
<1> QED
  BY <1>1, <1>2, <1>3, <1>4, <1>5, <1>6 DEF Next
-----------------------------------------------------------------------------
(* What follows from it *)

\* The first word of an id is that of the text of its issue.
LEMMA IdRead ==
  ASSUME NEW id, id \in Seq(Range(id)), id # <<>>, NEW a, NEW b
  PROVE  /\ Len(id) \in Nat \ {0} /\ Head(id \o <<a, b>>) = Head(id)
         /\ Len(id) = 1 => id = <<Head(id)>>
<1> DEFINE Y == Range(id) \cup {a, b}
           s == id \o <<a, b>>
<1>1. Len(id) \in Nat \ {0}
  BY EmptySeq
<1>2. id \in Seq(Y) /\ <<a, b>> \in Seq(Y)
  OBVIOUS
<1>3. s[1] = id[1] /\ s # <<>>
  BY <1>1, <1>2
<1>4. Head(id) = id[1]
  BY <1>1
<1>5. Head(s) = s[1]
  BY <1>1, <1>2
<1>6. Len(id) = 1 => id = <<id[1]>>
  BY <1>1
<1> QED
  BY <1>1, <1>3, <1>4, <1>5, <1>6

\* Where the claims of the last answers are.
LEMMA InvRecorded == ASSUME MapInv PROVE QuotedOrRecorded
<1> SUFFICES ASSUME result.status = "valid" PROVE QuotedOrRecorded
  BY DEF QuotedOrRecorded
<1> DEFINE cs == Range(Merged.claims)
<1>1. /\ windows # <<>> /\ \A i \in DOMAIN windows : part[i] \in Answers
      /\ Draft.claims = {c \in cs : c.id \notin MissingIds(issues)} /\ issues = QuoteIssues(Merged)
  BY DEF MapInv, Made, Draft
<1>2. cs = Answered
  BY <1>1, MergedClaims DEF MapInv
<1>3. /\ issues.missing = {c \in cs : c.type # "org" /\ ~Quotes(c)}
      /\ issues.lost = {c \in cs : c.type # "org" /\ Quotes(c)
                                   /\ ~Within(Plain(c.quote), Plain(Scope(c)))}
  BY <1>1 DEF QuoteIssues, Lost
<1>4. \A c, x \in cs : c.id = x.id => c = x
  <2>1. Valid(Merged)
    BY DEF MapInv, Made
  <2> QED
    BY <2>1 DEF Valid, Distinct, Range
<1>5. ASSUME NEW c \in cs
      PROVE  /\ c.id \in Seq(Range(c.id)) /\ Len(c.id) \in Nat \ {0}
             /\ Head(Message(c)) = Head(c.id)
             /\ Len(c.id) = 1 => c.id = <<Head(c.id)>>
  <2>1. PICK j \in DOMAIN part : c \in Range(part[j].claims)
    BY <1>2, Zenon DEF Answered
  <2>2. part[j] \in Answers
    BY <1>1, <2>1 DEF MapInv, Shape
  <2>3. c \in UNION {Range(a.claims) : a \in Answers}
    BY <2>1, <2>2
  <2> HIDE DEF cs
  <2>4. c.id \in Seq(Range(c.id)) /\ c.id # <<>>
    BY <2>3, MapAssumption
  <2> QED
    BY <2>4, IdRead DEF Message
<1> HIDE DEF cs
<1>6. \A c \in Draft.claims :
         c.type = "org" \/ Quotes(c) \/ (c \in issues.missing /\ Len(c.id) > 1)
  <2> SUFFICES ASSUME NEW c \in Draft.claims, c.type # "org", ~Quotes(c)
               PROVE  c \in issues.missing /\ Len(c.id) > 1
    OBVIOUS
  <2>1. c \in cs /\ c \in issues.missing /\ c.id \notin MissingIds(issues)
    BY <1>1, <1>3
  <2>2. <<Head(Message(c))>> \in MissingIds(issues)
    BY <2>1 DEF MissingIds
  <2>3. c.id # <<Head(c.id)>>
    BY <1>5, <2>1, <2>2
  <2> QED
    BY <1>5, <2>1, <2>3
<1>7. \A c \in Answered \ Draft.claims :
         c \in issues.missing \/ \E x \in issues.missing : Len(x.id) > 1 /\ c.id = <<Head(x.id)>>
  <2> SUFFICES ASSUME NEW c \in Answered \ Draft.claims, c \notin issues.missing
               PROVE  \E x \in issues.missing : Len(x.id) > 1 /\ c.id = <<Head(x.id)>>
    OBVIOUS
  <2>1. c \in cs /\ c.id \in MissingIds(issues)
    BY <1>1, <1>2
  <2>2. PICK x \in issues.missing : c.id = <<Head(Message(x))>>
    BY <2>1 DEF MissingIds
  <2>3. x \in cs /\ c.id = <<Head(x.id)>>
    BY <1>3, <1>5, <2>2
  <2>4. c.id = x.id => c = x
    BY <1>4, <2>1, <2>3
  <2>5. x.id # c.id
    BY <2>2, <2>4
  <2> QED
    BY <1>5, <2>2, <2>3, <2>5
<1>8. \A c \in Draft.claims \ issues.missing :
         c.type = "org" \/ c \in issues.lost \/ Within(Plain(c.quote), Plain(Scope(c)))
  BY <1>1, <1>3
<1>9. Draft.claims \subseteq Answered
  BY <1>1, <1>2
<1> QED
  BY <1>6, <1>7, <1>8, <1>9 DEF QuotedOrRecorded

\* What the references of a draft lead back to.
LEMMA InvLeadBack == ASSUME MapInv PROVE RefsLeadBack
<1>1. /\ text \in Seq(Range(text)) /\ Tiling(windows, 0, Len(text), Window) /\ Window \in Nat
      /\ Len(windows) \in Nat /\ DOMAIN windows = 1..Len(windows) /\ windows \in Seq(Nat \X Nat)
  BY Windows, MapAssumption DEF MapInv
<1>2. FlattenSeq([i \in DOMAIN windows |-> Cut(text, windows[i][1], windows[i][2])]) = text
  BY <1>1, Whole
<1>3. ASSUME NEW i \in DOMAIN windows
      PROVE  Count(Cut(text, windows[i][1], windows[i][2])) <= Window
  <2>1. /\ windows[i][1] < windows[i][2] /\ windows[i][2] <= Len(text)
        /\ windows[i][2] - windows[i][1] <= Window
    BY <1>1 DEF Tiling
  <2>2. windows[i][1] \in Nat /\ windows[i][2] \in Nat /\ Len(text) \in Nat
    BY <1>1
  <2>3. windows[i][1] \in 0..Len(text) /\ windows[i][2] \in windows[i][1]..Len(text)
    BY <2>1, <2>2
  <2>4. Len(Cut(text, windows[i][1], windows[i][2])) = windows[i][2] - windows[i][1]
    BY <1>1, <2>3, Pieces
  <2> QED
    BY <2>1, <2>4 DEF Count
<1>4. ASSUME result.status = "valid" PROVE RefSpans(text, result.refs) = windows
  <2>1. windows # <<>> /\ result.refs = Refs(text, windows)
    BY <1>4 DEF MapInv, Made
  <2>2. RefSpans(text, Refs(text, windows)) = windows
    BY <1>1, <2>1, Found
  <2> QED
    BY <2>1, <2>2
<1> QED
  BY <1>2, <1>3, <1>4 DEF RefsLeadBack

\* The invariant holds however long the windows are asked and whoever fails.
THEOREM MapInvariant == Spec => []MapInv
BY MapInit, MapStep, PTL DEF Spec

\* However a chapter is answered about, repaired and merged, every claim of the last
\* answers is in its draft with a quote that its window has, or on record as left
\* out or not found.  The ids of claims may be any words: one of several words keeps
\* a claim in the draft that its record says was left out, and may push out another.
THEOREM EveryClaimIsQuotedOrRecorded == Spec => []QuotedOrRecorded
<1>1. MapInv => QuotedOrRecorded
  BY InvRecorded
<1> QED
  BY <1>1, MapInvariant, PTL

\* The usage of a chapter that was given up or went through has all calls of both
\* rounds, whatever the other windows did meanwhile.
THEOREM UsageIsComplete == Spec => []UsageComplete
<1>1. MapInv => UsageComplete
  BY DEF MapInv, Counted, UsageComplete
<1> QED
  BY <1>1, MapInvariant, PTL

\* The windows of a chapter of any length take all of it, none is too long for the
\* model, and align finds them again from what the draft keeps of them.
THEOREM RefsLeadBackToTheChapter == Spec => []RefsLeadBack
<1>1. MapInv => RefsLeadBack
  BY InvLeadBack
<1> QED
  BY <1>1, MapInvariant, PTL

-----------------------------------------------------------------------------
(* Recursion and induction up to a bound *)

\* What holds of 0, and of n + 1 when it holds of n, holds up to the bound.
LEMMA UpTo ==
  ASSUME NEW N \in Nat, NEW H, 0 \in H, \A n \in 0..N : n \in H /\ n # N => n + 1 \in H
  PROVE  \A n \in 0..N : n \in H
<1> DEFINE G == {n \in Nat : n <= N => n \in H}
<1>1. 0 \in G
  OBVIOUS
<1>2. ASSUME NEW k \in G PROVE k + 1 \in G
  <2>1. k \in Nat
    OBVIOUS
  <2> SUFFICES ASSUME k + 1 <= N PROVE k + 1 \in H
    BY <2>1
  <2>2. k \in 0..N /\ k # N /\ k <= N
    BY <2>1
  <2> QED
    BY <2>2
<1>3. G = Nat
  <2> HIDE DEF G
  <2>1. G \in SUBSET Nat
    BY DEF G
  <2> QED
    BY <1>1, <1>2, <2>1, Induction
<1> QED
  BY <1>3

Closed(S, N, G) == \A n \in 1..N : \A x \in S : G[n][x] \in S
Recursive(f, S, base, N, G) ==
    f \in [0..N -> S] /\ f[0] = base /\ \A n \in 1..N : f[n] = G[n][f[n - 1]]

\* A function that is given by its first value and by each value before is there.
LEMMA Recursion ==
  ASSUME NEW S, NEW base \in S, NEW N \in Nat, NEW G, Closed(S, N, G)
  PROVE  \E f : Recursive(f, S, base, N, G)
<1> USE DEF Closed, Recursive
<1> DEFINE Is(f, k) == f \in [0..k -> S] /\ f[0] = base /\ \A n \in 1..k : f[n] = G[n][f[n - 1]]
           H == {k \in 0..N : \E f : Is(f, k)}
<1>1. 0 \in H
  <2> DEFINE f == [n \in 0..0 |-> base]
  <2>1. Is(f, 0)
    OBVIOUS
  <2> HIDE DEF Is
  <2> QED
    BY <2>1
<1>2. ASSUME NEW k \in 0..N, k \in H, k # N PROVE k + 1 \in H
  <2>1. PICK g : Is(g, k)
    BY <1>2
  <2>2. k \in Nat /\ k + 1 \in 1..N /\ k + 1 \in 0..N
    BY <1>2
  <2> DEFINE f == [n \in 0..(k + 1) |-> IF n <= k THEN g[n] ELSE G[k + 1][g[k]]]
  <2>3. \A n \in 0..k : f[n] = g[n] /\ g[n] \in S
    BY <2>1, <2>2
  <2>4. f[k + 1] = G[k + 1][g[k]] /\ f[k + 1] \in S
    <3>1. k \in 0..k /\ k + 1 \in 0..(k + 1) /\ ~(k + 1 <= k)
      BY <2>2
    <3> QED
      BY <2>2, <2>3, <3>1
  <2>5. \A n \in 0..(k + 1) : n \in 0..k \/ n = k + 1
    BY <2>2
  <2>6. DOMAIN f = 0..(k + 1) /\ f = [n \in 0..(k + 1) |-> f[n]]
    OBVIOUS
  <2> HIDE DEF f
  <2>7. f \in [0..(k + 1) -> S]
    BY <2>3, <2>4, <2>5, <2>6
  <2>8. f[0] = base
    <3>1. 0 \in 0..k
      BY <2>2
    <3> QED
      BY <2>1, <2>3, <3>1
  <2>9. ASSUME NEW n \in 1..(k + 1) PROVE f[n] = G[n][f[n - 1]]
    <3>1. n - 1 \in 0..k
      BY <2>2
    <3>2. CASE n = k + 1
      <4>1. n - 1 = k
        BY <2>2, <3>2
      <4> QED
        BY <2>3, <2>4, <3>1, <3>2, <4>1
    <3>3. CASE n # k + 1
      <4>1. n \in 1..k /\ n \in 0..k
        BY <2>2, <3>3
      <4> QED
        BY <2>1, <2>3, <3>1, <4>1
    <3> QED
      BY <3>2, <3>3
  <2>10. Is(f, k + 1)
    BY <2>7, <2>8, <2>9
  <2> HIDE DEF Is
  <2> QED
    BY <2>2, <2>10
<1>3. \A n \in 0..N : n \in H
  <2> HIDE DEF H
  <2> QED
    BY <1>1, <1>2, UpTo
<1>4. N \in H
  <2>1. N \in 0..N
    OBVIOUS
  <2> QED
    BY <1>3, <2>1
<1> QED
  BY <1>4
-----------------------------------------------------------------------------
(* Sublists *)

\* What Only has taken of the first n elements.
OnlyOf(f, X, seq, T) ==
    /\ f \in [0..Len(seq) -> Seq(X)]
    /\ Only(seq, T) = f[Len(seq)] /\ f[0] = <<>>
    /\ \A n \in 1..Len(seq) : f[n] = IF seq[n] \in T THEN Append(f[n - 1], seq[n]) ELSE f[n - 1]

\* The recursion of Only has a solution.
LEMMA OnlyDef ==
  ASSUME NEW X, NEW seq \in Seq(X), NEW T
  PROVE  \E f : OnlyOf(f, X, seq, T)
<1> DEFINE N == Len(seq)
           Step(h, n) == IF n = 0 THEN <<>>
                         ELSE IF seq[n] \in T THEN Append(h[n - 1], seq[n]) ELSE h[n - 1]
           Fun(h) == h = [n \in 0..N |-> Step(h, n)]
           G == [n \in 1..N |-> [x \in Seq(X) |-> IF seq[n] \in T THEN Append(x, seq[n]) ELSE x]]
           u == CHOOSE h : Fun(h)
<1>1. N \in Nat /\ \A n \in 1..N : seq[n] \in X
  OBVIOUS
<1>2. \A x \in Seq(X), n \in 1..N : G[n][x] \in Seq(X)
  BY <1>1
<1>3. <<>> \in Seq(X)
  OBVIOUS
<1>4. Only(seq, T) = u[N]
  BY Zenon DEF Only
<1> HIDE DEF N
<1>5. PICK f : Recursive(f, Seq(X), <<>>, N, G)
  <2> DEFINE base == <<>>
  <2>1. Closed(Seq(X), N, G)
    BY <1>2 DEF Closed
  <2> HIDE DEF G, base
  <2>2. \E f : Recursive(f, Seq(X), base, N, G)
    BY <1>1, <1>3, <2>1, Recursion DEF base
  <2> QED
    BY <2>2 DEF base
<1>6. \A n \in 0..N : f[n] = Step(f, n)
  <2> TAKE n \in 0..N
  <2>1. n = 0 \/ (n \in 1..N /\ n - 1 \in 0..N)
    BY <1>1
  <2> QED
    BY <1>5, <2>1 DEF Recursive
<1>7. Fun(f)
  <2> HIDE DEF Step
  <2> QED
    BY <1>5, <1>6 DEF Recursive
<1>8. Fun(u)
  <2> HIDE DEF Fun
  <2> QED
    BY <1>7, Zenon
<1> HIDE DEF u
<1>9. DOMAIN u = 0..N /\ \A n \in 0..N : u[n] = Step(u, n)
  <2> HIDE DEF Step
  <2> QED
    BY <1>8
<1>10. u[0] = <<>> /\ \A n \in 1..N : u[n] = IF seq[n] \in T THEN Append(u[n - 1], seq[n]) ELSE u[n - 1]
  <2>1. 0 \in 0..N /\ \A n \in 1..N : n \in 0..N /\ n # 0
    BY <1>1
  <2> QED
    BY <1>9, <2>1
<1>11. \A n \in 0..N : u[n] \in Seq(X)
  <2> DEFINE H == {n \in 0..N : u[n] \in Seq(X)}
  <2>1. 0 \in H
    <3>1. 0 \in 0..N
      BY <1>1
    <3> QED
      BY <1>3, <1>10, <3>1
  <2>2. ASSUME NEW n \in 0..N, n \in H, n # N PROVE n + 1 \in H
    <3>1. n + 1 \in 1..N /\ n + 1 \in 0..N /\ (n + 1) - 1 = n
      BY <1>1, <2>2
    <3>2. u[n + 1] = IF seq[n + 1] \in T THEN Append(u[n], seq[n + 1]) ELSE u[n]
      BY <1>10, <3>1
    <3>3. u[n] \in Seq(X) /\ seq[n + 1] \in X
      BY <1>1, <2>2, <3>1
    <3>4. Append(u[n], seq[n + 1]) \in Seq(X)
      BY <3>3
    <3> QED
      BY <3>1, <3>2, <3>3, <3>4
  <2>3. \A n \in 0..N : n \in H
    <3> HIDE DEF H
    <3> QED
      BY <1>1, <2>1, <2>2, UpTo
  <2> QED
    BY <2>3
<1>12. u = [n \in 0..N |-> u[n]]
  <2> HIDE DEF Step
  <2> QED
    BY <1>8
<1>13. u \in [0..N -> Seq(X)]
  BY <1>11, <1>12
<1> QED
  BY <1>4, <1>10, <1>13, Zenon DEF N, OnlyOf

\* What holds of the empty sequence, and of a longer one when it holds of its
\* front, holds of every sequence.
LEMMA SeqInduction ==
  ASSUME NEW X, NEW H, <<>> \in H, \A s \in Seq(X), e \in X : s \in H => Append(s, e) \in H
  PROVE  \A s \in Seq(X) : s \in H
<1> DEFINE G == {n \in Nat : \A s \in Seq(X) : Len(s) = n => s \in H}
<1>1. 0 \in G
  <2>1. \A s \in Seq(X) : Len(s) = 0 => s = <<>>
    BY EmptySeq
  <2> QED
    BY <2>1
<1>2. ASSUME NEW n \in G PROVE n + 1 \in G
  <2> SUFFICES ASSUME NEW s \in Seq(X), Len(s) = n + 1 PROVE s \in H
    OBVIOUS
  <2>1. s # <<>> /\ n \in Nat
    <3>1. n \in Nat /\ n + 1 # 0 /\ Len(<<>>) = 0
      BY EmptySeq
    <3> QED
      BY <3>1
  <2>2. PICK t \in Seq(X), e \in X : s = Append(t, e)
    BY <2>1, SequenceEmptyOrAppend
  <2>3. Len(s) = Len(t) + 1 /\ Len(t) \in Nat
    BY <2>2, AppendProperties, LenProperties
  <2>4. t \in H
    BY <2>1, <2>3
  <2> QED
    BY <2>2, <2>4
<1>3. G = Nat
  <2> HIDE DEF G
  <2>1. G \in SUBSET Nat
    BY DEF G
  <2> QED
    BY <1>1, <1>2, <2>1, Induction
<1>4. \A s \in Seq(X) : Len(s) \in G
  BY <1>3, LenProperties
<1> QED
  BY <1>4

\* Only of nothing.
LEMMA OnlyEmpty == ASSUME NEW T PROVE Only(<<>>, T) = <<>>
<1>1. <<>> \in Seq({}) /\ Len(<<>>) = 0
  BY EmptySeq
<1>2. PICK f : OnlyOf(f, {}, <<>>, T)
  BY <1>1, OnlyDef
<1> QED
  BY <1>1, <1>2 DEF OnlyOf

\* Only goes from the front of a sequence to the whole.
LEMMA OnlyAppend ==
  ASSUME NEW X, NEW T, NEW s \in Seq(X), NEW e \in X
  PROVE  /\ Only(s, T) \in Seq(X)
         /\ Only(Append(s, e), T) = IF e \in T THEN Append(Only(s, T), e) ELSE Only(s, T)
<1> DEFINE t == Append(s, e)
           N == Len(s)
<1>1. /\ t \in Seq(X) /\ Len(t) = N + 1 /\ N \in Nat /\ t[N + 1] = e
      /\ \A n \in 1..N : t[n] = s[n]
  BY AppendProperties, LenProperties
<1>2. PICK f : OnlyOf(f, X, s, T)
  BY OnlyDef
<1> HIDE DEF t
<1>3. PICK g : OnlyOf(g, X, t, T)
  BY <1>1, OnlyDef
<1>4. /\ f[0] = <<>> /\ g[0] = <<>> /\ Only(s, T) = f[N] /\ Only(t, T) = g[N + 1]
      /\ \A n \in 1..N : f[n] = IF s[n] \in T THEN Append(f[n - 1], s[n]) ELSE f[n - 1]
      /\ \A n \in 1..(N + 1) : g[n] = IF t[n] \in T THEN Append(g[n - 1], t[n]) ELSE g[n - 1]
      /\ \A n \in 0..N : f[n] \in Seq(X)
  BY <1>1, <1>2, <1>3 DEF OnlyOf
<1> HIDE DEF N
<1> DEFINE H == {n \in 0..N : f[n] = g[n]}
<1>5. 0 \in H
  BY <1>1, <1>4
<1>6. ASSUME NEW n \in 0..N, n \in H, n # N PROVE n + 1 \in H
  <2>1. n + 1 \in 1..N /\ n + 1 \in 1..(N + 1) /\ n + 1 \in 0..N /\ (n + 1) - 1 = n
    BY <1>1, <1>6
  <2>2. f[n] = g[n] /\ t[n + 1] = s[n + 1]
    BY <1>1, <1>6, <2>1
  <2>3. f[n + 1] = IF s[n + 1] \in T THEN Append(f[n], s[n + 1]) ELSE f[n]
    BY <1>4, <2>1
  <2>4. g[n + 1] = IF t[n + 1] \in T THEN Append(g[n], t[n + 1]) ELSE g[n]
    BY <1>4, <2>1
  <2> QED
    BY <2>1, <2>2, <2>3, <2>4
<1>7. \A n \in 0..N : n \in H
  <2> HIDE DEF H
  <2> QED
    BY <1>1, <1>5, <1>6, UpTo
<1>8. N \in 0..N /\ N + 1 \in 1..(N + 1) /\ (N + 1) - 1 = N
  BY <1>1
<1>9. f[N] = g[N] /\ f[N] \in Seq(X)
  BY <1>4, <1>7, <1>8
<1>10. g[N + 1] = IF t[N + 1] \in T THEN Append(g[N], t[N + 1]) ELSE g[N]
  BY <1>4, <1>8
<1> QED
  BY <1>1, <1>4, <1>9, <1>10 DEF t

\* The characters of the first n lines.
CharsUpTo(f, t) ==
    /\ f \in [0..Len(t) -> Nat]
    /\ Chars(t) = f[Len(t)] /\ f[0] = 0
    /\ \A n \in 1..Len(t) : f[n] = f[n - 1] + Width[t[n]]

\* The recursion of Chars has a solution.
LEMMA CharsDef ==
  ASSUME NEW t \in Seq(Kinds)
  PROVE  \E f : CharsUpTo(f, t)
<1> DEFINE N == Len(t)
           Step(h, n) == IF n = 0 THEN 0 ELSE h[n - 1] + Width[t[n]]
           Fun(h) == h = [n \in 0..N |-> Step(h, n)]
           G == [n \in 1..N |-> [x \in Nat |-> x + Width[t[n]]]]
           u == CHOOSE h : Fun(h)
<1>1. N \in Nat /\ \A n \in 1..N : Width[t[n]] \in Nat
  <2>1. N \in Nat /\ \A n \in 1..N : t[n] \in Kinds
    OBVIOUS
  <2> QED
    BY <2>1, TextAssumption
<1>2. Closed(Nat, N, G)
  BY <1>1 DEF Closed
<1>3. Chars(t) = u[N]
  BY Zenon DEF Chars
<1> HIDE DEF N
<1>4. PICK f : Recursive(f, Nat, 0, N, G)
  <2> HIDE DEF G
  <2> QED
    BY <1>1, <1>2, Recursion
<1>5. \A n \in 0..N : f[n] = Step(f, n)
  <2> TAKE n \in 0..N
  <2>1. n = 0 \/ (n \in 1..N /\ n - 1 \in 0..N)
    BY <1>1
  <2> QED
    BY <1>4, <2>1 DEF Recursive
<1>6. Fun(f)
  <2> HIDE DEF Step
  <2> QED
    BY <1>4, <1>5 DEF Recursive
<1>7. Fun(u)
  <2> HIDE DEF Fun
  <2> QED
    BY <1>6, Zenon
<1> HIDE DEF u
<1>8. DOMAIN u = 0..N /\ (\A n \in 0..N : u[n] = Step(u, n)) /\ u = [n \in 0..N |-> u[n]]
  <2> HIDE DEF Step
  <2> QED
    BY <1>7
<1>9. u[0] = 0 /\ \A n \in 1..N : u[n] = u[n - 1] + Width[t[n]]
  <2>1. 0 \in 0..N /\ \A n \in 1..N : n \in 0..N /\ n # 0
    BY <1>1
  <2> QED
    BY <1>8, <2>1
<1>10. \A n \in 0..N : u[n] \in Nat
  <2> DEFINE H == {n \in 0..N : u[n] \in Nat}
  <2>1. 0 \in H
    BY <1>1, <1>9
  <2>2. ASSUME NEW n \in 0..N, n \in H, n # N PROVE n + 1 \in H
    <3>1. n + 1 \in 1..N /\ n + 1 \in 0..N /\ (n + 1) - 1 = n
      BY <1>1, <2>2
    <3>2. u[n + 1] = u[n] + Width[t[n + 1]] /\ u[n] \in Nat /\ Width[t[n + 1]] \in Nat
      BY <1>1, <1>9, <2>2, <3>1
    <3> QED
      BY <3>1, <3>2
  <2>3. \A n \in 0..N : n \in H
    <3> HIDE DEF H
    <3> QED
      BY <1>1, <2>1, <2>2, UpTo
  <2> QED
    BY <2>3
<1>11. u \in [0..N -> Nat]
  BY <1>8, <1>10
<1> QED
  BY <1>3, <1>9, <1>11, Zenon DEF N, CharsUpTo

\* Characters are counted.
LEMMA CharsNat == \A t \in Seq(Kinds) : Chars(t) \in Nat
<1> TAKE t \in Seq(Kinds)
<1>1. PICK f : CharsUpTo(f, t)
  BY CharsDef
<1>2. Len(t) \in 0..Len(t)
  BY LenProperties
<1> QED
  BY <1>1, <1>2 DEF CharsUpTo

\* Characters add up line by line.
LEMMA CharsStep ==
  /\ Chars(<<>>) = 0
  /\ \A s \in Seq(Kinds), e \in Kinds :
       Chars(s) \in Nat /\ Chars(Append(s, e)) = Chars(s) + Width[e]
<1>1. Chars(<<>>) = 0
  <2>1. <<>> \in Seq(Kinds) /\ Len(<<>>) = 0
    BY EmptySeq
  <2>2. PICK f : CharsUpTo(f, <<>>)
    BY <2>1, CharsDef
  <2> QED
    BY <2>1, <2>2 DEF CharsUpTo
<1>2. ASSUME NEW s \in Seq(Kinds), NEW e \in Kinds
      PROVE  Chars(s) \in Nat /\ Chars(Append(s, e)) = Chars(s) + Width[e]
  <2> DEFINE t == Append(s, e)
             N == Len(s)
  <2>1. /\ t \in Seq(Kinds) /\ Len(t) = N + 1 /\ N \in Nat /\ t[N + 1] = e
        /\ \A n \in 1..N : t[n] = s[n]
    BY AppendProperties, LenProperties
  <2>2. PICK f : CharsUpTo(f, s)
    BY CharsDef
  <2> HIDE DEF t
  <2>3. PICK g : CharsUpTo(g, t)
    BY <2>1, CharsDef
  <2>4. /\ f[0] = 0 /\ g[0] = 0 /\ Chars(s) = f[N] /\ Chars(t) = g[N + 1]
        /\ \A n \in 1..N : f[n] = f[n - 1] + Width[s[n]]
        /\ \A n \in 1..(N + 1) : g[n] = g[n - 1] + Width[t[n]]
        /\ \A n \in 0..N : f[n] \in Nat
    BY <2>1, <2>2, <2>3 DEF CharsUpTo
  <2> HIDE DEF N
  <2> DEFINE H == {n \in 0..N : f[n] = g[n]}
  <2>5. 0 \in H
    BY <2>1, <2>4
  <2>6. ASSUME NEW n \in 0..N, n \in H, n # N PROVE n + 1 \in H
    <3>1. n + 1 \in 1..N /\ n + 1 \in 1..(N + 1) /\ n + 1 \in 0..N /\ (n + 1) - 1 = n
      BY <2>1, <2>6
    <3>2. f[n] = g[n] /\ t[n + 1] = s[n + 1]
      BY <2>1, <2>6, <3>1
    <3>3. f[n + 1] = f[n] + Width[s[n + 1]] /\ g[n + 1] = g[n] + Width[t[n + 1]]
      BY <2>4, <3>1
    <3> QED
      BY <3>1, <3>2, <3>3
  <2>7. \A n \in 0..N : n \in H
    <3> HIDE DEF H
    <3> QED
      BY <2>1, <2>5, <2>6, UpTo
  <2>8. N \in 0..N /\ N + 1 \in 1..(N + 1) /\ (N + 1) - 1 = N
    BY <2>1
  <2>9. f[N] = g[N] /\ f[N] \in Nat
    BY <2>4, <2>7, <2>8
  <2>10. g[N + 1] = g[N] + Width[t[N + 1]]
    BY <2>4, <2>8
  <2> QED
    BY <2>1, <2>4, <2>9, <2>10 DEF t
<1> QED
  BY <1>1, <1>2

\* Flattening goes from the front of a sequence of sequences to the whole.
LEMMA FlattenStep ==
  ASSUME NEW X
  PROVE  /\ FlattenSeq(<<>>) = <<>>
         /\ \A ss \in Seq(Seq(X)), s \in Seq(X) :
              /\ FlattenSeq(ss) \in Seq(X)
              /\ FlattenSeq(Append(ss, s)) = FlattenSeq(ss) \o s
<1>1. FlattenSeq(<<>>) = <<>>
  <2>1. Len(<<>>) = 0
    BY EmptySeq
  <2> QED
    BY <2>1, Zenon DEF FlattenSeq
<1>2. ASSUME NEW ss \in Seq(Seq(X)) PROVE FlattenSeq(ss) \in Seq(X)
  <2>1. <<>> \in Seq(X)
    BY EmptySeq
  <2> QED
    BY <1>1, <2>1, FlattenRange
<1>3. ASSUME NEW ss \in Seq(Seq(X)), NEW s \in Seq(X)
      PROVE  FlattenSeq(Append(ss, s)) = FlattenSeq(ss) \o s
  <2> DEFINE t == Append(ss, s)
             N == Len(ss)
  <2>1. /\ t \in Seq(Seq(X)) /\ t # <<>> /\ Len(t) = N + 1 /\ N \in Nat /\ t[N + 1] = s
        /\ \A n \in 1..N : t[n] = ss[n]
    BY AppendProperties, LenProperties
  <2> HIDE DEF t
  <2>2. PICK g : /\ FlattenSeq(t) = g[Len(t)] /\ g[1] = t[1]
                 /\ \A i \in 2..Len(t) : g[i] = g[i - 1] \o t[i]
    BY <2>1, FlattenDef
  <2>3. CASE ss = <<>>
    <3>1. N = 0
      BY <2>3, EmptySeq
    <3>2. FlattenSeq(t) = s
      BY <2>1, <2>2, <3>1
    <3> QED
      BY <1>1, <2>3, <3>2, ConcatEmptySeq DEF t
  <2>4. CASE ss # <<>>
    <3>1. PICK f : /\ FlattenSeq(ss) = f[N] /\ f[1] = ss[1]
                   /\ \A i \in 2..N : f[i] = f[i - 1] \o ss[i]
      BY <2>4, FlattenDef
    <3>2. N # 0
      BY <2>4, EmptySeq
    <3> HIDE DEF N
    <3> DEFINE H == {n \in 0..N : n # 0 => f[n] = g[n]}
    <3>3. 0 \in H
      BY <2>1
    <3>4. ASSUME NEW n \in 0..N, n \in H, n # N PROVE n + 1 \in H
      <4>1. n + 1 \in 1..N /\ n + 1 \in 0..N /\ (n + 1) - 1 = n /\ t[n + 1] = ss[n + 1]
        <5>1. N \in Nat /\ n \in Nat /\ n <= N /\ n # N
          BY <2>1, <3>4
        <5>2. n + 1 \in 1..N /\ n + 1 \in 0..N /\ (n + 1) - 1 = n
          BY <5>1
        <5> QED
          BY <2>1, <5>2
      <4>2. CASE n = 0
        BY <2>2, <3>1, <4>1, <4>2
      <4>3. CASE n # 0
        <5>1. n + 1 \in 2..N /\ n + 1 \in 2..Len(t) /\ f[n] = g[n]
          BY <2>1, <3>4, <4>3
        <5>2. f[n + 1] = f[n] \o ss[n + 1] /\ g[n + 1] = g[n] \o t[n + 1]
          BY <2>2, <3>1, <4>1, <5>1
        <5> QED
          BY <4>1, <5>1, <5>2
      <4> QED
        BY <4>2, <4>3
    <3>5. \A n \in 0..N : n \in H
      <4> HIDE DEF H
      <4> QED
        BY <2>1, <3>3, <3>4, UpTo
    <3>6. f[N] = g[N]
      <4>1. N \in 0..N
        BY <2>1
      <4> QED
        BY <3>2, <3>5, <4>1
    <3>7. g[N + 1] = g[N] \o t[N + 1]
      <4>1. N + 1 \in 2..Len(t) /\ (N + 1) - 1 = N
        BY <2>1, <3>2
      <4> QED
        BY <2>2, <4>1
    <3> QED
      BY <2>1, <2>2, <3>1, <3>6, <3>7 DEF t
  <2> QED
    BY <2>3, <2>4
<1> QED
  BY <1>1, <1>2, <1>3

\* Append at the end of a concatenation.
LEMMA ConcatAppend ==
  ASSUME NEW X, NEW a \in Seq(X), NEW b \in Seq(X), NEW e \in X
  PROVE  a \o Append(b, e) = Append(a \o b, e)
<1>1. <<e>> \in Seq(X) /\ a \o b \in Seq(X)
  BY ConcatProperties
<1>2. Append(b, e) = b \o <<e>> /\ Append(a \o b, e) = (a \o b) \o <<e>>
  BY <1>1, AppendIsConcat
<1> QED
  BY <1>1, <1>2, ConcatAssociative

\* Only of two sequences side by side.
LEMMA OnlyConcat ==
  ASSUME NEW X, NEW T, NEW a \in Seq(X), NEW b \in Seq(X)
  PROVE  Only(a \o b, T) = Only(a, T) \o Only(b, T)
<1> DEFINE H == {s \in Seq(X) : Only(a \o s, T) = Only(a, T) \o Only(s, T)}
<1>1. <<>> \in H
  <2>1. <<>> \in Seq(X) /\ a \o <<>> = a /\ Only(a, T) \in Seq(X)
    BY ConcatEmptySeq, OnlyDef, EmptySeq DEF OnlyOf
  <2>2. Only(a, T) \o <<>> = Only(a, T)
    BY <2>1, ConcatEmptySeq
  <2>3. Only(<<>>, T) = <<>>
    BY OnlyEmpty
  <2> QED
    BY <2>1, <2>2, <2>3
<1>2. ASSUME NEW s \in Seq(X), NEW e \in X, s \in H PROVE Append(s, e) \in H
  <2>1. Append(s, e) \in Seq(X) /\ a \o s \in Seq(X) /\ a \o Append(s, e) = Append(a \o s, e)
    BY AppendProperties, ConcatProperties, ConcatAppend
  <2>2. Only(a, T) \in Seq(X) /\ Only(s, T) \in Seq(X)
    BY OnlyAppend
  <2>3. Only(a \o s, T) = Only(a, T) \o Only(s, T)
    BY <1>2
  <2>4. /\ Only(Append(s, e), T) = IF e \in T THEN Append(Only(s, T), e) ELSE Only(s, T)
        /\ Only(Append(a \o s, e), T) = IF e \in T THEN Append(Only(a \o s, T), e) ELSE Only(a \o s, T)
    <3>1. PICK r \in Seq(X) : r = a \o s
      BY <2>1
    <3>2. Only(Append(r, e), T) = IF e \in T THEN Append(Only(r, T), e) ELSE Only(r, T)
      BY OnlyAppend
    <3>3. Only(Append(s, e), T) = IF e \in T THEN Append(Only(s, T), e) ELSE Only(s, T)
      BY OnlyAppend
    <3> QED
      BY <3>1, <3>2, <3>3
  <2>5. Only(a, T) \o Append(Only(s, T), e) = Append(Only(a, T) \o Only(s, T), e)
    BY <2>2, ConcatAppend
  <2> QED
    BY <2>1, <2>3, <2>4, <2>5
<1>3. \A s \in Seq(X) : s \in H
  <2> HIDE DEF H
  <2> QED
    BY <1>1, <1>2, SeqInduction
<1> QED
  BY <1>3

\* Only keeps everything when everything is to be kept.
LEMMA OnlyAll ==
  ASSUME NEW X, NEW T, X \subseteq T, NEW s \in Seq(X)
  PROVE  Only(s, T) = s
<1> DEFINE H == {r \in Seq(X) : Only(r, T) = r}
<1>1. <<>> \in H
  <2>1. Only(<<>>, T) = <<>> /\ \A Z : <<>> \in Seq(Z)
    BY OnlyEmpty, EmptySeq
  <2> QED
    BY <2>1
<1>2. ASSUME NEW r \in Seq(X), NEW e \in X, r \in H PROVE Append(r, e) \in H
  <2>1. Append(r, e) \in Seq(X) /\ e \in T /\ Only(r, T) = r
    BY <1>2, AppendProperties
  <2>2. Only(Append(r, e), T) = IF e \in T THEN Append(Only(r, T), e) ELSE Only(r, T)
    BY OnlyAppend
  <2> QED
    BY <2>1, <2>2
<1>3. \A r \in Seq(X) : r \in H
  <2> HIDE DEF H
  <2> QED
    BY <1>1, <1>2, SeqInduction
<1> QED
  BY <1>3

\* Only has nothing but what it should.
LEMMA OnlyIn ==
  ASSUME NEW X, NEW T, NEW s \in Seq(X)
  PROVE  Only(s, T) \in Seq(X \cap T)
<1> DEFINE Y == X \cap T
           H == {r \in Seq(X) : Only(r, T) \in Seq(Y)}
<1>1. <<>> \in H
  <2>1. Only(<<>>, T) = <<>> /\ \A Z : <<>> \in Seq(Z)
    BY OnlyEmpty, EmptySeq
  <2> QED
    BY <2>1
<1>2. ASSUME NEW r \in Seq(X), NEW e \in X, r \in H PROVE Append(r, e) \in H
  <2>1. Append(r, e) \in Seq(X) /\ Only(r, T) \in Seq(Y)
    BY <1>2, AppendProperties
  <2>2. Only(Append(r, e), T) = IF e \in T THEN Append(Only(r, T), e) ELSE Only(r, T)
    BY OnlyAppend
  <2>3. e \in T => Append(Only(r, T), e) \in Seq(Y)
    <3> SUFFICES ASSUME e \in T PROVE Append(Only(r, T), e) \in Seq(Y)
      OBVIOUS
    <3>1. e \in Y
      OBVIOUS
    <3> HIDE DEF Y
    <3> QED
      BY <2>1, <3>1, AppendProperties
  <2> HIDE DEF Y
  <2> QED
    BY <2>1, <2>2, <2>3
<1>3. \A r \in Seq(X) : r \in H
  <2> HIDE DEF H
  <2> QED
    BY <1>1, <1>2, SeqInduction
<1> QED
  BY <1>3

Ascending(s) == \A i, j \in 1..Len(s) : i < j => s[i] < s[j]

\* Only keeps the order.
LEMMA OnlyAscends ==
  ASSUME NEW T, NEW s \in Seq(Int), Ascending(s)
  PROVE  Ascending(Only(s, T))
<1> DEFINE Good(r) == \A i \in 1..Len(Only(r, T)) : \E j \in 1..Len(r) : Only(r, T)[i] = r[j]
           H == {r \in Seq(Int) : Good(r) /\ (Ascending(r) => Ascending(Only(r, T)))}
<1>1. <<>> \in H
  <2>1. Only(<<>>, T) = <<>> /\ <<>> \in Seq(Int) /\ 1..Len(<<>>) = {}
    BY OnlyEmpty, EmptySeq
  <2> QED
    BY <2>1 DEF Ascending
<1>2. ASSUME NEW r \in Seq(Int), NEW e \in Int, r \in H PROVE Append(r, e) \in H
  <2> DEFINE t == Append(r, e)
             o == Only(r, T)
             p == Only(t, T)
  <2>1. /\ t \in Seq(Int) /\ Len(t) = Len(r) + 1 /\ Len(r) \in Nat /\ t[Len(r) + 1] = e
        /\ \A i \in 1..Len(r) : t[i] = r[i] /\ r[i] \in Int
    BY AppendProperties, LenProperties
  <2>2. o \in Seq(Int) /\ Len(o) \in Nat
    BY OnlyAppend, LenProperties
  <2>3. p = IF e \in T THEN Append(o, e) ELSE o
    BY OnlyAppend
  <2>4. /\ \A i \in 1..Len(o) : \E j \in 1..Len(r) : o[i] = r[j]
        /\ Ascending(r) => Ascending(o)
    BY <1>2
  <2> HIDE DEF t, o, p
  <2>5. /\ e \in T => /\ Len(p) = Len(o) + 1 /\ p[Len(o) + 1] = e
                      /\ \A i \in 1..Len(o) : p[i] = o[i]
        /\ e \notin T => p = o
    BY <2>2, <2>3, AppendProperties
  <2>6. \A i \in 1..Len(p) : \E j \in 1..Len(t) : p[i] = t[j]
    <3>1. ASSUME NEW i \in 1..Len(o) PROVE \E j \in 1..Len(t) : o[i] = t[j]
      <4>1. PICK j \in 1..Len(r) : o[i] = r[j]
        BY <2>4
      <4>2. j \in 1..Len(t) /\ t[j] = r[j]
        BY <2>1
      <4> QED
        BY <4>1, <4>2
    <3>2. Len(r) + 1 \in 1..Len(t)
      BY <2>1
    <3>3. ASSUME e \in T, NEW i \in 1..Len(p) PROVE i \in 1..Len(o) \/ i = Len(o) + 1
      BY <2>2, <2>5, <3>3
    <3> QED
      BY <2>1, <2>5, <3>1, <3>2, <3>3
  <2>7. ASSUME Ascending(t) PROVE Ascending(p)
    <3>1. \A i, j \in 1..Len(t) : i < j => t[i] < t[j]
      BY <2>7 DEF Ascending
    <3>2. Ascending(r)
      <4> SUFFICES ASSUME NEW i \in 1..Len(r), NEW j \in 1..Len(r), i < j PROVE r[i] < r[j]
        BY DEF Ascending
      <4>1. i \in 1..Len(t) /\ j \in 1..Len(t) /\ t[i] = r[i] /\ t[j] = r[j]
        BY <2>1
      <4> QED
        BY <3>1, <4>1
    <3>3. \A i, j \in 1..Len(o) : i < j => o[i] < o[j]
      BY <2>4, <3>2 DEF Ascending
    <3>4. ASSUME NEW i \in 1..Len(o) PROVE o[i] < e
      <4>1. PICK j \in 1..Len(r) : o[i] = r[j]
        BY <2>4
      <4>2. j \in 1..Len(t) /\ Len(r) + 1 \in 1..Len(t) /\ j < Len(r) + 1 /\ t[j] = r[j]
        BY <2>1
      <4>3. t[j] < t[Len(r) + 1]
        BY <3>1, <4>2
      <4> QED
        BY <2>1, <4>1, <4>2, <4>3
    <3>5. ASSUME e \in T, NEW i \in 1..Len(p), NEW j \in 1..Len(p), i < j PROVE p[i] < p[j]
      <4>1. i \in 1..Len(o) /\ (j \in 1..Len(o) \/ j = Len(o) + 1)
        <5>1. Len(p) = Len(o) + 1 /\ Len(o) \in Nat
          BY <2>2, <2>5, <3>5
        <5>2. PICK m \in Nat : m = Len(o)
          BY <5>1
        <5>3. i \in 1..(m + 1) /\ j \in 1..(m + 1) /\ i < j
          BY <3>5, <5>1, <5>2
        <5>4. i \in 1..m /\ (j \in 1..m \/ j = m + 1)
          BY <5>3
        <5> QED
          BY <5>2, <5>4
      <4> QED
        BY <2>5, <3>3, <3>4, <3>5, <4>1
    <3> QED
      BY <2>5, <3>3, <3>5 DEF Ascending
  <2> QED
    BY <2>1, <2>6, <2>7 DEF t, p
<1>3. \A r \in Seq(Int) : r \in H
  <2> HIDE DEF H
  <2> QED
    BY <1>1, <1>2, SeqInduction
<1> QED
  BY <1>3

\* Characters of two texts side by side.
LEMMA CharsConcat ==
  ASSUME NEW a \in Seq(Kinds), NEW b \in Seq(Kinds)
  PROVE  Chars(a) \in Nat /\ Chars(b) \in Nat /\ Chars(a \o b) = Chars(a) + Chars(b)
<1> DEFINE H == {s \in Seq(Kinds) : Chars(a \o s) = Chars(a) + Chars(s)}
<1>1. \A s \in Seq(Kinds) : Chars(s) \in Nat
  BY CharsNat
<1>2. <<>> \in H
  <2>1. <<>> \in Seq(Kinds) /\ a \o <<>> = a
    BY ConcatEmptySeq, EmptySeq
  <2> QED
    BY <1>1, <2>1, CharsStep
<1>3. ASSUME NEW s \in Seq(Kinds), NEW e \in Kinds, s \in H PROVE Append(s, e) \in H
  <2>1. Append(s, e) \in Seq(Kinds) /\ a \o s \in Seq(Kinds) /\ a \o Append(s, e) = Append(a \o s, e)
    BY AppendProperties, ConcatProperties, ConcatAppend
  <2>2. Chars(a \o s) = Chars(a) + Chars(s) /\ Chars(a) \in Nat /\ Chars(s) \in Nat
    BY <1>1, <1>3
  <2>3. Chars(Append(s, e)) = Chars(s) + Width[e] /\ Chars(Append(a \o s, e)) = Chars(a \o s) + Width[e]
    BY <2>1, CharsStep
  <2>4. Width[e] \in Nat
    BY TextAssumption
  <2>5. Chars(a \o Append(s, e)) = Chars(a) + Chars(Append(s, e))
    BY <2>1, <2>2, <2>3, <2>4
  <2> QED
    BY <2>1, <2>5
<1>4. \A s \in Seq(Kinds) : s \in H
  <2> HIDE DEF H
  <2> QED
    BY <1>2, <1>3, SeqInduction
<1> QED
  BY <1>1, <1>4

-----------------------------------------------------------------------------
(* How a book is cut into chapters *)

\* The lines of a kind are lines of the text, in their order.
LEMMA LinesAre ==
  ASSUME NEW txt \in Seq(Kinds), NEW kind
  PROVE  /\ LinesOf(txt, kind) \in Seq(0..Len(txt) - 1)
         /\ Ascending(LinesOf(txt, kind))
<1> DEFINE N == Len(txt)
           s == [i \in DOMAIN txt |-> i - 1]
           T == {i \in 0..Len(txt) - 1 : txt[i + 1] = kind}
<1>1. N \in Nat /\ DOMAIN txt = 1..N
  BY LenProperties
<1>2. s \in Seq(Int) /\ Len(s) = N /\ \A i \in 1..N : s[i] = i - 1
  BY <1>1
<1>3. LinesOf(txt, kind) = Only(s, T)
  BY DEF LinesOf
<1>4. Int \cap T \subseteq 0..Len(txt) - 1
  OBVIOUS
<1>5. Ascending(s)
  <2>1. \A i, j \in 1..N : i < j => i - 1 < j - 1
    BY <1>1
  <2> HIDE DEF s, N
  <2> QED
    BY <1>2, <2>1 DEF Ascending
<1> HIDE DEF s, T, N
<1>6. Only(s, T) \in Seq(Int \cap T) /\ Ascending(Only(s, T))
  BY <1>2, <1>5, OnlyIn, OnlyAscends
<1>7. Only(s, T) \in Seq(0..Len(txt) - 1)
  <2>1. PICK Y : Y = Int \cap T
    OBVIOUS
  <2>2. Only(s, T) \in Seq(Y) /\ Y \subseteq 0..Len(txt) - 1
    BY <1>4, <1>6, <2>1
  <2> QED
    BY <2>2, SeqMonotonic
<1> QED
  BY <1>3, <1>6, <1>7

\* Pieces follow each other from lo to hi.
Abut(cs, lo, hi) ==
    /\ \A i \in 1..Len(cs) : /\ cs[i].lo = (IF i = 1 THEN lo ELSE cs[i - 1].hi)
                             /\ cs[i].lo < cs[i].hi /\ cs[i].hi <= hi
    /\ hi = IF cs = <<>> THEN lo ELSE cs[Len(cs)].hi

Spans == [lo : Int, hi : Int]

\* A text with a title or a line of prose is cut from beginning to end, without
\* a title into one piece.
LEMMA SplitTiles ==
  ASSUME NEW txt \in Seq(Kinds)
  PROVE  LET cs == SplitByTitles(txt)
             at == LinesOf(txt, "chapter")
         IN /\ cs \in Seq(Spans)
            /\ cs = <<>> => at = <<>> /\ Filled(txt) = <<>>
            /\ cs # <<>> => Abut(cs, 0, Len(txt))
            /\ at = <<>> => cs = <<>> \/ Len(cs) = 1
<1> DEFINE cs == SplitByTitles(txt)
           at == LinesOf(txt, "chapter")
           N == Len(txt)
           m == Len(at)
           S(i) == [lo |-> IF i = 1 THEN 0 ELSE at[i], hi |-> IF i < Len(at) THEN at[i + 1] ELSE Len(txt)]
<1>1. N \in Nat /\ at \in Seq(0..N - 1) /\ Ascending(at)
  BY LinesAre, LenProperties
<1>2. CASE at # <<>>
  <2> HIDE DEF at
  <2>1. /\ m \in Nat /\ m # 0 /\ DOMAIN at = 1..m
        /\ \A i \in 1..m : at[i] \in Int /\ 0 <= at[i] /\ at[i] < N
        /\ \A i, j \in 1..m : i < j => at[i] < at[j]
    <3>1. m \in Nat /\ m # 0 /\ DOMAIN at = 1..m /\ \A i \in 1..m : at[i] \in 0..N - 1
      BY <1>1, <1>2, LenProperties, EmptySeq
    <3> QED
      BY <1>1, <3>1 DEF Ascending
  <2>2. cs = [i \in 1..m |-> S(i)]
    BY <1>2, <2>1 DEF SplitByTitles, at
  <2> HIDE DEF cs, N, m
  <2>3. ASSUME NEW i \in 1..m
        PROVE  /\ S(i) \in Spans /\ S(i).lo < S(i).hi /\ S(i).hi <= N
               /\ i # m => S(i).hi = S(i + 1).lo
               /\ i = m => S(i).hi = N
               /\ i = 1 => S(i).lo = 0
    <3>1. i \in Nat /\ i >= 1 /\ (i # m => i < m /\ i + 1 \in 1..m /\ i + 1 # 1 /\ i < i + 1)
          /\ (i = m => ~(i < m))
      BY <2>1
    <3>2. /\ at[i] \in Int /\ 0 <= at[i] /\ at[i] < N
          /\ i # m => at[i + 1] \in Int /\ at[i] < at[i + 1] /\ at[i + 1] < N
      BY <2>1, <3>1
    <3>3. S(i).hi = (IF i # m THEN at[i + 1] ELSE N) /\ S(i).lo = IF i = 1 THEN 0 ELSE at[i]
      BY <3>1 DEF m, N
    <3>4. i # m => S(i + 1).lo = at[i + 1]
      BY <3>1
    <3>5. S(i).lo \in Int /\ S(i).hi \in Int /\ S(i).lo <= at[i] /\ at[i] < S(i).hi /\ S(i).hi <= N
      BY <1>1, <3>2, <3>3
    <3> QED
      BY <1>1, <3>2, <3>3, <3>4, <3>5 DEF Spans
  <2>4. cs \in Seq(Spans) /\ Len(cs) = m
    BY <2>1, <2>2, <2>3
  <2>5. cs # <<>>
    BY <2>1, <2>4, EmptySeq
  <2>6. ASSUME NEW i \in 1..m, i # 1 PROVE cs[i].lo = cs[i - 1].hi
    <3>1. i - 1 \in 1..m /\ i - 1 # m /\ (i - 1) + 1 = i
      BY <2>1, <2>6
    <3>2. S(i - 1).hi = S((i - 1) + 1).lo
      BY <2>3, <3>1
    <3> HIDE DEF S
    <3> QED
      BY <2>2, <3>1, <3>2
  <2>7. m \in 1..m /\ 1 \in 1..m
    BY <2>1
  <2> HIDE DEF S
  <2>8. Abut(cs, 0, N)
    BY <2>2, <2>3, <2>4, <2>5, <2>6, <2>7 DEF Abut
  <2> QED
    BY <1>2, <2>4, <2>5, <2>8 DEF cs, N, at
<1>3. CASE at = <<>>
  <2>1. cs = IF Filled(txt) # <<>> THEN <<[lo |-> 0, hi |-> N]>> ELSE <<>>
    BY <1>3 DEF SplitByTitles
  <2>2. CASE Filled(txt) = <<>>
    <3>1. cs = <<>> /\ <<>> \in Seq(Spans)
      BY <2>1, <2>2, EmptySeq
    <3> QED
      BY <1>3, <2>2, <3>1
  <2>3. CASE Filled(txt) # <<>>
    <3>1. txt # <<>>
      BY <2>3, OnlyEmpty DEF Filled
    <3>2. N # 0
      BY <3>1, EmptySeq
    <3>3. [lo |-> 0, hi |-> N] \in Spans
      BY <1>1 DEF Spans
    <3>4. cs = <<[lo |-> 0, hi |-> N]>>
      BY <2>1, <2>3
    <3> HIDE DEF cs, N
    <3>5. Len(cs) = 1 /\ cs # <<>> /\ cs[1] = [lo |-> 0, hi |-> N] /\ cs \in Seq(Spans)
      BY <3>3, <3>4, EmptySeq
    <3>6. Abut(cs, 0, N)
      BY <1>1, <3>2, <3>5 DEF Abut
    <3> QED
      BY <1>3, <3>5, <3>6 DEF cs, N
  <2> QED
    BY <2>2, <2>3
<1> QED
  BY <1>2, <1>3

\* One more piece.
LEMMA AbutAppend ==
  ASSUME NEW X, NEW cs \in Seq(X), NEW c \in X, NEW lo \in Int, NEW mid \in Int,
         Abut(cs, lo, mid), c.lo = mid, c.hi \in Int, mid < c.hi, \A x \in X : x.hi \in Int
  PROVE  Abut(Append(cs, c), lo, c.hi)
<1> DEFINE t == Append(cs, c)
           N == Len(cs)
<1>1. /\ t \in Seq(X) /\ Len(t) = N + 1 /\ N \in Nat /\ t[N + 1] = c
      /\ \A i \in 1..N : t[i] = cs[i] /\ cs[i] \in X
  BY AppendProperties, LenProperties
<1>2. t # <<>> /\ (cs = <<>> <=> N = 0)
  BY <1>1, EmptySeq
<1> HIDE DEF t, N
<1>3. /\ \A i \in 1..N : cs[i].lo = (IF i = 1 THEN lo ELSE cs[i - 1].hi) /\ cs[i].lo < cs[i].hi /\ cs[i].hi <= mid
      /\ mid = IF N = 0 THEN lo ELSE cs[N].hi
  BY <1>2 DEF Abut, N
<1>4. ASSUME NEW i \in 1..(N + 1)
      PROVE  /\ t[i].lo = (IF i = 1 THEN lo ELSE t[i - 1].hi)
             /\ t[i].lo < t[i].hi /\ t[i].hi <= c.hi
  <2>1. CASE i = N + 1
    <3>1. t[i] = c
      BY <1>1, <2>1
    <3>2. N # 0 => i # 1 /\ i - 1 = N /\ N \in 1..N
      BY <1>1, <2>1
    <3>3. N = 0 => i = 1
      BY <2>1
    <3> QED
      BY <1>1, <1>3, <3>1, <3>2, <3>3
  <2>2. CASE i # N + 1
    <3>1. i \in 1..N /\ (i # 1 => i - 1 \in 1..N)
      BY <1>1, <2>2
    <3>2. t[i] = cs[i] /\ (i # 1 => t[i - 1] = cs[i - 1]) /\ cs[i].hi \in Int
      BY <1>1, <3>1
    <3>3. cs[i].hi <= c.hi
      BY <1>3, <3>1, <3>2
    <3> QED
      BY <1>3, <3>1, <3>2, <3>3
  <2> QED
    BY <2>1, <2>2
<1> QED
  BY <1>1, <1>2, <1>4 DEF Abut, t

Cuts(txt, V, O) == {Chapter(txt, lo, hi, v, o) : lo \in Int, hi \in Int, v \in V, o \in O}

\* A chapter cut out of a text is what Chapter makes of its parts.
LEMMA CutIs ==
  ASSUME NEW txt, NEW V, NEW O, NEW c \in Cuts(txt, V, O)
  PROVE  /\ c.lo \in Int /\ c.hi \in Int /\ c.volume \in V /\ c.ordinal \in O
         /\ c.hash = Lines(txt, c.lo, c.hi)
         /\ c = Chapter(txt, c.lo, c.hi, c.volume, c.ordinal)
<1>1. PICK lo \in Int, hi \in Int, v \in V, o \in O : c = Chapter(txt, lo, hi, v, o)
  BY DEF Cuts
<1>2. c.lo = lo /\ c.hi = hi /\ c.volume = v /\ c.ordinal = o /\ c.hash = Lines(txt, lo, hi)
  BY <1>1 DEF Chapter
<1> QED
  BY <1>1, <1>2

\* A sequence is one of what it has.
LEMMA OwnRange == ASSUME NEW X, NEW s \in Seq(X) PROVE s \in Seq(Range(s))
<1>1. DOMAIN s = 1..Len(s) /\ Len(s) \in Nat /\ s = [i \in 1..Len(s) |-> s[i]]
  BY LenProperties
<1>2. PICK R : R = Range(s)
  OBVIOUS
<1>3. \A i \in 1..Len(s) : s[i] \in R
  BY <1>1, <1>2 DEF Range
<1>4. s \in Seq(R)
  BY <1>1, <1>3
<1> QED
  BY <1>2, <1>4

\* Chapters that follow each other cut the text.
LEMMA AbutChaptered ==
  ASSUME NEW txt, NEW V, NEW O, NEW cs \in Seq(Cuts(txt, V, O)), Abut(cs, 0, Len(txt))
  PROVE  cs \in Seq(Range(cs)) /\ Chaptered(cs, txt)
<1>1. DOMAIN cs = 1..Len(cs) /\ \A i \in 1..Len(cs) : cs[i] \in Cuts(txt, V, O)
  BY LenProperties
<1>2. \A i \in 1..Len(cs) : cs[i].hi \in Int /\ cs[i].hash = Lines(txt, cs[i].lo, cs[i].hi)
  BY <1>1, CutIs
<1>3. Chaptered(cs, txt)
  BY <1>1, <1>2 DEF Abut, Chaptered
<1> QED
  BY <1>3, OwnRange

\* What the parser of text files makes of a text.
LEMMA TxtIsCut == ASSUME NEW txt \in Seq(Kinds) PROVE WellCut(ParseTxt(txt))
<1> DEFINE marks == LinesOf(txt, "volume")
           Above(lo) == {v \in DOMAIN marks : marks[v] <= lo}
           Volume(lo) == IF Above(lo) = {} THEN NoVolume ELSE Max(Above(lo))
           cands == SplitByTitles(txt)
           V == {Volume(cands[i].lo) : i \in DOMAIN cands}
           cs == [i \in DOMAIN cands |->
                   Chapter(txt, cands[i].lo, cands[i].hi, Volume(cands[i].lo), Volume(cands[i].lo))]
<1>1. /\ cands \in Seq(Spans)
      /\ cands = <<>> => Filled(txt) = <<>>
      /\ cands # <<>> => Abut(cands, 0, Len(txt))
  BY SplitTiles
<1>2. ParseTxt(txt) = ParsedBook(txt, cs)
  BY DEF ParseTxt
<1>3. V = {Volume(cands[i].lo) : i \in DOMAIN cands}
  OBVIOUS
<1> HIDE DEF cands, Volume, V
<1>4. DOMAIN cands = 1..Len(cands) /\ Len(cands) \in Nat
      /\ \A i \in 1..Len(cands) : cands[i].lo \in Int /\ cands[i].hi \in Int
  <2>1. \A x \in Spans : x.lo \in Int /\ x.hi \in Int
    BY DEF Spans
  <2>2. DOMAIN cands = 1..Len(cands) /\ Len(cands) \in Nat /\ \A i \in 1..Len(cands) : cands[i] \in Spans
    BY <1>1, LenProperties
  <2> QED
    BY <2>1, <2>2
<1>5. cs \in Seq(Cuts(txt, V, V)) /\ Len(cs) = Len(cands) /\ DOMAIN cs = 1..Len(cs)
  <2>1. ASSUME NEW i \in 1..Len(cands) PROVE cs[i] \in Cuts(txt, V, V)
    <3>1. Volume(cands[i].lo) \in V
      BY <1>3, <1>4
    <3> QED
      BY <1>4, <3>1 DEF Cuts
  <2> HIDE DEF Cuts
  <2> QED
    BY <1>4, <2>1
<1>6. \A i \in 1..Len(cands) : cs[i].lo = cands[i].lo /\ cs[i].hi = cands[i].hi
  BY <1>4 DEF Chapter
<1>7. cs = <<>> <=> cands = <<>>
  BY <1>1, <1>5, EmptySeq
<1>8. CASE cands = <<>>
  <2>1. cs = <<>> /\ DOMAIN cs = {}
    BY <1>5, <1>7, <1>8, EmptySeq
  <2> HIDE DEF cs
  <2>2. Chaptered(cs, txt)
    BY <2>1 DEF Chaptered
  <2>3. cs \in Seq(Range(cs))
    BY <2>1, EmptySeq
  <2> QED
    BY <1>1, <1>2, <1>8, <2>2, <2>3 DEF WellCut, ParsedBook
<1>9. CASE cands # <<>>
  <2> HIDE DEF cs
  <2>1. \A i \in 1..Len(cands) : i # 1 => i - 1 \in 1..Len(cands)
    BY <1>4
  <2>2. Len(cands) \in 1..Len(cands)
    BY <1>1, <1>4, <1>9, EmptySeq
  <2>3. Abut(cs, 0, Len(txt))
    BY <1>1, <1>5, <1>6, <1>7, <1>9, <2>1, <2>2 DEF Abut
  <2>4. cs \in Seq(Range(cs)) /\ Chaptered(cs, txt)
    BY <1>5, <2>3, AbutChaptered
  <2> QED
    BY <1>2, <1>7, <1>9, <2>4 DEF WellCut, ParsedBook
<1> QED
  BY <1>8, <1>9

\* Only has a sequence of the same kind.
LEMMA OnlySeq == ASSUME NEW X, NEW T, NEW s \in Seq(X) PROVE Only(s, T) \in Seq(X)
<1>1. PICK Y : Y = X \cap T
  OBVIOUS
<1>2. Only(s, T) \in Seq(Y) /\ Y \subseteq X
  BY <1>1, OnlyIn
<1> QED
  BY <1>2, SeqMonotonic

\* Two lists of titles are one.
LEMMA ListedConcat ==
  ASSUME NEW a \in Seq(Kinds), NEW b \in Seq(Kinds), MostlyListed(a), MostlyListed(b)
  PROVE  MostlyListed(a \o b)
<1> DEFINE T == Kinds \ {"blank"}
           R == Kinds \ Listing
           la == Only(a, T)
           lb == Only(b, T)
           oa == Only(la, R)
           ob == Only(lb, R)
<1>1. la \in Seq(Kinds) /\ lb \in Seq(Kinds) /\ Only(a \o b, T) = la \o lb
  BY OnlySeq, OnlyConcat
<1> HIDE DEF la, lb
<1>2. oa \in Seq(Kinds) /\ ob \in Seq(Kinds) /\ Only(la \o lb, R) = oa \o ob
  <2> HIDE DEF R
  <2>1. oa \in Seq(Kinds) /\ ob \in Seq(Kinds)
    BY <1>1, OnlySeq
  <2>2. Only(la \o lb, R) = oa \o ob
    BY <1>1, OnlyConcat
  <2> QED
    BY <2>1, <2>2
<1>3. la # <<>> /\ 10 * Len(oa) < Len(la) /\ lb # <<>> /\ 10 * Len(ob) < Len(lb)
  BY Zenon DEF MostlyListed, Filled, la, lb
<1> HIDE DEF oa, ob
<1>4. /\ Len(la \o lb) = Len(la) + Len(lb) /\ Len(oa \o ob) = Len(oa) + Len(ob)
      /\ Len(la) \in Nat /\ Len(lb) \in Nat /\ Len(oa) \in Nat /\ Len(ob) \in Nat
  BY <1>1, <1>2, ConcatProperties, LenProperties
<1>5. 10 * Len(oa \o ob) < Len(la \o lb)
  <2>1. PICK p \in Nat, q \in Nat, r \in Nat, s \in Nat :
           p = Len(la) /\ q = Len(lb) /\ r = Len(oa) /\ s = Len(ob)
    BY <1>4
  <2>2. 10 * (r + s) < p + q
    BY <1>3, <2>1
  <2> QED
    BY <1>4, <2>1, <2>2
<1>6. la \o lb # <<>>
  BY <1>1, <1>3, ConcatEqualIffEmpty
<1>7. Filled(a \o b) = la \o lb /\ Only(Filled(a \o b), R) = oa \o ob
  BY <1>1, <1>2 DEF Filled
<1>8. MostlyListed(a \o b) <=> Filled(a \o b) # <<>> /\ 10 * Len(Only(Filled(a \o b), R)) < Len(Filled(a \o b))
  BY Zenon DEF MostlyListed
<1> QED
  BY <1>5, <1>6, <1>7, <1>8

\* Pieces of a text side by side, and the whole text.
LEMMA LinesJoin ==
  ASSUME NEW txt \in Seq(Kinds)
  PROVE  /\ Lines(txt, 0, Len(txt)) = txt
         /\ \A a \in 0..Len(txt), b \in 0..Len(txt) : a <= b =>
              /\ Lines(txt, a, b) \in Seq(Kinds) /\ Len(Lines(txt, a, b)) = b - a
              /\ Lines(txt, 0, a) \o Lines(txt, a, b) = Lines(txt, 0, b)
<1>1. Lines(txt, 0, Len(txt)) = txt
  BY SubSeqFull DEF Lines
<1>2. \A a, b : Lines(txt, a, b) = Cut(txt, a, b)
  BY DEF Lines, Cut
<1>3. ASSUME NEW a \in 0..Len(txt), NEW b \in 0..Len(txt), a <= b
      PROVE  /\ Lines(txt, a, b) \in Seq(Kinds) /\ Len(Lines(txt, a, b)) = b - a
             /\ Lines(txt, 0, a) \o Lines(txt, a, b) = Lines(txt, 0, b)
  <2>1. b \in a..Len(txt)
    BY <1>3
  <2>2. Cut(txt, a, b) \in Seq(Kinds) /\ Len(Cut(txt, a, b)) = b - a
    BY <2>1, Pieces
  <2>3. Cut(txt, 0, a) \o Cut(txt, a, b) = Cut(txt, 0, b)
    BY <2>1, Adjoined
  <2> QED
    BY <1>2, <2>2, <2>3
<1> QED
  BY <1>1, <1>3

\* The scan of WithoutTocLines, step by step, and what it ends with.
Scan(txt, s, c) ==
    IF IsTocLine(Lines(txt, c.lo, c.hi))
    THEN [s EXCEPT !.from = IF @ < 0 THEN c.lo ELSE @]
    ELSE [out |-> Append(s.out, IF s.from < 0 THEN c
                                ELSE Chapter(txt, s.from, c.hi, c.volume, c.ordinal)),
          from |-> -1]
Scans(X) == [out : Seq(X), from : Int]
Scanned(u, X, txt, cs) ==
    /\ u \in [0..Len(cs) -> Scans(X)]
    /\ u[0] = [out |-> <<>>, from |-> -1]
    /\ \A n \in 1..Len(cs) : u[n] = Scan(txt, u[n - 1], cs[n])
    /\ WithoutTocLines(txt, cs) =
         LET end == u[Len(cs)]
             last == end.out[Len(end.out)]
         IN IF end.from < 0 \/ end.out = <<>> THEN end.out
            ELSE [end.out EXCEPT ![Len(end.out)] =
                    Chapter(txt, last.lo, Len(txt), last.volume, last.ordinal)]

\* A step of the scan has chapters of the text again.
LEMMA ScanCuts ==
  ASSUME NEW txt, NEW V, NEW O, NEW s \in Scans(Cuts(txt, V, O)), NEW c \in Cuts(txt, V, O)
  PROVE  Scan(txt, s, c) \in Scans(Cuts(txt, V, O))
<1>1. s.out \in Seq(Cuts(txt, V, O)) /\ s.from \in Int /\ s = [out |-> s.out, from |-> s.from]
  BY DEF Scans
<1>2. c.lo \in Int /\ c.hi \in Int /\ c.volume \in V /\ c.ordinal \in O
  BY CutIs
<1>3. Chapter(txt, s.from, c.hi, c.volume, c.ordinal) \in Cuts(txt, V, O)
  BY <1>1, <1>2 DEF Cuts
<1> QED
  BY <1>1, <1>2, <1>3, AppendProperties DEF Scan, Scans

\* The recursion of WithoutTocLines has a solution.
LEMMA ScanDef ==
  ASSUME NEW txt, NEW V, NEW O, NEW cs \in Seq(Cuts(txt, V, O))
  PROVE  \E u : Scanned(u, Cuts(txt, V, O), txt, cs)
<1> DEFINE N == Len(cs)
           X == Cuts(txt, V, O)
           base == [out |-> <<>>, from |-> -1]
           Step(h, n) == IF n = 0 THEN base ELSE Scan(txt, h[n - 1], cs[n])
           Fun(h) == h = [n \in 0..N |-> Step(h, n)]
           G == [n \in 1..N |-> [x \in Scans(X) |-> Scan(txt, x, cs[n])]]
           u == CHOOSE h : Fun(h)
<1>1. N \in Nat /\ \A n \in 1..N : cs[n] \in X
  BY LenProperties
<1>2. \A x \in Scans(X), n \in 1..N : G[n][x] = Scan(txt, x, cs[n]) /\ G[n][x] \in Scans(X)
  BY <1>1, ScanCuts
<1>3. Closed(Scans(X), N, G)
  BY <1>2 DEF Closed
<1>4. WithoutTocLines(txt, cs) =
         LET end == u[N]
             last == end.out[Len(end.out)]
         IN IF end.from < 0 \/ end.out = <<>> THEN end.out
            ELSE [end.out EXCEPT ![Len(end.out)] =
                    Chapter(txt, last.lo, Len(txt), last.volume, last.ordinal)]
  BY Zenon DEF WithoutTocLines, Scan
<1>5. base \in Scans(X)
  BY EmptySeq DEF Scans
<1> HIDE DEF N, X, base
<1>6. PICK f : Recursive(f, Scans(X), base, N, G)
  <2> HIDE DEF G
  <2>1. PICK S : S = Scans(X)
    OBVIOUS
  <2> QED
    BY <1>1, <1>3, <1>5, <2>1, Recursion
<1>7. \A n \in 0..N : f[n] = Step(f, n)
  <2> TAKE n \in 0..N
  <2>1. n = 0 \/ (n \in 1..N /\ n - 1 \in 0..N /\ n # 0)
    BY <1>1
  <2>2. f[0] = base /\ \A i \in 0..N : f[i] \in Scans(X)
    BY <1>6 DEF Recursive
  <2>3. n \in 1..N => f[n] = G[n][f[n - 1]]
    BY <1>6 DEF Recursive
  <2>4. n \in 1..N => f[n] = Scan(txt, f[n - 1], cs[n])
    <3> HIDE DEF G
    <3> QED
      BY <1>2, <2>1, <2>2, <2>3
  <2> QED
    BY <2>1, <2>2, <2>4
<1>8. Fun(f)
  <2> HIDE DEF Step
  <2> QED
    BY <1>6, <1>7 DEF Recursive
<1>9. Fun(u)
  <2> HIDE DEF Fun
  <2> QED
    BY <1>8, Zenon
<1> HIDE DEF u
<1>10. DOMAIN u = 0..N /\ (\A n \in 0..N : u[n] = Step(u, n)) /\ u = [n \in 0..N |-> u[n]]
  <2> HIDE DEF Step
  <2> QED
    BY <1>9
<1>11. u[0] = base /\ \A n \in 1..N : u[n] = Scan(txt, u[n - 1], cs[n])
  <2>1. 0 \in 0..N /\ \A n \in 1..N : n \in 0..N /\ n # 0
    BY <1>1
  <2> QED
    BY <1>10, <2>1
<1>12. \A n \in 0..N : u[n] \in Scans(X)
  <2> DEFINE H == {n \in 0..N : u[n] \in Scans(X)}
  <2>1. 0 \in H
    BY <1>1, <1>5, <1>11
  <2>2. ASSUME NEW n \in 0..N, n \in H, n # N PROVE n + 1 \in H
    <3>1. n + 1 \in 1..N /\ n + 1 \in 0..N /\ (n + 1) - 1 = n
      BY <1>1, <2>2
    <3>2. u[n + 1] = Scan(txt, u[n], cs[n + 1]) /\ u[n] \in Scans(X) /\ cs[n + 1] \in X
      BY <1>1, <1>11, <2>2, <3>1
    <3>3. Scan(txt, u[n], cs[n + 1]) \in Scans(X)
      BY <3>2, ScanCuts DEF X
    <3> QED
      BY <3>1, <3>2, <3>3
  <2>3. \A n \in 0..N : n \in H
    <3> HIDE DEF H
    <3> QED
      BY <1>1, <2>1, <2>2, UpTo
  <2> QED
    BY <2>3
<1>13. u \in [0..N -> Scans(X)]
  BY <1>10, <1>12
<1> QED
  BY <1>4, <1>11, <1>13, Zenon DEF N, X, base, Scanned

\* Where the first n chapters end.
EndAt(cs, n) == IF n = 0 THEN 0 ELSE cs[n].hi

\* What the scan has after n chapters: they tile the text up to their end, or up to
\* where lists of titles wait for the next chapter.
ScanInv(txt, cs, s, n) ==
    /\ EndAt(cs, n) \in 0..Len(txt)
    /\ s.from < 0 => Abut(s.out, 0, EndAt(cs, n))
    /\ ~(s.from < 0) => Abut(s.out, 0, s.from) /\ s.from < EndAt(cs, n)
    /\ s.out = <<>> => n = 0 \/ MostlyListed(Lines(txt, 0, EndAt(cs, n)))

\* A step of the scan keeps this.
LEMMA ScanStep ==
  ASSUME NEW txt \in Seq(Kinds), NEW V, NEW O, NEW cs \in Seq(Cuts(txt, V, O)),
         Abut(cs, 0, Len(txt)),
         NEW n \in 0..Len(cs), n # Len(cs),
         NEW s \in Scans(Cuts(txt, V, O)), ScanInv(txt, cs, s, n)
  PROVE  ScanInv(txt, cs, Scan(txt, s, cs[n + 1]), n + 1)
<1> DEFINE X == Cuts(txt, V, O)
           c == cs[n + 1]
           e == EndAt(cs, n)
           r == Scan(txt, s, c)
           L == Len(txt)
<1>1. /\ n + 1 \in 1..Len(cs) /\ n + 1 # 0 /\ (n # 0 => n + 1 # 1 /\ n \in 1..Len(cs)) /\ (n + 1) - 1 = n
      /\ c \in X /\ L \in Nat /\ \A i \in 1..Len(cs) : cs[i] \in X
  <2>1. Len(cs) \in Nat /\ \A i \in 1..Len(cs) : cs[i] \in X
    BY LenProperties
  <2>2. n + 1 \in 1..Len(cs)
    BY <2>1
  <2> QED
    BY <2>1, <2>2, LenProperties
<1>2. c.lo \in Int /\ c.hi \in Int /\ c.volume \in V /\ c.ordinal \in O
  BY <1>1, CutIs
<1>3. c.lo = e /\ c.lo < c.hi /\ c.hi <= L /\ EndAt(cs, n + 1) = c.hi
  BY <1>1 DEF Abut, EndAt
<1>4. e \in 0..L /\ c.lo \in 0..L /\ c.hi \in 0..L
  BY <1>1, <1>2, <1>3 DEF ScanInv
<1>5. s.out \in Seq(X) /\ s.from \in Int /\ s = [out |-> s.out, from |-> s.from]
  BY DEF Scans
<1>6. \A x \in X : x.hi \in Int
  BY CutIs
<1> HIDE DEF X, c, e, L
<1>7. CASE IsTocLine(Lines(txt, c.lo, c.hi))
  <2>1. r.out = s.out /\ r.from = IF s.from < 0 THEN c.lo ELSE s.from
    BY <1>5, <1>7 DEF Scan
  <2>2. MostlyListed(Lines(txt, c.lo, c.hi))
    BY <1>7 DEF IsTocLine
  <2>3. Abut(r.out, 0, r.from) /\ ~(r.from < 0) /\ r.from < c.hi
    <3>1. s.from < 0 => Abut(s.out, 0, e)
      BY DEF ScanInv, e
    <3>2. ~(s.from < 0) => Abut(s.out, 0, s.from) /\ s.from < e
      BY DEF ScanInv, e
    <3>3. c.lo \in Int /\ c.hi \in Int /\ e \in Int /\ s.from \in Int /\ 0 <= c.lo /\ e = c.lo /\ c.lo < c.hi
      BY <1>2, <1>3, <1>4, <1>5
    <3> HIDE DEF r
    <3> QED
      BY <2>1, <3>1, <3>2, <3>3
  <2>4. ASSUME r.out = <<>> PROVE MostlyListed(Lines(txt, 0, c.hi))
    <3>1. CASE n = 0
      <4>1. c.lo = 0
        BY <1>3, <3>1 DEF e, EndAt
      <4> QED
        BY <2>2, <4>1
    <3>2. CASE n # 0
      <4>1. MostlyListed(Lines(txt, 0, e))
        BY <2>1, <2>4, <3>2 DEF ScanInv, e
      <4>2. /\ Lines(txt, 0, e) \in Seq(Kinds) /\ Lines(txt, e, c.hi) \in Seq(Kinds)
            /\ Lines(txt, 0, e) \o Lines(txt, e, c.hi) = Lines(txt, 0, c.hi)
        <5>1. 0 \in 0..L /\ 0 <= e /\ e <= c.hi
          BY <1>1, <1>3, <1>4
        <5> QED
          BY <1>4, <5>1, LinesJoin DEF L
      <4> QED
        BY <1>3, <2>2, <4>1, <4>2, ListedConcat
    <3> QED
      BY <3>1, <3>2
  <2> QED
    BY <1>3, <1>4, <2>3, <2>4 DEF ScanInv, r, c, L
<1>8. CASE ~IsTocLine(Lines(txt, c.lo, c.hi))
  <2> DEFINE new == IF s.from < 0 THEN c ELSE Chapter(txt, s.from, c.hi, c.volume, c.ordinal)
             from == IF s.from < 0 THEN e ELSE s.from
  <2>1. r = [out |-> Append(s.out, new), from |-> -1]
    BY <1>8 DEF Scan
  <2>2. new \in X
    <3>1. Chapter(txt, s.from, c.hi, c.volume, c.ordinal) \in X
      BY <1>2, <1>5 DEF Cuts, X
    <3> QED
      BY <1>1, <3>1
  <2>3. new.lo = from /\ new.hi = c.hi
    BY <1>3 DEF Chapter
  <2>4. from \in Int /\ from < c.hi /\ Abut(s.out, 0, from)
    <3>1. s.from < 0 => Abut(s.out, 0, e)
      BY DEF ScanInv, e
    <3>2. ~(s.from < 0) => Abut(s.out, 0, s.from) /\ s.from < e
      BY DEF ScanInv, e
    <3>3. c.lo \in Int /\ c.hi \in Int /\ e \in Int /\ s.from \in Int /\ e = c.lo /\ c.lo < c.hi
      BY <1>2, <1>3, <1>4, <1>5
    <3> QED
      BY <3>1, <3>2, <3>3
  <2> HIDE DEF new, from
  <2>5. Abut(Append(s.out, new), 0, new.hi)
    <3>1. PICK out \in Seq(X) : out = s.out
      BY <1>5
    <3>2. Abut(out, 0, from) /\ new.lo = from /\ from < new.hi /\ new.hi \in Int
      BY <1>2, <2>3, <2>4, <3>1
    <3>3. Abut(Append(out, new), 0, new.hi)
      BY <1>6, <2>2, <2>4, <3>2, AbutAppend
    <3> QED
      BY <3>1, <3>3
  <2>6. Append(s.out, new) # <<>>
    <3>1. PICK out \in Seq(X) : out = s.out
      BY <1>5
    <3>2. Append(out, new) \in Seq(X) /\ Len(Append(out, new)) = Len(out) + 1 /\ Len(out) \in Nat
      BY <2>2, AppendProperties, LenProperties
    <3>3. Len(Append(out, new)) # 0
      BY <3>2
    <3> QED
      BY <3>1, <3>3, EmptySeq
  <2>7. r.out = Append(s.out, new) /\ r.from < 0
    BY <2>1
  <2> QED
    BY <1>3, <1>4, <2>3, <2>5, <2>6, <2>7 DEF ScanInv, r, c, L
<1> QED
  BY <1>7, <1>8

\* Without its lists of titles a cut text stays cut.
LEMMA WithoutTocCut ==
  ASSUME NEW txt \in Seq(Kinds), NEW V, NEW O, NEW cs \in Seq(Cuts(txt, V, O)),
         Abut(cs, 0, Len(txt))
  PROVE  LET r == WithoutTocLines(txt, cs)
         IN /\ r \in Seq(Range(r)) /\ r \in Seq(Cuts(txt, V, O)) /\ Chaptered(r, txt)
            /\ r = <<>> => Filled(txt) = <<>> \/ MostlyListed(txt)
<1> DEFINE X == Cuts(txt, V, O)
           N == Len(cs)
           L == Len(txt)
           r == WithoutTocLines(txt, cs)
<1>1. N \in Nat /\ L \in Nat
  BY LenProperties
<1>2. PICK u : Scanned(u, X, txt, cs)
  BY ScanDef
<1>3. /\ \A n \in 0..N : u[n] \in Scans(X)
      /\ u[0] = [out |-> <<>>, from |-> -1]
      /\ \A n \in 1..N : u[n] = Scan(txt, u[n - 1], cs[n])
  BY <1>2 DEF Scanned
<1> DEFINE H == {n \in 0..N : ScanInv(txt, cs, u[n], n)}
<1>4. 0 \in H
  <2>1. u[0].out = <<>> /\ u[0].from = -1 /\ EndAt(cs, 0) = 0 /\ -1 < 0
    BY <1>3 DEF EndAt
  <2>2. Abut(<<>>, 0, 0)
    <3>1. Len(<<>>) = 0 /\ 1..0 = {}
      BY EmptySeq
    <3> QED
      BY <3>1 DEF Abut
  <2> QED
    BY <1>1, <2>1, <2>2 DEF ScanInv
<1>5. ASSUME NEW n \in 0..N, n \in H, n # N PROVE n + 1 \in H
  <2>1. n + 1 \in 1..N /\ n + 1 \in 0..N /\ (n + 1) - 1 = n
    BY <1>1, <1>5
  <2>2. u[n + 1] = Scan(txt, u[n], cs[n + 1]) /\ u[n] \in Scans(X) /\ ScanInv(txt, cs, u[n], n)
    BY <1>3, <1>5, <2>1
  <2>3. ScanInv(txt, cs, Scan(txt, u[n], cs[n + 1]), n + 1)
    BY <1>5, <2>2, ScanStep
  <2> QED
    BY <2>1, <2>2, <2>3
<1>6. \A n \in 0..N : n \in H
  <2> HIDE DEF H
  <2> QED
    BY <1>1, <1>4, <1>5, UpTo
<1> DEFINE end == u[N]
           out == end.out
           last == out[Len(out)]
<1>7. N \in 0..N /\ ScanInv(txt, cs, end, N) /\ end \in Scans(X)
  BY <1>1, <1>3, <1>6
<1>8. r = IF end.from < 0 \/ out = <<>> THEN out
          ELSE [out EXCEPT ![Len(out)] = Chapter(txt, last.lo, L, last.volume, last.ordinal)]
  BY <1>2 DEF Scanned
<1>9. out \in Seq(X) /\ end.from \in Int
  BY <1>7 DEF Scans
<1>10. EndAt(cs, N) = L
  <2>1. N = 0 <=> cs = <<>>
    BY EmptySeq
  <2> QED
    BY <2>1 DEF Abut, EndAt
<1> HIDE DEF H, end, out, r, X, L
<1>11. CASE end.from < 0
  <2>1. r = out /\ Abut(r, 0, L)
    BY <1>7, <1>8, <1>10, <1>11 DEF ScanInv, out
  <2>2. r \in Seq(Range(r)) /\ Chaptered(r, txt)
    BY <1>9, <2>1, AbutChaptered DEF X, L
  <2>3. ASSUME r = <<>> PROVE Filled(txt) = <<>>
    <3>1. L = 0
      BY <2>1, <2>3 DEF Abut
    <3>2. txt = <<>>
      BY <3>1, EmptySeq DEF L
    <3> QED
      BY <3>2, OnlyEmpty DEF Filled
  <2>4. r \in Seq(X)
    BY <1>9, <2>1
  <2> QED
    BY <2>2, <2>3, <2>4 DEF r, X
<1>12. CASE ~(end.from < 0) /\ out = <<>>
  <2>1. r = <<>> /\ r \in Seq(Range(r)) /\ r \in Seq(X) /\ DOMAIN r = {}
    BY <1>8, <1>12, EmptySeq
  <2>2. Chaptered(r, txt)
    BY <2>1 DEF Chaptered
  <2>3. N = 0 \/ MostlyListed(txt)
    BY <1>7, <1>10, <1>12, LinesJoin DEF ScanInv, L, out
  <2>4. N = 0 => L = 0
    BY <1>10 DEF EndAt
  <2>5. L = 0 => txt = <<>>
    BY EmptySeq DEF L
  <2> QED
    BY <2>1, <2>2, <2>3, <2>4, <2>5, OnlyEmpty DEF Filled, r, X
<1>13. CASE ~(end.from < 0) /\ out # <<>>
  <2> DEFINE k == Len(out)
             new == Chapter(txt, last.lo, L, last.volume, last.ordinal)
  <2>1. k \in Nat /\ k # 0 /\ k \in 1..k /\ last \in X
    BY <1>9, <1>13, EmptySeq, LenProperties
  <2>2. new \in X /\ new.lo = last.lo /\ new.hi = L
    <3>1. last.lo \in Int /\ last.volume \in V /\ last.ordinal \in O /\ L \in Int
      BY <1>1, <2>1, CutIs DEF X, L
    <3> QED
      BY <3>1 DEF X, Cuts, Chapter
  <2> HIDE DEF new, last
  <2>3. r = [out EXCEPT ![k] = new]
    BY <1>8, <1>13 DEF new
  <2>4. r \in Seq(X) /\ Len(r) = k /\ \A i \in 1..k : r[i] = IF i = k THEN new ELSE out[i]
    BY <1>9, <2>1, <2>2, <2>3, ExceptSeq
  <2> DEFINE m == end.from
  <2>5. Abut(out, 0, m) /\ m < L /\ m \in Int
    BY <1>7, <1>9, <1>10, <1>13 DEF ScanInv, out
  <2>6. /\ \A i \in 1..k : /\ out[i].lo = (IF i = 1 THEN 0 ELSE out[i - 1].hi)
                           /\ out[i].lo < out[i].hi /\ out[i].hi <= m
        /\ m = last.hi
    BY <1>13, <2>5 DEF Abut, last
  <2>7. \A i \in 1..k : out[i].lo \in Int /\ out[i].hi \in Int
    <3>1. \A i \in 1..k : out[i] \in X
      BY <1>9, LenProperties
    <3> QED
      BY <3>1, CutIs DEF X
  <2>8. ASSUME NEW i \in 1..k
        PROVE  /\ r[i].lo = (IF i = 1 THEN 0 ELSE r[i - 1].hi)
               /\ r[i].lo < r[i].hi /\ r[i].hi <= L
    <3>1. r[i].lo = out[i].lo
      BY <2>2, <2>4 DEF last
    <3>2. i # 1 => i - 1 \in 1..k /\ i - 1 # k
      BY <2>1
    <3>3. i # 1 => r[i - 1] = out[i - 1]
      BY <2>4, <3>2
    <3>4. CASE i = k
      <4>1. r[i].hi = L /\ out[i].lo < out[i].hi /\ out[i].hi <= m
        BY <2>2, <2>4, <2>6, <3>4
      <4>2. r[i].lo < L
        BY <1>1, <2>5, <2>7, <3>1, <4>1 DEF L
      <4> QED
        BY <1>1, <2>6, <3>1, <3>3, <4>1, <4>2 DEF L
    <3>5. CASE i # k
      <4>1. r[i] = out[i] /\ out[i].hi <= m
        BY <2>4, <2>6, <3>5
      <4>2. r[i].hi <= L
        BY <1>1, <2>5, <2>7, <4>1 DEF L
      <4> QED
        BY <2>6, <3>1, <3>3, <4>1, <4>2
    <3> QED
      BY <3>4, <3>5
  <2>9. r # <<>> /\ r[Len(r)].hi = L
    <3>1. r # <<>>
      BY <2>1, <2>4, EmptySeq
    <3> QED
      BY <2>1, <2>2, <2>4, <3>1
  <2>10. Abut(r, 0, L)
    BY <2>4, <2>8, <2>9 DEF Abut
  <2>11. r \in Seq(Range(r)) /\ Chaptered(r, txt)
    BY <2>4, <2>10, AbutChaptered DEF X, L
  <2> QED
    BY <2>4, <2>9, <2>11 DEF r, X
<1> QED
  BY <1>11, <1>12, <1>13

\* Pieces behind pieces.
LEMMA AbutConcat ==
  ASSUME NEW X, NEW a \in Seq(X), NEW b \in Seq(X), NEW lo \in Int, NEW mid \in Int, NEW hi \in Int,
         \A x \in X : x.lo \in Int /\ x.hi \in Int,
         Abut(a, lo, mid), Abut(b, mid, hi)
  PROVE  Abut(a \o b, lo, hi)
<1> DEFINE H == {s \in Seq(X) : \A e \in Int : Abut(s, mid, e) => Abut(a \o s, lo, e)}
<1>1. <<>> \in H
  <2>1. <<>> \in Seq(X) /\ a \o <<>> = a
    BY ConcatEmptySeq, EmptySeq
  <2>2. \A e : Abut(<<>>, mid, e) => e = mid
    BY DEF Abut
  <2> QED
    BY <2>1, <2>2
<1>2. ASSUME NEW s \in Seq(X), NEW c \in X, s \in H PROVE Append(s, c) \in H
  <2> SUFFICES ASSUME NEW e \in Int, Abut(Append(s, c), mid, e) PROVE Abut(a \o Append(s, c), lo, e)
    BY AppendProperties
  <2> DEFINE t == Append(s, c)
             n == Len(s)
  <2>1. /\ t \in Seq(X) /\ Len(t) = n + 1 /\ n \in Nat /\ t[n + 1] = c
        /\ \A i \in 1..n : t[i] = s[i] /\ s[i] \in X
    BY AppendProperties, LenProperties
  <2>2. Abut(t, mid, e) /\ t # <<>> /\ (s = <<>> <=> n = 0)
    <3>1. Len(t) # 0
      BY <2>1
    <3> QED
      BY <3>1, EmptySeq
  <2> HIDE DEF t, n
  <2>3. /\ \A i \in 1..(n + 1) : /\ t[i].lo = (IF i = 1 THEN mid ELSE t[i - 1].hi)
                                 /\ t[i].lo < t[i].hi /\ t[i].hi <= e
        /\ e = t[n + 1].hi
    BY <2>1, <2>2 DEF Abut
  <2>4. n + 1 \in 1..(n + 1) /\ (n # 0 => n \in 1..n /\ n + 1 # 1 /\ (n + 1) - 1 = n)
    BY <2>1
  <2>5. c.hi = e /\ c.lo < c.hi /\ c.lo \in Int /\ c.hi \in Int
    BY <2>1, <2>3, <2>4
  <2>6. c.lo = IF n = 0 THEN mid ELSE s[n].hi
    <3>1. CASE n = 0
      BY <2>1, <2>3, <2>4, <3>1
    <3>2. CASE n # 0
      <4>1. t[n + 1].lo = t[(n + 1) - 1].hi
        BY <2>3, <2>4, <3>2
      <4> QED
        BY <2>1, <2>4, <3>2, <4>1
    <3> QED
      BY <3>1, <3>2
  <2>7. ASSUME NEW i \in 1..n
        PROVE  /\ s[i].lo = (IF i = 1 THEN mid ELSE s[i - 1].hi)
               /\ s[i].lo < s[i].hi /\ s[i].hi <= c.lo
    <3>1. i \in 1..(n + 1) /\ (i # 1 => i - 1 \in 1..n)
      BY <2>1
    <3>2. s[i].lo = (IF i = 1 THEN mid ELSE s[i - 1].hi) /\ s[i].lo < s[i].hi
      BY <2>1, <2>3, <3>1
    <3> DEFINE K == {k \in 0..n : k # 0 => \A j \in 1..k : s[j].hi <= s[k].hi}
    <3>3. 0 \in K
      BY <2>1
    <3>4. ASSUME NEW k \in 0..n, k \in K, k # n PROVE k + 1 \in K
      <4>1. /\ k + 1 \in 1..n /\ k + 1 \in 1..(n + 1) /\ k + 1 \in 0..n /\ (k + 1) - 1 = k
            /\ (k # 0 => k \in 1..n /\ k + 1 # 1)
        BY <2>1, <3>4
      <4>2. k # 0 => s[k].hi < s[k + 1].hi
        <5>1. k # 0 => t[k + 1].lo = t[(k + 1) - 1].hi /\ t[k + 1].lo < t[k + 1].hi
          BY <2>3, <4>1
        <5> QED
          BY <2>1, <4>1, <5>1
      <4>3. \A j \in 1..n : s[j].hi \in Int
        BY <2>1
      <4>4. ASSUME NEW j \in 1..(k + 1) PROVE s[j].hi <= s[k + 1].hi
        <5>1. CASE j = k + 1
          BY <4>1, <4>3, <5>1
        <5>2. CASE j # k + 1
          <6>1. k # 0 /\ j \in 1..k /\ j \in 1..n
            <7>1. n \in Nat /\ k \in Nat /\ k + 1 <= n
              BY <2>1, <4>1
            <7>2. j \in Nat /\ 1 <= j /\ j <= k + 1 /\ j # k + 1
              BY <5>2
            <7> QED
              BY <7>1, <7>2
          <6>2. s[j].hi <= s[k].hi
            BY <3>4, <6>1
          <6> QED
            BY <4>1, <4>2, <4>3, <6>1, <6>2
        <5> QED
          BY <5>1, <5>2
      <4> QED
        BY <4>1, <4>4
    <3>5. \A k \in 0..n : k \in K
      <4> HIDE DEF K
      <4> QED
        BY <2>1, <3>3, <3>4, UpTo
    <3>6. n \in 0..n /\ n # 0
      BY <2>1
    <3>7. s[i].hi <= s[n].hi
      BY <3>5, <3>6
    <3> QED
      BY <2>6, <3>2, <3>6, <3>7
  <2>8. Abut(s, mid, c.lo)
    BY <2>2, <2>6, <2>7 DEF Abut, n
  <2>9. Abut(a \o s, lo, c.lo)
    BY <1>2, <2>5, <2>8
  <2>10. PICK r \in Seq(X) : r = a \o s
    BY ConcatProperties
  <2>11. Abut(Append(r, c), lo, c.hi)
    <3>1. PICK m \in Int : m = c.lo
      BY <2>5
    <3>2. Abut(r, lo, m) /\ m < c.hi
      BY <2>5, <2>9, <2>10, <3>1
    <3> QED
      BY <2>5, <3>1, <3>2, AbutAppend
  <2>12. a \o Append(s, c) = Append(r, c)
    BY <2>10, ConcatAppend
  <2> QED
    BY <2>5, <2>11, <2>12
<1>3. \A s \in Seq(X) : s \in H
  <2> HIDE DEF H
  <2> QED
    BY <1>1, <1>2, SeqInduction
<1> QED
  BY <1>3

\* What the first i sequences are, one after the other.
LEMMA FlattenFront ==
  ASSUME NEW X, NEW seqs \in Seq(Seq(X))
  PROVE  /\ FlattenSeq(SubSeq(seqs, 1, 0)) = <<>>
         /\ FlattenSeq(SubSeq(seqs, 1, Len(seqs))) = FlattenSeq(seqs)
         /\ \A i \in 0..Len(seqs) : FlattenSeq(SubSeq(seqs, 1, i)) \in Seq(X)
         /\ \A i \in 1..Len(seqs) : seqs[i] \in Seq(X) /\
              FlattenSeq(SubSeq(seqs, 1, i)) = FlattenSeq(SubSeq(seqs, 1, i - 1)) \o seqs[i]
<1> DEFINE N == Len(seqs)
           First(i) == SubSeq(seqs, 1, i)
<1>1. N \in Nat /\ \A i \in 1..N : seqs[i] \in Seq(X)
  BY LenProperties
<1>2. First(0) = <<>> /\ First(N) = seqs
  BY SubSeqEmpty, SubSeqFull
<1>3. ASSUME NEW i \in 0..N PROVE First(i) \in Seq(Seq(X))
  <2>1. \A j \in 1..i : seqs[j] \in Seq(X)
    BY <1>1
  <2> QED
    BY <2>1, SubSeqProperties
<1>4. ASSUME NEW i \in 1..N PROVE First(i) = Append(First(i - 1), seqs[i])
  <2>1. 1 \in 1..N /\ i \in 1..N /\ i - 1 \in 0..N
    BY <1>1
  <2>2. First(i) = First(i - 1) \o <<seqs[i]>>
    BY <2>1, SubSeqRecursiveSecond
  <2>3. First(i - 1) \in Seq(Seq(X)) /\ seqs[i] \in Seq(X)
    BY <1>1, <1>3, <2>1
  <2> QED
    BY <2>2, <2>3, AppendIsConcat
<1> HIDE DEF First
<1>5. \A i \in 0..N : FlattenSeq(First(i)) \in Seq(X)
  BY <1>3, FlattenStep
<1>6. ASSUME NEW i \in 1..N PROVE FlattenSeq(First(i)) = FlattenSeq(First(i - 1)) \o seqs[i]
  <2>1. i - 1 \in 0..N
    BY <1>1
  <2>2. First(i - 1) \in Seq(Seq(X)) /\ seqs[i] \in Seq(X)
    BY <1>1, <1>3, <2>1
  <2> QED
    BY <1>4, <2>2, FlattenStep
<1> QED
  BY <1>1, <1>2, <1>5, <1>6, FlattenStep DEF First

\* The middle of a text of three pieces.
LEMMA CutMiddle ==
  ASSUME NEW X, NEW a \in Seq(X), NEW b \in Seq(X), NEW r \in Seq(X)
  PROVE  LET t == (a \o b) \o r
         IN Len(a) + Len(b) <= Len(t) /\ Cut(t, Len(a), Len(a) + Len(b)) = b
<1> DEFINE t == (a \o b) \o r
           m == Len(a)
           n == Len(b)
<1>1. m \in Nat /\ n \in Nat /\ Len(r) \in Nat
  BY LenProperties
<1>2. /\ a \o b \in Seq(X) /\ Len(a \o b) = m + n
      /\ \A i \in 1..(m + n) : (a \o b)[i] = IF i <= m THEN a[i] ELSE b[i - m]
  BY ConcatProperties
<1>3. /\ t \in Seq(X) /\ Len(t) = (m + n) + Len(r)
      /\ \A i \in 1..((m + n) + Len(r)) : t[i] = IF i <= m + n THEN (a \o b)[i] ELSE r[i - (m + n)]
  <2>1. PICK s \in Seq(X) : s = a \o b
    BY <1>2
  <2> QED
    BY <1>2, <2>1, ConcatProperties
<1> HIDE DEF t, m, n
<1>4. m \in 0..Len(t) /\ m + n \in m..Len(t) /\ (m + n) - m = n /\ m + n <= Len(t)
  BY <1>1, <1>3
<1>5. /\ Cut(t, m, m + n) \in Seq(X) /\ Len(Cut(t, m, m + n)) = n
      /\ \A i \in 1..n : Cut(t, m, m + n)[i] = t[m + i]
  <2>1. PICK k \in m..Len(t) : k = m + n
    BY <1>4
  <2>2. /\ Cut(t, m, k) \in Seq(X) /\ Len(Cut(t, m, k)) = k - m
        /\ \A i \in 1..(k - m) : Cut(t, m, k)[i] = t[m + i]
    BY <1>3, <1>4, Pieces
  <2> QED
    BY <1>4, <2>1, <2>2
<1>6. ASSUME NEW i \in 1..n PROVE t[m + i] = b[i]
  <2>1. m + i \in 1..(m + n) /\ m + i \in 1..((m + n) + Len(r)) /\ m + i <= m + n /\ ~(m + i <= m)
        /\ (m + i) - m = i
    BY <1>1
  <2> QED
    BY <1>2, <1>3, <2>1
<1>7. Cut(t, m, m + n) = b
  BY <1>5, <1>6, SeqEqual DEF n
<1> QED
  BY <1>4, <1>7 DEF t, m, n

\* A piece of a text of three pieces.
LEMMA LinesMiddle ==
  ASSUME NEW a \in Seq(Kinds), NEW b \in Seq(Kinds), NEW r \in Seq(Kinds)
  PROVE  LET t == (a \o b) \o r
         IN Len(a) + Len(b) <= Len(t) /\ Lines(t, Len(a), Len(a) + Len(b)) = b
<1>1. \A t, i, j : Lines(t, i, j) = Cut(t, i, j)
  BY DEF Lines, Cut
<1> QED
  BY <1>1, CutMiddle

\* Where the entries of a book lie in its text.
LEMMA OffsetIs ==
  ASSUME NEW entries \in Seq(Seq(Kinds))
  PROVE  /\ Joined(entries) \in Seq(Kinds)
         /\ Offset(entries, 0) = 0 /\ Offset(entries, Len(entries)) = Len(Joined(entries))
         /\ \A i \in 1..Len(entries) :
              \E tail \in Seq(Kinds) :
                /\ Offset(entries, i - 1) \in Nat
                /\ Offset(entries, i) = Offset(entries, i - 1) + Len(entries[i]) + Len(tail)
                /\ Offset(entries, i) <= Len(Joined(entries))
                /\ Lines(Joined(entries), Offset(entries, i - 1), Offset(entries, i)) = entries[i] \o tail
<1> DEFINE N == Len(entries)
           P == Padded(entries)
           Flat(i) == FlattenSeq(SubSeq(P, 1, i))
           Gap(i) == IF i < N THEN <<"blank">> ELSE <<>>
<1>1. N \in Nat /\ DOMAIN entries = 1..N /\ \A i \in 1..N : entries[i] \in Seq(Kinds)
  BY LenProperties
<1>2. \A i : Gap(i) \in Seq(Kinds)
  <2>1. <<>> \in Seq(Kinds) /\ <<"blank">> \in Seq(Kinds)
    BY EmptySeq DEF Kinds
  <2> QED
    BY <2>1
<1>3. P \in Seq(Seq(Kinds)) /\ Len(P) = N /\ \A i \in 1..N : P[i] = entries[i] \o Gap(i)
  <2> HIDE DEF Gap
  <2> DEFINE Row(i) == entries[i] \o Gap(i)
  <2>1. P = [i \in 1..N |-> Row(i)]
    BY <1>1 DEF Padded, Gap
  <2>2. \A i \in 1..N : Row(i) \in Seq(Kinds)
    BY <1>1, <1>2, ConcatProperties
  <2> HIDE DEF P, N, Row
  <2>3. PICK Y : Y = Seq(Kinds)
    OBVIOUS
  <2>4. P \in Seq(Y) /\ Len(P) = N
    BY <1>1, <2>1, <2>2, <2>3
  <2>5. \A i \in 1..N : P[i] = Row(i)
    BY <2>1
  <2> QED
    BY <2>3, <2>4, <2>5 DEF Row
<1> HIDE DEF P
<1>4. /\ Flat(0) = <<>> /\ Flat(N) = FlattenSeq(P)
      /\ \A i \in 0..N : Flat(i) \in Seq(Kinds)
      /\ \A i \in 1..N : P[i] \in Seq(Kinds) /\ Flat(i) = Flat(i - 1) \o P[i]
  BY <1>3, FlattenFront, Zenon
<1>5. /\ Joined(entries) = Flat(N)
      /\ \A i : Offset(entries, i) = Len(Flat(i))
  BY <1>4 DEF Joined, Offset, P
<1> HIDE DEF Flat
<1> DEFINE H == {k \in 0..N : \E rest \in Seq(Kinds) : Flat(N) = Flat(N - k) \o rest}
<1>6. 0 \in H
  <2>1. N - 0 = N /\ 0 \in 0..N /\ N \in 0..N
    BY <1>1
  <2>2. <<>> \in Seq(Kinds) /\ Flat(N) = Flat(N) \o <<>>
    BY <1>4, <2>1, ConcatEmptySeq, EmptySeq
  <2> QED
    BY <2>1, <2>2
<1>7. ASSUME NEW k \in 0..N, k \in H, k # N PROVE k + 1 \in H
  <2>1. PICK rest \in Seq(Kinds) : Flat(N) = Flat(N - k) \o rest
    BY <1>7
  <2>2. PICK i \in 1..N : i = N - k
    <3>1. PICK n \in Nat : n = N
      BY <1>1
    <3>2. n - k \in 1..n
      BY <1>7, <3>1
    <3> QED
      BY <3>1, <3>2
  <2>3. i - 1 = N - (k + 1) /\ i - 1 \in 0..N /\ k + 1 \in 0..N
    <3>1. PICK n \in Nat : n = N
      BY <1>1
    <3>2. k \in 0..n /\ k # n /\ i \in 1..n /\ i = n - k
      BY <1>7, <2>2, <3>1
    <3>3. i - 1 = n - (k + 1) /\ i - 1 \in 0..n /\ k + 1 \in 0..n
      BY <3>2
    <3> QED
      BY <3>1, <3>3
  <2>4. Flat(i) = Flat(i - 1) \o P[i] /\ P[i] \in Seq(Kinds) /\ Flat(i - 1) \in Seq(Kinds)
    BY <1>4, <2>3
  <2>5. (Flat(i - 1) \o P[i]) \o rest = Flat(i - 1) \o (P[i] \o rest) /\ P[i] \o rest \in Seq(Kinds)
    <3>1. PICK x \in Seq(Kinds), y \in Seq(Kinds) : x = Flat(i - 1) /\ y = P[i]
      BY <2>4
    <3>2. (x \o y) \o rest = x \o (y \o rest)
      <4> HIDE DEF H, N, Gap
      <4> QED
        BY ConcatAssociative
    <3>3. y \o rest \in Seq(Kinds)
      BY ConcatProperties
    <3> QED
      BY <3>1, <3>2, <3>3
  <2>6. Flat(N) = Flat(N - (k + 1)) \o (P[i] \o rest)
    BY <2>1, <2>2, <2>3, <2>4, <2>5
  <2> QED
    BY <2>3, <2>5, <2>6
<1>8. \A k \in 0..N : k \in H
  <2> HIDE DEF H
  <2> QED
    BY <1>1, <1>6, <1>7, UpTo
<1>9. ASSUME NEW i \in 1..N
      PROVE  \E tail \in Seq(Kinds) :
                /\ Offset(entries, i - 1) \in Nat
                /\ Offset(entries, i) = Offset(entries, i - 1) + Len(entries[i]) + Len(tail)
                /\ Offset(entries, i) <= Len(Joined(entries))
                /\ Lines(Joined(entries), Offset(entries, i - 1), Offset(entries, i)) = entries[i] \o tail
  <2>1. N - i \in 0..N /\ N - (N - i) = i /\ i - 1 \in 0..N /\ i \in 0..N
    BY <1>1
  <2>2. PICK rest \in Seq(Kinds) : Flat(N) = Flat(i) \o rest
    <3>1. N - i \in H
      BY <1>8, <2>1
    <3> QED
      BY <2>1, <3>1
  <2>3. PICK front \in Seq(Kinds) : front = Flat(i - 1)
    BY <1>4, <2>1
  <2>4. PICK piece \in Seq(Kinds) : piece = P[i]
    BY <1>4
  <2>5. Flat(i) = front \o piece /\ Flat(N) = (front \o piece) \o rest
    BY <1>4, <2>2, <2>3, <2>4
  <2>6. Len(Flat(i)) = Len(front) + Len(piece) /\ Len(front) \in Nat
    BY <2>5, ConcatProperties, LenProperties
  <2>7. /\ Len(front) + Len(piece) <= Len(Flat(N))
        /\ Lines(Flat(N), Len(front), Len(front) + Len(piece)) = piece
    BY <2>5, LinesMiddle
  <2>8. piece = entries[i] \o Gap(i) /\ Gap(i) \in Seq(Kinds) /\ entries[i] \in Seq(Kinds)
    BY <1>1, <1>2, <1>3, <2>4
  <2>9. /\ Len(piece) = Len(entries[i]) + Len(Gap(i))
        /\ Len(entries[i]) \in Nat /\ Len(Gap(i)) \in Nat
    <3>1. PICK x \in Seq(Kinds), y \in Seq(Kinds) : x = entries[i] /\ y = Gap(i)
      BY <2>8
    <3>2. Len(x \o y) = Len(x) + Len(y) /\ Len(x) \in Nat /\ Len(y) \in Nat
      BY ConcatProperties, LenProperties
    <3> QED
      BY <2>8, <3>1, <3>2
  <2>10. Len(front) + Len(piece) = Len(front) + Len(entries[i]) + Len(Gap(i))
    <3>1. PICK x \in Nat, y \in Nat, z \in Nat :
             x = Len(front) /\ y = Len(entries[i]) /\ z = Len(Gap(i))
      BY <2>6, <2>9
    <3>2. x + (y + z) = x + y + z
      OBVIOUS
    <3> QED
      BY <2>9, <3>1, <3>2
  <2>11. /\ Offset(entries, i - 1) = Len(front) /\ Joined(entries) = Flat(N)
         /\ Offset(entries, i) = Len(front) + Len(piece)
    BY <1>5, <2>3, <2>6
  <2> HIDE DEF N, Gap
  <2>12. /\ Offset(entries, i - 1) \in Nat
         /\ Offset(entries, i) = Offset(entries, i - 1) + Len(entries[i]) + Len(Gap(i))
         /\ Offset(entries, i) <= Len(Joined(entries))
    BY <2>6, <2>7, <2>10, <2>11
  <2>13. Lines(Joined(entries), Offset(entries, i - 1), Offset(entries, i)) = entries[i] \o Gap(i)
    BY <2>7, <2>8, <2>11
  <2> QED
    BY <2>8, <2>12, <2>13
<1>10. Len(Flat(0)) = 0 /\ Flat(N) \in Seq(Kinds)
  <2>1. N \in 0..N
    BY <1>1
  <2> QED
    BY <1>4, <2>1, EmptySeq
<1> QED
  BY <1>5, <1>9, <1>10

\* Candidates none of which is too small to be a chapter, and their chapters.
FoundIn(txt, V, O) == {[c |-> x, tiny |-> FALSE] : x \in Cuts(txt, V, O)}
CandsOf(fs) == [j \in DOMAIN fs |-> fs[j].c]

\* Their chapters are chapters of the text, in the same order.
LEMMA CandsAre ==
  ASSUME NEW txt, NEW V, NEW O, NEW fs \in Seq(FoundIn(txt, V, O))
  PROVE  /\ CandsOf(fs) \in Seq(Cuts(txt, V, O)) /\ Len(CandsOf(fs)) = Len(fs)
         /\ \A i \in 1..Len(fs) : CandsOf(fs)[i] = fs[i].c
<1> DEFINE X == Cuts(txt, V, O)
<1>1. DOMAIN fs = 1..Len(fs) /\ Len(fs) \in Nat /\ \A i \in 1..Len(fs) : fs[i] \in FoundIn(txt, V, O)
  BY LenProperties
<1>2. \A f \in FoundIn(txt, V, O) : f.c \in X /\ f.tiny = FALSE
  BY DEF FoundIn
<1> HIDE DEF X
<1>3. \A i \in 1..Len(fs) : fs[i].c \in X /\ fs[i].tiny = FALSE
  BY <1>1, <1>2
<1>4. CandsOf(fs) = [i \in 1..Len(fs) |-> fs[i].c]
  BY <1>1 DEF CandsOf
<1>5. CandsOf(fs) \in Seq(X) /\ Len(CandsOf(fs)) = Len(fs)
  BY <1>1, <1>3, <1>4
<1> QED
  BY <1>3, <1>4, <1>5 DEF X

\* The candidates of an entry with some text tile its part of the book.
LEMMA EntryTiles ==
  ASSUME NEW entries \in Seq(Seq(Kinds)), NEW i \in 1..Len(entries), HasText(entries[i]),
         NEW V, NEW O, NEW meta, meta.volume \in V, meta.ordinal \in O, NoVolume \in V, NoVolume \in O
  PROVE  LET fs == EntryCandidates(entries, i, meta)
         IN /\ fs \in Seq(FoundIn(Joined(entries), V, O))
            /\ Abut(CandsOf(fs), Offset(entries, i - 1), Offset(entries, i))
<1> DEFINE whole == Joined(entries)
           from == Offset(entries, i - 1)
           to == Offset(entries, i)
           entry == entries[i]
           n == Len(entry)
           cands == SplitByTitles(entry)
           m == Len(cands)
           fs == EntryCandidates(entries, i, meta)
           X == Cuts(whole, V, O)
           At(j) == Chapter(whole, from + cands[j].lo,
                             IF j = m THEN to ELSE from + cands[j].hi, meta.volume, meta.ordinal)
           tiny(j) == /\ Chars(At(j).hash) < MinEntry
                      /\ LinesOf(entry, "chapter") = <<>> /\ ~meta.titled
<1>1. PICK tail \in Seq(Kinds) :
        /\ from \in Nat /\ to = from + n + Len(tail) /\ to <= Len(whole)
        /\ Lines(whole, from, to) = entry \o tail
  BY OffsetIs
<1>2. entry \in Seq(Kinds) /\ n \in Nat /\ Len(tail) \in Nat
  BY LenProperties
<1>3. Filled(entry) # <<>> /\ Chars(entry) > MinEntry
  BY DEF HasText
<1>4. /\ cands \in Seq(Spans) /\ cands # <<>> /\ Abut(cands, 0, n)
      /\ LinesOf(entry, "chapter") = <<>> => m = 1
  <2>1. PICK t \in Seq(Kinds) : t = entry
    BY <1>2
  <2>2. LET cs == SplitByTitles(t)
            at == LinesOf(t, "chapter")
        IN /\ cs \in Seq(Spans)
           /\ cs = <<>> => at = <<>> /\ Filled(t) = <<>>
           /\ cs # <<>> => Abut(cs, 0, Len(t))
           /\ at = <<>> => cs = <<>> \/ Len(cs) = 1
    BY SplitTiles
  <2> QED
    BY <1>3, <2>1, <2>2
<1>5. n # 0
  <2>1. entry # <<>>
    BY <1>3, OnlyEmpty DEF Filled
  <2> QED
    BY <1>2, <2>1, EmptySeq
<1>6. fs = IF IsTocEntry(entry)
           THEN <<[c |-> Chapter(whole, from, to, NoVolume, NoVolume), tiny |-> FALSE]>>
           ELSE [j \in DOMAIN cands |-> [c |-> At(j), tiny |-> tiny(j)]]
  BY DEF EntryCandidates
<1>7. from \in Int /\ to \in Int /\ from < to
  BY <1>1, <1>2, <1>5
<1> HIDE DEF whole, from, to, entry, n, cands, m, fs, X
<1>8. CASE IsTocEntry(entry)
  <2> DEFINE f == [c |-> Chapter(whole, from, to, NoVolume, NoVolume), tiny |-> FALSE]
  <2>1. fs = <<f>>
    BY <1>6, <1>8
  <2>2. f \in FoundIn(whole, V, O)
    <3>1. Chapter(whole, from, to, NoVolume, NoVolume) \in Cuts(whole, V, O)
      BY <1>7 DEF Cuts
    <3> QED
      BY <3>1 DEF FoundIn
  <2>3. f.c.lo = from /\ f.c.hi = to
    BY DEF Chapter
  <2> HIDE DEF f
  <2>4. fs \in Seq(FoundIn(whole, V, O)) /\ Len(fs) = 1 /\ fs[1] = f
    BY <2>1, <2>2
  <2>5. CandsOf(fs) \in Seq(X) /\ Len(CandsOf(fs)) = 1 /\ CandsOf(fs)[1] = f.c
    <3>1. /\ CandsOf(fs) \in Seq(X) /\ Len(CandsOf(fs)) = Len(fs)
          /\ \A j \in 1..Len(fs) : CandsOf(fs)[j] = fs[j].c
      <4>0. PICK w : w = whole
        OBVIOUS
      <4>1. PICK g \in Seq(FoundIn(w, V, O)) : g = fs
        BY <2>4, <4>0
      <4>2. /\ CandsOf(g) \in Seq(Cuts(w, V, O)) /\ Len(CandsOf(g)) = Len(g)
            /\ \A j \in 1..Len(g) : CandsOf(g)[j] = g[j].c
        BY CandsAre
      <4> QED
        BY <4>0, <4>1, <4>2 DEF X
    <3> QED
      BY <2>4, <3>1
  <2>6. CandsOf(fs) # <<>>
    <3>1. Len(CandsOf(fs)) # 0
      BY <2>5
    <3> QED
      BY <3>1, EmptySeq
  <2>7. Abut(CandsOf(fs), from, to)
    BY <1>7, <2>3, <2>5, <2>6 DEF Abut
  <2> QED
    BY <2>4, <2>7 DEF fs, whole, from, to
<1>9. CASE ~IsTocEntry(entry)
  <2>1. /\ m \in Nat /\ m # 0 /\ DOMAIN cands = 1..m
        /\ \A j \in 1..m : cands[j].lo \in Int /\ cands[j].hi \in Int
    <3>1. \A x \in Spans : x.lo \in Int /\ x.hi \in Int
      BY DEF Spans
    <3>2. m \in Nat /\ m # 0 /\ DOMAIN cands = 1..m /\ \A j \in 1..m : cands[j] \in Spans
      BY <1>4, LenProperties, EmptySeq DEF m
    <3> QED
      BY <3>1, <3>2
  <2>2. /\ \A j \in 1..m : /\ cands[j].lo = (IF j = 1 THEN 0 ELSE cands[j - 1].hi)
                           /\ cands[j].lo < cands[j].hi /\ cands[j].hi <= n
        /\ cands[m].hi = n
    BY <1>4 DEF Abut, m
  <2> DEFINE lo(j) == from + cands[j].lo
             hi(j) == IF j = m THEN to ELSE from + cands[j].hi
  <2>3. ASSUME NEW j \in 1..m
        PROVE  /\ lo(j) \in Int /\ hi(j) \in Int /\ lo(j) < hi(j) /\ hi(j) <= to
               /\ At(j).lo = lo(j) /\ At(j).hi = hi(j) /\ At(j) \in X
               /\ lo(j) = IF j = 1 THEN from ELSE hi(j - 1)
    <3>1. lo(j) \in Int /\ hi(j) \in Int /\ lo(j) < hi(j) /\ hi(j) <= to
      <4>1. PICK a \in Int, b \in Int, k \in Nat, r \in Nat :
               a = cands[j].lo /\ b = cands[j].hi /\ k = n /\ r = Len(tail)
        BY <1>2, <2>1
      <4>2. a < b /\ b <= k /\ (j = m => b = k) /\ from \in Nat /\ to = from + k + r
        BY <1>1, <2>2, <4>1
      <4>3. /\ from + a \in Int /\ from + b \in Int /\ to \in Int
            /\ from + a < from + b /\ from + b <= to
        BY <4>2
      <4>4. lo(j) = from + a /\ hi(j) = IF j = m THEN to ELSE from + b
        BY <4>1
      <4> HIDE DEF lo, hi
      <4> QED
        BY <4>2, <4>3, <4>4
    <3>2. At(j) = Chapter(whole, lo(j), hi(j), meta.volume, meta.ordinal)
      OBVIOUS
    <3>3. lo(j) = IF j = 1 THEN from ELSE hi(j - 1)
      <4>1. j # 1 => j - 1 # m /\ j - 1 \in 1..m
        BY <2>1
      <4> QED
        BY <1>7, <2>2, <4>1
    <3> HIDE DEF lo, hi, At
    <3> QED
      BY <3>1, <3>2, <3>3 DEF Chapter, Cuts, X
  <2>4. ASSUME NEW j \in 1..m PROVE tiny(j) = FALSE
    <3> SUFFICES ASSUME tiny(j) PROVE FALSE
      OBVIOUS
    <3>1. m = 1 /\ j = 1
      BY <1>4, <2>1
    <3>2. cands[1].lo = 0
      BY <2>2, <3>1
    <3>3. At(j).hash = Lines(whole, from, to)
      BY <1>7, <3>1, <3>2 DEF Chapter
    <3>4. Chars(entry \o tail) < MinEntry
      BY <1>1, <3>3 DEF whole, from, to, entry
    <3>5. Chars(entry \o tail) = Chars(entry) + Chars(tail) /\ Chars(entry) \in Nat /\ Chars(tail) \in Nat
      BY <1>2, CharsConcat
    <3> QED
      BY <1>3, <3>4, <3>5, TextAssumption
  <2> HIDE DEF At, lo, hi, tiny
  <2>5. fs = [j \in 1..m |-> [c |-> At(j), tiny |-> FALSE]]
    BY <1>6, <1>9, <2>1, <2>4
  <2>6. fs \in Seq(FoundIn(whole, V, O)) /\ Len(fs) = m /\ \A j \in 1..m : fs[j].c = At(j)
    <3>1. \A j \in 1..m : [c |-> At(j), tiny |-> FALSE] \in FoundIn(whole, V, O)
      BY <2>3 DEF FoundIn, X
    <3>2. PICK F : F = FoundIn(whole, V, O)
      OBVIOUS
    <3>3. fs \in Seq(F) /\ Len(fs) = m
      BY <2>1, <2>5, <3>1, <3>2
    <3>4. \A j \in 1..m : fs[j].c = At(j)
      BY <2>5
    <3> QED
      BY <3>2, <3>3, <3>4
  <2>7. CandsOf(fs) \in Seq(X) /\ Len(CandsOf(fs)) = m /\ \A j \in 1..m : CandsOf(fs)[j] = At(j)
    <3>1. /\ CandsOf(fs) \in Seq(X) /\ Len(CandsOf(fs)) = Len(fs)
          /\ \A j \in 1..Len(fs) : CandsOf(fs)[j] = fs[j].c
      <4>0. PICK w : w = whole
        OBVIOUS
      <4>1. PICK g \in Seq(FoundIn(w, V, O)) : g = fs
        BY <2>6, <4>0
      <4>2. /\ CandsOf(g) \in Seq(Cuts(w, V, O)) /\ Len(CandsOf(g)) = Len(g)
            /\ \A j \in 1..Len(g) : CandsOf(g)[j] = g[j].c
        BY CandsAre
      <4> QED
        BY <4>0, <4>1, <4>2 DEF X
    <3> QED
      BY <2>6, <3>1
  <2>8. CandsOf(fs) # <<>>
    BY <2>1, <2>7, EmptySeq
  <2>9. m \in 1..m /\ \A j \in 1..m : j # 1 => j - 1 \in 1..m
    BY <2>1
  <2>10. hi(m) = to
    BY DEF hi
  <2>11. Abut(CandsOf(fs), from, to)
    <3>1. PICK g \in Seq(X) : g = CandsOf(fs)
      BY <2>7
    <3>2. Len(g) = m /\ g # <<>> /\ \A j \in 1..m : g[j] = At(j)
      BY <2>7, <2>8, <3>1
    <3>3. ASSUME NEW j \in 1..m
          PROVE  g[j].lo = (IF j = 1 THEN from ELSE g[j - 1].hi) /\ g[j].lo < g[j].hi /\ g[j].hi <= to
      <4>1. g[j].lo = lo(j) /\ g[j].hi = hi(j)
        BY <2>3, <3>2
      <4>2. j # 1 => g[j - 1].hi = hi(j - 1)
        BY <2>3, <2>9, <3>2
      <4> QED
        BY <2>3, <4>1, <4>2
    <3>4. g[m].hi = to
      BY <2>3, <2>9, <2>10, <3>2
    <3> QED
      BY <3>1, <3>2, <3>3, <3>4 DEF Abut
  <2> QED
    BY <2>6, <2>11 DEF fs, whole, from, to
<1> QED
  BY <1>8, <1>9

\* Nothing is too small, so every candidate is a chapter.
LEMMA CollectedIs ==
  ASSUME NEW txt, NEW V, NEW O, NEW fs \in Seq(FoundIn(txt, V, O))
  PROVE  Collected(fs) = CandsOf(fs)
<1> DEFINE X == Cuts(txt, V, O)
           N == Len(fs)
           Step(h, n) == IF n = 0 THEN <<>> ELSE WithCandidate(h[n - 1], fs[n])
           Fun(h) == h = [n \in 0..N |-> Step(h, n)]
           u == CHOOSE h : Fun(h)
           g == [n \in 0..N |-> SubSeq(CandsOf(fs), 1, n)]
<1>1. /\ CandsOf(fs) \in Seq(X) /\ Len(CandsOf(fs)) = N
      /\ \A i \in 1..N : CandsOf(fs)[i] = fs[i].c
  BY CandsAre
<1>2. N \in Nat /\ \A i \in 1..N : ~fs[i].tiny
  <2>1. \A f \in FoundIn(txt, V, O) : ~f.tiny
    BY DEF FoundIn
  <2> QED
    BY <2>1, LenProperties
<1>3. Collected(fs) = u[N]
  BY Zenon DEF Collected
<1> HIDE DEF N
<1>4. \A x, n : n \in 1..N => WithCandidate(x, fs[n]) = Append(x, fs[n].c)
  BY <1>2 DEF WithCandidate
<1>5. \A n \in 0..N : g[n] = Step(g, n)
  <2> TAKE n \in 0..N
  <2>1. CASE n = 0
    <3>1. SubSeq(CandsOf(fs), 1, 0) = <<>>
      BY SubSeqEmpty
    <3> QED
      BY <2>1, <3>1
  <2>2. CASE n # 0
    <3>1. n \in 1..N /\ n - 1 \in 0..N /\ 1 \in 1..N
      BY <1>2, <2>2
    <3>2. PICK s \in Seq(X) : s = CandsOf(fs) /\ Len(s) = N
      BY <1>1
    <3>3. SubSeq(s, 1, n) = SubSeq(s, 1, n - 1) \o <<s[n]>>
      BY <3>1, <3>2, SubSeqRecursiveSecond
    <3>4. SubSeq(s, 1, n - 1) \in Seq(X) /\ s[n] \in X
      <4>1. \A i \in 1..N : s[i] \in X
        BY <3>2, LenProperties
      <4>2. \A i \in 1..(n - 1) : i \in 1..N
        BY <1>2, <3>1
      <4> QED
        BY <3>1, <4>1, <4>2, SubSeqProperties
    <3>5. SubSeq(s, 1, n) = Append(SubSeq(s, 1, n - 1), s[n])
      BY <3>3, <3>4, AppendIsConcat
    <3>6. g[n] = SubSeq(s, 1, n) /\ g[n - 1] = SubSeq(s, 1, n - 1)
      BY <3>1, <3>2
    <3>7. s[n] = fs[n].c
      BY <1>1, <3>1, <3>2
    <3> HIDE DEF g
    <3> QED
      BY <1>4, <2>2, <3>1, <3>5, <3>6, <3>7
  <2> QED
    BY <2>1, <2>2
<1>6. Fun(g)
  <2> DEFINE G(n) == SubSeq(CandsOf(fs), 1, n)
  <2>1. g = [n \in 0..N |-> G(n)] /\ \A n \in 0..N : G(n) = Step(g, n)
    BY <1>5
  <2> HIDE DEF g, G, Step
  <2> QED
    BY <2>1
<1>7. Fun(u)
  <2> HIDE DEF Fun
  <2> QED
    BY <1>6, Zenon
<1> HIDE DEF u
<1>8. \A n \in 0..N : u[n] = Step(u, n)
  <2> HIDE DEF Step
  <2> QED
    BY <1>7
<1> DEFINE H == {n \in 0..N : u[n] = g[n]}
<1>9. 0 \in H
  <2>1. 0 \in 0..N
    BY <1>2
  <2> HIDE DEF g
  <2> QED
    BY <1>5, <1>8, <2>1
<1>10. ASSUME NEW n \in 0..N, n \in H, n # N PROVE n + 1 \in H
  <2>1. n + 1 \in 0..N /\ n + 1 # 0 /\ (n + 1) - 1 = n
    BY <1>2, <1>10
  <2>2. u[n] = g[n]
    BY <1>10
  <2> HIDE DEF g
  <2>3. u[n + 1] = WithCandidate(u[n], fs[n + 1]) /\ g[n + 1] = WithCandidate(g[n], fs[n + 1])
    BY <1>5, <1>8, <2>1
  <2> QED
    BY <2>1, <2>2, <2>3
<1>11. \A n \in 0..N : n \in H
  <2> HIDE DEF H
  <2> QED
    BY <1>2, <1>9, <1>10, UpTo
<1>12. N \in 0..N /\ u[N] = g[N]
  BY <1>2, <1>11
<1>13. g[N] = CandsOf(fs)
  BY <1>1, <1>12, SubSeqFull
<1> QED
  BY <1>3, <1>12, <1>13

\* What the parser of EPUB files makes of a book.
LEMMA EpubIsCut ==
  ASSUME NEW spine \in Seq(Seq(Kinds)), NEW toc
  PROVE  LET f == ParseEpub(spine, toc)
         IN /\ WellCut(f) /\ f = ParsedBook(f.text, f.chapters)
            /\ \A c \in Range(f.chapters) : c.ordinal = NoVolume \/ \E e : c.ordinal = Meta(toc, e).ordinal
<1> DEFINE T == {e \in DOMAIN spine : HasText(spine[e])}
           kept == Only([e \in DOMAIN spine |-> e], T)
           entries == [i \in DOMAIN kept |-> spine[kept[i]]]
           txt == Joined(entries)
           M(i) == Meta(toc, kept[i])
           V == {NoVolume} \cup {M(i).volume : i \in DOMAIN kept}
           O == {NoVolume} \cup {M(i).ordinal : i \in DOMAIN kept}
           F == FoundIn(txt, V, O)
           seqs == [i \in DOMAIN kept |-> EntryCandidates(entries, i, M(i))]
           found == FlattenSeq(seqs)
           all == Collected(found)
           cs == Only(all, {c \in Range(all) : c.hi > c.lo})
           N == Len(entries)
<1>1. ParseEpub(spine, toc) = ParsedBook(txt, WithoutTocLines(txt, cs))
  BY DEF ParseEpub
<1>2. kept \in Seq(T)
  <2>1. DOMAIN spine = 1..Len(spine) /\ Len(spine) \in Nat
    BY LenProperties
  <2>2. PICK D : D = DOMAIN spine
    OBVIOUS
  <2>3. [e \in DOMAIN spine |-> e] \in Seq(D)
    BY <2>1, <2>2
  <2>4. kept \in Seq(D \cap T)
    BY <2>3, OnlyIn
  <2>5. D \cap T = T
    BY <2>2
  <2> QED
    BY <2>4, <2>5
<1> HIDE DEF kept
<1>3. /\ DOMAIN kept = 1..N /\ N \in Nat /\ entries \in Seq(Seq(Kinds))
      /\ \A i \in 1..N : HasText(entries[i])
  <2>1. DOMAIN kept = 1..Len(kept) /\ Len(kept) \in Nat /\ \A i \in 1..Len(kept) : kept[i] \in T
    BY <1>2, LenProperties
  <2>2. \A i \in 1..Len(kept) : spine[kept[i]] \in Seq(Kinds) /\ HasText(spine[kept[i]])
    <3>1. \A e \in T : spine[e] \in Seq(Kinds) /\ HasText(spine[e])
      BY LenProperties
    <3> QED
      BY <2>1, <3>1
  <2>3. PICK Y : Y = Seq(Kinds)
    OBVIOUS
  <2>4. entries \in Seq(Y) /\ Len(entries) = Len(kept)
    BY <2>1, <2>2, <2>3
  <2> QED
    BY <2>1, <2>2, <2>3, <2>4
<1>4. /\ seqs = [i \in 1..N |-> EntryCandidates(entries, i, M(i))]
      /\ \A o \in O : o = NoVolume \/ \E e : o = Meta(toc, e).ordinal
  BY <1>3
<1> HIDE DEF entries, N, T, M
<1>5. ASSUME NEW i \in 1..N
      PROVE  /\ seqs[i] \in Seq(F)
             /\ Abut(CandsOf(seqs[i]), Offset(entries, i - 1), Offset(entries, i))
  <2>1. M(i).volume \in V /\ M(i).ordinal \in O /\ NoVolume \in V /\ NoVolume \in O
    BY <1>3
  <2>2. seqs[i] = EntryCandidates(entries, i, M(i))
    BY <1>4
  <2> HIDE DEF V, O, seqs
  <2> QED
    BY <1>3, <2>1, <2>2, EntryTiles DEF N
<1> HIDE DEF V, O, F, seqs
<1>6. seqs \in Seq(Seq(F)) /\ Len(seqs) = N
  <2>1. PICK Y : Y = Seq(F)
    OBVIOUS
  <2>2. DOMAIN seqs = 1..N /\ seqs = [i \in 1..N |-> seqs[i]]
    BY <1>4
  <2>3. \A i \in 1..N : seqs[i] \in Y
    BY <1>5, <2>1
  <2> QED
    BY <1>3, <2>1, <2>2, <2>3
<1> DEFINE Upto(i) == FlattenSeq(SubSeq(seqs, 1, i))
<1>7. /\ Upto(0) = <<>> /\ Upto(N) = found
      /\ \A i \in 0..N : Upto(i) \in Seq(F)
      /\ \A i \in 1..N : seqs[i] \in Seq(F) /\ Upto(i) = Upto(i - 1) \o seqs[i]
  BY <1>6, FlattenFront, Zenon
<1>8. /\ txt \in Seq(Kinds) /\ Offset(entries, 0) = 0 /\ Offset(entries, N) = Len(txt)
      /\ \A i \in 0..N : Offset(entries, i) \in Int
  <2>1. /\ Joined(entries) \in Seq(Kinds)
        /\ Offset(entries, 0) = 0 /\ Offset(entries, N) = Len(Joined(entries))
    BY <1>3, OffsetIs DEF N
  <2>2. \A i \in 1..N : Offset(entries, i - 1) \in Nat
    BY <1>3, OffsetIs DEF N
  <2>3. ASSUME NEW i \in 0..N PROVE Offset(entries, i) \in Int
    <3>1. CASE i = N
      BY <2>1, <3>1, LenProperties
    <3>2. CASE i # N
      <4>1. i + 1 \in 1..N /\ (i + 1) - 1 = i
        BY <1>3, <3>2
      <4> QED
        BY <2>2, <4>1
    <3> QED
      BY <3>1, <3>2
  <2> QED
    BY <2>1, <2>3
<1> HIDE DEF Upto, found, txt
<1> DEFINE X == Cuts(txt, V, O)
           H == {i \in 0..N : Abut(CandsOf(Upto(i)), 0, Offset(entries, i))}
<1>9. \A x \in X : x.lo \in Int /\ x.hi \in Int
  BY CutIs
<1>10. \A fs \in Seq(F) : /\ CandsOf(fs) \in Seq(X) /\ Len(CandsOf(fs)) = Len(fs)
                          /\ \A j \in 1..Len(fs) : CandsOf(fs)[j] = fs[j].c
  BY CandsAre DEF F, X
<1> HIDE DEF X
<1>11. \A a, b \in Seq(F) : CandsOf(a \o b) = CandsOf(a) \o CandsOf(b)
  <2> TAKE a \in Seq(F), b \in Seq(F)
  <2>1. PICK ca \in Seq(X), cb \in Seq(X) : ca = CandsOf(a) /\ cb = CandsOf(b)
    BY <1>10
  <2>2. PICK m \in Nat, n \in Nat : m = Len(a) /\ n = Len(b)
    BY LenProperties
  <2>3. /\ Len(ca) = m /\ Len(cb) = n
        /\ \A j \in 1..m : ca[j] = a[j].c
        /\ \A j \in 1..n : cb[j] = b[j].c
    BY <1>10, <2>1, <2>2
  <2>4. PICK s \in Seq(F) : s = a \o b
    BY ConcatProperties
  <2>5. Len(s) = m + n /\ \A j \in 1..(m + n) : s[j] = IF j <= m THEN a[j] ELSE b[j - m]
    BY <2>2, <2>4, ConcatProperties
  <2>6. PICK cc \in Seq(X) : cc = ca \o cb
    BY ConcatProperties
  <2>7. Len(cc) = m + n /\ \A j \in 1..(m + n) : cc[j] = IF j <= m THEN ca[j] ELSE cb[j - m]
    <3>1. /\ Len(ca \o cb) = Len(ca) + Len(cb)
          /\ \A j \in 1..(Len(ca) + Len(cb)) :
               (ca \o cb)[j] = IF j <= Len(ca) THEN ca[j] ELSE cb[j - Len(ca)]
      BY ConcatProperties
    <3> QED
      BY <2>3, <2>6, <3>1
  <2>8. PICK cs2 \in Seq(X) : cs2 = CandsOf(s) /\ Len(cs2) = m + n /\ \A j \in 1..(m + n) : cs2[j] = s[j].c
    BY <1>10, <2>5
  <2>9. ASSUME NEW j \in 1..(m + n) PROVE cs2[j] = cc[j]
    <3>1. cs2[j] = s[j].c
      BY <2>8
    <3>2. CASE j <= m
      <4>1. j \in 1..m /\ s[j] = a[j] /\ cc[j] = ca[j]
        BY <2>5, <2>7, <3>2
      <4> QED
        BY <2>3, <3>1, <4>1
    <3>3. CASE ~(j <= m)
      <4>1. PICK k \in 1..n : k = j - m
        BY <3>3
      <4>2. s[j] = b[k] /\ cc[j] = cb[k]
        BY <2>5, <2>7, <3>3, <4>1
      <4> QED
        BY <2>3, <3>1, <4>1, <4>2
    <3> QED
      BY <3>2, <3>3
  <2>10. cs2 = cc
    BY <2>7, <2>8, <2>9, SeqEqual
  <2> QED
    BY <2>1, <2>4, <2>6, <2>8, <2>10
<1>12. 0 \in H
  <2>1. <<>> \in Seq(F) /\ Len(<<>>) = 0
    BY EmptySeq
  <2>2. CandsOf(<<>>) \in Seq(X) /\ Len(CandsOf(<<>>)) = 0
    BY <1>10, <2>1
  <2>3. CandsOf(<<>>) = <<>>
    BY <2>2, EmptySeq
  <2>4. Abut(<<>>, 0, 0)
    <3>1. 1..0 = {}
      OBVIOUS
    <3> QED
      BY <2>1, <3>1 DEF Abut
  <2> QED
    BY <1>3, <1>7, <1>8, <2>3, <2>4
<1>13. ASSUME NEW i \in 0..N, i \in H, i # N PROVE i + 1 \in H
  <2>1. i + 1 \in 1..N /\ i + 1 \in 0..N /\ (i + 1) - 1 = i
    BY <1>3, <1>13
  <2>2. Upto(i + 1) = Upto(i) \o seqs[i + 1] /\ Upto(i) \in Seq(F) /\ seqs[i + 1] \in Seq(F)
    BY <1>7, <2>1
  <2>3. PICK a \in Seq(X), b \in Seq(X) : a = CandsOf(Upto(i)) /\ b = CandsOf(seqs[i + 1])
    BY <1>10, <2>2
  <2>4. CandsOf(Upto(i + 1)) = a \o b
    BY <1>11, <2>2, <2>3
  <2>5. PICK mid \in Int, hi \in Int : mid = Offset(entries, i) /\ hi = Offset(entries, i + 1)
    BY <1>8, <2>1
  <2>6. Abut(a, 0, mid) /\ Abut(b, mid, hi)
    BY <1>5, <1>13, <2>1, <2>3, <2>5
  <2>7. Abut(a \o b, 0, hi)
    BY <1>9, <2>6, AbutConcat
  <2> QED
    BY <2>1, <2>4, <2>5, <2>7
<1>14. \A i \in 0..N : i \in H
  <2> HIDE DEF H
  <2> QED
    BY <1>3, <1>12, <1>13, UpTo
<1>15. found \in Seq(F) /\ Abut(CandsOf(found), 0, Len(txt))
  <2>1. N \in 0..N
    BY <1>3
  <2> QED
    BY <1>7, <1>8, <1>14, <2>1
<1>16. all = CandsOf(found) /\ all \in Seq(X) /\ Abut(all, 0, Len(txt))
  <2>1. Collected(found) = CandsOf(found)
    BY <1>15, CollectedIs DEF F
  <2> QED
    BY <1>10, <1>15, <2>1
<1> HIDE DEF all
<1>17. cs = all
  <2>1. DOMAIN all = 1..Len(all) /\ Len(all) \in Nat /\ \A j \in 1..Len(all) : all[j] \in X
    BY <1>16, LenProperties
  <2>2. PICK R : R = Range(all)
    OBVIOUS
  <2>3. \A c \in R : \E j \in 1..Len(all) : c = all[j]
    BY <2>1, <2>2 DEF Range
  <2>4. \A j \in 1..Len(all) : all[j].hi > all[j].lo
    <3>1. \A j \in 1..Len(all) : all[j].lo < all[j].hi /\ all[j].lo \in Int /\ all[j].hi \in Int
      BY <1>9, <1>16, <2>1 DEF Abut
    <3> QED
      BY <3>1
  <2>5. all \in Seq(R)
    <3>1. \A j \in 1..Len(all) : all[j] \in R
      BY <2>1, <2>2 DEF Range
    <3>2. all = [j \in 1..Len(all) |-> all[j]]
      BY <2>1, <1>16
    <3> QED
      BY <2>1, <3>1, <3>2
  <2>6. R \subseteq {c \in R : c.hi > c.lo}
    BY <2>3, <2>4
  <2>7. Only(all, {c \in R : c.hi > c.lo}) = all
    BY <2>5, <2>6, OnlyAll
  <2> QED
    BY <2>2, <2>7
<1>18. LET r == WithoutTocLines(txt, all)
       IN /\ r \in Seq(Range(r)) /\ r \in Seq(X) /\ Chaptered(r, txt)
          /\ r = <<>> => Filled(txt) = <<>> \/ MostlyListed(txt)
  BY <1>8, <1>16, WithoutTocCut DEF X
<1> HIDE DEF cs
<1>19. PICK r : r = WithoutTocLines(txt, all)
  OBVIOUS
<1>20. ASSUME NEW c \in Range(r) PROVE c.ordinal = NoVolume \/ \E e : c.ordinal = Meta(toc, e).ordinal
  <2>1. PICK n \in Nat : DOMAIN r = 1..n /\ \A i \in 1..n : r[i] \in X
    BY <1>18, <1>19, LenProperties
  <2>2. c \in X
    BY <2>1 DEF Range
  <2>3. c.ordinal \in O
    BY <2>2, CutIs DEF X
  <2> QED
    BY <1>4, <2>3
<1>21. /\ ParseEpub(spine, toc) = ParsedBook(txt, r)
       /\ ParsedBook(txt, r).text = txt /\ ParsedBook(txt, r).chapters = r
  BY <1>1, <1>17, <1>19 DEF ParsedBook
<1>22. WellCut(ParseEpub(spine, toc))
  BY <1>8, <1>18, <1>19, <1>21 DEF WellCut
<1> QED
  BY <1>20, <1>21, <1>22

-----------------------------------------------------------------------------
(* Imports *)

\* Every file is what a parser promises of it.
LEMMA ParsedIsCut == ASSUME NEW s \in Sources PROVE WellCut(Parse(s))
<1>1. CASE s.format = "txt"
  <2>1. s.lines \in Seq(Kinds) /\ Parse(s) = ParseTxt(s.lines)
    BY <1>1, ImportAssumption DEF Parse
  <2> QED
    BY <2>1, TxtIsCut
<1>2. CASE s.format # "txt"
  <2>1. s.spine \in Seq(Seq(Kinds)) /\ Parse(s) = ParseEpub(s.spine, s.toc)
    BY <1>2, ImportAssumption DEF Parse
  <2> QED
    BY <2>1, EpubIsCut
<1> QED
  BY <1>1, <1>2

\* The import starts with a file that is cut and nothing stored.
THEOREM ImportStarts == ImportInit => ParsedInv /\ StoredInv
<1> SUFFICES ASSUME ImportInit PROVE ParsedInv /\ StoredInv
  OBVIOUS
<1>1. ParsedInv
  <2>1. PICK s \in Sources : file = Parse(s)
    BY DEF ImportInit
  <2> QED
    BY <2>1, ParsedIsCut DEF ParsedInv
<1>2. Len(file.chapters) \in Nat
  BY <1>1, LenProperties DEF ParsedInv, WellCut
<1>3. chapters = <<>> /\ DOMAIN chapters = {} /\ 0..0 - 1 = {} /\ 0 \in 0..Len(file.chapters)
  BY <1>2 DEF ImportInit
<1>4. book = NoBook /\ complete = FALSE /\ DOMAIN job = Commands /\ \A p \in Commands : job[p] = Idle
  BY DEF ImportInit
<1>5. \A p \in Commands : /\ job[p] = [step |-> job[p].step, ids |-> job[p].ids, done |-> job[p].done]
                          /\ job[p].done \in Nat /\ job[p].step = "idle"
  BY <1>4 DEF Idle
<1>6. StoredInv
  BY <1>3, <1>4, <1>5 DEF StoredInv
<1> QED
  BY <1>1, <1>6

\* The steps of an import and group-volumes keep what is stored in order.
THEOREM ImportStep == ParsedInv /\ StoredInv /\ [ImportNext]_importVars => (ParsedInv /\ StoredInv)'
<1> SUFFICES ASSUME ParsedInv, StoredInv, [ImportNext]_importVars PROVE (ParsedInv /\ StoredInv)'
  OBVIOUS
<1> DEFINE N == Len(file.chapters)
           Kept(o) == LET c == file.chapters[o + 1]
                      IN chapters[o] = [lo |-> c.lo, hi |-> c.hi, hash |-> c.hash,
                                        volume |-> chapters[o].volume]
           Job(q) == /\ job[q] = [step |-> job[q].step, ids |-> job[q].ids, done |-> job[q].done]
                     /\ job[q].done \in Nat
                     /\ job[q].step \in {"volumes", "chapters"} => book.there
<1>1. N \in Nat
  BY LenProperties DEF ParsedInv, WellCut
<1>2. PICK n \in 0..N : /\ DOMAIN chapters = 0..n - 1
                        /\ n > 0 \/ complete => book.there
                        /\ complete => n = N
                        /\ \A q \in Commands : job[q].step = "chapters" => job[q].done <= n
  BY DEF StoredInv
<1>3. /\ book \in {NoBook, [text |-> file.text, there |-> TRUE]} /\ DOMAIN job = Commands
      /\ \A q \in Commands : Job(q)
      /\ \A o \in DOMAIN chapters : Kept(o)
  BY DEF StoredInv
<1>4. ASSUME UNCHANGED file PROVE ParsedInv'
  BY <1>4 DEF ParsedInv
<1>5. ASSUME UNCHANGED <<file, chapters, book, complete>>, DOMAIN job' = Commands,
             \A q \in Commands : Job(q)' /\ (job'[q].step = "chapters" => job'[q].done <= n)
      PROVE  StoredInv'
  <2>1. N' = N /\ \A o \in DOMAIN chapters' : Kept(o)'
    BY <1>3, <1>5
  <2> QED
    BY <1>2, <1>3, <1>5, <2>1 DEF StoredInv
<1>6. CASE Group
  <2>1. UNCHANGED <<file, book, job, complete>>
    BY <1>6 DEF Group
  <2>2. chapters' = chapters \/ chapters' = Pointed(chapters)
    BY <1>6 DEF Group
  <2>3. DOMAIN chapters' = DOMAIN chapters /\ \A o \in DOMAIN chapters : Kept(o)'
    <3>1. CASE chapters' = chapters
      BY <1>3, <2>1, <3>1
    <3>2. CASE chapters' = Pointed(chapters)
      <4>1. DOMAIN chapters' = DOMAIN chapters
        BY <3>2 DEF Pointed
      <4>2. ASSUME NEW o \in DOMAIN chapters PROVE Kept(o)'
        <5>1. PICK x : chapters'[o] = [chapters[o] EXCEPT !.volume = x]
          BY <3>2 DEF Pointed
        <5>2. PICK a, b, h, v : /\ chapters[o] = [lo |-> a, hi |-> b, hash |-> h, volume |-> v]
                                /\ a = file.chapters[o + 1].lo /\ b = file.chapters[o + 1].hi
                                /\ h = file.chapters[o + 1].hash
          BY <1>3
        <5>3. chapters'[o] = [lo |-> a, hi |-> b, hash |-> h, volume |-> x]
          BY <5>1, <5>2
        <5> QED
          BY <2>1, <5>2, <5>3
      <4> QED
        BY <4>1, <4>2
    <3> QED
      BY <2>2, <3>1, <3>2
  <2>4. N' = N /\ \A q \in Commands : Job(q)'
    BY <1>3, <2>1
  <2> QED
    BY <1>2, <1>3, <1>4, <2>1, <2>3, <2>4 DEF StoredInv
<1>7. ASSUME NEW p \in Commands, Start(p) PROVE (ParsedInv /\ StoredInv)'
  <2>1. UNCHANGED <<file, chapters, book, complete>> /\ job' = [job EXCEPT ![p] = [Idle EXCEPT !.step = "book"]]
    BY <1>7 DEF Start, tables
  <2>2. job' = [job EXCEPT ![p] = [step |-> "book", ids |-> <<>>, done |-> 0]]
    <3>1. PICK a, b, e : Idle = [step |-> a, ids |-> e, done |-> 0] /\ b = "book" /\ e = <<>>
      BY DEF Idle
    <3> DEFINE T == {a, b}
               I == {e}
               r == [Idle EXCEPT !.step = b]
    <3>2. Idle \in [step : T, ids : I, done : Nat] /\ Idle.ids = e /\ Idle.done = 0
      BY <3>1
    <3>3. r \in [step : T, ids : I, done : Nat] /\ r.step = b /\ r.ids = e /\ r.done = 0
      BY <3>2
    <3> HIDE DEF r
    <3>4. r = [step |-> b, ids |-> e, done |-> 0]
      BY <3>3
    <3> QED
      BY <2>1, <3>1, <3>4 DEF r
  <2>3. ASSUME NEW q \in Commands PROVE Job(q)' /\ (job'[q].step = "chapters" => job'[q].done <= n)
    <3>1. CASE q = p
      <4>1. job'[q] = [step |-> "book", ids |-> <<>>, done |-> 0]
        BY <1>3, <2>2, <3>1
      <4>2. /\ job'[q].step = "book" /\ job'[q].done = 0 /\ job'[q].ids = <<>>
            /\ "book" \notin {"volumes", "chapters"} /\ 0 \in Nat
        BY <4>1
      <4> QED
        BY <4>1, <4>2
    <3>2. CASE q # p
      <4>1. job'[q] = job[q]
        BY <1>3, <2>2, <3>2
      <4> QED
        BY <1>2, <1>3, <2>1, <4>1
    <3> QED
      BY <3>1, <3>2
  <2> QED
    BY <1>3, <1>4, <1>5, <2>1, <2>2, <2>3
<1>8. ASSUME NEW p \in Commands, Kill(p) PROVE (ParsedInv /\ StoredInv)'
  <2>1. UNCHANGED <<file, chapters, book, complete>> /\ job' = [job EXCEPT ![p] = Idle]
    BY <1>8 DEF Kill, tables
  <2>2. job' = [job EXCEPT ![p] = [step |-> "idle", ids |-> <<>>, done |-> 0]]
    BY <2>1 DEF Idle
  <2>3. \A q \in Commands : Job(q)' /\ (job'[q].step = "chapters" => job'[q].done <= n)
    BY <1>2, <1>3, <2>1, <2>2
  <2> QED
    BY <1>3, <1>4, <1>5, <2>1, <2>2, <2>3
<1>9. ASSUME NEW p \in Commands
      PROVE  \E i, d : /\ job[p].step = job[p].step /\ i = job[p].ids /\ d = job[p].done /\ d \in Nat
                       /\ \A s : Goto(p, s) => job' = [job EXCEPT ![p] = [step |-> s, ids |-> i, done |-> 0]]
  <2>1. PICK t, i, d : job[p] = [step |-> t, ids |-> i, done |-> d] /\ i = job[p].ids /\ d = job[p].done /\ d \in Nat
    BY <1>3
  <2>2. ASSUME NEW s, Goto(p, s) PROVE job' = [job EXCEPT ![p] = [step |-> s, ids |-> i, done |-> 0]]
    <3>1. job' = [job EXCEPT ![p] = [job[p] EXCEPT !.step = s, !.done = 0]]
      BY <1>3, <2>2 DEF Goto
    <3>2. [job[p] EXCEPT !.step = s, !.done = 0] = [step |-> s, ids |-> i, done |-> 0]
      <4> DEFINE q == [job[p] EXCEPT !.step = s, !.done = 0]
                 T == {t, s}
                 I == {i}
      <4>1. job[p] \in [step : T, ids : I, done : Nat] /\ job[p].ids = i
        BY <2>1
      <4>2. q \in [step : T, ids : I, done : Nat] /\ q.step = s /\ q.ids = i /\ q.done = 0
        BY <4>1
      <4> HIDE DEF q
      <4>3. q = [step |-> s, ids |-> i, done |-> 0]
        BY <4>2
      <4> QED
        BY <4>3 DEF q
    <3> QED
      BY <3>1, <3>2
  <2> QED
    BY <2>1, <2>2
<1>10. ASSUME NEW p \in Commands, CreateBook(p) PROVE (ParsedInv /\ StoredInv)'
  <2>1. /\ UNCHANGED <<file, chapters, complete>> /\ Goto(p, "volumes")
        /\ book' = IF book.there THEN book ELSE [text |-> file.text, there |-> TRUE]
    BY <1>10 DEF CreateBook
  <2>2. book' = [text |-> file.text, there |-> TRUE]
    <3>1. ~NoBook.there
      BY DEF NoBook
    <3> QED
      BY <1>3, <2>1, <3>1
  <2>3. PICK i : job' = [job EXCEPT ![p] = [step |-> "volumes", ids |-> i, done |-> 0]]
    BY <1>9, <2>1
  <2>4. N' = N /\ \A o \in DOMAIN chapters' : Kept(o)'
    BY <1>3, <2>1
  <2>5. \A q \in Commands : Job(q)' /\ (job'[q].step = "chapters" => job'[q].done <= n)
    BY <1>2, <1>3, <2>2, <2>3
  <2> QED
    BY <1>2, <1>3, <1>4, <2>1, <2>2, <2>3, <2>4, <2>5 DEF StoredInv
<1>11. ASSUME NEW p \in Commands, CreateVolume(p) PROVE (ParsedInv /\ StoredInv)'
  <2>1. UNCHANGED <<file, chapters, book, complete>> /\ job[p].step = "volumes" /\ book.there
    BY <1>3, <1>11 DEF CreateVolume
  <2>2. \E s, i, d :
          /\ s \in {"volumes", "chapters"} /\ d \in Nat
          /\ job' = [job EXCEPT ![p] = [step |-> s, ids |-> i, done |-> d]]
          /\ s = "chapters" => d = 0
    <3>1. CASE Goto(p, "chapters")
      <4>1. PICK i : job' = [job EXCEPT ![p] = [step |-> "chapters", ids |-> i, done |-> 0]]
        BY <1>9, <3>1
      <4>2. 0 \in Nat /\ "chapters" \in {"volumes", "chapters"}
        OBVIOUS
      <4> QED
        BY <4>1, <4>2, Zenon
    <3>2. CASE ~Goto(p, "chapters")
      <4> DEFINE k == job[p].done + 1
                 x == <<file.volumes[k].ordinal, Len(volumes) + 1>>
      <4>1. job' = [job EXCEPT ![p].done = k, ![p].ids = Append(@, x)]
        BY <1>11, <3>2, Zenon DEF CreateVolume
      <4>2. PICK t, i, d : job[p] = [step |-> t, ids |-> i, done |-> d] /\ d = job[p].done /\ t = "volumes"
        BY <1>3, <2>1
      <4>3. k \in Nat
        BY <1>3
      <4> HIDE DEF k, x
      <4>4. job' = [job EXCEPT ![p] = [job[p] EXCEPT !.done = k, !.ids = Append(@, x)]]
        BY <1>3, <4>1
      <4>5. job[p].ids = i
        BY <4>2
      <4>6. [job[p] EXCEPT !.done = k, !.ids = Append(i, x)]
              = [step |-> t, ids |-> Append(i, x), done |-> k]
        <5> DEFINE j == Append(i, x)
                   T == {t}
                   I == {i, j}
                   r == [job[p] EXCEPT !.done = k, !.ids = j]
        <5>1. job[p] \in [step : T, ids : I, done : Nat] /\ job[p].step = t
          BY <1>3, <4>2
        <5>2. j \in I
          OBVIOUS
        <5> HIDE DEF j
        <5>3. r \in [step : T, ids : I, done : Nat] /\ r.step = t /\ r.ids = j /\ r.done = k
          BY <4>3, <5>1, <5>2
        <5> HIDE DEF r
        <5>4. r = [step |-> t, ids |-> j, done |-> k]
          BY <5>3
        <5> QED
          BY <5>4 DEF r, j
      <4>7. job' = [job EXCEPT ![p] = [step |-> "volumes", ids |-> Append(i, x), done |-> k]]
        BY <4>2, <4>4, <4>5, <4>6
      <4>8. "volumes" # "chapters" /\ "volumes" \in {"volumes", "chapters"}
        OBVIOUS
      <4> QED
        BY <4>3, <4>7, <4>8, Zenon
    <3> QED
      BY <3>1, <3>2
  <2>3. PICK s, i, d :
          /\ s \in {"volumes", "chapters"} /\ d \in Nat
          /\ job' = [job EXCEPT ![p] = [step |-> s, ids |-> i, done |-> d]]
          /\ s = "chapters" => d = 0
    BY <2>2
  <2>4. \A q \in Commands : Job(q)' /\ (job'[q].step = "chapters" => job'[q].done <= n)
    BY <1>2, <1>3, <2>1, <2>3
  <2> QED
    BY <1>3, <1>4, <1>5, <2>1, <2>3, <2>4
<1>12. ASSUME NEW p \in Commands, CreateChapter(p) PROVE (ParsedInv /\ StoredInv)'
  <2> DEFINE k == job[p].done
  <2>1. /\ UNCHANGED <<file, book>> /\ job[p].step = "chapters" /\ book.there
        /\ k \in Nat /\ k <= n
    BY <1>2, <1>3, <1>12 DEF CreateChapter
  <2>2. n \in Nat /\ n <= N /\ N' = N
    BY <1>1, <2>1
  <2>3. CASE k + 1 > N
    <3>1. Goto(p, "idle") /\ complete' = TRUE /\ UNCHANGED chapters
      BY <1>12, <2>3 DEF CreateChapter
    <3>2. PICK i : job' = [job EXCEPT ![p] = [step |-> "idle", ids |-> i, done |-> 0]]
      BY <1>9, <3>1
    <3>3. n = N
      BY <1>1, <2>1, <2>2, <2>3
    <3>4. \A q \in Commands : Job(q)' /\ (job'[q].step = "chapters" => job'[q].done <= n)
      BY <1>2, <1>3, <2>1, <3>2
    <3>5. \A o \in DOMAIN chapters' : Kept(o)'
      BY <1>3, <2>1, <3>1
    <3> QED
      BY <1>2, <1>3, <1>4, <2>1, <2>2, <3>1, <3>2, <3>3, <3>4, <3>5 DEF StoredInv
  <2>4. CASE ~(k + 1 > N)
    <3> DEFINE c == file.chapters[k + 1]
               m == IF k = n THEN n + 1 ELSE n
    <3>1. /\ chapters' = [o \in DOMAIN chapters \cup {(k + 1) - 1} |->
                             IF o \in DOMAIN chapters THEN chapters[o]
                             ELSE [lo |-> c.lo, hi |-> c.hi, hash |-> c.hash,
                                   volume |-> VolumeId(p, c.ordinal)]]
          /\ job' = [job EXCEPT ![p].done = k + 1] /\ UNCHANGED complete
      BY <1>12, <2>4, Zenon DEF CreateChapter
    <3>2. (k + 1) - 1 = k /\ k + 1 <= N /\ m \in 0..N /\ n <= m /\ k + 1 <= m /\ m > 0
      BY <1>1, <2>1, <2>2, <2>4
    <3>3. DOMAIN chapters' = 0..m - 1
      <4>1. (0..n - 1) \cup {k} = 0..m - 1
        BY <2>1, <2>2
      <4> QED
        BY <1>2, <3>1, <3>2, <4>1
    <3>4. complete => m = N
      BY <1>1, <1>2, <2>1, <2>2, <3>2
    <3>5. job' = [job EXCEPT ![p] = [job[p] EXCEPT !.done = k + 1]]
      BY <3>1
    <3>6. PICK i : [job[p] EXCEPT !.done = k + 1] = [step |-> "chapters", ids |-> i, done |-> k + 1]
      <4>1. PICK t, i, d : job[p] = [step |-> t, ids |-> i, done |-> d] /\ t = "chapters"
        BY <1>3, <2>1
      <4> QED
        <5> DEFINE T == {t}
                   I == {i}
                   r == [job[p] EXCEPT !.done = k + 1]
        <5>1. job[p] \in [step : T, ids : I, done : Nat] /\ job[p].step = t /\ k + 1 \in Nat
          BY <1>3, <2>1, <4>1
        <5>2. r \in [step : T, ids : I, done : Nat] /\ r.step = t /\ r.done = k + 1
          BY <5>1
        <5> HIDE DEF r
        <5>3. r = [step |-> t, ids |-> r.ids, done |-> k + 1]
          BY <5>2
        <5> QED
          BY <4>1, <5>3 DEF r
    <3>7. ASSUME NEW q \in Commands PROVE Job(q)' /\ (job'[q].step = "chapters" => job'[q].done <= m)
      <4>1. CASE q = p
        <5>1. job'[q] = [step |-> "chapters", ids |-> i, done |-> k + 1]
          BY <1>3, <3>5, <3>6, <4>1
        <5>2. k + 1 \in Nat /\ k + 1 <= m /\ book'.there
          BY <2>1, <3>2
        <5> HIDE DEF k, m
        <5> QED
          BY <5>1, <5>2
      <4>2. CASE q # p
        <5>1. job'[q] = job[q]
          BY <1>3, <3>5, <4>2
        <5>2. job[q].step = "chapters" => job[q].done <= m
          BY <1>2, <1>3, <2>2, <3>2
        <5> QED
          BY <1>3, <2>1, <5>1, <5>2
      <4> QED
        BY <4>1, <4>2
    <3>8. ASSUME NEW o \in DOMAIN chapters' PROVE Kept(o)'
      <4>1. CASE o \in DOMAIN chapters
        <5>1. chapters'[o] = chapters[o]
          BY <3>1, <4>1
        <5> QED
          BY <1>3, <2>1, <4>1, <5>1
      <4>2. CASE o \notin DOMAIN chapters
        <5>1. o = k
          BY <3>1, <3>2, <4>2
        <5>2. PICK v : chapters'[o] = [lo |-> c.lo, hi |-> c.hi, hash |-> c.hash, volume |-> v]
          BY <3>1, <4>2
        <5> QED
          BY <2>1, <5>1, <5>2
      <4> QED
        BY <4>1, <4>2
    <3>9. DOMAIN job' = Commands
      BY <1>3, <3>5
    <3> HIDE DEF m, k, c
    <3> QED
      BY <1>2, <1>3, <1>4, <2>1, <2>2, <3>1, <3>2, <3>3, <3>4, <3>7, <3>8, <3>9 DEF StoredInv
  <2> QED
    BY <2>3, <2>4
<1>13. CASE UNCHANGED importVars
  <2>1. UNCHANGED <<file, chapters, book, complete, job>>
    BY <1>13 DEF importVars, tables
  <2>2. N' = N /\ (\A o \in DOMAIN chapters' : Kept(o)') /\ \A q \in Commands : Job(q)'
    BY <1>3, <2>1
  <2> QED
    BY <1>2, <1>3, <1>4, <2>1, <2>2 DEF StoredInv
<1> QED
  BY <1>6, <1>7, <1>8, <1>10, <1>11, <1>12, <1>13 DEF ImportNext

\* The import keeps what is stored in order.
THEOREM ImportInvariant == ImportSpec => [](ParsedInv /\ StoredInv)
<1>1. ImportInit => ParsedInv /\ StoredInv
  BY ImportStarts
<1>2. (ParsedInv /\ StoredInv) /\ [ImportNext]_importVars => (ParsedInv /\ StoredInv)'
  BY ImportStep
<1> QED
  BY <1>1, <1>2, PTL DEF ImportSpec

\* What is stored in order tiles the text.
LEMMA StoredTiles == ASSUME ParsedInv, StoredInv PROVE ChaptersTile
<1> DEFINE N == Len(file.chapters)
           fc == file.chapters
           count == Cardinality(DOMAIN chapters)
<1>1. /\ N \in Nat /\ DOMAIN fc = 1..N
      /\ \A i \in 1..N : /\ fc[i].lo = (IF i = 1 THEN 0 ELSE fc[i - 1].hi)
                         /\ fc[i].lo < fc[i].hi /\ fc[i].hi <= Len(file.text)
                         /\ fc[i].hash = Lines(file.text, fc[i].lo, fc[i].hi)
      /\ fc # <<>> => fc[N].hi = Len(file.text)
      /\ fc = <<>> => Filled(file.text) = <<>> \/ MostlyListed(file.text)
  <2>1. fc \in Seq(Range(fc)) /\ Chaptered(fc, file.text)
    BY DEF ParsedInv, WellCut
  <2>2. N \in Nat /\ DOMAIN fc = 1..N
    BY <2>1, LenProperties
  <2> HIDE DEF fc
  <2> QED
    BY <2>1, <2>2 DEF Chaptered, ParsedInv, WellCut, fc
<1>2. PICK n \in 0..N : /\ DOMAIN chapters = 0..n - 1
                        /\ n > 0 \/ complete => book.there
                        /\ complete => n = N
  BY DEF StoredInv
<1>3. /\ book \in {NoBook, [text |-> file.text, there |-> TRUE]}
      /\ \A o \in DOMAIN chapters :
           chapters[o] = [lo |-> fc[o + 1].lo, hi |-> fc[o + 1].hi, hash |-> fc[o + 1].hash,
                          volume |-> chapters[o].volume]
  BY DEF StoredInv
<1> HIDE DEF fc, N
<1>4. count = n
  <2>1. Cardinality(0..n - 1) = IF 0 > n - 1 THEN 0 ELSE (n - 1) - 0 + 1
    BY <1>1, FS_Interval
  <2> QED
    BY <1>1, <1>2, <2>1
<1>5. n > 0 \/ complete => book.text = file.text
  <2>1. ~NoBook.there
    BY DEF NoBook
  <2> QED
    BY <1>2, <1>3, <2>1
<1>6. ASSUME NEW o \in DOMAIN chapters
      PROVE  /\ chapters[o].lo = (IF o = 0 THEN 0 ELSE chapters[o - 1].hi)
             /\ chapters[o].lo < chapters[o].hi /\ chapters[o].hi <= Len(book.text)
             /\ chapters[o].hash = Lines(book.text, chapters[o].lo, chapters[o].hi)
  <2>1. /\ o + 1 \in 1..N /\ n > 0 /\ (o + 1 = 1 <=> o = 0)
        /\ o # 0 => o - 1 \in DOMAIN chapters /\ (o - 1) + 1 = o /\ (o + 1) - 1 = o
    BY <1>1, <1>2
  <2>2. chapters[o].lo = fc[o + 1].lo /\ chapters[o].hi = fc[o + 1].hi /\ chapters[o].hash = fc[o + 1].hash
    BY <1>3
  <2>3. o # 0 => chapters[o - 1].hi = fc[o].hi
    BY <1>3, <2>1
  <2>4. fc[o + 1].lo = IF o = 0 THEN 0 ELSE fc[o].hi
    BY <1>1, <2>1
  <2> QED
    BY <1>1, <1>5, <2>1, <2>2, <2>3, <2>4
<1>7. ASSUME complete
      PROVE  IF n = 0 THEN Filled(book.text) = <<>> \/ MostlyListed(book.text)
             ELSE chapters[n - 1].hi = Len(book.text)
  <2>1. n = N /\ book.text = file.text
    BY <1>2, <1>5, <1>7
  <2>2. N = 0 <=> fc = <<>>
    <3>1. fc \in Seq(Range(fc))
      BY DEF ParsedInv, WellCut, fc
    <3> QED
      BY <3>1, EmptySeq DEF N, fc
  <2>3. CASE n = 0
    BY <1>1, <2>1, <2>2, <2>3
  <2>4. CASE n # 0
    <3>1. n - 1 \in DOMAIN chapters /\ (n - 1) + 1 = n
      BY <1>1, <1>2, <2>4
    <3>2. chapters[n - 1].hi = fc[n].hi
      BY <1>3, <3>1
    <3> QED
      BY <1>1, <2>1, <2>2, <2>4, <3>2
  <2> QED
    BY <2>3, <2>4
<1> QED
  BY <1>2, <1>4, <1>6, <1>7 DEF ChaptersTile

\* Whatever dies, is run again or runs beside another, the stored chapters tile the
\* stored text, and a finished import reaches its end.
THEOREM ChaptersTileTheText == ImportSpec => []ChaptersTile
<1>1. ParsedInv /\ StoredInv => ChaptersTile
  BY StoredTiles
<1> QED
  BY <1>1, ImportInvariant, PTL

-----------------------------------------------------------------------------
(* How a chapter is cut into chunks *)

\* Max and Min of two numbers.
LEMMA OfTwo ==
  ASSUME NEW a \in Int, NEW b \in Int
  PROVE  /\ Max({a, b}) = IF a <= b THEN b ELSE a
         /\ Min({a, b}) = IF a <= b THEN a ELSE b
<1>1. PICK c \in Int : c = IF a <= b THEN b ELSE a
  OBVIOUS
<1>2. PICK d \in Int : d = IF a <= b THEN a ELSE b
  OBVIOUS
<1>3. \A x \in {a, b} : (\A y \in {a, b} : x >= y) <=> x = c
  BY <1>1
<1>4. \A x \in {a, b} : (\A y \in {a, b} : x <= y) <=> x = d
  BY <1>2
<1>5. c \in {a, b} /\ d \in {a, b}
  BY <1>1, <1>2
<1>6. Max({a, b}) = c
  BY <1>3, <1>5 DEF Max
<1>7. Min({a, b}) = d
  BY <1>4, <1>5 DEF Min
<1> QED
  BY <1>1, <1>2, <1>6, <1>7

\* The length and the overlap of the chunks of a configuration are counts.
LEMMA ChunkCounts ==
  ASSUME NEW config \in [target : Nat, percent : Nat, min : Nat]
  PROVE  StepOf(config) \in Nat \ {0} /\ OverlapOf(config) \in Nat
<1>1. ASSUME NEW k \in Int PROVE Max({k, 1}) \in Nat \ {0}
  BY <1>1, OfTwo
<1>2. config.target \in Nat /\ config.percent \in Nat
  OBVIOUS
<1>3. StepOf(config) \in Nat \ {0}
  BY <1>1, <1>2 DEF StepOf
<1>4. PICK q \in Int : q = StepOf(config) * config.percent
  BY <1>2, <1>3
<1>5. q \div 100 \in Int
  OBVIOUS
<1>6. Max({q \div 100, 1}) \in Nat
  BY <1>1, <1>5
<1> QED
  BY <1>3, <1>4, <1>6 DEF OverlapOf

\* Where the chunk at a position ends, and where the one after it begins.
ChunkEnd(pos, n, step) == Min({pos + step, n})
ChunkNext(pos, n, step, overlap) == Max({ChunkEnd(pos, n, step) - overlap, pos + 1})
ChunkAt(pos, n, step) == [lo |-> pos, hi |-> ChunkEnd(pos, n, step)]

\* A chunk is as long as it may be unless it is the last, and the next one begins
\* inside it or at its end.
LEMMA ChunkEnds ==
  ASSUME NEW n \in Nat, NEW step \in Nat \ {0}, NEW overlap \in Nat, NEW pos \in 0..n, pos # n
  PROVE  LET e == ChunkEnd(pos, n, step)
             q == ChunkNext(pos, n, step, overlap)
         IN /\ e \in Nat /\ pos < e /\ e <= n /\ e - pos <= step /\ (e = n \/ e = pos + step)
            /\ q \in Nat /\ pos < q /\ q <= e
            /\ overlap < step /\ e # n => e - q = overlap
<1> DEFINE e == ChunkEnd(pos, n, step)
           q == ChunkNext(pos, n, step, overlap)
<1>1. e = IF pos + step <= n THEN pos + step ELSE n
  BY OfTwo DEF ChunkEnd
<1>2. e \in Nat /\ pos < e /\ e <= n /\ e - pos <= step /\ (e = n \/ e = pos + step)
  <2> HIDE DEF e
  <2> QED
    BY <1>1
<1>3. q = IF e - overlap <= pos + 1 THEN pos + 1 ELSE e - overlap
  <2>1. e - overlap \in Int /\ pos + 1 \in Int
    BY <1>2
  <2> QED
    BY <2>1, OfTwo DEF ChunkNext
<1>4. q \in Nat /\ pos < q /\ q <= e /\ (overlap < step /\ e # n => e - q = overlap)
  <2> HIDE DEF e, q
  <2> QED
    BY <1>2, <1>3
<1> QED
  BY <1>2, <1>4

\* What ChunkText computes.
LEMMA ChunkDef ==
  ASSUME NEW n \in Nat, NEW config \in [target : Nat, percent : Nat, min : Nat], StepOf(config) >= config.min
  PROVE  LET step == StepOf(config)
             overlap == OverlapOf(config)
         IN \E from : /\ ChunkText(n, config) = from[0] /\ from[n] = <<>>
                      /\ \A pos \in 0..n : pos # n =>
                           from[pos] = IF ChunkEnd(pos, n, step) = n THEN <<ChunkAt(pos, n, step)>>
                                       ELSE <<ChunkAt(pos, n, step)>> \o from[ChunkNext(pos, n, step, overlap)]
<1> DEFINE step == StepOf(config)
           overlap == OverlapOf(config)
           E(pos) == ChunkEnd(pos, n, step)
           Q(pos) == ChunkNext(pos, n, step, overlap)
           Here(pos) == IF E(pos) - pos >= config.min \/ E(pos) = n THEN <<ChunkAt(pos, n, step)>> ELSE <<>>
           Step(h, pos) == IF pos = n THEN <<>> ELSE IF E(pos) = n THEN Here(pos) ELSE Here(pos) \o h[Q(pos)]
           Is(h, k) == \A pos \in 0..n : n - pos <= k => h[pos] = Step(h, pos)
           Fun(h) == h = [pos \in 0..n |-> Step(h, pos)]
           G == {k \in Nat : \E h : Is(h, k)}
<1>1. n \in Nat /\ config.min \in Nat /\ step \in Nat \ {0} /\ overlap \in Nat /\ step >= config.min
  BY ChunkCounts
<1>2. ASSUME NEW pos \in 0..n, pos # n
      PROVE  Q(pos) \in 0..n /\ n - Q(pos) < n - pos /\ (E(pos) = n \/ E(pos) - pos >= config.min)
  <2>1. /\ E(pos) \in Nat /\ E(pos) <= n /\ (E(pos) = n \/ E(pos) = pos + step)
        /\ Q(pos) \in Nat /\ pos < Q(pos) /\ Q(pos) <= E(pos)
    <3>1. PICK s \in Nat \ {0} : s = step
      BY <1>1
    <3>2. PICK o \in Nat : o = overlap
      BY <1>1
    <3>3. LET e == ChunkEnd(pos, n, s)
              q == ChunkNext(pos, n, s, o)
          IN /\ e \in Nat /\ pos < e /\ e <= n /\ e - pos <= s /\ (e = n \/ e = pos + s)
             /\ q \in Nat /\ pos < q /\ q <= e
      BY <1>2, ChunkEnds
    <3> HIDE DEF step, overlap
    <3> QED
      BY <3>1, <3>2, <3>3
  <2> HIDE DEF step, overlap
  <2> HIDE DEF E, Q
  <2> QED
    BY <1>1, <2>1
<1>3. ChunkText(n, config) = (CHOOSE g : Fun(g))[0]
  BY Zenon DEF ChunkText, E, Q, Here, ChunkAt, ChunkEnd, ChunkNext
<1> HIDE DEF step, overlap, E, Q, Here
<1>4. ASSUME NEW pos \in 0..n, NEW g, NEW h, \A x \in 0..n : n - x < n - pos => g[x] = h[x]
      PROVE  Step(g, pos) = Step(h, pos)
  BY <1>2, <1>4
<1>5. 0 \in G
  <2> DEFINE h == [pos \in 0..n |-> <<>>]
  <2>1. \A pos \in 0..n : n - pos <= 0 => pos = n
    BY <1>1
  <2>2. Is(h, 0)
    BY <2>1
  <2> HIDE DEF Is
  <2> QED
    BY <2>2
<1>6. ASSUME NEW k \in G PROVE k + 1 \in G
  <2>1. PICK g : Is(g, k)
    OBVIOUS
  <2>2. k \in Nat /\ k + 1 \in Nat
    OBVIOUS
  <2> DEFINE h == [pos \in 0..n |-> IF n - pos <= k THEN g[pos] ELSE Step(g, pos)]
  <2> HIDE DEF Step
  <2>3. \A pos \in 0..n : n - pos <= k => h[pos] = g[pos]
    OBVIOUS
  <2>4. \A pos \in 0..n : h[pos] = Step(g, pos)
    BY <2>1
  <2>5. ASSUME NEW pos \in 0..n, n - pos <= k + 1 PROVE h[pos] = Step(h, pos)
    <3> HIDE DEF h
    <3>1. \A x \in 0..n : n - x < n - pos => g[x] = h[x]
      BY <1>1, <2>2, <2>3, <2>5
    <3>2. Step(g, pos) = Step(h, pos)
      BY <1>4, <3>1
    <3> QED
      BY <2>4, <3>2
  <2> HIDE DEF h
  <2>6. Is(h, k + 1)
    BY <2>5
  <2> HIDE DEF Is
  <2> QED
    BY <2>2, <2>6
<1>7. G = Nat
  <2> HIDE DEF G
  <2>1. G \in SUBSET Nat
    BY DEF G
  <2> QED
    BY <1>5, <1>6, <2>1, Induction
<1>8. PICK h : Is(h, n)
  <2> HIDE DEF Is
  <2> QED
    BY <1>1, <1>7
<1> DEFINE all == [pos \in 0..n |-> h[pos]]
<1>9. \A pos \in 0..n : all[pos] = Step(all, pos)
  <2> TAKE pos \in 0..n
  <2>1. n - pos <= n
    BY <1>1
  <2>2. h[pos] = Step(h, pos)
    BY <1>8, <2>1
  <2>3. \A x \in 0..n : all[x] = h[x]
    OBVIOUS
  <2> HIDE DEF Step, all
  <2>4. Step(h, pos) = Step(all, pos)
    BY <1>4, <2>3
  <2> QED
    BY <2>2, <2>3, <2>4
<1>10. Fun(all)
  <2>1. all = [pos \in 0..n |-> all[pos]]
    OBVIOUS
  <2> HIDE DEF all, Step
  <2> QED
    BY <1>9, <2>1
<1> DEFINE from == CHOOSE g : Fun(g)
<1>11. Fun(from)
  <2> HIDE DEF Fun, all
  <2> QED
    BY <1>10, Zenon
<1>12. ChunkText(n, config) = from[0]
  BY <1>3
<1> HIDE DEF from
<1>13. \A pos \in 0..n : from[pos] = Step(from, pos)
  <2> HIDE DEF Step
  <2> QED
    BY <1>11
<1>14. from[n] = <<>>
  <2>1. n \in 0..n
    BY <1>1
  <2> QED
    BY <1>13, <2>1
<1>15. ASSUME NEW pos \in 0..n, pos # n
       PROVE  from[pos] = IF E(pos) = n THEN <<ChunkAt(pos, n, step)>>
                          ELSE <<ChunkAt(pos, n, step)>> \o from[Q(pos)]
  <2>1. Here(pos) = <<ChunkAt(pos, n, step)>>
    BY <1>2, <1>15 DEF Here
  <2> QED
    BY <1>13, <1>15, <2>1
<1> QED
  BY <1>12, <1>14, <1>15, Zenon DEF step, overlap, E, Q

\* How a chunk lies beside the next one.
Beside(a, b, step, overlap) ==
    a.lo < b.lo /\ a.hi < b.hi /\ IF overlap < step THEN a.hi - b.lo = overlap ELSE a.hi - b.lo >= 0

\* Chunks that take the tokens from a position to the end.
Chunked(cs, pos, n, step, overlap) ==
    /\ cs \in Seq([lo : Nat, hi : Nat]) /\ Len(cs) # 0
    /\ cs[1] = ChunkAt(pos, n, step) /\ cs[Len(cs)].hi = n
    /\ \A i \in 1..Len(cs) : cs[i].hi - cs[i].lo <= step
    /\ \A i \in 1..Len(cs) : i # 1 => Beside(cs[i - 1], cs[i], step, overlap)

\* One more chunk in front.
LEMMA ChunkFronted ==
  ASSUME NEW n \in Nat, NEW step \in Nat \ {0}, NEW overlap \in Nat, NEW pos \in 0..n, pos # n,
         ChunkEnd(pos, n, step) # n,
         NEW cs, Chunked(cs, ChunkNext(pos, n, step, overlap), n, step, overlap)
  PROVE  Chunked(<<ChunkAt(pos, n, step)>> \o cs, pos, n, step, overlap)
<1> DEFINE c == ChunkAt(pos, n, step)
           e == ChunkEnd(pos, n, step)
           q == ChunkNext(pos, n, step, overlap)
           qe == ChunkEnd(q, n, step)
           f == <<c>>
           v == f \o cs
           Chunk == [lo : Nat, hi : Nat]
<1>1. /\ e \in Nat /\ pos < e /\ e < n /\ e - pos <= step /\ e = pos + step
      /\ q \in Nat /\ pos < q /\ q <= e /\ (overlap < step => e - q = overlap)
  <2>1. /\ e \in Nat /\ pos < e /\ e <= n /\ e - pos <= step /\ (e = n \/ e = pos + step)
        /\ q \in Nat /\ pos < q /\ q <= e /\ (overlap < step /\ e # n => e - q = overlap)
    BY ChunkEnds
  <2>2. e # n
    OBVIOUS
  <2> HIDE DEF e, q
  <2> QED
    BY <2>1, <2>2
<1>2. q \in 0..n /\ q # n
  <2> HIDE DEF e, q
  <2> QED
    BY <1>1
<1>3. qe \in Nat /\ (qe = n \/ qe = q + step)
  <2> HIDE DEF q
  <2>1. q + step \in Int /\ q + step >= 0
    BY <1>2
  <2>2. qe = IF q + step <= n THEN q + step ELSE n
    <3>1. PICK a \in Int : a = q + step
      BY <2>1
    <3>2. PICK m \in Int : m = n
      OBVIOUS
    <3>3. qe = Min({a, m})
      BY <3>1, <3>2 DEF ChunkEnd
    <3> HIDE DEF c, e, qe, f, v, Chunk
    <3>4. Min({a, m}) = IF a <= m THEN a ELSE m
      BY OfTwo
    <3> QED
      BY <3>1, <3>2, <3>3, <3>4
  <2> HIDE DEF qe
  <2> QED
    BY <2>1, <2>2
<1>4. cs \in Seq(Chunk) /\ Len(cs) \in Nat \ {0} /\ cs[1] = [lo |-> q, hi |-> qe]
  BY DEF Chunked, ChunkAt
<1>5. c = [lo |-> pos, hi |-> e] /\ c \in Chunk
  BY <1>1 DEF ChunkAt
<1>6. Beside(c, cs[1], step, overlap)
  <2>1. pos < q /\ e < qe /\ IF overlap < step THEN e - q = overlap ELSE e - q >= 0
    <3> HIDE DEF e, q, qe
    <3> QED
      BY <1>1, <1>3
  <2>2. c.lo = pos /\ c.hi = e /\ cs[1].lo = q /\ cs[1].hi = qe
    <3> HIDE DEF c, e, q, qe
    <3> QED
      BY <1>4, <1>5
  <2> HIDE DEF c, e, q, qe
  <2> QED
    BY <2>1, <2>2 DEF Beside
<1>7. c = ChunkAt(pos, n, step)
  OBVIOUS
<1>8. c.hi - c.lo <= step
  <2> HIDE DEF c, e
  <2> QED
    BY <1>1, <1>5
<1>9. /\ cs[Len(cs)].hi = n
      /\ \A i \in 1..Len(cs) : cs[i].hi - cs[i].lo <= step
      /\ \A i \in 1..Len(cs) : i # 1 => Beside(cs[i - 1], cs[i], step, overlap)
  BY DEF Chunked
<1> HIDE DEF c, e, q, qe
<1>10. f \in Seq(Chunk) /\ Len(f) = 1 /\ f[1] = c
  BY <1>5
<1> HIDE DEF f
<1>11. /\ v \in Seq(Chunk) /\ Len(v) = 1 + Len(cs)
       /\ \A i \in 1..(1 + Len(cs)) : v[i] = IF i <= 1 THEN f[i] ELSE cs[i - 1]
  <2>1. /\ v \in Seq(Chunk) /\ Len(v) = Len(f) + Len(cs)
        /\ \A i \in 1..(Len(f) + Len(cs)) : v[i] = IF i <= Len(f) THEN f[i] ELSE cs[i - Len(f)]
    BY <1>4, <1>10, ConcatProperties
  <2> QED
    BY <1>10, <2>1
<1> HIDE DEF v, Chunk
<1>12. v[1] = c /\ \A i \in 1..Len(v) : i # 1 => i - 1 \in 1..Len(cs) /\ v[i] = cs[i - 1]
  BY <1>4, <1>10, <1>11
<1>13. v[Len(v)].hi = n
  <2>1. Len(v) \in 1..Len(v) /\ Len(v) # 1 /\ Len(v) - 1 = Len(cs)
    BY <1>4, <1>11
  <2> QED
    BY <1>9, <1>12, <2>1
<1>14. ASSUME NEW i \in 1..Len(v) PROVE v[i].hi - v[i].lo <= step
  BY <1>8, <1>9, <1>12
<1>15. ASSUME NEW i \in 1..Len(v), i # 1 PROVE Beside(v[i - 1], v[i], step, overlap)
  <2>1. PICK j \in 1..Len(cs) : j = i - 1 /\ v[i] = cs[j]
    BY <1>12, <1>15
  <2>2. CASE j = 1
    BY <1>6, <1>12, <2>1, <2>2
  <2>3. CASE j # 1
    <3>1. j \in 1..Len(v)
      BY <1>4, <1>11, <2>1
    <3>2. v[j] = cs[j - 1]
      BY <1>12, <2>3, <3>1
    <3> QED
      BY <1>9, <2>1, <2>3, <3>2
  <2> QED
    BY <2>2, <2>3
<1>16. Len(v) # 0
  BY <1>4, <1>11
<1> QED
  BY <1>7, <1>11, <1>12, <1>13, <1>14, <1>15, <1>16 DEF Chunked, v, f, Chunk

\* The chunks of a chapter that has tokens take all of them.
LEMMA ChunksTake ==
  ASSUME NEW n \in Nat, NEW config \in [target : Nat, percent : Nat, min : Nat], StepOf(config) >= config.min
  PROVE  /\ n = 0 => ChunkText(n, config) = <<>>
         /\ n # 0 => Chunked(ChunkText(n, config), 0, n, StepOf(config), OverlapOf(config))
<1>1. PICK step \in Nat \ {0} : step = StepOf(config)
  BY ChunkCounts
<1>2. PICK overlap \in Nat : overlap = OverlapOf(config)
  BY ChunkCounts
<1> DEFINE E(pos) == ChunkEnd(pos, n, step)
           Q(pos) == ChunkNext(pos, n, step, overlap)
           C(pos) == ChunkAt(pos, n, step)
<1>3. PICK from : /\ ChunkText(n, config) = from[0] /\ from[n] = <<>>
                  /\ \A pos \in 0..n : pos # n =>
                       from[pos] = IF E(pos) = n THEN <<C(pos)>> ELSE <<C(pos)>> \o from[Q(pos)]
  BY <1>1, <1>2, ChunkDef
<1> DEFINE Is(pos) == Chunked(from[pos], pos, n, step, overlap)
           H == {k \in Nat : \A pos \in 0..n : n - pos <= k /\ pos # n => Is(pos)}
<1>4. 0 \in H
  <2>1. \A pos \in 0..n : n - pos <= 0 => pos = n
    OBVIOUS
  <2> QED
    BY <2>1
<1>5. ASSUME NEW k \in H PROVE k + 1 \in H
  <2>1. k \in Nat
    OBVIOUS
  <2> SUFFICES ASSUME NEW pos \in 0..n, n - pos <= k + 1, pos # n PROVE Is(pos)
    BY <2>1
  <2>2. /\ E(pos) \in Nat /\ pos < E(pos) /\ E(pos) <= n /\ E(pos) - pos <= step
        /\ Q(pos) \in Nat /\ pos < Q(pos) /\ Q(pos) <= E(pos)
    BY ChunkEnds
  <2>3. CASE E(pos) = n
    <3>1. C(pos) = [lo |-> pos, hi |-> n]
      BY <2>3 DEF ChunkAt
    <3>2. n - pos <= step /\ pos \in Nat
      BY <2>2, <2>3
    <3>3. from[pos] = <<C(pos)>>
      BY <1>3, <2>3
    <3> DEFINE c == C(pos)
    <3>4. c = ChunkAt(pos, n, step) /\ c = [lo |-> pos, hi |-> n]
      BY <3>1
    <3> HIDE DEF c, E
    <3>5. c \in [lo : Nat, hi : Nat] /\ c.hi = n /\ c.hi - c.lo <= step
      BY <3>2, <3>4
    <3>6. from[pos] = <<c>>
      BY <3>3 DEF c
    <3> QED
      BY <3>4, <3>5, <3>6 DEF Chunked
  <2>4. CASE E(pos) # n
    <3>1. Q(pos) \in 0..n /\ Q(pos) # n /\ n - Q(pos) <= k
      <4> HIDE DEF E, Q
      <4> QED
        BY <2>1, <2>2, <2>4
    <3>2. Is(Q(pos))
      <4> HIDE DEF Is, Q
      <4> QED
        BY <3>1
    <3>3. from[pos] = <<C(pos)>> \o from[Q(pos)]
      BY <1>3, <2>4
    <3> QED
      BY <2>4, <3>2, <3>3, ChunkFronted
  <2> QED
    BY <2>3, <2>4
<1>6. H = Nat
  <2> HIDE DEF H
  <2>1. H \in SUBSET Nat
    BY DEF H
  <2> QED
    BY <1>4, <1>5, <2>1, Induction
<1>7. n # 0 => Is(0)
  <2> HIDE DEF Is
  <2>1. n \in H
    <3> HIDE DEF H
    <3> QED
      BY <1>6
  <2>2. 0 \in 0..n /\ n - 0 <= n /\ (n # 0 => 0 # n)
    OBVIOUS
  <2> QED
    BY <2>1, <2>2
<1> QED
  BY <1>1, <1>2, <1>3, <1>7

\* The hash of a stored chapter is a text of its own.
LEMMA StoredHash ==
  ASSUME ParsedInv, StoredInv, NEW o \in DOMAIN chapters
  PROVE  Chars(chapters[o].hash) \in Nat
<1> DEFINE fc == file.chapters
           N == Len(fc)
           T == Len(file.text)
<1>1. fc \in Seq(Range(fc)) /\ Chaptered(fc, file.text) /\ file.text \in Seq(Kinds)
  BY DEF ParsedInv, WellCut
<1>2. N \in Nat /\ DOMAIN fc = 1..N /\ T \in Nat
  BY <1>1, LenProperties
<1>3. \A i \in 1..N : /\ fc[i].lo = (IF i = 1 THEN 0 ELSE fc[i - 1].hi)
                      /\ fc[i].hi \in Int /\ fc[i].lo < fc[i].hi /\ fc[i].hi <= T
                      /\ fc[i].hash = Lines(file.text, fc[i].lo, fc[i].hi)
  BY <1>1, <1>2 DEF Chaptered
<1>4. PICK m \in 0..N : DOMAIN chapters = 0..m - 1
  BY DEF StoredInv
<1>5. chapters[o] = [lo |-> fc[o + 1].lo, hi |-> fc[o + 1].hi, hash |-> fc[o + 1].hash,
                     volume |-> chapters[o].volume]
  BY DEF StoredInv
<1> HIDE DEF fc, N, T
<1>6. o + 1 \in 1..N
  BY <1>2, <1>4
<1> DEFINE H == {n \in Nat : n # 0 => fc[n].hi \in 0..T /\ fc[n].lo \in 0..T}
<1>7. \A n \in 0..N : n \in H
  <2>1. 0 \in H
    OBVIOUS
  <2>2. ASSUME NEW n \in 0..N, n \in H, n # N PROVE n + 1 \in H
    <3>1. n + 1 \in 1..N /\ n \in Nat /\ (n + 1) - 1 = n /\ (n + 1 = 1 <=> n = 0)
      BY <1>2, <2>2
    <3>2. /\ fc[n + 1].lo = (IF n = 0 THEN 0 ELSE fc[n].hi) /\ fc[n + 1].hi \in Int
          /\ fc[n + 1].lo < fc[n + 1].hi /\ fc[n + 1].hi <= T
      BY <1>3, <3>1
    <3>3. fc[n + 1].lo \in 0..T
      BY <1>2, <2>2, <3>1, <3>2
    <3>4. fc[n + 1].hi \in 0..T
      BY <1>2, <3>2, <3>3
    <3> QED
      BY <3>1, <3>3, <3>4
  <2> HIDE DEF H
  <2> QED
    BY <1>2, <2>1, <2>2, UpTo
<1>8. fc[o + 1].lo \in 0..T /\ fc[o + 1].hi \in 0..T /\ fc[o + 1].lo < fc[o + 1].hi
      /\ fc[o + 1].hash = Lines(file.text, fc[o + 1].lo, fc[o + 1].hi)
  BY <1>2, <1>3, <1>6, <1>7
<1>9. PICK a \in 0..T : a = fc[o + 1].lo
  BY <1>8
<1>10. PICK b \in 0..T : b = fc[o + 1].hi
  BY <1>8
<1>11. Lines(file.text, a, b) \in Seq(Kinds)
  <2>1. a <= b
    BY <1>2, <1>8, <1>9, <1>10
  <2> QED
    BY <1>1, <2>1, LinesJoin DEF T
<1>12. chapters[o].hash = Lines(file.text, a, b)
  BY <1>5, <1>8, <1>9, <1>10
<1> QED
  BY <1>11, <1>12, CharsNat

\* Every token of a stored chapter is in a chunk, whatever the configuration; no
\* chunk is too long or inside its neighbour, and neighbours share what they should.
THEOREM ChunksCoverTheChapter == ImportSpec => []ChunksCover
<1>1. ParsedInv /\ StoredInv => ChunksCover
  <2> SUFFICES ASSUME ParsedInv, StoredInv PROVE ChunksCover
    OBVIOUS
  <2> SUFFICES ASSUME NEW n \in {Chars(chapters[o].hash) : o \in DOMAIN chapters},
                      NEW config \in {c \in ChunkConfigs : StepOf(c) >= c.min}
               PROVE  LET cs == ChunkText(n, config)
                          step == StepOf(config)
                          overlap == OverlapOf(config)
                          Shared(i) == cs[i - 1].hi - cs[i].lo
                      IN /\ n > 0 => cs # <<>> /\ cs[1].lo = 0 /\ cs[Len(cs)].hi = n
                         /\ \A i \in DOMAIN cs : cs[i].hi - cs[i].lo <= step
                         /\ \A i \in 2..Len(cs) :
                              /\ cs[i - 1].lo < cs[i].lo /\ cs[i - 1].hi < cs[i].hi
                              /\ IF overlap < step THEN Shared(i) = overlap ELSE Shared(i) >= 0
    BY DEF ChunksCover
  <2> DEFINE cs == ChunkText(n, config)
             step == StepOf(config)
             overlap == OverlapOf(config)
  <2>1. n \in Nat
    BY StoredHash
  <2>2. config \in [target : Nat, percent : Nat, min : Nat] /\ step >= config.min
    BY ChunkAssumption
  <2>3. n = 0 => cs = <<>>
    BY <2>1, <2>2, ChunksTake
  <2>4. n # 0 => Chunked(cs, 0, n, step, overlap)
    BY <2>1, <2>2, ChunksTake
  <2> HIDE DEF cs, step, overlap
  <2>5. CASE n = 0
    <3>1. cs = <<>> /\ ~(n > 0) /\ DOMAIN cs = {} /\ 2..Len(cs) = {}
      BY <2>3, <2>5
    <3> QED
      BY <3>1 DEF cs, step, overlap
  <2>6. CASE n # 0
    <3>1. /\ cs \in Seq([lo : Nat, hi : Nat]) /\ Len(cs) # 0
          /\ cs[1] = ChunkAt(0, n, step) /\ cs[Len(cs)].hi = n
          /\ \A i \in 1..Len(cs) : cs[i].hi - cs[i].lo <= step
          /\ \A i \in 1..Len(cs) : i # 1 => Beside(cs[i - 1], cs[i], step, overlap)
      BY <2>4, <2>6 DEF Chunked
    <3>2. cs # <<>> /\ cs[1].lo = 0 /\ DOMAIN cs = 1..Len(cs) /\ Len(cs) \in Nat
      BY <3>1 DEF ChunkAt
    <3>3. \A i \in 2..Len(cs) : i \in 1..Len(cs) /\ i # 1
      BY <3>2
    <3>4. \A i \in 2..Len(cs) :
            /\ cs[i - 1].lo < cs[i].lo /\ cs[i - 1].hi < cs[i].hi
            /\ IF overlap < step THEN cs[i - 1].hi - cs[i].lo = overlap ELSE cs[i - 1].hi - cs[i].lo >= 0
      BY <3>1, <3>3 DEF Beside
    <3> QED
      BY <3>1, <3>2, <3>4 DEF cs, step, overlap
  <2> QED
    BY <2>5, <2>6
<1> QED
  BY <1>1, ImportInvariant, PTL

-----------------------------------------------------------------------------
(* Places, candidates and anchors *)

\* Only asks no more of a set than what it has of the sequence.
LEMMA OnlySame ==
  ASSUME NEW X, NEW S, NEW T, \A e \in X : e \in S <=> e \in T, NEW s \in Seq(X)
  PROVE  Only(s, S) = Only(s, T)
<1> DEFINE H == {r \in Seq(X) : Only(r, S) = Only(r, T)}
<1>1. <<>> \in H
  <2>1. Only(<<>>, S) = <<>> /\ Only(<<>>, T) = <<>> /\ <<>> \in Seq(X)
    BY OnlyEmpty, EmptySeq
  <2> QED
    BY <2>1
<1>2. ASSUME NEW r \in Seq(X), NEW e \in X, r \in H PROVE Append(r, e) \in H
  <2>1. Append(r, e) \in Seq(X) /\ Only(r, S) = Only(r, T)
    BY <1>2, AppendProperties
  <2>2. Only(Append(r, e), S) = IF e \in S THEN Append(Only(r, S), e) ELSE Only(r, S)
    BY OnlyAppend
  <2>3. Only(Append(r, e), T) = IF e \in T THEN Append(Only(r, T), e) ELSE Only(r, T)
    BY OnlyAppend
  <2>4. PICK q : q = Append(r, e)
    OBVIOUS
  <2>5. e \in S <=> e \in T
    OBVIOUS
  <2>6. Only(q, S) = Only(q, T)
    BY <2>1, <2>2, <2>3, <2>4, <2>5
  <2> QED
    BY <2>1, <2>4, <2>6
<1>3. \A r \in Seq(X) : r \in H
  <2> HIDE DEF H
  <2> QED
    BY <1>1, <1>2, SeqInduction
<1> QED
  BY <1>3

\* What counts of a text, whatever the texts it is one of.
LEMMA PlainIs ==
  ASSUME NEW X, NEW t \in Seq(X)
  PROVE  Plain(t) = Only(t, X \ Punctuation) /\ Plain(t) \in Seq(X \ Punctuation)
<1>1. PICK R : R = Range(t)
  OBVIOUS
<1>2. t \in Seq(R) /\ R \subseteq X
  <2>1. t \in Seq(R)
    BY <1>1, OwnRange
  <2>2. \A i \in DOMAIN t : t[i] \in X
    OBVIOUS
  <2> QED
    BY <1>1, <2>1, <2>2 DEF Range
<1>3. Only(t, R \ Punctuation) = Only(t, X \ Punctuation)
  <2>1. \A e \in R : e \in R \ Punctuation <=> e \in X \ Punctuation
    BY <1>2
  <2> QED
    BY <1>2, <2>1, OnlySame
<1>4. Only(t, X \ Punctuation) \in Seq(X \cap (X \ Punctuation))
  BY OnlyIn
<1>5. X \cap (X \ Punctuation) = X \ Punctuation
  OBVIOUS
<1> QED
  BY <1>1, <1>3, <1>4, <1>5 DEF Plain

\* What counts of two texts side by side, and of one character.
LEMMA PlainJoin ==
  ASSUME NEW X, NEW a \in Seq(X), NEW b \in Seq(X)
  PROVE  Plain(a \o b) = Plain(a) \o Plain(b)
<1>1. PICK ab \in Seq(X) : ab = a \o b
  BY ConcatProperties
<1>2. Plain(ab) = Only(ab, X \ Punctuation)
  BY PlainIs
<1>3. Plain(a) = Only(a, X \ Punctuation) /\ Plain(b) = Only(b, X \ Punctuation)
  BY PlainIs
<1>4. Only(a \o b, X \ Punctuation) = Only(a, X \ Punctuation) \o Only(b, X \ Punctuation)
  BY OnlyConcat
<1> QED
  BY <1>1, <1>2, <1>3, <1>4

\* A character counts unless it is punctuation.
LEMMA PlainOne ==
  ASSUME NEW e PROVE Plain(<<e>>) = IF e \in Punctuation THEN <<>> ELSE <<e>>
<1> DEFINE X == {e}
<1>1. <<e>> \in Seq(X) /\ <<>> \in Seq(X) /\ Append(<<>>, e) = <<e>> /\ e \in X
  BY EmptySeq
<1> HIDE DEF X
<1>2. PICK T : T = X \ Punctuation
  OBVIOUS
<1>3. Plain(<<e>>) = Only(<<e>>, T)
  BY <1>1, <1>2, PlainIs
<1>4. PICK s \in Seq(X) : s = <<>>
  BY <1>1
<1>5. Only(Append(s, e), T) = IF e \in T THEN Append(Only(s, T), e) ELSE Only(s, T)
  BY <1>1, OnlyAppend
<1>6. Only(s, T) = <<>>
  BY <1>4, OnlyEmpty
<1>7. e \in T <=> e \notin Punctuation
  BY <1>1, <1>2
<1> QED
  BY <1>1, <1>3, <1>4, <1>5, <1>6, <1>7

\* A piece of a text is made of pieces side by side.
LEMMA CutTwo ==
  ASSUME NEW X, NEW t \in Seq(X), NEW a \in 0..Len(t), NEW b \in a..Len(t), NEW c \in b..Len(t)
  PROVE  Cut(t, a, c) = Cut(t, a, b) \o Cut(t, b, c)
<1>1. Len(t) \in Nat /\ a \in Nat /\ b \in Nat /\ c \in Nat /\ a <= b /\ b <= c /\ c <= Len(t)
  OBVIOUS
<1> DEFINE p == Cut(t, a, b)
           q == Cut(t, b, c)
           r == Cut(t, a, c)
<1>2. p \in Seq(X) /\ Len(p) = b - a /\ \A i \in 1..(b - a) : p[i] = t[a + i]
  BY Pieces
<1>3. q \in Seq(X) /\ Len(q) = c - b /\ \A i \in 1..(c - b) : q[i] = t[b + i]
  <2>1. b \in 0..Len(t)
    BY <1>1
  <2> QED
    BY <2>1, Pieces
<1>4. r \in Seq(X) /\ Len(r) = c - a /\ \A i \in 1..(c - a) : r[i] = t[a + i]
  <2>1. c \in a..Len(t)
    BY <1>1
  <2> QED
    BY <2>1, Pieces
<1> HIDE DEF p, q, r
<1>5. /\ p \o q \in Seq(X) /\ Len(p \o q) = (b - a) + (c - b)
      /\ \A i \in 1..((b - a) + (c - b)) : (p \o q)[i] = IF i <= b - a THEN p[i] ELSE q[i - (b - a)]
  <2>1. PICK m : m = b - a /\ m = Len(p)
    BY <1>2
  <2>2. PICK n : n = c - b /\ n = Len(q)
    BY <1>3
  <2>3. /\ p \o q \in Seq(X) /\ Len(p \o q) = m + n
        /\ \A i \in 1..(m + n) : (p \o q)[i] = IF i <= m THEN p[i] ELSE q[i - m]
    <3>1. /\ p \o q \in Seq(X) /\ Len(p \o q) = Len(p) + Len(q)
          /\ \A i \in 1..(Len(p) + Len(q)) : (p \o q)[i] = IF i <= Len(p) THEN p[i] ELSE q[i - Len(p)]
      BY <1>2, <1>3, ConcatProperties
    <3> QED
      BY <2>1, <2>2, <3>1
  <2> QED
    BY <2>1, <2>2, <2>3
<1>6. Len(r) = Len(p \o q)
  BY <1>1, <1>4, <1>5
<1>7. ASSUME NEW i \in 1..Len(r) PROVE r[i] = (p \o q)[i]
  <2>1. i \in 1..((b - a) + (c - b)) /\ i \in 1..(c - a) /\ i \in Nat
    BY <1>1, <1>4
  <2>2. CASE i <= b - a
    <3>1. i \in 1..(b - a)
      BY <1>1, <2>1, <2>2
    <3> QED
      BY <1>2, <1>4, <1>5, <2>1, <2>2, <3>1
  <2>3. CASE ~(i <= b - a)
    <3>1. i - (b - a) \in 1..(c - b) /\ b + (i - (b - a)) = a + i
      BY <1>1, <2>1, <2>3
    <3> QED
      BY <1>3, <1>4, <1>5, <2>1, <2>3, <3>1
  <2> QED
    BY <2>2, <2>3
<1>8. r = p \o q
  BY <1>4, <1>5, <1>6, <1>7, SeqEqual
<1> QED
  BY <1>8 DEF p, q, r

\* A piece of a piece.
LEMMA CutCut ==
  ASSUME NEW X, NEW t \in Seq(X), NEW a \in 0..Len(t), NEW b \in a..Len(t),
         NEW i \in Nat, NEW j \in Nat, i <= j, j <= b - a
  PROVE  Cut(Cut(t, a, b), i, j) = Cut(t, a + i, a + j)
<1>1. /\ Len(t) \in Nat /\ a \in Nat /\ b \in Nat /\ i \in Nat /\ j \in Nat
      /\ a <= b /\ b <= Len(t) /\ i <= j /\ j <= b - a
  OBVIOUS
<1>2. PICK w \in Seq(X) : w = Cut(t, a, b) /\ Len(w) = b - a /\ \A k \in 1..(b - a) : w[k] = t[a + k]
  BY Pieces
<1>3. PICK u \in Seq(X) : u = Cut(w, i, j) /\ Len(u) = j - i /\ \A k \in 1..(j - i) : u[k] = w[i + k]
  <2>1. i \in 0..Len(w) /\ j \in i..Len(w)
    BY <1>1, <1>2
  <2> QED
    BY <2>1, Pieces
<1>4. PICK ai \in 0..Len(t) : ai = a + i
  BY <1>1
<1>5. PICK aj \in ai..Len(t) : aj = a + j
  BY <1>1, <1>4
<1>6. PICK v \in Seq(X) : v = Cut(t, ai, aj) /\ Len(v) = aj - ai /\ \A k \in 1..(aj - ai) : v[k] = t[ai + k]
  BY Pieces
<1>7. Len(u) = Len(v)
  BY <1>1, <1>3, <1>4, <1>5, <1>6
<1>8. ASSUME NEW k \in 1..Len(u) PROVE u[k] = v[k]
  <2>1. k \in 1..(j - i) /\ i + k \in 1..(b - a) /\ k \in 1..(aj - ai) /\ a + (i + k) = ai + k
    <3>1. k \in 1..(j - i)
      BY <1>3
    <3>2. k \in Nat /\ 1 <= k /\ k <= j - i
      BY <1>1, <3>1
    <3>3. aj - ai = j - i /\ a + (i + k) = ai + k
      BY <1>1, <1>4, <1>5, <3>2
    <3>4. i + k \in 1..(b - a)
      BY <1>1, <3>2
    <3> QED
      BY <3>1, <3>3, <3>4
  <2> QED
    BY <1>2, <1>3, <1>6, <2>1
<1>9. u = v
  BY <1>7, <1>8, SeqEqual
<1> QED
  BY <1>2, <1>3, <1>4, <1>5, <1>6, <1>9

\* The pieces of one piece.
LEMMA CutsCut ==
  ASSUME NEW X, NEW t \in Seq(X), NEW a \in 0..Len(t), NEW b \in a..Len(t)
  PROVE  \A i, j \in Nat : i <= j /\ j <= b - a => Cut(Cut(t, a, b), i, j) = Cut(t, a + i, a + j)
<1> SUFFICES ASSUME NEW i \in Nat, NEW j \in Nat, i <= j, j <= b - a
             PROVE  Cut(Cut(t, a, b), i, j) = Cut(t, a + i, a + j)
  OBVIOUS
<1> QED
  BY CutCut

\* A piece of one character.
LEMMA CutOne ==
  ASSUME NEW X, NEW t \in Seq(X), NEW i \in 1..Len(t)
  PROVE  Cut(t, i - 1, i) = <<t[i]>>
<1>1. Len(t) \in Nat /\ i \in Nat /\ 1 <= i /\ i <= Len(t) /\ t[i] \in X
  BY LenProperties
<1>2. PICK j \in 0..Len(t) : j = i - 1
  BY <1>1
<1>3. i \in j..Len(t) /\ i - j = 1 /\ j + 1 = i
  BY <1>1, <1>2
<1>4. PICK p \in Seq(X) : p = Cut(t, j, i) /\ Len(p) = i - j /\ \A k \in 1..(i - j) : p[k] = t[j + k]
  <2>1. /\ Cut(t, j, i) \in Seq(X) /\ Len(Cut(t, j, i)) = i - j
        /\ \A k \in 1..(i - j) : Cut(t, j, i)[k] = t[j + k]
    BY <1>3, Pieces
  <2>2. PICK p : p = Cut(t, j, i)
    OBVIOUS
  <2> QED
    BY <2>1, <2>2
<1>5. PICK q \in Seq(X) : q = <<t[i]>> /\ Len(q) = 1 /\ q[1] = t[i]
  <2>1. PICK e \in X : e = t[i]
    BY <1>1
  <2>2. <<e>> \in Seq(X) /\ Len(<<e>>) = 1 /\ <<e>>[1] = e
    OBVIOUS
  <2> QED
    BY <2>1, <2>2
<1>6. p = q
  <2>1. Len(p) = Len(q) /\ \A k \in 1..Len(p) : k = 1
    BY <1>3, <1>4, <1>5
  <2>2. p[1] = q[1]
    BY <1>3, <1>4, <1>5
  <2> QED
    BY <2>1, <2>2, SeqEqual
<1> QED
  BY <1>2, <1>4, <1>5, <1>6

\* How many characters before a place count.
Seen(t, i) == Len(Plain(Cut(t, 0, i)))

\* It grows by a character that counts, and only by one.
LEMMA SeenStep ==
  ASSUME NEW X, NEW t \in Seq(X)
  PROVE  /\ \A i \in 0..Len(t) : Seen(t, i) \in Nat
         /\ Seen(t, 0) = 0
         /\ \A i \in 1..Len(t) : Seen(t, i) = Seen(t, i - 1) + IF t[i] \in Punctuation THEN 0 ELSE 1
<1>0. Len(t) \in Nat /\ 0 \in 0..Len(t)
  BY LenProperties
<1>1. ASSUME NEW i \in 0..Len(t) PROVE Cut(t, 0, i) \in Seq(X) /\ Plain(Cut(t, 0, i)) \in Seq(X \ Punctuation)
  <2>1. Cut(t, 0, i) \in Seq(X)
    BY <1>0, Pieces
  <2> QED
    BY <2>1, PlainIs
<1>2. \A i \in 0..Len(t) : Seen(t, i) \in Nat
  BY <1>1, LenProperties DEF Seen
<1>3. Seen(t, 0) = 0
  <2>1. PICK c \in Seq(X) : c = Cut(t, 0, 0) /\ Len(c) = 0 - 0
    BY <1>0, Pieces
  <2>2. c = <<>>
    BY <2>1, EmptySeq
  <2>3. Plain(c) = Only(<<>>, X \ Punctuation)
    BY <2>1, <2>2, PlainIs
  <2> QED
    BY <2>1, <2>2, <2>3, OnlyEmpty, EmptySeq DEF Seen
<1>4. ASSUME NEW i \in 1..Len(t)
      PROVE  Seen(t, i) = Seen(t, i - 1) + IF t[i] \in Punctuation THEN 0 ELSE 1
  <2>1. PICK j \in 0..Len(t) : j = i - 1
    BY <1>0
  <2>2. i \in j..Len(t) /\ j \in 0..Len(t) /\ i \in 0..Len(t) /\ t[i] \in X
    BY <1>0, <2>1
  <2>3. Cut(t, 0, i) = Cut(t, 0, j) \o Cut(t, j, i)
    BY <1>0, <2>2, Adjoined
  <2>4. Cut(t, j, i) = <<t[i]>> /\ <<t[i]>> \in Seq(X)
    BY <2>1, <2>2, CutOne
  <2>5. Plain(Cut(t, 0, i)) = Plain(Cut(t, 0, j)) \o Plain(<<t[i]>>)
    <3>1. PICK before \in Seq(X) : before = Cut(t, 0, j)
      BY <1>1, <2>2
    <3>2. PICK last \in Seq(X) : last = <<t[i]>>
      BY <2>4
    <3>3. Cut(t, 0, i) = before \o last
      BY <2>3, <2>4, <3>1, <3>2
    <3>4. Plain(before \o last) = Plain(before) \o Plain(last)
      BY PlainJoin
    <3> QED
      BY <3>1, <3>2, <3>3, <3>4
  <2>6. Plain(<<t[i]>>) = IF t[i] \in Punctuation THEN <<>> ELSE <<t[i]>>
    BY PlainOne
  <2>7. PICK a \in Seq(X \ Punctuation) : a = Plain(Cut(t, 0, j))
    BY <1>1, <2>2
  <2>8. PICK b \in Seq(X \ Punctuation) : b = Plain(<<t[i]>>)
    BY <2>4, PlainIs
  <2>9. Len(a \o b) = Len(a) + Len(b) /\ Len(a) \in Nat /\ Len(b) \in Nat
    BY ConcatProperties, LenProperties
  <2>10. Len(b) = IF t[i] \in Punctuation THEN 0 ELSE 1
    <3>1. Len(<<t[i]>>) = 1 /\ Len(<<>>) = 0
      BY EmptySeq
    <3> QED
      BY <2>6, <2>8, <3>1
  <2>11. Seen(t, i) = Len(a \o b) /\ Seen(t, j) = Len(a)
    BY <2>5, <2>7, <2>8 DEF Seen
  <2> QED
    BY <2>1, <2>9, <2>10, <2>11
<1> QED
  BY <1>2, <1>3, <1>4

\* What counts of a piece.
LEMMA PlainCut ==
  ASSUME NEW X, NEW t \in Seq(X), NEW a \in 0..Len(t), NEW b \in a..Len(t)
  PROVE  Cut(t, a, b) \in Seq(X) /\ Plain(Cut(t, a, b)) \in Seq(X \ Punctuation)
<1>1. Cut(t, a, b) \in Seq(X)
  BY Pieces
<1> QED
  BY <1>1, PlainIs

\* A piece that is the whole.
LEMMA CutAll == ASSUME NEW X, NEW t \in Seq(X) PROVE Cut(t, 0, Len(t)) = t
<1>1. PICK n \in 0..Len(t) : n = Len(t)
  <2>1. Len(t) \in Nat
    BY LenProperties
  <2> QED
    BY <2>1
<1>2. 0 \in 0..Len(t) /\ n \in 0..Len(t) /\ n - 0 = n /\ n \in Nat
  BY <1>1
<1>3. PICK u \in Seq(X) : u = Cut(t, 0, n) /\ Len(u) = n - 0 /\ \A i \in 1..(n - 0) : u[i] = t[0 + i]
  BY <1>2, Pieces
<1>4. Len(u) = Len(t) /\ \A i \in 1..Len(u) : u[i] = t[i]
  BY <1>1, <1>2, <1>3
<1>5. u = t
  BY <1>4, SeqEqual
<1> QED
  BY <1>1, <1>3, <1>5

\* What counts of three pieces side by side.
LEMMA PlainThree ==
  ASSUME NEW X, NEW t \in Seq(X), NEW a \in 0..Len(t), NEW b \in a..Len(t), NEW c \in b..Len(t), NEW d \in c..Len(t)
  PROVE  Plain(Cut(t, a, d)) = (Plain(Cut(t, a, b)) \o Plain(Cut(t, b, c))) \o Plain(Cut(t, c, d))
<1>1. /\ Len(t) \in Nat /\ a \in Nat /\ b \in Nat /\ c \in Nat /\ d \in Nat
      /\ a <= b /\ b <= c /\ c <= d /\ d <= Len(t)
  BY LenProperties
<1>2. b \in 0..Len(t) /\ c \in 0..Len(t) /\ d \in 0..Len(t) /\ c \in a..Len(t) /\ d \in a..Len(t)
  BY <1>1
<1>4. Cut(t, a, d) = Cut(t, a, c) \o Cut(t, c, d)
  BY <1>2, CutTwo
<1>5. Cut(t, a, c) = Cut(t, a, b) \o Cut(t, b, c)
  BY <1>2, CutTwo
<1>6. PICK p \in Seq(X) : p = Cut(t, a, b)
  BY PlainCut
<1>7. PICK q \in Seq(X) : q = Cut(t, b, c)
  BY <1>2, PlainCut
<1>8. PICK r \in Seq(X) : r = Cut(t, c, d)
  BY <1>2, PlainCut
<1>9. PICK pq \in Seq(X) : pq = p \o q
  BY ConcatProperties
<1>10. Plain(pq \o r) = Plain(pq) \o Plain(r)
  BY PlainJoin
<1>11. Plain(p \o q) = Plain(p) \o Plain(q)
  BY PlainJoin
<1>12. Cut(t, a, d) = pq \o r
  BY <1>4, <1>5, <1>6, <1>7, <1>8, <1>9
<1> QED
  BY <1>6, <1>7, <1>8, <1>9, <1>10, <1>11, <1>12

\* Every character that counts stands somewhere.
LEMMA Reached ==
  ASSUME NEW X, NEW t \in Seq(X), NEW k \in 1..Len(Plain(t))
  PROVE  \E i \in 1..Len(t) : Seen(t, i) = k /\ Seen(t, i - 1) = k - 1 /\ t[i] \notin Punctuation
<1>0. Plain(t) \in Seq(X \ Punctuation) /\ Len(Plain(t)) \in Nat /\ Len(t) \in Nat
  BY PlainIs, LenProperties
<1>1. /\ \A i \in 0..Len(t) : Seen(t, i) \in Nat
      /\ Seen(t, 0) = 0
      /\ \A i \in 1..Len(t) : Seen(t, i) = Seen(t, i - 1) + IF t[i] \in Punctuation THEN 0 ELSE 1
  BY SeenStep
<1>2. Seen(t, Len(t)) = Len(Plain(t))
  BY CutAll DEF Seen
<1> DEFINE T == {i \in 0..Len(t) : Seen(t, i) >= k}
<1>3. Len(t) \in T /\ T \in SUBSET Nat
  BY <1>0, <1>2
<1>4. PICK i \in T : \A j \in T : i <= j
  <2> HIDE DEF T
  <2> QED
    BY <1>3, Least
<1>5. i \in 1..Len(t) /\ i - 1 \in 0..Len(t)
  <2>1. i # 0
    BY <1>1
  <2> QED
    BY <1>0, <2>1
<1>6. i - 1 \notin T
  BY <1>4, <1>5
<1>7. PICK m \in Nat : m = Seen(t, i - 1)
  BY <1>1, <1>5
<1>8. PICK n \in Nat : n = Seen(t, i)
  BY <1>1, <1>5
<1>9. n >= k /\ m < k /\ n = m + IF t[i] \in Punctuation THEN 0 ELSE 1
  BY <1>0, <1>1, <1>5, <1>6, <1>7, <1>8
<1>10. n = k /\ m = k - 1 /\ t[i] \notin Punctuation
  BY <1>0, <1>9
<1> QED
  BY <1>5, <1>7, <1>8, <1>10

\* What a place stands in has the text.
LEMMA PlaceMet ==
  ASSUME NEW X, NEW t \in Seq(X), NEW a, NEW s \in Places(t, a),
         NEW lo \in 0..Len(t), NEW hi \in lo..Len(t), lo <= s[1], s[2] <= hi
  PROVE  Within(Plain(a), Plain(Cut(t, lo, hi)))
<1>1. /\ s[1] \in Nat /\ s[2] \in Nat /\ s[1] < s[2] /\ s[2] <= Len(t) /\ Len(t) \in Nat
      /\ Plain(Cut(t, s[1], s[2])) = Plain(a)
  BY LenProperties DEF Places
<1>2. PICK b \in lo..Len(t) : b = s[1]
  BY <1>1
<1>3. PICK c \in b..Len(t) : c = s[2]
  BY <1>1, <1>2
<1>4. hi \in c..Len(t) /\ lo <= b /\ b <= c /\ c <= hi
  BY <1>1, <1>2, <1>3
<1>5. PICK p \in Seq(X \ Punctuation) : p = Plain(Cut(t, lo, b))
  BY PlainCut
<1>6. PICK q \in Seq(X \ Punctuation) : q = Plain(Cut(t, b, c))
  <2>1. b \in 0..Len(t)
    BY <1>1, <1>2
  <2> QED
    BY <2>1, PlainCut
<1>7. PICK r \in Seq(X \ Punctuation) : r = Plain(Cut(t, c, hi))
  <2>1. c \in 0..Len(t)
    BY <1>1, <1>3
  <2> QED
    BY <1>4, <2>1, PlainCut
<1>8. Plain(Cut(t, lo, hi)) = (p \o q) \o r
  <2>1. Plain(Cut(t, lo, hi)) = (Plain(Cut(t, lo, b)) \o Plain(Cut(t, b, c))) \o Plain(Cut(t, c, hi))
    BY <1>4, PlainThree
  <2> QED
    BY <1>5, <1>6, <1>7, <2>1
<1>9. PICK w : w = (p \o q) \o r
  OBVIOUS
<1>10. Len(p) + Len(q) <= Len(w) /\ Cut(w, Len(p), Len(p) + Len(q)) = q
  BY <1>9, CutMiddle
<1>11. Len(p) \in Nat /\ Len(q) \in Nat /\ Len(w) \in Nat
  <2>1. p \o q \in Seq(X \ Punctuation)
    BY ConcatProperties
  <2>2. w \in Seq(X \ Punctuation)
    BY <1>9, <2>1, ConcatProperties
  <2> QED
    BY <2>2, LenProperties
<1>12. Len(p) \in 0..Len(w) - Len(q)
  BY <1>10, <1>11
<1>13. SubSeq(w, Len(p) + 1, Len(p) + Len(q)) = q
  BY <1>10 DEF Cut
<1>14. Within(q, w)
  BY <1>12, <1>13 DEF Within
<1>15. q = Plain(a)
  BY <1>1, <1>2, <1>3, <1>6
<1> QED
  BY <1>8, <1>9, <1>14, <1>15

\* A text that a piece has stands at a place in it, unless nothing of it counts.
LEMMA MetPlace ==
  ASSUME NEW X, NEW t \in Seq(X), NEW Y, NEW a \in Seq(Y), Plain(a) # <<>>,
         NEW lo \in 0..Len(t), NEW hi \in lo..Len(t), Within(Plain(a), Plain(Cut(t, lo, hi)))
  PROVE  \E s \in Places(t, a) : lo <= s[1] /\ s[2] <= hi
<1>0. Len(t) \in Nat /\ lo \in Nat /\ hi \in Nat /\ lo <= hi /\ hi <= Len(t)
  BY LenProperties
<1>35. \A bb, jj \in Nat : bb <= jj /\ jj <= hi - lo => Cut(Cut(t, lo, hi), bb, jj) = Cut(t, lo + bb, lo + jj)
  BY CutsCut
<1>1. PICK v \in Seq(X) : v = Cut(t, lo, hi) /\ Len(v) = hi - lo /\ \A i \in 1..(hi - lo) : v[i] = t[lo + i]
  <2>1. /\ Cut(t, lo, hi) \in Seq(X) /\ Len(Cut(t, lo, hi)) = hi - lo
        /\ \A i \in 1..(hi - lo) : Cut(t, lo, hi)[i] = t[lo + i]
    BY Pieces
  <2>2. PICK v : v = Cut(t, lo, hi)
    OBVIOUS
  <2> QED
    BY <2>1, <2>2
<1>2. PICK z \in Seq(X \ Punctuation) : z = Plain(v) /\ Len(z) \in Nat
  BY PlainIs, LenProperties
<1>3. PICK y \in Seq(Y \ Punctuation) : y = Plain(a) /\ Len(y) \in Nat /\ Len(y) # 0
  <2>1. PICK y \in Seq(Y \ Punctuation) : y = Plain(a)
    BY PlainIs
  <2>2. Len(y) \in Nat
    BY LenProperties
  <2> QED
    BY <2>1, <2>2, EmptySeq
<1>4. PICK n \in Nat \ {0} : n = Len(y)
  BY <1>3
<1>5. PICK p \in 0..Len(z) - n : SubSeq(z, p + 1, p + n) = y
  BY <1>1, <1>2, <1>3, <1>4 DEF Within
<1>6. p \in Nat /\ p + 1 \in 1..Len(z) /\ p + n \in 1..Len(z)
  BY <1>2, <1>4, <1>5
<1>7. PICK k \in 1..Len(Plain(v)) : k = p + 1
  BY <1>2, <1>6
<1>8. PICK l \in 1..Len(Plain(v)) : l = p + n
  BY <1>2, <1>6
<1>9. PICK i \in 1..Len(v) : Seen(v, i) = k /\ Seen(v, i - 1) = k - 1 /\ v[i] \notin Punctuation
  BY Reached
<1>10. PICK j \in 1..Len(v) : Seen(v, j) = l /\ Seen(v, j - 1) = l - 1 /\ v[j] \notin Punctuation
  BY Reached
<1>11. Len(v) \in Nat /\ i \in Nat /\ j \in Nat
  BY LenProperties
<1>12. PICK b \in 0..Len(v) : b = i - 1
  BY <1>11
<1>13. Seen(v, b) = p
  BY <1>6, <1>7, <1>9, <1>12
<1>14. b < j
  <2> SUFFICES ASSUME j <= b PROVE FALSE
    BY <1>11
  <2>1. j \in 0..Len(v) /\ b \in j..Len(v) /\ 0 \in 0..Len(v) /\ j \in 0..Len(v)
    BY <1>11
  <2>2. PICK d \in Seq(X \ Punctuation) : d = Plain(Cut(v, 0, j))
    BY <2>1, PlainCut
  <2>3. PICK e \in Seq(X \ Punctuation) : e = Plain(Cut(v, j, b))
    BY <2>1, PlainCut
  <2>4. Cut(v, 0, b) = Cut(v, 0, j) \o Cut(v, j, b)
    BY <2>1, CutTwo
  <2>5. Cut(v, 0, j) \in Seq(X) /\ Cut(v, j, b) \in Seq(X)
    BY <2>1, Pieces
  <2>6. Plain(Cut(v, 0, b)) = d \o e
    BY <2>2, <2>3, <2>4, <2>5, PlainJoin
  <2>7. Len(d \o e) = Len(d) + Len(e) /\ Len(d) \in Nat /\ Len(e) \in Nat
    BY ConcatProperties, LenProperties
  <2>8. Len(d \o e) = p
    BY <1>8, <1>10, <1>13, <2>6 DEF Seen
  <2>9. Len(d) = p + n
    BY <1>8, <1>10, <1>13, <2>2 DEF Seen
  <2> QED
    BY <1>4, <1>6, <2>7, <2>8, <2>9
<1>15. j \in b..Len(v) /\ 0 \in 0..Len(v) /\ b \in 0..Len(v) /\ j \in 0..Len(v) /\ b \in 0..Len(v)
  BY <1>11, <1>14
<1>16. PICK N \in j..Len(v) : N = Len(v)
  BY <1>11
<1>17. Plain(Cut(v, 0, N)) = (Plain(Cut(v, 0, b)) \o Plain(Cut(v, b, j))) \o Plain(Cut(v, j, N))
  BY <1>15, PlainThree
<1>18. PICK d \in Seq(X \ Punctuation) : d = Plain(Cut(v, 0, b)) /\ Len(d) = p
  <2>1. PICK d \in Seq(X \ Punctuation) : d = Plain(Cut(v, 0, b))
    BY <1>15, PlainCut
  <2> QED
    BY <1>13, <2>1 DEF Seen
<1>19. PICK e \in Seq(X \ Punctuation) : e = Plain(Cut(v, b, j))
  BY <1>15, PlainCut
<1>20. PICK f \in Seq(X \ Punctuation) : f = Plain(Cut(v, j, N))
  BY <1>15, PlainCut
<1>21. Cut(v, 0, N) = v
  BY <1>16, CutAll
<1>22. z = (d \o e) \o f
  BY <1>2, <1>17, <1>18, <1>19, <1>20, <1>21
<1>23. Cut(z, Len(d), Len(d) + Len(e)) = e
  BY <1>22, CutMiddle
<1>24. Len(d) + Len(e) = p + n
  <2>1. Cut(v, 0, j) = Cut(v, 0, b) \o Cut(v, b, j)
    BY <1>15, CutTwo
  <2>2. Cut(v, 0, b) \in Seq(X) /\ Cut(v, b, j) \in Seq(X)
    BY <1>15, Pieces
  <2>3. Plain(Cut(v, 0, j)) = d \o e
    BY <1>18, <1>19, <2>1, <2>2, PlainJoin
  <2>4. Len(d \o e) = Len(d) + Len(e)
    BY ConcatProperties
  <2>5. Len(d \o e) = p + n
    BY <1>8, <1>10, <2>3 DEF Seen
  <2> QED
    BY <2>4, <2>5
<1>25. e = y
  <2>1. Cut(z, p, p + n) = e
    BY <1>18, <1>23, <1>24
  <2>2. Cut(z, p, p + n) = y
    BY <1>5 DEF Cut
  <2> QED
    BY <2>1, <2>2
<1>28. Cut(v, b, j) = Cut(t, lo + b, lo + j)
  <2>1. b \in Nat /\ j \in Nat /\ b <= j /\ j <= hi - lo
    BY <1>1, <1>11, <1>14
  <2>2. Cut(Cut(t, lo, hi), b, j) = Cut(t, lo + b, lo + j)
    BY <1>35, <2>1
  <2> QED
    BY <1>1, <2>2
<1>29. Plain(Cut(t, lo + b, lo + j)) = Plain(a)
  BY <1>3, <1>19, <1>25, <1>28
<1>30. /\ lo + b \in 0..Len(t) - 1 /\ lo + j \in 1..Len(t) /\ lo + b < lo + j
       /\ (lo + b) + 1 = lo + i /\ lo <= lo + b /\ lo + j <= hi
       /\ i \in 1..(hi - lo) /\ j \in 1..(hi - lo)
  <2>1. PICK m \in Nat : m = Len(v) /\ m = hi - lo
    BY <1>1, <1>11
  <2>2. i \in 1..m /\ j \in 1..m
    BY <2>1
  <2>3. b \in Nat /\ b = i - 1 /\ b < j
    BY <1>11, <1>12, <1>14
  <2>4. PICK L \in Nat : L = Len(t)
    BY <1>0
  <2>5. lo \in Nat /\ hi \in Nat /\ hi <= L /\ m = hi - lo
    BY <1>0, <2>1, <2>4
  <2>6. lo + b \in Nat /\ lo + j \in Nat /\ lo + b < lo + j /\ (lo + b) + 1 = lo + i /\ lo <= lo + b
    BY <2>2, <2>3, <2>5
  <2>7. lo + j <= hi /\ lo + b < L /\ 1 <= lo + j
    BY <2>2, <2>3, <2>5
  <2>8. lo + b \in 0..L - 1 /\ lo + j \in 1..L
    <3>1. PICK left \in Nat : left = lo + b
      BY <2>6
    <3>2. PICK right \in Nat : right = lo + j
      BY <2>6
    <3>3. left < L /\ right <= L /\ 1 <= right
      BY <2>4, <2>5, <2>7, <3>1, <3>2
    <3>4. left \in 0..L - 1 /\ right \in 1..L
      BY <3>3
    <3> QED
      BY <3>1, <3>2, <3>4
  <2> QED
    BY <2>1, <2>2, <2>4, <2>6, <2>7, <2>8
<1>31. t[(lo + b) + 1] \notin Punctuation /\ t[lo + j] \notin Punctuation
  BY <1>1, <1>9, <1>10, <1>30
<1>32. PICK x \in 0..Len(t) - 1 : x = lo + b
  BY <1>30
<1>33. PICK w \in 1..Len(t) : w = lo + j
  BY <1>30
<1>34. <<x, w>> \in Places(t, a)
  BY <1>29, <1>30, <1>31, <1>32, <1>33 DEF Places
<1> QED
  BY <1>30, <1>32, <1>33, <1>34

\* Where a sentence lies.
LEMMA SentenceIn ==
  ASSUME NEW X, NEW t \in Seq(X), NEW s \in Sentences(t)
  PROVE  s[1] \in 0..Len(t) /\ s[2] \in s[1]..Len(t)
<1>0. PICK n \in Nat : n = Len(t)
  BY LenProperties
<1>1. PICK i \in Ends(t) : s = <<Max({0} \cup {j \in Ends(t) : j < i}), i>>
  BY DEF Sentences
<1>2. Ends(t) \subseteq 1..n
  BY <1>0 DEF Ends
<1> DEFINE T == {0} \cup {j \in Ends(t) : j < i}
<1>3. T \in SUBSET (0..n) /\ T # {} /\ \A x \in T : x <= i
  BY <1>0, <1>1, <1>2
<1>4. PICK m \in T : m = Max(T)
  <2> HIDE DEF T
  <2> QED
    BY <1>0, <1>3, Extremes
<1>5. m \in 0..n /\ m <= i /\ i \in 1..n
  BY <1>1, <1>2, <1>3, <1>4
<1>6. s[1] = m /\ s[2] = i
  BY <1>1, <1>4
<1>7. i \in m..n
  BY <1>0, <1>5
<1> QED
  BY <1>0, <1>5, <1>6, <1>7

\* What a candidate is: a piece of the text, with a place in it of all it has met.
Candidate(c, t, as) ==
    /\ c.lo \in 0..Len(t) /\ c.hi \in c.lo..Len(t) /\ c.met \subseteq DOMAIN as
    /\ \A i \in c.met : \E p \in Places(t, as[i].text) : Inside(p, c.lo, c.hi)

\* A sentence is one.
LEMMA SentenceCandidate ==
  ASSUME NEW X, NEW t \in Seq(X), NEW as, NEW c \in BySentence(t, as)
  PROVE  Candidate(c, t, as)
<1>1. PICK s \in Sentences(t) :
        c = [lo |-> s[1], hi |-> s[2],
             met |-> {i \in DOMAIN as : \E p \in Places(t, as[i].text) : Inside(p, s[1], s[2])}]
  BY DEF BySentence
<1>2. s[1] \in 0..Len(t) /\ s[2] \in s[1]..Len(t)
  BY SentenceIn
<1> QED
  BY <1>1, <1>2 DEF Candidate

\* The greatest of two numbers and 0.
LEMMA OfThree ==
  ASSUME NEW a \in Int, NEW b \in Int
  PROVE  Max({a, b, 0}) \in Nat
<1> DEFINE T == {a, b, 0}
<1>1. PICK m \in Int : m = IF a <= b THEN b ELSE a
  OBVIOUS
<1>2. PICK n \in Int : n = IF m <= 0 THEN 0 ELSE m
  OBVIOUS
<1>3. n \in T /\ \A y \in T : n >= y
  BY <1>1, <1>2
<1>4. Max(T) \in T /\ \A y \in T : Max(T) >= y
  <2> HIDE DEF T
  <2> QED
    BY <1>3 DEF Max
<1>5. PICK k \in T : k = Max(T)
  BY <1>4
<1>6. k \in Int /\ k >= 0
  BY <1>4, <1>5
<1> QED
  BY <1>5, <1>6

\* Of the places that are nearest, the first one is there.
LEMMA NearestIs ==
  ASSUME NEW T, NEW gap \in [T -> Nat], T # {}, \A p \in T : p[1] \in Nat
  PROVE  \E p \in T : \A q \in T : gap[p] < gap[q] \/ (gap[p] = gap[q] /\ p[1] <= q[1])
<1> DEFINE G == {gap[p] : p \in T}
<1>1. G \in SUBSET Nat /\ G # {}
  OBVIOUS
<1>2. PICK g \in G : \A h \in G : g <= h
  <2> HIDE DEF G
  <2> QED
    BY <1>1, Least
<1> DEFINE U == {p \in T : gap[p] = g}
           F == {p[1] : p \in U}
<1>3. U # {} /\ F \in SUBSET Nat /\ F # {}
  OBVIOUS
<1>4. PICK x \in F : \A y \in F : x <= y
  <2> HIDE DEF F
  <2> QED
    BY <1>3, Least
<1>5. PICK p \in U : p[1] = x
  OBVIOUS
<1>6. ASSUME NEW q \in T PROVE gap[p] < gap[q] \/ (gap[p] = gap[q] /\ p[1] <= q[1])
  <2>1. gap[p] = g /\ gap[q] \in G /\ g \in Nat /\ gap[q] \in Nat
    BY <1>1, <1>5
  <2>2. g <= gap[q]
    BY <1>2, <2>1
  <2>3. CASE gap[q] = g
    <3>1. q[1] \in F
      BY <2>3
    <3> QED
      BY <1>4, <1>5, <2>1, <2>3, <3>1
  <2>4. CASE gap[q] # g
    BY <2>1, <2>2, <2>4
  <2> QED
    BY <2>3, <2>4
<1> QED
  BY <1>5, <1>6

CandidateSet(t, as) == {c \in [lo : Nat, hi : Nat, met : SUBSET DOMAIN as] : Candidate(c, t, as)}
Gap(c, p) == Max({p[1] - c.hi, c.lo - p[2], 0})
Wider(c, i, p) == [lo |-> Min({c.lo, p[1]}), hi |-> Max({c.hi, p[2]}), met |-> c.met \cup {i}]

\* A candidate with one more place taken in is one.
LEMMA WiderCandidate ==
  ASSUME NEW X, NEW t \in Seq(X), NEW as, NEW i \in DOMAIN as, NEW c \in CandidateSet(t, as),
         NEW p \in Places(t, as[i].text)
  PROVE  Wider(c, i, p) \in CandidateSet(t, as)
<1>0. PICK n \in Nat : n = Len(t)
  BY LenProperties
<1>1. /\ p[1] \in Nat /\ p[2] \in Nat /\ p[1] <= p[2] /\ p[2] <= n
  BY <1>0 DEF Places
<1>2. /\ c.lo \in Nat /\ c.hi \in Nat /\ c.met \in SUBSET DOMAIN as
      /\ c.lo <= c.hi /\ c.hi <= n
      /\ \A j \in c.met : \E q \in Places(t, as[j].text) : Inside(q, c.lo, c.hi)
  <2>1. c \in [lo : Nat, hi : Nat, met : SUBSET DOMAIN as] /\ Candidate(c, t, as)
    BY DEF CandidateSet
  <2>2. c.lo \in Nat /\ c.hi \in Nat /\ c.met \in SUBSET DOMAIN as
    BY <2>1
  <2>3. c.lo \in 0..n /\ c.hi \in c.lo..n
    BY <1>0, <2>1 DEF Candidate
  <2>4. \A j \in c.met : \E q \in Places(t, as[j].text) : Inside(q, c.lo, c.hi)
    BY <2>1 DEF Candidate
  <2>5. c.lo <= c.hi /\ c.hi <= n
    BY <2>2, <2>3
  <2> QED
    BY <2>2, <2>4, <2>5
<1>b. PICK l \in Int, h \in Int, x \in Int, y \in Int : l = c.lo /\ h = c.hi /\ x = p[1] /\ y = p[2]
  BY <1>1, <1>2
<1>3. PICK lo \in Nat : lo = Min({c.lo, p[1]}) /\ lo <= c.lo /\ lo <= p[1]
  <2>1. Min({l, x}) = IF l <= x THEN l ELSE x
    BY OfTwo
  <2> QED
    BY <1>1, <1>2, <1>b, <2>1
<1>4. PICK hi \in Nat : hi = Max({c.hi, p[2]}) /\ c.hi <= hi /\ p[2] <= hi /\ hi <= n
  <2>1. Max({h, y}) = IF h <= y THEN y ELSE h
    BY OfTwo
  <2> QED
    BY <1>1, <1>2, <1>b, <2>1
<1>5. PICK w : w = Wider(c, i, p)
  OBVIOUS
<1>6. w.lo = lo /\ w.hi = hi /\ w.met = c.met \cup {i} /\ w \in [lo : Nat, hi : Nat, met : SUBSET DOMAIN as]
  BY <1>2, <1>3, <1>4, <1>5 DEF Wider
<1>7. ASSUME NEW j \in w.met PROVE \E q \in Places(t, as[j].text) : Inside(q, lo, hi)
  <2>1. CASE j = i
    BY <1>1, <1>3, <1>4, <2>1 DEF Inside
  <2>2. CASE j \in c.met
    <3>1. PICK q \in Places(t, as[j].text) : c.lo <= q[1] /\ q[2] <= c.hi
      BY <1>2, <2>2 DEF Inside
    <3>2. q[1] \in Nat /\ q[2] \in Nat
      BY <1>0 DEF Places
    <3>3. lo <= q[1] /\ q[2] <= hi
      BY <1>2, <1>3, <1>4, <3>1, <3>2
    <3> QED
      BY <3>3 DEF Inside
  <2> QED
    BY <1>6, <2>1, <2>2
<1>8. lo \in 0..n /\ hi \in lo..n
  BY <1>1, <1>2, <1>3, <1>4
<1>9. Candidate(w, t, as)
  BY <1>0, <1>2, <1>6, <1>7, <1>8 DEF Candidate
<1> QED
  BY <1>5, <1>6, <1>9 DEF CandidateSet

\* What is taken in around a place is a candidate.
LEMMA AroundCandidate ==
  ASSUME NEW X, NEW t \in Seq(X), NEW A, NEW as \in Seq(A), NEW k \in DOMAIN as, NEW place \in Places(t, as[k].text)
  PROVE  Candidate(Around(t, as, k, place), t, as)
<1> DEFINE N == Len(as)
           S == CandidateSet(t, as)
           base == [lo |-> place[1], hi |-> place[2], met |-> {k}]
           Nearest(c, i) ==
             LET ps == Places(t, as[i].text)
             IN CHOOSE p \in ps : \A q \in ps : Gap(c, p) < Gap(c, q) \/ (Gap(c, p) = Gap(c, q) /\ p[1] <= q[1])
           Take(c, i) ==
             IF i = k \/ Places(t, as[i].text) = {} THEN c
             ELSE LET p == Nearest(c, i)
                      lo == Min({c.lo, p[1]})
                      hi == Max({c.hi, p[2]})
                  IN IF hi - lo <= MaxSpan THEN [lo |-> lo, hi |-> hi, met |-> c.met \cup {i}] ELSE c
           Step(h, i) == IF i = 0 THEN base ELSE Take(h[i - 1], i)
           Fun(h) == h = [i \in 0..N |-> Step(h, i)]
           G == [n \in 1..N |-> [c \in S |-> Take(c, n)]]
           u == CHOOSE h : Fun(h)
<1>0. N \in Nat /\ DOMAIN as = 1..N
  BY LenProperties
<1>1. Around(t, as, k, place) = u[N]
  BY Zenon DEF Around, Gap
<1>2. base \in S
  <2>1. PICK n \in Nat : n = Len(t)
    BY LenProperties
  <2>2. place[1] \in Nat /\ place[2] \in Nat /\ place[1] <= place[2] /\ place[2] <= n
    BY <2>1 DEF Places
  <2>3. place[1] \in 0..n /\ place[2] \in place[1]..n /\ Inside(place, place[1], place[2])
    BY <2>2 DEF Inside
  <2> QED
    BY <2>1, <2>2, <2>3 DEF CandidateSet, Candidate
<1>3. ASSUME NEW c \in S, NEW i \in 1..N PROVE Take(c, i) \in S
  <2> SUFFICES ASSUME i # k, Places(t, as[i].text) # {} PROVE Take(c, i) \in S
    BY <1>3
  <2> DEFINE ps == Places(t, as[i].text)
  <2>1. Nearest(c, i) \in ps
    <3>1. \A p \in ps : Gap(c, p) \in Nat /\ p[1] \in Nat
      <4> TAKE p \in ps
      <4>1. p[1] \in Nat /\ p[2] \in Nat /\ c.lo \in Nat /\ c.hi \in Nat
        <5>1. PICK n \in Nat : n = Len(t)
          BY LenProperties
        <5> QED
          BY <5>1 DEF Places, CandidateSet
      <4>2. p[1] - c.hi \in Int /\ c.lo - p[2] \in Int
        BY <4>1
      <4> QED
        BY <4>1, <4>2, OfThree DEF Gap
    <3>2. PICK gap : gap = [p \in ps |-> Gap(c, p)]
      OBVIOUS
    <3>3. gap \in [ps -> Nat] /\ \A p \in ps : p[1] \in Nat
      BY <3>1, <3>2
    <3>4. PICK p \in ps : \A q \in ps : gap[p] < gap[q] \/ (gap[p] = gap[q] /\ p[1] <= q[1])
      <4>1. PICK T : T = ps
        OBVIOUS
      <4>2. gap \in [T -> Nat] /\ T # {} /\ \A p \in T : p[1] \in Nat
        BY <3>3, <4>1
      <4>3. \E p \in T : \A q \in T : gap[p] < gap[q] \/ (gap[p] = gap[q] /\ p[1] <= q[1])
        BY <4>2, NearestIs
      <4> QED
        BY <4>1, <4>3
    <3>5. \A q \in ps : Gap(c, p) < Gap(c, q) \/ (Gap(c, p) = Gap(c, q) /\ p[1] <= q[1])
      BY <3>2, <3>4
    <3> HIDE DEF ps
    <3> QED
      BY <3>4, <3>5 DEF ps
  <2>2. PICK p \in ps : p = Nearest(c, i)
    <3> HIDE DEF Nearest, ps
    <3> QED
      BY <2>1
  <2>3. Wider(c, i, p) \in S
    BY <1>0, WiderCandidate
  <2>4. Take(c, i) = IF Max({c.hi, p[2]}) - Min({c.lo, p[1]}) <= MaxSpan THEN Wider(c, i, p) ELSE c
    <3> HIDE DEF Nearest
    <3> QED
      BY <2>2 DEF Wider
  <2> HIDE DEF Take, S
  <2> QED
    BY <2>3, <2>4
<1> HIDE DEF N, S, base, Take
<1>4. PICK f : Recursive(f, S, base, N, G)
  <2>1. Closed(S, N, G)
    BY <1>3 DEF Closed
  <2> HIDE DEF G
  <2> QED
    BY <1>0, <1>2, <2>1, Recursion
<1>5. \A n \in 0..N : f[n] = Step(f, n)
  <2> TAKE n \in 0..N
  <2>1. n = 0 \/ (n \in 1..N /\ n - 1 \in 0..N)
    BY <1>0
  <2> QED
    BY <1>4, <2>1 DEF Recursive
<1>6. Fun(f)
  <2> HIDE DEF Step
  <2> QED
    BY <1>4, <1>5 DEF Recursive
<1>7. Fun(u)
  <2> HIDE DEF Fun
  <2> QED
    BY <1>6, Zenon
<1> HIDE DEF u
<1>8. \A n \in 0..N : u[n] = Step(u, n)
  <2> HIDE DEF Step
  <2> QED
    BY <1>7
<1> DEFINE H == {n \in 0..N : u[n] \in S}
<1>9. 0 \in H
  <2>1. 0 \in 0..N
    BY <1>0
  <2> QED
    BY <1>2, <1>8, <2>1
<1>10. ASSUME NEW n \in 0..N, n \in H, n # N PROVE n + 1 \in H
  <2>1. n + 1 \in 1..N /\ n + 1 \in 0..N /\ (n + 1) - 1 = n /\ n + 1 # 0
    BY <1>0, <1>10
  <2>2. u[n + 1] = Take(u[n], n + 1)
    BY <1>8, <2>1
  <2>3. u[n] \in S
    BY <1>10
  <2> QED
    BY <1>3, <2>1, <2>2, <2>3
<1>11. N \in H
  <2>1. N \in 0..N
    BY <1>0
  <2> HIDE DEF H
  <2> QED
    BY <1>0, <1>9, <1>10, <2>1, UpTo
<1>12. u[N] \in S
  BY <1>11
<1> QED
  BY <1>1, <1>12 DEF S, CandidateSet

\* Every candidate is one.
LEMMA CandidatesAre ==
  ASSUME NEW X, NEW t \in Seq(X), NEW A, NEW as \in Seq(A), NEW c \in Candidates(t, as)
  PROVE  Candidate(c, t, as)
<1>1. CASE c \in BySentence(t, as)
  BY <1>1, SentenceCandidate
<1>2. CASE c \in UNION {{Around(t, as, k, p) : p \in Places(t, as[k].text)} : k \in DOMAIN as}
  <2>1. PICK k \in DOMAIN as : \E p \in Places(t, as[k].text) : c = Around(t, as, k, p)
    BY <1>2
  <2> QED
    BY <2>1, AroundCandidate
<1> QED
  BY <1>1, <1>2 DEF Candidates

\* A product of counts is one.
LEMMA Product == ASSUME NEW m \in Nat, NEW n \in Nat PROVE m * n \in Nat
OBVIOUS

\* The best of the candidates that prove a claim is there if there is any.
LEMMA BestProof ==
  ASSUME NEW X, NEW t \in Seq(X), NEW A, NEW as \in Seq(A), as # <<>>,
         NEW c \in Candidates(t, as), Proves(c, as)
  PROVE  Proofs(t, as) # {}
<1> DEFINE good == {d \in Candidates(t, as) : Proves(d, as)}
           Score(d) == 100 * Cardinality(d.met) - (d.hi - d.lo) * Len(as)
<1>0. PICK N \in Nat : N = Len(as) /\ DOMAIN as = 1..N
  BY LenProperties
<1>1. ASSUME NEW d \in good PROVE Score(d) \in Int /\ 100 * N - Score(d) \in Nat
  <2>1. Candidate(d, t, as)
    BY CandidatesAre
  <2>2. PICK k \in Nat : k = Cardinality(d.met) /\ k <= N
    <3>1. IsFiniteSet(1..N) /\ Cardinality(1..N) = N
      <4>1. PICK one \in Int : one = 1
        OBVIOUS
      <4>2. IsFiniteSet(one..N) /\ Cardinality(one..N) = IF one > N THEN 0 ELSE N - one + 1
        BY FS_Interval
      <4> QED
        BY <4>1, <4>2
    <3>2. d.met \subseteq 1..N
      BY <1>0, <2>1 DEF Candidate
    <3> QED
      BY <3>1, <3>2, FS_Subset, FS_CardinalityType
  <2>3. PICK w \in Nat : w = d.hi - d.lo
    <3>1. PICK n \in Nat : n = Len(t)
      BY LenProperties
    <3>2. d.lo \in 0..n /\ d.hi \in d.lo..n
      BY <2>1, <3>1 DEF Candidate
    <3> QED
      BY <3>2
  <2>4. PICK m \in Nat : m = w * N
    BY Product
  <2>5. Score(d) = 100 * k - m
    BY <1>0, <2>2, <2>3, <2>4
  <2>6. 100 * k - m \in Int /\ 100 * N - (100 * k - m) \in Nat
    BY <2>2
  <2> HIDE DEF Score
  <2> QED
    BY <2>5, <2>6
<1> HIDE DEF Score
<1> DEFINE R == {100 * N - Score(d) : d \in good}
<1>2. R \in SUBSET Nat /\ R # {}
  <2>1. c \in good
    OBVIOUS
  <2> HIDE DEF good
  <2> QED
    BY <1>1, <2>1
<1>3. PICK r \in R : \A q \in R : r <= q
  <2> HIDE DEF R
  <2> QED
    BY <1>2, Least
<1>4. PICK d \in good : r = 100 * N - Score(d)
  <2> HIDE DEF good
  <2> QED
    BY <1>3
<1>5. ASSUME NEW e \in good PROVE Score(e) <= Score(d)
  <2>1. PICK x \in Int : x = Score(e)
    BY <1>1
  <2>2. PICK y \in Int : y = Score(d)
    BY <1>1
  <2>3. 100 * N - y <= 100 * N - x
    <3>1. 100 * N - Score(e) \in R
      OBVIOUS
    <3> HIDE DEF R
    <3> QED
      BY <1>3, <1>4, <2>1, <2>2, <3>1
  <2>4. x <= y
    BY <2>3
  <2> QED
    BY <2>1, <2>2, <2>4
<1>6. Proofs(t, as) = {<<x.lo, x.hi>> : x \in {y \in good : \A e \in good : Score(e) <= Score(y)}}
  BY DEF Proofs, Score
<1>7. d \in {y \in good : \A e \in good : Score(e) <= Score(y)}
  <2> HIDE DEF good
  <2> QED
    BY <1>4, <1>5
<1> HIDE DEF good
<1>8. <<d.lo, d.hi>> \in Proofs(t, as)
  BY <1>6, <1>7
<1> QED
  BY <1>8

\* What a proof is.
LEMMA ProofIs ==
  ASSUME NEW t, NEW as, NEW s \in Proofs(t, as)
  PROVE  \E c \in Candidates(t, as) : Proves(c, as) /\ s = <<c.lo, c.hi>>
BY DEF Proofs

\* What Only keeps is all there is of it.
LEMMA OnlyRange ==
  ASSUME NEW X, NEW T, NEW s \in Seq(X)
  PROVE  Range(Only(s, T)) = Range(s) \cap T
<1> DEFINE H == {r \in Seq(X) : Range(Only(r, T)) = Range(r) \cap T}
<1>1. <<>> \in H
  <2>1. Only(<<>>, T) = <<>> /\ <<>> \in Seq(X) /\ Range(<<>>) = {}
    BY OnlyEmpty, EmptySeq DEF Range
  <2> QED
    BY <2>1
<1>2. ASSUME NEW r \in Seq(X), NEW e \in X, r \in H PROVE Append(r, e) \in H
  <2>1. Append(r, e) \in Seq(X) /\ Range(Only(r, T)) = Range(r) \cap T /\ Only(r, T) \in Seq(X)
    BY <1>2, AppendProperties, OnlyAppend
  <2>2. ASSUME NEW q \in Seq(X) PROVE Range(Append(q, e)) = Range(q) \cup {e}
    <3>1. PICK n \in Nat : n = Len(q)
      BY LenProperties
    <3>2. PICK p \in Seq(X) : p = Append(q, e) /\ Len(p) = n + 1 /\ p[n + 1] = e /\ \A i \in 1..n : p[i] = q[i]
      <4>1. /\ Append(q, e) \in Seq(X) /\ Len(Append(q, e)) = Len(q) + 1
            /\ \A i \in 1..Len(q) : Append(q, e)[i] = q[i]
            /\ Append(q, e)[Len(q) + 1] = e
        BY AppendProperties
      <4> QED
        BY <3>1, <4>1
    <3>3. DOMAIN q = 1..n /\ DOMAIN p = 1..(n + 1)
      BY <3>1, <3>2, LenProperties
    <3>4. \A i \in 1..(n + 1) : i \in 1..n \/ i = n + 1
      OBVIOUS
    <3>5. \A i \in 1..n : i \in 1..(n + 1)
      OBVIOUS
    <3>6. n + 1 \in 1..(n + 1)
      OBVIOUS
    <3>7. Range(p) = Range(q) \cup {e}
      BY <3>2, <3>3, <3>4, <3>5, <3>6 DEF Range
    <3> QED
      BY <3>2, <3>7
  <2>3. Only(Append(r, e), T) = IF e \in T THEN Append(Only(r, T), e) ELSE Only(r, T)
    BY OnlyAppend
  <2>4. PICK p \in Seq(X) : p = Append(r, e)
    BY <2>1
  <2>5. PICK o \in Seq(X) : o = Only(r, T)
    BY <2>1
  <2>6. Range(p) = Range(r) \cup {e} /\ Range(Append(o, e)) = Range(o) \cup {e}
    BY <2>2, <2>4
  <2>7. Range(Only(p, T)) = Range(p) \cap T
    <3>1. CASE e \in T
      BY <2>1, <2>3, <2>4, <2>5, <2>6, <3>1
    <3>2. CASE e \notin T
      BY <2>1, <2>3, <2>4, <2>5, <2>6, <3>2
    <3> QED
      BY <3>1, <3>2
  <2> QED
    BY <2>4, <2>7
<1>3. \A r \in Seq(X) : r \in H
  <2> HIDE DEF H
  <2> QED
    BY <1>1, <1>2, SeqInduction
<1> QED
  BY <1>3

\* Where the elements of two sequences stand in their concatenation.
LEMMA ConcatAt ==
  ASSUME NEW X, NEW a \in Seq(X), NEW b \in Seq(X)
  PROVE  /\ a \o b \in Seq(X) /\ Len(a \o b) = Len(a) + Len(b)
         /\ \A i \in 1..Len(a) : (a \o b)[i] = a[i]
         /\ \A i \in 1..Len(b) : (a \o b)[Len(a) + i] = b[i]
<1>1. PICK m \in Nat : m = Len(a)
  BY LenProperties
<1>2. PICK n \in Nat : n = Len(b)
  BY LenProperties
<1>3. /\ a \o b \in Seq(X) /\ Len(a \o b) = Len(a) + Len(b)
      /\ \A i \in 1..(Len(a) + Len(b)) : (a \o b)[i] = IF i <= Len(a) THEN a[i] ELSE b[i - Len(a)]
  BY ConcatProperties
<1>4. ASSUME NEW i \in 1..m PROVE (a \o b)[i] = a[i]
  <2>1. i \in 1..(m + n) /\ i <= m
    OBVIOUS
  <2> QED
    BY <1>1, <1>2, <1>3, <2>1
<1>5. ASSUME NEW i \in 1..n PROVE (a \o b)[m + i] = b[i]
  <2>1. m + i \in 1..(m + n) /\ ~(m + i <= m) /\ (m + i) - m = i
    OBVIOUS
  <2> QED
    BY <1>1, <1>2, <1>3, <2>1
<1> QED
  BY <1>1, <1>2, <1>3, <1>4, <1>5

\* A text a claim may be proved by, and the list of them: names, verbs, the quote and
\* the value.
Anchor(t, hard, group) == [text |-> t, hard |-> hard, group |-> group]
AnchorList(all, sur, c) ==
    LET m == Len(sur) + Len(c.verbs)
    IN /\ Len(all) \in Nat /\ DOMAIN all = 1..Len(all) /\ m <= Len(all)
       /\ \A i \in 1..Len(sur) : all[i] = Anchor(sur[i], TRUE, Null)
       /\ \A i \in 1..Len(c.verbs) : all[Len(sur) + i] = Anchor(c.verbs[i], TRUE, "verbs")
       /\ Quotes(c) => m + 1 <= Len(all) /\ all[m + 1] = Anchor(c.quote, TRUE, Null)
       /\ \A i \in 1..Len(all) : m < i =>
            \/ all[i] = Anchor(c.value, FALSE, Null)
            \/ i = m + 1 /\ Quotes(c) /\ all[i] = Anchor(c.quote, TRUE, Null)
FirstOf(all) == {i \in DOMAIN all : all[i].text # <<>> /\ \A j \in 1..i - 1 : all[j].text # all[i].text}
SurfaceIn(M, m) == (CHOOSE x \in M : x.id = m).surface
SurfacesOf(c, M) == [i \in DOMAIN Only(c.names, {x.id : x \in M}) |-> SurfaceIn(M, Only(c.names, {x.id : x \in M})[i])]
LongOf(t, hard) == IF Len(t) >= 2 THEN <<Anchor(t, hard, Null)>> ELSE <<>>

\* A text that is listed is listed first somewhere.
LEMMA FirstThere ==
  ASSUME NEW all, NEW n \in Nat, DOMAIN all = 1..n, NEW i \in 1..n, all[i].text # <<>>
  PROVE  \E j \in FirstOf(all) : j <= i /\ all[j].text = all[i].text
<1> DEFINE T == {j \in 1..n : all[j].text = all[i].text}
<1>1. T \in SUBSET Nat /\ i \in T
  OBVIOUS
<1>2. PICK j \in T : \A k \in T : j <= k
  <2> HIDE DEF T
  <2> QED
    BY <1>1, Least
<1>3. ASSUME NEW k \in 1..j - 1 PROVE all[k].text # all[j].text
  <2>1. k \in 1..n /\ ~(j <= k)
    OBVIOUS
  <2>2. k \notin T
    <3> HIDE DEF T
    <3> QED
      BY <1>2, <2>1
  <2> QED
    BY <2>1, <2>2
<1>4. j \in FirstOf(all)
  BY <1>3 DEF FirstOf
<1> QED
  BY <1>1, <1>2, <1>4

\* A function on the numbers up to n is a sequence.
LEMMA ListIs ==
  ASSUME NEW A, NEW n \in Nat, NEW p, p = [i \in 1..n |-> p[i]], \A i \in 1..n : p[i] \in A
  PROVE  p \in Seq(A) /\ Len(p) = n
<1>1. p \in [1..n -> A]
  OBVIOUS
<1> QED
  BY <1>1

\* The anchors of a claim are the first of each text of such a list.
LEMMA AnchorsAre ==
  ASSUME NEW c, NEW M, NEW Z, c.names \in Seq(Z), NEW V, c.verbs \in Seq(V)
  PROVE  \E all, A :
           /\ AnchorList(all, SurfacesOf(c, M), c)
           /\ Anchors(c, M) \in Seq(A)
           /\ Range(Anchors(c, M)) = {all[i] : i \in FirstOf(all)}
<1> DEFINE named == Only(c.names, {x.id : x \in M})
           sur == SurfacesOf(c, M)
           P == [i \in DOMAIN named |-> Anchor(SurfaceIn(M, named[i]), TRUE, Null)]
           V0 == [i \in DOMAIN c.verbs |-> Anchor(c.verbs[i], TRUE, "verbs")]
           Q == LongOf(c.quote, TRUE)
           L == LongOf(c.value, FALSE)
           all == P \o V0 \o Q \o L
           kept == Only([i \in DOMAIN all |-> i], FirstOf(all))
           A == Range(P) \cup Range(V0) \cup {Anchor(c.quote, TRUE, Null), Anchor(c.value, FALSE, Null)}
<1>1. Anchors(c, M) = [k \in DOMAIN kept |-> all[kept[k]]]
  BY Zenon DEF Anchors, Anchor, SurfaceIn, LongOf, FirstOf
<1>2. PICK n \in Nat : n = Len(named) /\ DOMAIN named = 1..n
  <2>1. named \in Seq(Z)
    BY OnlySeq
  <2> HIDE DEF named
  <2> QED
    BY <2>1, LenProperties
<1>3. PICK v \in Nat : v = Len(c.verbs) /\ DOMAIN c.verbs = 1..v
  BY LenProperties
<1>4. sur = [i \in 1..n |-> SurfaceIn(M, named[i])]
  BY <1>2 DEF SurfacesOf
<1>5. Len(sur) = n
  BY <1>4
<1>6. P \in Seq(A) /\ Len(P) = n /\ \A i \in 1..n : P[i] = Anchor(sur[i], TRUE, Null)
  <2>1. P = [i \in 1..n |-> Anchor(sur[i], TRUE, Null)]
    BY <1>2, <1>4
  <2>2. \A i \in 1..n : P[i] \in A
    BY <1>2 DEF Range
  <2>3. PICK B : B = A
    OBVIOUS
  <2>4. PICK p : p = P
    OBVIOUS
  <2>5. p = [i \in 1..n |-> p[i]] /\ \A i \in 1..n : p[i] \in B
    <3> HIDE DEF P, A, sur
    <3> QED
      BY <2>1, <2>2, <2>3, <2>4
  <2>6. p \in Seq(B) /\ Len(p) = n
    BY <2>5, ListIs
  <2>7. \A i \in 1..n : P[i] = Anchor(sur[i], TRUE, Null)
    <3> HIDE DEF P, sur
    <3> QED
      BY <2>1
  <2> HIDE DEF P, A, sur
  <2> QED
    BY <2>3, <2>4, <2>6, <2>7
<1>7. V0 \in Seq(A) /\ Len(V0) = v /\ \A i \in 1..v : V0[i] = Anchor(c.verbs[i], TRUE, "verbs")
  <2>1. V0 = [i \in 1..v |-> Anchor(c.verbs[i], TRUE, "verbs")]
    BY <1>3
  <2>2. \A i \in 1..v : V0[i] \in A
    BY <1>3 DEF Range
  <2>3. PICK B : B = A
    OBVIOUS
  <2>4. PICK p : p = V0
    OBVIOUS
  <2>5. p = [i \in 1..v |-> p[i]] /\ \A i \in 1..v : p[i] \in B
    <3> HIDE DEF V0, A
    <3> QED
      BY <2>1, <2>2, <2>3, <2>4
  <2>6. p \in Seq(B) /\ Len(p) = v
    BY <2>5, ListIs
  <2>7. \A i \in 1..v : V0[i] = Anchor(c.verbs[i], TRUE, "verbs")
    <3> HIDE DEF V0
    <3> QED
      BY <2>1
  <2> HIDE DEF V0, A
  <2> QED
    BY <2>3, <2>4, <2>6, <2>7
<1>8. /\ Q \in Seq(A) /\ (Quotes(c) => Len(Q) = 1 /\ Q[1] = Anchor(c.quote, TRUE, Null))
      /\ ~Quotes(c) => Len(Q) = 0
  <2>1. PICK q \in A : q = Anchor(c.quote, TRUE, Null)
    OBVIOUS
  <2>2. Q = IF Quotes(c) THEN <<q>> ELSE <<>>
    BY <2>1 DEF LongOf, Quotes
  <2> HIDE DEF Q, A
  <2>3. <<q>> \in Seq(A) /\ Len(<<q>>) = 1 /\ <<q>>[1] = q /\ <<>> \in Seq(A) /\ Len(<<>>) = 0
    BY EmptySeq
  <2> QED
    BY <2>1, <2>2, <2>3
<1>9. L \in Seq(A) /\ Len(L) \in Nat /\ \A i \in 1..Len(L) : L[i] = Anchor(c.value, FALSE, Null)
  <2>1. PICK q \in A : q = Anchor(c.value, FALSE, Null)
    OBVIOUS
  <2>2. L = <<q>> \/ L = <<>>
    BY <2>1 DEF LongOf
  <2> HIDE DEF L, A
  <2>3. <<q>> \in Seq(A) /\ Len(<<q>>) = 1 /\ <<q>>[1] = q /\ <<>> \in Seq(A) /\ Len(<<>>) = 0
    BY EmptySeq
  <2>4. \A i \in 1..1 : i = 1
    OBVIOUS
  <2>5. 1..0 = {}
    OBVIOUS
  <2> QED
    BY <2>1, <2>2, <2>3, <2>4, <2>5
<1>10. PICK B : B = A
  OBVIOUS
<1>a. PICK p \in Seq(B) : p = P
  <2> HIDE DEF A, P
  <2> QED
    BY <1>6, <1>10
<1>b. PICK w \in Seq(B) : w = V0
  <2> HIDE DEF A, V0
  <2> QED
    BY <1>7, <1>10
<1>c. PICK q \in Seq(B) : q = Q
  <2> HIDE DEF A, Q
  <2> QED
    BY <1>8, <1>10
<1>d. PICK l \in Seq(B) : l = L
  <2> HIDE DEF A, L
  <2> QED
    BY <1>9, <1>10
<1>11. /\ Len(p) = n /\ \A i \in 1..n : p[i] = Anchor(sur[i], TRUE, Null)
       /\ Len(w) = v /\ \A i \in 1..v : w[i] = Anchor(c.verbs[i], TRUE, "verbs")
       /\ Quotes(c) => Len(q) = 1 /\ q[1] = Anchor(c.quote, TRUE, Null)
       /\ ~Quotes(c) => Len(q) = 0
       /\ Len(l) \in Nat /\ \A i \in 1..Len(l) : l[i] = Anchor(c.value, FALSE, Null)
       /\ all = ((p \o w) \o q) \o l
  <2> HIDE DEF A, P, V0, Q, L, sur
  <2> QED
    BY <1>6, <1>7, <1>8, <1>9, <1>a, <1>b, <1>c, <1>d
<1>12. PICK x \in Seq(B) : /\ x = p \o w /\ Len(x) = n + v
                           /\ \A i \in 1..n : x[i] = p[i]
                           /\ \A j \in 1..v : x[n + j] = w[j]
  <2>1. /\ p \o w \in Seq(B) /\ Len(p \o w) = Len(p) + Len(w)
        /\ \A i \in 1..Len(p) : (p \o w)[i] = p[i]
        /\ \A j \in 1..Len(w) : (p \o w)[Len(p) + j] = w[j]
    BY ConcatAt
  <2> QED
    BY <1>11, <2>1
<1>13. PICK y \in Seq(B) : /\ y = x \o q /\ Len(y) = Len(x) + Len(q)
                           /\ \A i \in 1..Len(x) : y[i] = x[i]
                           /\ \A j \in 1..Len(q) : y[Len(x) + j] = q[j]
  <2>1. /\ x \o q \in Seq(B) /\ Len(x \o q) = Len(x) + Len(q)
        /\ \A i \in 1..Len(x) : (x \o q)[i] = x[i]
        /\ \A j \in 1..Len(q) : (x \o q)[Len(x) + j] = q[j]
    BY ConcatAt
  <2> QED
    BY <2>1
<1>14. PICK s \in Seq(B) : /\ s = y \o l /\ Len(s) = Len(y) + Len(l)
                           /\ \A i \in 1..Len(y) : s[i] = y[i]
                           /\ \A j \in 1..Len(l) : s[Len(y) + j] = l[j]
  <2>1. /\ y \o l \in Seq(B) /\ Len(y \o l) = Len(y) + Len(l)
        /\ \A i \in 1..Len(y) : (y \o l)[i] = y[i]
        /\ \A j \in 1..Len(l) : (y \o l)[Len(y) + j] = l[j]
    BY ConcatAt
  <2> QED
    BY <2>1
<1>15. PICK N \in Nat : N = Len(s) /\ DOMAIN s = 1..N
  BY LenProperties
<1>16. s = all
  <2> HIDE DEF P, V0, Q, L
  <2> QED
    BY <1>11, <1>12, <1>13, <1>14
<1>17. AnchorList(s, sur, c)
  <2>1. PICK ll \in Nat : ll = Len(l)
    BY <1>11
  <2>2. PICK lq \in Nat : lq = Len(q) /\ lq <= 1
    <3>1. Len(q) = 1 \/ Len(q) = 0
      <4>1. CASE Quotes(c)
        BY <1>11, <4>1
      <4>2. CASE ~Quotes(c)
        BY <1>11, <4>2
      <4> QED
        BY <4>1, <4>2
    <3>2. 0 \in Nat /\ 1 \in Nat /\ 0 <= 1 /\ 1 <= 1
      OBVIOUS
    <3> QED
      BY <3>1, <3>2
  <2>a. Len(x) = n + v /\ Len(y) = (n + v) + lq
    BY <1>12, <1>13, <2>2
  <2>b. /\ \A i \in 1..n : x[i] = Anchor(sur[i], TRUE, Null)
        /\ \A i \in 1..v : x[n + i] = Anchor(c.verbs[i], TRUE, "verbs")
        /\ \A i \in 1..(n + v) : y[i] = x[i]
        /\ \A i \in 1..((n + v) + lq) : s[i] = y[i]
    <3> HIDE DEF sur, all
    <3>1. \A i \in 1..n : x[i] = Anchor(sur[i], TRUE, Null)
      BY <1>11, <1>12
    <3>2. \A i \in 1..v : x[n + i] = Anchor(c.verbs[i], TRUE, "verbs")
      BY <1>11, <1>12
    <3>3. \A i \in 1..(n + v) : y[i] = x[i]
      BY <1>13, <2>a
    <3>4. \A i \in 1..((n + v) + lq) : s[i] = y[i]
      BY <1>14, <2>a
    <3> QED
      BY <3>1, <3>2, <3>3, <3>4
  <2>3. N = ((n + v) + lq) + ll
    BY <1>12, <1>13, <1>14, <1>15, <2>1, <2>2
  <2>4. ASSUME NEW i \in 1..n PROVE s[i] = Anchor(sur[i], TRUE, Null)
    <3>1. i \in 1..(n + v) /\ i \in 1..((n + v) + lq)
      OBVIOUS
    <3> QED
      BY <2>b, <3>1, Zenon
  <2>5. ASSUME NEW i \in 1..v PROVE s[n + i] = Anchor(c.verbs[i], TRUE, "verbs")
    <3>1. n + i \in 1..(n + v) /\ n + i \in 1..((n + v) + lq)
      OBVIOUS
    <3> QED
      BY <2>b, <3>1, Zenon
  <2>6. ASSUME Quotes(c) PROVE (n + v) + 1 <= N /\ s[(n + v) + 1] = Anchor(c.quote, TRUE, Null)
    <3>1. lq = 1 /\ (n + v) + 1 \in 1..((n + v) + lq) /\ 1 \in 1..lq
      BY <1>11, <2>2, <2>6
    <3>2. s[(n + v) + 1] = y[(n + v) + 1]
      BY <1>12, <1>13, <1>14, <2>2, <3>1
    <3>3. y[(n + v) + 1] = q[1]
      BY <1>12, <1>13, <2>2, <3>1
    <3>4. (n + v) + 1 <= N
      BY <2>3, <3>1
    <3> QED
      BY <1>11, <2>6, <3>2, <3>3, <3>4
  <2>7. ASSUME NEW i \in 1..N, n + v < i
        PROVE  \/ s[i] = Anchor(c.value, FALSE, Null)
               \/ i = (n + v) + 1 /\ Quotes(c) /\ s[i] = Anchor(c.quote, TRUE, Null)
    <3>1. CASE i <= (n + v) + lq
      <4>1. i = (n + v) + 1 /\ lq = 1
        BY <2>2, <2>7, <3>1
      <4>2. Quotes(c)
        BY <1>11, <2>2, <4>1
      <4> QED
        BY <2>6, <4>1, <4>2
    <3>2. CASE ~(i <= (n + v) + lq)
      <4>1. PICK j \in 1..ll : i = ((n + v) + lq) + j
        <5>1. i - ((n + v) + lq) \in 1..ll /\ i = ((n + v) + lq) + (i - ((n + v) + lq))
          BY <2>3, <3>2
        <5> QED
          BY <5>1
      <4>2. s[i] = l[j]
        BY <1>14, <2>1, <2>a, <4>1
      <4> QED
        BY <1>11, <2>1, <4>2
    <3> QED
      BY <3>1, <3>2
  <2>8. n + v \in Nat /\ n + v <= N
    BY <2>3
  <2> HIDE DEF sur
  <2> QED
    BY <1>3, <1>5, <1>15, <2>4, <2>5, <2>6, <2>7, <2>8 DEF AnchorList
<1>18. PICK F : F = FirstOf(s) /\ F \subseteq 1..N
  BY <1>15 DEF FirstOf
<1>19. PICK idx \in Seq(1..N) : idx = [i \in 1..N |-> i]
  <2>1. PICK u : u = [i \in 1..N |-> i]
    OBVIOUS
  <2>2. u = [i \in 1..N |-> u[i]] /\ \A i \in 1..N : u[i] \in 1..N
    BY <2>1
  <2>3. PICK T : T = 1..N
    OBVIOUS
  <2>4. u \in Seq(T)
    BY <2>2, <2>3, ListIs
  <2> QED
    BY <2>1, <2>3, <2>4
<1>20. PICK kk \in Seq(1..N) : kk = Only(idx, F)
  BY OnlySeq
<1>21. Range(kk) = F
  <2>1. Range(kk) = Range(idx) \cap F
    BY <1>20, OnlyRange
  <2>2. Range(idx) = 1..N
    BY <1>19 DEF Range
  <2> QED
    BY <1>18, <2>1, <2>2
<1>22. PICK K \in Nat : K = Len(kk) /\ DOMAIN kk = 1..K
  BY LenProperties
<1>23. kept = kk
  <2> HIDE DEF all
  <2> QED
    BY <1>15, <1>16, <1>18, <1>19, <1>20
<1>24. PICK as : as = [k \in 1..K |-> s[kk[k]]]
  OBVIOUS
<1>25. Anchors(c, M) = as
  <2> HIDE DEF all, kept
  <2> QED
    BY <1>1, <1>16, <1>22, <1>23, <1>24
<1>26. as \in Seq(B)
  <2>1. as = [k \in 1..K |-> as[k]] /\ \A k \in 1..K : as[k] \in B
    BY <1>15, <1>22, <1>24
  <2> QED
    BY <2>1, ListIs
<1>27. Range(as) = {s[i] : i \in F}
  <2>1. \A z : z \in Range(as) <=> \E k \in 1..K : z = s[kk[k]]
    BY <1>24 DEF Range
  <2>2. \A i : i \in F <=> \E k \in 1..K : i = kk[k]
    BY <1>21, <1>22 DEF Range
  <2> QED
    <3>1. \A k \in 1..K : kk[k] \in F
      BY <2>2
    <3>2. \A i \in F : \E k \in 1..K : i = kk[k]
      BY <2>2
    <3>3. \A z : z \in {s[i] : i \in F} <=> \E i \in F : z = s[i]
      BY Zenon
    <3>6. ASSUME NEW z, z \in Range(as) PROVE \E i \in F : z = s[i]
      BY <2>1, <3>1, <3>6, Zenon
    <3>7. ASSUME NEW z, NEW i \in F, z = s[i] PROVE z \in Range(as)
      <4>1. PICK k \in 1..K : i = kk[k]
        BY <3>2
      <4> QED
        BY <2>1, <3>7, <4>1, Zenon
    <3>4. \A z : z \in Range(as) <=> z \in {s[i] : i \in F}
      BY <3>3, <3>6, <3>7, Zenon
    <3>5. PICK U : U = {s[i] : i \in F}
      OBVIOUS
    <3> QED
      BY <3>4, <3>5
<1>28. AnchorList(s, SurfacesOf(c, M), c)
  BY <1>17
<1> QED
  BY <1>18, <1>25, <1>26, <1>27, <1>28, Zenon

\* The names and the verbs of a claim, with the mentions of its draft.
NamesOf(c, M) == {m.surface : m \in {x \in M : x.id \in Range(c.names)}} \ {<<>>}
VerbsOf(c, M) == Range(c.verbs) \ (NamesOf(c, M) \cup {<<>>})

\* The names that are listed are those of the mentions.
LEMMA SurfacesAre ==
  ASSUME NEW c, NEW M, NEW Z, c.names \in Seq(Z), \A x, y \in M : x.id = y.id => x = y
  PROVE  \E sur : \E n \in Nat :
           /\ sur = SurfacesOf(c, M) /\ n = Len(sur)
           /\ \A i \in 1..n : sur[i] # <<>> => sur[i] \in NamesOf(c, M)
           /\ \A t \in NamesOf(c, M) : \E i \in 1..n : t = sur[i]
<1>1. PICK T : T = {x.id : x \in M}
  OBVIOUS
<1>2. PICK named \in Seq(Z) : named = Only(c.names, T)
  BY OnlySeq
<1>3. Range(named) = Range(c.names) \cap T
  BY <1>2, OnlyRange
<1>4. PICK n \in Nat : n = Len(named) /\ DOMAIN named = 1..n
  BY LenProperties
<1>5. PICK sur : sur = [i \in 1..n |-> SurfaceIn(M, named[i])]
  OBVIOUS
<1>6. SurfacesOf(c, M) = sur
  BY <1>1, <1>2, <1>4, <1>5 DEF SurfacesOf
<1>7. Len(sur) = n
  BY <1>5
<1>8. ASSUME NEW x \in M PROVE SurfaceIn(M, x.id) = x.surface
  <2>1. (CHOOSE y \in M : y.id = x.id) = x
    OBVIOUS
  <2> QED
    BY <2>1 DEF SurfaceIn
<1>9. ASSUME NEW i \in 1..n, sur[i] # <<>> PROVE sur[i] \in NamesOf(c, M)
  <2>1. named[i] \in Range(c.names) /\ named[i] \in T
    BY <1>3, <1>4 DEF Range
  <2>2. PICK x \in M : named[i] = x.id
    BY <1>1, <2>1
  <2>3. sur[i] = x.surface
    BY <1>5, <1>8, <2>2
  <2> QED
    BY <1>9, <2>1, <2>2, <2>3 DEF NamesOf
<1>10. ASSUME NEW t \in NamesOf(c, M) PROVE \E i \in 1..n : t = sur[i]
  <2>1. PICK x \in M : x.id \in Range(c.names) /\ t = x.surface
    BY DEF NamesOf
  <2>2. x.id \in Range(named)
    BY <1>1, <1>3, <2>1
  <2>3. PICK i \in 1..n : named[i] = x.id
    BY <1>4, <2>2 DEF Range
  <2>4. sur[i] = x.surface
    BY <1>5, <1>8, <2>3
  <2> QED
    BY <2>1, <2>4
<1> QED
  BY <1>6, <1>7, <1>9, <1>10

\* Which texts the anchors of a claim are.
LEMMA AnchorsTell ==
  ASSUME NEW c, NEW M, NEW Z, c.names \in Seq(Z), NEW V, c.verbs \in Seq(V),
         \A x, y \in M : x.id = y.id => x = y
  PROVE  LET as == Anchors(c, M)
             own == NamesOf(c, M) \cup Quoted(c)
         IN /\ \E A : as \in Seq(A)
            /\ \A i \in DOMAIN as :
                 /\ as[i].hard => \/ as[i].group = Null /\ as[i].text \in own
                                  \/ as[i].group = "verbs" /\ as[i].text \in VerbsOf(c, M)
                 /\ as[i].group # Null => as[i].group = "verbs" /\ as[i].hard
            /\ \A t \in own : \E i \in DOMAIN as : as[i] = Anchor(t, TRUE, Null)
            /\ \A t \in VerbsOf(c, M) : \E i \in DOMAIN as : as[i] = Anchor(t, TRUE, "verbs")
<1>1. PICK all, A : /\ AnchorList(all, SurfacesOf(c, M), c)
                    /\ Anchors(c, M) \in Seq(A)
                    /\ Range(Anchors(c, M)) = {all[i] : i \in FirstOf(all)}
  BY AnchorsAre, Zenon
<1>2. PICK as \in Seq(A) : as = Anchors(c, M)
  BY <1>1
<1>3. PICK sur : \E n \in Nat :
        /\ sur = SurfacesOf(c, M) /\ n = Len(sur)
        /\ \A i \in 1..n : sur[i] # <<>> => sur[i] \in NamesOf(c, M)
        /\ \A t \in NamesOf(c, M) : \E i \in 1..n : t = sur[i]
  BY SurfacesAre
<1>4. PICK n \in Nat :
        /\ sur = SurfacesOf(c, M) /\ n = Len(sur)
        /\ \A i \in 1..n : sur[i] # <<>> => sur[i] \in NamesOf(c, M)
        /\ \A t \in NamesOf(c, M) : \E i \in 1..n : t = sur[i]
  BY <1>3
<1>5. PICK v \in Nat : v = Len(c.verbs) /\ DOMAIN c.verbs = 1..v
  BY LenProperties
<1>6. PICK N \in Nat : N = Len(all) /\ DOMAIN all = 1..N /\ n + v <= N
  BY <1>1, <1>4, <1>5 DEF AnchorList
<1>7. /\ \A i \in 1..n : all[i] = Anchor(sur[i], TRUE, Null)
      /\ \A i \in 1..v : all[n + i] = Anchor(c.verbs[i], TRUE, "verbs")
      /\ Quotes(c) => (n + v) + 1 <= N /\ all[(n + v) + 1] = Anchor(c.quote, TRUE, Null)
      /\ \A i \in 1..N : n + v < i =>
            \/ all[i] = Anchor(c.value, FALSE, Null)
            \/ i = (n + v) + 1 /\ Quotes(c) /\ all[i] = Anchor(c.quote, TRUE, Null)
  BY <1>1, <1>4, <1>5, <1>6 DEF AnchorList
<1>8. /\ \A i \in 1..n : sur[i] # <<>> => sur[i] \in NamesOf(c, M)
      /\ \A t \in NamesOf(c, M) : \E i \in 1..n : t = sur[i]
  BY <1>4
<1>9. Null # "verbs"
  BY SpanAssumption
<1>10. /\ \A t : /\ Anchor(t, TRUE, Null).text = t /\ Anchor(t, TRUE, Null).hard
                  /\ Anchor(t, TRUE, Null).group = Null
       /\ \A t : /\ Anchor(t, TRUE, "verbs").text = t /\ Anchor(t, TRUE, "verbs").hard
                  /\ Anchor(t, TRUE, "verbs").group = "verbs"
       /\ \A t : /\ Anchor(t, FALSE, Null).text = t /\ ~Anchor(t, FALSE, Null).hard
                  /\ Anchor(t, FALSE, Null).group = Null
  BY DEF Anchor
<1>a. /\ \A i \in 1..n : all[i].text = sur[i]
      /\ \A i \in 1..v : all[n + i].text = c.verbs[i]
      /\ Quotes(c) => all[(n + v) + 1].text = c.quote
  BY <1>7, <1>10, Zenon
<1>b. /\ \A i \in 1..n : all[i] = Anchor(all[i].text, TRUE, Null)
      /\ \A i \in 1..v : all[n + i] = Anchor(all[n + i].text, TRUE, "verbs")
      /\ Quotes(c) => all[(n + v) + 1] = Anchor(all[(n + v) + 1].text, TRUE, Null)
  <2>1. \A i \in 1..n : all[i] = Anchor(all[i].text, TRUE, Null)
    BY <1>7, <1>a, Zenon
  <2>2. \A i \in 1..v : all[n + i] = Anchor(all[n + i].text, TRUE, "verbs")
    BY <1>7, <1>a, Zenon
  <2>3. Quotes(c) => all[(n + v) + 1] = Anchor(all[(n + v) + 1].text, TRUE, Null)
    BY <1>7, <1>a, Zenon
  <2> QED
    BY <2>1, <2>2, <2>3, Zenon
<1>11. ASSUME NEW i \in 1..N PROVE i \in 1..n \/ (\E j \in 1..v : i = n + j) \/ n + v < i
  <2> SUFFICES ASSUME ~(i \in 1..n), ~(n + v < i) PROVE \E j \in 1..v : i = n + j
    OBVIOUS
  <2>1. i - n \in 1..v /\ i = n + (i - n)
    OBVIOUS
  <2> QED
    BY <2>1
<1>12. ASSUME NEW i \in FirstOf(all)
       PROVE  /\ i \in 1..N /\ all[i].text # <<>>
              /\ \A j \in 1..N : j < i => all[j].text # all[i].text
  BY <1>6 DEF FirstOf
\* the verbs come after the names, the quote after both
<1>13. ASSUME NEW i \in FirstOf(all)
       PROVE  \/ all[i] = Anchor(all[i].text, TRUE, Null) /\ all[i].text \in NamesOf(c, M) \cup Quoted(c)
              \/ all[i] = Anchor(all[i].text, TRUE, "verbs") /\ all[i].text \in VerbsOf(c, M)
              \/ all[i] = Anchor(c.value, FALSE, Null)
  <2>1. CASE i \in 1..n
    BY <1>8, <1>12, <1>a, <1>b, <2>1, Zenon
  <2>2. CASE \E j \in 1..v : i = n + j
    <3>1. PICK j \in 1..v : i = n + j
      BY <2>2
    <3>2. /\ all[i] = Anchor(all[i].text, TRUE, "verbs") /\ all[i].text = c.verbs[j]
          /\ c.verbs[j] \in Range(c.verbs)
      <4>1. c.verbs[j] \in Range(c.verbs)
        BY <1>5 DEF Range
      <4> QED
        BY <1>a, <1>b, <3>1, <4>1, Zenon
    <3>3. ASSUME c.verbs[j] \in NamesOf(c, M) PROVE FALSE
      <4>1. PICK k \in 1..n : c.verbs[j] = sur[k]
        BY <1>8, <3>3
      <4>2. k \in 1..N /\ k < i
        BY <1>6, <3>1
      <4>3. all[k].text = all[i].text
        BY <1>a, <3>1, <4>1
      <4> QED
        BY <1>12, <4>2, <4>3
    <3> QED
      BY <1>12, <3>2, <3>3, Zenon DEF VerbsOf
  <2>3. CASE n + v < i
    <3> SUFFICES ASSUME i = (n + v) + 1, Quotes(c)
                 PROVE  all[i].text \in Quoted(c) /\ all[i] = Anchor(all[i].text, TRUE, Null)
      BY <1>7, <1>12, <2>3
    <3>0. i = (n + v) + 1 /\ Quotes(c)
      OBVIOUS
    <3>1. ASSUME c.quote \in Range(c.verbs) PROVE FALSE
      <4>1. PICK j \in 1..v : c.quote = c.verbs[j]
        BY <1>5, <3>1 DEF Range
      <4>2. n + j \in 1..N /\ n + j < i
        BY <1>6
      <4>3. all[n + j].text = all[i].text
        BY <1>a, <4>1, Zenon
      <4> QED
        BY <1>12, <4>2, <4>3
    <3> QED
      <4>1. all[i].text = c.quote
        BY <1>a, <3>0, Zenon
      <4>2. c.quote \in Quoted(c)
        BY <3>0, <3>1 DEF Quoted
      <4> QED
        BY <1>b, <3>0, <4>1, <4>2, Zenon
  <2> QED
    BY <1>11, <1>12, <2>1, <2>2, <2>3
<1>14. \A i \in DOMAIN as : \E j \in FirstOf(all) : as[i] = all[j]
  BY <1>1, <1>2 DEF Range
<1>15. ASSUME NEW j \in FirstOf(all) PROVE \E i \in DOMAIN as : as[i] = all[j]
  BY <1>1, <1>2 DEF Range
<1>16. ASSUME NEW i \in DOMAIN as
       PROVE  /\ as[i].hard => \/ as[i].group = Null /\ as[i].text \in NamesOf(c, M) \cup Quoted(c)
                               \/ as[i].group = "verbs" /\ as[i].text \in VerbsOf(c, M)
              /\ as[i].group # Null => as[i].group = "verbs" /\ as[i].hard
  <2>1. PICK j \in FirstOf(all) : as[i] = all[j]
    BY <1>14
  <2> QED
    <3>1. CASE all[j] = Anchor(all[j].text, TRUE, Null) /\ all[j].text \in NamesOf(c, M) \cup Quoted(c)
      <4>1. PICK x : all[j] = Anchor(x, TRUE, Null) /\ x \in NamesOf(c, M) \cup Quoted(c)
        BY <3>1
      <4>2. as[i] = Anchor(x, TRUE, Null)
        BY <2>1, <4>1
      <4>3. as[i].text = x /\ as[i].group = Null
        BY <4>2, <1>10, Zenon
      <4> QED
        BY <4>1, <4>3, Zenon
    <3>2. CASE all[j] = Anchor(all[j].text, TRUE, "verbs") /\ all[j].text \in VerbsOf(c, M)
      <4>1. PICK x : all[j] = Anchor(x, TRUE, "verbs") /\ x \in VerbsOf(c, M)
        BY <3>2
      <4>2. as[i] = Anchor(x, TRUE, "verbs")
        BY <2>1, <4>1
      <4>3. as[i].text = x /\ as[i].group = "verbs" /\ as[i].hard
        BY <4>2 DEF Anchor
      <4> QED
        BY <4>1, <4>3, Zenon
    <3>3. CASE all[j] = Anchor(c.value, FALSE, Null)
      <4>1. as[i] = Anchor(c.value, FALSE, Null)
        BY <2>1, <3>3
      <4>2. ~as[i].hard /\ as[i].group = Null
        BY <4>1 DEF Anchor
      <4> QED
        BY <4>2, Zenon
    <3> QED
      BY <1>13, <3>1, <3>2, <3>3, Zenon
<1>17. ASSUME NEW t \in NamesOf(c, M) PROVE \E i \in DOMAIN as : as[i] = Anchor(t, TRUE, Null)
  <2>1. PICK k \in 1..n : t = sur[k]
    BY <1>8
  <2>2. k \in 1..N /\ all[k].text = t /\ t # <<>>
    BY <1>6, <1>a, <2>1 DEF NamesOf
  <2>3. PICK j \in FirstOf(all) : j <= k /\ all[j].text = t
    BY <1>6, <2>2, FirstThere
  <2>4. j \in 1..n
    BY <1>12, <2>3
  <2>5. all[j] = Anchor(t, TRUE, Null)
    BY <1>b, <2>3, <2>4, Zenon
  <2> QED
    BY <1>15, <2>5
<1>18. ASSUME NEW t \in Quoted(c) PROVE \E i \in DOMAIN as : as[i] = Anchor(t, TRUE, Null)
  <2>1. Quotes(c) /\ t = c.quote /\ t \notin Range(c.verbs)
    BY DEF Quoted
  <2>2. t # <<>>
    <3>1. Len(<<>>) = 0 /\ ~(0 >= 2)
      BY EmptySeq
    <3> QED
      BY <2>1, <3>1 DEF Quotes
  <2>3. PICK k \in 1..N : k = (n + v) + 1 /\ all[k].text = t
    <3>1. (n + v) + 1 \in 1..N
      BY <1>6, <1>7, <2>1
    <3> QED
      BY <1>a, <2>1, <3>1, Zenon
  <2>4. PICK j \in FirstOf(all) : j <= k /\ all[j].text = t
    BY <1>6, <2>2, <2>3, FirstThere
  <2>5. CASE j \in 1..n
    BY <1>15, <1>b, <2>4, <2>5, Zenon
  <2>6. CASE \E m \in 1..v : j = n + m
    <3>1. PICK m \in 1..v : j = n + m
      BY <2>6
    <3>2. c.verbs[m] = t
      BY <1>a, <2>4, <3>1, Zenon
    <3> QED
      BY <1>5, <2>1, <3>2 DEF Range
  <2>7. CASE n + v < j
    <3>1. j = k
      BY <1>12, <2>3, <2>4, <2>7
    <3> QED
      BY <1>15, <1>b, <2>1, <2>3, <3>1, Zenon
  <2> QED
    BY <1>11, <1>12, <2>4, <2>5, <2>6, <2>7
<1>19. ASSUME NEW t \in VerbsOf(c, M) PROVE \E i \in DOMAIN as : as[i] = Anchor(t, TRUE, "verbs")
  <2>1. PICK m \in 1..v : t = c.verbs[m]
    BY <1>5 DEF VerbsOf, Range
  <2>2. t # <<>> /\ t \notin NamesOf(c, M)
    BY DEF VerbsOf
  <2>3. PICK k \in 1..N : k = n + m /\ all[k].text = t
    <3>1. n + m \in 1..N
      BY <1>6
    <3> QED
      BY <1>a, <2>1, <3>1, Zenon
  <2>4. PICK j \in FirstOf(all) : j <= k /\ all[j].text = t
    BY <1>6, <2>2, <2>3, FirstThere
  <2>5. j \notin 1..n
    <3> SUFFICES ASSUME j \in 1..n PROVE FALSE
      OBVIOUS
    <3>1. all[j].text = sur[j]
      BY <1>a
    <3> QED
      BY <1>8, <2>2, <2>4, <3>1
  <2>6. ~(n + v < j)
    BY <1>12, <2>3, <2>4
  <2>7. PICK l \in 1..v : j = n + l
    BY <1>11, <1>12, <2>5, <2>6
  <2>8. all[j] = Anchor(t, TRUE, "verbs")
    BY <1>b, <2>4, <2>7, Zenon
  <2> QED
    BY <1>15, <2>8
<1> QED
  BY <1>2, <1>16, <1>17, <1>18, <1>19

\* What proves a claim, and a piece of a text that has it.
OwnOf(c, M) == NamesOf(c, M) \cup Quoted(c)
ReadOff(c, M, t, lo, hi) ==
    /\ \A x \in OwnOf(c, M) : Within(Plain(x), Plain(Cut(t, lo, hi)))
    /\ VerbsOf(c, M) # {} => \E x \in VerbsOf(c, M) : Within(Plain(x), Plain(Cut(t, lo, hi)))
ClaimOf(c, M) ==
    /\ c.names \in Seq(Range(c.names)) /\ c.verbs \in Seq(Range(c.verbs))
    /\ \A x, y \in M : x.id = y.id => x = y
    /\ \A x \in OwnOf(c, M) \cup VerbsOf(c, M) : x \in Seq(Range(x))

AnchorsFit(as, c, M) ==
    /\ \A i \in DOMAIN as :
         /\ as[i].hard => \/ as[i].group = Null /\ as[i].text \in OwnOf(c, M)
                          \/ as[i].group = "verbs" /\ as[i].text \in VerbsOf(c, M)
         /\ as[i].group # Null => as[i].group = "verbs" /\ as[i].hard
    /\ \A x \in OwnOf(c, M) : \E i \in DOMAIN as : as[i].text = x /\ as[i].hard /\ as[i].group = Null
    /\ \A x \in VerbsOf(c, M) : \E i \in DOMAIN as : as[i].text = x /\ as[i].hard /\ as[i].group = "verbs"

\* The anchors of a claim as far as the proofs below need to know them.
LEMMA AnchorsSay ==
  ASSUME NEW c, NEW M, ClaimOf(c, M)
  PROVE  \E A : \E as \in Seq(A) : as = Anchors(c, M) /\ AnchorsFit(as, c, M)
<1>1. PICK Z, V : c.names \in Seq(Z) /\ c.verbs \in Seq(V) /\ \A x, y \in M : x.id = y.id => x = y
  BY DEF ClaimOf
<1>2. /\ \E A : Anchors(c, M) \in Seq(A)
      /\ \A i \in DOMAIN Anchors(c, M) :
           /\ Anchors(c, M)[i].hard =>
                \/ Anchors(c, M)[i].group = Null /\ Anchors(c, M)[i].text \in NamesOf(c, M) \cup Quoted(c)
                \/ Anchors(c, M)[i].group = "verbs" /\ Anchors(c, M)[i].text \in VerbsOf(c, M)
           /\ Anchors(c, M)[i].group # Null => Anchors(c, M)[i].group = "verbs" /\ Anchors(c, M)[i].hard
      /\ \A t \in NamesOf(c, M) \cup Quoted(c) :
            \E i \in DOMAIN Anchors(c, M) : Anchors(c, M)[i] = Anchor(t, TRUE, Null)
      /\ \A t \in VerbsOf(c, M) :
            \E i \in DOMAIN Anchors(c, M) : Anchors(c, M)[i] = Anchor(t, TRUE, "verbs")
  BY <1>1, AnchorsTell, Zenon
<1>3. PICK A : Anchors(c, M) \in Seq(A)
  BY <1>2
<1>4. PICK as \in Seq(A) : as = Anchors(c, M)
  BY <1>3
<1>5. ASSUME NEW t \in OwnOf(c, M)
      PROVE  \E i \in DOMAIN as : as[i].text = t /\ as[i].hard /\ as[i].group = Null
  <2>1. PICK i \in DOMAIN as : as[i] = Anchor(t, TRUE, Null)
    BY <1>2, <1>4, Zenon DEF OwnOf
  <2>2. as[i].text = t /\ as[i].hard /\ as[i].group = Null
    BY <2>1 DEF Anchor
  <2> QED
    BY <2>2
<1>6. ASSUME NEW t \in VerbsOf(c, M)
      PROVE  \E i \in DOMAIN as : as[i].text = t /\ as[i].hard /\ as[i].group = "verbs"
  <2>1. PICK i \in DOMAIN as : as[i] = Anchor(t, TRUE, "verbs")
    BY <1>2, <1>4, Zenon
  <2>2. as[i].text = t /\ as[i].hard /\ as[i].group = "verbs"
    BY <2>1 DEF Anchor
  <2> QED
    BY <2>2
<1>7. \A i \in DOMAIN as :
         /\ as[i].hard => \/ as[i].group = Null /\ as[i].text \in OwnOf(c, M)
                          \/ as[i].group = "verbs" /\ as[i].text \in VerbsOf(c, M)
         /\ as[i].group # Null => as[i].group = "verbs" /\ as[i].hard
  BY <1>2, <1>4, Zenon DEF OwnOf
<1>8. AnchorsFit(as, c, M)
  BY <1>5, <1>6, <1>7 DEF AnchorsFit
<1> QED
  BY <1>4, <1>8

\* A proof of a claim has what proves it.
LEMMA ProofReads ==
  ASSUME NEW c, NEW M, ClaimOf(c, M), NEW X, NEW t \in Seq(X), NEW s \in Proofs(t, Anchors(c, M))
  PROVE  /\ s[1] \in 0..Len(t) /\ s[2] \in s[1]..Len(t)
         /\ ReadOff(c, M, t, s[1], s[2])
<1>1. PICK A : \E as \in Seq(A) : as = Anchors(c, M) /\ AnchorsFit(as, c, M)
  BY AnchorsSay
<1>2. PICK as \in Seq(A) : as = Anchors(c, M) /\ AnchorsFit(as, c, M)
  BY <1>1
<1>a. /\ \A i \in DOMAIN as :
           /\ as[i].hard => \/ as[i].group = Null /\ as[i].text \in OwnOf(c, M)
                            \/ as[i].group = "verbs" /\ as[i].text \in VerbsOf(c, M)
           /\ as[i].group # Null => as[i].group = "verbs" /\ as[i].hard
      /\ \A x \in OwnOf(c, M) : \E i \in DOMAIN as : as[i].text = x /\ as[i].hard /\ as[i].group = Null
      /\ \A x \in VerbsOf(c, M) : \E i \in DOMAIN as : as[i].text = x /\ as[i].hard /\ as[i].group = "verbs"
  BY <1>2 DEF AnchorsFit
<1>3. PICK d \in Candidates(t, as) : Proves(d, as) /\ s = <<d.lo, d.hi>>
  BY <1>2, ProofIs
<1>4. Candidate(d, t, as)
  BY CandidatesAre
<1>5. PICK lo \in 0..Len(t) : lo = d.lo
  BY <1>4 DEF Candidate
<1>6. PICK hi \in lo..Len(t) : hi = d.hi
  BY <1>4, <1>5 DEF Candidate
<1>7. s[1] = lo /\ s[2] = hi
  BY <1>3, <1>5, <1>6
<1>8. ASSUME NEW i \in d.met PROVE i \in DOMAIN as /\ Within(Plain(as[i].text), Plain(Cut(t, lo, hi)))
  <2>1. i \in DOMAIN as
    BY <1>4 DEF Candidate
  <2>2. PICK p \in Places(t, as[i].text) : lo <= p[1] /\ p[2] <= hi
    BY <1>4, <1>5, <1>6 DEF Candidate, Inside
  <2> QED
    BY <2>1, <2>2, PlaceMet
<1>9. \A i \in DOMAIN as : as[i].hard => \E j \in d.met : j = i \/ (as[i].group # Null /\ as[j].group = as[i].group)
  BY <1>3 DEF Proves
<1>10. Null # "verbs"
  BY SpanAssumption
<1>11. ASSUME NEW x \in OwnOf(c, M) PROVE Within(Plain(x), Plain(Cut(t, lo, hi)))
  <2>1. PICK i \in DOMAIN as : as[i].text = x /\ as[i].hard /\ as[i].group = Null
    BY <1>a
  <2>2. i \in d.met
    BY <1>9, <2>1
  <2> QED
    BY <1>8, <2>1, <2>2
<1>12. ASSUME VerbsOf(c, M) # {}
       PROVE  \E x \in VerbsOf(c, M) : Within(Plain(x), Plain(Cut(t, lo, hi)))
  <2>1. PICK v \in VerbsOf(c, M) : TRUE
    BY <1>12
  <2>2. PICK i \in DOMAIN as : as[i].text = v /\ as[i].hard /\ as[i].group = "verbs"
    BY <1>a
  <2>3. PICK j \in d.met : j = i \/ as[j].group = as[i].group
    BY <1>9, <2>2
  <2>4. j \in DOMAIN as /\ as[j].group = "verbs"
    BY <1>8, <2>2, <2>3
  <2>5. as[j].text \in VerbsOf(c, M)
    BY <1>a, <1>10, <2>4
  <2> QED
    BY <1>8, <2>3, <2>5
<1> QED
  BY <1>7, <1>11, <1>12 DEF ReadOff

\* A claim that a sentence has what proves of it has a proof.
LEMMA ReadsProof ==
  ASSUME NEW c, NEW M, ClaimOf(c, M), NEW X, NEW t \in Seq(X), NEW s \in Sentences(t),
         ReadOff(c, M, t, s[1], s[2]),
         OwnOf(c, M) \cup VerbsOf(c, M) # {}, \A x \in OwnOf(c, M) \cup VerbsOf(c, M) : Plain(x) # <<>>
  PROVE  Proofs(t, Anchors(c, M)) # {}
<1>1. PICK A : \E as \in Seq(A) : as = Anchors(c, M) /\ AnchorsFit(as, c, M)
  BY AnchorsSay
<1>2. PICK as \in Seq(A) : as = Anchors(c, M) /\ AnchorsFit(as, c, M)
  BY <1>1
<1>a. /\ \A i \in DOMAIN as :
           /\ as[i].hard => \/ as[i].group = Null /\ as[i].text \in OwnOf(c, M)
                            \/ as[i].group = "verbs" /\ as[i].text \in VerbsOf(c, M)
           /\ as[i].group # Null => as[i].group = "verbs" /\ as[i].hard
      /\ \A x \in OwnOf(c, M) : \E i \in DOMAIN as : as[i].text = x /\ as[i].hard /\ as[i].group = Null
      /\ \A x \in VerbsOf(c, M) : \E i \in DOMAIN as : as[i].text = x /\ as[i].hard /\ as[i].group = "verbs"
  BY <1>2 DEF AnchorsFit
<1>3. PICK lo \in 0..Len(t) : lo = s[1]
  BY SentenceIn
<1>4. PICK hi \in lo..Len(t) : hi = s[2]
  BY <1>3, SentenceIn
<1>5. PICK d : d = [lo |-> lo, hi |-> hi,
                    met |-> {i \in DOMAIN as : \E p \in Places(t, as[i].text) : Inside(p, lo, hi)}]
  OBVIOUS
<1>6. d \in BySentence(t, as)
  BY <1>3, <1>4, <1>5 DEF BySentence
<1>7. ASSUME NEW i \in DOMAIN as, as[i].text \in OwnOf(c, M) \cup VerbsOf(c, M),
             Within(Plain(as[i].text), Plain(Cut(t, lo, hi)))
      PROVE  i \in d.met
  <2>1. PICK x : x = as[i].text /\ x \in Seq(Range(x)) /\ Plain(x) # <<>> /\ Within(Plain(x), Plain(Cut(t, lo, hi)))
    BY <1>7 DEF ClaimOf
  <2>2. PICK Y : Y = Range(x)
    OBVIOUS
  <2>3. x \in Seq(Y)
    BY <2>1, <2>2
  <2>4. \E p \in Places(t, x) : lo <= p[1] /\ p[2] <= hi
    BY <2>1, <2>3, MetPlace
  <2> QED
    BY <1>5, <2>1, <2>4 DEF Inside
<1>8. /\ \A x \in OwnOf(c, M) : Within(Plain(x), Plain(Cut(t, lo, hi)))
      /\ VerbsOf(c, M) # {} => \E x \in VerbsOf(c, M) : Within(Plain(x), Plain(Cut(t, lo, hi)))
  BY <1>3, <1>4 DEF ReadOff
<1>9. Null # "verbs"
  BY SpanAssumption
<1>10. ASSUME NEW i \in DOMAIN as, as[i].hard
       PROVE  \E j \in d.met : j = i \/ (as[i].group # Null /\ as[j].group = as[i].group)
  <2>1. CASE as[i].group = Null /\ as[i].text \in OwnOf(c, M)
    BY <1>7, <1>8, <2>1
  <2>2. CASE as[i].group = "verbs" /\ as[i].text \in VerbsOf(c, M)
    <3>1. PICK x \in VerbsOf(c, M) : Within(Plain(x), Plain(Cut(t, lo, hi)))
      BY <1>8, <2>2
    <3>2. PICK j \in DOMAIN as : as[j].text = x /\ as[j].group = "verbs"
      BY <1>a
    <3>3. j \in d.met
      BY <1>7, <3>1, <3>2
    <3> QED
      BY <1>9, <2>2, <3>2, <3>3
  <2> QED
    BY <1>a, <1>10, <2>1, <2>2
<1>11. Proves(d, as)
  BY <1>10 DEF Proves
<1>12. \E i \in DOMAIN as : as[i].hard
  <2>1. PICK x \in OwnOf(c, M) \cup VerbsOf(c, M) : TRUE
    OBVIOUS
  <2> QED
    BY <1>a
<1>13. d.met # {}
  BY <1>10, <1>12
<1>14. as # <<>>
  <2>1. DOMAIN <<>> = {}
    OBVIOUS
  <2> QED
    BY <1>12, <2>1, Zenon
<1>15. d \in Candidates(t, as)
  BY <1>6, <1>13 DEF Candidates
<1>16. Proofs(t, as) # {}
  BY <1>11, <1>14, <1>15, BestProof
<1> QED
  BY <1>2, <1>16

-----------------------------------------------------------------------------
(* What the evidence of a draft is *)

\* The evidence is what align finds in the windows of the draft as it stands.
Evidenced == evidence # Null => result.status = "valid" /\ evidence \in Aligned(result.draft, windows)

\* Once a draft is there, nothing of it changes and nobody returns another.
THEOREM EvidenceInit == Init => Evidenced
BY DEF Init, Evidenced

\* Align writes it; every other step leaves the draft, its windows and it alone.
THEOREM EvidenceStep == MapInv /\ Evidenced /\ [Next]_vars => Evidenced'
<1> SUFFICES ASSUME MapInv, Evidenced, [Next]_vars PROVE Evidenced'
  OBVIOUS
<1>1. CASE UNCHANGED <<text, windows, result, evidence>>
  <2>1. Aligned(result.draft, windows)' = Aligned(result.draft, windows)
    BY <1>1 DEF Aligned
  <2> QED
    BY <1>1, <2>1 DEF Evidenced
<1>2. CASE result.status = "running" /\ evidence' = evidence
  BY <1>2 DEF Evidenced
<1>3. ASSUME Align PROVE Evidenced'
  <2>1. result.status = "valid" /\ UNCHANGED <<text, windows, result>>
    BY <1>3 DEF Align
  <2>2. RefSpans(text, result.refs) = windows
    BY <2>1, InvLeadBack DEF RefsLeadBack
  <2>3. windows # Null
    <3>1. windows \in Seq(Nat \X Nat)
      BY Windows DEF MapInv
    <3> QED
      BY <3>1, SpanAssumption
  <2>4. evidence' \in Aligned(result.draft, windows)
    BY <1>3, <2>2, <2>3 DEF Align
  <2>5. Aligned(result.draft, windows)' = Aligned(result.draft, windows)
    BY <2>1 DEF Aligned
  <2> QED
    BY <2>1, <2>4, <2>5 DEF Evidenced
<1>4. ASSUME NEW i \in DOMAIN windows, Request(i) PROVE UNCHANGED <<text, windows, result, evidence>>
  BY <1>4 DEF Request
<1>5. ASSUME NEW i \in DOMAIN windows, GiveUp(i) PROVE result.status = "running" /\ evidence' = evidence
  BY <1>5 DEF GiveUp, Running
<1>6. ASSUME Unparsed \/ Invalid \/ Repair \/ Finish PROVE result.status = "running" /\ evidence' = evidence
  BY <1>6 DEF Unparsed, Invalid, Repair, Finish, Return, Complete, Running
<1>7. UNCHANGED vars => UNCHANGED <<text, windows, result, evidence>>
  BY DEF vars
<1> QED
  BY <1>1, <1>2, <1>3, <1>4, <1>5, <1>6, <1>7 DEF Next

\* The mentions of a draft are those of the answers it is made of.
LEMMA MergedMentions ==
  ASSUME Shape, windows # <<>>, \A i \in DOMAIN windows : part[i] \in Answers
  PROVE  /\ Range(Merged.mentions) = UNION {Range(part[i].mentions) : i \in DOMAIN windows}
         /\ \E R : Merged.mentions \in Seq(R)
<1> DEFINE ps == [i \in DOMAIN windows |-> part[i]]
           ms == [i \in DOMAIN ps |-> ps[i].mentions]
           all == UNION {Range(part[i].mentions) : i \in DOMAIN windows}
<1>1. Len(windows) \in Nat /\ DOMAIN windows = 1..Len(windows) /\ windows \in Seq(Nat \X Nat)
  BY Windows
<1>2. Merged.mentions = FlattenSeq(ms)
  BY DEF Merged, Merge
<1>3. DOMAIN ms = DOMAIN windows /\ \A i \in DOMAIN windows : ms[i] = part[i].mentions
  OBVIOUS
<1>4. \A i \in DOMAIN windows : ms[i] \in Seq(all)
  <2> TAKE i \in DOMAIN windows
  <2>1. part[i].mentions \in Seq(Range(part[i].mentions))
    BY MapAssumption
  <2>2. Range(part[i].mentions) \subseteq all
    OBVIOUS
  <2> HIDE DEF ms, all
  <2> QED
    BY <1>3, <2>1, <2>2
<1>5. Len(windows) # 0
  BY <1>1, EmptySeq
<1>6. ms \in Seq(Seq(all)) /\ ms # <<>>
  <2>1. ms = [i \in 1..Len(windows) |-> ms[i]]
    BY <1>1, <1>3
  <2>2. 1 \in DOMAIN ms
    BY <1>1, <1>3, <1>5
  <2> HIDE DEF ms, all
  <2>3. ms \in Seq(Seq(all))
    BY <1>1, <1>4, <2>1
  <2> QED
    BY <2>2, <2>3
<1> HIDE DEF ms
<1>7. PICK R : R = all
  OBVIOUS
<1>8. ms \in Seq(Seq(R)) /\ ms # <<>>
  BY <1>6, <1>7
<1>9. Range(FlattenSeq(ms)) = UNION {Range(ms[i]) : i \in DOMAIN ms}
  BY <1>8, FlattenRange
<1>10. FlattenSeq(ms) \in Seq(R)
  BY <1>8, FlattenRange
<1>11. UNION {Range(ms[i]) : i \in DOMAIN ms} = all
  <2>1. \A x : x \in UNION {Range(ms[i]) : i \in DOMAIN ms} <=> \E i \in DOMAIN ms : x \in Range(ms[i])
    BY Zenon
  <2>2. \A x : x \in all <=> \E i \in DOMAIN windows : x \in Range(part[i].mentions)
    BY Zenon
  <2>3. \A x : x \in UNION {Range(ms[i]) : i \in DOMAIN ms} <=> x \in all
    BY <1>3, <2>1, <2>2, Zenon
  <2> QED
    BY <2>3
<1> QED
  BY <1>2, <1>9, <1>10, <1>11

\* A claim of a draft is one the lemmas above are about, with the mentions of the draft.
LEMMA DraftClaim ==
  ASSUME MapInv, result.status = "valid", NEW c \in Draft.claims
  PROVE  LET M == Range(Draft.mentions)
         IN /\ ClaimOf(c, M)
            /\ Names(c) = NamesOf(c, M) /\ Verbs(c) = VerbsOf(c, M)
            /\ c.ref \in {Null} \cup DOMAIN windows
<1>1. /\ Shape /\ windows # <<>> /\ \A i \in DOMAIN windows : part[i] \in Answers
      /\ Valid(Merged) /\ Draft.mentions = Merged.mentions
      /\ Draft.claims \subseteq Range(Merged.claims)
  BY DEF MapInv, Made, Draft
<1>2. PICK M : M = Range(Draft.mentions)
  OBVIOUS
<1>3. Names(c) = NamesOf(c, M) /\ Verbs(c) = VerbsOf(c, M)
  BY <1>2 DEF Names, NamesOf, Verbs, VerbsOf
<1>4. c \in Range(Merged.claims) /\ c.ref \in {Null} \cup DOMAIN windows
  BY <1>1 DEF Valid
<1>5. PICK j \in DOMAIN windows : c \in Range(part[j].claims)
  <2>1. c \in Answered
    BY <1>1, <1>4, MergedClaims
  <2>2. DOMAIN part = DOMAIN windows
    BY <1>1 DEF Shape
  <2> QED
    BY <2>1, <2>2 DEF Answered
<1>6. c \in UNION {Range(a.claims) : a \in Answers}
  BY <1>1, <1>5
<1>7. /\ c.names \in Seq(Range(c.names)) /\ c.verbs \in Seq(Range(c.verbs))
      /\ c.quote \in Seq(Range(c.quote)) /\ \A v \in Range(c.verbs) : v \in Seq(Range(v))
  BY <1>6, MapAssumption
<1>8. ASSUME NEW x \in M, NEW y \in M, x.id = y.id PROVE x = y
  <2>1. PICK i \in DOMAIN Merged.mentions : x = Merged.mentions[i]
    BY <1>1, <1>2 DEF Range
  <2>2. PICK k \in DOMAIN Merged.mentions : y = Merged.mentions[k]
    BY <1>1, <1>2 DEF Range
  <2>3. Merged.mentions[i].id = Merged.mentions[k].id => i = k
    BY <1>1 DEF Valid, Distinct
  <2> QED
    BY <1>8, <2>1, <2>2, <2>3
<1>9. ASSUME NEW m \in M PROVE m.surface \in Seq(Range(m.surface))
  <2>1. m \in UNION {Range(part[i].mentions) : i \in DOMAIN windows}
    BY <1>1, <1>2, MergedMentions
  <2>2. PICK i \in DOMAIN windows : m \in Range(part[i].mentions)
    BY <2>1
  <2>3. m \in UNION {Range(a.mentions) : a \in Answers}
    BY <1>1, <2>2
  <2> QED
    BY <2>3, MapAssumption
<1>10. ASSUME NEW x \in OwnOf(c, M) \cup VerbsOf(c, M) PROVE x \in Seq(Range(x))
  <2>1. CASE x \in NamesOf(c, M)
    BY <1>9, <2>1 DEF NamesOf
  <2>2. CASE x \in Quoted(c)
    BY <1>7, <2>2 DEF Quoted
  <2>3. CASE x \in VerbsOf(c, M)
    BY <1>7, <2>3 DEF VerbsOf
  <2> QED
    BY <2>1, <2>2, <2>3 DEF OwnOf
<1>11. ClaimOf(c, M)
  BY <1>7, <1>8, <1>10 DEF ClaimOf
<1> QED
  BY <1>2, <1>3, <1>4, <1>11

\* A piece of a window is a piece of the chapter.
LEMMA PieceOfWindow ==
  ASSUME MapInv, NEW i \in DOMAIN windows
  PROVE  \E lo \in Nat, hi \in Nat : \E t \in Seq(Range(text)) :
           /\ lo = windows[i][1] /\ hi = windows[i][2] /\ lo <= hi
           /\ t = Cut(text, lo, hi) /\ Len(t) = hi - lo
           /\ \A a \in 0..Len(t) : \A b \in a..Len(t) : Cut(t, a, b) = Cut(text, lo + a, lo + b)
<1>1. /\ text \in Seq(Range(text)) /\ Tiling(windows, 0, Len(text), Window)
      /\ DOMAIN windows = 1..Len(windows) /\ windows \in Seq(Nat \X Nat)
  BY Windows DEF MapInv
<1>2. PICK L \in Nat : L = Len(text)
  BY <1>1, LenProperties
<1>3. PICK lo \in Nat : lo = windows[i][1]
  BY <1>1
<1>4. PICK hi \in Nat : hi = windows[i][2]
  BY <1>1
<1>5. lo < hi /\ hi <= L
  BY <1>1, <1>2, <1>3, <1>4 DEF Tiling
<1>6. PICK X : X = Range(text)
  OBVIOUS
<1>7. text \in Seq(X) /\ lo \in 0..Len(text) /\ hi \in lo..Len(text)
  BY <1>1, <1>2, <1>5, <1>6
<1>8. PICK t \in Seq(X) : t = Cut(text, lo, hi) /\ Len(t) = hi - lo
  BY <1>7, Pieces
<1>9. ASSUME NEW a \in 0..Len(t), NEW b \in a..Len(t) PROVE Cut(t, a, b) = Cut(text, lo + a, lo + b)
  <2>1. a \in Nat /\ b \in Nat /\ a <= b /\ b <= hi - lo
    BY <1>5, <1>8
  <2> QED
    BY <1>7, <1>8, <2>1, CutCut
<1>10. lo <= hi
  BY <1>5
<1>11. \A a \in 0..Len(t) : \A b \in a..Len(t) : Cut(t, a, b) = Cut(text, lo + a, lo + b)
  BY <1>9
<1> QED
  BY <1>3, <1>4, <1>6, <1>8, <1>10, <1>11

\* What align finds in the windows of a draft is a proof, and there if a sentence is.
LEMMA AlignedProves == ASSUME MapInv, Evidenced PROVE EvidenceIsProof
<1> SUFFICES ASSUME evidence # Null PROVE EvidenceIsProof
  BY DEF EvidenceIsProof
<1>1. result.status = "valid" /\ evidence \in Aligned(Draft, windows)
  BY DEF Evidenced, Draft
<1>2. PICK M : M = Range(Draft.mentions)
  OBVIOUS
<1> DEFINE Proven(c) ==
             IF c.ref \notin DOMAIN windows THEN {}
             ELSE {<<windows[c.ref][1] + p[1], windows[c.ref][1] + p[2]>>
                   : p \in Proofs(Cut(text, windows[c.ref][1], windows[c.ref][2]),
                                  Anchors(c, Range(Draft.mentions)))}
           cs == {c \in Draft.claims : Proven(c) # {}}
<1>3. Aligned(Draft, windows) = {f \in [cs -> UNION {Proven(c) : c \in cs}] : \A c \in cs : f[c] \in Proven(c)}
  BY Zenon DEF Aligned
<1>4. DOMAIN evidence = cs /\ \A c \in cs : evidence[c] \in Proven(c)
  <2> HIDE DEF cs, Proven
  <2> QED
    BY <1>1, <1>3
<1>5. ASSUME NEW c \in cs
      PROVE  ProvenBy(c, evidence[c]) /\ Inside(evidence[c], windows[c.ref][1], windows[c.ref][2])
  <2>1. c \in Draft.claims /\ evidence[c] \in Proven(c)
    BY <1>4
  <2>2. c.ref \in DOMAIN windows
    BY <2>1
  <2>3. PICK i \in DOMAIN windows : i = c.ref
    BY <2>2
  <2>4. PICK lo \in Nat, hi \in Nat : \E t \in Seq(Range(text)) :
           /\ lo = windows[i][1] /\ hi = windows[i][2] /\ lo <= hi
           /\ t = Cut(text, lo, hi) /\ Len(t) = hi - lo
           /\ \A a \in 0..Len(t) : \A b \in a..Len(t) : Cut(t, a, b) = Cut(text, lo + a, lo + b)
    BY PieceOfWindow
  <2>5. PICK t \in Seq(Range(text)) :
           /\ lo = windows[i][1] /\ hi = windows[i][2] /\ lo <= hi
           /\ t = Cut(text, lo, hi) /\ Len(t) = hi - lo
           /\ \A a \in 0..Len(t) : \A b \in a..Len(t) : Cut(t, a, b) = Cut(text, lo + a, lo + b)
    BY <2>4
  <2>6. PICK p \in Proofs(t, Anchors(c, M)) : evidence[c] = <<lo + p[1], lo + p[2]>>
    BY <1>2, <2>1, <2>2, <2>3, <2>5
  <2>7. ClaimOf(c, M) /\ Names(c) = NamesOf(c, M) /\ Verbs(c) = VerbsOf(c, M)
    BY <1>1, <1>2, <2>1, DraftClaim
  <2>8. PICK X : X = Range(text)
    OBVIOUS
  <2>9. t \in Seq(X)
    BY <2>8
  <2>10. /\ p[1] \in 0..Len(t) /\ p[2] \in p[1]..Len(t)
         /\ ReadOff(c, M, t, p[1], p[2])
    BY <2>7, <2>9, ProofReads
  <2>11. PICK e : e = evidence[c]
    OBVIOUS
  <2>12. e[1] = lo + p[1] /\ e[2] = lo + p[2]
    BY <2>6, <2>11
  <2>13. Cut(t, p[1], p[2]) = Cut(text, e[1], e[2])
    BY <2>5, <2>10, <2>12
  <2>14. \A x : Met(x, e) <=> Within(Plain(x), Plain(Cut(t, p[1], p[2])))
    BY <2>13 DEF Met
  <2>15. ProvenBy(c, e)
    <3>1. \A x \in Names(c) \cup Quoted(c) : Met(x, e)
      BY <2>7, <2>10, <2>14 DEF ReadOff, OwnOf
    <3>2. Verbs(c) # {} => \E x \in Verbs(c) : Met(x, e)
      BY <2>7, <2>10, <2>14 DEF ReadOff
    <3> QED
      BY <3>1, <3>2 DEF ProvenBy
  <2>16. Inside(e, lo, hi)
    <3>1. PICK a \in Nat : a = p[1]
      BY <2>9, <2>10, LenProperties
    <3>2. PICK b \in Nat : b = p[2] /\ b <= hi - lo
      BY <2>5, <2>10, <3>1
    <3> QED
      BY <2>12, <3>1, <3>2 DEF Inside
  <2> QED
    BY <2>3, <2>5, <2>11, <2>15, <2>16
<1>6. ASSUME NEW c \in Draft.claims, c.ref # Null, Anchored(c), Told(c) PROVE c \in cs
  <2>1. /\ ClaimOf(c, M) /\ Names(c) = NamesOf(c, M) /\ Verbs(c) = VerbsOf(c, M)
        /\ c.ref \in {Null} \cup DOMAIN windows
    BY <1>1, <1>2, DraftClaim
  <2>2. PICK i \in DOMAIN windows : i = c.ref
    BY <1>6, <2>1
  <2>3. PICK lo \in Nat, hi \in Nat : \E t \in Seq(Range(text)) :
           /\ lo = windows[i][1] /\ hi = windows[i][2] /\ lo <= hi
           /\ t = Cut(text, lo, hi) /\ Len(t) = hi - lo
           /\ \A a \in 0..Len(t) : \A b \in a..Len(t) : Cut(t, a, b) = Cut(text, lo + a, lo + b)
    BY PieceOfWindow
  <2>4. PICK t \in Seq(Range(text)) :
           /\ lo = windows[i][1] /\ hi = windows[i][2] /\ lo <= hi
           /\ t = Cut(text, lo, hi) /\ Len(t) = hi - lo
           /\ \A a \in 0..Len(t) : \A b \in a..Len(t) : Cut(t, a, b) = Cut(text, lo + a, lo + b)
    BY <2>3
  <2>5. Scope(c) = t
    BY <2>2, <2>4 DEF Scope
  <2>6. PICK s \in Sentences(t) : ProvenBy(c, <<lo + s[1], lo + s[2]>>)
    BY <1>6, <2>2, <2>4, <2>5 DEF Told
  <2>7. PICK X : X = Range(text)
    OBVIOUS
  <2>8. t \in Seq(X)
    BY <2>7
  <2>9. s[1] \in 0..Len(t) /\ s[2] \in s[1]..Len(t)
    BY <2>8, SentenceIn
  <2>10. PICK e : e = <<lo + s[1], lo + s[2]>>
    OBVIOUS
  <2>11. Cut(t, s[1], s[2]) = Cut(text, e[1], e[2])
    BY <2>4, <2>9, <2>10
  <2>12. \A x : Met(x, e) <=> Within(Plain(x), Plain(Cut(t, s[1], s[2])))
    BY <2>11 DEF Met
  <2>13. ReadOff(c, M, t, s[1], s[2])
    <3>1. \A x \in OwnOf(c, M) : Met(x, e)
      BY <2>1, <2>6, <2>10 DEF ProvenBy, OwnOf
    <3>2. VerbsOf(c, M) # {} => \E x \in VerbsOf(c, M) : Met(x, e)
      BY <2>1, <2>6, <2>10 DEF ProvenBy
    <3> QED
      BY <2>12, <3>1, <3>2 DEF ReadOff
  <2>14. /\ OwnOf(c, M) \cup VerbsOf(c, M) # {}
         /\ \A x \in OwnOf(c, M) \cup VerbsOf(c, M) : Plain(x) # <<>>
    BY <1>6, <2>1 DEF Anchored, OwnOf
  <2>15. Proofs(t, Anchors(c, M)) # {}
    BY <2>1, <2>8, <2>13, <2>14, ReadsProof
  <2>16. Proven(c) # {}
    BY <1>2, <2>2, <2>4, <2>15
  <2> HIDE DEF Proven
  <2> QED
    BY <2>16
<1> HIDE DEF cs, Proven
<1> QED
  BY <1>4, <1>5, <1>6 DEF EvidenceIsProof

\* Whatever the chapter, the windows and the answers: the span of a claim has all that
\* proves the claim and lies in its window, and a claim that one sentence of its window
\* proves has a span.
THEOREM EvidenceIsAProof == Spec => []EvidenceIsProof
<1>1. MapInv /\ Evidenced => EvidenceIsProof
  BY AlignedProves
<1>2. Spec => []Evidenced
  BY EvidenceInit, EvidenceStep, MapInvariant, PTL DEF Spec
<1> QED
  BY <1>1, <1>2, MapInvariant, PTL

-----------------------------------------------------------------------------
(* The volumes of a file *)

\* Numbers have a bound.
LEMMA Bounded ==
  ASSUME NEW n \in Nat, NEW f, \A i \in 1..n : f[i] \in Nat
  PROVE  \E b \in Nat : \A i \in 1..n : f[i] <= b
<1> DEFINE H == {k \in 0..n : \E b \in Nat : \A i \in 1..k : f[i] <= b}
<1>1. 0 \in H
  <2>1. \A i \in 1..0 : f[i] <= 0
    OBVIOUS
  <2> QED
    BY <2>1
<1>2. ASSUME NEW k \in 0..n, k \in H, k # n PROVE k + 1 \in H
  <2>1. PICK b \in Nat : \A i \in 1..k : f[i] <= b
    BY <1>2
  <2>2. k + 1 \in 1..n /\ k + 1 \in 0..n
    BY <1>2
  <2>3. PICK c \in Nat : c = f[k + 1]
    BY <2>2
  <2>4. PICK d \in Nat : b <= d /\ c <= d
    <3>1. b <= b + c /\ c <= b + c /\ b + c \in Nat
      OBVIOUS
    <3> QED
      BY <3>1
  <2>5. ASSUME NEW i \in 1..(k + 1) PROVE f[i] <= d
    <3>1. CASE i = k + 1
      BY <2>3, <2>4, <3>1
    <3>2. CASE i # k + 1
      <4>1. i \in 1..k /\ i \in 1..n
        BY <1>2, <3>2
      <4>2. f[i] <= b /\ f[i] \in Nat
        BY <2>1, <4>1
      <4> QED
        BY <2>4, <4>2
    <3> QED
      BY <3>1, <3>2
  <2> QED
    BY <2>2, <2>5
<1>3. \A k \in 0..n : k \in H
  <2> HIDE DEF H
  <2> QED
    BY <1>1, <1>2, UpTo
<1>4. n \in 0..n
  OBVIOUS
<1>5. n \in H
  BY <1>3, <1>4
<1> QED
  <2> HIDE DEF H
  <2>1. n \in {k \in 0..n : \E b \in Nat : \A i \in 1..k : f[i] <= b}
    BY <1>5 DEF H
  <2> QED
    BY <2>1

\* The volumes of a file are under the numbers before those its chapters know.
LEMMA VolumesAre ==
  ASSUME NEW X, NEW cs \in Seq(X), NEW txt,
         \A i \in DOMAIN cs : cs[i].ordinal \in Nat \cup {NoVolume}
  PROVE  Numbered(ParsedBook(txt, cs))
<1> DEFINE named == {c.ordinal : c \in Range(cs)} \ {NoVolume}
           M == Max({0} \cup named)
           used == Only([k \in 1..M |-> k], named)
           First(n) == cs[Min({i \in DOMAIN cs : cs[i].ordinal = n})]
           vs == [k \in DOMAIN used |-> [ordinal |-> used[k] - 1, title |-> First(used[k]).volume]]
           f == ParsedBook(txt, cs)
<1>1. f.chapters = cs /\ f.volumes = vs
  BY DEF ParsedBook, VolumesOf
<1>2. PICK n \in Nat : DOMAIN cs = 1..n
  BY LenProperties
<1>3. \A x \in named : x \in Nat /\ \E i \in 1..n : cs[i].ordinal = x
  BY <1>2 DEF Range
<1> HIDE DEF named
<1>4. M \in Nat
  <2> DEFINE g == [i \in 1..n |-> IF cs[i].ordinal = NoVolume THEN 0 ELSE cs[i].ordinal]
  <2>1. \A i \in 1..n : g[i] \in Nat
    BY <1>2
  <2>2. PICK b \in Nat : \A i \in 1..n : g[i] <= b
    <3> HIDE DEF g
    <3> QED
      BY <2>1, Bounded
  <2>3. \A x \in named : x <= b
    <3> TAKE x \in named
    <3>1. PICK i \in 1..n : cs[i].ordinal = x
      BY <1>3
    <3>2. x # NoVolume
      BY DEF named
    <3>3. g[i] = x
      BY <3>1, <3>2
    <3> QED
      BY <2>2, <3>3
  <2> DEFINE T == {0} \cup named
  <2>4. T \in SUBSET (0..b) /\ T # {}
    BY <1>3, <2>3
  <2>5. Max(T) \in T
    <3> HIDE DEF T
    <3> QED
      BY <2>4, Extremes
  <2> QED
    BY <2>4, <2>5
<1> HIDE DEF M
<1>5. used \in Seq(named) /\ used \in Seq(1..M)
  <2>1. PICK D : D = 1..M
    OBVIOUS
  <2>2. [k \in 1..M |-> k] \in Seq(D)
    BY <1>4, <2>1
  <2>3. used \in Seq(D \cap named)
    BY <2>2, OnlyIn
  <2>4. PICK E : E = D \cap named
    OBVIOUS
  <2>5. DOMAIN used = 1..Len(used) /\ Len(used) \in Nat /\ (\A k \in 1..Len(used) : used[k] \in E) /\ used = [k \in 1..Len(used) |-> used[k]]
    BY <2>3, <2>4, LenProperties
  <2> HIDE DEF used
  <2>6. used \in Seq(named)
    BY <2>4, <2>5
  <2>7. used \in Seq(D)
    BY <2>4, <2>5
  <2> QED
    BY <2>1, <2>6, <2>7
<1> HIDE DEF used
<1>6. /\ DOMAIN used = 1..Len(used) /\ Len(used) \in Nat
      /\ \A k \in 1..Len(used) : used[k] \in named /\ used[k] \in 1..M
  BY <1>5, LenProperties
<1>7. DOMAIN vs = 1..Len(used)
  BY <1>6
<1>8. vs \in Seq(Range(vs))
  <2>1. PICK R : R = Range(vs)
    OBVIOUS
  <2>2. \A k \in 1..Len(used) : vs[k] \in R
    BY <1>7, <2>1 DEF Range
  <2>3. vs = [k \in 1..Len(used) |-> vs[k]]
    BY <1>7
  <2> HIDE DEF vs
  <2>4. vs \in Seq(R)
    BY <1>6, <2>2, <2>3
  <2> QED
    BY <2>1, <2>4
<1>9. Ordinals(f) \subseteq Nat \cup {NoVolume} /\ named \subseteq Ordinals(f)
  <2>1. Ordinals(f) = {c.ordinal : c \in Range(cs)}
    BY <1>1 DEF Ordinals
  <2>2. \A c \in Range(cs) : c.ordinal \in Nat \cup {NoVolume}
    BY DEF Range
  <2> QED
    BY <2>1, <2>2 DEF named
<1>10. ASSUME NEW x \in Range(vs) PROVE x.ordinal \in Nat /\ x.ordinal + 1 \in Ordinals(f)
  <2>1. PICK k \in 1..Len(used) : x = vs[k]
    BY <1>7 DEF Range
  <2>2. x.ordinal = used[k] - 1
    BY <1>7, <2>1
  <2>3. used[k] \in named /\ used[k] \in 1..M
    BY <1>6
  <2>4. used[k] - 1 \in Nat /\ (used[k] - 1) + 1 = used[k]
    BY <1>4, <2>3
  <2> QED
    BY <1>9, <2>2, <2>3, <2>4
<1> HIDE DEF vs
<1>11. Numbered(f)
  <2> HIDE DEF f
  <2> QED
    BY <1>1, <1>8, <1>9, <1>10 DEF Numbered
<1> QED
  BY <1>11

\* The texts of a file: the number of a volume is that of its title.
LEMMA TxtNumbered == ASSUME NEW txt \in Seq(Kinds) PROVE Numbered(ParseTxt(txt))
<1> DEFINE marks == LinesOf(txt, "volume")
           Above(lo) == {v \in DOMAIN marks : marks[v] <= lo}
           Volume(lo) == IF Above(lo) = {} THEN NoVolume ELSE Max(Above(lo))
           cands == SplitByTitles(txt)
           cs == [i \in DOMAIN cands |->
                   Chapter(txt, cands[i].lo, cands[i].hi, Volume(cands[i].lo), Volume(cands[i].lo))]
<1>1. ParseTxt(txt) = ParsedBook(txt, cs)
  BY DEF ParseTxt
<1>2. PICK n \in Nat : DOMAIN marks = 1..n
  BY LinesAre, LenProperties
<1>3. ASSUME NEW lo PROVE Volume(lo) \in Nat \cup {NoVolume}
  <2>1. CASE Above(lo) = {}
    BY <2>1
  <2>2. CASE Above(lo) # {}
    <3>1. Above(lo) \in SUBSET (0..n)
      BY <1>2
    <3> HIDE DEF Above
    <3>2. PICK A \in SUBSET (0..n) : A = Above(lo) /\ A # {}
      BY <2>2, <3>1
    <3>3. Max(A) \in A
      BY <3>2, Extremes
    <3>4. Max(Above(lo)) \in Nat
      BY <3>2, <3>3
    <3> QED
      BY <2>2, <3>4
  <2> QED
    BY <2>1, <2>2
<1> HIDE DEF Volume
<1>4. PICK m \in Nat : DOMAIN cands = 1..m
  <2>1. cands \in Seq(Spans)
    BY SplitTiles
  <2> QED
    BY <2>1, LenProperties
<1>5. \A i \in 1..m : cs[i].ordinal \in Nat \cup {NoVolume}
  BY <1>3, <1>4 DEF Chapter
<1> DEFINE R == Range(cs)
<1>6. cs \in Seq(R) /\ DOMAIN cs = 1..m
  <2>1. DOMAIN cs = 1..m
    BY <1>4
  <2>2. \A i \in 1..m : cs[i] \in R
    BY <2>1 DEF Range
  <2>3. cs = [i \in 1..m |-> cs[i]]
    BY <1>4
  <2> HIDE DEF cs, R
  <2> QED
    BY <2>1, <2>2, <2>3
<1> HIDE DEF cs
<1> QED
  BY <1>1, <1>5, <1>6, VolumesAre

\* What a table of contents makes of an entry.
LEMMA MetaIs ==
  ASSUME NEW toc \in Seq([volume : BOOLEAN, entries : Seq(SUBSET Nat)]), NEW e
  PROVE  Meta(toc, e).ordinal \in Nat \cup {NoVolume}
<1> DEFINE Points(v) == {k \in DOMAIN toc[v].entries : e \in toc[v].entries[k]}
           at == {v \in DOMAIN toc : Points(v) # {}}
           last == Max(at)
           named == at # {} /\ toc[last].volume
           place == Max(Points(last))
<1>1. Meta(toc, e).ordinal = IF named THEN place ELSE NoVolume
  BY DEF Meta
<1>2. ASSUME named PROVE place \in Nat
  <2>1. PICK n \in Nat : DOMAIN toc = 1..n
    BY LenProperties
  <2>2. at \in SUBSET (0..n) /\ at # {}
    BY <1>2, <2>1
  <2>3. last \in at
    <3> HIDE DEF at
    <3> QED
      BY <2>2, Extremes
  <2>4. PICK es \in Seq(SUBSET Nat) : Points(last) = {k \in DOMAIN es : e \in es[k]} /\ Points(last) # {}
    <3>1. last \in DOMAIN toc /\ Points(last) # {}
      BY <2>3
    <3> HIDE DEF last
    <3>2. toc[last] \in [volume : BOOLEAN, entries : Seq(SUBSET Nat)]
      <4>1. toc \in [1..n -> [volume : BOOLEAN, entries : Seq(SUBSET Nat)]]
        BY <2>1, LenProperties
      <4> QED
        BY <2>1, <3>1, <4>1
    <3> QED
      BY <3>1, <3>2
  <2>5. PICK m \in Nat : DOMAIN es = 1..m
    BY LenProperties
  <2>6. PICK T : T = Points(last) /\ T # {} /\ T = {k \in DOMAIN es : e \in es[k]}
    BY <2>4
  <2> HIDE DEF last, Points
  <2>7. T \in SUBSET (0..m)
    BY <2>5, <2>6
  <2>8. Max(T) \in 0..m
    BY <2>5, <2>6, <2>7, Extremes
  <2>9. place = Max(T)
    BY <2>6
  <2> HIDE DEF place
  <2> QED
    BY <2>5, <2>8, <2>9
<1> QED
  BY <1>1, <1>2

\* Every file has its volumes under the numbers before those its chapters know.
LEMMA ParsedNumbered == ASSUME NEW s \in Sources PROVE Numbered(Parse(s))
<1>1. CASE s.format = "txt"
  <2>1. s.lines \in Seq(Kinds) /\ Parse(s) = ParseTxt(s.lines)
    BY <1>1, ImportAssumption DEF Parse
  <2> QED
    BY <2>1, TxtNumbered
<1>2. CASE s.format # "txt"
  <2>1. /\ s.spine \in Seq(Seq(Kinds)) /\ s.toc \in Seq([volume : BOOLEAN, entries : Seq(SUBSET Nat)])
        /\ Parse(s) = ParseEpub(s.spine, s.toc)
    BY <1>2, ImportAssumption DEF Parse
  <2>2. PICK f : f = ParseEpub(s.spine, s.toc)
    OBVIOUS
  <2>3. /\ WellCut(f) /\ f = ParsedBook(f.text, f.chapters)
        /\ \A c \in Range(f.chapters) : c.ordinal = NoVolume \/ \E e : c.ordinal = Meta(s.toc, e).ordinal
    BY <2>1, <2>2, EpubIsCut
  <2>4. \A c \in Range(f.chapters) : c.ordinal \in Nat \cup {NoVolume}
    BY <2>1, <2>3, MetaIs
  <2>5. \A i \in DOMAIN f.chapters : f.chapters[i].ordinal \in Nat \cup {NoVolume}
    BY <2>4 DEF Range
  <2>6. f.chapters \in Seq(Range(f.chapters))
    BY <2>3 DEF WellCut
  <2>7. Numbered(ParsedBook(f.text, f.chapters))
    BY <2>5, <2>6, VolumesAre
  <2> QED
    BY <2>1, <2>2, <2>3, <2>7
<1> QED
  BY <1>1, <1>2

-----------------------------------------------------------------------------
(* Groups of chapters *)

\* The stored chapters in their order.
LEMMA InOrderIs ==
  ASSUME NEW N \in Nat, DOMAIN file.chapters = 1..N, NEW n \in 0..N, DOMAIN chapters = 0..n - 1
  PROVE  InOrder = [k \in 1..n |-> k - 1]
<1> DEFINE a == [k \in 1..n |-> k - 1]
           b == [k \in 1..(N - n) |-> n + k - 1]
           s == [k \in 1..N |-> k - 1]
           T == 0..n - 1
           R == Nat \ T
<1>1. InOrder = Only(s, T)
  BY DEF InOrder
<1>2. a \in Seq(T) /\ a \in Seq(Nat) /\ Len(a) = n /\ \A k \in 1..n : a[k] = k - 1
  <2>1. \A k \in 1..n : k - 1 \in T /\ k - 1 \in Nat
    OBVIOUS
  <2> HIDE DEF T
  <2> QED
    BY <2>1
<1>3. b \in Seq(R) /\ b \in Seq(Nat) /\ Len(b) = N - n /\ \A k \in 1..(N - n) : b[k] = n + k - 1
  <2>1. \A k \in 1..(N - n) : n + k - 1 \in R /\ n + k - 1 \in Nat
    OBVIOUS
  <2>2. PICK m \in Nat : m = N - n
    OBVIOUS
  <2>3. b = [k \in 1..m |-> n + k - 1] /\ \A k \in 1..m : n + k - 1 \in R /\ n + k - 1 \in Nat
    BY <2>1, <2>2
  <2> HIDE DEF T, R, b
  <2>4. b = [k \in 1..m |-> b[k]] /\ \A k \in 1..m : b[k] \in R /\ b[k] \in Nat
    BY <2>3
  <2>5. b \in Seq(R)
    BY <2>4
  <2>6. b \in Seq(Nat) /\ Len(b) = m
    BY <2>4
  <2> QED
    BY <2>2, <2>3, <2>5, <2>6
<1>4. s \in Seq(Nat) /\ Len(s) = N /\ \A k \in 1..N : s[k] = k - 1
  <2>1. \A k \in 1..N : k - 1 \in Nat
    OBVIOUS
  <2> QED
    BY <2>1
<1> HIDE DEF a, b, s
<1>5. s = a \o b
  <2>0. a \in Seq(Nat) /\ b \in Seq(Nat) /\ Len(a) = n /\ Len(b) = N - n
    BY <1>2, <1>3
  <2>1. /\ a \o b \in Seq(Nat) /\ Len(a \o b) = n + (N - n)
        /\ \A k \in 1..(n + (N - n)) : (a \o b)[k] = IF k <= n THEN a[k] ELSE b[k - n]
    <3>1. PICK x \in Seq(Nat) : x = a /\ Len(x) = n
      BY <2>0
    <3>2. PICK y \in Seq(Nat) : y = b /\ Len(y) = N - n
      BY <2>0
    <3>3. /\ x \o y \in Seq(Nat) /\ Len(x \o y) = Len(x) + Len(y)
          /\ \A k \in 1..Len(x) + Len(y) : (x \o y)[k] = IF k <= Len(x) THEN x[k] ELSE y[k - Len(x)]
      BY ConcatProperties
    <3> QED
      BY <3>1, <3>2, <3>3
  <2>2. n + (N - n) = N
    OBVIOUS
  <2>3. PICK c \in Seq(Nat) : c = a \o b
    BY <2>1
  <2>4. Len(c) = N /\ \A k \in 1..N : c[k] = IF k <= n THEN a[k] ELSE b[k - n]
    BY <2>1, <2>2, <2>3
  <2>5. ASSUME NEW k \in 1..N PROVE s[k] = c[k]
    <3>1. CASE k <= n
      <4>1. k \in 1..n
        BY <3>1
      <4> QED
        BY <1>2, <1>4, <2>4, <3>1, <4>1
    <3>2. CASE ~(k <= n)
      <4>1. PICK m \in 1..(N - n) : m = k - n
        BY <3>2
      <4>2. n + m - 1 = k - 1
        BY <4>1
      <4> QED
        BY <1>3, <1>4, <2>4, <3>2, <4>1, <4>2
    <3> QED
      BY <3>1, <3>2
  <2>6. s = c
    BY <1>4, <2>4, <2>5, SeqEqual
  <2> QED
    BY <2>3, <2>6
<1>6. Only(a, T) = a
  BY <1>2, OnlyAll
<1>7. Only(b, T) = <<>>
  <2>1. PICK Q : Q = R
    OBVIOUS
  <2>2. Only(b, T) \in Seq(Q \cap T)
    BY <1>3, <2>1, OnlyIn
  <2>3. Q \cap T = {}
    BY <2>1
  <2> HIDE DEF T, R
  <2>4. PICK e \in Seq({}) : e = Only(b, T)
    BY <2>2, <2>3
  <2>5. Len(e) \in Nat /\ \A k \in 1..Len(e) : e[k] \in {}
    BY LenProperties
  <2>6. Len(e) = 0
    <3>1. CASE Len(e) # 0
      <4>1. 1 \in 1..Len(e)
        BY <2>5, <3>1
      <4> QED
        BY <2>5, <4>1
    <3> QED
      BY <3>1
  <2>7. e = <<>>
    BY <2>6, EmptySeq
  <2> QED
    BY <2>4, <2>7
<1>8. Only(a \o b, T) = Only(a, T) \o Only(b, T)
  <2> HIDE DEF T
  <2>1. a \in Seq(Nat) /\ b \in Seq(Nat)
    BY <1>2, <1>3
  <2> QED
    BY <2>1, OnlyConcat
<1>9. a \o <<>> = a
  BY <1>2, ConcatEmptySeq
<1> QED
  BY <1>1, <1>5, <1>6, <1>7, <1>8, <1>9 DEF a

\* What a division of numbers gives.
LEMMA DivIs == ASSUME NEW a \in Nat, NEW P \in Nat \ {0}
  PROVE a \div P \in Nat /\ P * (a \div P) <= a /\ a < P * (a \div P) + P
<1>1. PICK q \in Int, r \in 0..P - 1 : q = a \div P /\ a = P * q + r
  <2>1. a = P * (a \div P) + (a % P) /\ a % P \in 0..P - 1 /\ a \div P \in Int
    OBVIOUS
  <2> QED
    BY <2>1
<1>2. q \in Nat
  <2>1. CASE q <= -1
    <3>1. P * q <= -P
      BY <2>1
    <3> QED
      BY <1>1, <3>1
  <2> QED
    BY <2>1
<1> QED
  BY <1>1, <1>2

\* A product grows with its factor.
LEMMA TimesGrows == ASSUME NEW a \in Int, NEW b \in Int, a <= b, NEW P \in Nat PROVE P * a <= P * b
  OBVIOUS

\* Groups of so many: the bounds of the kth of n, and the one a place is in.
LEMMA Shares == ASSUME NEW n \in Nat \ {0}, NEW P \in Nat \ {0}, NEW K \in Nat, K = (n + P - 1) \div P
  PROVE  /\ \A k \in 1..K : P * (k - 1) \in 0..n - 1 /\ P * k \in Nat /\ P * (k - 1) < P * k
         /\ \A o \in 0..n - 1 : \E k \in 1..K : P * (k - 1) <= o /\ o < P * k
         /\ \A j, k \in 1..K : j < k => P * j <= P * (k - 1)
<1>1. PICK m \in Nat : m = n + P - 1
  OBVIOUS
<1>2. P * K <= m /\ m < P * K + P
  BY <1>1, DivIs
<1>3. ASSUME NEW k \in 1..K PROVE P * (k - 1) \in 0..n - 1 /\ P * k \in Nat /\ P * (k - 1) < P * k
  <2>1. P * (k - 1) = P * k - P /\ P * k \in Nat /\ P * (k - 1) \in Nat
    OBVIOUS
  <2>2. P * k <= P * K
    BY TimesGrows
  <2>3. PICK x \in Nat, y \in Nat, z \in Nat : x = P * k /\ y = P * K /\ z = P * (k - 1)
    BY <2>1
  <2>4. z = x - P /\ x <= y /\ y <= n + P - 1
    BY <1>1, <1>2, <2>1, <2>2, <2>3
  <2>5. z \in 0..n - 1 /\ z < x
    BY <2>4
  <2> QED
    BY <2>1, <2>3, <2>5
<1>4. ASSUME NEW o \in 0..n - 1 PROVE \E k \in 1..K : P * (k - 1) <= o /\ o < P * k
  <2>1. PICK q \in Nat : q = o \div P /\ P * q <= o /\ o < P * q + P
    BY DivIs
  <2>2. PICK k \in Nat : k = q + 1
    OBVIOUS
  <2>3. k - 1 = q /\ P * k = P * q + P
    BY <2>2
  <2>4. k <= K
    <3> SUFFICES ASSUME K + 1 <= k PROVE FALSE
      OBVIOUS
    <3>1. P * (K + 1) <= P * k /\ P * (K + 1) = P * K + P
      BY TimesGrows
    <3>2. PICK x \in Nat, y \in Nat, z \in Nat : x = P * k /\ y = P * K /\ z = P * q
      OBVIOUS
    <3>3. y + P <= x /\ x = z + P /\ m < y + P /\ z <= o /\ o <= n - 1 /\ m = n + P - 1
      BY <1>1, <1>2, <2>1, <2>3, <3>1, <3>2
    <3> QED
      BY <3>3
  <2>5. k \in 1..K
    BY <2>2, <2>4
  <2> QED
    BY <2>1, <2>3, <2>5
<1>5. \A j, k \in 1..K : j < k => P * j <= P * (k - 1)
  <2> TAKE j, k \in 1..K
  <2> HAVE j < k
  <2>1. j <= k - 1 /\ j \in Int /\ k - 1 \in Int
    OBVIOUS
  <2> QED
    BY <2>1, TimesGrows
<1> QED
  BY <1>3, <1>4, <1>5

ChapterVolumes == {chapters[o].volume : o \in DOMAIN chapters}
GroupTitle(v, k) == IF v \in Current THEN volumes[v].title ELSE MadeUp(k)
GroupTitles == {GroupTitle(v, k) : v \in ChapterVolumes, k \in Nat}
BoundaryRecord == [volume : ChapterVolumes, title : GroupTitles, from : Nat, to : Nat]
GroupStep(groups, o) ==
    LET v == chapters[o].volume
    IN IF groups # <<>> /\ groups[Len(groups)].volume = v
       THEN [groups EXCEPT ![Len(groups)].to = o]
       ELSE Append(groups, [volume |-> v, title |-> GroupTitle(v, Len(groups) + 1),
                            from |-> o, to |-> o])

\* A step makes the last group longer or begins another.
LEMMA GroupStepIs ==
  ASSUME NEW n \in Nat, DOMAIN chapters = 0..n - 1,
         NEW gs \in Seq(BoundaryRecord), NEW o \in 0..n - 1
  PROVE  LET r == GroupStep(gs, o)
             v == chapters[o].volume
             N == Len(gs)
         IN /\ r \in Seq(BoundaryRecord)
            /\ \/ /\ N \in Nat \ {0} /\ gs[N].volume = v /\ Len(r) = N
                  /\ \A k \in 1..N : k # N => r[k] = gs[k]
                  /\ r[N].volume = v /\ r[N].title = gs[N].title /\ r[N].from = gs[N].from /\ r[N].to = o
               \/ /\ N \in Nat /\ Len(r) = N + 1
                  /\ \A k \in 1..N : r[k] = gs[k]
                  /\ r[N + 1].volume = v /\ r[N + 1].title = GroupTitle(v, N + 1)
                  /\ r[N + 1].from = o /\ r[N + 1].to = o
<1> DEFINE r == GroupStep(gs, o)
           v == chapters[o].volume
           N == Len(gs)
           B == BoundaryRecord
<1>1. N \in Nat /\ v \in ChapterVolumes /\ o \in Nat
  BY LenProperties DEF ChapterVolumes
<1>2. CASE gs # <<>> /\ gs[N].volume = v
  <2>1. N \in 1..N /\ N \in Nat \ {0}
    BY <1>1, <1>2, EmptySeq
  <2>2. PICK e \in B : e = gs[N]
    BY <2>1, ElementOfSeq
  <2>3. PICK d : d = [e EXCEPT !.to = o]
    OBVIOUS
  <2>4. d \in B /\ d.volume = e.volume /\ d.title = e.title /\ d.from = e.from /\ d.to = o
    BY <1>1, <2>2, <2>3 DEF BoundaryRecord
  <2>5. r = [gs EXCEPT ![N] = d]
    BY <1>2, <2>1, <2>2, <2>3 DEF GroupStep
  <2> HIDE DEF r, N, B
  <2>6. r \in Seq(B) /\ Len(r) = N /\ \A k \in 1..N : r[k] = IF k = N THEN d ELSE gs[k]
    BY <2>1, <2>4, <2>5, ExceptSeq DEF B, N
  <2>7. r[N] = d
    BY <2>1, <2>6
  <2> QED
    BY <1>2, <2>1, <2>2, <2>4, <2>6, <2>7 DEF r, N, B
<1>3. CASE ~(gs # <<>> /\ gs[N].volume = v)
  <2>1. PICK d : d = [volume |-> v, title |-> GroupTitle(v, N + 1), from |-> o, to |-> o]
    OBVIOUS
  <2>2. N + 1 \in Nat
    BY <1>1
  <2>3. GroupTitle(v, N + 1) \in GroupTitles
    BY <1>1, <2>2 DEF GroupTitles
  <2>4. /\ d \in B /\ d.volume = v /\ d.title = GroupTitle(v, N + 1) /\ d.from = o /\ d.to = o
    BY <1>1, <2>1, <2>3 DEF BoundaryRecord
  <2>5. r = Append(gs, d)
    BY <1>3, <2>1 DEF GroupStep
  <2> HIDE DEF r, B
  <2>6. r \in Seq(B) /\ Len(r) = N + 1 /\ r[N + 1] = d /\ \A k \in 1..N : r[k] = gs[k]
    BY <2>4, <2>5, AppendProperties DEF B
  <2> QED
    BY <1>1, <2>4, <2>6 DEF r, B
<1> QED
  BY <1>2, <1>3

GroupsOf(u, order) ==
    /\ u \in [0..Len(order) -> Seq(BoundaryRecord)] /\ u[0] = <<>>
    /\ \A i \in 1..Len(order) : u[i] = GroupStep(u[i - 1], order[i])
    /\ SourceBoundaries = u[Len(order)]

\* The recursion of SourceBoundaries has a solution.
LEMMA GroupsDef ==
  ASSUME NEW n \in Nat, DOMAIN chapters = 0..n - 1, InOrder \in Seq(0..n - 1)
  PROVE  \E u : GroupsOf(u, InOrder)
<1> DEFINE N == Len(InOrder)
           order == InOrder
           B == Seq(BoundaryRecord)
           base == <<>>
           Step(h, i) == IF i = 0 THEN base ELSE GroupStep(h[i - 1], order[i])
           Fun(h) == h = [i \in 0..N |-> Step(h, i)]
           G == [i \in 1..N |-> [x \in B |-> GroupStep(x, order[i])]]
           u == CHOOSE h : Fun(h)
<1>1. N \in Nat /\ \A i \in 1..N : order[i] \in 0..n - 1
  BY LenProperties
<1>2. \A x \in B, i \in 1..N : G[i][x] = GroupStep(x, order[i]) /\ G[i][x] \in B
  BY <1>1, GroupStepIs
<1>3. Closed(B, N, G)
  BY <1>2 DEF Closed
<1>4. SourceBoundaries = u[N]
  BY Zenon DEF SourceBoundaries, GroupStep, GroupTitle
<1>5. base \in B
  BY EmptySeq
<1> HIDE DEF N, B, base, order
<1>6. PICK f : Recursive(f, B, base, N, G)
  <2> HIDE DEF G
  <2> QED
    BY <1>1, <1>3, <1>5, Recursion
<1>7. \A i \in 0..N : f[i] = Step(f, i)
  <2> TAKE i \in 0..N
  <2>1. i = 0 \/ (i \in 1..N /\ i - 1 \in 0..N /\ i # 0)
    BY <1>1
  <2>2. f[0] = base /\ \A j \in 0..N : f[j] \in B
    BY <1>6 DEF Recursive
  <2>3. i \in 1..N => f[i] = G[i][f[i - 1]]
    BY <1>6 DEF Recursive
  <2>4. i \in 1..N => f[i] = GroupStep(f[i - 1], order[i])
    <3> HIDE DEF G
    <3> QED
      BY <1>2, <2>1, <2>2, <2>3
  <2> QED
    BY <2>1, <2>2, <2>4
<1>8. Fun(f)
  <2> HIDE DEF Step
  <2> QED
    BY <1>6, <1>7 DEF Recursive
<1>9. Fun(u)
  <2> HIDE DEF Fun
  <2> QED
    BY <1>8, Zenon
<1> HIDE DEF u
<1>10. DOMAIN u = 0..N /\ (\A i \in 0..N : u[i] = Step(u, i)) /\ u = [i \in 0..N |-> u[i]]
  <2> HIDE DEF Step
  <2> QED
    BY <1>9
<1>11. u[0] = base /\ \A i \in 1..N : u[i] = GroupStep(u[i - 1], order[i])
  <2>1. 0 \in 0..N /\ \A i \in 1..N : i \in 0..N /\ i # 0
    BY <1>1
  <2> QED
    BY <1>10, <2>1
<1>12. \A i \in 0..N : u[i] \in B
  <2> DEFINE H == {i \in 0..N : u[i] \in B}
  <2>1. 0 \in H
    BY <1>1, <1>5, <1>11
  <2>2. ASSUME NEW i \in 0..N, i \in H, i # N PROVE i + 1 \in H
    <3>1. i + 1 \in 1..N /\ i + 1 \in 0..N /\ (i + 1) - 1 = i
      BY <1>1, <2>2
    <3>2. u[i + 1] = GroupStep(u[i], order[i + 1]) /\ u[i] \in B /\ order[i + 1] \in 0..n - 1
      BY <1>1, <1>11, <2>2, <3>1
    <3>3. GroupStep(u[i], order[i + 1]) \in B
      BY <3>2, GroupStepIs DEF B
    <3> QED
      BY <3>1, <3>2, <3>3
  <2>3. \A i \in 0..N : i \in H
    <3> HIDE DEF H
    <3> QED
      BY <1>1, <2>1, <2>2, UpTo
  <2> QED
    BY <2>3
<1>13. u \in [0..N -> B]
  BY <1>10, <1>12
<1> QED
  BY <1>4, <1>11, <1>13, Zenon DEF N, B, base, order, GroupsOf

\* What the groups of the first m chapters are.
GroupsInv(gs, m) ==
    /\ \A k \in 1..Len(gs) :
         /\ gs[k].from <= gs[k].to /\ gs[k].to < m
         /\ gs[k].title = GroupTitle(gs[k].volume, k)
         /\ \A o \in gs[k].from..gs[k].to : chapters[o].volume = gs[k].volume
    /\ \A j, k \in 1..Len(gs) : j < k => gs[j].to < gs[k].from
    /\ \A o \in 0..m - 1 : \E k \in 1..Len(gs) : gs[k].from <= o /\ o <= gs[k].to
    /\ \A k \in 1..Len(gs) : k = Len(gs) => gs[k].to = m - 1

\* A step keeps this.
LEMMA GroupsStep ==
  ASSUME NEW n \in Nat, DOMAIN chapters = 0..n - 1,
         NEW m \in 0..n - 1, NEW gs \in Seq(BoundaryRecord), GroupsInv(gs, m)
  PROVE  GroupsInv(GroupStep(gs, m), m + 1)
<1> DEFINE step == GroupStep(gs, m)
           v == chapters[m].volume
<1>1. PICK r \in Seq(BoundaryRecord), N \in Nat :
        /\ r = step /\ N = Len(gs)
        /\ \/ /\ N # 0 /\ gs[N].volume = v /\ Len(r) = N
              /\ \A k \in 1..N : k # N => r[k] = gs[k]
              /\ r[N].volume = v /\ r[N].title = gs[N].title /\ r[N].from = gs[N].from /\ r[N].to = m
           \/ /\ Len(r) = N + 1
              /\ \A k \in 1..N : r[k] = gs[k]
              /\ r[N + 1].volume = v /\ r[N + 1].title = GroupTitle(v, N + 1)
              /\ r[N + 1].from = m /\ r[N + 1].to = m
  <2>1. PICK r : r = step
    OBVIOUS
  <2>2. PICK N \in Nat : N = Len(gs)
    BY LenProperties
  <2> QED
    BY <2>1, <2>2, GroupStepIs
<1>2. /\ \A k \in 1..N : gs[k].from \in Nat /\ gs[k].to \in Nat
      /\ \A k \in 1..Len(r) : r[k].from \in Nat /\ r[k].to \in Nat
  <2>1. /\ \A k \in 1..N : gs[k] \in BoundaryRecord
        /\ \A k \in 1..Len(r) : r[k] \in BoundaryRecord
    BY <1>1, LenProperties
  <2> QED
    BY <2>1 DEF BoundaryRecord
<1>3. /\ \A k \in 1..N :
           /\ gs[k].from <= gs[k].to /\ gs[k].to < m
           /\ gs[k].title = GroupTitle(gs[k].volume, k)
           /\ \A o \in gs[k].from..gs[k].to : chapters[o].volume = gs[k].volume
      /\ \A j, k \in 1..N : j < k => gs[j].to < gs[k].from
      /\ \A o \in 0..m - 1 : \E k \in 1..N : gs[k].from <= o /\ o <= gs[k].to
      /\ N # 0 => gs[N].to = m - 1
  BY <1>1 DEF GroupsInv
<1> HIDE DEF step, v
<1>4. CASE /\ N # 0 /\ gs[N].volume = v /\ Len(r) = N
           /\ \A k \in 1..N : k # N => r[k] = gs[k]
           /\ r[N].volume = v /\ r[N].title = gs[N].title /\ r[N].from = gs[N].from /\ r[N].to = m
  <2>1. N \in 1..N /\ gs[N].from <= gs[N].to /\ gs[N].to = m - 1 /\ gs[N].from \in Nat
    BY <1>2, <1>3, <1>4
  <2>2. ASSUME NEW k \in 1..N
        PROVE  /\ r[k].from <= r[k].to /\ r[k].to < m + 1
               /\ r[k].title = GroupTitle(r[k].volume, k)
               /\ \A o \in r[k].from..r[k].to : chapters[o].volume = r[k].volume
    <3>1. CASE k # N
      <4>1. r[k] = gs[k] /\ gs[k].to < m /\ gs[k].to \in Nat /\ gs[k].to < m + 1
        BY <1>2, <1>3, <1>4, <3>1
      <4> QED
        BY <1>3, <4>1
    <3>2. CASE k = N
      <4>1. r[N].title = GroupTitle(r[N].volume, N)
        BY <1>3, <1>4, <2>1
      <4>2. ASSUME NEW o \in gs[N].from..m PROVE chapters[o].volume = v
        <5>1. CASE o = m
          BY <5>1 DEF v
        <5>2. CASE o # m
          <6>1. o \in gs[N].from..gs[N].to
            BY <2>1, <5>2
          <6> QED
            BY <1>3, <1>4, <2>1, <6>1
        <5> QED
          BY <5>1, <5>2
      <4>3. r[N].from <= r[N].to /\ r[N].to < m + 1
        BY <1>4, <2>1
      <4> QED
        BY <1>4, <3>2, <4>1, <4>2, <4>3
    <3> QED
      BY <3>1, <3>2
  <2>3. ASSUME NEW j \in 1..N, NEW k \in 1..N, j < k PROVE r[j].to < r[k].from
    <3>1. j # N /\ gs[j].to < gs[k].from
      BY <1>3, <2>3
    <3>2. r[j] = gs[j] /\ r[k].from = gs[k].from
      BY <1>4, <3>1
    <3> QED
      BY <3>1, <3>2
  <2>4. ASSUME NEW o \in 0..m PROVE \E k \in 1..N : r[k].from <= o /\ o <= r[k].to
    <3>1. CASE o = m
      <4>1. r[N].from <= o /\ o <= r[N].to
        BY <1>4, <2>1, <3>1
      <4> QED
        BY <2>1, <4>1
    <3>2. CASE o # m
      <4>1. PICK k \in 1..N : gs[k].from <= o /\ o <= gs[k].to
        <5>1. o \in 0..m - 1
          BY <3>2
        <5> QED
          BY <1>3, <5>1
      <4>2. CASE k = N
        <5>1. r[N].from <= o /\ o <= r[N].to
          BY <1>4, <4>1, <4>2
        <5> QED
          BY <2>1, <5>1
      <4>3. CASE k # N
        BY <1>4, <4>1, <4>3
      <4> QED
        BY <4>2, <4>3
    <3> QED
      BY <3>1, <3>2
  <2>5. (m + 1) - 1 = m
    OBVIOUS
  <2>6. GroupsInv(r, m + 1)
    BY <1>4, <2>2, <2>3, <2>4, <2>5 DEF GroupsInv
  <2> QED
    BY <1>1, <2>6 DEF step
<1>5. CASE /\ Len(r) = N + 1
           /\ \A k \in 1..N : r[k] = gs[k]
           /\ r[N + 1].volume = v /\ r[N + 1].title = GroupTitle(v, N + 1)
           /\ r[N + 1].from = m /\ r[N + 1].to = m
  <2>1. PICK M \in Nat : M = N + 1
    OBVIOUS
  <2>2. M \in 1..M /\ \A k \in 1..M : k = M \/ (k # M /\ k \in 1..N)
    BY <2>1
  <2>3. ASSUME NEW k \in 1..M
        PROVE  /\ r[k].from <= r[k].to /\ r[k].to < m + 1
               /\ r[k].title = GroupTitle(r[k].volume, k)
               /\ \A o \in r[k].from..r[k].to : chapters[o].volume = r[k].volume
    <3>1. CASE k # M
      <4>1. k \in 1..N
        BY <2>2, <3>1
      <4>2. r[k] = gs[k]
        BY <1>5, <4>1
      <4>3. PICK x \in Nat : x = gs[k].to /\ x < m
        BY <1>2, <1>3, <4>1
      <4>4. gs[k].to < m + 1
        BY <4>3
      <4> QED
        BY <1>3, <4>1, <4>2, <4>4
    <3>2. CASE k = M
      <4>1. \A o \in m..m : chapters[o].volume = v
        BY DEF v
      <4>2. m <= m /\ m < m + 1
        OBVIOUS
      <4> QED
        BY <1>5, <2>1, <3>2, <4>1, <4>2
    <3> QED
      BY <3>1, <3>2
  <2>4. ASSUME NEW j \in 1..M, NEW k \in 1..M, j < k PROVE r[j].to < r[k].from
    <3>1. j \in 1..N
      BY <2>1, <2>4
    <3>2. CASE k \in 1..N
      BY <1>3, <1>5, <2>4, <3>1, <3>2
    <3>3. CASE k = M
      <4>1. gs[j].to < m /\ r[j] = gs[j]
        BY <1>3, <1>5, <3>1
      <4> QED
        BY <1>5, <2>1, <3>3, <4>1
    <3> QED
      BY <2>2, <3>2, <3>3
  <2>5. ASSUME NEW o \in 0..m PROVE \E k \in 1..M : r[k].from <= o /\ o <= r[k].to
    <3>1. CASE o = m
      <4>1. r[M].from <= o /\ o <= r[M].to
        BY <1>5, <2>1, <3>1
      <4> QED
        BY <2>2, <4>1
    <3>2. CASE o # m
      <4>1. PICK k \in 1..N : gs[k].from <= o /\ o <= gs[k].to
        <5>1. o \in 0..m - 1
          BY <3>2
        <5> QED
          BY <1>3, <5>1
      <4>2. k \in 1..M /\ r[k] = gs[k]
        BY <1>5, <2>1, <4>1
      <4> QED
        BY <4>1, <4>2
    <3> QED
      BY <3>1, <3>2
  <2>6. (m + 1) - 1 = m /\ Len(r) = M /\ r[M].to = m
    BY <1>5, <2>1
  <2>7. GroupsInv(r, m + 1)
    BY <2>3, <2>4, <2>5, <2>6 DEF GroupsInv
  <2> QED
    BY <1>1, <2>7 DEF step
<1> QED
  BY <1>1, <1>4, <1>5

\* Boundaries share out n chapters; a group with a chapter that names no row of the
\* current grouping has a made up title.
Ranged(bs, n) ==
    /\ bs \in Seq(Range(bs))
    /\ \A k \in DOMAIN bs :
         /\ bs[k].from \in Nat /\ bs[k].to \in Nat
         /\ bs[k].from <= bs[k].to /\ bs[k].to < n
    /\ \A j, k \in DOMAIN bs : j < k => bs[j].to < bs[k].from
    /\ \A o \in 0..n - 1 : \E k \in DOMAIN bs : bs[k].from <= o /\ o <= bs[k].to
    /\ \A k \in DOMAIN bs, o \in 0..n - 1 :
         bs[k].from <= o /\ o <= bs[k].to /\ chapters[o].volume \notin Current
             => bs[k].title = MadeUp(k)

\* The groups of chapters that name a volume share them out.
LEMMA SourceRanged ==
  ASSUME NEW n \in Nat, DOMAIN chapters = 0..n - 1, InOrder = [k \in 1..n |-> k - 1]
  PROVE  Ranged(SourceBoundaries, n)
<1>1. InOrder \in Seq(0..n - 1) /\ Len(InOrder) = n /\ \A k \in 1..n : InOrder[k] = k - 1
  <2>1. PICK D : D = 0..n - 1
    OBVIOUS
  <2>2. \A k \in 1..n : k - 1 \in D
    BY <2>1
  <2>3. PICK order : order = InOrder
    OBVIOUS
  <2>4. order \in Seq(D) /\ Len(order) = n /\ \A k \in 1..n : order[k] = k - 1
    BY <2>2, <2>3
  <2> QED
    BY <2>1, <2>3, <2>4
<1>2. PICK u : GroupsOf(u, InOrder)
  BY <1>1, GroupsDef
<1>3. /\ u \in [0..n -> Seq(BoundaryRecord)] /\ u[0] = <<>> /\ SourceBoundaries = u[n]
      /\ \A i \in 1..n : u[i] = GroupStep(u[i - 1], i - 1)
  BY <1>1, <1>2 DEF GroupsOf
<1> DEFINE H == {i \in 0..n : GroupsInv(u[i], i)}
<1>4. 0 \in H
  <2>1. Len(<<>>) = 0 /\ 1..0 = {} /\ 0..0 - 1 = {}
    OBVIOUS
  <2>2. GroupsInv(<<>>, 0)
    BY <2>1 DEF GroupsInv
  <2> QED
    BY <1>3, <2>2
<1>5. ASSUME NEW i \in 0..n, i \in H, i # n PROVE i + 1 \in H
  <2>1. i \in 0..n - 1 /\ i + 1 \in 1..n /\ i + 1 \in 0..n /\ (i + 1) - 1 = i
    BY <1>5
  <2>2. u[i + 1] = GroupStep(u[i], i) /\ u[i] \in Seq(BoundaryRecord) /\ GroupsInv(u[i], i)
    BY <1>3, <1>5, <2>1
  <2>3. GroupsInv(GroupStep(u[i], i), i + 1)
    BY <2>1, <2>2, GroupsStep
  <2> QED
    BY <2>1, <2>2, <2>3
<1>6. \A i \in 0..n : i \in H
  <2> HIDE DEF H
  <2> QED
    BY <1>4, <1>5, UpTo
<1>7. PICK gs \in Seq(BoundaryRecord) : gs = SourceBoundaries /\ GroupsInv(gs, n)
  <2>1. n \in 0..n
    OBVIOUS
  <2> QED
    BY <1>3, <1>6, <2>1
<1>8. DOMAIN gs = 1..Len(gs) /\ \A k \in 1..Len(gs) : gs[k].from \in Nat /\ gs[k].to \in Nat
  <2>1. DOMAIN gs = 1..Len(gs) /\ \A k \in 1..Len(gs) : gs[k] \in BoundaryRecord
    BY LenProperties
  <2> QED
    BY <2>1 DEF BoundaryRecord
<1>9. gs \in Seq(Range(gs))
  BY OwnRange
<1>10. ASSUME NEW k \in 1..Len(gs), NEW o \in 0..n - 1,
              gs[k].from <= o, o <= gs[k].to, chapters[o].volume \notin Current
       PROVE  gs[k].title = MadeUp(k)
  <2>1. o \in gs[k].from..gs[k].to
    BY <1>8, <1>10
  <2>2. chapters[o].volume = gs[k].volume /\ gs[k].title = GroupTitle(gs[k].volume, k)
    BY <1>7, <2>1 DEF GroupsInv
  <2> QED
    BY <1>10, <2>2 DEF GroupTitle
<1>11. Ranged(gs, n)
  BY <1>7, <1>8, <1>9, <1>10 DEF Ranged, GroupsInv
<1> QED
  BY <1>7, <1>11

\* Groups of equal size share out the chapters.
LEMMA DefaultRanged ==
  ASSUME NEW n \in Nat \ {0}, InOrder = [k \in 1..n |-> k - 1]
  PROVE  Ranged(DefaultBoundaries, n)
<1>1. PICK P \in Nat \ {0} : P = PerVolume
  BY ImportAssumption
<1>2. PICK K \in Nat : K = (n + P - 1) \div P
  <2>1. n + P - 1 \in Nat
    OBVIOUS
  <2> QED
    BY <2>1, DivIs
<1>3. /\ \A k \in 1..K : P * (k - 1) \in 0..n - 1 /\ P * k \in Nat /\ P * (k - 1) < P * k
      /\ \A o \in 0..n - 1 : \E k \in 1..K : P * (k - 1) <= o /\ o < P * k
      /\ \A j, k \in 1..K : j < k => P * j <= P * (k - 1)
  BY <1>2, Shares
<1>4. PICK bs : bs = DefaultBoundaries
  OBVIOUS
<1>5. bs = [k \in 1..K |->
              [volume |-> NoVolume, title |-> MadeUp(k), from |-> InOrder[P * (k - 1) + 1],
               to |-> InOrder[Min({P * k, n})]]]
  <2>1. Len(InOrder) = n
    OBVIOUS
  <2> QED
    BY <1>1, <1>2, <1>4, <2>1 DEF DefaultBoundaries
<1>6. DOMAIN bs = 1..K
  BY <1>5
<1>7. ASSUME NEW k \in 1..K
      PROVE  /\ bs[k].title = MadeUp(k) /\ bs[k].from = P * (k - 1)
             /\ bs[k].to \in Nat /\ bs[k].to < n /\ bs[k].to < P * k
             /\ bs[k].to = P * k - 1 \/ bs[k].to = n - 1
  <2>1. PICK a \in Nat, b \in Nat : a = P * (k - 1) /\ b = P * k
    BY <1>3
  <2>2. a \in 0..n - 1 /\ a < b
    BY <1>3, <2>1
  <2>3. PICK c : c = Min({b, n})
    OBVIOUS
  <2>4. c \in Nat /\ c \in 1..n /\ c <= b /\ (c = b \/ c = n)
    <3>1. PICK z \in Nat : b <= z /\ n <= z
      <4>1. b <= b + n /\ n <= b + n /\ b + n \in Nat
        OBVIOUS
      <4> QED
        BY <4>1
    <3>2. {b, n} \in SUBSET (0..z) /\ {b, n} # {}
      BY <3>1
    <3>3. PICK T \in SUBSET (0..z) : T = {b, n} /\ T # {}
      BY <3>2
    <3>4. Min(T) \in T /\ \A x \in T : Min(T) <= x
      BY <3>1, <3>3, Extremes
    <3>5. (c = b \/ c = n) /\ c <= b /\ c <= n
      BY <2>3, <3>3, <3>4
    <3> QED
      BY <2>2, <3>5
  <2>5. bs[k] = [volume |-> NoVolume, title |-> MadeUp(k), from |-> InOrder[a + 1], to |-> InOrder[c]]
    BY <1>5, <2>1, <2>3
  <2>6. InOrder[a + 1] = a /\ InOrder[c] = c - 1
    <3>1. a + 1 \in 1..n /\ (a + 1) - 1 = a
      BY <2>2
    <3> QED
      BY <2>4, <3>1
  <2>7. bs[k].title = MadeUp(k) /\ bs[k].from = a /\ bs[k].to = c - 1
    BY <2>5, <2>6
  <2>8. c - 1 \in Nat /\ c - 1 < n /\ c - 1 < b /\ (c - 1 = b - 1 \/ c - 1 = n - 1)
    BY <2>4
  <2> QED
    BY <2>1, <2>7, <2>8
<1> HIDE <1>5
<1>8. bs \in Seq(Range(bs))
  <2>1. PICK R : R = Range(bs)
    OBVIOUS
  <2>2. \A k \in 1..K : bs[k] \in R
    BY <1>6, <2>1 DEF Range
  <2>3. bs = [k \in 1..K |-> bs[k]]
    BY <1>5
  <2>4. bs \in Seq(R)
    BY <2>2, <2>3
  <2> QED
    BY <2>1, <2>4
<1>9. ASSUME NEW k \in 1..K
      PROVE  bs[k].from \in Nat /\ bs[k].to \in Nat /\ bs[k].from <= bs[k].to /\ bs[k].to < n
  <2>1. PICK a \in Nat, b \in Nat : a = P * (k - 1) /\ b = P * k /\ a \in 0..n - 1 /\ a < b
    BY <1>3
  <2>2. PICK to \in Nat : to = bs[k].to /\ to < n /\ to < b /\ (to = b - 1 \/ to = n - 1)
    BY <1>7, <2>1
  <2>3. bs[k].from = P * (k - 1)
    BY <1>7
  <2>4. a <= to
    BY <2>1, <2>2
  <2> QED
    BY <2>1, <2>2, <2>3, <2>4
<1>10. ASSUME NEW j \in 1..K, NEW k \in 1..K, j < k PROVE bs[j].to < bs[k].from
  <2>1. PICK a \in Nat, b \in Nat : a = P * (k - 1) /\ b = P * j
    BY <1>3
  <2>2. b <= a
    BY <1>3, <1>10, <2>1
  <2>3. PICK to \in Nat : to = bs[j].to /\ to < b
    BY <1>7, <2>1
  <2>4. bs[k].from = a
    BY <1>7, <2>1
  <2> QED
    BY <2>2, <2>3, <2>4
<1>11. ASSUME NEW o \in 0..n - 1 PROVE \E k \in 1..K : bs[k].from <= o /\ o <= bs[k].to
  <2>1. PICK k \in 1..K : P * (k - 1) <= o /\ o < P * k
    BY <1>3
  <2>2. PICK b \in Nat : b = P * k
    BY <1>3
  <2>3. PICK to \in Nat : to = bs[k].to /\ (to = b - 1 \/ to = n - 1)
    BY <1>7, <2>2
  <2>4. bs[k].from <= o
    BY <1>7, <2>1
  <2>5. o < b /\ o <= n - 1
    BY <2>1, <2>2
  <2>6. o <= to
    BY <2>2, <2>3, <2>5
  <2> QED
    BY <2>3, <2>4, <2>6
<1>12. Ranged(bs, n)
  BY <1>6, <1>7, <1>8, <1>9, <1>10, <1>11 DEF Ranged
<1> QED
  BY <1>4, <1>12

\* Whatever the boundaries come from, they share out the chapters.
LEMMA BoundariesRanged ==
  ASSUME NEW N \in Nat, DOMAIN file.chapters = 1..N, NEW n \in 1..N, DOMAIN chapters = 0..n - 1
  PROVE  Ranged(Boundaries, n)
<1>1. n \in 0..N /\ n \in Nat \ {0}
  OBVIOUS
<1>2. InOrder = [k \in 1..n |-> k - 1]
  BY <1>1, InOrderIs
<1>3. Ranged(SourceBoundaries, n) /\ Ranged(DefaultBoundaries, n)
  BY <1>1, <1>2, SourceRanged, DefaultRanged
<1> QED
  BY <1>3 DEF Boundaries

-----------------------------------------------------------------------------
(* Volumes *)

\* Numbers have a greatest.
LEMMA Greatest ==
  ASSUME NEW n \in Nat \ {0}, NEW f, \A i \in 1..n : f[i] \in Nat
  PROVE  \E v \in 1..n : \A w \in 1..n : f[w] <= f[v]
<1>1. PICK b \in Nat : \A i \in 1..n : f[i] <= b
  BY Bounded
<1> DEFINE V == {f[i] : i \in 1..n}
<1>2. V \in SUBSET (0..b)
  BY <1>1
<1>3. 1 \in 1..n
  OBVIOUS
<1>4. V # {}
  BY <1>3
<1>5. Max(V) \in V /\ \A x \in V : x <= Max(V)
  <2> HIDE DEF V
  <2> QED
    BY <1>2, <1>4, Extremes
<1>6. PICK v \in 1..n : f[v] = Max(V)
  BY <1>5
<1>7. \A w \in 1..n : f[w] \in V
  OBVIOUS
<1>8. \A w \in 1..n : f[w] <= f[v]
  <2> HIDE DEF V
  <2> QED
    BY <1>5, <1>6, <1>7
<1> QED
  BY <1>8

\* The current grouping is there, of one version, and begins with one of its rows.
LEMMA CurrentIs ==
  ASSUME RowInv
  PROVE  /\ DOMAIN volumes = 1..Len(volumes) /\ Len(volumes) \in Nat
         /\ Current \subseteq 1..Len(volumes)
         /\ Len(volumes) # 0 => Current # {}
         /\ \A v, w \in Current : volumes[v].version = volumes[w].version
         /\ \A v \in Current, w \in 1..Len(volumes) : volumes[w].version <= volumes[v].version
         /\ Current # {} => FirstRow \in Current
<1>1. PICK n \in Nat : n = Len(volumes) /\ DOMAIN volumes = 1..n
  BY LenProperties DEF RowInv
<1>2. \A v \in 1..n : volumes[v].version \in Nat /\ volumes[v].ordinal \in Nat
  BY <1>1 DEF RowInv
<1>3. Current \subseteq 1..n /\ \A v \in Current, w \in 1..n : volumes[w].version <= volumes[v].version
  BY <1>1 DEF Current
<1>4. n # 0 => Current # {}
  <2> SUFFICES ASSUME n # 0 PROVE Current # {}
    OBVIOUS
  <2> DEFINE f == [v \in 1..n |-> volumes[v].version]
  <2>1. \A i \in 1..n : f[i] = volumes[i].version
    OBVIOUS
  <2> HIDE DEF f
  <2>2. PICK v \in 1..n : \A w \in 1..n : f[w] <= f[v]
    BY <1>2, <2>1, Greatest
  <2> QED
    BY <1>1, <2>1, <2>2 DEF Current
<1>5. ASSUME NEW v \in Current, NEW w \in Current PROVE volumes[v].version = volumes[w].version
  <2>1. PICK a \in Nat, b \in Nat : a = volumes[v].version /\ b = volumes[w].version
    BY <1>2, <1>3
  <2>2. a <= b /\ b <= a
    BY <1>3, <2>1
  <2> QED
    BY <2>1, <2>2
<1>6. ASSUME Current # {} PROVE FirstRow \in Current
  <2> DEFINE S == {volumes[v].ordinal : v \in Current}
  <2>1. S \in SUBSET Nat /\ S # {}
    BY <1>2, <1>3, <1>6
  <2>2. PICK k \in S : \A j \in S : k <= j
    <3> HIDE DEF S
    <3> QED
      BY <2>1, Least
  <2> DEFINE T == {v \in Current : volumes[v].ordinal = k}
  <2>3. T \in SUBSET Nat /\ T # {}
    <3>1. Current \subseteq Nat
      BY <1>1, <1>3
    <3>2. \E v \in Current : volumes[v].ordinal = k
      BY <2>2
    <3> QED
      BY <3>1, <3>2
  <2>4. PICK u \in T : \A v \in T : u <= v
    <3> HIDE DEF T
    <3> QED
      BY <2>3, Least
  <2>5. ASSUME NEW w \in Current
        PROVE  \/ volumes[u].ordinal < volumes[w].ordinal
               \/ volumes[u].ordinal = volumes[w].ordinal /\ u <= w
    <3>1. PICK j \in Nat : j = volumes[w].ordinal /\ j \in S
      BY <1>2, <1>3
    <3>2. k <= j /\ k \in Nat /\ volumes[u].ordinal = k
      BY <2>1, <2>2, <2>4, <3>1
    <3>3. j = k => u <= w
      BY <2>4, <3>1
    <3> QED
      BY <3>1, <3>2, <3>3
  <2>6. u \in Current
    BY <2>4
  <2> HIDE DEF S, T
  <2>7. \E v \in Current : \A w \in Current :
          \/ volumes[v].ordinal < volumes[w].ordinal
          \/ volumes[v].ordinal = volumes[w].ordinal /\ v <= w
    BY <2>5, <2>6
  <2> QED
    BY <2>7, Zenon DEF FirstRow
<1> QED
  BY <1>1, <1>3, <1>4, <1>5, <1>6

\* At first there is nothing to share out.
THEOREM VolumesStart == ImportInit => VolumeInv
<1> SUFFICES ASSUME ImportInit PROVE VolumeInv
  OBVIOUS
<1>1. Numbered(file)
  <2>1. PICK s \in Sources : file = Parse(s)
    BY DEF ImportInit
  <2> QED
    BY <2>1, ParsedNumbered
<1>2. /\ volumes = <<>> /\ DOMAIN volumes = {} /\ chapters = <<>> /\ DOMAIN chapters = {}
      /\ fresh = FALSE /\ \A p \in Commands : job[p].ids = <<>>
  BY DEF ImportInit, Idle
<1>3. \A X : <<>> \in Seq(X)
  BY EmptySeq
<1>4. RowInv
  BY <1>1, <1>2, <1>3 DEF RowInv
<1>5. NamingInv
  <2>1. Range(<<>>) = {}
    BY DEF Range
  <2> QED
    BY <1>2, <1>3, <2>1 DEF NamingInv
<1>6. GroupedInv
  <2>1. Current = {}
    BY <1>2 DEF Current
  <2> QED
    BY <1>2, <2>1 DEF GroupedInv, TakenOver
<1> QED
  BY <1>4, <1>5, <1>6 DEF VolumeInv

\* Steps that leave rows and chapters alone and forget ids at most.
LEMMA OnlyJobs ==
  ASSUME VolumeInv, UNCHANGED <<file, volumes, chapters, fresh>>,
         \A p \in Commands : job'[p].ids = job[p].ids \/ job'[p].ids = <<>>
  PROVE  VolumeInv'
<1>1. RowInv' /\ GroupedInv'
  BY DEF VolumeInv, RowInv, Numbered, Ordinals, GroupedInv, TakenOver, Current, SharedOut
<1>2. NamingInv'
  <2>1. <<>> \in Seq(Range(<<>>)) /\ Range(<<>>) = {}
    BY EmptySeq DEF Range
  <2> QED
    BY <2>1 DEF VolumeInv, NamingInv
<1> QED
  BY <1>1, <1>2 DEF VolumeInv

\* An import adds a row of a volume of the file and knows it.
LEMMA RowAdded ==
  ASSUME VolumeInv, NEW p \in Commands, NEW x \in Range(file.volumes), NEW row,
         row.title = Own(x.title), row.ordinal = x.ordinal, row.version = 0, row.hash = NoHash,
         volumes' = Append(volumes, row),
         \A q \in Commands : job'[q].ids = IF q = p THEN Append(job[p].ids, <<x.ordinal, Len(volumes) + 1>>)
                                           ELSE job[q].ids,
         UNCHANGED <<file, chapters>>, fresh' = FALSE
  PROVE  VolumeInv'
<1>1. /\ RowInv /\ NamingInv /\ GroupedInv
  BY DEF VolumeInv
<1>2. PICK L \in Nat : L = Len(volumes) /\ DOMAIN volumes = 1..L
  BY <1>1, CurrentIs
<1>3. /\ DOMAIN volumes' = 1..L + 1 /\ volumes'[L + 1] = row
      /\ \A v \in 1..L : volumes'[v] = volumes[v]
      /\ volumes' \in Seq(Range(volumes'))
  <2>1. PICK Z : Z = Range(volumes) \cup {row}
    OBVIOUS
  <2>2. volumes \in Seq(Z)
    <3>1. volumes \in Seq(Range(volumes))
      BY <1>1 DEF RowInv
    <3> QED
      BY <2>1, <3>1, SeqMonotonic
  <2>3. /\ volumes' \in Seq(Z) /\ Len(volumes') = L + 1 /\ volumes'[L + 1] = row
        /\ \A v \in 1..L : volumes'[v] = volumes[v]
    BY <1>2, <2>1, <2>2, AppendProperties
  <2>4. volumes' \in Seq(Range(volumes'))
    BY <2>3, OwnRange
  <2> QED
    BY <2>3, <2>4, LenProperties
<1>4. x.ordinal \in Nat /\ x.ordinal + 1 \in Ordinals(file)
  BY <1>1 DEF RowInv, Numbered
<1>5. L + 1 \in 1..L + 1 /\ \A v \in 1..L + 1 : v = L + 1 \/ v \in 1..L
  OBVIOUS
<1>6. RowInv'
  <2>1. Numbered(file)'
    BY <1>1 DEF RowInv, Numbered, Ordinals
  <2>2. ASSUME NEW v \in 1..L + 1
        PROVE LET r == volumes'[v]
              IN /\ r.version \in Nat /\ r.ordinal \in Nat
                 /\ IF r.version = 0
                    THEN /\ r.ordinal + 1 \in Ordinals(file)
                         /\ IF r.hash = NoHash THEN \E y \in Range(file.volumes) : r.title = Own(y.title)
                            ELSE Len(r.hash.texts) < Len(file.chapters)
                    ELSE r.hash # NoHash
    <3>1. CASE v = L + 1
      BY <1>3, <1>4, <3>1
    <3>2. CASE v \in 1..L
      BY <1>1, <1>2, <1>3, <3>2 DEF RowInv
    <3> QED
      BY <1>5, <3>1, <3>2
  <2>3. file' = file /\ Ordinals(file)' = Ordinals(file)
    BY DEF Ordinals
  <2>4. DOMAIN volumes' = 1..L + 1 /\ volumes' \in Seq(Range(volumes'))
    BY <1>3
  <2> QED
    BY <2>1, <2>2, <2>3, <2>4 DEF RowInv
<1>7. NamingInv'
  <2>1. ASSUME NEW o \in DOMAIN chapters'
        PROVE LET v == chapters'[o].volume
              IN \/ v = NoVolume
                 \/ /\ v \in DOMAIN volumes'
                    /\ volumes'[v].version = 0 => volumes'[v].ordinal = file'.chapters[o + 1].ordinal
    BY <1>1, <1>2, <1>3, <1>5 DEF NamingInv
  <2>2. ASSUME NEW q \in Commands
        PROVE  /\ job'[q].ids \in Seq(Range(job'[q].ids))
               /\ \A pair \in Range(job'[q].ids) : pair \in Range(job[q].ids) \/ pair = <<x.ordinal, L + 1>>
    <3>1. CASE q # p
      BY <1>1, <3>1 DEF NamingInv
    <3>2. CASE q = p
      <4>1. PICK Z, ids, e : ids = job[p].ids /\ e = <<x.ordinal, L + 1>> /\ Z = Range(ids) \cup {e}
        OBVIOUS
      <4>2. ids \in Seq(Z)
        <5>1. ids \in Seq(Range(ids))
          BY <1>1, <4>1 DEF NamingInv
        <5> QED
          BY <4>1, <5>1, SeqMonotonic
      <4>3. PICK new \in Seq(Z) : new = job'[p].ids
        <5>1. job'[p].ids = Append(ids, e) /\ e \in Z
          BY <1>2, <4>1
        <5>2. Append(ids, e) \in Seq(Z)
          BY <4>2, <5>1, AppendProperties
        <5> QED
          BY <5>1, <5>2
      <4>4. new \in Seq(Range(new))
        BY OwnRange
      <4>5. \A pair \in Range(new) : pair \in Z
        <5>1. DOMAIN new = 1..Len(new) /\ \A i \in 1..Len(new) : new[i] \in Z
          BY LenProperties
        <5> QED
          BY <5>1 DEF Range
      <4> QED
        BY <3>2, <4>1, <4>3, <4>4, <4>5
    <3> QED
      BY <3>1, <3>2
  <2>3. ASSUME NEW q \in Commands, NEW pair \in Range(job'[q].ids)
        PROVE  /\ pair[2] \in DOMAIN volumes'
               /\ volumes'[pair[2]].version = 0 /\ volumes'[pair[2]].ordinal = pair[1]
    <3>1. CASE pair \in Range(job[q].ids)
      <4>1. pair[2] \in 1..L /\ volumes[pair[2]].version = 0 /\ volumes[pair[2]].ordinal = pair[1]
        BY <1>1, <1>2, <3>1 DEF NamingInv
      <4>2. pair[2] \in 1..L + 1
        BY <4>1
      <4> QED
        BY <1>3, <4>1, <4>2
    <3>2. CASE pair = <<x.ordinal, L + 1>>
      BY <1>3, <1>5, <3>2
    <3> QED
      BY <2>2, <3>1, <3>2
  <2> QED
    BY <2>1, <2>2, <2>3 DEF NamingInv
<1>8. GroupedInv'
  <2> SUFFICES ASSUME ~TakenOver', NEW v \in Current'
               PROVE  /\ SharedOut(Len(volumes[v].hash.texts))'
                      /\ \A w \in Current' : volumes'[w].hash = volumes'[v].hash
    BY DEF GroupedInv
  <2>1. /\ v \in 1..L + 1 /\ volumes'[v].version # 0
        /\ \A w \in 1..L + 1 : volumes'[w].version <= volumes'[v].version
    BY <1>3 DEF Current, TakenOver
  <2>2. v \in 1..L /\ volumes'[v] = volumes[v]
    BY <1>3, <1>5, <2>1
  <2>3. \A w \in 1..L : volumes[w].version \in Nat
    BY <1>1, <1>2 DEF RowInv
  <2>4. PICK k \in Nat : k = volumes[v].version /\ k # 0
    BY <2>1, <2>2, <2>3
  <2>5. \A w \in 1..L : volumes[w].version <= k /\ volumes'[w] = volumes[w]
    <3> TAKE w \in 1..L
    <3>1. w \in 1..L + 1
      OBVIOUS
    <3> QED
      BY <1>3, <2>1, <2>2, <2>4, <3>1
  <2>6. v \in Current
    BY <1>2, <2>2, <2>4, <2>5 DEF Current
  <2>7. \A w \in Current : w \in 1..L /\ volumes[w].version = k
    BY <1>1, <1>2, <2>4, <2>6, CurrentIs
  <2>8. Current' = Current
    <3>1. ASSUME NEW w \in Current' PROVE w \in Current
      <4>1. w \in 1..L + 1 /\ \A u \in 1..L + 1 : volumes'[u].version <= volumes'[w].version
        BY <1>3 DEF Current
      <4>2. v \in 1..L + 1
        BY <2>1
      <4>3. w # L + 1
        <5> SUFFICES ASSUME w = L + 1 PROVE FALSE
          OBVIOUS
        <5>1. k <= 0
          BY <1>3, <2>2, <2>4, <4>1, <4>2
        <5> QED
          BY <2>4, <5>1
      <4>4. w \in 1..L
        BY <1>5, <4>1, <4>3
      <4>5. \A u \in 1..L : volumes[u].version <= volumes[w].version
        <5> TAKE u \in 1..L
        <5>1. u \in 1..L + 1
          OBVIOUS
        <5> QED
          BY <1>3, <4>1, <4>4, <5>1
      <4> QED
        BY <1>2, <4>4, <4>5 DEF Current
    <3>2. ASSUME NEW w \in Current PROVE w \in Current'
      <4>1. w \in 1..L /\ volumes'[w].version = k
        BY <2>5, <2>7
      <4>2. w \in 1..L + 1
        BY <4>1
      <4>3. \A u \in 1..L + 1 : volumes'[u].version <= k
        <5> TAKE u \in 1..L + 1
        <5>1. CASE u = L + 1
          BY <1>3, <2>4, <5>1
        <5>2. CASE u \in 1..L
          BY <2>5, <5>2
        <5> QED
          BY <1>5, <5>1, <5>2
      <4> QED
        BY <1>3, <4>1, <4>2, <4>3 DEF Current
    <3> QED
      BY <3>1, <3>2
  <2>9. ~TakenOver
    BY <2>4, <2>7 DEF TakenOver
  <2>10. /\ SharedOut(Len(volumes[v].hash.texts))
         /\ \A w \in Current : volumes[w].hash = volumes[v].hash
    BY <1>1, <2>6, <2>9 DEF GroupedInv
  <2>11. chapters' = chapters /\ \A w \in Current : volumes'[w] = volumes[w]
    BY <2>5, <2>7
  <2>12. SharedOut(Len(volumes[v].hash.texts))'
    <3>1. PICK m : m = Len(volumes[v].hash.texts) /\ m = Len(volumes'[v].hash.texts)
      BY <2>2
    <3>2. ASSUME NEW o \in 0..m - 1
          PROVE  /\ o \in DOMAIN chapters' /\ chapters'[o].volume \in Current'
                 /\ volumes'[chapters'[o].volume].from <= o /\ o <= volumes'[chapters'[o].volume].to
      <4>1. /\ o \in DOMAIN chapters /\ chapters[o].volume \in Current
            /\ volumes[chapters[o].volume].from <= o /\ o <= volumes[chapters[o].volume].to
        BY <2>10, <3>1 DEF SharedOut
      <4> QED
        BY <2>8, <2>11, <4>1
    <3>3. ASSUME NEW u \in Current', NEW w \in Current'
          PROVE  u = w \/ volumes'[u].to < volumes'[w].from \/ volumes'[w].to < volumes'[u].from
      <4>1. u = w \/ volumes[u].to < volumes[w].from \/ volumes[w].to < volumes[u].from
        BY <2>8, <2>10, <3>3 DEF SharedOut
      <4> QED
        BY <2>8, <2>11, <3>3, <4>1
    <3> QED
      BY <3>1, <3>2, <3>3 DEF SharedOut
  <2> QED
    BY <2>2, <2>8, <2>10, <2>11, <2>12
<1> QED
  BY <1>6, <1>7, <1>8 DEF VolumeInv

\* An import adds a chapter, if it is new, under the volume it knows by the number.
LEMMA ChapterAdded ==
  ASSUME VolumeInv, NEW p \in Commands, NEW n \in Nat \ {0}, NEW c, c.ordinal = file.chapters[n].ordinal,
         chapters' = [o \in DOMAIN chapters \cup {n - 1} |->
                        IF o \in DOMAIN chapters THEN chapters[o]
                        ELSE [lo |-> c.lo, hi |-> c.hi, hash |-> c.hash, volume |-> VolumeId(p, c.ordinal)]],
         \A q \in Commands : job'[q].ids = job[q].ids,
         UNCHANGED <<file, volumes>>, fresh' = FALSE
  PROVE  VolumeInv'
<1>1. /\ RowInv /\ NamingInv /\ GroupedInv
  BY DEF VolumeInv
<1>2. RowInv'
  BY <1>1 DEF RowInv, Numbered, Ordinals
<1>3. /\ DOMAIN chapters' = DOMAIN chapters \cup {n - 1}
      /\ \A o \in DOMAIN chapters : chapters'[o] = chapters[o]
      /\ n - 1 \notin DOMAIN chapters => chapters'[n - 1].volume = VolumeId(p, c.ordinal)
  OBVIOUS
<1>4. LET v == VolumeId(p, c.ordinal)
      IN \/ v = NoVolume
         \/ /\ v \in DOMAIN volumes
            /\ volumes[v].version = 0 => volumes[v].ordinal = c.ordinal
  <2> DEFINE T == {pair \in Range(job[p].ids) : c.ordinal # NoVolume /\ pair[1] = c.ordinal}
  <2>1. PICK at, ids : at = Only(ids, T) /\ ids = job[p].ids
    OBVIOUS
  <2>2. VolumeId(p, c.ordinal) = IF at = <<>> THEN NoVolume ELSE at[1][2]
    BY <2>1 DEF VolumeId
  <2>3. PICK Z : Z = Range(ids) \cap T
    OBVIOUS
  <2>4. at \in Seq(Z)
    <3>1. ids \in Seq(Range(ids))
      BY <1>1, <2>1 DEF NamingInv
    <3> HIDE DEF T
    <3> QED
      BY <2>1, <2>3, <3>1, OnlyIn
  <2>5. CASE at # <<>>
    <3>1. 1 \in 1..Len(at)
      BY <2>4, <2>5, EmptySeq
    <3>2. PICK pair : pair = at[1] /\ pair \in T
      BY <2>3, <2>4, <3>1, ElementOfSeq
    <3>3. pair[2] \in DOMAIN volumes /\ volumes[pair[2]].ordinal = pair[1] /\ pair[1] = c.ordinal
      BY <1>1, <3>2 DEF NamingInv
    <3> QED
      BY <2>2, <2>5, <3>2, <3>3
  <2> QED
    BY <2>2, <2>5
<1>5. NamingInv'
  <2>1. ASSUME NEW o \in DOMAIN chapters'
        PROVE LET v == chapters'[o].volume
              IN \/ v = NoVolume
                 \/ /\ v \in DOMAIN volumes
                    /\ volumes[v].version = 0 => volumes[v].ordinal = file.chapters[o + 1].ordinal
    <3>1. CASE o \in DOMAIN chapters
      BY <1>1, <1>3, <3>1 DEF NamingInv
    <3>2. CASE o \notin DOMAIN chapters
      <4>1. o = n - 1 /\ o + 1 = n
        BY <1>3, <3>2
      <4> QED
        BY <1>3, <1>4, <3>2, <4>1
    <3> QED
      BY <3>1, <3>2
  <2> QED
    BY <1>1, <2>1 DEF NamingInv
<1>6. GroupedInv'
  <2>1. Current' = Current /\ TakenOver' = TakenOver
    BY DEF Current, TakenOver
  <2>2. \A m : SharedOut(m) => SharedOut(m)'
    BY <1>3, <2>1 DEF SharedOut
  <2> QED
    BY <1>1, <2>1, <2>2 DEF GroupedInv
<1> QED
  BY <1>2, <1>5, <1>6 DEF VolumeInv

\* What group-volumes finds: some chapters, the boundaries that share them out, and a
\* hash of as many texts.
LEMMA GroupFinds ==
  ASSUME ParsedInv, StoredInv, DOMAIN chapters # {}
  PROVE  \E N \in Nat : \E n \in 1..N :
           /\ DOMAIN file.chapters = 1..N /\ Len(file.chapters) = N
           /\ DOMAIN chapters = 0..n - 1 /\ Cardinality(DOMAIN chapters) = n
           /\ Ranged(Boundaries, n) /\ Len(Hash.texts) = n /\ Hash # NoHash
<1>1. PICK N \in Nat : Len(file.chapters) = N /\ DOMAIN file.chapters = 1..N
  BY LenProperties DEF ParsedInv, WellCut
<1>2. PICK n \in 0..N : DOMAIN chapters = 0..n - 1
  BY <1>1 DEF StoredInv
<1>3. n # 0
  <2> SUFFICES ASSUME n = 0 PROVE FALSE
    OBVIOUS
  <2>1. 0..n - 1 = {}
    OBVIOUS
  <2> QED
    BY <1>2, <2>1
<1>4. n \in 1..N
  BY <1>3
<1>5. Cardinality(DOMAIN chapters) = n
  <2>1. 0 \in Int /\ n - 1 \in Int /\ 0 <= n - 1 /\ (n - 1) - 0 + 1 = n
    BY <1>4
  <2>2. Cardinality(0..n - 1) = n
    <3>1. PICK b \in Int : b = n - 1
      BY <2>1
    <3>2. Cardinality(0..b) = IF 0 > b THEN 0 ELSE b - 0 + 1
      BY FS_Interval
    <3> QED
      BY <2>1, <3>1, <3>2
  <2> QED
    BY <1>2, <2>2
<1>6. Ranged(Boundaries, n)
  BY <1>1, <1>2, <1>4, BoundariesRanged
<1>7. InOrder = [k \in 1..n |-> k - 1]
  BY <1>1, <1>2, InOrderIs
<1>8. Len(Hash.texts) = n
  <2>1. Hash.texts = [k \in DOMAIN InOrder |-> chapters[InOrder[k]].hash]
    BY DEF Hash
  <2>2. DOMAIN InOrder = 1..n /\ n \in Nat
    BY <1>7
  <2>3. PICK ts : ts = Hash.texts /\ ts = [k \in 1..n |-> chapters[InOrder[k]].hash]
    BY <2>1, <2>2
  <2>4. Len(ts) = n
    BY <2>2, <2>3
  <2> QED
    BY <2>3, <2>4
<1>9. Hash # NoHash
  <2>1. DOMAIN Hash = {"source", "ranges", "texts"}
    BY DEF Hash
  <2>2. DOMAIN NoHash = {}
    BY DEF NoHash
  <2> QED
    BY <2>1, <2>2
<1> QED
  BY <1>1, <1>2, <1>4, <1>5, <1>6, <1>8, <1>9

\* group-volumes finds the grouping as it should be.
LEMMA GroupKept ==
  ASSUME VolumeInv, ParsedInv, StoredInv, DOMAIN chapters # {},
         Current # {}, volumes[FirstRow].hash = Hash,
         UNCHANGED <<file, volumes, chapters>>, \A q \in Commands : job'[q].ids = job[q].ids
  PROVE  VolumeInv'
<1>1. /\ RowInv /\ NamingInv /\ GroupedInv
  BY DEF VolumeInv
<1>2. PICK N \in Nat : \E n \in 1..N :
        /\ Len(file.chapters) = N /\ Cardinality(DOMAIN chapters) = n
        /\ Len(Hash.texts) = n /\ Hash # NoHash
  BY GroupFinds
<1>3. PICK n \in 1..N :
        /\ Len(file.chapters) = N /\ Cardinality(DOMAIN chapters) = n
        /\ Len(Hash.texts) = n /\ Hash # NoHash
  BY <1>2
<1>4. FirstRow \in Current /\ FirstRow \in DOMAIN volumes
  BY <1>1, CurrentIs DEF Current
<1>5. RowInv'
  BY <1>1 DEF RowInv, Numbered, Ordinals
<1>6. NamingInv'
  BY <1>1 DEF NamingInv
<1>7. ASSUME TakenOver PROVE n < N
  <2>1. volumes[FirstRow].version = 0
    BY <1>1, <1>4, <1>7, CurrentIs DEF TakenOver
  <2>2. Len(volumes[FirstRow].hash.texts) < Len(file.chapters)
    BY <1>1, <1>3, <1>4, <2>1 DEF RowInv
  <2> QED
    BY <1>3, <2>2
<1>8. ASSUME ~TakenOver PROVE SharedOut(n)
  <2>1. SharedOut(Len(volumes[FirstRow].hash.texts))
    BY <1>1, <1>4, <1>8 DEF GroupedInv
  <2> QED
    BY <1>3, <2>1
<1>9. Current' = Current /\ TakenOver' = TakenOver /\ \A m : SharedOut(m)' = SharedOut(m)
  BY DEF Current, TakenOver, SharedOut
<1>10. GroupedInv'
  BY <1>1, <1>3, <1>7, <1>8, <1>9 DEF GroupedInv
<1> QED
  BY <1>5, <1>6, <1>10 DEF VolumeInv

\* group-volumes takes over the rows of an import, which can only be before all of
\* its chapters are there: the row after the last chapters know would be missing.
LEMMA GroupTaken ==
  ASSUME VolumeInv, ParsedInv, StoredInv, DOMAIN chapters # {},
         Current # {}, Matches,
         volumes' = [v \in DOMAIN volumes |->
                      IF v \in Current THEN Rows(volumes[FirstRow].version)[volumes[v].ordinal]
                      ELSE volumes[v]],
         UNCHANGED <<file, chapters>>, \A q \in Commands : job'[q].ids = job[q].ids
  PROVE  VolumeInv'
<1>1. /\ RowInv /\ NamingInv /\ GroupedInv
  BY DEF VolumeInv
<1>2. PICK N \in Nat : \E n \in 1..N :
        /\ DOMAIN file.chapters = 1..N /\ Len(file.chapters) = N
        /\ DOMAIN chapters = 0..n - 1 /\ Cardinality(DOMAIN chapters) = n
        /\ Ranged(Boundaries, n) /\ Len(Hash.texts) = n /\ Hash # NoHash
  BY GroupFinds
<1>3. PICK n \in 1..N :
        /\ DOMAIN file.chapters = 1..N /\ Len(file.chapters) = N
        /\ DOMAIN chapters = 0..n - 1 /\ Cardinality(DOMAIN chapters) = n
        /\ Ranged(Boundaries, n) /\ Len(Hash.texts) = n /\ Hash # NoHash
  BY <1>2
<1>4. PICK K \in Nat : DOMAIN Boundaries = 1..K
  BY <1>3, LenProperties DEF Ranged
<1>5. PICK L \in Nat : L = Len(volumes) /\ DOMAIN volumes = 1..L
  BY <1>1, CurrentIs
<1>6. FirstRow \in Current
  BY <1>1, CurrentIs
<1>7. \A v \in Current : v \in 1..L /\ volumes[v].hash = NoHash /\ volumes[v].version = 0 /\ volumes[v].ordinal \in 1..K
  <2> TAKE v \in Current
  <2>1. v \in 1..L /\ volumes[v].hash = NoHash /\ volumes[v].ordinal \in 1..K
    BY <1>4, <1>5 DEF Current, Matches
  <2> QED
    BY <1>1, <1>5, <2>1 DEF RowInv
<1>8. Current = 1..L
  <2>1. ASSUME NEW w \in 1..L PROVE w \in Current
    <3>1. volumes[w].version \in Nat /\ volumes[w].version <= volumes[FirstRow].version
      BY <1>1, <1>5, <1>6, CurrentIs DEF RowInv
    <3>2. volumes[w].version = 0
      BY <1>6, <1>7, <3>1
    <3>3. \A u \in 1..L : volumes[u].version <= 0
      BY <1>1, <1>5, <1>6, <1>7, CurrentIs
    <3> QED
      BY <1>5, <3>2, <3>3 DEF Current
  <2> QED
    BY <1>7, <2>1
<1>9. \A v \in 1..L : /\ volumes[v].hash = NoHash /\ volumes[v].version = 0 /\ volumes[v].ordinal \in 1..K
                      /\ volumes[v].ordinal + 1 \in Ordinals(file)
                      /\ \E x \in Range(file.volumes) : volumes[v].title = Own(x.title)
  BY <1>1, <1>5, <1>7, <1>8 DEF RowInv
<1>10. \A k \in 1..K : \E v \in 1..L : volumes[v].title = Boundaries[k].title /\ volumes[v].ordinal = k
  BY <1>4, <1>8 DEF Matches
<1>11. n # N
  <2> SUFFICES ASSUME n = N PROVE FALSE
    OBVIOUS
  <2>1. K \in 1..K
    <3>1. 0 \in 0..n - 1
      OBVIOUS
    <3>2. \E k \in 1..K : TRUE
      BY <1>3, <1>4, <3>1 DEF Ranged
    <3> QED
      BY <3>2
  <2>2. PICK v \in 1..L : volumes[v].ordinal = K
    BY <1>10, <2>1
  <2>3. K + 1 \in Ordinals(file)
    BY <1>9, <2>2
  <2>4. PICK i \in 1..N : file.chapters[i].ordinal = K + 1
    BY <1>3, <2>3 DEF Ordinals, Range
  <2>5. PICK o \in 0..n - 1 : o + 1 = i
    <3>1. i - 1 \in 0..n - 1 /\ (i - 1) + 1 = i
      OBVIOUS
    <3> QED
      BY <3>1
  <2>6. chapters[o].volume \notin Current
    <3> SUFFICES ASSUME chapters[o].volume \in Current PROVE FALSE
      OBVIOUS
    <3>1. PICK w \in 1..L : w = chapters[o].volume
      BY <1>8
    <3>2. w # NoVolume
      BY ImportAssumption
    <3>3. volumes[w].ordinal = K + 1
      BY <1>1, <1>3, <1>9, <2>4, <2>5, <3>1, <3>2 DEF NamingInv
    <3>4. K + 1 \in 1..K
      BY <1>9, <3>3
    <3> QED
      BY <3>4
  <2>7. PICK k \in 1..K : Boundaries[k].from <= o /\ o <= Boundaries[k].to
    BY <1>3, <1>4 DEF Ranged
  <2>8. Boundaries[k].title = MadeUp(k)
    BY <1>3, <1>4, <2>6, <2>7 DEF Ranged
  <2>9. PICK w \in 1..L : volumes[w].title = MadeUp(k)
    BY <1>10, <2>8
  <2>10. PICK x \in Range(file.volumes) : volumes[w].title = Own(x.title)
    BY <1>9
  <2>11. MadeUp(k)[1] = "made up" /\ Own(x.title)[1] = "own"
    BY DEF MadeUp, Own
  <2> QED
    BY <2>9, <2>10, <2>11
<1>12. n < N
  BY <1>11
<1>13. /\ DOMAIN volumes' = 1..L
       /\ \A v \in 1..L : /\ volumes'[v].version = 0 /\ volumes'[v].ordinal = volumes[v].ordinal
                          /\ volumes'[v].hash = Hash
  <2>1. volumes[FirstRow].version = 0
    BY <1>6, <1>7
  <2>2. DOMAIN volumes' = 1..L /\ \A v \in 1..L : volumes'[v] = Rows(0)[volumes[v].ordinal]
    BY <1>5, <1>8, <2>1
  <2>3. \A k \in 1..K : Rows(0)[k].version = 0 /\ Rows(0)[k].ordinal = k /\ Rows(0)[k].hash = Hash
    BY <1>4 DEF Rows
  <2> QED
    BY <1>9, <2>2, <2>3
<1>14. volumes' \in Seq(Range(volumes'))
  <2>1. PICK R : R = Range(volumes')
    OBVIOUS
  <2>2. \A v \in 1..L : volumes'[v] \in R
    BY <1>13, <2>1 DEF Range
  <2>3. volumes' = [v \in 1..L |-> volumes'[v]]
    BY <1>5
  <2>4. PICK vs : vs = volumes'
    OBVIOUS
  <2>5. vs \in Seq(R)
    BY <2>2, <2>3, <2>4
  <2> QED
    BY <2>1, <2>4, <2>5
<1>15. RowInv'
  <2>1. Numbered(file)' /\ Ordinals(file)' = Ordinals(file)
    BY <1>1 DEF RowInv, Numbered, Ordinals
  <2>2. \A v \in 1..L : volumes'[v].ordinal \in Nat /\ volumes'[v].ordinal + 1 \in Ordinals(file)
    BY <1>9, <1>13
  <2>3. \A v \in 1..L : volumes'[v].hash # NoHash /\ Len(volumes'[v].hash.texts) < Len(file.chapters)
    BY <1>3, <1>12, <1>13
  <2>4. PICK f : f = file' /\ f = file
    BY <1>1
  <2>5. ASSUME NEW v \in 1..L
        PROVE  /\ volumes'[v].version = 0 /\ volumes'[v].ordinal \in Nat
               /\ volumes'[v].ordinal + 1 \in Ordinals(f)
               /\ volumes'[v].hash # NoHash /\ Len(volumes'[v].hash.texts) < Len(f.chapters)
    BY <1>13, <2>2, <2>3, <2>4
  <2>6. Numbered(f) /\ f = file'
    BY <2>1, <2>4
  <2>7. DOMAIN volumes' = 1..L /\ 0 \in Nat
    BY <1>13
  <2> QED
    BY <1>14, <2>5, <2>6, <2>7 DEF RowInv
<1>16. NamingInv'
  <2>1. \A o \in DOMAIN chapters :
          LET v == chapters[o].volume
          IN v = NoVolume \/ (v \in 1..L /\ volumes'[v].ordinal = file.chapters[o + 1].ordinal)
    <3> TAKE o \in DOMAIN chapters
    <3>1. PICK v : v = chapters[o].volume
      OBVIOUS
    <3>2. \/ v = NoVolume
          \/ v \in 1..L /\ (volumes[v].version = 0 => volumes[v].ordinal = file.chapters[o + 1].ordinal)
      BY <1>1, <1>5, <3>1 DEF NamingInv
    <3>3. v \in 1..L => volumes[v].version = 0 /\ volumes'[v].ordinal = volumes[v].ordinal
      BY <1>9, <1>13
    <3> QED
      BY <3>1, <3>2, <3>3
  <2>2. \A q \in Commands : \A pair \in Range(job[q].ids) :
          /\ pair[2] \in 1..L /\ volumes'[pair[2]].version = 0 /\ volumes'[pair[2]].ordinal = pair[1]
    BY <1>1, <1>5, <1>13 DEF NamingInv
  <2> QED
    BY <1>1, <1>13, <2>1, <2>2 DEF NamingInv
<1>17. GroupedInv'
  <2>1. FirstRow \in 1..L
    BY <1>6, <1>8
  <2>2. \E v \in Current' : volumes'[v].version = 0
    <3>1. PICK v \in 1..L : v = FirstRow
      BY <2>1
    <3>2. \A w \in 1..L : volumes'[w].version = 0
      BY <1>13
    <3>3. DOMAIN volumes' = 1..L
      BY <1>13
    <3>4. volumes'[v].version = 0 /\ \A w \in 1..L : volumes'[w].version <= volumes'[v].version
      BY <3>2
    <3> QED
      BY <3>3, <3>4 DEF Current
  <2>3. TakenOver'
    BY <2>2 DEF TakenOver
  <2>4. Cardinality(DOMAIN chapters') < Len(file'.chapters)
    BY <1>3, <1>12
  <2> QED
    BY <2>3, <2>4 DEF GroupedInv
<1> QED
  BY <1>15, <1>16, <1>17 DEF VolumeInv

\* group-volumes begins a grouping of its own.
LEMMA GroupMade ==
  ASSUME VolumeInv, ParsedInv, StoredInv, DOMAIN chapters # {},
         volumes' = volumes \o Rows((IF Current = {} THEN 0 ELSE volumes[FirstRow].version) + 1),
         chapters' = Pointed(chapters),
         UNCHANGED file, \A q \in Commands : job'[q].ids = job[q].ids
  PROVE  VolumeInv'
<1>1. /\ RowInv /\ NamingInv /\ GroupedInv
  BY DEF VolumeInv
<1>2. PICK N \in Nat : \E n \in 1..N :
        /\ DOMAIN file.chapters = 1..N /\ Len(file.chapters) = N
        /\ DOMAIN chapters = 0..n - 1 /\ Cardinality(DOMAIN chapters) = n
        /\ Ranged(Boundaries, n) /\ Len(Hash.texts) = n /\ Hash # NoHash
  BY GroupFinds
<1>3. PICK n \in 1..N :
        /\ DOMAIN file.chapters = 1..N /\ Len(file.chapters) = N
        /\ DOMAIN chapters = 0..n - 1 /\ Cardinality(DOMAIN chapters) = n
        /\ Ranged(Boundaries, n) /\ Len(Hash.texts) = n /\ Hash # NoHash
  BY <1>2
<1>4. PICK K \in Nat : DOMAIN Boundaries = 1..K
  BY <1>3, LenProperties DEF Ranged
<1>5. PICK L \in Nat : L = Len(volumes) /\ DOMAIN volumes = 1..L
  BY <1>1, CurrentIs
<1>6. PICK new \in Nat \ {0} :
        /\ volumes' = volumes \o Rows(new)
        /\ \A v \in 1..L : /\ volumes[v].version \in Nat
                           /\ volumes[v].version <= new /\ volumes[v].version # new
  <2>1. CASE Current = {}
    <3>1. L = 0
      BY <1>1, <1>5, <2>1, CurrentIs
    <3>2. \A v \in 1..L : FALSE
      BY <3>1
    <3>3. volumes' = volumes \o Rows(0 + 1) /\ 0 + 1 \in Nat \ {0}
      BY <2>1
    <3> QED
      BY <3>2, <3>3
  <2>2. CASE Current # {}
    <3>1. FirstRow \in Current /\ FirstRow \in 1..L
      BY <1>1, <1>5, <2>2, CurrentIs
    <3>2. PICK k \in Nat : k = volumes[FirstRow].version
      BY <1>1, <1>5, <3>1 DEF RowInv
    <3>3. ASSUME NEW v \in 1..L
          PROVE  volumes[v].version \in Nat /\ volumes[v].version <= k + 1 /\ volumes[v].version # k + 1
      <4>1. PICK a \in Nat : a = volumes[v].version /\ a <= k
        BY <1>1, <1>5, <3>1, <3>2, CurrentIs DEF RowInv
      <4>2. a <= k + 1 /\ a # k + 1
        BY <4>1
      <4> QED
        BY <4>1, <4>2
    <3>4. volumes' = volumes \o Rows(k + 1) /\ k + 1 \in Nat \ {0}
      BY <2>2, <3>2
    <3> QED
      BY <3>3, <3>4
  <2> QED
    BY <2>1, <2>2
<1>7. PICK rows : /\ rows = Rows(new) /\ DOMAIN rows = 1..K /\ rows = [k \in 1..K |-> rows[k]]
                  /\ \A k \in 1..K : /\ rows[k].version = new /\ rows[k].ordinal = k /\ rows[k].hash = Hash
                                     /\ rows[k].from = Boundaries[k].from /\ rows[k].to = Boundaries[k].to
  <2>1. PICK rows : rows = Rows(new)
    OBVIOUS
  <2>2. rows = [k \in 1..K |->
                 [title |-> Boundaries[k].title, ordinal |-> k, version |-> new,
                  from |-> Boundaries[k].from, to |-> Boundaries[k].to,
                  source |-> DetectSource, hash |-> Hash]]
    BY <1>4, <2>1, Zenon DEF Rows
  <2>3. \A k \in 1..K : /\ rows[k].version = new /\ rows[k].ordinal = k /\ rows[k].hash = Hash
                        /\ rows[k].from = Boundaries[k].from /\ rows[k].to = Boundaries[k].to
    BY <2>2
  <2>4. DOMAIN rows = 1..K /\ rows = [k \in 1..K |-> rows[k]]
    BY <2>2
  <2>5. \E rs : /\ rs = Rows(new) /\ DOMAIN rs = 1..K /\ rs = [k \in 1..K |-> rs[k]]
                /\ \A k \in 1..K : /\ rs[k].version = new /\ rs[k].ordinal = k /\ rs[k].hash = Hash
                                   /\ rs[k].from = Boundaries[k].from /\ rs[k].to = Boundaries[k].to
    BY <2>1, <2>3, <2>4, Zenon
  <2> QED
    BY <2>5, Zenon
<1>8. PICK M \in Nat : M = L + K
  OBVIOUS
<1>9. /\ DOMAIN volumes' = 1..M /\ volumes' \in Seq(Range(volumes'))
      /\ \A v \in 1..L : v \in 1..M /\ volumes'[v] = volumes[v]
      /\ \A k \in 1..K : L + k \in 1..M /\ volumes'[L + k] = rows[k]
  <2>1. PICK Z : Z = Range(volumes) \cup Range(rows)
    OBVIOUS
  <2>2. volumes \in Seq(Z)
    <3>1. volumes \in Seq(Range(volumes))
      BY <1>1 DEF RowInv
    <3> QED
      BY <2>1, <3>1, SeqMonotonic
  <2>3. rows \in Seq(Z) /\ Len(rows) = K
    <3>1. \A k \in 1..K : rows[k] \in Z
      BY <1>7, <2>1 DEF Range
    <3>2. DOMAIN rows = 1..K /\ rows = [k \in 1..K |-> rows[k]]
      BY <1>7
    <3>3. rows \in [1..K -> Z]
      BY <3>1, <3>2
    <3>4. rows \in Seq(Z)
      BY <3>3
    <3> QED
      BY <3>2, <3>4, LenProperties
  <2>4. /\ volumes' \in Seq(Z) /\ Len(volumes') = L + K
        /\ \A i \in 1..(L + K) : volumes'[i] = IF i <= L THEN volumes[i] ELSE rows[i - L]
    <3>1. /\ volumes \o rows \in Seq(Z) /\ Len(volumes \o rows) = Len(volumes) + Len(rows)
          /\ \A i \in 1..(Len(volumes) + Len(rows)) :
               (volumes \o rows)[i] = IF i <= Len(volumes) THEN volumes[i] ELSE rows[i - Len(volumes)]
      BY <2>2, <2>3, ConcatProperties
    <3>2. volumes' = volumes \o rows
      BY <1>6, <1>7
    <3> QED
      BY <1>5, <2>3, <3>1, <3>2
  <2>5. DOMAIN volumes' = 1..M /\ volumes' \in Seq(Range(volumes'))
    <3>1. volumes' \in Seq(Range(volumes'))
      BY <2>4, OwnRange
    <3>2. DOMAIN volumes' = 1..Len(volumes')
      BY <2>4, LenProperties
    <3> QED
      BY <1>8, <2>4, <3>1, <3>2
  <2>6. ASSUME NEW v \in 1..L PROVE v \in 1..M /\ volumes'[v] = volumes[v]
    <3>1. v \in 1..(L + K) /\ v <= L
      OBVIOUS
    <3> QED
      BY <1>8, <2>4, <3>1
  <2>7. ASSUME NEW k \in 1..K PROVE L + k \in 1..M /\ volumes'[L + k] = rows[k]
    <3>1. PICK i \in 1..(L + K) : i = L + k
      OBVIOUS
    <3>2. ~(i <= L) /\ i - L = k
      BY <3>1
    <3> QED
      BY <1>8, <2>4, <3>1, <3>2
  <2> QED
    BY <2>5, <2>6, <2>7
<1>10. ASSUME NEW v \in 1..M PROVE v \in 1..L \/ \E k \in 1..K : v = L + k
  <2>1. ~(v <= L) => v - L \in 1..K /\ v = L + (v - L)
    BY <1>8
  <2> QED
    BY <2>1
<1>11. /\ \A k \in 1..K : /\ volumes'[L + k].version = new /\ volumes'[L + k].hash = Hash
                          /\ volumes'[L + k].from = Boundaries[k].from
                          /\ volumes'[L + k].to = Boundaries[k].to
       /\ \A v \in 1..M : volumes'[v].version \in Nat /\ volumes'[v].version <= new
       /\ \A v \in 1..L : volumes'[v].version # new
  <2>1. \A k \in 1..K : /\ volumes'[L + k].version = new /\ volumes'[L + k].hash = Hash
                        /\ volumes'[L + k].from = Boundaries[k].from
                        /\ volumes'[L + k].to = Boundaries[k].to
    <3> TAKE k \in 1..K
    <3>1. volumes'[L + k] = rows[k]
      BY <1>9
    <3>2. /\ rows[k].version = new /\ rows[k].hash = Hash
          /\ rows[k].from = Boundaries[k].from /\ rows[k].to = Boundaries[k].to
      BY <1>7
    <3> QED
      BY <3>1, <3>2
  <2>2. ASSUME NEW v \in 1..L
        PROVE  /\ volumes'[v].version \in Nat /\ volumes'[v].version <= new /\ volumes'[v].version # new
    BY <1>6, <1>9
  <2>3. new \in Nat /\ new <= new
    OBVIOUS
  <2> QED
    BY <1>10, <2>1, <2>2, <2>3
<1>12. \E k \in 1..K : TRUE
  <2>1. 0 \in 0..n - 1
    OBVIOUS
  <2> QED
    BY <1>3, <1>4, <2>1 DEF Ranged
<1>13. Current' = {L + k : k \in 1..K}
  <2>1. ASSUME NEW v \in Current' PROVE \E k \in 1..K : v = L + k
    <3>1. v \in 1..M /\ \A w \in 1..M : volumes'[w].version <= volumes'[v].version
      BY <1>9, <2>1 DEF Current
    <3>2. PICK k \in 1..K : TRUE
      BY <1>12
    <3>3. new <= volumes'[v].version /\ volumes'[v].version <= new /\ volumes'[v].version \in Nat
      BY <1>9, <1>11, <3>1, <3>2
    <3>4. PICK x \in Nat : x = volumes'[v].version /\ new <= x /\ x <= new
      BY <3>3
    <3>5. x = new
      <4>1. PICK y \in Nat : y = new
        OBVIOUS
      <4>2. y <= x /\ x <= y
        BY <3>4, <4>1
      <4>3. x = y
        BY <4>2
      <4> QED
        BY <4>1, <4>3
    <3>6. volumes'[v].version = new
      BY <3>4, <3>5
    <3>7. v \notin 1..L
      BY <1>11, <3>6
    <3> QED
      BY <1>10, <3>1, <3>7
  <2>2. ASSUME NEW k \in 1..K PROVE L + k \in Current'
    <3>1. L + k \in DOMAIN volumes' /\ volumes'[L + k].version = new
      BY <1>9, <1>11
    <3>2. \A w \in DOMAIN volumes' : volumes'[w].version <= volumes'[L + k].version
      BY <1>9, <1>11, <3>1
    <3> QED
      BY <3>1, <3>2 DEF Current
  <2> QED
    BY <2>1, <2>2
<1>14. /\ DOMAIN chapters' = 0..n - 1
       /\ \A o \in 0..n - 1 : \E k \in 1..K : /\ chapters'[o].volume = L + k
                                              /\ Boundaries[k].from <= o /\ o <= Boundaries[k].to
  <2>1. /\ DOMAIN chapters' = 0..n - 1
        /\ \A o \in 0..n - 1 :
             chapters'[o] = [chapters[o] EXCEPT !.volume = Len(volumes) + CHOOSE k \in DOMAIN Boundaries :
                                                Boundaries[k].from <= o /\ o <= Boundaries[k].to]
    BY <1>3 DEF Pointed
  <2>2. ASSUME NEW o \in 0..n - 1
        PROVE  \E k \in 1..K : /\ chapters'[o].volume = L + k
                               /\ Boundaries[k].from <= o /\ o <= Boundaries[k].to
    <3>1. PICK k : k = CHOOSE j \in DOMAIN Boundaries : Boundaries[j].from <= o /\ o <= Boundaries[j].to
      OBVIOUS
    <3>2. \E j \in DOMAIN Boundaries : Boundaries[j].from <= o /\ o <= Boundaries[j].to
      BY <1>3 DEF Ranged
    <3>3. k \in 1..K /\ Boundaries[k].from <= o /\ o <= Boundaries[k].to
      BY <1>4, <3>1, <3>2, Zenon
    <3>4. chapters'[o] = [chapters[o] EXCEPT !.volume = L + k]
      BY <1>5, <2>1, <3>1
    <3>5. chapters[o] = [lo |-> file.chapters[o + 1].lo, hi |-> file.chapters[o + 1].hi,
                         hash |-> file.chapters[o + 1].hash, volume |-> chapters[o].volume]
      BY <1>3 DEF StoredInv
    <3>6. chapters'[o].volume = L + k
      BY <3>4, <3>5
    <3> QED
      BY <3>3, <3>6
  <2> QED
    BY <2>1, <2>2
<1>15. RowInv'
  <2>1. Numbered(file)' /\ Ordinals(file)' = Ordinals(file) /\ file' = file
    BY <1>1 DEF RowInv, Numbered, Ordinals
  <2>2. ASSUME NEW v \in 1..M
        PROVE LET r == volumes'[v]
              IN /\ r.version \in Nat /\ r.ordinal \in Nat
                 /\ IF r.version = 0
                    THEN /\ r.ordinal + 1 \in Ordinals(file)
                         /\ IF r.hash = NoHash THEN \E y \in Range(file.volumes) : r.title = Own(y.title)
                            ELSE Len(r.hash.texts) < Len(file.chapters)
                    ELSE r.hash # NoHash
    <3>1. CASE v \in 1..L
      <4>1. volumes'[v] = volumes[v] /\ v \in DOMAIN volumes
        BY <1>5, <1>9, <3>1
      <4>2. PICK r : r = volumes[v]
        OBVIOUS
      <4>3. /\ r.version \in Nat /\ r.ordinal \in Nat
            /\ IF r.version = 0
               THEN /\ r.ordinal + 1 \in Ordinals(file)
                    /\ IF r.hash = NoHash THEN \E y \in Range(file.volumes) : r.title = Own(y.title)
                       ELSE Len(r.hash.texts) < Len(file.chapters)
               ELSE r.hash # NoHash
        BY <1>1, <4>1, <4>2 DEF RowInv
      <4>4. volumes'[v] = r
        BY <4>1, <4>2
      <4> QED
        BY <4>3, <4>4
    <3>2. CASE \E k \in 1..K : v = L + k
      <4>1. PICK k \in 1..K : v = L + k
        BY <3>2
      <4>2. volumes'[v] = rows[k]
        BY <1>9, <4>1
      <4>3. rows[k].version = new /\ rows[k].hash = Hash /\ rows[k].ordinal = k
        BY <1>7
      <4>4. volumes'[v].version = new /\ volumes'[v].hash = Hash /\ volumes'[v].ordinal = k
        BY <4>2, <4>3
      <4>5. new \in Nat /\ new # 0 /\ k \in Nat /\ Hash # NoHash
        BY <1>3
      <4> QED
        BY <4>4, <4>5
    <3> QED
      BY <1>10, <3>1, <3>2
  <2> QED
    BY <1>9, <2>1, <2>2 DEF RowInv
<1>16. NamingInv'
  <2>1. ASSUME NEW o \in DOMAIN chapters'
        PROVE  /\ chapters'[o].volume \in DOMAIN volumes'
               /\ volumes'[chapters'[o].volume].version # 0
    <3>1. PICK k \in 1..K : chapters'[o].volume = L + k
      BY <1>14
    <3> QED
      BY <1>9, <1>11, <3>1
  <2>2. \A q \in Commands : \A pair \in Range(job[q].ids) :
          /\ pair[2] \in 1..M /\ volumes'[pair[2]].version = 0 /\ volumes'[pair[2]].ordinal = pair[1]
    BY <1>1, <1>5, <1>9 DEF NamingInv
  <2>3. \A q \in Commands : job[q].ids \in Seq(Range(job[q].ids))
    BY <1>1 DEF NamingInv
  <2> QED
    BY <1>9, <2>1, <2>2, <2>3 DEF NamingInv
<1>17. SharedOut(n)'
  <2>1. ASSUME NEW o \in 0..n - 1
        PROVE  /\ o \in DOMAIN chapters' /\ chapters'[o].volume \in Current'
               /\ volumes'[chapters'[o].volume].from <= o /\ o <= volumes'[chapters'[o].volume].to
    <3>1. PICK k \in 1..K : /\ chapters'[o].volume = L + k
                            /\ Boundaries[k].from <= o /\ o <= Boundaries[k].to
      BY <1>14
    <3>2. volumes'[L + k].from = Boundaries[k].from /\ volumes'[L + k].to = Boundaries[k].to
      BY <1>11
    <3>3. L + k \in Current' /\ o \in DOMAIN chapters'
      BY <1>13, <1>14
    <3> QED
      BY <3>1, <3>2, <3>3
  <2>2. ASSUME NEW v \in Current', NEW w \in Current'
        PROVE  v = w \/ volumes'[v].to < volumes'[w].from \/ volumes'[w].to < volumes'[v].from
    <3>1. PICK j \in 1..K : v = L + j
      BY <1>13
    <3>2. PICK k \in 1..K : w = L + k
      BY <1>13
    <3>3. j < k \/ j = k \/ k < j
      OBVIOUS
    <3>4. /\ j < k => Boundaries[j].to < Boundaries[k].from
          /\ k < j => Boundaries[k].to < Boundaries[j].from
      BY <1>3, <1>4 DEF Ranged
    <3> QED
      BY <1>11, <3>1, <3>2, <3>3, <3>4
  <2> QED
    BY <2>1, <2>2 DEF SharedOut
<1>18. GroupedInv'
  <2>1. \A v \in Current' : volumes'[v].hash = Hash /\ volumes'[v].version # 0
    BY <1>11, <1>13
  <2>2. ~TakenOver'
    BY <2>1 DEF TakenOver
  <2>3. Cardinality(DOMAIN chapters') = n
    BY <1>3, <1>14
  <2>4. \A v \in Current' : SharedOut(Len(volumes[v].hash.texts))'
    <3> TAKE v \in Current'
    <3>1. Len(volumes'[v].hash.texts) = n
      BY <1>3, <2>1
    <3> QED
      BY <1>17, <3>1
  <2>5. \A v, w \in Current' : volumes'[w].hash = volumes'[v].hash
    BY <2>1
  <2>6. SharedOut(Cardinality(DOMAIN chapters))'
    BY <1>17, <2>3
  <2> QED
    BY <2>2, <2>4, <2>5, <2>6 DEF GroupedInv
<1> QED
  BY <1>15, <1>16, <1>18 DEF VolumeInv

\* group-volumes keeps it.
LEMMA GroupKeeps == ASSUME VolumeInv, ParsedInv, StoredInv, Group PROVE VolumeInv'
<1>1. /\ DOMAIN chapters # {} /\ UNCHANGED file /\ \A q \in Commands : job'[q].ids = job[q].ids
  BY DEF Group
<1>2. CASE Current # {} /\ volumes[FirstRow].hash = Hash
  <2>1. UNCHANGED <<volumes, chapters>>
    BY <1>2 DEF Group
  <2> QED
    BY <1>1, <1>2, <2>1, GroupKept
<1>3. CASE ~(Current # {} /\ volumes[FirstRow].hash = Hash) /\ Current # {} /\ Matches
  <2>1. /\ UNCHANGED chapters
        /\ volumes' = [v \in DOMAIN volumes |->
                        IF v \in Current THEN Rows(volumes[FirstRow].version)[volumes[v].ordinal]
                        ELSE volumes[v]]
    BY <1>3, Zenon DEF Group
  <2> QED
    BY <1>1, <1>3, <2>1, GroupTaken
<1>4. CASE ~(Current # {} /\ volumes[FirstRow].hash = Hash) /\ ~(Current # {} /\ Matches)
  <2>1. /\ volumes' = volumes \o Rows((IF Current = {} THEN 0 ELSE volumes[FirstRow].version) + 1)
        /\ chapters' = Pointed(chapters)
    BY <1>4, Zenon DEF Group
  <2> QED
    BY <1>1, <2>1, GroupMade
<1> QED
  BY <1>2, <1>3, <1>4

\* Every step keeps it.
THEOREM VolumesStep ==
  VolumeInv /\ ParsedInv /\ StoredInv /\ [ImportNext]_importVars => VolumeInv'
<1> SUFFICES ASSUME VolumeInv, ParsedInv, StoredInv, [ImportNext]_importVars PROVE VolumeInv'
  OBVIOUS
<1>1. DOMAIN job = Commands /\ \A p \in Commands : job[p] = [step |-> job[p].step, ids |-> job[p].ids, done |-> job[p].done]
  BY DEF StoredInv
<1>2. CASE UNCHANGED importVars
  BY <1>2, OnlyJobs DEF importVars, tables
<1>3. CASE Group
  BY <1>3, GroupKeeps
<1>4. ASSUME NEW p \in Commands, NEW step, Goto(p, step) PROVE \A q \in Commands : job'[q].ids = job[q].ids
  BY <1>1, <1>4 DEF Goto
<1>5. ASSUME NEW p \in Commands, Start(p) \/ Kill(p) PROVE VolumeInv'
  <2>1. UNCHANGED <<file, volumes, chapters, fresh>>
    BY <1>5 DEF Start, Kill, tables
  <2>2. \A q \in Commands : job'[q].ids = job[q].ids \/ job'[q].ids = <<>>
    BY <1>1, <1>5 DEF Start, Kill, Idle
  <2> QED
    BY <2>1, <2>2, OnlyJobs
<1>6. ASSUME NEW p \in Commands, CreateBook(p) PROVE VolumeInv'
  <2>1. UNCHANGED <<file, volumes, chapters, fresh>> /\ Goto(p, "volumes")
    BY <1>6 DEF CreateBook
  <2> QED
    BY <1>4, <2>1, OnlyJobs
<1>7. ASSUME NEW p \in Commands, CreateVolume(p) PROVE VolumeInv'
  <2>1. PICK n : n = job[p].done + 1
    OBVIOUS
  <2>2. CASE n > Len(file.volumes)
    <3>1. UNCHANGED <<file, volumes, chapters, fresh>> /\ Goto(p, "chapters")
      BY <1>7, <2>1, <2>2 DEF CreateVolume
    <3> QED
      BY <1>4, <3>1, OnlyJobs
  <2>3. CASE ~(n > Len(file.volumes))
    <3>1. n \in 1..Len(file.volumes)
      <4>1. job[p].done \in Nat
        BY DEF StoredInv
      <4>2. Len(file.volumes) \in Nat
        BY LenProperties DEF VolumeInv, RowInv, Numbered
      <4> QED
        BY <2>1, <2>3, <4>1, <4>2
    <3>2. PICK x \in Range(file.volumes) : x = file.volumes[n]
      <4>1. file.volumes \in Seq(Range(file.volumes))
        BY DEF VolumeInv, RowInv, Numbered
      <4> QED
        BY <3>1, <4>1, ElementOfSeq
    <3>3. PICK row : row = [title |-> Own(x.title), ordinal |-> x.ordinal, version |-> 0,
                            from |-> NoVolume, to |-> NoVolume, source |-> NoVolume, hash |-> NoHash]
      OBVIOUS
    <3>4. /\ volumes' = Append(volumes, row)
          /\ job' = [job EXCEPT ![p].done = n,
                                ![p].ids = Append(@, <<x.ordinal, Len(volumes) + 1>>)]
          /\ fresh' = FALSE /\ UNCHANGED <<file, chapters>>
      BY <1>7, <2>1, <2>3, <3>2, <3>3 DEF CreateVolume
    <3>5. ASSUME NEW q \in Commands
          PROVE job'[q].ids = IF q = p THEN Append(job[p].ids, <<x.ordinal, Len(volumes) + 1>>) ELSE job[q].ids
      BY <1>1, <3>4
    <3>6. row.title = Own(x.title) /\ row.ordinal = x.ordinal /\ row.version = 0 /\ row.hash = NoHash
      BY <3>3
    <3> QED
      BY <3>4, <3>5, <3>6, RowAdded
  <2> QED
    BY <2>2, <2>3
<1>8. ASSUME NEW p \in Commands, CreateChapter(p) PROVE VolumeInv'
  <2>1. PICK n \in Nat \ {0} : n = job[p].done + 1
    BY DEF StoredInv
  <2>2. CASE n > Len(file.chapters)
    <3>1. UNCHANGED <<file, volumes, chapters, fresh>> /\ Goto(p, "idle")
      BY <1>8, <2>1, <2>2 DEF CreateChapter
    <3> QED
      BY <1>4, <3>1, OnlyJobs
  <2>3. CASE ~(n > Len(file.chapters))
    <3>1. PICK c : c = file.chapters[n]
      OBVIOUS
    <3>2. /\ chapters' = [o \in DOMAIN chapters \cup {n - 1} |->
                           IF o \in DOMAIN chapters THEN chapters[o]
                           ELSE [lo |-> c.lo, hi |-> c.hi, hash |-> c.hash, volume |-> VolumeId(p, c.ordinal)]]
          /\ job' = [job EXCEPT ![p].done = n]
          /\ fresh' = FALSE /\ UNCHANGED <<file, volumes>>
      BY <1>8, <2>1, <2>3, <3>1 DEF CreateChapter
    <3>3. \A q \in Commands : job'[q].ids = job[q].ids
      BY <1>1, <3>2
    <3> QED
      BY <3>1, <3>2, <3>3, ChapterAdded
  <2> QED
    BY <2>2, <2>3
<1> QED
  BY <1>2, <1>3, <1>5, <1>6, <1>7, <1>8 DEF ImportNext

\* After a group-volumes the current grouping shares out the chapters.
LEMMA GroupedParts == ASSUME VolumeInv, ParsedInv, StoredInv PROVE VolumesPartition
<1> SUFFICES ASSUME fresh, complete \/ ~TakenOver
             PROVE  SharedOut(Cardinality(DOMAIN chapters)) /\ DOMAIN chapters = 0..Cardinality(DOMAIN chapters) - 1
  BY DEF VolumesPartition, SharedOut
<1>1. PICK N \in Nat : Len(file.chapters) = N
  BY LenProperties DEF ParsedInv, WellCut
<1>2. PICK n \in 0..N : DOMAIN chapters = 0..n - 1 /\ (complete => n = N)
  BY <1>1 DEF StoredInv
<1>3. Cardinality(DOMAIN chapters) = n
  <2>1. PICK b \in Int : b = n - 1
    OBVIOUS
  <2>2. Cardinality(0..b) = IF 0 > b THEN 0 ELSE b - 0 + 1
    BY FS_Interval
  <2>3. (IF 0 > b THEN 0 ELSE b - 0 + 1) = n
    BY <2>1
  <2> QED
    BY <1>2, <2>1, <2>2, <2>3
<1>4. ~TakenOver
  <2> SUFFICES ASSUME TakenOver PROVE FALSE
    OBVIOUS
  <2>1. Cardinality(DOMAIN chapters) < Len(file.chapters) /\ complete
    BY DEF VolumeInv, GroupedInv
  <2> QED
    BY <1>1, <1>2, <1>3, <2>1
<1>5. SharedOut(Cardinality(DOMAIN chapters))
  BY <1>4 DEF VolumeInv, GroupedInv
<1> QED
  BY <1>2, <1>3, <1>5

\* The rows, the names chapters have for them and what they share out, in every state.
THEOREM VolumesInvariant == ImportSpec => []VolumeInv
<1>1. VolumeInv /\ ParsedInv /\ StoredInv /\ [ImportNext]_importVars => VolumeInv'
  BY VolumesStep
<1> QED
  BY VolumesStart, <1>1, ImportInvariant, PTL DEF ImportSpec

\* The volumes of the current grouping share out the chapters after a group-volumes.
THEOREM VolumesShareOutTheChapters == ImportSpec => []VolumesPartition
<1>1. VolumeInv /\ ParsedInv /\ StoredInv => VolumesPartition
  BY GroupedParts
<1> QED
  BY VolumesInvariant, <1>1, ImportInvariant, PTL
==============================================================================
