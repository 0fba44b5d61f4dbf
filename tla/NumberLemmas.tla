---------------------------- MODULE NumberLemmas ----------------------------
(***************************************************************************)
(* Lemmas for the other proofs: induction over numbers, powers of two for  *)
(* what doubles and for the number of binary digits, and the sequences     *)
(* that FlattenSeq puts together.                                          *)
(***************************************************************************)
EXTENDS Integers, SequencesExt, FunctionTheorems, FiniteSetTheorems, SequenceTheorems,
        WellFoundedInduction, TLAPS

(***************************************************************************)
(* Induction over a set of numbers.                                        *)
(***************************************************************************)
LEMMA LeastNumber ==
    ASSUME NEW T \in SUBSET Nat, T # {}
    PROVE  \E m \in T : \A n \in T : m <= n
  <1> DEFINE R == StrictSubsetOrdering(Nat)
             F == FiniteSubsetsOf(Nat)
             U == {0 .. n : n \in T}
  <1>1. IsWellFoundedOn(R, F)
    BY FS_StrictSubsetOrderingWellFounded
  <1>2. U \subseteq F /\ U # {}
    <2>1. ASSUME NEW n \in T PROVE 0 .. n \in F
      <3>1. IsFiniteSet(0 .. n)
        BY FS_Interval
      <3>2. 0 .. n \in SUBSET Nat
        OBVIOUS
      <3>3. QED  BY <3>1, <3>2, Zenon DEF FiniteSubsetsOf
    <2>2. QED  BY <2>1
  <1>3. PICK x \in U : \A y \in U : <<y, x>> \notin R
    <2> HIDE DEF R, F, U
    <2> QED  BY <1>1, <1>2, WFMin
  <1>4. PICK m \in T : x = 0 .. m
    OBVIOUS
  <1>5. ASSUME NEW n \in T, n < m PROVE FALSE
    <2>1. 0 .. n \subseteq 0 .. m /\ 0 .. n # 0 .. m
      BY <1>5
    <2>2. <<0 .. n, 0 .. m>> \in R
      BY <2>1 DEF StrictSubsetOrdering
    <2>3. QED  BY <1>3, <1>4, <2>2
  <1>6. QED  BY <1>5

LEMMA SetInduction ==
    ASSUME NEW S, 0 \in S, \A n \in Nat : n \in S => n + 1 \in S
    PROVE  \A n \in Nat : n \in S
  <1> SUFFICES ASSUME NEW k \in Nat, k \notin S PROVE FALSE
    OBVIOUS
  <1> DEFINE T == {n \in Nat : n \notin S}
  <1>1. PICK m \in T : \A n \in T : m <= n
    BY LeastNumber
  <1>2. m # 0 /\ m - 1 \in Nat
    OBVIOUS
  <1>3. m - 1 \in S
    BY <1>1, <1>2
  <1>4. QED  BY <1>2, <1>3

-----------------------------------------------------------------------------
(***************************************************************************)
(* Powers of two: 2^n is the number of subsets of a set of n elements.     *)
(***************************************************************************)
LEMMA SubsetsOfInterval ==
    ASSUME NEW n \in Nat
    PROVE  /\ IsFiniteSet(SUBSET (1 .. n)) /\ Cardinality(SUBSET (1 .. n)) = 2 ^ n
           /\ 2 ^ n \in Nat
  <1>1. IsFiniteSet(1 .. n) /\ Cardinality(1 .. n) = n
    BY FS_Interval
  <1>2. IsFiniteSet(SUBSET (1 .. n)) /\ Cardinality(SUBSET (1 .. n)) = 2 ^ Cardinality(1 .. n)
    BY <1>1, FS_SUBSET
  <1>3. IsFiniteSet(SUBSET (1 .. n)) /\ Cardinality(SUBSET (1 .. n)) = 2 ^ n
    BY <1>1, <1>2, Zenon
  <1>4. Cardinality(SUBSET (1 .. n)) \in Nat
    BY <1>3, FS_CardinalityType
  <1>5. QED  BY <1>3, <1>4, Zenon

LEMMA PowerOfZero == 2 ^ 0 = 1
  <1>1. Cardinality(SUBSET (1 .. 0)) = 2 ^ 0
    BY SubsetsOfInterval
  <1>2. SUBSET (1 .. 0) = {{}}
    OBVIOUS
  <1>3. Cardinality({{}}) = 1
    BY FS_Singleton
  <1>4. QED  BY <1>1, <1>2, <1>3, Zenon

LEMMA PowerDoubles ==
    ASSUME NEW n \in Nat
    PROVE  2 ^ (n + 1) = 2 ^ n + 2 ^ n
  <1> DEFINE Old == SUBSET (1 .. n)
             New == {T \cup {n + 1} : T \in Old}
             All == SUBSET (1 .. (n + 1))
             Add == [T \in Old |-> T \cup {n + 1}]
  <1>1. /\ IsFiniteSet(Old) /\ Cardinality(Old) = 2 ^ n /\ 2 ^ n \in Nat
        /\ Cardinality(All) = 2 ^ (n + 1)
    BY SubsetsOfInterval
  <1>2. Add \in Bijection(Old, New)
    <2>1. Add \in Surjection(Old, New)
      BY Zenon DEF Surjection
    <2>2. ASSUME NEW S \in Old, NEW T \in Old, Add[S] = Add[T] PROVE S = T
      <3>1. n + 1 \notin S /\ n + 1 \notin T
        OBVIOUS
      <3>2. S \cup {n + 1} = T \cup {n + 1}
        BY <2>2
      <3>3. QED  BY <3>1, <3>2
    <2>3. IsInjective(Add)
      <3>1. DOMAIN Add = Old
        OBVIOUS
      <3> HIDE DEF Old, Add
      <3>2. QED  BY <2>2, <3>1, Zenon DEF IsInjective
    <2> HIDE DEF Old, New, Add
    <2>4. QED  BY <2>1, <2>3, Zenon DEF Bijection, Injection, Surjection
  <1>3. IsFiniteSet(New) /\ Cardinality(New) = 2 ^ n
    <2>1. ExistsBijection(Old, New)
      BY <1>2, Zenon DEF ExistsBijection
    <2> HIDE DEF Old, New
    <2>2. QED  BY <1>1, <2>1, FS_Bijection
  <1>4. Old \cup New = All
    <2>1. Old \subseteq All /\ New \subseteq All
      <3>1. 1 .. n \subseteq 1 .. (n + 1) /\ n + 1 \in 1 .. (n + 1)
        OBVIOUS
      <3>2. QED  BY <3>1, Zenon
    <2>2. ASSUME NEW T \in All PROVE T \in Old \cup New
      <3>1. CASE n + 1 \in T
        <4>1. T \ {n + 1} \in Old /\ T = (T \ {n + 1}) \cup {n + 1}
          BY <3>1
        <4>2. QED  BY <4>1
      <3>2. CASE n + 1 \notin T
        BY <3>2
      <3>3. QED  BY <3>1, <3>2
    <2>3. QED  BY <2>1, <2>2
  <1>5. Old \cap New = {}
    OBVIOUS
  <1>6. Cardinality(Old \cup New) = Cardinality(Old) + Cardinality(New) - Cardinality(Old \cap New)
    <2> HIDE DEF Old, New
    <2> QED  BY <1>1, <1>3, FS_Union
  <1>7. Cardinality(Old \cap New) = 0
    BY <1>5, FS_EmptySet
  <1> HIDE DEF Old, New, All
  <1>8. QED  BY <1>1, <1>3, <1>4, <1>6, <1>7

LEMMA PowerType ==
    ASSUME NEW n \in Nat
    PROVE  2 ^ n \in Nat \ {0}
  <1> DEFINE S == {k \in Nat : 2 ^ k \in Nat \ {0}}
  <1>1. 0 \in S
    BY PowerOfZero
  <1>2. ASSUME NEW k \in Nat, k \in S PROVE k + 1 \in S
    <2>1. 2 ^ (k + 1) = 2 ^ k + 2 ^ k
      BY PowerDoubles
    <2>2. QED  BY <1>2, <2>1
  <1>3. n \in S
    <2> HIDE DEF S
    <2> QED  BY <1>1, <1>2, SetInduction
  <1>4. QED  BY <1>3

LEMMA PowerOfSum ==
    ASSUME NEW m \in Nat, NEW n \in Nat
    PROVE  2 ^ (m + n) = 2 ^ m * 2 ^ n
  <1> DEFINE S == {k \in Nat : 2 ^ (m + k) = 2 ^ m * 2 ^ k}
  <1>1. 0 \in S
    <2>1. 2 ^ m \in Nat
      BY PowerType
    <2>2. m + 0 = m /\ 2 ^ m * 1 = 2 ^ m
      BY <2>1
    <2>3. QED  BY <2>2, PowerOfZero
  <1>2. ASSUME NEW k \in Nat, k \in S PROVE k + 1 \in S
    <2>1. PICK p \in Nat : p = 2 ^ m
      BY PowerType
    <2>2. PICK q \in Nat : q = 2 ^ k
      BY PowerType
    <2>3. 2 ^ (k + 1) = q + q
      BY <2>2, PowerDoubles, Zenon
    <2>4. m + k \in Nat /\ m + (k + 1) = (m + k) + 1
      OBVIOUS
    <2>5. 2 ^ ((m + k) + 1) = 2 ^ (m + k) + 2 ^ (m + k)
      BY <2>4, PowerDoubles
    <2>6. 2 ^ (m + k) = p * q
      BY <1>2, <2>1, <2>2, Zenon
    <2>7. p * (q + q) = p * q + p * q
      BY <2>1, <2>2
    <2>8. 2 ^ (m + (k + 1)) = 2 ^ m * 2 ^ (k + 1)
      BY <2>1, <2>3, <2>4, <2>5, <2>6, <2>7, Zenon
    <2>9. QED  BY <2>8
  <1>3. n \in S
    <2> HIDE DEF S
    <2> QED  BY <1>1, <1>2, SetInduction
  <1>4. QED  BY <1>3

LEMMA PowerMonotone ==
    ASSUME NEW m \in Nat, NEW n \in Nat
    PROVE  m <= n <=> 2 ^ m <= 2 ^ n
  <1>1. ASSUME NEW a \in Nat, NEW d \in Nat PROVE 2 ^ a <= 2 ^ (a + d) /\ (d > 0 => 2 ^ a < 2 ^ (a + d))
    <2>1. 2 ^ (a + d) = 2 ^ a * 2 ^ d
      BY PowerOfSum
    <2>2. PICK p \in Nat \ {0} : p = 2 ^ a
      BY PowerType
    <2>3. PICK q \in Nat \ {0} : q = 2 ^ d
      BY PowerType
    <2>4. d > 0 => q >= 2
      <3>1. CASE d > 0
        <4>1. d - 1 \in Nat /\ (d - 1) + 1 = d
          BY <3>1
        <4>2. PICK r \in Nat \ {0} : r = 2 ^ (d - 1)
          BY <4>1, PowerType
        <4>3. 2 ^ d = r + r
          BY <4>1, <4>2, PowerDoubles, Zenon
        <4>4. QED  BY <2>3, <4>2, <4>3
      <3>2. QED  BY <3>1
    <2>5. p <= p * q /\ (q >= 2 => p < p * q)
      BY <2>2, <2>3
    <2>6. QED  BY <2>1, <2>2, <2>3, <2>4, <2>5
  <1>2. CASE m <= n
    <2>1. n - m \in Nat /\ m + (n - m) = n
      BY <1>2
    <2>2. 2 ^ m <= 2 ^ (m + (n - m))
      BY <1>1, <2>1
    <2>3. QED  BY <1>2, <2>1, <2>2
  <1>3. CASE ~(m <= n)
    <2>1. m - n \in Nat /\ m - n > 0 /\ n + (m - n) = m
      BY <1>3
    <2>2. 2 ^ n < 2 ^ (n + (m - n))
      BY <1>1, <2>1
    <2>3. 2 ^ m \in Nat /\ 2 ^ n \in Nat
      BY PowerType
    <2>4. QED  BY <1>3, <2>1, <2>2, <2>3
  <1>4. QED  BY <1>2, <1>3

-----------------------------------------------------------------------------
(***************************************************************************)
(* A function on the numbers to N, each value made of the one before it.   *)
(***************************************************************************)
Recurs(f, N, base, step) ==
    f[0] = base /\ \A n \in 1 .. N : f[n] = step[n][f[n - 1]]

LEMMA RecursionExists ==
    ASSUME NEW V, NEW base \in V, NEW N \in Nat, NEW step \in [1 .. N -> [V -> V]]
    PROVE  \E f \in [0 .. N -> V] : Recurs(f, N, base, step)
  <1> DEFINE S == {n \in Nat : n <= N => \E f \in [0 .. n -> V] : Recurs(f, n, base, step)}
  <1>1. 0 \in S
    <2> DEFINE f == [i \in 0 .. 0 |-> base]
    <2>1. f \in [0 .. 0 -> V] /\ f[0] = base
      OBVIOUS
    <2>2. Recurs(f, 0, base, step)
      BY <2>1 DEF Recurs
    <2>3. QED  BY <2>1, <2>2
  <1>2. ASSUME NEW n \in Nat, n \in S PROVE n + 1 \in S
    <2> SUFFICES ASSUME n + 1 <= N
                 PROVE  \E f \in [0 .. (n + 1) -> V] : Recurs(f, n + 1, base, step)
      OBVIOUS
    <2>1. PICK f \in [0 .. n -> V] : Recurs(f, n, base, step)
      BY <1>2
    <2>2. PICK m \in 1 .. N : m = n + 1
      OBVIOUS
    <2>3. f[n] \in V /\ step[m] \in [V -> V] /\ step[m][f[n]] \in V
      OBVIOUS
    <2> DEFINE g == [i \in 0 .. m |-> IF i = m THEN step[m][f[n]] ELSE f[i]]
    <2>4. /\ \A i \in 0 .. n : i \in 0 .. m /\ i # m
          /\ \A i \in 0 .. m : i = m \/ i \in 0 .. n
          /\ m \in 0 .. m /\ m - 1 = n /\ 0 \in 0 .. n
      BY <2>2
    <2>5. g \in [0 .. m -> V] /\ g[m] = step[m][f[n]] /\ \A i \in 0 .. n : g[i] = f[i]
      BY <2>3, <2>4
    <2> HIDE DEF g
    <2>6. ASSUME NEW i \in 1 .. m PROVE g[i] = step[i][g[i - 1]]
      <3>1. CASE i = m
        <4>1. g[i - 1] = f[n]
          BY <2>2, <2>4, <2>5, <3>1
        <4>2. QED  BY <2>5, <3>1, <4>1, Zenon
      <3>2. CASE i # m
        <4>1. i \in 1 .. n /\ i \in 0 .. n /\ i - 1 \in 0 .. n
          BY <2>2, <3>2
        <4>2. f[i] = step[i][f[i - 1]]
          BY <2>1, <4>1 DEF Recurs
        <4>3. QED  BY <2>5, <4>1, <4>2, Zenon
      <3>3. QED  BY <3>1, <3>2
    <2>7. g[0] = base
      BY <2>1, <2>4, <2>5 DEF Recurs
    <2>8. Recurs(g, m, base, step)
      BY <2>6, <2>7, Zenon DEF Recurs
    <2>9. QED  BY <2>2, <2>5, <2>8
  <1>3. N \in S
    <2> HIDE DEF S
    <2> QED  BY <1>1, <1>2, SetInduction
  <1>4. QED  BY <1>3


LEMMA RecursionUnique ==
    ASSUME NEW N \in Nat, NEW base, NEW step, NEW f, NEW g,
           Recurs(f, N, base, step), Recurs(g, N, base, step)
    PROVE  \A n \in 0 .. N : g[n] = f[n]
  <1> DEFINE S == {n \in Nat : n <= N => g[n] = f[n]}
  <1>1. 0 \in S
    BY DEF Recurs
  <1>2. ASSUME NEW n \in Nat, n \in S PROVE n + 1 \in S
    <2> SUFFICES ASSUME n + 1 <= N PROVE g[n + 1] = f[n + 1]
      OBVIOUS
    <2>1. g[n] = f[n]
      BY <1>2
    <2>2. PICK m \in 1 .. N : m = n + 1 /\ m - 1 = n
      OBVIOUS
    <2>3. f[m] = step[m][f[n]] /\ g[m] = step[m][g[n]]
      BY <2>2 DEF Recurs
    <2>4. QED  BY <2>1, <2>2, <2>3, Zenon
  <1>3. \A n \in Nat : n \in S
    <2> HIDE DEF S
    <2> QED  BY <1>1, <1>2, SetInduction
  <1>4. QED  BY <1>3

-----------------------------------------------------------------------------
(***************************************************************************)
(* FlattenSeq                                                              *)
(***************************************************************************)

LEMMA FlattenEmpty == FlattenSeq(<<>>) = <<>>
  BY DEF FlattenSeq

\* The function by which FlattenSeq is defined exists.
Flattens(seqs, it) ==
    /\ FlattenSeq(seqs) = it[Len(seqs)]
    /\ \A i \in 1..Len(seqs) : it[i] = IF i = 1 THEN seqs[i] ELSE it[i - 1] \o seqs[i]

LEMMA FlattenFacts ==
    ASSUME NEW S, NEW seqs \in Seq(Seq(S)), Len(seqs) # 0
    PROVE  \E it \in [1..Len(seqs) -> Seq(S)] : Flattens(seqs, it)
  <1>1. PICK N \in Nat : N = Len(seqs) /\ N # 0
    OBVIOUS
  <1>2. \A i \in 1..N : seqs[i] \in Seq(S)
    BY <1>1
  <1> DEFINE Is(f) == f = [i \in 1..N |-> IF i = 1 THEN seqs[i] ELSE f[i - 1] \o seqs[i]]
             step == [i \in 1..N |-> [q \in Seq(S) |-> q \o seqs[i]]]
             it == CHOOSE f : Is(f)
  <1>3. step \in [1..N -> [Seq(S) -> Seq(S)]]
    BY <1>2
  <1>4. <<>> \in Seq(S)
    OBVIOUS
  <1>5. PICK g \in [0..N -> Seq(S)] : Recurs(g, N, <<>>, step)
    <2> HIDE DEF step
    <2> QED BY <1>3, <1>4, RecursionExists
  <1> DEFINE f == [i \in 1..N |-> g[i]]
  <1>6. \A i \in 1..N : f[i] = g[i] /\ g[i] \in Seq(S)
    OBVIOUS
  <1>7. ASSUME NEW i \in 1..N
        PROVE  g[i] = IF i = 1 THEN seqs[i] ELSE f[i - 1] \o seqs[i]
    <2>1. g[i] = step[i][g[i - 1]]
      BY <1>5, Zenon DEF Recurs
    <2>2. i - 1 \in 0..N /\ g[i - 1] \in Seq(S)
      OBVIOUS
    <2>3. g[i] = g[i - 1] \o seqs[i]
      BY <2>1, <2>2, Zenon DEF step
    <2>4. CASE i = 1
      <3>1. g[i - 1] = <<>>
        BY <1>5, <2>4 DEF Recurs
      <3>2. <<>> \o seqs[i] = seqs[i]
        BY <1>2, ConcatEmptySeq, Zenon
      <3> QED BY <2>3, <2>4, <3>1, <3>2, Zenon
    <2>5. CASE i # 1
      <3>1. i - 1 \in 1..N
        BY <2>5
      <3> QED BY <2>3, <2>5, <3>1, Zenon
    <2> QED BY <2>4, <2>5
  <1>8. \E h : Is(h)
    <2>1. PICK h : h = f
      OBVIOUS
    <2>2. h = [i \in 1..N |-> IF i = 1 THEN seqs[i] ELSE h[i - 1] \o seqs[i]]
      BY <1>7, <2>1, Zenon
    <2> QED BY <2>2, Zenon
  <1>9. Is(it)
    BY <1>8, Zenon
  <1>10. FlattenSeq(seqs) = it[N]
    BY <1>1, Zenon DEF FlattenSeq
  <1>11. \A i \in 1..N : it[i] = IF i = 1 THEN seqs[i] ELSE it[i - 1] \o seqs[i]
    BY <1>9, Zenon
  <1>12. it = [i \in 1..N |-> it[i]]
    BY <1>9, ZenonT(40)
  <1> HIDE DEF it
  <1> DEFINE T == {n \in Nat : n + 1 <= N => it[n + 1] \in Seq(S)}
  <1>13. 0 \in T
    <2>1. 1 \in 1..N
      BY <1>1
    <2>2. it[1] = seqs[1]
      BY <1>11, <2>1
    <2> QED BY <1>2, <2>1, <2>2
  <1>14. ASSUME NEW n \in Nat, n \in T PROVE n + 1 \in T
    <2> SUFFICES ASSUME n + 2 <= N PROVE it[n + 2] \in Seq(S)
      OBVIOUS
    <2>1. PICK m \in 1..N : m = n + 2 /\ m # 1 /\ m - 1 = n + 1
      OBVIOUS
    <2>2. it[m - 1] \in Seq(S)
      BY <1>14, <2>1
    <2>3. it[m] = it[m - 1] \o seqs[m]
      BY <1>11, <2>1, Zenon
    <2>4. it[m] \in Seq(S)
      BY <1>2, <2>2, <2>3, ConcatProperties, ZenonT(40)
    <2> QED BY <2>1, <2>4
  <1>15. \A n \in Nat : n \in T
    <2> HIDE DEF T
    <2> QED BY <1>13, <1>14, SetInduction
  <1>16. \A i \in 1..N : it[i] \in Seq(S)
    <2> SUFFICES ASSUME NEW i \in 1..N PROVE it[i] \in Seq(S)
      OBVIOUS
    <2>1. PICK n \in Nat : i = n + 1
      <3>1. i - 1 \in Nat /\ i = (i - 1) + 1
        OBVIOUS
      <3> QED BY <3>1
    <2>2. n \in T
      BY <1>15
    <2> QED BY <2>1, <2>2
  <1>17. it \in [1..N -> Seq(S)]
    BY <1>12, <1>16, Zenon
  <1> QED BY <1>1, <1>10, <1>11, <1>17, Zenon DEF Flattens

\* The first sequence is in front of the others.
LEMMA FlattenCons ==
    ASSUME NEW S, NEW seqs \in Seq(Seq(S)), NEW first \in Seq(S)
    PROVE  /\ FlattenSeq(seqs) \in Seq(S)
           /\ FlattenSeq(<<first>> \o seqs) = first \o FlattenSeq(seqs)
  <1>0. \A a, b, c \in Seq(S) : (a \o b) \o c = a \o (b \o c)
    OBVIOUS
  <1>1. PICK N \in Nat : N = Len(seqs)
    OBVIOUS
  <1>2. PICK all : all = <<first>> \o seqs
    OBVIOUS
  <1>3. /\ all \in Seq(Seq(S)) /\ Len(all) = N + 1 /\ all[1] = first
        /\ \A i \in 1..N : all[i + 1] = seqs[i] /\ seqs[i] \in Seq(S)
    BY <1>1, <1>2
  <1>4. PICK it \in [1..N + 1 -> Seq(S)] : Flattens(all, it)
    <2>1. Len(all) # 0
      BY <1>3
    <2> QED BY <1>3, <2>1, FlattenFacts
  <1>5. /\ FlattenSeq(all) = it[N + 1]
        /\ \A i \in 1..N + 1 : it[i] = IF i = 1 THEN all[i] ELSE it[i - 1] \o all[i]
    BY <1>3, <1>4, Zenon DEF Flattens
  <1>6. it[1] = first
    <2>1. 1 \in 1..N + 1
      OBVIOUS
    <2> QED BY <1>3, <1>5, <2>1, Zenon
  <1>7. CASE N = 0
    <2>1. seqs = <<>>
      BY <1>1, <1>7, EmptySeq, Zenon
    <2>2. FlattenSeq(seqs) = <<>>
      BY <2>1, FlattenEmpty, Zenon
    <2>3. first \o <<>> = first /\ <<>> \in Seq(S)
      BY ConcatEmptySeq
    <2>4. FlattenSeq(all) = first
      BY <1>5, <1>6, <1>7
    <2> QED BY <1>2, <2>2, <2>3, <2>4, Zenon
  <1>8. CASE N # 0
    <2>1. PICK jt \in [1..N -> Seq(S)] : Flattens(seqs, jt)
      BY <1>1, <1>8, FlattenFacts
    <2>2. /\ FlattenSeq(seqs) = jt[N]
          /\ \A i \in 1..N : jt[i] = IF i = 1 THEN seqs[i] ELSE jt[i - 1] \o seqs[i]
      BY <1>1, <2>1, Zenon DEF Flattens
    <2> DEFINE T == {n \in Nat : n + 1 <= N => it[n + 2] = first \o jt[n + 1]}
    <2>3. 0 \in T
      <3>1. 1 \in 1..N /\ 2 \in 1..N + 1 /\ 1 + 1 = 2 /\ 2 - 1 = 1 /\ 2 # 1
        BY <1>8
      <3>2. it[2] = it[1] \o all[2]
        BY <1>5, <3>1, Zenon
      <3>3. jt[1] = seqs[1] /\ all[2] = seqs[1]
        BY <1>3, <2>2, <3>1, Zenon
      <3>4. it[2] = first \o jt[1]
        BY <1>6, <3>2, <3>3, Zenon
      <3> QED BY <3>4
    <2>4. ASSUME NEW n \in Nat, n \in T PROVE n + 1 \in T
      <3> SUFFICES ASSUME n + 2 <= N PROVE it[n + 3] = first \o jt[n + 2]
        OBVIOUS
      <3>1. PICK m \in 1..N : m = n + 2 /\ m # 1
        OBVIOUS
      <3>2. PICK k \in 1..N : k = n + 1 /\ k = m - 1 /\ k + 1 = m
        BY <3>1
      <3>0. m + 1 \in 1..N + 1 /\ (m + 1) - 1 = m /\ m + 1 # 1 /\ m = n + 2 /\ m + 1 = n + 3
        BY <3>1
      <3>3. it[m] = first \o jt[k]
        BY <2>4, <3>1, <3>2
      <3>4. it[m + 1] = it[m] \o all[m + 1]
        BY <1>5, <3>0, Zenon
      <3>5. all[m + 1] = seqs[m] /\ jt[m] = jt[k] \o seqs[m]
        BY <1>3, <2>2, <3>1, <3>2, Zenon
      <3>6. (first \o jt[k]) \o seqs[m] = first \o (jt[k] \o seqs[m])
        <4>1. PICK a \in Seq(S) : a = jt[k]
          OBVIOUS
        <4>2. PICK b \in Seq(S) : b = seqs[m]
          BY <1>3
        <4>3. (first \o a) \o b = first \o (a \o b)
          BY <1>0, Zenon
        <4> QED BY <4>1, <4>2, <4>3, Zenon
      <3>7. it[m + 1] = first \o jt[m]
        BY <3>3, <3>4, <3>5, <3>6, Zenon
      <3> QED BY <3>0, <3>7, Zenon
    <2>5. \A n \in Nat : n \in T
      <3> HIDE DEF T
      <3> QED BY <2>3, <2>4, SetInduction
    <2>6. it[N + 1] = first \o jt[N]
      <3>1. PICK n \in Nat : N = n + 1 /\ n + 2 = N + 1 /\ n + 1 <= N
        <4>1. N - 1 \in Nat /\ N = (N - 1) + 1 /\ (N - 1) + 2 = N + 1
          BY <1>8
        <4> QED BY <4>1
      <3>2. n \in T
        BY <2>5
      <3> QED BY <3>1, <3>2, Zenon
    <2>7. FlattenSeq(seqs) \in Seq(S)
      BY <1>8, <2>1, <2>2
    <2> QED BY <1>2, <1>5, <2>2, <2>6, <2>7, Zenon
  <1> QED
    <2>1. CASE N = 0
      <3>1. FlattenSeq(seqs) \in Seq(S)
        <4>1. seqs = <<>>
          BY <1>1, <2>1, EmptySeq, Zenon
        <4>2. FlattenSeq(seqs) = <<>>
          BY <4>1, FlattenEmpty, Zenon
        <4> QED BY <4>2
      <3> QED BY <1>7, <2>1, <3>1
    <2> QED BY <1>8, <2>1
=============================================================================
