-------------------------- MODULE KeyLookupProofs ---------------------------
(***************************************************************************)
(* Proofs about the lookup of a key and of a range of equal keys, for      *)
(* objects of any size and hashes of any width.                            *)
(***************************************************************************)
EXTENDS KeyRange, NumberLemmas

\* The inductive invariant: what is outside the bracket is not the key, and
\* the hashes at the ends of the bracket enclose the key's.
KInv ==
    /\ LookupTypeOK
    /\ Sorted(table, count) /\ count <= MaxCount
    /\ lower.index <= upper.index /\ upper.index <= count
    /\ lower.hash <= wanted.hash /\ wanted.hash <= upper.hash
    /\ upper.hash <= MaxHash
    /\ lookup \in {"start", "search"} => found = 0
    /\ Bracket
    /\ AnswerCorrect

-----------------------------------------------------------------------------
(***************************************************************************)
(* The order of keys                                                       *)
(***************************************************************************)

LEMMA KeyType ==
    ASSUME NEW k \in Keys
    PROVE  k.hash \in Nat /\ k.hash <= MaxHash /\ k.len \in Nat /\ k.content \in Nat
  BY KeysAssumption

\* The two orders, of the lookup and of the writer, agree.
LEMMA CmpIsOrder ==
    ASSUME NEW a \in Keys, NEW b \in Keys
    PROVE  /\ GetKeyEntryCmp(a, b) = 0 <=> a = b
           /\ GetKeyEntryCmp(a, b) < 0 <=> Before(a, b)
           /\ GetKeyEntryCmp(a, b) > 0 <=> Before(b, a)
  <1>1. /\ a.hash \in Nat /\ a.len \in Nat /\ a.content \in Nat
        /\ b.hash \in Nat /\ b.len \in Nat /\ b.content \in Nat
    BY KeyType
  <1>2. a.len = b.len /\ a.content = b.content => a = b
    BY KeysAssumption
  <1>3. GetKeyEntryCmp(a, b) = 0 <=> a = b
    BY <1>1, <1>2 DEF GetKeyEntryCmp
  <1>4. GetKeyEntryCmp(a, b) < 0 <=> Before(a, b)
    BY <1>1 DEF GetKeyEntryCmp, Before
  <1>5. GetKeyEntryCmp(a, b) > 0 <=> Before(b, a)
    BY <1>1 DEF GetKeyEntryCmp, Before
  <1> QED BY <1>3, <1>4, <1>5

\* The order is one: strict, and total up to the same key.
LEMMA BeforeIsOrder ==
    ASSUME NEW a \in Keys, NEW b \in Keys, NEW c \in Keys
    PROVE  /\ ~Before(a, a)
           /\ Before(a, b) => ~Before(b, a)
           /\ ~Before(b, a) /\ Before(b, c) => Before(a, c)
           /\ ~Before(b, a) /\ Before(c, a) => Before(c, b)
  <1>1. /\ a.hash \in Nat /\ a.len \in Nat /\ a.content \in Nat
        /\ b.hash \in Nat /\ b.len \in Nat /\ b.content \in Nat
        /\ c.hash \in Nat /\ c.len \in Nat /\ c.content \in Nat
    BY KeyType
  <1> QED BY <1>1 DEF Before

-----------------------------------------------------------------------------
(***************************************************************************)
(* The guess                                                               *)
(***************************************************************************)

LEMMA LongDoubleInNat ==
    ASSUME NEW x \in Nat, \E u \in Powers : Spacing(x, u)
    PROVE  LongDouble(x) \in Nat
  <1>1. PICK u : u = CHOOSE v \in Powers : Spacing(x, v)
    OBVIOUS
  <1>2. u \in Nat \ {0}
    BY <1>1, LongDoubleAssumption
  <1>3. x % u \in Nat /\ x % u <= x
    BY <1>2
  <1>4. x - (x % u) \in Nat /\ x - (x % u) + u \in Nat
    BY <1>2, <1>3
  <1> QED BY <1>1, <1>4 DEF LongDouble

LEMMA FloorQuotientInNat ==
    ASSUME NEW x \in Nat, NEW y \in Nat \ {0}
    PROVE  FloorQuotient(x, y) \in Nat
  <1>1. x \div y \in Nat
    OBVIOUS
  <1> QED BY <1>1 DEF FloorQuotient

\* The guess may lie behind the bracket, but not before it.
LEMMA GuessNotBelow ==
    ASSUME KInv
    PROVE  Guess \in Nat /\ Guess >= lower.index
  <1>1. /\ lower.index \in Nat /\ upper.index \in Nat
        /\ lower.hash \in Nat /\ upper.hash \in Nat
        /\ lower.index <= upper.index /\ upper.index <= MaxCount
        /\ wanted.hash \in Nat
        /\ lower.hash <= wanted.hash /\ wanted.hash <= MaxHash
    <2>1. wanted \in Keys /\ count \in Nat
      BY DEF KInv, LookupTypeOK
    <2> QED BY <2>1, KeyType, CountAssumption DEF KInv, LookupTypeOK
  <1>2. PICK n \in Nat : n = upper.index - lower.index
    BY <1>1
  <1>3. Middle(lower, upper) \in Nat /\ Middle(lower, upper) >= lower.index
    <2>1. n \div 2 \in Nat
      OBVIOUS
    <2>2. Middle(lower, upper) = lower.index + n \div 2
      BY <1>2 DEF Middle
    <2> QED BY <1>1, <2>1, <2>2
  <1>4. CASE lower.hash < upper.hash
    <2>1. PICK h \in Nat : h = wanted.hash - lower.hash
      BY <1>1
    <2>2. n \in 0..MaxCount /\ h \in 0..MaxHash
      BY <1>1, <1>2, <2>1, CountAssumption, KeysAssumption
    <2>3. n * h \in Nat
      OBVIOUS
    <2>4. LongDouble(n * h) \in Nat
      BY <2>2, <2>3, LongDoubleInNat, LongDoubleAssumption
    <2>5. upper.hash - lower.hash \in Nat \ {0}
      BY <1>1, <1>4
    <2>6. FloorQuotient(LongDouble(n * h), upper.hash - lower.hash) \in Nat
      BY <2>4, <2>5, FloorQuotientInNat
    <2>7. GetKeyGuess(lower, upper, wanted.hash)
            = lower.index + FloorQuotient(LongDouble(n * h), upper.hash - lower.hash)
      BY <1>1, <1>2, <1>4, <2>1 DEF GetKeyGuess
    <2> QED BY <1>1, <1>3, <2>6, <2>7 DEF Guess
  <1>5. CASE ~(lower.hash < upper.hash)
    BY <1>1, <1>3, <1>5 DEF Guess, GetKeyGuess
  <1> QED BY <1>4, <1>5

-----------------------------------------------------------------------------
(***************************************************************************)
(* The invariant under each step                                           *)
(***************************************************************************)

\* Where the guess is in the table, the table has a key.
LEMMA GuessedKey ==
    ASSUME KInv, Guess < count
    PROVE  Guess \in 0..(count - 1) /\ table[Guess] \in Keys /\ wanted \in Keys
  BY GuessNotBelow DEF KInv, LookupTypeOK

LEMMA TooLowKeepsInv ==
    ASSUME KInv, lookup = "search", ProbeTooLow
    PROVE  KInv'
  <1> DEFINE g == Guess
  <1>1. /\ g \in 0..(count - 1) /\ table[g] \in Keys /\ wanted \in Keys
        /\ g \in Nat /\ count \in Nat
    BY GuessedKey, GuessNotBelow DEF ProbeTooLow, KInv, LookupTypeOK
  <1>2. /\ Before(table[g], wanted)
        /\ lower' = [index |-> g + 1, hash |-> table[g].hash]
        /\ attempt' = attempt + 1
        /\ UNCHANGED <<table, count, wanted, lookup, upper, found>>
    BY <1>1, CmpIsOrder DEF ProbeTooLow, call
  <1> HIDE DEF g
  <1>3. lower'.index = g + 1 /\ lower'.hash = table[g].hash
    BY <1>2
  <1>4. ASSUME NEW i \in 0..(count - 1), i < g + 1
        PROVE  Before(table[i], wanted)
    <2>1. table[i] \in Keys
      BY DEF KInv, LookupTypeOK
    <2>2. CASE i = g
      BY <1>2, <2>2
    <2>3. CASE i < g
      <3>1. ~Before(table[g], table[i])
        BY <1>1, <2>3 DEF KInv, Sorted
      <3> QED BY <1>1, <1>2, <2>1, <3>1, BeforeIsOrder
    <2> QED BY <1>1, <1>4, <2>2, <2>3
  <1>5. g < upper.index
    <2>1. g >= upper.index => Before(wanted, table[g])
      BY <1>1 DEF KInv, Bracket
    <2> QED BY <1>1, <1>2, <2>1, BeforeIsOrder DEF KInv, LookupTypeOK
  <1>6. table[g].hash \in Nat /\ table[g].hash <= wanted.hash
    BY <1>1, <1>2, KeyType DEF Before
  <1>7. LookupTypeOK'
    BY <1>1, <1>2, <1>3, <1>6 DEF KInv, LookupTypeOK
  <1>8. Bracket'
    BY <1>2, <1>3, <1>4 DEF KInv, Bracket
  <1>9. lower'.index <= upper'.index
    BY <1>1, <1>2, <1>3, <1>5 DEF KInv, LookupTypeOK
  <1>10. Sorted(table, count)'
    BY <1>2 DEF KInv, Sorted
  <1>11. AnswerCorrect'
    BY <1>2 DEF KInv, AnswerCorrect
  <1> QED BY <1>2, <1>3, <1>6, <1>7, <1>8, <1>9, <1>10, <1>11 DEF KInv

LEMMA TooHighKeepsInv ==
    ASSUME KInv, lookup = "search", ProbeTooHigh
    PROVE  KInv'
  <1> DEFINE g == Guess
  <1>1. /\ g \in 0..(count - 1) /\ table[g] \in Keys /\ wanted \in Keys
        /\ g \in Nat /\ count \in Nat /\ g >= lower.index
    BY GuessedKey, GuessNotBelow DEF ProbeTooHigh, KInv, LookupTypeOK
  <1>2. /\ Before(wanted, table[g])
        /\ upper' = [index |-> g, hash |-> table[g].hash]
        /\ attempt' = attempt + 1
        /\ UNCHANGED <<table, count, wanted, lookup, lower, found>>
    BY <1>1, CmpIsOrder DEF ProbeTooHigh, call
  <1> HIDE DEF g
  <1>3. upper'.index = g /\ upper'.hash = table[g].hash
    BY <1>2
  <1>4. ASSUME NEW i \in 0..(count - 1), i >= g
        PROVE  Before(wanted, table[i])
    <2>1. table[i] \in Keys
      BY DEF KInv, LookupTypeOK
    <2>2. CASE i = g
      BY <1>2, <2>2
    <2>3. CASE g < i
      <3>1. ~Before(table[i], table[g])
        BY <1>1, <2>3 DEF KInv, Sorted
      <3> QED BY <1>1, <1>2, <2>1, <3>1, BeforeIsOrder
    <2> QED BY <1>1, <1>4, <2>2, <2>3
  <1>5. /\ table[g].hash \in Nat /\ wanted.hash <= table[g].hash
        /\ table[g].hash <= MaxHash
    BY <1>1, <1>2, KeyType DEF Before
  <1>6. LookupTypeOK'
    BY <1>1, <1>2, <1>3, <1>5 DEF KInv, LookupTypeOK
  <1>7. Bracket'
    BY <1>2, <1>3, <1>4 DEF KInv, Bracket
  <1>8. lower'.index <= upper'.index /\ upper'.index <= count'
    BY <1>1, <1>2, <1>3
  <1>9. Sorted(table, count)'
    BY <1>2 DEF KInv, Sorted
  <1>10. AnswerCorrect'
    BY <1>2 DEF KInv, AnswerCorrect
  <1> QED BY <1>2, <1>3, <1>5, <1>6, <1>7, <1>8, <1>9, <1>10 DEF KInv

\* The steps that end the lookup leave the bracket alone.
LEMMA AnswerKeepsInv ==
    ASSUME KInv, NEW answer \in Answers, Answer(answer), found' \in Nat, AnswerCorrect'
    PROVE  KInv'
  <1>1. /\ lookup' = answer /\ lookup' \notin {"start", "search"}
        /\ UNCHANGED <<table, count, wanted, lower, upper, attempt>>
    BY DEF Answer, Answers, call
  <1>2. LookupTypeOK'
    BY <1>1 DEF KInv, LookupTypeOK
  <1>3. Bracket' /\ Sorted(table, count)'
    BY <1>1 DEF KInv, Bracket, Sorted
  <1> QED BY <1>1, <1>2, <1>3 DEF KInv

LEMMA NextKeepsInv == KInv /\ [LookupNext]_lookup_vars => KInv'
  <1> SUFFICES ASSUME KInv, [LookupNext]_lookup_vars PROVE KInv'
    OBVIOUS
  <1>1. found \in Nat /\ count \in Nat
    BY DEF KInv, LookupTypeOK
  <1>2. CASE GetKeyOfNone
    <2>1. AnswerCorrect'
      BY <1>2 DEF GetKeyOfNone, Answer, call, AnswerCorrect
    <2> QED BY <1>1, <1>2, <2>1, AnswerKeepsInv DEF GetKeyOfNone, Answers
  <1>3. CASE GetKeyOfOne
    <2>1. found' = 0 /\ count' = 1 /\ table' = table /\ wanted' = wanted
      BY <1>3 DEF GetKeyOfOne, Answer, call, KInv
    <2>2. lookup' = IF table[0] = wanted THEN "found" ELSE "key_not_found"
      BY <1>3 DEF GetKeyOfOne, Answer
    <2>3. AnswerCorrect'
      BY <2>1, <2>2 DEF AnswerCorrect
    <2> QED BY <1>1, <1>3, <2>1, <2>3, AnswerKeepsInv DEF GetKeyOfOne, Answers
  <1>4. CASE StartSearch
    <2>1. UNCHANGED <<table, count, wanted, lower, upper, attempt, found>> /\ lookup' = "search"
      BY <1>4 DEF StartSearch, call
    <2>2. found' = 0
      BY <1>4, <2>1 DEF StartSearch, KInv
    <2>3. LookupTypeOK' /\ AnswerCorrect'
      BY <2>1 DEF KInv, LookupTypeOK, AnswerCorrect
    <2>4. Bracket' /\ Sorted(table, count)'
      BY <2>1 DEF KInv, Bracket, Sorted
    <2> QED BY <2>1, <2>2, <2>3, <2>4 DEF KInv
  <1>5. CASE Probe
    <2>1. CASE ProbeOutOfRange
      <3>1. AnswerCorrect'
        BY <2>1 DEF ProbeOutOfRange, Answer, AnswerCorrect
      <3> QED BY <1>1, <2>1, <3>1, AnswerKeepsInv DEF ProbeOutOfRange, Answers
    <2>2. CASE ProbeFinds
      <3>1. Guess \in Nat /\ Guess < count /\ table[Guess] = wanted
        BY <2>2, GuessedKey, GuessNotBelow, CmpIsOrder DEF ProbeFinds
      <3>2. /\ lookup' = "found" /\ found' = Guess
            /\ UNCHANGED <<table, count, wanted>>
        BY <2>2 DEF ProbeFinds, Answer, call
      <3>3. AnswerCorrect'
        BY <3>1, <3>2 DEF AnswerCorrect
      <3>4. Answer("found") /\ found' \in Nat
        BY <2>2, <3>1, <3>2 DEF ProbeFinds
      <3> QED BY <3>3, <3>4, AnswerKeepsInv DEF Answers
    <2>3. CASE ProbeTooLow
      BY <1>5, <2>3, TooLowKeepsInv DEF Probe
    <2>4. CASE ProbeTooHigh
      BY <1>5, <2>4, TooHighKeepsInv DEF Probe
    <2> QED BY <1>5, <2>1, <2>2, <2>3, <2>4 DEF Probe
  <1>6. CASE BracketEmpty
    <2>1. ASSUME NEW i \in 0..(count - 1) PROVE table[i] # wanted
      <3>1. Before(table[i], wanted) \/ Before(wanted, table[i])
        BY <1>6 DEF BracketEmpty, KInv, LookupTypeOK, Bracket
      <3>2. wanted \in Keys
        BY DEF KInv, LookupTypeOK
      <3> QED BY <3>1, <3>2, BeforeIsOrder
    <2>2. AnswerCorrect'
      BY <1>6, <2>1 DEF BracketEmpty, Answer, call, AnswerCorrect
    <2> QED BY <1>1, <1>6, <2>2, AnswerKeepsInv DEF BracketEmpty, Answers
  <1>7. CASE UNCHANGED lookup_vars
    BY <1>7 DEF lookup_vars, KInv, LookupTypeOK, Bracket, Sorted, AnswerCorrect
  <1> QED BY <1>2, <1>3, <1>4, <1>5, <1>6, <1>7 DEF LookupNext

LEMMA InitInv == LookupInit => KInv
  <1> SUFFICES ASSUME LookupInit PROVE KInv
    OBVIOUS
  <1>1. wanted.hash \in Nat /\ wanted.hash <= MaxHash
    BY KeyType DEF LookupInit
  <1>2. LookupTypeOK
    BY KeysAssumption, CountAssumption DEF LookupInit, LookupTypeOK
  <1>3. Bracket /\ AnswerCorrect
    BY CountAssumption DEF LookupInit, Bracket, AnswerCorrect
  <1> QED BY <1>1, <1>2, <1>3, KeysAssumption, CountAssumption DEF LookupInit, KInv

-----------------------------------------------------------------------------
(***************************************************************************)
(* The theorems                                                            *)
(***************************************************************************)

\* Every state of a lookup satisfies the inductive invariant.
THEOREM Invariance == LookupSpec => []KInv
  BY InitInv, NextKeepsInv, PTL DEF LookupSpec

\* What _bijson_analyzed_object_get_key leaves out of its bracket does not
\* have the key, whatever the long double arithmetic makes of the guess.
THEOREM BracketKept == LookupSpec => []Bracket
  <1>1. KInv => Bracket
    BY DEF KInv
  <1> QED BY Invariance, <1>1, PTL

\* The answer of _bijson_analyzed_object_get_key is right: an item that is
\* found has the key, a key that is not found is not there.
THEOREM AnswersAreCorrect == LookupSpec => []AnswerCorrect
  <1>1. KInv => AnswerCorrect
    BY DEF KInv
  <1> QED BY Invariance, <1>1, PTL

-----------------------------------------------------------------------------
(***************************************************************************)
(* How far a guess can miss                                                *)
(***************************************************************************)
LEMMA Scaled ==
    ASSUME NEW a \in Nat, NEW b \in Nat, NEW c \in Nat, a <= b
    PROVE  c * a \in Nat /\ c * b \in Nat /\ c * a <= c * b
  <1>1. PICK d \in Nat : b = a + d
    <2>1. b - a \in Nat /\ b = a + (b - a)
      OBVIOUS
    <2> QED BY <2>1
  <1>2. c * a \in Nat /\ c * d \in Nat /\ c * b = c * a + c * d
    BY <1>1
  <1> QED BY <1>2

\* A product loses less than one part in Mantissa when it is rounded.
LEMMA LongDoubleNear ==
    ASSUME NEW x \in Nat, \E u \in Powers : Spacing(x, u)
    PROVE  Mantissa * LongDouble(x) <= Mantissa * x + x
  <1>1. PICK m \in Nat \ {0} : m = Mantissa
    BY LongDoubleAssumption
  <1>2. PICK u : u = CHOOSE v \in Powers : Spacing(x, v)
    OBVIOUS
  <1>3. u \in Nat \ {0} /\ (u = 1 \/ u * m <= 2 * x)
    <2>1. u \in Powers /\ Spacing(x, u)
      BY <1>2
    <2> QED BY <1>1, <2>1, LongDoubleAssumption DEF Spacing
  <1>4. PICK a \in Nat : a = x % u /\ a < u /\ a <= x
    <2>1. x % u \in 0..(u - 1) /\ x % u <= x
      BY <1>3
    <2> QED BY <1>3, <2>1
  <1>5. \/ LongDouble(x) = x - a
        \/ LongDouble(x) = x - a + u /\ 2 * a >= u
    BY <1>2, <1>3, <1>4 DEF LongDouble
  <1>6. CASE LongDouble(x) = x - a
    <2>1. x - a \in Nat /\ x - a <= x
      BY <1>4
    <2>2. m * (x - a) <= m * x /\ m * x \in Nat
      BY <1>1, <2>1, Scaled
    <2>3. m * (x - a) <= m * x + x
      BY <1>1, <2>1, <2>2
    <2> QED BY <1>1, <1>6, <2>3
  <1>7. CASE LongDouble(x) = x - a + u /\ 2 * a >= u
    <2>1. u # 1
      BY <1>4, <1>7
    <2>2. PICK d \in Nat : d = u - a /\ 2 * d <= u /\ LongDouble(x) = x + d
      <3>1. u - a \in Nat /\ 2 * (u - a) <= u /\ x - a + u = x + (u - a)
        BY <1>3, <1>4, <1>7
      <3> QED BY <1>7, <3>1
    <2>3. m * (2 * d) <= m * u
      BY <1>1, <1>3, <2>2, Scaled
    <2>4. m * (2 * d) = 2 * (m * d) /\ m * u = u * m /\ m * d \in Nat
      BY <1>1, <1>3, <2>2
    <2>5. m * d <= x
      BY <1>3, <2>1, <2>3, <2>4
    <2>6. m * (x + d) = m * x + m * d /\ m * x \in Nat
      BY <1>1, <2>2
    <2>7. m * (x + d) <= m * x + x
      BY <2>4, <2>5, <2>6
    <2> QED BY <1>1, <2>2, <2>7
  <1> QED BY <1>5, <1>6, <1>7

\* A quotient is at most n when it is so far below n + 1 that rounding does
\* not reach it.
LEMMA FloorQuotientAtMost ==
    ASSUME NEW x \in Nat, NEW y \in Nat \ {0}, NEW n \in 0..MaxCount, NEW short \in Nat \ {0},
           x + short = (n + 1) * y,
           n = 0 => y < 2 * (Mantissa * short),
           n > 0 => y * n < Mantissa * short
    PROVE  FloorQuotient(x, y) <= n
  <1>1. PICK m \in Nat \ {0} : m = Mantissa
    BY LongDoubleAssumption
  <1>2. n \in Nat
    BY CountAssumption
  <1>3. PICK w \in Nat : w = x \div y /\ w * y <= x
    <2>1. x \div y \in Nat /\ (x \div y) * y <= x
      OBVIOUS
    <2> QED BY <2>1
  <1>4. w <= n
    <2>1. ASSUME w > n PROVE FALSE
      <3>1. y * (n + 1) <= y * w
        BY <1>2, <1>3, <2>1, Scaled
      <3>2. y * (n + 1) = (n + 1) * y /\ y * w = w * y
        BY <1>2, <1>3
      <3>3. (n + 1) * y <= x
        BY <1>2, <1>3, <3>1, <3>2
      <3> QED BY <3>3
    <2> QED BY <1>2, <1>3, <2>1
  <1>5. FloorQuotient(x, y) \in {w, w + 1}
    BY <1>3 DEF FloorQuotient
  <1>6. CASE w < n
    BY <1>2, <1>3, <1>5, <1>6
  <1>7. CASE w = n
    <2>1. PICK p : p = CHOOSE v \in Powers : w < v /\ (v = 1 \/ v <= 2 * w)
      OBVIOUS
    <2>2. p \in Nat /\ n < p /\ (p = 1 \/ p <= 2 * n)
      <3>1. \E v \in Powers : w < v /\ (v = 1 \/ v <= 2 * w)
        BY <1>7, MantissaAssumption
      <3>2. p \in Powers /\ w < p /\ (p = 1 \/ p <= 2 * w)
        BY <2>1, <3>1
      <3> QED BY <1>7, <3>2, LongDoubleAssumption
    <2>3. (w + 1) * y - x = short
      BY <1>7
    <2>4. y * p < 2 * (m * short)
      <3>1. m * short \in Nat
        BY <1>1
      <3>2. CASE n = 0
        <4>1. p = 1 /\ y * 1 = y
          BY <2>2, <3>2
        <4> QED BY <1>1, <3>2, <4>1
      <3>3. CASE n > 0
        <4>1. p <= 2 * n
          BY <1>2, <2>2, <3>3
        <4>2. y * p <= y * (2 * n)
          BY <1>2, <2>2, <4>1, Scaled
        <4>3. y * (2 * n) = 2 * (y * n) /\ y * n \in Nat
          BY <1>2
        <4>4. y * n < m * short
          BY <1>1, <3>3
        <4>5. y * p \in Nat
          BY <2>2
        <4> QED BY <3>1, <4>2, <4>3, <4>4, <4>5
      <3> QED BY <1>2, <3>2, <3>3
    <2>5. ~(2 * short * m <= y * p)
      <3>1. 2 * short * m = 2 * (m * short) /\ m * short \in Nat /\ y * p \in Nat
        BY <1>1, <2>2
      <3> QED BY <2>4, <3>1
    <2>6. FloorQuotient(x, y) = w
      <3>1. ~(2 * ((w + 1) * y - x) * m <= y * p)
        BY <2>3, <2>5
      <3> QED BY <1>1, <1>3, <2>1, <3>1, Zenon DEF FloorQuotient
    <2> QED BY <1>7, <2>6
  <1> QED BY <1>2, <1>3, <1>4, <1>6, <1>7

\* A guess is not behind the bracket's last item, or next to it when the hash
\* is two or more below the upper one.
LEMMA RoundedGuess ==
    ASSUME NEW n \in (0..MaxCount) \ {0}, NEW h \in Nat, NEW y \in (0..MaxHash) \ {0}, h <= y
    PROVE  /\ FloorQuotient(LongDouble(n * h), y) \in Nat
           /\ FloorQuotient(LongDouble(n * h), y) <= n
           /\ h + 2 <= y => FloorQuotient(LongDouble(n * h), y) < n
  <1>1. PICK m \in Nat \ {0} : m = Mantissa /\ y < m /\ 2 * n < m
    BY LongDoubleAssumption, MantissaAssumption, KeysAssumption, CountAssumption
  <1>2. n \in Nat \ {0} /\ y \in Nat \ {0} /\ n \in 0..MaxCount /\ n - 1 \in 0..MaxCount
    BY CountAssumption, KeysAssumption
  <1>3. PICK x \in Nat : x = n * h
    BY <1>2
  <1>4. \E u \in Powers : Spacing(x, u)
    <2>1. h \in 0..MaxHash
      BY KeysAssumption
    <2> QED BY <1>2, <1>3, <2>1, LongDoubleAssumption
  <1>5. PICK r \in Nat : r = LongDouble(x) /\ m * r <= m * x + x
    BY <1>1, <1>4, LongDoubleInNat, LongDoubleNear
  <1>6. FloorQuotient(r, y) \in Nat
    BY <1>2, FloorQuotientInNat
  <1>7. FloorQuotient(r, y) <= n
    <2>1. PICK z \in Nat : z = n * y /\ x <= z
      BY <1>2, <1>3, Scaled
    <2>2. m * x <= m * z /\ m * x \in Nat /\ m * z \in Nat
      BY <1>1, <2>1, Scaled
    <2>3. m * r <= m * z + z
      BY <1>5, <2>1, <2>2
    <2>4. 2 * z < m * y /\ m * y \in Nat
      <3>1. y * (2 * n + 1) <= y * m
        BY <1>1, <1>2, Scaled
      <3>2. y * (2 * n + 1) = 2 * z + y /\ y * m = m * y /\ m * y \in Nat
        BY <1>1, <1>2, <2>1
      <3> QED BY <1>2, <2>1, <3>1, <3>2
    <2>5. PICK s \in Int : s = (n + 1) * y - r
      BY <1>2
    <2>6. m * s = m * z + m * y - m * r /\ m * s \in Int
      <3>1. (n + 1) * y = z + y
        BY <1>2, <2>1
      <3>2. m * (z + y - r) = m * z + m * y - m * r
        BY <1>1, <1>2, <2>1
      <3> QED BY <1>1, <2>5, <3>1, <3>2
    <2>7. m * s > z
      BY <1>5, <2>1, <2>2, <2>3, <2>4, <2>6
    <2>8. s \in Nat \ {0}
      <3>1. ASSUME s <= 0 PROVE FALSE
        <4>1. 0 - s \in Nat
          BY <3>1
        <4>2. m * (0 - s) \in Nat /\ m * (0 - s) = 0 - (m * s)
          BY <1>1, <4>1
        <4> QED BY <2>1, <2>6, <2>7, <4>2
      <3> QED BY <3>1
    <2>9. r + s = (n + 1) * y
      BY <1>2, <2>5
    <2>10. y * n < m * s
      BY <1>2, <2>1, <2>7
    <2> QED BY <1>1, <1>2, <2>8, <2>9, <2>10, FloorQuotientAtMost
  <1>8. ASSUME h + 2 <= y PROVE FloorQuotient(r, y) <= n - 1
    <2>1. PICK k \in Nat : k = n - 1 /\ k \in 0..MaxCount /\ n = k + 1
      BY <1>2
    <2>2. PICK s \in Int : s = n * y - r
      BY <1>2
    <2>3. n * y >= x + 2 * n /\ n * y \in Nat
      <3>1. n * (h + 2) <= n * y /\ n * y \in Nat
        BY <1>2, <1>8, Scaled
      <3>2. n * (h + 2) = x + 2 * n
        BY <1>2, <1>3
      <3> QED BY <3>1, <3>2
    <2>4. m * (n * y) >= m * x + 2 * (m * n) /\ m * n \in Nat /\ m * x \in Nat
      <3>1. x + 2 * n \in Nat
        BY <1>2
      <3>2. m * (x + 2 * n) <= m * (n * y)
        BY <1>1, <2>3, <3>1, Scaled
      <3>3. m * (x + 2 * n) = m * x + 2 * (m * n) /\ m * n \in Nat /\ m * x \in Nat
        BY <1>1, <1>2
      <3> QED BY <3>2, <3>3
    <2>5. x <= m * n
      <3>1. h <= m
        BY <1>1, <1>2
      <3>2. n * h <= n * m
        BY <1>1, <1>2, <3>1, Scaled
      <3>3. n * m = m * n
        BY <1>1, <1>2
      <3> QED BY <1>3, <3>2, <3>3
    <2>6. m * s = m * (n * y) - m * r /\ m * s \in Int
      BY <1>1, <2>2, <2>3
    <2>7. m * s >= m * n
      BY <1>5, <2>3, <2>4, <2>5, <2>6
    <2>8. s \in Nat \ {0}
      <3>1. ASSUME s <= 0 PROVE FALSE
        <4>1. 0 - s \in Nat
          BY <3>1
        <4>2. m * (0 - s) \in Nat /\ m * (0 - s) = 0 - (m * s)
          BY <1>1, <4>1
        <4>3. m * n > 0
          BY <1>1, <1>2
        <4> QED BY <2>6, <2>7, <4>2, <4>3, <2>4
      <3> QED BY <3>1
    <2>9. r + s = (k + 1) * y
      BY <1>2, <2>1, <2>2, <2>3
    <2>10. y * k < m * s /\ y < m * s
      <3>1. y * n < m * n /\ y * n = y * k + y /\ y * k \in Nat
        <4>1. n * (y + 1) <= n * m
          BY <1>1, <1>2, Scaled
        <4>2. n * (y + 1) = y * n + n /\ n * m = m * n
          BY <1>1, <1>2
        <4>3. y * n = y * k + y /\ y * k \in Nat
          BY <1>2, <2>1
        <4> QED BY <1>2, <4>1, <4>2, <4>3
      <3> QED BY <1>2, <2>4, <2>6, <2>7, <3>1
    <2>11. y < 2 * (m * s)
      BY <1>2, <2>6, <2>10
    <2>12. FloorQuotient(r, y) <= k
      BY <1>1, <1>2, <2>1, <2>8, <2>9, <2>10, <2>11, FloorQuotientAtMost
    <2> QED BY <2>1, <2>12
  <1> QED BY <1>2, <1>3, <1>5, <1>6, <1>7, <1>8

-----------------------------------------------------------------------------
(***************************************************************************)
(* How many guesses there are                                              *)
(***************************************************************************)
LEMMA BitsOfCount ==
    ASSUME NEW x \in 0..MaxCount
    PROVE  BitLength(x) \in Nat /\ x < 2 ^ BitLength(x) /\ (x > 0 => BitLength(x) > 0)
  <1> DEFINE T == {b \in Nat : x < 2 ^ b}
  <1>1. PICK top \in 0..64 : MaxCount < 2 ^ top
    BY CountAssumption
  <1>2. x \in Nat /\ top \in Nat
    BY CountAssumption
  <1>3. top \in T
    <2>1. 2 ^ top \in Nat
      BY <1>2, PowerType
    <2> QED BY <1>1, <1>2, <2>1, CountAssumption
  <1>4. PICK b \in T : \A c \in T : b <= c
    <2> HIDE DEF T
    <2>1. T \in SUBSET Nat
      BY DEF T
    <2> QED BY <1>3, <2>1, LeastNumber
  <1>5. b \in 0..64
    BY <1>2, <1>3, <1>4
  <1>6. b > 0 => x >= 2 ^ (b - 1)
    <2>1. ASSUME b > 0 PROVE x >= 2 ^ (b - 1)
      <3>1. b - 1 \in Nat /\ b - 1 \notin T
        BY <1>4, <2>1
      <3>2. 2 ^ (b - 1) \in Nat
        BY <3>1, PowerType
      <3> QED BY <1>2, <3>1, <3>2
    <2> QED BY <2>1
  <1>7. \E c \in 0..64 : x < 2 ^ c /\ (c > 0 => x >= 2 ^ (c - 1))
    BY <1>4, <1>5, <1>6
  <1>8. PICK d : d = BitLength(x) /\ d \in 0..64 /\ x < 2 ^ d
    <2> HIDE DEF T
    <2> QED BY <1>7 DEF BitLength
  <1>9. d = 0 => x < 1
    BY <1>8, PowerOfZero
  <1> QED BY <1>2, <1>8, <1>9

LEMMA GuessesAllowed ==
    ASSUME NEW n \in 0..MaxCount, n > 1
    PROVE  Log2(n) \in Nat
  <1>1. n - 1 \in 0..MaxCount /\ n - 1 > 0
    BY CountAssumption
  <1>2. BitLength(n - 1) \in Nat /\ BitLength(n - 1) > 0
    BY <1>1, BitsOfCount
  <1> QED BY <1>2 DEF Log2

\* What is left of the bracket is halved by each bisection.
Halved ==
    attempt >= Log2(count) =>
        (upper.index - lower.index) * 2 ^ (attempt - Log2(count)) <= count

(***************************************************************************)
(* The inductive invariant, beside KInv: the upper end of the bracket only *)
(* has the largest hash as long as it has not moved.                       *)
(***************************************************************************)
GuessInv ==
    /\ lookup = "search" => count > 1
    /\ upper.index = count => upper.hash = MaxHash
    /\ count > 1 => Halved
    /\ GuessesBounded

\* A guess behind the last item is a guess at the unmoved end of the bracket.
LEMMA GuessOutOfRange ==
    ASSUME KInv, GuessInv, count > 1, lower.index < upper.index
    PROVE  /\ Guess <= upper.index
           /\ Guess >= count => wanted.hash >= MaxHash - 1
           /\ attempt >= Log2(count) => Guess = Middle(lower, upper) /\ Guess < upper.index
  <1>1. /\ lower.index \in Nat /\ upper.index \in Nat
        /\ lower.hash \in Nat /\ upper.hash \in Nat /\ upper.hash <= MaxHash
        /\ upper.index <= count /\ count <= MaxCount /\ count \in Nat
        /\ wanted.hash \in Nat /\ wanted.hash <= MaxHash
        /\ lower.hash <= wanted.hash /\ wanted.hash <= upper.hash
    <2>1. wanted \in Keys
      BY DEF KInv, LookupTypeOK
    <2> QED BY <2>1, KeyType DEF KInv, LookupTypeOK
  <1>2. PICK n \in (0..MaxCount) \ {0} : n = upper.index - lower.index
    BY <1>1, CountAssumption
  <1>3. n \in Nat /\ MaxHash \in Nat
    BY <1>1, <1>2, KeysAssumption
  <1>4. Middle(lower, upper) \in Nat /\ Middle(lower, upper) < upper.index
    <2>1. n \div 2 \in Nat /\ n \div 2 < n
      BY <1>2, <1>3
    <2>2. Middle(lower, upper) = lower.index + n \div 2
      BY <1>2 DEF Middle
    <2> QED BY <1>1, <1>2, <2>1, <2>2
  <1>5. CASE Guess = Middle(lower, upper)
    BY <1>1, <1>4, <1>5
  <1>6. CASE Guess # Middle(lower, upper)
    <2>1. /\ attempt < Log2(count) /\ lower.hash < upper.hash
          /\ Guess = lower.index
               + FloorQuotient(LongDouble((upper.index - lower.index) * (wanted.hash - lower.hash)),
                               upper.hash - lower.hash)
      BY <1>1, <1>6 DEF Guess, GetKeyGuess
    <2>2. PICK h \in Nat : h = wanted.hash - lower.hash
      BY <1>1
    <2>3. PICK y \in (0..MaxHash) \ {0} : y = upper.hash - lower.hash
      BY <1>1, <1>3, <2>1
    <2>4. h <= y
      BY <1>1, <2>2, <2>3
    <2>5. PICK f : f = FloorQuotient(LongDouble(n * h), y)
      OBVIOUS
    <2>6. f \in Nat /\ f <= n /\ (h + 2 <= y => f < n)
      BY <2>4, <2>5, RoundedGuess
    <2>7. Guess = lower.index + f
      BY <1>2, <2>1, <2>2, <2>3, <2>5
    <2>8. Guess <= upper.index
      BY <1>1, <1>2, <2>6, <2>7
    <2>9. ASSUME Guess >= count PROVE wanted.hash >= MaxHash - 1
      <3>1. upper.index = count /\ f = n
        BY <1>1, <1>2, <2>6, <2>7, <2>9
      <3>2. upper.hash = MaxHash
        BY <3>1 DEF GuessInv
      <3>3. ~(h + 2 <= y)
        BY <1>3, <2>6, <3>1
      <3> QED BY <1>1, <1>3, <2>2, <2>3, <3>2, <3>3
    <2>10. ~(attempt >= Log2(count))
      <3>1. attempt \in Nat
        BY DEF KInv, LookupTypeOK
      <3>2. Log2(count) \in Nat
        BY <1>1, GuessesAllowed, CountAssumption
      <3> QED BY <2>1, <3>1, <3>2
    <2> QED BY <2>8, <2>9, <2>10
  <1> QED BY <1>5, <1>6

LEMMA ProbeHalves ==
    ASSUME KInv, KInv', GuessInv, count > 1, lower.index < upper.index,
           count' = count, attempt' = attempt + 1,
           \/ lower'.index = Guess + 1 /\ upper' = upper
           \/ lower' = lower /\ upper'.index = Guess
    PROVE  Halved' /\ attempt' <= Log2(count') + BitLength(count')
  <1>1. /\ lower.index \in Nat /\ upper.index \in Nat /\ attempt \in Nat
        /\ lower'.index \in Nat /\ upper'.index \in Nat
        /\ count \in 0..MaxCount /\ count \in Nat
        /\ lower'.index <= upper'.index /\ upper'.index <= count
    BY CountAssumption DEF KInv, LookupTypeOK
  <1>2. PICK lg \in Nat : lg = Log2(count)
    BY <1>1, GuessesAllowed
  <1>3. PICK bl \in Nat : bl = BitLength(count) /\ count < 2 ^ bl
    BY <1>1, BitsOfCount
  <1>4. Log2(count') = lg /\ BitLength(count') = bl
    BY <1>2, <1>3, Zenon
  <1>5. PICK v \in Nat : v = upper'.index - lower'.index /\ v <= count
    <2>1. upper'.index - lower'.index \in Nat /\ upper'.index - lower'.index <= count
      BY <1>1
    <2> QED BY <2>1
  <1>6. CASE attempt + 1 < lg
    BY <1>1, <1>4, <1>6 DEF Halved
  <1>7. CASE attempt + 1 = lg
    <2>1. attempt' - lg = 0 /\ v * 1 = v
      BY <1>1, <1>7
    <2>2. v * 2 ^ (attempt' - lg) <= count
      BY <1>5, <2>1, PowerOfZero
    <2>3. attempt' <= lg + bl
      BY <1>1, <1>7
    <2> QED BY <1>4, <1>5, <2>2, <2>3 DEF Halved
  <1>8. CASE attempt >= lg
    <2>1. PICK e \in Nat : e = attempt - lg /\ attempt' - lg = e + 1
      <3>1. attempt - lg \in Nat /\ attempt' - lg = (attempt - lg) + 1
        BY <1>1, <1>8
      <3> QED BY <3>1
    <2>2. PICK w \in Nat \ {0} : w = upper.index - lower.index
      BY <1>1
    <2>3. PICK p \in Nat \ {0} : p = 2 ^ e
      BY PowerType
    <2>4. w * p <= count
      BY <1>2, <1>8, <2>1, <2>2, <2>3 DEF GuessInv, Halved
    <2>5. 2 * v <= w
      <3>1. Guess = lower.index + w \div 2
        BY <1>2, <1>8, <2>2, GuessOutOfRange DEF Middle
      <3>2. w \div 2 \in Nat /\ 2 * (w \div 2) <= w /\ w <= 2 * (w \div 2) + 1
        OBVIOUS
      <3> QED BY <1>1, <1>5, <2>2, <3>1, <3>2
    <2>6. 2 ^ (e + 1) = p + p
      BY <2>3, PowerDoubles, Zenon
    <2>7. v * (p + p) <= count
      <3>1. p * (2 * v) <= p * w
        BY <2>5, Scaled
      <3>2. p * (2 * v) = v * (p + p) /\ p * w = w * p
        OBVIOUS
      <3>3. v * (p + p) \in Nat /\ w * p \in Nat
        OBVIOUS
      <3> QED BY <1>1, <2>4, <3>1, <3>2, <3>3
    <2>8. p < 2 ^ bl
      <3>1. p <= w * p
        <4>1. p * 1 <= p * w
          BY Scaled
        <4> QED BY <4>1
      <3>2. 2 ^ bl \in Nat /\ w * p \in Nat
        BY PowerType
      <3> QED BY <1>1, <1>3, <2>4, <3>1, <3>2
    <2>9. e < bl
      <3>1. bl <= e <=> 2 ^ bl <= p
        BY <2>3, PowerMonotone
      <3>2. 2 ^ bl \in Nat
        BY PowerType
      <3> QED BY <2>8, <3>1, <3>2
    <2>10. attempt' <= lg + bl
      BY <1>1, <1>8, <2>1, <2>9
    <2>11. v * 2 ^ (attempt' - lg) <= count
      BY <2>1, <2>6, <2>7
    <2> QED BY <1>4, <1>5, <2>10, <2>11 DEF Halved
  <1> QED BY <1>1, <1>6, <1>7, <1>8

LEMMA InitGuesses == LookupInit => GuessInv
  <1> SUFFICES ASSUME LookupInit PROVE GuessInv
    OBVIOUS
  <1>1. count \in 0..MaxCount /\ count \in Nat
    BY CountAssumption DEF LookupInit
  <1>2. ASSUME count > 1 PROVE Halved /\ attempt <= Log2(count) + BitLength(count)
    <2>1. PICK lg \in Nat : lg = Log2(count)
      BY <1>1, <1>2, GuessesAllowed
    <2>2. BitLength(count) \in Nat
      BY <1>1, BitsOfCount
    <2>3. attempt = 0 /\ upper.index - lower.index = count
      BY <1>1 DEF LookupInit
    <2>4. attempt >= lg => attempt - lg = 0
      BY <2>1, <2>3
    <2>5. attempt >= lg => count * 2 ^ (attempt - lg) <= count
      <3>1. ASSUME attempt >= lg PROVE count * 2 ^ (attempt - lg) <= count
        <4>1. 2 ^ (attempt - lg) = 1
          BY <2>4, <3>1, PowerOfZero, Zenon
        <4> QED BY <1>1, <4>1
      <3> QED BY <3>1
    <2> QED BY <2>1, <2>2, <2>3, <2>5 DEF Halved
  <1> QED BY <1>2 DEF LookupInit, GuessInv, GuessesBounded

LEMMA NextGuesses == KInv /\ KInv' /\ GuessInv /\ [LookupNext]_lookup_vars => GuessInv'
  <1> SUFFICES ASSUME KInv, KInv', GuessInv, [LookupNext]_lookup_vars PROVE GuessInv'
    OBVIOUS
  <1>1. ASSUME NEW answer \in Answers, Answer(answer),
               answer = "index_out_of_range" => wanted.hash >= MaxHash - 1
        PROVE  GuessInv'
    <2>1. UNCHANGED <<table, count, wanted, lower, upper, attempt>> /\ lookup' = answer
      BY <1>1 DEF Answer, call
    <2>2. lookup' # "search"
      BY <1>1, <2>1 DEF Answers
    <2> QED BY <1>1, <2>1, <2>2 DEF GuessInv, Halved, GuessesBounded
  <1>2. CASE GetKeyOfNone \/ GetKeyOfOne \/ BracketEmpty
    BY <1>1, <1>2 DEF GetKeyOfNone, GetKeyOfOne, BracketEmpty, Answers
  <1>3. CASE StartSearch
    <2>1. UNCHANGED <<table, count, wanted, lower, upper, attempt>> /\ lookup' = "search" /\ count > 1
      BY <1>3 DEF StartSearch, call
    <2> QED BY <2>1 DEF GuessInv, Halved, GuessesBounded
  <1>4. CASE Probe
    <2>1. lower.index < upper.index /\ count > 1 /\ lookup = "search"
      <3>1. /\ lower.index \in Nat /\ upper.index \in Nat /\ lower.index <= upper.index
            /\ lookup = "search" => count > 1
        BY DEF KInv, LookupTypeOK, GuessInv
      <3> QED BY <1>4, <3>1 DEF Probe
    <2>2. CASE ProbeOutOfRange
      BY <1>1, <2>1, <2>2, GuessOutOfRange DEF ProbeOutOfRange, Answers
    <2>3. CASE ProbeFinds
      BY <1>1, <2>3 DEF ProbeFinds, Answers
    <2>4. CASE ProbeTooLow \/ ProbeTooHigh
      <3>1. UNCHANGED <<count, wanted, lookup>> /\ attempt' = attempt + 1 /\ Guess < count
        BY <2>4 DEF ProbeTooLow, ProbeTooHigh, call
      <3>2. \/ lower'.index = Guess + 1 /\ upper' = upper
            \/ lower' = lower /\ upper'.index = Guess
        BY <2>4 DEF ProbeTooLow, ProbeTooHigh
      <3>3. Halved' /\ attempt' <= Log2(count') + BitLength(count')
        BY <2>1, <3>1, <3>2, ProbeHalves
      <3>4. upper'.index = count' => upper'.hash = MaxHash
        <4>1. Guess \in Nat /\ count \in Nat
          BY GuessNotBelow DEF KInv, LookupTypeOK
        <4> QED BY <3>1, <3>2, <4>1 DEF GuessInv
      <3> QED BY <2>1, <3>1, <3>3, <3>4 DEF GuessInv, GuessesBounded
    <2> QED BY <1>4, <2>2, <2>3, <2>4 DEF Probe
  <1>5. CASE UNCHANGED lookup_vars
    BY <1>5 DEF lookup_vars, GuessInv, Halved, GuessesBounded
  <1> QED BY <1>2, <1>3, <1>4, <1>5 DEF LookupNext

(***************************************************************************)
(* For objects of any size and hashes of any width that a long double can  *)
(* hold, a lookup takes at most the guesses it is allowed and then one     *)
(* bisection; and it takes one of the two largest hashes to make it guess  *)
(* behind the last item, whatever rounding does.                           *)
(***************************************************************************)
THEOREM GuessesAreBounded == LookupSpec => []GuessesBounded
  <1>1. GuessInv => GuessesBounded
    BY DEF GuessInv
  <1> QED BY <1>1, Invariance, InitGuesses, NextGuesses, PTL DEF LookupSpec

-----------------------------------------------------------------------------
(***************************************************************************)
(* The range of the items that have the key                                *)
(***************************************************************************)

Ends == [index : Nat, hash : Nat]

RangeTypes ==
    /\ lower \in Ends /\ upper \in Ends
    /\ jump \in Nat /\ lower_bound \in Nat /\ upper_bound \in Nat
    /\ phase \in {"search", "gallop_down", "bisect_down", "found_lower",
                  "gallop_up", "bisect_up", "done"}

\* An object of one item is not searched, so that its bracket stays whole.
Unsearched ==
    /\ lookup = "search" => count > 1
    /\ count <= 1 => /\ phase \in {"search", "done"}
                     /\ lower.index = 0 /\ upper.index = count
    /\ phase # "search" => lookup = "found"

\* What galloping and bisection know of the lower end: they move upper_bound
\* down from the item that was found, always to one with the key.
LowerKnown ==
    /\ phase \in {"gallop_down", "bisect_down"} =>
         HasKey(upper_bound) /\ upper_bound <= found
    /\ phase = "bisect_down" =>
         lower_bound < upper_bound /\ Before(table[lower_bound], wanted)
    /\ phase \in {"found_lower", "gallop_up", "bisect_up", "done"} =>
         HasKey(lower.index) /\ lower.index < upper.index

\* And of the upper end.
UpperKnown ==
    /\ phase \in {"gallop_up", "bisect_up"} =>
         HasKey(lower_bound) /\ found <= lower_bound /\ lower_bound < upper.index
    /\ phase = "bisect_up" =>
         /\ lower_bound < upper_bound /\ upper_bound < upper.index
         /\ Before(wanted, table[upper_bound])
    /\ phase = "done" => HasKey(upper.index - 1) /\ lower.index < upper.index

(***************************************************************************)
(* The inductive invariant.                                                *)
(***************************************************************************)
RangeInv ==
    /\ KInv
    /\ RangeTypes
    /\ Unsearched
    /\ LowerKnown
    /\ UpperKnown

-----------------------------------------------------------------------------
(***************************************************************************)
(* Items of a sorted table                                                 *)
(***************************************************************************)
LEMMA ItemTypes ==
    ASSUME KInv, NEW i \in 0..(count - 1)
    PROVE  table[i] \in Keys /\ wanted \in Keys /\ count \in Nat /\ i < count
BY DEF KInv, LookupTypeOK

\* An item that is on neither side of the key has it.
LEMMA NeitherSide ==
    ASSUME KInv, NEW i \in 0..(count - 1)
    PROVE  HasKey(i) <=> ~Before(table[i], wanted) /\ ~Before(wanted, table[i])
<1>1. table[i] \in Keys /\ wanted \in Keys
  BY ItemTypes
<1>2. GetKeyEntryCmp(table[i], wanted) \in Int
  BY <1>1, KeyType DEF GetKeyEntryCmp
<1>3. GetKeyEntryCmp(table[i], wanted) = 0 \/ GetKeyEntryCmp(table[i], wanted) < 0
        \/ GetKeyEntryCmp(table[i], wanted) > 0
  BY <1>2
<1> QED BY <1>1, <1>3, CmpIsOrder, BeforeIsOrder DEF HasKey

\* Of two items the first is not behind the key when the second has it or is
\* before it, and the other way around.
LEMMA InOrder ==
    ASSUME KInv, NEW i \in 0..(count - 1), NEW j \in 0..(count - 1), i <= j
    PROVE  /\ HasKey(j) => HasKey(i) \/ Before(table[i], wanted)
           /\ Before(table[j], wanted) => Before(table[i], wanted)
           /\ HasKey(i) => HasKey(j) \/ Before(wanted, table[j])
           /\ Before(wanted, table[i]) => Before(wanted, table[j])
<1>1. table[i] \in Keys /\ table[j] \in Keys /\ wanted \in Keys
  BY ItemTypes
<1>2. ~Before(table[j], table[i])
  <2>1. CASE i = j
    BY <1>1, <2>1, BeforeIsOrder
  <2>2. CASE i < j
    BY <2>2 DEF KInv, Sorted
  <2> QED BY <2>1, <2>2
<1>3. Before(table[j], wanted) => Before(table[i], wanted)
  BY <1>1, <1>2, BeforeIsOrder
<1>4. Before(wanted, table[i]) => Before(wanted, table[j])
  BY <1>1, <1>2, BeforeIsOrder
<1>5. HasKey(j) => ~Before(wanted, table[i])
  BY <1>2 DEF HasKey
<1>6. HasKey(i) => ~Before(table[j], wanted)
  BY <1>2 DEF HasKey
<1> QED BY <1>3, <1>4, <1>5, <1>6, NeitherSide

\* What is between two items with the key has it.
LEMMA Between ==
    ASSUME KInv, NEW i \in 0..(count - 1), NEW j \in 0..(count - 1),
           NEW k \in 0..(count - 1), i <= j, j <= k, HasKey(i), HasKey(k)
    PROVE  HasKey(j)
BY InOrder, NeitherSide

\* The item that was found is inside the bracket.
LEMMA FoundInside ==
    ASSUME KInv, lookup = "found"
    PROVE  /\ found \in 0..(count - 1) /\ HasKey(found)
           /\ lower.index <= found /\ found < upper.index
           /\ upper.index <= count /\ count <= MaxCount
           /\ lower.index \in Nat /\ upper.index \in Nat /\ count \in Nat
<1>1. /\ found \in Nat /\ found < count /\ count \in Nat /\ count <= MaxCount
      /\ lower.index \in Nat /\ upper.index \in Nat /\ upper.index <= count
  BY DEF KInv, LookupTypeOK, AnswerCorrect
<1>2. HasKey(found)
  BY DEF KInv, AnswerCorrect, HasKey
<1>3. found \in 0..(count - 1)
  BY <1>1
<1>4. ~Before(table[found], wanted) /\ ~Before(wanted, table[found])
  BY <1>2, <1>3, NeitherSide
<1>5. lower.index <= found /\ found < upper.index
  BY <1>1, <1>3, <1>4 DEF KInv, Bracket
<1> QED BY <1>1, <1>2, <1>3, <1>5

\* Steps that leave the bracket as the lookup has left it.
LEMMA KInvKept ==
    ASSUME KInv, UNCHANGED <<call, search_vars, lower, upper>>
    PROVE  KInv'
BY DEF call, search_vars, KInv, LookupTypeOK, Sorted, Bracket, AnswerCorrect

-----------------------------------------------------------------------------
(***************************************************************************)
(* The steps                                                               *)
(***************************************************************************)
LEMMA RangeInitInvariant == RangeInit => RangeInv
<1> SUFFICES ASSUME RangeInit PROVE RangeInv
  OBVIOUS
<1>1. KInv
  BY InitInv DEF RangeInit
<1>2. RangeTypes
  BY CountAssumption, KeysAssumption DEF RangeInit, LookupInit, RangeTypes, Ends
<1>3. Unsearched /\ LowerKnown /\ UpperKnown
  BY DEF RangeInit, LookupInit, Unsearched, LowerKnown, UpperKnown
<1> QED BY <1>1, <1>2, <1>3 DEF RangeInv

LEMMA SearchInvariant ==
    ASSUME RangeInv, Search
    PROVE  RangeInv'
<1>1. /\ phase = "search" /\ phase' = phase /\ LookupNext
      /\ UNCHANGED <<jump, lower_bound, upper_bound>>
  BY DEF Search, range_vars
<1>2. KInv'
  BY <1>1, NextKeepsInv DEF RangeInv
<1>3. count' = count
  BY <1>1 DEF LookupNext, GetKeyOfNone, GetKeyOfOne, StartSearch, Probe, BracketEmpty, Answer,
              ProbeOutOfRange, ProbeFinds, ProbeTooLow, ProbeTooHigh, call
<1>4. /\ lookup' = "search" => count > 1
      /\ \/ UNCHANGED <<lower, upper>>
         \/ /\ lookup = "search"
            /\ \/ ProbeTooLow
               \/ ProbeTooHigh
  BY <1>1 DEF LookupNext, GetKeyOfNone, GetKeyOfOne, StartSearch, Probe, BracketEmpty, Answer,
              ProbeOutOfRange, ProbeFinds, ProbeTooLow, ProbeTooHigh, RangeInv, Unsearched
<1>5. lower' \in Ends /\ upper' \in Ends
  <2>1. CASE UNCHANGED <<lower, upper>>
    BY <2>1 DEF RangeInv, RangeTypes
  <2>2. CASE ProbeTooLow
    BY <2>2, GuessedKey, GuessNotBelow, KeyType DEF ProbeTooLow, RangeInv, RangeTypes, Ends
  <2>3. CASE ProbeTooHigh
    BY <2>3, GuessedKey, GuessNotBelow, KeyType DEF ProbeTooHigh, RangeInv, RangeTypes, Ends
  <2> QED BY <1>4, <2>1, <2>2, <2>3
<1>6. RangeTypes'
  BY <1>1, <1>5 DEF RangeInv, RangeTypes
<1>7. Unsearched'
  <2>1. count <= 1 => UNCHANGED <<lower, upper>>
    BY <1>4 DEF RangeInv, Unsearched, KInv, LookupTypeOK
  <2> QED BY <1>1, <1>3, <1>4, <2>1 DEF RangeInv, Unsearched
<1>8. LowerKnown' /\ UpperKnown'
  BY <1>1 DEF LowerKnown, UpperKnown
<1> QED BY <1>2, <1>6, <1>7, <1>8 DEF RangeInv

LEMMA FindOnlyInvariant ==
    ASSUME RangeInv, FindOnly
    PROVE  RangeInv'
<1>1. /\ phase' = "done" /\ lookup = "found" /\ count = 1
      /\ UNCHANGED <<table, count, wanted, lookup, found, lower, upper, jump, lower_bound, upper_bound>>
  BY DEF FindOnly, call, search_vars
<1>2. KInv'
  BY KInvKept DEF FindOnly, RangeInv
<1>3. lower.index = 0 /\ upper.index = 1 /\ HasKey(0)
  <2>1. lower.index = 0 /\ upper.index = 1
    BY <1>1 DEF RangeInv, Unsearched
  <2> QED BY <1>1, <2>1, FoundInside DEF RangeInv
<1>4. RangeTypes' /\ Unsearched'
  BY <1>1, <1>3 DEF RangeInv, RangeTypes, Unsearched
<1>5. LowerKnown' /\ UpperKnown'
  BY <1>1, <1>3 DEF LowerKnown, UpperKnown, HasKey
<1> QED BY <1>2, <1>4, <1>5 DEF RangeInv

\* Steps with which the lower end is looked for, which leave the bracket alone.
LEMMA DownInvariant ==
    ASSUME RangeInv, lookup = "found", count > 1,
           UNCHANGED <<call, search_vars, lower, upper>>,
           jump' \in Nat, lower_bound' \in Nat, upper_bound' \in Nat,
           phase' \in {"gallop_down", "bisect_down", "found_lower"},
           LowerKnown'
    PROVE  RangeInv'
<1>1. KInv'
  BY KInvKept DEF RangeInv
<1>2. RangeTypes' /\ UpperKnown'
  BY DEF RangeInv, RangeTypes, UpperKnown
<1>3. Unsearched'
  BY DEF RangeInv, Unsearched, KInv, LookupTypeOK, call, search_vars
<1> QED BY <1>1, <1>2, <1>3 DEF RangeInv

LEMMA StartDownInvariant ==
    ASSUME RangeInv, StartDown
    PROVE  RangeInv'
<1>1. /\ lookup = "found" /\ count > 1 /\ KInv
      /\ UNCHANGED <<table, wanted, found, lower, upper>>
      /\ UNCHANGED <<call, search_vars, lower, upper>>
  BY DEF StartDown, RangeInv, call, search_vars
<1>2. /\ found \in 0..(count - 1) /\ HasKey(found)
      /\ lower.index <= found /\ found < upper.index
  BY <1>1, FoundInside
<1>3. \/ found = lower.index /\ phase' = "found_lower" /\ UNCHANGED <<jump, lower_bound, upper_bound>>
      \/ /\ phase' = "gallop_down" /\ jump' = 1 /\ upper_bound' = found
         /\ UNCHANGED lower_bound
  BY DEF StartDown
<1>4. LowerKnown'
  BY <1>1, <1>2, <1>3 DEF LowerKnown, HasKey
<1>5. jump' \in Nat /\ lower_bound' \in Nat /\ upper_bound' \in Nat
  BY <1>2, <1>3 DEF RangeInv, RangeTypes
<1> QED BY <1>1, <1>3, <1>4, <1>5, DownInvariant

LEMMA GallopDownInvariant ==
    ASSUME RangeInv, GallopDown
    PROVE  RangeInv'
<1> DEFINE jumped == IF jump > found THEN 0 ELSE found - jump
           bound  == IF jumped < lower.index THEN lower.index ELSE jumped
<1>1. /\ phase = "gallop_down" /\ lookup = "found" /\ count > 1 /\ KInv
      /\ UNCHANGED <<table, wanted, found, lower, upper>>
      /\ UNCHANGED <<call, search_vars, lower, upper>>
      /\ jump \in Nat /\ upper_bound \in Nat
      /\ HasKey(upper_bound) /\ upper_bound <= found
  BY DEF GallopDown, RangeInv, RangeTypes, Unsearched, LowerKnown, call, search_vars,
         KInv, LookupTypeOK
<1>2. /\ found \in 0..(count - 1) /\ HasKey(found) /\ count \in Nat
      /\ lower.index <= found /\ found < upper.index /\ lower.index \in Nat
      /\ upper.index \in Nat
  BY <1>1, FoundInside
<1>3. bound \in 0..found /\ bound \in 0..(count - 1) /\ upper_bound \in 0..(count - 1)
  BY <1>1, <1>2
<1>4. /\ lower_bound' = bound
      /\ \/ ~HasKey(bound) /\ phase' = "bisect_down" /\ UNCHANGED <<jump, upper_bound>>
         \/ /\ HasKey(bound) /\ bound = lower.index
            /\ phase' = "found_lower" /\ UNCHANGED <<jump, upper_bound>>
         \/ /\ HasKey(bound) /\ upper_bound' = bound
            /\ jump' = (2 * jump) % (MaxSize + 1) /\ UNCHANGED phase
  BY DEF GallopDown
<1> HIDE DEF jumped, bound
<1>5. ~HasKey(bound) => bound < upper_bound /\ Before(table[bound], wanted)
  <2> SUFFICES ASSUME ~HasKey(bound)
               PROVE  bound < upper_bound /\ Before(table[bound], wanted)
    OBVIOUS
  <2>1. ~(upper_bound <= bound)
    BY <1>1, <1>2, <1>3, Between
  <2>2. Before(table[bound], wanted)
    BY <1>1, <1>2, <1>3, InOrder
  <2> QED BY <1>1, <1>3, <2>1, <2>2
<1>6. (2 * jump) % (MaxSize + 1) \in Nat
  BY <1>1, MaxSizeAssumption
<1>7. LowerKnown'
  BY <1>1, <1>2, <1>3, <1>4, <1>5 DEF LowerKnown, HasKey
<1>8. jump' \in Nat /\ lower_bound' \in Nat /\ upper_bound' \in Nat
  BY <1>1, <1>3, <1>4, <1>6
<1>9. phase' \in {"gallop_down", "bisect_down", "found_lower"}
  BY <1>1, <1>4
<1> QED BY <1>1, <1>7, <1>8, <1>9, DownInvariant

\* Where a bisection looks.
LEMMA GuessInside ==
    ASSUME NEW a \in Nat, NEW b \in Nat, a < b, a # b - 1
    PROVE  a < a + (b - a) \div 2 /\ a + (b - a) \div 2 < b /\ a + (b - a) \div 2 \in Nat
OBVIOUS

LEMMA BisectDownInvariant ==
    ASSUME RangeInv, BisectDown
    PROVE  RangeInv'
<1> DEFINE guess == lower_bound + (upper_bound - lower_bound) \div 2
<1>1. /\ phase = "bisect_down" /\ lookup = "found" /\ count > 1 /\ KInv
      /\ UNCHANGED <<table, count, wanted, found, upper, jump, lookup, attempt>>
      /\ UNCHANGED <<call, search_vars>>
      /\ lower_bound \in Nat /\ upper_bound \in Nat /\ jump \in Nat /\ lower \in Ends
      /\ HasKey(upper_bound) /\ upper_bound <= found
      /\ lower_bound < upper_bound /\ Before(table[lower_bound], wanted)
  BY DEF BisectDown, RangeInv, RangeTypes, Unsearched, LowerKnown, call, search_vars,
         KInv, LookupTypeOK
<1>2. /\ found \in 0..(count - 1) /\ count \in Nat /\ upper.index \in Nat
      /\ found < upper.index /\ upper.index <= count
  BY <1>1, FoundInside
<1>3. lower_bound \in 0..(count - 1) /\ upper_bound \in 0..(count - 1)
  BY <1>1, <1>2
<1>4. CASE lower_bound # upper_bound - 1
  <2>1. guess \in Nat /\ lower_bound < guess /\ guess < upper_bound
    BY <1>1, <1>4, GuessInside
  <2>2. /\ UNCHANGED <<lower, phase>>
        /\ \/ HasKey(guess) /\ upper_bound' = guess /\ UNCHANGED lower_bound
           \/ ~HasKey(guess) /\ lower_bound' = guess /\ UNCHANGED upper_bound
    BY <1>4 DEF BisectDown
  <2> HIDE DEF guess
  <2>3. guess \in 0..(count - 1)
    BY <1>2, <1>3, <2>1
  <2>4. ~HasKey(guess) => Before(table[guess], wanted)
    BY <1>1, <1>3, <2>1, <2>3, InOrder
  <2>5. LowerKnown'
    BY <1>1, <1>2, <2>1, <2>2, <2>4 DEF LowerKnown, HasKey
  <2>6. lower_bound' \in Nat /\ upper_bound' \in Nat /\ jump' \in Nat
    BY <1>1, <2>1, <2>2
  <2> QED BY <1>1, <2>2, <2>5, <2>6, DownInvariant
<1>5. CASE lower_bound = upper_bound - 1
  <2>1. /\ lower' = [lower EXCEPT !.index = upper_bound] /\ phase' = "found_lower"
        /\ UNCHANGED <<lower_bound, upper_bound>>
    BY <1>5 DEF BisectDown
  <2>2. lower' \in Ends /\ lower'.index = upper_bound /\ lower'.hash = lower.hash
    BY <1>1, <2>1 DEF Ends
  <2>3. ASSUME NEW i \in 0..(count - 1), i < upper_bound
        PROVE  Before(table[i], wanted)
    <3>1. i <= lower_bound
      BY <1>1, <1>5, <2>3
    <3> QED BY <1>1, <1>3, <3>1, InOrder
  <2>4. Bracket'
    BY <1>1, <2>2, <2>3 DEF KInv, Bracket
  <2>5. LookupTypeOK'
    BY <1>1, <2>2 DEF KInv, LookupTypeOK
  <2>6. lower'.index <= upper'.index
    BY <1>1, <1>2, <2>2
  <2>7. Sorted(table, count)' /\ AnswerCorrect'
    BY <1>1 DEF KInv, Sorted, AnswerCorrect
  <2>8. KInv'
    BY <1>1, <2>2, <2>4, <2>5, <2>6, <2>7 DEF KInv
  <2>9. RangeTypes' /\ Unsearched'
    BY <1>1, <1>2, <2>1, <2>2 DEF RangeInv, RangeTypes, Unsearched
  <2>10. LowerKnown' /\ UpperKnown'
    BY <1>1, <1>2, <2>1, <2>2 DEF LowerKnown, UpperKnown, HasKey
  <2> QED BY <2>8, <2>9, <2>10 DEF RangeInv
<1> QED BY <1>4, <1>5

\* Steps with which the upper end is looked for, which leave the bracket alone.
LEMMA UpInvariant ==
    ASSUME RangeInv, lookup = "found", count > 1,
           phase \in {"found_lower", "gallop_up", "bisect_up"},
           UNCHANGED <<call, search_vars, lower, upper>>,
           jump' \in Nat, lower_bound' \in Nat, upper_bound' \in Nat,
           phase' \in {"gallop_up", "bisect_up", "done"},
           UpperKnown'
    PROVE  RangeInv'
<1>1. KInv'
  BY KInvKept DEF RangeInv
<1>2. RangeTypes'
  BY DEF RangeInv, RangeTypes
<1>3. Unsearched'
  BY DEF RangeInv, Unsearched, KInv, LookupTypeOK, call, search_vars
<1>4. LowerKnown'
  BY DEF RangeInv, LowerKnown, HasKey, call, search_vars
<1> QED BY <1>1, <1>2, <1>3, <1>4 DEF RangeInv

LEMMA StartUpInvariant ==
    ASSUME RangeInv, StartUp
    PROVE  RangeInv'
<1>1. /\ phase = "found_lower" /\ lookup = "found" /\ count > 1 /\ KInv
      /\ HasKey(lower.index) /\ lower.index < upper.index
      /\ UNCHANGED <<table, wanted, found, lower, upper>>
      /\ UNCHANGED <<call, search_vars, lower, upper>>
      /\ jump \in Nat /\ lower_bound \in Nat /\ upper_bound \in Nat
  BY DEF StartUp, RangeInv, RangeTypes, Unsearched, LowerKnown, call, search_vars,
         KInv, LookupTypeOK
<1>2. /\ found \in 0..(count - 1) /\ HasKey(found) /\ found < upper.index
      /\ upper.index \in Nat
  BY <1>1, FoundInside
<1>3. \/ found = upper.index - 1 /\ phase' = "done" /\ UNCHANGED <<jump, lower_bound, upper_bound>>
      \/ /\ phase' = "gallop_up" /\ jump' = 1 /\ lower_bound' = found
         /\ UNCHANGED upper_bound
  BY DEF StartUp
<1>4. UpperKnown'
  BY <1>1, <1>2, <1>3 DEF UpperKnown, HasKey
<1>5. jump' \in Nat /\ lower_bound' \in Nat /\ upper_bound' \in Nat
  BY <1>1, <1>2, <1>3
<1> QED BY <1>1, <1>3, <1>4, <1>5, UpInvariant

LEMMA GallopUpInvariant ==
    ASSUME RangeInv, GallopUp
    PROVE  RangeInv'
<1> DEFINE jumped == IF jump > MaxSize - found THEN MaxSize ELSE found + jump
           last   == upper.index - 1
           bound  == IF jumped > last THEN last ELSE jumped
<1>1. /\ phase = "gallop_up" /\ lookup = "found" /\ count > 1 /\ KInv
      /\ HasKey(lower.index) /\ lower.index < upper.index
      /\ UNCHANGED <<table, wanted, found, lower, upper>>
      /\ UNCHANGED <<call, search_vars, lower, upper>>
      /\ jump \in Nat /\ lower_bound \in Nat
      /\ HasKey(lower_bound) /\ found <= lower_bound /\ lower_bound < upper.index
  BY DEF GallopUp, RangeInv, RangeTypes, Unsearched, LowerKnown, UpperKnown, call,
         search_vars, KInv, LookupTypeOK
<1>2. /\ found \in 0..(count - 1) /\ HasKey(found) /\ count \in Nat
      /\ found < upper.index /\ upper.index \in Nat /\ upper.index <= count
      /\ count <= MaxCount
  BY <1>1, FoundInside
<1>3. MaxSize \in Nat /\ found <= MaxSize
  BY <1>2, MaxSizeAssumption, CountAssumption
<1>4. jumped \in Nat /\ found <= jumped
  BY <1>1, <1>2, <1>3
<1>5. /\ bound \in Nat /\ found <= bound /\ bound < upper.index
      /\ bound \in 0..(count - 1) /\ lower_bound \in 0..(count - 1)
  <2> HIDE DEF jumped
  <2> QED BY <1>1, <1>2, <1>4
<1>6. /\ upper_bound' = bound
      /\ \/ ~HasKey(bound) /\ phase' = "bisect_up" /\ UNCHANGED <<jump, lower_bound>>
         \/ /\ HasKey(bound) /\ bound = upper.index - 1
            /\ phase' = "done" /\ UNCHANGED <<jump, lower_bound>>
         \/ /\ HasKey(bound) /\ lower_bound' = bound
            /\ jump' = (2 * jump) % (MaxSize + 1) /\ UNCHANGED phase
  BY DEF GallopUp
<1> HIDE DEF jumped, last, bound
<1>7. ~HasKey(bound) => lower_bound < bound /\ Before(wanted, table[bound])
  <2> SUFFICES ASSUME ~HasKey(bound)
               PROVE  lower_bound < bound /\ Before(wanted, table[bound])
    OBVIOUS
  <2>1. ~(bound <= lower_bound)
    BY <1>1, <1>2, <1>5, Between
  <2>2. Before(wanted, table[bound])
    BY <1>1, <1>2, <1>5, InOrder
  <2> QED BY <1>1, <1>5, <2>1, <2>2
<1>8. (2 * jump) % (MaxSize + 1) \in Nat
  BY <1>1, MaxSizeAssumption
<1>9. UpperKnown'
  BY <1>1, <1>2, <1>5, <1>6, <1>7 DEF UpperKnown, HasKey
<1>10. jump' \in Nat /\ lower_bound' \in Nat /\ upper_bound' \in Nat
  BY <1>1, <1>5, <1>6, <1>8
<1>11. phase' \in {"gallop_up", "bisect_up", "done"}
  BY <1>1, <1>6
<1> QED BY <1>1, <1>9, <1>10, <1>11, UpInvariant

LEMMA BisectUpInvariant ==
    ASSUME RangeInv, BisectUp
    PROVE  RangeInv'
<1> DEFINE guess == lower_bound + (upper_bound - lower_bound) \div 2
<1>1. /\ phase = "bisect_up" /\ lookup = "found" /\ count > 1 /\ KInv
      /\ HasKey(lower.index) /\ lower.index < upper.index
      /\ UNCHANGED <<table, count, wanted, found, lower, jump, lookup, attempt>>
      /\ UNCHANGED <<call, search_vars>>
      /\ lower_bound \in Nat /\ upper_bound \in Nat /\ jump \in Nat /\ upper \in Ends
      /\ HasKey(lower_bound) /\ found <= lower_bound
      /\ lower_bound < upper_bound /\ upper_bound < upper.index
      /\ Before(wanted, table[upper_bound])
  BY DEF BisectUp, RangeInv, RangeTypes, Unsearched, LowerKnown, UpperKnown, call,
         search_vars, KInv, LookupTypeOK
<1>2. /\ found \in 0..(count - 1) /\ count \in Nat /\ upper.index \in Nat
      /\ upper.index <= count /\ lower.index \in Nat /\ lower.index <= found
  BY <1>1, FoundInside
<1>3. lower_bound \in 0..(count - 1) /\ upper_bound \in 0..(count - 1)
  BY <1>1, <1>2
<1>4. CASE lower_bound # upper_bound - 1
  <2>1. guess \in Nat /\ lower_bound < guess /\ guess < upper_bound
    BY <1>1, <1>4, GuessInside
  <2>2. /\ UNCHANGED <<upper, phase>>
        /\ \/ HasKey(guess) /\ lower_bound' = guess /\ UNCHANGED upper_bound
           \/ ~HasKey(guess) /\ upper_bound' = guess /\ UNCHANGED lower_bound
    BY <1>4 DEF BisectUp
  <2> HIDE DEF guess
  <2>3. guess \in 0..(count - 1)
    BY <1>2, <1>3, <2>1
  <2>4. ~HasKey(guess) => Before(wanted, table[guess])
    BY <1>1, <1>3, <2>1, <2>3, InOrder
  <2>5. UpperKnown'
    BY <1>1, <1>2, <2>1, <2>2, <2>4 DEF UpperKnown, HasKey
  <2>6. lower_bound' \in Nat /\ upper_bound' \in Nat /\ jump' \in Nat
    BY <1>1, <2>1, <2>2
  <2> QED BY <1>1, <2>2, <2>5, <2>6, UpInvariant
<1>5. CASE lower_bound = upper_bound - 1
  <2>1. /\ upper' = [upper EXCEPT !.index = upper_bound] /\ phase' = "done"
        /\ UNCHANGED <<lower_bound, upper_bound>>
    BY <1>5 DEF BisectUp
  <2>2. upper' \in Ends /\ upper'.index = upper_bound /\ upper'.hash = upper.hash
    BY <1>1, <2>1 DEF Ends
  <2>3. ASSUME NEW i \in 0..(count - 1), i >= upper_bound
        PROVE  Before(wanted, table[i])
    BY <1>1, <1>3, <2>3, InOrder
  <2>4. Bracket'
    BY <1>1, <2>2, <2>3 DEF KInv, Bracket
  <2>5. LookupTypeOK'
    BY <1>1, <2>2 DEF KInv, LookupTypeOK
  <2>6. lower'.index < upper'.index /\ upper'.index <= count'
    BY <1>1, <1>2, <2>2
  <2>7. Sorted(table, count)' /\ AnswerCorrect'
    BY <1>1 DEF KInv, Sorted, AnswerCorrect
  <2>8. KInv'
    BY <1>1, <1>2, <2>2, <2>4, <2>5, <2>6, <2>7 DEF KInv
  <2>9. RangeTypes' /\ Unsearched'
    BY <1>1, <1>2, <2>1, <2>2 DEF RangeInv, RangeTypes, Unsearched
  <2>10. LowerKnown' /\ UpperKnown'
    BY <1>1, <1>2, <1>5, <2>1, <2>2, <2>6 DEF LowerKnown, UpperKnown, HasKey
  <2> QED BY <2>8, <2>9, <2>10 DEF RangeInv
<1> QED BY <1>4, <1>5

LEMMA RangeNextInvariant == RangeInv /\ [RangeNext]_<<lookup_vars, range_vars>> => RangeInv'
<1> SUFFICES ASSUME RangeInv, [RangeNext]_<<lookup_vars, range_vars>>
             PROVE  RangeInv'
  OBVIOUS
<1>1. CASE UNCHANGED <<lookup_vars, range_vars>>
  <2>1. UNCHANGED <<call, search_vars, lower, upper>>
    BY <1>1 DEF lookup_vars, call, search_vars
  <2>2. KInv'
    BY <2>1, KInvKept DEF RangeInv
  <2>3. RangeTypes' /\ Unsearched' /\ LowerKnown' /\ UpperKnown'
    BY <1>1 DEF RangeInv, RangeTypes, Unsearched, LowerKnown, UpperKnown, HasKey, lookup_vars,
                range_vars
  <2> QED BY <2>2, <2>3 DEF RangeInv
<1> QED
  BY <1>1, SearchInvariant, FindOnlyInvariant, StartDownInvariant, GallopDownInvariant,
     BisectDownInvariant, StartUpInvariant, GallopUpInvariant, BisectUpInvariant
     DEF RangeNext

-----------------------------------------------------------------------------
(***************************************************************************)
(* The ends of the range.                                                  *)
(***************************************************************************)
LEMMA RangeIsWhole ==
    ASSUME RangeInv, phase = "done"
    PROVE  lower.index..(upper.index - 1) = {i \in 0..(count - 1) : HasKey(i)}
<1>1. /\ KInv /\ HasKey(lower.index) /\ HasKey(upper.index - 1)
      /\ lower.index < upper.index
      /\ lower.index \in Nat /\ upper.index \in Nat /\ count \in Nat
      /\ upper.index <= count
  BY DEF RangeInv, LowerKnown, UpperKnown, KInv, LookupTypeOK
<1>2. ASSUME NEW i \in lower.index..(upper.index - 1)
      PROVE  i \in 0..(count - 1) /\ HasKey(i)
  <2>1. /\ i \in 0..(count - 1) /\ lower.index \in 0..(count - 1)
        /\ upper.index - 1 \in 0..(count - 1)
        /\ lower.index <= i /\ i <= upper.index - 1
    BY <1>1
  <2> QED BY <1>1, <2>1, Between
<1>3. ASSUME NEW i \in 0..(count - 1), HasKey(i)
      PROVE  i \in lower.index..(upper.index - 1)
  <2>1. ~Before(table[i], wanted) /\ ~Before(wanted, table[i])
    BY <1>1, <1>3, NeitherSide
  <2>2. ~(i < lower.index) /\ ~(i >= upper.index)
    BY <1>1, <2>1 DEF KInv, Bracket
  <2> QED BY <1>1, <2>2
<1> QED BY <1>2, <1>3

(***************************************************************************)
(* A range that _bijson_analyzed_object_get_key_range returns holds every  *)
(* item with the key and no other: galloping and bisection meet the ends   *)
(* of the run of equal keys, wherever the search has met it.               *)
(***************************************************************************)
THEOREM RangesAreCorrect == RangeSpec => []RangeCorrect
<1>1. RangeInv => RangeCorrect
  <2> SUFFICES ASSUME RangeInv PROVE RangeCorrect
    OBVIOUS
  <2>1. phase = "done" =>
          lower.index..(upper.index - 1) = {i \in 0..(count - 1) : HasKey(i)}
    BY RangeIsWhole
  <2>2. lookup = "key_not_found" => \A i \in 0..(count - 1) : ~HasKey(i)
    BY DEF RangeInv, KInv, AnswerCorrect, HasKey
  <2> QED BY <2>1, <2>2 DEF RangeInv, LowerKnown, UpperKnown, RangeCorrect
<1> QED BY <1>1, RangeInitInvariant, RangeNextInvariant, PTL DEF RangeSpec
=============================================================================
