---------------------------- MODULE WriterProofs ----------------------------
(***************************************************************************)
(* Theorems about the writer.                                              *)
(***************************************************************************)
EXTENDS WriterDocument, SequenceTheorems, TLAPS

IInv == TypeOK /\ ContainersNested

-----------------------------------------------------------------------------
(***************************************************************************)
(* Sequences                                                               *)
(***************************************************************************)

\* What is left of a sequence without its last element.
LEMMA FrontFacts ==
    ASSUME NEW s \in Seq(Nat), s # <<>>
    PROVE  /\ Front(s) \in Seq(Nat)
           /\ Len(Front(s)) = Len(s) - 1
           /\ \A i \in 1..(Len(s) - 1) : Front(s)[i] = s[i]
           /\ Last(s) \in Nat /\ Last(s) = s[Len(s)]
  <1>1. Len(s) \in Nat /\ Len(s) > 0
    OBVIOUS
  <1>2. PICK m \in Nat : m = Len(s) - 1
    BY <1>1
  <1>3. SubSeq(s, 1, m) \in Seq(Nat) /\ Len(SubSeq(s, 1, m)) = m
    BY <1>1, <1>2
  <1>4. \A i \in 1..m : SubSeq(s, 1, m)[i] = s[i]
    BY <1>1, <1>2
  <1>5. Front(s) = SubSeq(s, 1, m)
    BY <1>2 DEF Front
  <1> QED BY <1>1, <1>2, <1>3, <1>4, <1>5 DEF Last

\* A sequence behind another, the start of one, one with an element replaced.
LEMMA ConcatFacts ==
    ASSUME NEW s \in Seq(Nat), NEW t \in Seq(Nat)
    PROVE  /\ s \o t \in Seq(Nat)
           /\ Len(s \o t) = Len(s) + Len(t)
           /\ \A i \in 1..Len(s) : (s \o t)[i] = s[i]
  OBVIOUS

LEMMA StartFacts ==
    ASSUME NEW s \in Seq(Nat), NEW n \in 0..Len(s)
    PROVE  SubSeq(s, 1, n) \in Seq(Nat)
  OBVIOUS

LEMMA ExceptFacts ==
    ASSUME NEW s \in Seq(Nat), NEW k \in 1..Len(s), NEW e \in Nat
    PROVE  /\ [s EXCEPT ![k] = e] \in Seq(Nat)
           /\ Len([s EXCEPT ![k] = e]) = Len(s)
           /\ \A i \in 1..Len(s) : i # k => [s EXCEPT ![k] = e][i] = s[i]
  OBVIOUS

\* A sequence with one element more.
LEMMA AppendFacts ==
    ASSUME NEW s \in Seq(Nat), NEW e \in Nat
    PROVE  /\ Append(s, e) \in Seq(Nat) /\ Append(s, e) # <<>>
           /\ Len(Append(s, e)) = Len(s) + 1
           /\ Last(Append(s, e)) = e
  <1>1. /\ Append(s, e) \in Seq(Nat) /\ Len(Append(s, e)) = Len(s) + 1
        /\ Append(s, e)[Len(s) + 1] = e
    OBVIOUS
  <1>2. Append(s, e) # <<>>
    OBVIOUS
  <1> QED BY <1>1, <1>2 DEF Last

-----------------------------------------------------------------------------
(***************************************************************************)
(* Chains of containers                                                    *)
(***************************************************************************)

\* Offset h - 1 is the h-th cell.
LEMMA HeaderInCells ==
    ASSUME NEW s, NEW h \in Nat
    PROVE  HeaderIn(s, h) <=> h + 2 <= Len(s) /\ s[h] \in {1, 2}
  <1>1. (h - 1) + 1 = h
    OBVIOUS
  <1> QED BY <1>1
      DEF HeaderIn, Cell, HeaderSize, SizeOfSize, TypeByteSize, OBJECT, ARRAY

\* A header stays one when its type byte does and the spool is not cut.
LEMMA HeaderKept ==
    ASSUME NEW s \in Seq(Nat), NEW s2 \in Seq(Nat), NEW h \in Nat,
           HeaderIn(s, h), Len(s) <= Len(s2), s2[h] = s[h]
    PROVE  HeaderIn(s2, h)
  <1>1. h + 2 <= Len(s) /\ s[h] \in {1, 2}
    BY HeaderInCells
  <1>2. h + 2 <= Len(s2) /\ s2[h] \in {1, 2}
    BY <1>1
  <1> QED BY <1>2, HeaderInCells

\* One container of the chain.
LEMMA NestedAt ==
    ASSUME NEW s \in Seq(Nat), NEW st \in Seq(Nat),
           NEW n \in Nat, NEW c \in Nat,
           Nested(s, st, n, c), NEW i \in 1..n
    PROVE  /\ n <= Len(st) /\ st[i] \in Nat /\ st[i] < c
           /\ i = 1 => st[i] = 0
           /\ i > 1 => st[i] > 0 /\ HeaderIn(s, st[i])
  BY DEF Nested

\* A chain stays one when the cells up to its innermost header do, and the
\* spool is not cut.
LEMMA NestedKept ==
    ASSUME NEW s \in Seq(Nat), NEW s2 \in Seq(Nat),
           NEW st \in Seq(Nat), NEW st2 \in Seq(Nat),
           NEW n \in Nat, NEW c \in Nat,
           Nested(s, st, n, c),
           Len(s) <= Len(s2),
           n <= Len(st2),
           \A i \in 1..n : st2[i] = st[i],
           \A h \in Nat : 0 < h /\ h <= c => s2[h] = s[h]
    PROVE  Nested(s2, st2, n, c)
  <1>1. n = 0 <=> c = 0
    BY DEF Nested
  <1>2. c > 0 => HeaderIn(s2, c)
    BY HeaderKept DEF Nested
  <1>3. ASSUME NEW i \in 1..n
        PROVE  /\ st2[i] < c
               /\ IF i = 1 THEN st2[i] = 0 ELSE st2[i] > 0 /\ HeaderIn(s2, st2[i])
    <2>1. /\ st[i] \in Nat /\ st[i] < c
          /\ i = 1 => st[i] = 0
          /\ i > 1 => st[i] > 0 /\ HeaderIn(s, st[i])
      BY DEF Nested
    <2>2. i > 1 => HeaderIn(s2, st[i])
      BY <2>1, HeaderKept
    <2>3. st2[i] = st[i] /\ (i = 1 \/ i > 1)
      OBVIOUS
    <2>4. CASE i = 1
      BY <2>1, <2>3, <2>4, Zenon
    <2>5. CASE i > 1
      BY <2>1, <2>2, <2>3, <2>5
    <2> QED BY <2>3, <2>4, <2>5
  <1>4. \A i, j \in 1..n : i < j => st2[i] < st2[j]
    BY DEF Nested
  <1> QED BY <1>1, <1>2, <1>3, <1>4 DEF Nested

\* A header behind all of the spool extends the chain, when the innermost
\* container so far is saved ...
LEMMA NestedPush ==
    ASSUME NEW s \in Seq(Nat), NEW s2 \in Seq(Nat),
           NEW st \in Seq(Nat), NEW st2 \in Seq(Nat),
           NEW n \in Nat, n = Len(st), NEW c \in Nat, NEW c2 \in Nat,
           Nested(s, st, n, c),
           Len(s) < c2, HeaderIn(s2, c2),
           Len(s) <= Len(s2), \A h \in 1..Len(s) : s2[h] = s[h],
           Len(st2) = n + 1, \A i \in 1..n : st2[i] = st[i], st2[n + 1] = c
    PROVE  Nested(s2, st2, n + 1, c2)
  <1>1. ASSUME NEW h \in Nat, h > 0, HeaderIn(s, h)
        PROVE  HeaderIn(s2, h) /\ h < c2
    <2>1. h + 2 <= Len(s)
      BY <1>1, HeaderInCells
    <2> QED BY <1>1, <2>1, HeaderKept
  <1>2. c < c2 /\ (n = 0 => c = 0) /\ (n > 0 => c > 0 /\ HeaderIn(s2, c))
    BY <1>1 DEF Nested
  <1>3. ASSUME NEW i \in 1..n
        PROVE  /\ st2[i] \in Nat /\ st2[i] < c
               /\ IF i = 1 THEN st2[i] = 0 ELSE st2[i] > 0 /\ HeaderIn(s2, st2[i])
    <2>1. /\ st[i] \in Nat /\ st[i] < c
          /\ i = 1 => st[i] = 0
          /\ i > 1 => st[i] > 0 /\ HeaderIn(s, st[i])
      <3>1. st[i] < c /\ IF i = 1 THEN st[i] = 0 ELSE st[i] > 0 /\ HeaderIn(s, st[i])
        BY Zenon DEF Nested
      <3>2. st[i] \in Nat
        BY <1>2
      <3> QED BY <3>1, <3>2
    <2>2. st2[i] = st[i] /\ (i = 1 \/ i > 1)
      OBVIOUS
    <2>3. CASE i = 1
      BY <2>1, <2>2, <2>3, Zenon
    <2>4. CASE i > 1
      <3>1. st[i] \in Nat /\ st[i] > 0 /\ HeaderIn(s, st[i])
        BY <2>1, <2>4, Zenon
      <3>2. HeaderIn(s2, st[i])
        BY <3>1, <1>1, Zenon
      <3>3. i # 1
        BY <2>4
      <3> QED BY <2>1, <2>2, <3>1, <3>2, <3>3, Zenon
    <2> QED BY <2>2, <2>3, <2>4, Zenon
  <1>4. ASSUME NEW i \in 1..(n + 1)
        PROVE  /\ st2[i] < c2
               /\ IF i = 1 THEN st2[i] = 0 ELSE st2[i] > 0 /\ HeaderIn(s2, st2[i])
    <2>1. CASE i = n + 1
      BY <2>1, <1>2
    <2>2. CASE i \in 1..n
      <3>1. c < c2 /\ st2[i] \in Nat /\ st2[i] < c
        BY <2>2, <1>2, <1>3, Zenon
      <3>2. st2[i] < c2
        BY <3>1
      <3> QED BY <2>2, <1>3, <3>2, Zenon
    <2> QED BY <2>1, <2>2
  <1>5. ASSUME NEW i \in 1..(n + 1), NEW j \in 1..(n + 1), i < j
        PROVE  st2[i] < st2[j]
    <2>1. i \in 1..n
      BY <1>5
    <2>2. CASE j = n + 1
      BY <2>1, <2>2, <1>3
    <2>3. CASE j \in 1..n
      BY <2>1, <2>3, <1>5 DEF Nested
    <2> QED BY <2>2, <2>3
  <1> QED BY <1>4, <1>5 DEF Nested

\* ... and the chain without its innermost container is one again.
LEMMA NestedPop ==
    ASSUME NEW s \in Seq(Nat), NEW st \in Seq(Nat),
           NEW n \in Nat, n = Len(st), NEW c \in Nat, c > 0,
           Nested(s, st, n, c)
    PROVE  /\ n > 0
           /\ st[n] \in Nat /\ st[n] < c
           /\ st[n] > 0 => HeaderIn(s, st[n])
           /\ Nested(s, st, n - 1, st[n])
  <1>1. n > 0
    BY DEF Nested
  <1>2. /\ st[n] \in Nat /\ st[n] < c
        /\ n = 1 => st[n] = 0
        /\ n > 1 => st[n] > 0 /\ HeaderIn(s, st[n])
    <2>1. n \in 1..n
      BY <1>1
    <2> QED BY <2>1, NestedAt, Zenon
  <1>3. ASSUME NEW i \in 1..(n - 1)
        PROVE  /\ st[i] < st[n]
               /\ IF i = 1 THEN st[i] = 0 ELSE st[i] > 0 /\ HeaderIn(s, st[i])
    <2>1. i \in 1..n /\ n \in 1..n /\ i < n
      BY <1>1
    <2>2. st[i] < st[n]
      BY <2>1 DEF Nested
    <2> QED BY <2>1, <2>2, NestedAt
  <1>4. ASSUME NEW i \in 1..(n - 1), NEW j \in 1..(n - 1), i < j
        PROVE  st[i] < st[j]
    <2>1. i \in 1..n /\ j \in 1..n
      BY <1>1
    <2> QED BY <2>1, <1>4 DEF Nested
  <1>5. Nested(s, st, n - 1, st[n])
    BY <1>1, <1>2, <1>3, <1>4 DEF Nested
  <1> QED BY <1>1, <1>2, <1>5

-----------------------------------------------------------------------------
(***************************************************************************)
(* The invariant under the ways in which calls end                         *)
(***************************************************************************)

LEMMA SizeTInNat == ASSUME NEW x PROVE SizeT(x) \in Nat
  BY SizeMaxAssumption DEF SizeT

LEMMA ExpectInType == ASSUME NEW s, NEW c PROVE ExpectIn(s, c) \in AfterValue
  BY DEF ExpectIn, AfterValue

LEMMA ExpectInKept ==
    ASSUME NEW s, NEW s2, NEW c \in Nat, c > 0 => s2[c] = s[c]
    PROVE  ExpectIn(s2, c) = ExpectIn(s, c)
  <1>1. (c - 1) + 1 = c
    OBVIOUS
  <1> QED BY <1>1 DEF ExpectIn, Cell, TypeByteSize

\* What can be read off the invariant while the document can take more.
LEMMA ChainFacts ==
    ASSUME IInv, ~failed, expect # "none"
    PROVE  /\ spool \in Seq(Nat) /\ stack \in Seq(Nat) /\ current_container \in Nat
           /\ Saved \in Nat /\ Saved <= Len(stack)
           /\ Nested(spool, stack, Saved, current_container)
           /\ expect_after_value = ExpectIn(spool, current_container)
           /\ current_container > 0 => current_container + 2 <= Len(spool)
           /\ Saved = 0 <=> current_container = 0
           /\ current_container > 0 <=> expect_after_value # "none"
  <1>1. /\ spool \in Seq(Nat) /\ stack \in Seq(Nat) /\ current_container \in Nat
        /\ Nested(spool, stack, Saved, current_container)
        /\ expect_after_value = ExpectIn(spool, current_container)
    BY DEF IInv, TypeOK, ContainersNested
  <1>2. /\ Saved \in 0..Len(stack)
        /\ Saved = 0 <=> current_container = 0
        /\ current_container > 0 => HeaderIn(spool, current_container)
    BY <1>1 DEF Nested
  <1>3. current_container > 0 => current_container + 2 <= Len(spool)
    BY <1>1, <1>2, HeaderInCells
  <1>4. current_container > 0 <=> expect_after_value # "none"
    BY <1>1 DEF ExpectIn
  <1> QED BY <1>1, <1>2, <1>3, <1>4

\* A call that changes nothing but its answer.
LEMMA ReturnKeepsInv ==
    ASSUME IInv, UNCHANGED <<buffers, expects, failed>>, ret' \in Errors \union {OK}
    PROVE  IInv'
  <1>1. TypeOK'
    BY DEF IInv, TypeOK, buffers, expects
  <1>2. ContainersNested'
    BY DEF IInv, ContainersNested, buffers, expects, Nested, HeaderIn, Cell,
           PartInContainer, Saved, ExpectIn
  <1> QED BY <1>1, <1>2 DEF IInv

\* A call that leaves the writer failed.
LEMMA FailKeepsInv ==
    ASSUME failed' = TRUE, ret' \in Errors \union {OK},
           spool' \in Seq(Nat), stack' \in Seq(Nat), current_container' \in Nat,
           expect' \in Expect, expect_after_value' \in AfterValue
    PROVE  IInv'
  BY DEF IInv, TypeOK, ContainersNested

\* A call that only adds to the buffers, and leaves the containers alone.
LEMMA GrowKeepsChain ==
    ASSUME IInv, ~failed, expect # "none",
           NEW cells \in Seq(Nat), NEW pushed \in Seq(Nat),
           spool' = spool \o cells, stack' = stack \o pushed,
           UNCHANGED <<current_container, expect_after_value>>,
           Saved' = Saved
    PROVE  /\ spool' \in Seq(Nat) /\ stack' \in Seq(Nat)
           /\ Nested(spool', stack', Saved', current_container')
           /\ expect_after_value' = ExpectIn(spool', current_container')
  <1>1. /\ spool \in Seq(Nat) /\ stack \in Seq(Nat) /\ current_container \in Nat
        /\ Saved \in Nat /\ Saved <= Len(stack)
        /\ Nested(spool, stack, Saved, current_container)
        /\ expect_after_value = ExpectIn(spool, current_container)
        /\ current_container > 0 => current_container + 2 <= Len(spool)
    BY ChainFacts
  <1>2. /\ spool' \in Seq(Nat) /\ Len(spool) <= Len(spool')
        /\ \A h \in 1..Len(spool) : spool'[h] = spool[h]
    BY <1>1
  <1>3. /\ stack' \in Seq(Nat) /\ Len(stack) <= Len(stack')
        /\ \A i \in 1..Len(stack) : stack'[i] = stack[i]
    BY <1>1
  <1>4. ASSUME NEW h \in Nat, 0 < h, h <= current_container PROVE spool'[h] = spool[h]
    <2>1. Len(spool) \in Nat
      BY <1>1
    <2>2. h \in 1..Len(spool)
      <3> HIDE <1>2
      <3> QED BY <1>1, <1>4, <2>1
    <2> QED BY <1>2, <2>2, Zenon
  <1>5. Nested(spool', stack', Saved, current_container)
    <2>1. Saved <= Len(stack') /\ \A i \in 1..Saved : stack'[i] = stack[i]
      BY <1>1, <1>3
    <2> QED BY <1>1, <1>2, <1>3, <1>4, <2>1, NestedKept
  <1>6. ExpectIn(spool', current_container) = ExpectIn(spool, current_container)
    <2>1. current_container > 0 => spool'[current_container] = spool[current_container]
      BY <1>1, <1>4
    <2> QED BY <1>1, <2>1, ExpectInKept
  <1> QED BY <1>1, <1>2, <1>3, <1>5, <1>6

\* A call that runs out of memory half-way.
LEMMA PushFailsKeepsInv ==
    ASSUME IInv, NEW cells \in Seq(Nat), NEW max \in Nat, PushFails(cells, max),
           stack' \in Seq(Nat), UNCHANGED <<current_container, expects>>
    PROVE  IInv'
  <1>1. PICK n \in 0..max : n < Len(cells) /\ spool' = spool \o SubSeq(cells, 1, n)
    BY DEF PushFails
  <1>2. SubSeq(cells, 1, n) \in Seq(Nat)
    BY <1>1
  <1>3. spool' \in Seq(Nat)
    BY <1>1, <1>2 DEF IInv, TypeOK
  <1>4. failed' = TRUE /\ ret' \in Errors \union {OK}
    BY DEF PushFails, Fail, Errors
  <1> QED BY <1>3, <1>4, FailKeepsInv DEF IInv, TypeOK, expects

\* A call that is refused.
LEMMA RefuseKeepsInv ==
    ASSUME IInv, NEW check \in Errors \union {OK}, Refuse(check)
    PROVE  IInv'
  <1>1. UNCHANGED <<buffers, expects, failed>> /\ ret' \in Errors \union {OK}
    BY DEF Refuse, Return, Errors
  <1> QED BY <1>1, ReturnKeepsInv

LEMMA ChecksAreErrors ==
    /\ CheckExpectValue \in Errors \union {OK}
    /\ CheckExpectKey \in Errors \union {OK}
    /\ CheckEndArray \in Errors \union {OK}
    /\ CheckEndObject \in Errors \union {OK}
    /\ CheckWrite \in Errors \union {OK}
    /\ \A more : CheckExpectMore(more) \in Errors \union {OK}
  BY DEF CheckExpectValue, CheckExpectKey, CheckEndArray, CheckEndObject,
         CheckWrite, CheckExpectMore, Errors, OK

-----------------------------------------------------------------------------
(***************************************************************************)
(* The invariant under each call                                           *)
(***************************************************************************)

LEMMA BeginContainerKeepsInv ==
    ASSUME IInv, NEW type \in {OBJECT, ARRAY}, NEW first,
           first = IF type = OBJECT THEN "key" ELSE "value",
           BeginContainer(type, first)
    PROVE  IInv'
  <1>1. CASE Refuse(CheckExpectValue)
    BY <1>1, RefuseKeepsInv, ChecksAreErrors
  <1> DEFINE header == <<type, 0, 0>>
  <1>2. CASE ~Refuse(CheckExpectValue)
    <2>1. /\ Accepts(CheckExpectValue)
          /\ expect' = first /\ expect_after_value' = first
      BY <1>2 DEF BeginContainer
    <2>2. ~failed /\ expect = "value"
      BY <2>1 DEF Accepts, CheckExpectValue, OK
    <2>3. first \in {"key", "value"} /\ first \in Expect /\ first \in AfterValue
      BY DEF Expect, AfterValue
    <2>4. /\ spool \in Seq(Nat) /\ stack \in Seq(Nat) /\ current_container \in Nat
          /\ type \in Nat /\ Len(spool) \in Nat
      BY DEF IInv, TypeOK, OBJECT, ARRAY
    <2>5. /\ spool \o header \in Seq(Nat) /\ Len(spool \o header) = Len(spool) + 3
          /\ \A h \in 1..Len(spool) : (spool \o header)[h] = spool[h]
          /\ (spool \o header)[Len(spool) + 1] = type
          /\ Append(spool, type) \in Seq(Nat)
      BY <2>4
    <2>6. /\ Append(stack, current_container) \in Seq(Nat)
          /\ Len(Append(stack, current_container)) = Len(stack) + 1
          /\ \A i \in 1..Len(stack) : Append(stack, current_container)[i] = stack[i]
          /\ Append(stack, current_container)[Len(stack) + 1] = current_container
      BY <2>4
    <2>7. CASE /\ spool' = spool \o header
               /\ stack' = Append(stack, current_container)
               /\ current_container' = Len(spool) + TypeByteSize
               /\ Succeed
      <3>1. /\ current_container' = Len(spool) + 1 /\ current_container' > 0
            /\ failed' = FALSE /\ ret' = OK
        BY <2>2, <2>4, <2>7 DEF TypeByteSize, Succeed, IInv, TypeOK
      <3>2. TypeOK'
        <4>1. /\ spool' \in Seq(Nat) /\ stack' \in Seq(Nat)
              /\ current_container' \in Nat
          BY <2>4, <2>5, <2>6, <2>7, <3>1
        <4>2. /\ expect' \in Expect /\ expect_after_value' \in AfterValue
              /\ failed' \in BOOLEAN /\ ret' \in Errors \union {OK}
          BY <2>1, <2>3, <3>1
        <4> QED BY <4>1, <4>2 DEF TypeOK
      <3>3. Saved = Len(stack)
        BY <2>2 DEF Saved
      <3>4. Saved' = Len(stack) + 1
        BY <2>1, <2>3, <2>6, <2>7 DEF Saved
      <3>5. Nested(spool, stack, Len(stack), current_container)
        BY <2>2, <3>3, ChainFacts
      <3>6. HeaderIn(spool', Len(spool) + 1)
        <4>1. Len(spool) + 1 + 2 <= Len(spool') /\ spool'[Len(spool) + 1] \in {1, 2}
          BY <2>4, <2>5, <2>7 DEF OBJECT, ARRAY
        <4> QED BY <2>4, <4>1, HeaderInCells
      <3>7. Nested(spool', stack', Len(stack) + 1, Len(spool) + 1)
        <4>1. /\ spool' \in Seq(Nat) /\ Len(spool) <= Len(spool')
              /\ \A h \in 1..Len(spool) : spool'[h] = spool[h]
          BY <2>4, <2>5, <2>7
        <4>2. /\ stack' \in Seq(Nat) /\ Len(stack') = Len(stack) + 1
              /\ \A i \in 1..Len(stack) : stack'[i] = stack[i]
              /\ stack'[Len(stack) + 1] = current_container
          BY <2>4, <2>6, <2>7
        <4>3. /\ Len(stack) \in Nat /\ Len(spool) + 1 \in Nat
              /\ Len(spool) < Len(spool) + 1
          BY <2>4
        <4> QED BY <2>4, <4>1, <4>2, <4>3, <3>5, <3>6, NestedPush
      <3>8. expect_after_value' = ExpectIn(spool', current_container')
        <4>1. Cell(spool', current_container' - TypeByteSize) = type
          BY <2>4, <2>5, <2>7, <3>1 DEF Cell, TypeByteSize
        <4> QED BY <2>1, <2>4, <3>1, <4>1 DEF ExpectIn
      <3>9. ContainersNested'
        BY <2>1, <2>3, <3>1, <3>4, <3>7, <3>8 DEF ContainersNested
      <3> QED BY <3>2, <3>9 DEF IInv
    <2>8. CASE UNCHANGED buffers /\ Fail("system")
      BY <2>1, <2>3, <2>4, <2>8, FailKeepsInv DEF Fail, Errors, buffers
    <2>9. CASE /\ spool' = Append(spool, type)
               /\ UNCHANGED <<stack, current_container>>
               /\ Fail("system")
      BY <2>1, <2>3, <2>4, <2>5, <2>9, FailKeepsInv DEF Fail, Errors
    <2>10. CASE /\ spool' = Append(spool, type)
                /\ stack' = Append(stack, current_container)
                /\ current_container' = Len(spool) + TypeByteSize
                /\ Fail("system")
      <3>1. current_container' \in Nat
        BY <2>4, <2>10 DEF TypeByteSize
      <3> QED BY <2>1, <2>3, <2>5, <2>6, <2>10, <3>1, FailKeepsInv DEF Fail, Errors
    <2> QED BY <1>2, <2>7, <2>8, <2>9, <2>10 DEF BeginContainer
  <1> QED BY <1>1, <1>2

LEMMA EndContainerKeepsInv ==
    ASSUME IInv, ~failed, NEW OutputSize(_, _, _), EndContainer(OutputSize),
           expect \in {"key", "value"}, expect_after_value # "none"
    PROVE  IInv'
  <1> DEFINE c      == current_container
             n      == Len(stack)
             size   == SizeT(Len(spool) - c - SizeOfSize)
             output == SizeT(OutputSize(spool, c + HeaderSize, Len(spool)))
  <1>1. /\ spool \in Seq(Nat) /\ stack \in Seq(Nat) /\ c \in Nat /\ c > 0
        /\ Nested(spool, stack, n, c) /\ n \in Nat
        /\ c + 2 <= Len(spool)
    <2>1. Saved = Len(stack)
      BY DEF Saved
    <2> QED BY <2>1, ChainFacts
  <1>2. size \in Nat /\ output \in Nat
    BY SizeTInNat
  <1>3. /\ spool' = [spool EXCEPT ![c + 1] = size, ![c + 2] = output]
        /\ stack' = Front(stack)
        /\ current_container' = stack[n]
        /\ expect' = ExpectIn(spool, stack[n])
        /\ expect_after_value' = ExpectIn(spool, stack[n])
        /\ failed' = FALSE /\ ret' = OK
    BY DEF EndContainer, Succeed, IInv, TypeOK
  <1> HIDE DEF c, n, size, output
  <1>4. /\ spool' \in Seq(Nat) /\ Len(spool') = Len(spool)
        /\ \A h \in Nat : 0 < h /\ h <= c => spool'[h] = spool[h]
    <2>1. PICK half : half = [spool EXCEPT ![c + 1] = size]
      OBVIOUS
    <2>2. spool' = [half EXCEPT ![c + 2] = output]
      BY <1>3, <2>1
    <2>3. /\ half \in Seq(Nat) /\ Len(half) = Len(spool)
          /\ \A h \in 1..Len(spool) : h # c + 1 => half[h] = spool[h]
      BY <1>1, <1>2, <2>1
    <2>4. /\ spool' \in Seq(Nat) /\ Len(spool') = Len(half)
          /\ \A h \in 1..Len(half) : h # c + 2 => spool'[h] = half[h]
      BY <1>1, <1>2, <2>2, <2>3
    <2>5. ASSUME NEW h \in Nat, 0 < h, h <= c PROVE spool'[h] = spool[h]
      <3>1. h \in 1..Len(spool) /\ h # c + 1 /\ h # c + 2
        BY <1>1, <2>5
      <3> QED BY <2>3, <2>4, <3>1
    <2> QED BY <2>3, <2>4, <2>5
  <1>5. /\ n > 0 /\ stack[n] \in Nat /\ stack[n] < c
        /\ Nested(spool, stack, n - 1, stack[n])
    <2>1. n = Len(stack)
      BY DEF n
    <2> QED BY <1>1, <2>1, NestedPop
  <1>6. /\ stack' \in Seq(Nat) /\ Len(stack') = n - 1
        /\ \A i \in 1..(n - 1) : stack'[i] = stack[i]
    <2>1. n = Len(stack)
      BY DEF n
    <2>2. stack # <<>>
      BY <1>5, <2>1
    <2> QED BY <1>1, <1>3, <2>1, <2>2, FrontFacts
  <1>7. ASSUME NEW h \in Nat, 0 < h, h <= stack[n] PROVE spool'[h] = spool[h]
    <2>1. h <= c
      BY <1>1, <1>5, <1>7
    <2> QED BY <1>4, <1>7, <2>1
  <1>8. Nested(spool', stack', n - 1, stack[n])
    <2>1. /\ n - 1 \in Nat /\ n - 1 <= Len(stack')
          /\ Len(spool) <= Len(spool')
      BY <1>1, <1>4, <1>5, <1>6
    <2> QED BY <1>1, <1>4, <1>5, <1>6, <1>7, <2>1, NestedKept
  <1>9. ExpectIn(spool', stack[n]) = ExpectIn(spool, stack[n])
    <2>1. stack[n] > 0 => spool'[stack[n]] = spool[stack[n]]
      BY <1>5, <1>7
    <2> QED BY <1>5, <2>1, ExpectInKept
  <1>10. TypeOK'
    <2>1. expect' \in AfterValue /\ expect_after_value' \in AfterValue
      BY <1>3, ExpectInType
    <2> QED BY <1>3, <1>4, <1>5, <1>6, <2>1 DEF TypeOK, Expect
  <1>11. ContainersNested'
    <2>1. expect' \in {"none", "key", "value"} /\ expect' = expect_after_value'
      BY <1>3, ExpectInType DEF AfterValue
    <2>2. Saved' = n - 1
      BY <1>6, <2>1 DEF Saved
    <2>3. current_container' = 0 <=> expect' = "none"
      BY <1>3 DEF ExpectIn
    <2> QED BY <1>3, <1>8, <1>9, <2>1, <2>2, <2>3 DEF ContainersNested
  <1> QED BY <1>10, <1>11 DEF IInv

\* A call that is carried out and adds to the buffers.
LEMMA GrowKeepsInv ==
    ASSUME IInv, ~failed, expect # "none",
           NEW cells \in Seq(Nat), NEW pushed \in Seq(Nat),
           spool' = spool \o cells, stack' = stack \o pushed,
           UNCHANGED <<current_container, expect_after_value>>, Succeed,
           Saved' = Saved,
           expect' \in Expect,
           expect' = "none" => expect_after_value = "none",
           expect' \in {"key", "more_key"} => expect_after_value = "key",
           expect' = "value" => expect_after_value # "none",
           expect' \in {"more_key", "more_string", "more_bytes"} => PartInContainer',
           expect' = "more_decimal_string" => spool' # <<>>,
           expect' = "more_decimal_string" /\ current_container = 0
             => Len(spool') = SizeOfSize
    PROVE  IInv'
  <1>1. /\ spool' \in Seq(Nat) /\ stack' \in Seq(Nat)
        /\ Nested(spool', stack', Saved', current_container')
        /\ expect_after_value' = ExpectIn(spool', current_container')
    BY GrowKeepsChain
  <1>2. failed' = FALSE /\ ret' = OK
    BY DEF Succeed, IInv, TypeOK
  <1>3. TypeOK'
    BY <1>1, <1>2 DEF IInv, TypeOK
  <1>4. current_container > 0 <=> expect_after_value # "none"
    BY ChainFacts
  <1>5. current_container \in Nat
    BY DEF IInv, TypeOK
  <1>6. expect' = "none" => current_container' = 0 /\ expect_after_value' = "none"
    BY <1>4, <1>5
  <1>7. current_container' = 0 => expect' # "value"
    BY <1>4
  <1>8. ContainersNested'
    BY <1>1, <1>6, <1>7 DEF ContainersNested
  <1> QED BY <1>3, <1>8 DEF IInv

LEMMA PushScalarKeepsInv ==
    ASSUME IInv, NEW size \in Nat, NEW payload \in Seq(Nat), NEW pieces \in Nat,
           Accepts(CheckExpectValue), PushScalar(size, payload, pieces)
    PROVE  IInv'
  <1> DEFINE cells == <<SCALAR, size>> \o payload
  <1>1. cells \in Seq(Nat)
    BY DEF SCALAR
  <1>2. ~failed /\ expect = "value"
    BY DEF Accepts, CheckExpectValue, OK
  <1>3. /\ spool \in Seq(Nat) /\ stack \in Seq(Nat)
        /\ expect_after_value \in AfterValue
    BY DEF IInv, TypeOK
  <1> HIDE DEF cells
  <1>4. CASE /\ spool' = spool \o cells
             /\ expect' = expect_after_value
             /\ Succeed
             /\ UNCHANGED <<stack, current_container, expect_after_value>>
    <2>1. expect' \in {"none", "key", "value"} /\ expect' \in Expect
      BY <1>3, <1>4 DEF AfterValue, Expect
    <2>2. stack' = stack \o <<>> /\ <<>> \in Seq(Nat)
      BY <1>3, <1>4
    <2>3. Saved' = Saved
      BY <1>2, <1>4, <2>1 DEF Saved
    <2> QED BY <1>1, <1>2, <1>4, <2>1, <2>2, <2>3, GrowKeepsInv
  <1>5. CASE /\ PushFails(cells, 2 + pieces)
             /\ UNCHANGED <<stack, current_container, expects>>
    <2>1. 2 + pieces \in Nat /\ stack' \in Seq(Nat)
      BY <1>3, <1>5
    <2> QED BY <1>1, <1>5, <2>1, PushFailsKeepsInv
  <1> QED BY <1>4, <1>5 DEF PushScalar, cells

LEMMA AddKeyKeepsInv ==
    ASSUME IInv, NEW key \in Seq(Nat), AddKey(key)
    PROVE  IInv'
  <1> DEFINE cells == <<Len(key)>> \o key
  <1>1. cells \in Seq(Nat)
    OBVIOUS
  <1>2. spool \in Seq(Nat) /\ stack \in Seq(Nat)
    BY DEF IInv, TypeOK
  <1> HIDE DEF cells
  <1>3. CASE Refuse(CheckExpectKey)
    BY <1>3, RefuseKeepsInv, ChecksAreErrors
  <1>4. CASE Return("invalid_utf8")
    BY <1>4, ReturnKeepsInv DEF Return, Errors
  <1>5. CASE /\ Accepts(CheckExpectKey)
             /\ spool' = spool \o cells
             /\ expect' = "value"
             /\ Succeed
             /\ UNCHANGED <<stack, current_container, expect_after_value>>
    <2>1. ~failed /\ expect = "key"
      BY <1>5 DEF Accepts, CheckExpectKey, OK
    <2>2. expect_after_value = "key"
      BY <2>1 DEF IInv, ContainersNested
    <2>3. stack' = stack \o <<>> /\ <<>> \in Seq(Nat)
      BY <1>2, <1>5
    <2>4. Saved' = Saved
      BY <1>5, <2>1 DEF Saved
    <2>5. expect' \in Expect
      BY <1>5 DEF Expect, AfterValue
    <2> QED BY <1>1, <1>5, <2>1, <2>2, <2>3, <2>4, <2>5, GrowKeepsInv
  <1>6. CASE /\ PushFails(cells, 1) /\ UNCHANGED expect
             /\ UNCHANGED <<stack, current_container, expect_after_value>>
    <2>1. stack' \in Seq(Nat) /\ UNCHANGED <<current_container, expects>>
      BY <1>2, <1>6 DEF expects
    <2> QED BY <1>1, <1>6, <2>1, PushFailsKeepsInv
  <1> QED BY <1>3, <1>4, <1>5, <1>6 DEF AddKey, cells

LEMMA BeginKeyKeepsInv ==
    ASSUME IInv, BeginKey
    PROVE  IInv'
  <1>1. /\ spool \in Seq(Nat) /\ stack \in Seq(Nat) /\ Len(spool) \in Nat
        /\ current_container \in Nat /\ expect \in Expect
        /\ expect_after_value \in AfterValue
    BY DEF IInv, TypeOK
  <1>2. Append(stack, Len(spool)) \in Seq(Nat)
    BY <1>1
  <1>3. CASE Refuse(CheckExpectKey)
    BY <1>3, RefuseKeepsInv, ChecksAreErrors
  <1>4. CASE /\ Accepts(CheckExpectKey)
             /\ stack' = Append(stack, Len(spool))
             /\ spool' = Append(spool, 0)
             /\ expect' = "more_key"
             /\ Succeed
             /\ UNCHANGED <<current_container, expect_after_value>>
    <2>1. ~failed /\ expect = "key"
      BY <1>4 DEF Accepts, CheckExpectKey, OK
    <2>2. expect_after_value = "key"
      BY <2>1 DEF IInv, ContainersNested
    <2>3. spool' = spool \o <<0>> /\ stack' = stack \o <<Len(spool)>>
      BY <1>1, <1>4
    <2>4. /\ Len(spool') = Len(spool) + 1
          /\ Len(stack') = Len(stack) + 1 /\ stack' # <<>>
          /\ Last(stack') = Len(spool)
      BY <1>1, <1>4, AppendFacts
    <2>5. Saved' = Saved /\ expect' \in Expect
      BY <1>1, <1>4, <2>1, <2>4 DEF Saved, Expect
    <2>6. current_container > 0 => current_container + 2 <= Len(spool)
      BY <2>1, ChainFacts
    <2>7. PartInContainer'
      BY <1>1, <1>4, <2>4, <2>6
         DEF PartInContainer, HeaderSize, SizeOfSize, TypeByteSize
    <2>8. <<0>> \in Seq(Nat) /\ <<Len(spool)>> \in Seq(Nat)
      BY <1>1
    <2> QED BY <1>4, <2>1, <2>2, <2>3, <2>5, <2>7, <2>8, GrowKeepsInv
  <1>5. CASE /\ \/ UNCHANGED stack
                \/ stack' = Append(stack, Len(spool))
             /\ UNCHANGED <<spool, expect>>
             /\ Fail("system")
             /\ UNCHANGED <<current_container, expect_after_value>>
    BY <1>1, <1>2, <1>5, FailKeepsInv DEF Fail, Errors
  <1> QED BY <1>3, <1>4, <1>5 DEF BeginKey

LEMMA BeginScalarKeepsInv ==
    ASSUME IInv, NEW type \in Nat, NEW more \in {"more_string", "more_bytes"},
           BeginScalar(type, more)
    PROVE  IInv'
  <1> DEFINE cells == <<SCALAR, 0, type>>
             saved == Append(stack, Len(spool) + TypeByteSize)
  <1>1. /\ spool \in Seq(Nat) /\ stack \in Seq(Nat) /\ Len(spool) \in Nat
        /\ current_container \in Nat /\ expect \in Expect
        /\ expect_after_value \in AfterValue
    BY DEF IInv, TypeOK
  <1>2. cells \in Seq(Nat) /\ Len(cells) = 3
    BY DEF SCALAR
  <1>3. /\ saved \in Seq(Nat) /\ saved = stack \o <<Len(spool) + 1>>
        /\ Len(saved) = Len(stack) + 1 /\ saved # <<>>
        /\ Last(saved) = Len(spool) + 1
    BY <1>1, AppendFacts DEF TypeByteSize
  <1> HIDE DEF cells, saved
  <1>4. CASE Refuse(CheckExpectValue)
    BY <1>4, RefuseKeepsInv, ChecksAreErrors
  <1>5. CASE /\ Accepts(CheckExpectValue)
             /\ spool' = spool \o cells
             /\ stack' = saved
             /\ expect' = more
             /\ Succeed
             /\ UNCHANGED <<current_container, expect_after_value>>
    <2>1. ~failed /\ expect = "value"
      BY <1>5 DEF Accepts, CheckExpectValue, OK
    <2>2. Len(spool') = Len(spool) + 3
      <3>1. Len(spool \o cells) = Len(spool) + Len(cells)
        BY <1>1, <1>2, ConcatFacts
      <3> QED BY <1>2, <1>5, <3>1
    <2>3. Saved' = Saved
      BY <1>1, <1>3, <1>5, <2>1 DEF Saved
    <2>4. current_container > 0 => current_container + 2 <= Len(spool)
      BY <2>1, ChainFacts
    <2>5. PartInContainer'
      BY <1>1, <1>3, <1>5, <2>2, <2>4
         DEF PartInContainer, HeaderSize, SizeOfSize, TypeByteSize
    <2>6. expect' \in Expect
      BY <1>5 DEF Expect
    <2>7. <<Len(spool) + 1>> \in Seq(Nat)
      BY <1>1
    <2> QED BY <1>2, <1>3, <1>5, <2>1, <2>3, <2>5, <2>6, <2>7, GrowKeepsInv
  <1>6. CASE /\ PushFails(cells, 1)
             /\ UNCHANGED <<stack, expect>>
             /\ UNCHANGED <<current_container, expect_after_value>>
    BY <1>1, <1>2, <1>6, PushFailsKeepsInv DEF expects
  <1>7. CASE /\ \E n \in 1..2 : spool' = spool \o SubSeq(cells, 1, n)
             /\ stack' = saved
             /\ Fail("system")
             /\ UNCHANGED expect
             /\ UNCHANGED <<current_container, expect_after_value>>
    <2>1. PICK n \in 1..2 : spool' = spool \o SubSeq(cells, 1, n)
      BY <1>7
    <2>2. SubSeq(cells, 1, n) \in Seq(Nat)
      BY <1>2, StartFacts
    <2>3. spool' \in Seq(Nat)
      BY <1>1, <2>1, <2>2, ConcatFacts
    <2> QED BY <1>1, <1>3, <1>7, <2>3, FailKeepsInv DEF Fail, Errors
  <1> QED BY <1>4, <1>5, <1>6, <1>7 DEF BeginScalar, cells, saved

LEMMA AppendSpoolKeepsInv ==
    ASSUME IInv, NEW more \in {"more_key", "more_string", "more_bytes"},
           NEW text \in Seq(Nat), AppendSpool(more, text)
    PROVE  IInv'
  <1>1. CASE Refuse(CheckExpectMore(more))
    BY <1>1, RefuseKeepsInv, ChecksAreErrors
  <1>2. CASE Return("system")
    BY <1>2, ReturnKeepsInv DEF Return, Errors
  <1>3. CASE /\ Accepts(CheckExpectMore(more))
             /\ spool' = spool \o text
             /\ Succeed
             /\ UNCHANGED <<stack, current_container, expects>>
    <2>1. ~failed /\ expect = more
      BY <1>3 DEF Accepts, CheckExpectMore, OK
    <2>2. /\ spool \in Seq(Nat) /\ stack \in Seq(Nat) /\ expect \in Expect
          /\ expect' = expect /\ expect_after_value' = expect_after_value
      BY <1>3 DEF IInv, TypeOK, expects
    <2>3. PartInContainer /\ (expect = "more_key" => expect_after_value = "key")
      BY <2>1 DEF IInv, ContainersNested
    <2>4. Len(spool') \in Nat /\ Len(spool) <= Len(spool')
      BY <1>3, <2>2
    <2>5. Last(stack) \in Nat
      BY <2>2, <2>3, FrontFacts DEF PartInContainer
    <2>6. PartInContainer'
      BY <1>3, <2>2, <2>3, <2>4, <2>5 DEF PartInContainer, SizeOfSize, TypeByteSize
    <2>7. Saved' = Saved
      BY <1>3, <2>1, <2>2 DEF Saved
    <2>8. stack' = stack \o <<>> /\ <<>> \in Seq(Nat)
      BY <1>3, <2>2
    <2> QED BY <1>3, <2>1, <2>2, <2>3, <2>6, <2>7, <2>8, GrowKeepsInv
  <1> QED BY <1>1, <1>2, <1>3 DEF AppendSpool

LEMMA EndTextKeepsInv ==
    ASSUME IInv, NEW more \in {"more_key", "more_string", "more_bytes"},
           NEW skip, NEW checked,
           NEW next, next = IF more = "more_key" THEN "value" ELSE expect_after_value,
           EndText(more, skip, next, checked)
    PROVE  IInv'
  <1>1. CASE Refuse(CheckExpectMore(more))
    BY <1>1, RefuseKeepsInv, ChecksAreErrors
  <1> DEFINE size == SizeT(Len(spool) - stack[Len(stack)] - SizeOfSize)
  <1>2. CASE /\ Accepts(CheckExpectMore(more))
             /\ spool' = [spool EXCEPT ![stack[Len(stack)] + 1] = size]
             /\ stack' = Front(stack)
             /\ UNCHANGED <<current_container, expect_after_value>>
             /\ \/ expect' = next /\ Succeed
                \/ UNCHANGED expect /\ Fail("invalid_utf8")
    <2>1. ~failed /\ expect = more
      BY <1>2 DEF Accepts, CheckExpectMore, OK
    <2>2. /\ spool \in Seq(Nat) /\ stack \in Seq(Nat) /\ expect \in Expect
          /\ current_container \in Nat /\ expect_after_value \in AfterValue
      BY DEF IInv, TypeOK
    <2>3. PartInContainer /\ (expect = "more_key" => expect_after_value = "key")
      BY <2>1 DEF IInv, ContainersNested
    <2>4. /\ stack' \in Seq(Nat) /\ Len(stack') = Len(stack) - 1
          /\ \A i \in 1..(Len(stack) - 1) : stack'[i] = stack[i]
          /\ Last(stack) \in Nat /\ Last(stack) = stack[Len(stack)]
      BY <1>2, <2>2, <2>3, FrontFacts DEF PartInContainer
    <2>5. current_container > 0 => current_container + 2 <= Last(stack)
      BY <2>3 DEF PartInContainer, HeaderSize, SizeOfSize
    <2>6. size \in Nat
      BY SizeTInNat
    <2> HIDE DEF size
    <2>7. /\ spool' \in Seq(Nat) /\ Len(spool') = Len(spool)
          /\ \A h \in 1..Len(spool) : h # Last(stack) + 1 => spool'[h] = spool[h]
      <3>1. spool' = [spool EXCEPT ![Last(stack) + 1] = size]
        BY <1>2, <2>4
      <3>2. Last(stack) + 1 \in 1..Len(spool)
        <4>1. Last(stack) \in Nat /\ Len(spool) \in Nat
          BY <2>2, <2>4
        <4>2. Last(stack) + 1 <= Len(spool)
          BY <2>3, <4>1, SMT DEF PartInContainer, SizeOfSize, TypeByteSize
        <4> QED BY <4>1, <4>2
      <3> QED BY <2>2, <2>6, <3>1, <3>2, ExceptFacts
    <2>8. CASE UNCHANGED expect /\ Fail("invalid_utf8")
      BY <1>2, <2>2, <2>4, <2>7, <2>8, FailKeepsInv DEF Fail, Errors
    <2>9. CASE expect' = next /\ Succeed
      <3>1. expect' \in {"none", "key", "value"} /\ expect' \in Expect
        BY <2>2, <2>9 DEF AfterValue, Expect
      <3>2. failed' = FALSE /\ ret' = OK
        BY <2>1, <2>9 DEF Succeed, IInv, TypeOK
      <3>3. TypeOK'
        BY <1>2, <2>2, <2>4, <2>7, <3>1, <3>2 DEF TypeOK
      <3>4. Saved = Len(stack) - 1 /\ Saved' = Len(stack) - 1
        BY <2>1, <2>4, <3>1 DEF Saved
      <3>5. /\ Nested(spool, stack, Len(stack) - 1, current_container)
            /\ Len(stack) - 1 \in Nat
            /\ current_container > 0 => current_container + 2 <= Len(spool)
            /\ expect_after_value = ExpectIn(spool, current_container)
            /\ current_container > 0 <=> expect_after_value # "none"
        BY <2>1, <3>4, ChainFacts
      <3>6. ASSUME NEW h \in Nat, 0 < h, h <= current_container
            PROVE  spool'[h] = spool[h]
        <4>0. current_container \in Nat /\ Len(spool) \in Nat
          BY <2>2, <2>7
        <4>1. h \in 1..Len(spool) /\ h # Last(stack) + 1
          <5>1. h <= Len(spool) /\ h <= Last(stack)
            BY <2>4, <2>5, <3>5, <3>6, <4>0
          <5> QED BY <2>4, <3>6, <5>1, <4>0
        <4> QED BY <2>7, <4>1
      <3>7. Nested(spool', stack', Len(stack) - 1, current_container)
        <4>1. Len(spool) <= Len(spool') /\ Len(stack) - 1 <= Len(stack')
          BY <2>2, <2>4, <2>7
        <4>2. PICK n \in Nat : n = Len(stack) - 1
          BY <3>5
        <4>3. \A i \in 1..n : stack'[i] = stack[i]
          BY <2>4, <4>2
        <4>4. /\ Nested(spool, stack, n, current_container)
              /\ n <= Len(stack')
          BY <3>5, <4>1, <4>2
        <4>5. Nested(spool', stack', n, current_container)
          BY <2>2, <2>4, <2>7, <3>6, <4>1, <4>3, <4>4, NestedKept
        <4> QED BY <4>2, <4>5
      <3>8. ExpectIn(spool', current_container) = ExpectIn(spool, current_container)
        BY <2>2, <3>6, ExpectInKept
      <3>9. /\ expect' = "none" => current_container = 0
            /\ expect' = "key" => expect_after_value = "key"
            /\ current_container = 0 => expect' # "value"
        BY <2>1, <2>2, <2>3, <2>9, <3>5
      <3>10. ContainersNested'
        BY <1>2, <3>1, <3>4, <3>5, <3>7, <3>8, <3>9 DEF ContainersNested
      <3> QED BY <3>3, <3>10 DEF IInv
    <2> QED BY <1>2, <2>8, <2>9
  <1> QED BY <1>1, <1>2 DEF EndText

LEMMA BeginDecimalKeepsInv ==
    ASSUME IInv, BeginDecimalFromString
    PROVE  IInv'
  <1>1. /\ spool \in Seq(Nat) /\ stack \in Seq(Nat) /\ Len(stack) \in Nat
        /\ current_container \in Nat /\ expect \in Expect
        /\ expect_after_value \in AfterValue
    BY DEF IInv, TypeOK
  <1>2. CASE Refuse(CheckExpectValue)
    BY <1>2, RefuseKeepsInv, ChecksAreErrors
  <1>3. CASE /\ Accepts(CheckExpectValue)
             /\ spool' = Append(spool, Len(stack))
             /\ expect' = "more_decimal_string"
             /\ Succeed
             /\ UNCHANGED <<stack, current_container, expect_after_value>>
    <2>1. ~failed /\ expect = "value"
      BY <1>3 DEF Accepts, CheckExpectValue, OK
    <2>2. /\ spool' # <<>> /\ Len(spool') = Len(spool) + 1
          /\ Last(spool') = Len(stack)
      BY <1>1, <1>3, AppendFacts
    <2>3. current_container = 0 => Len(spool') = SizeOfSize
      <3>1. current_container = 0 => spool = <<>>
        BY <2>1 DEF IInv, ContainersNested
      <3> QED BY <2>2, <3>1 DEF SizeOfSize
    <2>4. spool' = spool \o <<Len(stack)>> /\ stack' = stack \o <<>>
      BY <1>1, <1>3
    <2>5. Saved' = Saved
      BY <1>3, <2>1, <2>2 DEF Saved
    <2>6. <<Len(stack)>> \in Seq(Nat) /\ <<>> \in Seq(Nat) /\ expect' \in Expect
      BY <1>1, <1>3 DEF Expect
    <2> QED BY <1>3, <2>1, <2>2, <2>3, <2>4, <2>5, <2>6, GrowKeepsInv
  <1>4. CASE /\ Fail("system") /\ UNCHANGED <<spool, expect>>
             /\ UNCHANGED <<stack, current_container, expect_after_value>>
    BY <1>1, <1>4, FailKeepsInv DEF Fail, Errors
  <1> QED BY <1>2, <1>3, <1>4 DEF BeginDecimalFromString

LEMMA AppendDecimalKeepsInv ==
    ASSUME IInv, NEW text \in Seq(Nat), AppendDecimalFromString(text)
    PROVE  IInv'
  <1> DEFINE check == CheckExpectMore("more_decimal_string")
  <1>1. CASE Refuse(check)
    BY <1>1, RefuseKeepsInv, ChecksAreErrors
  <1>2. CASE Return("system")
    BY <1>2, ReturnKeepsInv DEF Return, Errors
  <1>3. CASE /\ Accepts(check)
             /\ stack' = stack \o text
             /\ Succeed
             /\ UNCHANGED <<spool, current_container, expects>>
    <2>1. ~failed /\ expect = "more_decimal_string"
      BY <1>3 DEF Accepts, CheckExpectMore, OK
    <2>2. /\ spool \in Seq(Nat) /\ expect \in Expect
          /\ expect' = expect /\ expect_after_value' = expect_after_value
      BY <1>3 DEF IInv, TypeOK, expects
    <2>3. /\ spool # <<>>
          /\ current_container = 0 => Len(spool) = SizeOfSize
      BY <2>1 DEF IInv, ContainersNested
    <2>4. spool' = spool \o <<>> /\ <<>> \in Seq(Nat)
      BY <1>3, <2>2
    <2>5. Saved' = Saved
      BY <1>3, <2>1, <2>2 DEF Saved
    <2> QED BY <1>3, <2>1, <2>2, <2>3, <2>4, <2>5, GrowKeepsInv
  <1> QED BY <1>1, <1>2, <1>3 DEF AppendDecimalFromString

LEMMA EndDecimalKeepsInv ==
    ASSUME IInv, EndDecimalFromString
    PROVE  IInv'
  <1> DEFINE check == CheckExpectMore("more_decimal_string")
  <1>1. CASE Refuse(check)
    BY <1>1, RefuseKeepsInv, ChecksAreErrors
  <1>2. CASE /\ Accepts(check)
             /\ spool' = Front(spool)
             /\ Fail(CheckExpectValue)
             /\ UNCHANGED <<stack, current_container, expects>>
    <2>1. ~failed /\ expect = "more_decimal_string"
      BY <1>2 DEF Accepts, CheckExpectMore, OK
    <2>2. spool \in Seq(Nat) /\ spool # <<>>
      BY <2>1 DEF IInv, TypeOK, ContainersNested
    <2>3. spool' \in Seq(Nat)
      BY <1>2, <2>2, FrontFacts
    <2>4. failed' = TRUE /\ ret' \in Errors \union {OK}
      BY <1>2, ChecksAreErrors DEF Fail
    <2> QED BY <1>2, <2>3, <2>4, FailKeepsInv DEF IInv, TypeOK, expects
  <1> QED BY <1>1, <1>2 DEF EndDecimalFromString

\* write accepts a writer whose buffers have the right sizes; only when
\* nothing more is expected do they have them.
LEMMA WriteAcceptsComplete ==
    ASSUME IInv, Accepts(CheckWrite)
    PROVE  ~failed /\ expect = "none"
  <1>1. /\ ~failed /\ stack = <<>> /\ spool # <<>>
        /\ RootSpoolSize = Len(spool)
    BY DEF Accepts, CheckWrite, OK
  <1>2. ASSUME expect # "none" PROVE FALSE
    <2>1. current_container = 0 /\ expect_after_value = "none"
      <3>1. Saved = 0
        <4>1. Len(stack) = 0
          BY <1>1
        <4> QED BY <1>1, <1>2, <4>1, ChainFacts
      <3> QED BY <1>1, <1>2, <3>1, ChainFacts
    <2>2. expect \notin {"key", "more_key", "more_string", "more_bytes"}
      BY <1>1, <2>1 DEF IInv, ContainersNested, PartInContainer
    <2>3. expect # "value"
      BY <1>1, <2>1 DEF IInv, ContainersNested
    <2>4. expect # "more_decimal_string"
      <3>1. Len(spool) = 1 => RootSpoolSize = 2
        BY DEF RootSpoolSize, TypeByteSize, SizeOfSize
      <3>2. Len(spool) # 1
        BY <1>1, <3>1
      <3> QED BY <1>1, <2>1, <3>2 DEF IInv, ContainersNested, SizeOfSize
    <2> QED BY <1>2, <2>2, <2>3, <2>4 DEF IInv, TypeOK, Expect, AfterValue
  <1> QED BY <1>1, <1>2

LEMMA WriteKeepsInv ==
    ASSUME IInv, Write
    PROVE  IInv'
  <1>1. CASE Refuse(CheckWrite)
    BY <1>1, RefuseKeepsInv, ChecksAreErrors
  <1>2. CASE ret' = OK /\ UNCHANGED <<buffers, expects, failed>>
    BY <1>2, ReturnKeepsInv
  <1>3. CASE /\ Accepts(CheckWrite)
             /\ \E left \in Leftover(spool, 0) : stack' = stack \o left
             /\ ret' \in {"output", "system"}
             /\ UNCHANGED <<spool, current_container, expects, failed, out>>
    <2>1. ~failed /\ expect = "none"
      BY <1>3, WriteAcceptsComplete
    <2>2. PICK left \in Leftover(spool, 0) : stack' = stack \o left
      BY <1>3
    <2>3. left \in Seq(Nat)
      <3>1. left \in Seq(0..Len(spool))
        BY <2>2 DEF Leftover
      <3> QED BY <3>1
    <2>4. TypeOK'
      BY <1>3, <2>2, <2>3 DEF IInv, TypeOK, expects, Errors
    <2>5. ContainersNested'
      BY <1>3, <2>1 DEF IInv, ContainersNested, expects
    <2> QED BY <2>4, <2>5 DEF IInv
  <1> QED BY <1>1, <1>2, <1>3 DEF Write

-----------------------------------------------------------------------------
(***************************************************************************)
(* The theorems                                                            *)
(***************************************************************************)

LEMMA InitInv == Init => IInv
  <1> SUFFICES ASSUME Init PROVE IInv
    OBVIOUS
  <1>1. TypeOK
    <2>1. spool \in Seq(Nat) /\ stack \in Seq(Nat) /\ current_container \in Nat
      BY DEF Init
    <2>2. expect \in Expect /\ expect_after_value \in AfterValue
      BY DEF Init, Expect, AfterValue
    <2>3. failed \in BOOLEAN /\ ret \in Errors \union {OK}
      BY DEF Init
    <2> QED BY <2>1, <2>2, <2>3 DEF TypeOK
  <1>2. Nested(spool, stack, Saved, current_container)
    BY DEF Init, Saved, Nested
  <1>3. ContainersNested
    BY <1>2 DEF Init, ContainersNested, ExpectIn
  <1> QED BY <1>1, <1>3 DEF IInv

LEMMA NextInv == IInv /\ [Next]_vars => IInv'
  <1> SUFFICES ASSUME IInv, [Next]_vars PROVE IInv'
    OBVIOUS
  <1>1. CASE BeginArray \/ BeginObject
    BY <1>1, BeginContainerKeepsInv DEF BeginArray, BeginObject, OBJECT, ARRAY
  <1>2. CASE EndArray
    <2>1. CASE Refuse(CheckEndArray)
      BY <2>1, RefuseKeepsInv, ChecksAreErrors
    <2>2. CASE Accepts(CheckEndArray) /\ EndContainer(ArrayOutputSize)
      BY <2>2, EndContainerKeepsInv DEF Accepts, CheckEndArray, OK
    <2> QED BY <1>2, <2>1, <2>2 DEF EndArray
  <1>3. CASE EndObject
    <2>1. CASE Refuse(CheckEndObject)
      BY <2>1, RefuseKeepsInv, ChecksAreErrors
    <2>2. CASE Accepts(CheckEndObject) /\ EndContainer(ObjectOutputSize)
      BY <2>2, EndContainerKeepsInv
         DEF Accepts, CheckEndObject, OK, IInv, ContainersNested
    <2> QED BY <1>3, <2>1, <2>2 DEF EndObject
  <1>4. ASSUME NEW type \in Constants, AddConstant(type) PROVE IInv'
    <2>1. CASE Refuse(CheckExpectValue)
      BY <2>1, RefuseKeepsInv, ChecksAreErrors
    <2>2. CASE Accepts(CheckExpectValue) /\ PushScalar(1, <<type>>, 1)
      <3>1. <<type>> \in Seq(Nat)
        BY WriterAssumption
      <3> QED BY <2>2, <3>1, PushScalarKeepsInv
    <2> QED BY <1>4, <2>1, <2>2 DEF AddConstant
  <1>5. ASSUME NEW text \in Texts, AddString(text) PROVE IInv'
    <2>1. CASE Refuse(CheckExpectValue)
      BY <2>1, RefuseKeepsInv, ChecksAreErrors
    <2>2. CASE Return("invalid_utf8")
      BY <2>2, ReturnKeepsInv DEF Return, Errors
    <2>3. CASE /\ Accepts(CheckExpectValue)
               /\ PushScalar(1 + Len(text), <<TYPE_STRING>> \o text, 1)
      <3>1. text \in Seq(Nat) /\ <<TYPE_STRING>> \in Seq(Nat)
        BY WriterAssumption DEF TYPE_STRING
      <3>2. <<TYPE_STRING>> \o text \in Seq(Nat) /\ 1 + Len(text) \in Nat
        BY <3>1, ConcatFacts
      <3> QED BY <2>3, <3>2, PushScalarKeepsInv
    <2> QED BY <1>5, <2>1, <2>2, <2>3 DEF AddString
  <1>6. ASSUME NEW text \in Texts, AddBytes(text) PROVE IInv'
    <2>1. CASE Refuse(CheckExpectValue)
      BY <2>1, RefuseKeepsInv, ChecksAreErrors
    <2>2. CASE /\ Accepts(CheckExpectValue)
               /\ PushScalar(1 + Len(text), <<TYPE_BYTES>> \o text, 1)
      <3>1. text \in Seq(Nat) /\ <<TYPE_BYTES>> \in Seq(Nat)
        BY WriterAssumption DEF TYPE_BYTES
      <3>2. <<TYPE_BYTES>> \o text \in Seq(Nat) /\ 1 + Len(text) \in Nat
        BY <3>1, ConcatFacts
      <3> QED BY <2>2, <3>2, PushScalarKeepsInv
    <2> QED BY <1>6, <2>1, <2>2 DEF AddBytes
  <1>7. CASE AddDecimalFromString
    <2>1. CASE Refuse(CheckExpectValue)
      BY <2>1, RefuseKeepsInv, ChecksAreErrors
    <2>2. CASE Return("parameter_is_zero")
      BY <2>2, ReturnKeepsInv DEF Return, Errors
    <2>3. CASE Fail("invalid_decimal_syntax") /\ UNCHANGED <<buffers, expects>>
      BY <2>3, FailKeepsInv DEF Fail, Errors, buffers, expects, IInv, TypeOK
    <2>4. ASSUME Accepts(CheckExpectValue), NEW decimal \in Decimals,
                 PushScalar(decimal.size, decimal.payload, Len(decimal.payload))
          PROVE  IInv'
      <3>1. decimal.size \in Nat /\ decimal.payload \in Seq(Nat)
        BY WriterAssumption, SizeMaxAssumption
      <3>2. Len(decimal.payload) \in Nat
        BY <3>1
      <3> QED BY <2>4, <3>1, <3>2, PushScalarKeepsInv
    <2> QED BY <1>7, <2>1, <2>2, <2>3, <2>4 DEF AddDecimalFromString
  <1>8. ASSUME NEW text \in Texts, AddKey(text) PROVE IInv'
    <2>1. text \in Seq(Nat)
      BY WriterAssumption
    <2> QED BY <1>8, <2>1, AddKeyKeepsInv
  <1>9. CASE BeginKey
    BY <1>9, BeginKeyKeepsInv
  <1>10. CASE BeginString \/ BeginBytes
    BY <1>10, BeginScalarKeepsInv DEF BeginString, BeginBytes, TYPE_STRING, TYPE_BYTES
  <1>11. CASE EndKey
    BY <1>11, EndTextKeepsInv DEF EndKey
  <1>12. CASE EndString \/ EndBytes
    BY <1>12, EndTextKeepsInv DEF EndString, EndBytes
  <1>13. ASSUME NEW text \in Texts,
                AppendKey(text) \/ AppendString(text) \/ AppendBytes(text)
         PROVE  IInv'
    <2>1. text \in Seq(Nat)
      BY WriterAssumption
    <2> QED BY <1>13, <2>1, AppendSpoolKeepsInv DEF AppendKey, AppendString, AppendBytes
  <1>14. CASE BeginDecimalFromString
    BY <1>14, BeginDecimalKeepsInv
  <1>15. ASSUME NEW text \in Texts, AppendDecimalFromString(text) PROVE IInv'
    <2>1. text \in Seq(Nat)
      BY WriterAssumption
    <2> QED BY <1>15, <2>1, AppendDecimalKeepsInv
  <1>16. CASE EndDecimalFromString
    BY <1>16, EndDecimalKeepsInv
  <1>17. CASE Write
    BY <1>17, WriteKeepsInv
  <1>18. CASE UNCHANGED vars
    BY <1>18, ReturnKeepsInv DEF vars, buffers, expects, IInv, TypeOK
  <1> QED BY <1>1, <1>2, <1>3, <1>4, <1>5, <1>6, <1>7, <1>8, <1>9, <1>10, <1>11,
             <1>12, <1>13, <1>14, <1>15, <1>16, <1>17, <1>18 DEF Next

\* Every state the writer can reach satisfies the inductive invariant.
THEOREM Invariance == Spec => []IInv
  BY InitInv, NextInv, PTL DEF Spec

\* The buffers hold offsets and bytes, the two expectation fields never leave
\* their ranges, and every call answers with a known result (lib/writer.h).
THEOREM TypeCorrect == Spec => []TypeOK
  <1>1. IInv => TypeOK
    BY DEF IInv
  <1> QED BY Invariance, <1>1, PTL

\* The offsets that the containers save on the stack are a chain of headers
\* on the spool, whatever calls are made in whatever order and whichever of
\* their pushes fail (lib/writer/array.c, object.c, container.c).
THEOREM ChainOfContainers == Spec => []ContainersNested
  <1>1. IInv => ContainersNested
    BY DEF IInv
  <1> QED BY Invariance, <1>1, PTL

\* The assertions of lib/writer/buffer.h and container.c hold whenever a call
\* reaches them: no end call reads or fills in what is not there.
THEOREM NoAssertionFails == Spec => []AssertionsHold
  <1>1. ASSUME IInv PROVE AssertionsHold
    <2>1. ASSUME ~failed, CheckEndArray = OK \/ CheckEndObject = OK
          PROVE  /\ stack # <<>>
                 /\ HeaderIn(spool, current_container)
                 /\ Last(stack) = 0 \/ HeaderIn(spool, Last(stack))
                 /\ Last(stack) < current_container
      <3>1. expect \in {"key", "value"} /\ expect_after_value # "none"
        BY <1>1, <2>1 DEF CheckEndArray, CheckEndObject, OK, IInv, ContainersNested
      <3>2. Saved = Len(stack)
        BY <3>1 DEF Saved
      <3>3. /\ stack \in Seq(Nat) /\ spool \in Seq(Nat) /\ current_container \in Nat
            /\ Nested(spool, stack, Len(stack), current_container)
            /\ current_container > 0 /\ Len(stack) \in Nat
        BY <1>1, <2>1, <3>1, <3>2, ChainFacts
      <3>4. /\ Len(stack) > 0
            /\ stack[Len(stack)] \in Nat /\ stack[Len(stack)] < current_container
            /\ stack[Len(stack)] > 0 => HeaderIn(spool, stack[Len(stack)])
        BY <3>3, NestedPop
      <3>5. HeaderIn(spool, current_container)
        BY <3>3 DEF Nested
      <3> QED BY <3>3, <3>4, <3>5 DEF Last
    <2>2. ASSUME ~failed, expect \in {"more_key", "more_string", "more_bytes"}
          PROVE  /\ stack # <<>>
                 /\ Last(stack) + SizeOfSize
                      + (IF expect = "more_key" THEN 0 ELSE TypeByteSize) <= Len(spool)
      BY <1>1, <2>2 DEF IInv, ContainersNested, PartInContainer
    <2>3. ASSUME ~failed, expect = "more_decimal_string"
          PROVE  spool # <<>> /\ Last(spool) <= Len(stack)
      <3>1. Saved = Last(spool)
        BY <2>3 DEF Saved
      <3>2. Saved <= Len(stack)
        BY <1>1, <2>3, ChainFacts
      <3> QED BY <1>1, <2>3, <3>1, <3>2 DEF IInv, ContainersNested
    <2> QED BY <2>1, <2>2, <2>3 DEF AssertionsHold
  <1> QED BY Invariance, <1>1, PTL

\* write compares sizes and never looks at what is expected; nevertheless it
\* accepts nothing but a complete document (lib/writer.c).
THEOREM OnlyCompleteWritten == Spec => []WritesCompleteOnly
  <1>1. ASSUME IInv PROVE WritesCompleteOnly
    <2>1. ASSUME Accepts(CheckWrite) PROVE ~failed /\ expect = "none"
      BY <1>1, <2>1, WriteAcceptsComplete
    <2> QED BY <2>1 DEF WritesCompleteOnly, D!Complete, Root
  <1> QED BY Invariance, <1>1, PTL
=============================================================================
