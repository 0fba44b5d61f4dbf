----------------------------- MODULE SpoolProofs -----------------------------
(***************************************************************************)
(* Lemmas about the spool: the items between two offsets, and the size of  *)
(* what write sends for the values on it.                                  *)
(***************************************************************************)
EXTENDS Spool, NumberLemmas, SequenceTheorems

-----------------------------------------------------------------------------
(***************************************************************************)
(* Items                                                                   *)
(***************************************************************************)

\* The numbers of the layout.
LEMMA Layout ==
    /\ TypeByteSize = 1 /\ SizeOfSize = 1 /\ HeaderSize = 2
    /\ SCALAR = 0 /\ OBJECT = 1 /\ ARRAY = 2
  BY DEF TypeByteSize, SizeOfSize, HeaderSize, SCALAR, OBJECT, ARRAY

\* Two spools have the same cells from lo as far as hi, and both reach so far.
Agree(s, s2, lo, hi) ==
    /\ hi <= Len(s) /\ hi <= Len(s2)
    /\ \A o \in Nat : lo <= o /\ o < hi => Cell(s2, o) = Cell(s, o)

LEMMA AgreeWithin ==
    ASSUME NEW s \in Seq(Nat), NEW s2 \in Seq(Nat),
           NEW lo \in Nat, NEW hi \in Nat, Agree(s, s2, lo, hi),
           NEW lo2 \in Nat, NEW hi2 \in Nat, lo <= lo2, hi2 <= hi
    PROVE  Agree(s, s2, lo2, hi2)
  BY DEF Agree

LEMMA CellType ==
    ASSUME NEW s \in Seq(Nat), NEW o \in Nat, o < Len(s)
    PROVE  Cell(s, o) \in Nat
  BY DEF Cell

LEMMA ItemFacts ==
    ASSUME NEW s \in Seq(Nat), NEW type, NEW o \in Nat, NEW hi \in 0..Len(s),
           IsItem(s, type, o, hi)
    PROVE  /\ ValueIn(s, type, o) \in Nat /\ ItemEnd(s, type, o) \in Nat
           /\ o < hi /\ o <= ValueIn(s, type, o)
           /\ type = OBJECT => o < ValueIn(s, type, o)
           /\ ValueIn(s, type, o) + 2 <= ItemEnd(s, type, o)
           /\ ItemEnd(s, type, o) <= hi /\ o < ItemEnd(s, type, o)
  <1>1. o < hi /\ hi <= Len(s) /\ Len(s) \in Nat
    BY DEF IsItem
  <1>2. Cell(s, o) \in Nat
    BY <1>1, CellType
  <1>3. ValueOf(s, o) \in Nat /\ o < ValueOf(s, o)
    BY <1>2 DEF ValueOf, KeySize, SizeOfSize
  <1>4. /\ ValueIn(s, type, o) \in Nat /\ o <= ValueIn(s, type, o)
        /\ type = OBJECT => o < ValueIn(s, type, o)
    BY <1>3 DEF ValueIn
  <1> DEFINE v == ValueIn(s, type, o)
  <1>5. v + 2 <= hi /\ ItemEnd(s, type, o) <= hi
    BY <1>4 DEF IsItem, TypeByteSize, SizeOfSize
  <1>6. ItemEnd(s, type, o) = v + 2 + Cell(s, v + 1)
    BY <1>4 DEF ItemEnd, EndOfValue, TypeByteSize, SizeOfSize
  <1> HIDE DEF v
  <1>7. Cell(s, v + 1) \in Nat
    <2>1. v \in Nat
      BY <1>4 DEF v
    <2>2. v + 1 \in Nat /\ v + 1 < Len(s)
      BY <1>1, <1>5, <2>1
    <2> QED BY <2>2, CellType
  <1>8. ItemEnd(s, type, o) \in Nat /\ v + 2 <= ItemEnd(s, type, o) /\ v \in Nat
    BY <1>4, <1>6, <1>7 DEF v
  <1>9. o < ItemEnd(s, type, o)
    BY <1>4, <1>8 DEF v
  <1> QED BY <1>1, <1>4, <1>5, <1>8, <1>9 DEF v

\* An element before a sequence.
LEMMA ConsFacts ==
    ASSUME NEW x \in Nat, NEW r \in Seq(Nat)
    PROVE  /\ <<x>> \o r \in Seq(Nat) /\ <<x>> \o r # <<>>
           /\ Len(<<x>> \o r) = Len(r) + 1
           /\ (<<x>> \o r)[1] = x
           /\ \A i \in 1..Len(r) : (<<x>> \o r)[i + 1] = r[i]
           /\ Last(<<x>> \o r) = IF r = <<>> THEN x ELSE Last(r)
  <1>1. /\ <<x>> \o r \in Seq(Nat) /\ <<x>> \o r # <<>>
        /\ Len(<<x>> \o r) = Len(r) + 1
        /\ (<<x>> \o r)[1] = x
        /\ \A i \in 1..Len(r) : (<<x>> \o r)[i + 1] = r[i]
    OBVIOUS
  <1>2. Last(<<x>> \o r) = (<<x>> \o r)[Len(r) + 1]
    BY <1>1 DEF Last
  <1>3. CASE r = <<>>
    <2>1. Len(r) + 1 = 1
      BY <1>3
    <2> QED BY <1>1, <1>2, <1>3, <2>1, Zenon
  <1>4. CASE r # <<>>
    <2>1. Len(r) \in 1..Len(r)
      BY <1>4
    <2> QED BY <1>1, <1>2, <1>4, <2>1 DEF Last
  <1> QED BY <1>1, <1>3, <1>4

-----------------------------------------------------------------------------
(***************************************************************************)
(* The walk over the items exists: what it says of an offset depends only  *)
(* on what it says of those behind.                                        *)
(***************************************************************************)

Step(s, type, hi, walk, o) ==
    IF IsItem(s, type, o, hi) THEN <<o>> \o walk[ItemEnd(s, type, o)] ELSE <<>>

Walks(s, type, hi, walk, offsets) ==
    walk = [o \in offsets |-> Step(s, type, hi, walk, o)]

LEMMA WalkExists ==
    ASSUME NEW s \in Seq(Nat), NEW type, NEW hi \in 0..Len(s)
    PROVE  \E walk : Walks(s, type, hi, walk, 0..Len(s))
  <1> DEFINE N == Len(s)
             From(n) == {o \in 0..N : N <= o + n}
             S == {n \in Nat : \E w : Walks(s, type, hi, w, From(n))}
  <1>0. N \in Nat
    OBVIOUS
  <1>1. 0 \in S
    <2>1. ASSUME NEW o \in From(0) PROVE ~IsItem(s, type, o, hi)
      BY <1>0, <2>1 DEF IsItem
    <2> DEFINE w == [o \in From(0) |-> <<>>]
    <2>2. Walks(s, type, hi, w, From(0))
      BY <2>1 DEF Step, Walks
    <2> QED BY <2>2
  <1>2. ASSUME NEW n \in Nat, n \in S PROVE n + 1 \in S
    <2>1. PICK w : Walks(s, type, hi, w, From(n))
      BY <1>2
    <2> HIDE DEF N
    <2> DEFINE w2 == [o \in From(n + 1) |-> Step(s, type, hi, w, o)]
    <2>2. \A o \in From(n) : w2[o] = w[o]
      <3>1. TAKE o \in From(n)
      <3>2. o \in From(n + 1)
        BY <1>0
      <3>3. w[o] = Step(s, type, hi, w, o)
        BY <2>1, <3>1 DEF Walks
      <3>4. w2[o] = Step(s, type, hi, w, o)
        BY <3>2, Zenon
      <3> QED BY <3>3, <3>4, Zenon
    <2>3. ASSUME NEW o \in From(n + 1)
          PROVE  Step(s, type, hi, w, o) = Step(s, type, hi, w2, o)
      <3>1. CASE IsItem(s, type, o, hi)
        <4>1. /\ ItemEnd(s, type, o) \in Nat /\ ItemEnd(s, type, o) <= hi
              /\ o < ItemEnd(s, type, o)
          BY <3>1, ItemFacts
        <4>2. ItemEnd(s, type, o) \in From(n)
          BY <1>0, <4>1 DEF N
        <4> QED BY <2>2, <4>2 DEF Step
      <3>2. CASE ~IsItem(s, type, o, hi)
        BY <3>2 DEF Step
      <3> QED BY <3>1, <3>2
    <2>4. Walks(s, type, hi, w2, From(n + 1))
      BY <2>3, Zenon DEF Walks
    <2> HIDE DEF w2, From
    <2>5. n + 1 \in Nat /\ \E v : Walks(s, type, hi, v, From(n + 1))
      BY <2>4
    <2> QED BY <2>5, Zenon
  <1>3. N \in S
    <2> HIDE DEF S
    <2> QED BY <1>0, <1>1, <1>2, SetInduction
  <1>4. From(N) = 0..N
    BY <1>0
  <1> QED BY <1>3, <1>4

LEMMA ItemsStep ==
    ASSUME NEW s \in Seq(Nat), NEW type, NEW hi \in 0..Len(s), NEW lo \in 0..Len(s)
    PROVE  ItemsOf(s, type, lo, hi) =
             IF IsItem(s, type, lo, hi)
             THEN <<lo>> \o ItemsOf(s, type, ItemEnd(s, type, lo), hi) ELSE <<>>
  <1> DEFINE walk == CHOOSE w : Walks(s, type, hi, w, 0..Len(s))
  <1>1. Walks(s, type, hi, walk, 0..Len(s))
    BY WalkExists, Zenon
  <1>2. ASSUME NEW o \in 0..hi PROVE ItemsOf(s, type, o, hi) = walk[o]
    <2>1. o <= hi /\ hi <= Len(s)
      OBVIOUS
    <2> QED BY <2>1, Zenon DEF ItemsOf, Walks, Step
  <1> HIDE DEF walk
  <1>3. walk[lo] = IF IsItem(s, type, lo, hi)
                   THEN <<lo>> \o walk[ItemEnd(s, type, lo)] ELSE <<>>
    BY <1>1, Zenon DEF Walks, Step
  <1>4. CASE lo <= hi
    <2>1. lo \in 0..hi
      BY <1>4
    <2>2. IsItem(s, type, lo, hi) => ItemEnd(s, type, lo) \in 0..hi
      BY ItemFacts
    <2>3. IsItem(s, type, lo, hi) =>
            ItemsOf(s, type, ItemEnd(s, type, lo), hi) = walk[ItemEnd(s, type, lo)]
      BY <1>2, <2>2, Zenon
    <2> QED BY <1>2, <1>3, <2>1, <2>3, Zenon
  <1>5. CASE ~(lo <= hi)
    <2>1. ItemsOf(s, type, lo, hi) = <<>>
      BY <1>5, Zenon DEF ItemsOf
    <2>2. ~IsItem(s, type, lo, hi)
      BY <1>5 DEF IsItem
    <2> QED BY <2>1, <2>2, Zenon
  <1> QED BY <1>4, <1>5

-----------------------------------------------------------------------------
(***************************************************************************)
(* The items are those that fill the cells from lo to their end.           *)
(***************************************************************************)

LEMMA IsItemKept ==
    ASSUME NEW s \in Seq(Nat), NEW s2 \in Seq(Nat), NEW type, NEW o \in Nat,
           NEW hi \in 0..Len(s), IsItem(s, type, o, hi),
           Agree(s, s2, o, ItemEnd(s, type, o)),
           NEW hi2 \in 0..Len(s2), ItemEnd(s, type, o) <= hi2
    PROVE  /\ IsItem(s2, type, o, hi2)
           /\ ItemEnd(s2, type, o) = ItemEnd(s, type, o)
           /\ ValueIn(s2, type, o) = ValueIn(s, type, o)
  <1> DEFINE v == ValueIn(s, type, o)
             end == ItemEnd(s, type, o)
  <1>1. v \in Nat /\ end \in Nat /\ o <= v /\ v + 2 <= end /\ o < end /\ end <= hi2
    BY ItemFacts
  <1>2. end = v + 2 + Cell(s, v + 1)
    BY <1>1 DEF ItemEnd, EndOfValue, TypeByteSize, SizeOfSize
  <1> HIDE DEF end
  <1>3. \A p \in Nat : o <= p /\ p < end => Cell(s2, p) = Cell(s, p)
    BY DEF Agree, end
  <1>4. Cell(s2, o) = Cell(s, o) /\ Cell(s2, v + 1) = Cell(s, v + 1)
    <2>1. v + 1 \in Nat /\ o <= v + 1 /\ v + 1 < end
      BY <1>1
    <2> QED BY <1>1, <1>3, <2>1
  <1>5. ValueIn(s2, type, o) = v
    BY <1>4 DEF ValueIn, ValueOf, KeySize
  <1> HIDE DEF v
  <1>6. ItemEnd(s2, type, o) = end
    BY <1>1, <1>2, <1>4, <1>5 DEF ItemEnd, EndOfValue, TypeByteSize, SizeOfSize
  <1>7. IsItem(s2, type, o, hi2)
    BY <1>1, <1>5, <1>6 DEF IsItem, TypeByteSize, SizeOfSize
  <1> QED BY <1>5, <1>6, <1>7 DEF v, end

LEMMA EndOfItemsStep ==
    ASSUME NEW s \in Seq(Nat), NEW type, NEW lo \in Nat, NEW rest \in Seq(Nat)
    PROVE  EndOfItems(s, type, lo, <<lo>> \o rest) =
             EndOfItems(s, type, ItemEnd(s, type, lo), rest)
  <1>1. /\ <<lo>> \o rest # <<>>
        /\ Last(<<lo>> \o rest) = IF rest = <<>> THEN lo ELSE Last(rest)
    BY ConsFacts
  <1> QED BY <1>1, Zenon DEF EndOfItems

Tiled(s, type, lo, hi) ==
    LET items == ItemsOf(s, type, lo, hi)
        end   == EndOfItems(s, type, lo, items)
    IN  /\ items \in Seq(Nat) /\ end \in Nat /\ lo <= end /\ end <= hi
        /\ \A i \in 1..Len(items) : lo <= items[i] /\ IsItem(s, type, items[i], end)
        /\ ~IsItem(s, type, end, hi)

LEMMA ItemsTile ==
    ASSUME NEW s \in Seq(Nat), NEW type, NEW hi \in 0..Len(s), NEW lo \in 0..hi
    PROVE  Tiled(s, type, lo, hi)
  <1> DEFINE S == {n \in Nat : \A o \in 0..hi : hi <= o + n => Tiled(s, type, o, hi)}
  <1>1. ASSUME NEW o \in 0..hi, ~IsItem(s, type, o, hi) PROVE Tiled(s, type, o, hi)
    <2>1. ItemsOf(s, type, o, hi) = <<>>
      <3>1. o \in 0..Len(s)
        OBVIOUS
      <3> QED BY <1>1, <3>1, ItemsStep
    <2> QED BY <1>1, <2>1 DEF Tiled, EndOfItems
  <1>2. ASSUME NEW o \in 0..hi, IsItem(s, type, o, hi),
               Tiled(s, type, ItemEnd(s, type, o), hi)
        PROVE  Tiled(s, type, o, hi)
    <2> DEFINE mid   == ItemEnd(s, type, o)
               rest  == ItemsOf(s, type, mid, hi)
               end   == EndOfItems(s, type, mid, rest)
               items == ItemsOf(s, type, o, hi)
    <2>1. o \in Nat /\ o \in 0..Len(s) /\ mid \in Nat /\ o < mid /\ mid <= hi
      BY <1>2, ItemFacts
    <2>2. items = <<o>> \o rest
      BY <1>2, <2>1, ItemsStep
    <2>3. /\ rest \in Seq(Nat) /\ end \in Nat /\ mid <= end /\ end <= hi
          /\ \A i \in 1..Len(rest) : mid <= rest[i] /\ IsItem(s, type, rest[i], end)
          /\ ~IsItem(s, type, end, hi)
      BY <1>2 DEF Tiled
    <2>4. EndOfItems(s, type, o, items) = end
      BY <2>1, <2>2, <2>3, EndOfItemsStep
    <2> HIDE DEF rest, items, end
    <2>5. /\ items \in Seq(Nat) /\ Len(items) = Len(rest) + 1 /\ items[1] = o
          /\ \A i \in 1..Len(rest) : items[i + 1] = rest[i]
      BY <2>1, <2>2, <2>3, ConsFacts
    <2>6. IsItem(s, type, o, end)
      <3>1. ValueIn(s, type, o) \in Nat /\ ValueIn(s, type, o) + 2 <= mid
        BY <1>2, <2>1, ItemFacts
      <3> HIDE DEF mid
      <3>2. o < end /\ ValueIn(s, type, o) + 1 + 1 <= end /\ mid <= end
        BY <2>1, <2>3, <3>1
      <3> QED BY <3>2 DEF IsItem, TypeByteSize, SizeOfSize, mid
    <2>7. ASSUME NEW i \in 1..Len(items)
          PROVE  o <= items[i] /\ IsItem(s, type, items[i], end)
      <3>1. CASE i = 1
        BY <2>1, <2>5, <2>6, <3>1
      <3>2. CASE i # 1
        <4>1. Len(rest) \in Nat /\ i - 1 \in 1..Len(rest) /\ i = (i - 1) + 1
          BY <2>3, <2>5, <3>2
        <4>2. PICK j \in 1..Len(rest) : i = j + 1
          BY <4>1
        <4>3. items[i] = rest[j]
          BY <2>5, <4>2, Zenon
        <4>4. rest[j] \in Nat /\ mid <= rest[j] /\ IsItem(s, type, rest[j], end)
          BY <2>3
        <4> QED BY <2>1, <4>3, <4>4
      <3> QED BY <3>1, <3>2
    <2>8. o <= end
      BY <2>1, <2>3
    <2> QED BY <2>3, <2>4, <2>5, <2>7, <2>8 DEF Tiled, items
  <1>3. 0 \in S
    <2>1. ASSUME NEW o \in 0..hi, hi <= o + 0 PROVE ~IsItem(s, type, o, hi)
      BY <2>1 DEF IsItem
    <2> QED BY <1>1, <2>1
  <1>4. ASSUME NEW n \in Nat, n \in S PROVE n + 1 \in S
    <2>1. ASSUME NEW o \in 0..hi, hi <= o + (n + 1) PROVE Tiled(s, type, o, hi)
      <3>1. CASE IsItem(s, type, o, hi)
        <4>1. /\ ItemEnd(s, type, o) \in 0..hi
              /\ hi <= ItemEnd(s, type, o) + n
          BY <2>1, <3>1, ItemFacts
        <4>2. Tiled(s, type, ItemEnd(s, type, o), hi)
          BY <1>4, <4>1
        <4> QED BY <1>2, <3>1, <4>2
      <3> QED BY <1>1, <3>1
    <2> QED BY <2>1
  <1>5. hi \in S
    <2> HIDE DEF S
    <2>1. hi \in Nat
      OBVIOUS
    <2> QED BY <1>3, <1>4, <2>1, SetInduction
  <1> QED BY <1>5

LEMMA ConcatIsAssociative ==
    ASSUME NEW a \in Seq(Nat), NEW b \in Seq(Nat), NEW c \in Seq(Nat)
    PROVE  (a \o b) \o c = a \o (b \o c)
  OBVIOUS

\* More cells behind the items of a container are more items behind them.
ItemsExtend(s, s2, type, lo, hi, hi2) ==
    LET items == ItemsOf(s, type, lo, hi)
        end   == EndOfItems(s, type, lo, items)
    IN  Agree(s, s2, lo, end) /\ end <= hi2
          => ItemsOf(s2, type, lo, hi2) = items \o ItemsOf(s2, type, end, hi2)

LEMMA ItemsExtended ==
    ASSUME NEW s \in Seq(Nat), NEW s2 \in Seq(Nat), NEW type,
           NEW hi \in 0..Len(s), NEW hi2 \in 0..Len(s2), NEW lo \in 0..hi
    PROVE  ItemsExtend(s, s2, type, lo, hi, hi2)
  <1> DEFINE P(o) == ItemsExtend(s, s2, type, o, hi, hi2)
             S == {n \in Nat : \A o \in 0..hi : hi <= o + n => P(o)}
  <1>1. ASSUME NEW o \in 0..hi, ~IsItem(s, type, o, hi) PROVE P(o)
    <2>1. ItemsOf(s, type, o, hi) = <<>>
      <3>1. o \in 0..Len(s)
        OBVIOUS
      <3> QED BY <1>1, <3>1, ItemsStep
    <2>2. EndOfItems(s, type, o, <<>>) = o
      BY DEF EndOfItems
    <2>3. ASSUME o <= hi2 PROVE ItemsOf(s2, type, o, hi2) \in Seq(Nat)
      <3>1. o \in 0..hi2
        BY <2>3
      <3> QED BY <3>1, ItemsTile DEF Tiled
    <2> QED BY <2>1, <2>2, <2>3 DEF ItemsExtend
  <1>2. ASSUME NEW o \in 0..hi, IsItem(s, type, o, hi), P(ItemEnd(s, type, o))
        PROVE  P(o)
    <2> DEFINE mid   == ItemEnd(s, type, o)
               rest  == ItemsOf(s, type, mid, hi)
               end   == EndOfItems(s, type, mid, rest)
               items == ItemsOf(s, type, o, hi)
    <2>1. o \in Nat /\ o \in 0..Len(s) /\ mid \in Nat /\ o < mid /\ mid <= hi
      BY <1>2, ItemFacts
    <2>2. items = <<o>> \o rest
      BY <1>2, <2>1, ItemsStep
    <2>3. rest \in Seq(Nat) /\ end \in Nat /\ mid <= end
      <3>1. mid \in 0..hi
        BY <2>1
      <3> QED BY <3>1, ItemsTile DEF Tiled
    <2>4. EndOfItems(s, type, o, items) = end
      BY <2>1, <2>2, <2>3, EndOfItemsStep
    <2>5. ASSUME Agree(s, s2, o, end), end <= hi2
          PROVE  ItemsOf(s2, type, o, hi2) = items \o ItemsOf(s2, type, end, hi2)
      <3> DEFINE more == ItemsOf(s2, type, end, hi2)
      <3>1. Agree(s, s2, mid, end) /\ Agree(s, s2, o, mid)
        <4>1. o <= mid
          BY <2>1
        <4> HIDE DEF mid, end
        <4> QED BY <2>1, <2>3, <2>5, <4>1, AgreeWithin
      <3>2. ItemsOf(s2, type, mid, hi2) = rest \o more
        BY <1>2, <2>5, <3>1 DEF ItemsExtend
      <3>3. IsItem(s2, type, o, hi2) /\ ItemEnd(s2, type, o) = mid
        <4>1. mid <= hi2
          BY <2>1, <2>3, <2>5
        <4> QED BY <1>2, <2>1, <3>1, <4>1, IsItemKept
      <3>4. ItemsOf(s2, type, o, hi2) = <<o>> \o (rest \o more)
        <4>1. o \in 0..Len(s2)
          <5> HIDE DEF mid, end
          <5> QED BY <2>1, <2>3, <2>5
        <4> QED BY <3>2, <3>3, <4>1, ItemsStep, Zenon
      <3>5. more \in Seq(Nat) /\ <<o>> \in Seq(Nat)
        <4>1. end \in 0..hi2
          BY <2>3, <2>5
        <4> QED BY <2>1, <4>1, ItemsTile DEF Tiled
      <3> HIDE DEF more, rest
      <3>6. (<<o>> \o rest) \o more = <<o>> \o (rest \o more)
        BY SMTT(20), <2>3, <3>5, ConcatIsAssociative
      <3> QED BY <2>2, <3>4, <3>6, Zenon DEF more
    <2> HIDE DEF items, end
    <2>6. ItemsExtend(s, s2, type, o, hi, hi2)
      BY <2>4, <2>5, Zenon DEF ItemsExtend, items
    <2> QED BY <2>6
  <1> HIDE DEF P
  <1>3. 0 \in S
    <2>1. ASSUME NEW o \in 0..hi, hi <= o + 0 PROVE ~IsItem(s, type, o, hi)
      BY <2>1 DEF IsItem
    <2> QED BY <1>1, <2>1
  <1>4. ASSUME NEW n \in Nat, n \in S PROVE n + 1 \in S
    <2>1. ASSUME NEW o \in 0..hi, hi <= o + (n + 1) PROVE P(o)
      <3>1. CASE IsItem(s, type, o, hi)
        <4>1. /\ ItemEnd(s, type, o) \in 0..hi
              /\ hi <= ItemEnd(s, type, o) + n
          BY <2>1, <3>1, ItemFacts
        <4>2. P(ItemEnd(s, type, o))
          BY <1>4, <4>1
        <4> QED BY <1>2, <3>1, <4>2
      <3> QED BY <1>1, <3>1
    <2> QED BY <2>1
  <1>5. hi \in S
    <2> HIDE DEF S
    <2>1. hi \in Nat
      OBVIOUS
    <2> QED BY <1>3, <1>4, <2>1, SetInduction
  <1> QED BY <1>5 DEF P

\* The items between lo and hi depend on nothing else.
LEMMA ItemsAgree ==
    ASSUME NEW s \in Seq(Nat), NEW s2 \in Seq(Nat), NEW type,
           NEW lo \in Nat, NEW hi \in Nat, lo <= hi, Agree(s, s2, lo, hi)
    PROVE  ItemsOf(s2, type, lo, hi) = ItemsOf(s, type, lo, hi)
  <1> DEFINE items == ItemsOf(s, type, lo, hi)
             end   == EndOfItems(s, type, lo, items)
  <1>1. hi \in 0..Len(s) /\ hi \in 0..Len(s2) /\ lo \in 0..hi
    BY DEF Agree
  <1>2. /\ items \in Seq(Nat) /\ end \in Nat /\ lo <= end /\ end <= hi
        /\ ~IsItem(s, type, end, hi)
    BY <1>1, ItemsTile DEF Tiled
  <1>3. ItemsOf(s2, type, lo, hi) = items \o ItemsOf(s2, type, end, hi)
    <2>1. Agree(s, s2, lo, end)
      BY <1>2, AgreeWithin
    <2>2. ItemsExtend(s, s2, type, lo, hi, hi)
      BY <1>1, ItemsExtended
    <2> QED BY <1>2, <2>1, <2>2 DEF ItemsExtend
  <1> HIDE DEF end, items
  <1>4. ASSUME IsItem(s2, type, end, hi) PROVE FALSE
    <2>1. ItemEnd(s2, type, end) \in Nat /\ ItemEnd(s2, type, end) <= hi
      BY <1>1, <1>2, <1>4, ItemFacts
    <2>2. Agree(s2, s, lo, hi)
      BY DEF Agree
    <2>3. Agree(s2, s, end, ItemEnd(s2, type, end))
      BY <1>2, <2>1, <2>2, AgreeWithin
    <2>4. IsItem(s, type, end, hi)
      BY <1>1, <1>2, <1>4, <2>1, <2>3, IsItemKept
    <2> QED BY <1>2, <2>4
  <1>5. ItemsOf(s2, type, end, hi) = <<>>
    <2>1. end \in 0..Len(s2)
      BY <1>1, <1>2
    <2> QED BY <1>1, <1>4, <2>1, ItemsStep
  <1>6. items \o <<>> = items
    BY <1>2
  <1> QED BY <1>3, <1>5, <1>6 DEF items

-----------------------------------------------------------------------------
(***************************************************************************)
(* The head and the items of a value, and the cells of a slice.            *)
(***************************************************************************)

LEMMA ValueOffset ==
    ASSUME NEW s \in Seq(Nat), NEW v \in Nat, v + 2 <= Len(s)
    PROVE  v \in ValueOffsets(s)
  BY DEF ValueOffsets, TypeByteSize, SizeOfSize

LEMMA HeadFacts ==
    ASSUME NEW s \in Seq(Nat), NEW o \in ValueOffsets(s)
    PROVE  /\ o \in Nat /\ o + 2 <= Len(s)
           /\ Cell(s, o) \in Nat /\ Cell(s, o + 1) \in Nat
           /\ EndOfValue(s, o) = o + 2 + Cell(s, o + 1)
           /\ EndOfValue(s, o) \in Nat
           /\ FirstItem(o) = o + 3
  <1>1. o \in Nat /\ o + 2 <= Len(s)
    BY DEF ValueOffsets, TypeByteSize, SizeOfSize
  <1>2. Cell(s, o) \in Nat /\ Cell(s, o + 1) \in Nat
    BY <1>1 DEF Cell
  <1>3. EndOfValue(s, o) = o + 2 + Cell(s, o + 1)
    BY <1>1, <1>2 DEF EndOfValue, TypeByteSize, SizeOfSize
  <1> QED BY <1>1, <1>2, <1>3 DEF FirstItem, TypeByteSize, HeaderSize, SizeOfSize

\* The items are inside their container: their values lie behind its head.
LEMMA ItemsAtFacts ==
    ASSUME NEW s \in Seq(Nat), NEW o \in ValueOffsets(s)
    PROVE  /\ ItemsAt(s, o) \in Seq(Nat)
           /\ \A i \in 1..Len(ItemsAt(s, o)) :
                LET v == ValueIn(s, Cell(s, o), ItemsAt(s, o)[i])
                IN  v \in ValueOffsets(s) /\ o < v
  <1> DEFINE type == Cell(s, o)
             lo == FirstItem(o)
             hi == EndOfValue(s, o)
  <1>1. o \in Nat /\ lo = o + 3 /\ lo \in Nat /\ hi \in Nat
    BY SMTT(20), HeadFacts
  <1>2. ItemsAt(s, o) = ItemsOf(s, type, lo, hi)
    BY DEF ItemsAt
  <1> HIDE DEF type, lo, hi
  <1>3. CASE lo <= hi /\ hi <= Len(s)
    <2>1. hi \in 0..Len(s) /\ lo \in 0..hi
      BY <1>1, <1>3
    <2> DEFINE items == ItemsOf(s, type, lo, hi)
               end   == EndOfItems(s, type, lo, items)
    <2>2. /\ items \in Seq(Nat) /\ end \in Nat /\ end <= hi
          /\ \A i \in 1..Len(items) : lo <= items[i] /\ IsItem(s, type, items[i], end)
      BY <2>1, ItemsTile DEF Tiled
    <2> HIDE DEF items, end
    <2>3. ASSUME NEW i \in 1..Len(items)
          PROVE  /\ ValueIn(s, type, items[i]) \in ValueOffsets(s)
                 /\ o < ValueIn(s, type, items[i])
      <3>1. PICK p \in Nat : p = items[i]
        BY <2>2
      <3>2. lo <= p /\ IsItem(s, type, p, end) /\ end \in 0..Len(s)
        BY <2>1, <2>2, <3>1
      <3>3. /\ ValueIn(s, type, p) \in Nat /\ p <= ValueIn(s, type, p)
            /\ ValueIn(s, type, p) + 2 <= ItemEnd(s, type, p)
            /\ ItemEnd(s, type, p) \in Nat /\ ItemEnd(s, type, p) <= end
        BY <3>2, ItemFacts
      <3>4. /\ ValueIn(s, type, p) \in ValueOffsets(s)
            /\ o < ValueIn(s, type, p)
        <4>1. ValueIn(s, type, p) + 2 <= Len(s) /\ o < ValueIn(s, type, p)
          BY SMTT(20), <1>1, <3>2, <3>3
        <4> QED BY <3>3, <4>1, ValueOffset
      <3> QED BY <3>1, <3>4
    <2> QED BY <1>2, <2>2, <2>3 DEF items, type
  <1>4. CASE ~(lo <= hi /\ hi <= Len(s))
    <2>1. ItemsAt(s, o) = <<>>
      BY <1>2, <1>4 DEF ItemsOf
    <2> QED BY <2>1
  <1> QED BY <1>3, <1>4

LEMMA SameElements ==
    ASSUME NEW a \in Seq(Nat), NEW b \in Seq(Nat), Len(a) = Len(b),
           \A i \in 1..Len(a) : a[i] = b[i]
    PROVE  a = b
  OBVIOUS

LEMMA SliceFacts ==
    ASSUME NEW s \in Seq(Nat), NEW p \in Nat, NEW n \in Nat, p + n <= Len(s)
    PROVE  /\ Slice(s, p, n) \in Seq(Nat) /\ Len(Slice(s, p, n)) = n
           /\ \A i \in 1..n : Slice(s, p, n)[i] = s[p + i]
  <1>1. PICK a \in Nat : a = p + 1
    OBVIOUS
  <1>2. PICK b \in Nat : b = p + n
    OBVIOUS
  <1>3. a \in 1..Len(s) + 1 /\ b \in a - 1..Len(s) /\ b - a + 1 = n
    BY <1>1, <1>2
  <1>4. /\ SubSeq(s, a, b) \in Seq(Nat) /\ Len(SubSeq(s, a, b)) = b - a + 1
        /\ \A i \in 1..(b - a + 1) : SubSeq(s, a, b)[i] = s[a + i - 1]
    BY <1>3
  <1>5. Slice(s, p, n) = SubSeq(s, a, b)
    BY <1>1, <1>2 DEF Slice
  <1>6. ASSUME NEW i \in 1..n PROVE Slice(s, p, n)[i] = s[p + i]
    <2>1. a + i - 1 = p + i
      BY <1>1
    <2> QED BY <1>3, <1>4, <1>5, <2>1
  <1> QED BY <1>3, <1>4, <1>5, <1>6

LEMMA SliceAgree ==
    ASSUME NEW s \in Seq(Nat), NEW s2 \in Seq(Nat), NEW p \in Nat, NEW n \in Nat,
           Agree(s, s2, p, p + n)
    PROVE  Slice(s2, p, n) = Slice(s, p, n)
  <1>1. p + n <= Len(s) /\ p + n <= Len(s2)
    BY DEF Agree
  <1>2. ASSUME NEW i \in 1..n PROVE s2[p + i] = s[p + i]
    <2>1. PICK q \in Nat : q = p + i - 1
      OBVIOUS
    <2>2. p <= q /\ q < p + n /\ p + i = q + 1
      BY <2>1
    <2>3. s2[q + 1] = s[q + 1]
      BY <2>2 DEF Agree, Cell
    <2> QED BY <2>2, <2>3
  <1> DEFINE a == Slice(s, p, n)
             b == Slice(s2, p, n)
  <1>3. a \in Seq(Nat) /\ Len(a) = n /\ \A i \in 1..n : a[i] = s[p + i]
    BY <1>1, SliceFacts
  <1>4. b \in Seq(Nat) /\ Len(b) = n /\ \A i \in 1..n : b[i] = s2[p + i]
    BY <1>1, SliceFacts
  <1> HIDE DEF a, b
  <1>5. \A i \in 1..Len(a) : b[i] = a[i]
    BY <1>2, <1>3, <1>4
  <1>6. b = a
    BY <1>3, <1>4, <1>5, SameElements
  <1> QED BY <1>6 DEF a, b

\* A sequence with one element more, and one followed by a single element.
LEMMA AddedFacts ==
    ASSUME NEW items \in Seq(Nat), NEW o \in Nat
    PROVE  /\ items \o <<o>> \in Seq(Nat) /\ items \o <<o>> # <<>>
           /\ Len(items \o <<o>>) = Len(items) + 1
           /\ \A i \in 1..Len(items) : (items \o <<o>>)[i] = items[i]
           /\ (items \o <<o>>)[Len(items) + 1] = o
           /\ Last(items \o <<o>>) = o
  <1>1. /\ items \o <<o>> \in Seq(Nat) /\ items \o <<o>> # <<>>
        /\ Len(items \o <<o>>) = Len(items) + 1
        /\ \A i \in 1..Len(items) : (items \o <<o>>)[i] = items[i]
        /\ (items \o <<o>>)[Len(items) + 1] = o
    OBVIOUS
  <1> QED BY <1>1 DEF Last

LEMMA AppendIs ==
    ASSUME NEW S, NEW n \in Nat, NEW f \in [1..n -> S], NEW e \in S,
           NEW g \in [1..(n + 1) -> S], \A i \in 1..n : g[i] = f[i], g[n + 1] = e
    PROVE  g = Append(f, e)
  <1>1. f \in Seq(S) /\ Len(f) = n
    OBVIOUS
  <1>2. g \in Seq(S) /\ Len(g) = n + 1
    <2>1. n + 1 \in Nat
      OBVIOUS
    <2> QED BY <2>1
  <1>3. /\ Append(f, e) \in Seq(S) /\ Len(Append(f, e)) = n + 1
        /\ \A i \in 1..n : Append(f, e)[i] = f[i]
        /\ Append(f, e)[n + 1] = e
    BY <1>1, AppendProperties
  <1>4. \A i \in 1..Len(g) : g[i] = Append(f, e)[i]
    <2>1. TAKE i \in 1..Len(g)
    <2>2. i \in 1..n \/ i = n + 1
      BY <1>2
    <2> QED BY <1>3, <2>2
  <1> QED BY <1>2, <1>3, <1>4, SeqEqual


-----------------------------------------------------------------------------
(***************************************************************************)
(* Sums                                                                    *)
(***************************************************************************)

\* The sums of the first elements of a sequence.
Sums(sizes, sum) ==
    sum[0] = 0 /\ \A n \in 1..Len(sizes) : sum[n] = sum[n - 1] + sizes[n]

LEMMA SumsRecur ==
    ASSUME NEW sizes \in Seq(Nat), NEW sum, Sums(sizes, sum),
           NEW step, step = [n \in 1..Len(sizes) |-> [x \in Nat |-> x + sizes[n]]]
    PROVE  /\ \A n \in 0..Len(sizes) : sum[n] \in Nat
           /\ Recurs(sum, Len(sizes), 0, step)
  <1>1. PICK N \in Nat : N = Len(sizes)
    OBVIOUS
  <1>2. \A n \in 1..N : sizes[n] \in Nat
    BY <1>1
  <1> DEFINE S == {n \in Nat : n <= N => sum[n] \in Nat}
  <1>3. 0 \in S
    BY DEF Sums
  <1>4. ASSUME NEW n \in Nat, n \in S PROVE n + 1 \in S
    <2> SUFFICES ASSUME n + 1 <= N PROVE sum[n + 1] \in Nat
      OBVIOUS
    <2>1. PICK m \in 1..N : m = n + 1 /\ m - 1 = n
      OBVIOUS
    <2>2. sum[m] = sum[n] + sizes[m]
      BY <1>1, <2>1 DEF Sums
    <2> QED BY <1>2, <1>4, <2>1, <2>2
  <1>5. \A n \in Nat : n \in S
    <2> HIDE DEF S
    <2> QED BY <1>3, <1>4, SetInduction
  <1>6. \A n \in 0..N : sum[n] \in Nat
    BY <1>5
  <1>7. ASSUME NEW n \in 1..N PROVE sum[n] = step[n][sum[n - 1]]
    <2>1. n - 1 \in 0..N
      OBVIOUS
    <2>2. sum[n - 1] \in Nat /\ sum[n] = sum[n - 1] + sizes[n]
      BY <1>1, <1>6, <2>1 DEF Sums
    <2>3. step[n] = [x \in Nat |-> x + sizes[n]]
      BY <1>1
    <2> QED BY <2>2, <2>3
  <1> QED BY <1>1, <1>6, <1>7 DEF Recurs, Sums

LEMMA SumsExist ==
    ASSUME NEW sizes \in Seq(Nat)
    PROVE  \E sum \in [0..Len(sizes) -> Nat] : Sums(sizes, sum)
  <1>1. PICK N \in Nat : N = Len(sizes)
    OBVIOUS
  <1> DEFINE step == [n \in 1..N |-> [x \in Nat |-> x + sizes[n]]]
  <1>2. \A n \in 1..N : sizes[n] \in Nat
    BY <1>1
  <1>3. step \in [1..N -> [Nat -> Nat]]
    BY <1>2
  <1> HIDE DEF step
  <1>4. PICK sum \in [0..N -> Nat] : Recurs(sum, N, 0, step)
    BY <1>3, RecursionExists
  <1>5. ASSUME NEW n \in 1..N PROVE sum[n] = sum[n - 1] + sizes[n]
    <2>1. n - 1 \in 0..N
      OBVIOUS
    <2>2. sum[n] = step[n][sum[n - 1]] /\ sum[n - 1] \in Nat
      BY <1>4, <2>1 DEF Recurs
    <2> QED BY <2>2 DEF step
  <1> QED BY <1>1, <1>4, <1>5 DEF Sums, Recurs

LEMMA TotalIs ==
    ASSUME NEW sizes \in Seq(Nat), NEW sum, Sums(sizes, sum)
    PROVE  Total(sizes) = sum[Len(sizes)]
  <1> DEFINE Is(f) == f = [n \in 0..Len(sizes) |-> IF n = 0 THEN 0 ELSE f[n - 1] + sizes[n]]
             step == [n \in 1..Len(sizes) |-> [x \in Nat |-> x + sizes[n]]]
             it == CHOOSE f : Is(f)
  <1>0. Len(sizes) \in Nat
    OBVIOUS
  <1>1. \E f : Is(f)
    <2>1. PICK f \in [0..Len(sizes) -> Nat] : Sums(sizes, f)
      BY SumsExist
    <2>2. \A n \in 0..Len(sizes) : f[n] = IF n = 0 THEN 0 ELSE f[n - 1] + sizes[n]
      BY <2>1 DEF Sums
    <2>3. f = [n \in 0..Len(sizes) |-> IF n = 0 THEN 0 ELSE f[n - 1] + sizes[n]]
      BY <2>2
    <2> QED BY <2>3
  <1>2. Is(it)
    BY <1>1, Zenon
  <1>3. Total(sizes) = it[Len(sizes)]
    BY Zenon DEF Total
  <1> HIDE DEF it
  <1>4. Sums(sizes, it)
    <2>1. \A n \in 0..Len(sizes) : it[n] = IF n = 0 THEN 0 ELSE it[n - 1] + sizes[n]
      BY <1>2, Zenon
    <2>2. \A n \in 1..Len(sizes) : n # 0 /\ n \in 0..Len(sizes)
      OBVIOUS
    <2>3. 0 \in 0..Len(sizes)
      OBVIOUS
    <2> QED BY <2>1, <2>2, <2>3, Zenon DEF Sums
  <1>5. Recurs(it, Len(sizes), 0, step) /\ Recurs(sum, Len(sizes), 0, step)
    BY <1>4, SumsRecur
  <1>6. Len(sizes) \in 0..Len(sizes)
    BY <1>0
  <1> HIDE DEF step
  <1>7. it[Len(sizes)] = sum[Len(sizes)]
    BY <1>0, <1>5, <1>6, RecursionUnique
  <1> QED BY <1>3, <1>7

LEMMA TotalType ==
    ASSUME NEW sizes \in Seq(Nat)
    PROVE  Total(sizes) \in Nat
  <1>1. PICK sum \in [0..Len(sizes) -> Nat] : Sums(sizes, sum)
    BY SumsExist
  <1> QED BY <1>1, TotalIs


LEMMA PrefixTotal ==
    ASSUME NEW sizes \in Seq(Nat), NEW sum, Sums(sizes, sum), NEW k \in 0..Len(sizes)
    PROVE  Total(SubSeq(sizes, 1, k)) = sum[k]
  <1>1. PICK first \in Seq(Nat) : /\ first = SubSeq(sizes, 1, k) /\ Len(first) = k
                                  /\ \A i \in 1..k : first[i] = sizes[i]
    <2>1. /\ SubSeq(sizes, 1, k) \in Seq(Nat) /\ Len(SubSeq(sizes, 1, k)) = k
          /\ \A i \in 1..k : SubSeq(sizes, 1, k)[i] = sizes[i]
      OBVIOUS
    <2> QED BY <2>1
  <1>2. Sums(first, sum)
    <2>1. \A i \in 1..k : i \in 1..Len(sizes)
      OBVIOUS
    <2> QED BY <1>1, <2>1 DEF Sums
  <1> QED BY <1>1, <1>2, TotalIs

\* One element of a sequence is replaced.
LEMMA TotalUpdated ==
    ASSUME NEW a \in Seq(Nat), NEW b \in Seq(Nat), Len(b) = Len(a), NEW k \in 1..Len(a),
           \A i \in 1..Len(a) : i # k => b[i] = a[i]
    PROVE  Total(b) + a[k] = Total(a) + b[k]
  <1>1. PICK N \in Nat : N = Len(a)
    OBVIOUS
  <1>2. PICK f \in [0..N -> Nat] : Sums(a, f)
    BY <1>1, SumsExist
  <1>3. PICK g \in [0..N -> Nat] : Sums(b, g)
    BY <1>1, SumsExist
  <1>4. Total(a) = f[N] /\ Total(b) = g[N]
    BY <1>1, <1>2, <1>3, TotalIs
  <1>5. /\ f[0] = 0 /\ \A n \in 1..N : f[n] = f[n - 1] + a[n]
        /\ g[0] = 0 /\ \A n \in 1..N : g[n] = g[n - 1] + b[n]
        /\ \A n \in 1..N : a[n] \in Nat /\ b[n] \in Nat
    BY SMTT(20), <1>1, <1>2, <1>3 DEF Sums
  <1> DEFINE S == {n \in Nat : n <= N => IF n < k THEN g[n] = f[n]
                                         ELSE g[n] + a[k] = f[n] + b[k]}
  <1>6. 0 \in S
    BY <1>5
  <1>7. ASSUME NEW n \in Nat, n \in S PROVE n + 1 \in S
    <2> SUFFICES ASSUME n + 1 <= N
                 PROVE  IF n + 1 < k THEN g[n + 1] = f[n + 1]
                        ELSE g[n + 1] + a[k] = f[n + 1] + b[k]
      OBVIOUS
    <2>1. PICK m \in 1..N : m = n + 1 /\ m - 1 = n
      OBVIOUS
    <2>2. n \in 0..N /\ m \in 0..N
      BY <2>1
    <2>3. PICK x \in Nat : x = f[n]
      BY <2>2
    <2>4. PICK y \in Nat : y = g[n]
      BY <2>2
    <2>5. f[m] = x + a[m] /\ g[m] = y + b[m]
      BY <1>5, <2>1, <2>3, <2>4
    <2>6. IF n < k THEN y = x ELSE y + a[k] = x + b[k]
      BY <1>7, <2>2, <2>3, <2>4
    <2>7. PICK am \in Nat : am = a[m]
      BY <1>5
    <2>8. PICK bm \in Nat : bm = b[m]
      BY <1>5
    <2>9. PICK ak \in Nat : ak = a[k]
      BY <1>1, <1>5
    <2>10. PICK bk \in Nat : bk = b[k]
      BY <1>1, <1>5
    <2>11. IF m = k THEN am = ak /\ bm = bk ELSE bm = am
      BY <1>1, <2>7, <2>8, <2>9, <2>10
    <2>12. PICK kk \in Nat : kk = k
      BY <1>1
    <2>13. IF m < k THEN y + bm = x + am ELSE y + bm + ak = x + am + bk
      <3>1. IF n < kk THEN y = x ELSE y + ak = x + bk
        BY <2>6, <2>9, <2>10, <2>12, Zenon
      <3>2. IF m = kk THEN am = ak /\ bm = bk ELSE bm = am
        BY <2>11, <2>12, Zenon
      <3>3. IF n + 1 < kk THEN y + bm = x + am ELSE y + bm + ak = x + am + bk
        BY <2>1, <3>1, <3>2
      <3> QED BY <2>1, <2>12, <3>3, Zenon
    <2> QED BY <2>1, <2>5, <2>7, <2>8, <2>9, <2>10, <2>13, Zenon
  <1>8. N \in S
    <2> HIDE DEF S
    <2> QED BY <1>6, <1>7, SetInduction
  <1> QED BY <1>1, <1>4, <1>8

\* The weights of the elements of a sequence, those from k on left out.
Weights(p, w, k) == [i \in DOMAIN p |-> IF p[i] < k THEN w[p[i]] ELSE 0]

WeightAt(p, w, k) == IF \E i \in 1..Len(p) : p[i] = k THEN w[k] ELSE 0

LEMMA NumbersAreSequence ==
    ASSUME NEW N \in Nat, NEW f \in [1..N -> Nat]
    PROVE  f \in Seq(Nat) /\ Len(f) = N
  OBVIOUS

LEMMA WeightAdded ==
    ASSUME NEW M \in Nat, NEW p \in Seq(0..M), IsInjective(p), NEW w \in [0..M -> Nat],
           NEW k \in 0..M
    PROVE  Total(Weights(p, w, k + 1)) = Total(Weights(p, w, k)) + WeightAt(p, w, k)
  <1>1. PICK N \in Nat : N = Len(p) /\ DOMAIN p = 1..N
    OBVIOUS
  <1>2. \A i \in 1..N : p[i] \in 0..M /\ w[p[i]] \in Nat
    BY <1>1
  <1>3. \A i, j \in 1..N : p[i] = p[j] => i = j
    BY <1>1 DEF IsInjective
  <1> DEFINE a == Weights(p, w, k)
             b == Weights(p, w, k + 1)
  <1>4. a \in [1..N -> Nat] /\ \A i \in 1..N : a[i] = IF p[i] < k THEN w[p[i]] ELSE 0
    BY <1>1, <1>2 DEF Weights
  <1>5. b \in [1..N -> Nat] /\ \A i \in 1..N : b[i] = IF p[i] < k + 1 THEN w[p[i]] ELSE 0
    BY <1>1, <1>2 DEF Weights
  <1> HIDE DEF a, b
  <1>6. a \in Seq(Nat) /\ Len(a) = N /\ b \in Seq(Nat) /\ Len(b) = N
    BY <1>4, <1>5, NumbersAreSequence, Zenon
  <1>7. ASSUME NEW i \in 1..N, p[i] # k PROVE b[i] = a[i]
    <2>1. PICK x \in Nat : x = p[i]
      BY <1>2
    <2>2. x < k <=> x < k + 1
      BY SMTT(20), <1>7, <2>1
    <2> QED BY <1>4, <1>5, <2>1, <2>2, Zenon
  <1>8. CASE \E i \in 1..N : p[i] = k
    <2>1. PICK j \in 1..N : p[j] = k
      BY <1>8
    <2>2. a[j] = 0 /\ b[j] = w[k]
      <3>1. ~(k < k) /\ k < k + 1
        OBVIOUS
      <3> QED BY <1>4, <1>5, <2>1, <3>1, Zenon
    <2>3. \A i \in 1..N : i # j => b[i] = a[i]
      BY <1>3, <1>7, <2>1
    <2>4. Total(b) + a[j] = Total(a) + b[j]
      BY <1>6, <2>3, TotalUpdated
    <2>5. Total(a) \in Nat /\ Total(b) \in Nat /\ w[k] \in Nat
      BY <1>6, TotalType
    <2> QED BY SMTT(20), <1>1, <1>8, <2>2, <2>4, <2>5 DEF WeightAt, a, b
  <1>9. CASE ~\E i \in 1..N : p[i] = k
    <2>1. b = a
      <3>1. \A i \in 1..N : b[i] = a[i]
        BY <1>7, <1>9, Zenon
      <3> QED BY <1>6, <3>1
    <2>2. Total(a) \in Nat
      BY <1>6, TotalType
    <2> QED BY <1>1, <1>9, <2>1, <2>2 DEF WeightAt, a, b
  <1> QED BY <1>8, <1>9

Weighing(M) == [0..M -> Nat]
Permuted(M, p, q) ==
    /\ p \in Seq(0..M) /\ q \in Seq(0..M) /\ IsInjective(p) /\ IsInjective(q)
    /\ Len(q) = Len(p) /\ ToSet(p) = ToSet(q)

Weighed(p, w, a) == Len(a) = Len(p) /\ \A i \in 1..Len(p) : a[i] = w[p[i]]

\* The same elements in another order have the same total weight.
LEMMA TotalPermuted ==
    ASSUME NEW M \in Nat, NEW p, NEW q, Permuted(M, p, q), NEW w \in Weighing(M),
           NEW a \in Seq(Nat), NEW b \in Seq(Nat), Weighed(p, w, a), Weighed(q, w, b)
    PROVE  Total(a) = Total(b)
  <1>0. /\ Len(a) = Len(p) /\ Len(b) = Len(p)
        /\ \A i \in 1..Len(p) : a[i] = w[p[i]] /\ b[i] = w[q[i]]
        /\ p \in Seq(0..M) /\ q \in Seq(0..M) /\ IsInjective(p) /\ IsInjective(q)
        /\ Len(q) = Len(p) /\ ToSet(p) = ToSet(q)
        /\ w \in [0..M -> Nat]
    BY DEF Weighed, Permuted, Weighing
  <1> DEFINE S == {k \in Nat : k <= M + 1 => Total(Weights(p, w, k)) = Total(Weights(q, w, k))}
  <1>1. PICK N \in Nat : N = Len(p) /\ DOMAIN p = 1..N /\ DOMAIN q = 1..N
    BY <1>0
  <1>2. \A i \in 1..N : p[i] \in 0..M /\ q[i] \in 0..M
    BY <1>0, <1>1, ElementOfSeq, Zenon
  <1>3. 0 \in S
    <2>0. \A x \in 0..M : ~(x < 0)
      OBVIOUS
    <2>1. \A i \in 1..N : ~(p[i] < 0) /\ ~(q[i] < 0)
      BY <1>2, <2>0, Zenon
    <2>2. Weights(p, w, 0) = Weights(q, w, 0)
      BY <1>1, <2>1, Zenon DEF Weights
    <2> QED BY <2>2
  <1>4. ASSUME NEW k \in Nat, k \in S PROVE k + 1 \in S
    <2> SUFFICES ASSUME k + 1 <= M + 1
                 PROVE  Total(Weights(p, w, k + 1)) = Total(Weights(q, w, k + 1))
      OBVIOUS
    <2>1. k \in 0..M /\ Total(Weights(p, w, k)) = Total(Weights(q, w, k))
      BY <1>4
    <2>2. (\E i \in 1..Len(p) : p[i] = k) <=> (\E i \in 1..Len(q) : q[i] = k)
      <3>1. (\E i \in 1..N : p[i] = k) <=> k \in ToSet(p)
        BY <1>1, Zenon DEF ToSet
      <3>2. (\E i \in 1..N : q[i] = k) <=> k \in ToSet(q)
        BY <1>1, Zenon DEF ToSet
      <3> QED BY <1>0, <1>1, <3>1, <3>2, Zenon
    <2>3. Total(Weights(p, w, k + 1)) = Total(Weights(p, w, k)) + WeightAt(p, w, k)
      BY <1>0, <2>1, WeightAdded, Zenon
    <2>4. Total(Weights(q, w, k + 1)) = Total(Weights(q, w, k)) + WeightAt(q, w, k)
      BY <1>0, <2>1, WeightAdded, Zenon
    <2>5. WeightAt(p, w, k) = WeightAt(q, w, k)
      BY <2>2, Zenon DEF WeightAt
    <2> QED BY <2>1, <2>3, <2>4, <2>5, Zenon
  <1>5. M + 1 \in S
    <2>1. M + 1 \in Nat
      OBVIOUS
    <2> HIDE DEF S
    <2> QED BY <1>3, <1>4, <2>1, SetInduction
  <1>6. Weights(p, w, M + 1) = a /\ Weights(q, w, M + 1) = b
    <2>0. \A x \in 0..M : x < M + 1
      OBVIOUS
    <2>1. \A i \in 1..N : p[i] < M + 1 /\ q[i] < M + 1
      BY <1>2, <2>0, Zenon
    <2>2. Weights(p, w, M + 1) = [i \in 1..N |-> w[p[i]]]
      BY <1>1, <2>1, Zenon DEF Weights
    <2>3. Weights(q, w, M + 1) = [i \in 1..N |-> w[q[i]]]
      BY <1>1, <2>1, Zenon DEF Weights
    <2>4. /\ a \in [1..N -> Nat] /\ \A i \in 1..N : a[i] = w[p[i]]
          /\ b \in [1..N -> Nat] /\ \A i \in 1..N : b[i] = w[q[i]]
      BY <1>0, <1>1, LenProperties, Zenon
    <2>5. a = [i \in 1..N |-> w[p[i]]]
      BY <2>4, Zenon
    <2>6. b = [i \in 1..N |-> w[q[i]]]
      BY <2>4, Zenon
    <2> QED BY <2>2, <2>3, <2>5, <2>6, Zenon
  <1> QED BY <1>5, <1>6


\* All elements but the last, each less by one.
LEMMA TotalLess ==
    ASSUME NEW n \in Nat, NEW sizes \in Seq(Nat), Len(sizes) = n + 1,
           \A i \in 1..(n + 1) : sizes[i] > 0,
           NEW less \in Seq(Nat), Len(less) = n,
           \A i \in 1..n : less[i] = sizes[i] - 1
    PROVE  Total(less) + sizes[n + 1] + n = Total(sizes)
  <1>1. PICK f \in [0..(n + 1) -> Nat] : Sums(sizes, f)
    BY SumsExist
  <1>2. PICK g \in [0..n -> Nat] : Sums(less, g)
    BY SumsExist
  <1>3. /\ f[0] = 0 /\ \A i \in 1..(n + 1) : f[i] = f[i - 1] + sizes[i]
        /\ g[0] = 0 /\ \A i \in 1..n : g[i] = g[i - 1] + less[i]
    BY <1>1, <1>2 DEF Sums
  <1> DEFINE S == {k \in Nat : k <= n => g[k] + k = f[k]}
  <1>4. 0 \in S
    BY <1>3
  <1>5. ASSUME NEW k \in Nat, k \in S PROVE k + 1 \in S
    <2> SUFFICES ASSUME k + 1 <= n PROVE g[k + 1] + (k + 1) = f[k + 1]
      OBVIOUS
    <2>1. PICK m \in 1..n : m = k + 1 /\ m - 1 = k /\ m \in 1..(n + 1)
      OBVIOUS
    <2>2. k \in 0..n /\ k \in 0..(n + 1)
      BY <2>1
    <2>3. PICK x \in Nat : x = g[k]
      BY <2>2
    <2>4. PICK y \in Nat : y = f[k]
      BY <2>2
    <2>5. PICK z \in Nat : z = sizes[m]
      BY <2>1
    <2>6. x + k = y
      BY <1>5, <2>2, <2>3, <2>4
    <2>7. less[m] = z - 1
      BY <2>1, <2>5
    <2>8. g[m] = x + (z - 1) /\ f[m] = y + z
      BY <1>3, <2>1, <2>3, <2>4, <2>5, <2>7, Zenon
    <2>9. x + (z - 1) + m = y + z
      BY <2>1, <2>6
    <2> QED BY <2>1, <2>8, <2>9, Zenon
  <1>6. n \in S
    <2> HIDE DEF S
    <2> QED BY <1>4, <1>5, SetInduction
  <1>7. Total(sizes) = f[n + 1] /\ Total(less) = g[n]
    BY <1>1, <1>2, TotalIs
  <1>8. PICK last \in Nat : last = sizes[n + 1] /\ f[n + 1] = f[n] + last
    <2>1. n + 1 \in 1..(n + 1) /\ (n + 1) - 1 = n
      OBVIOUS
    <2>2. sizes[n + 1] \in Nat
      BY <2>1
    <2> QED BY <1>3, <2>1, <2>2
  <1>9. PICK x \in Nat : x = g[n]
    OBVIOUS
  <1>10. x + n = f[n]
    BY <1>6, <1>9
  <1>11. f[n + 1] = (x + n) + last
    BY <1>8, <1>10, Zenon
  <1>12. x + last + n = (x + n) + last
    OBVIOUS
  <1> QED BY <1>7, <1>8, <1>9, <1>11, <1>12, Zenon

\* The sequences that are put together have their lengths in sum.
LEMMA FlattenLength ==
    ASSUME NEW S, NEW seqs \in Seq(Seq(S)),
           NEW sizes \in Seq(Nat), Len(sizes) = Len(seqs),
           \A i \in 1..Len(seqs) : sizes[i] = Len(seqs[i])
    PROVE  FlattenSeq(seqs) \in Seq(S) /\ Len(FlattenSeq(seqs)) = Total(sizes)
  <1>1. PICK N \in Nat : N = Len(seqs)
    OBVIOUS
  <1>2. \A i \in 1..N : seqs[i] \in Seq(S)
    BY <1>1
  <1>3. PICK sum \in [0..N -> Nat] : Sums(sizes, sum) /\ Total(sizes) = sum[N]
    <2>1. PICK sum \in [0..N -> Nat] : Sums(sizes, sum)
      BY <1>1, SumsExist
    <2>2. Total(sizes) = sum[N]
      BY <1>1, <2>1, TotalIs
    <2> QED BY <2>1, <2>2
  <1>4. CASE N = 0
    <2>1. seqs = <<>>
      BY <1>1, <1>4, EmptySeq, Zenon
    <2>2. FlattenSeq(seqs) = <<>>
      BY <2>1 DEF FlattenSeq
    <2>3. sum[0] = 0
      BY <1>3 DEF Sums
    <2> QED BY <1>3, <1>4, <2>2, <2>3
  <1>5. CASE N # 0
    <2> DEFINE Is(f) == f = [i \in 1..N |-> IF i = 1 THEN seqs[i] ELSE f[i - 1] \o seqs[i]]
               step == [i \in 1..N |-> [q \in Seq(S) |-> q \o seqs[i]]]
               it == CHOOSE f : Is(f)
    <2>1. \E f : Is(f)
      <3>1. step \in [1..N -> [Seq(S) -> Seq(S)]]
        BY <1>2
      <3>2. <<>> \in Seq(S)
        OBVIOUS
      <3> HIDE DEF step
      <3>3. PICK g \in [0..N -> Seq(S)] : Recurs(g, N, <<>>, step)
        BY <3>1, <3>2, RecursionExists
      <3> DEFINE f == [i \in 1..N |-> g[i]]
      <3>4. ASSUME NEW i \in 1..N
            PROVE  f[i] = IF i = 1 THEN seqs[i] ELSE f[i - 1] \o seqs[i]
        <4>1. g[i] = step[i][g[i - 1]]
          BY <3>3, Zenon DEF Recurs
        <4>2. i - 1 \in 0..N /\ g[i - 1] \in Seq(S)
          OBVIOUS
        <4>3. g[i] = g[i - 1] \o seqs[i]
          BY <4>1, <4>2, Zenon DEF step
        <4>4. CASE i = 1
          <5>1. g[i - 1] = <<>>
            BY <3>3, <4>4 DEF Recurs
          <5>2. <<>> \o seqs[i] = seqs[i]
            BY <1>2, ConcatEmptySeq, Zenon
          <5> QED BY <4>3, <4>4, <5>1, <5>2, Zenon
        <4>5. CASE i # 1
          <5>1. i - 1 \in 1..N
            BY <4>5
          <5> QED BY <4>3, <4>5, <5>1, Zenon
        <4> QED BY <4>4, <4>5
      <3>5. Is(f)
        <4>1. \A i \in 1..N : g[i] = IF i = 1 THEN seqs[i] ELSE f[i - 1] \o seqs[i]
          BY <3>4, Zenon
        <4>2. PICK h : h = f
          OBVIOUS
        <4>3. h = [i \in 1..N |-> IF i = 1 THEN seqs[i] ELSE h[i - 1] \o seqs[i]]
          BY <4>1, <4>2, Zenon
        <4> QED BY <4>2, <4>3, Zenon
      <3> QED BY <3>5, Zenon
    <2>2. Is(it)
      BY <2>1, Zenon
    <2>3. FlattenSeq(seqs) = it[N]
      BY <1>1, <1>5, Zenon DEF FlattenSeq
    <2>4. \A i \in 1..N : it[i] = IF i = 1 THEN seqs[i] ELSE it[i - 1] \o seqs[i]
      BY <2>2, Zenon
    <2> HIDE DEF it
    <2> DEFINE T == {n \in Nat : 1 <= n /\ n <= N => it[n] \in Seq(S) /\ Len(it[n]) = sum[n]}
    <2>5. 0 \in T
      OBVIOUS
    <2>6. ASSUME NEW n \in Nat, n \in T PROVE n + 1 \in T
      <3> SUFFICES ASSUME n + 1 <= N
                   PROVE  it[n + 1] \in Seq(S) /\ Len(it[n + 1]) = sum[n + 1]
        OBVIOUS
      <3>1. PICK m \in 1..N : m = n + 1 /\ m - 1 = n
        OBVIOUS
      <3>2. seqs[m] \in Seq(S) /\ sum[m] = sum[n] + Len(seqs[m]) /\ sum[0] = 0
        BY <1>1, <1>2, <1>3, <3>1 DEF Sums
      <3>3. CASE n = 0
        <4>1. it[m] = seqs[m]
          BY <2>4, <3>1, <3>3
        <4>2. Len(seqs[m]) \in Nat
          BY <3>2, LenProperties
        <4>3. sum[m] = Len(seqs[m])
          BY <3>2, <3>3, <4>2
        <4> QED BY <3>1, <3>2, <4>1, <4>3, Zenon
      <3>4. CASE n # 0
        <4>1. it[n] \in Seq(S) /\ Len(it[n]) = sum[n]
          BY <2>6, <3>1, <3>4
        <4>0. m # 1
          BY <3>1, <3>4
        <4>2. it[m] = it[n] \o seqs[m]
          BY <2>4, <3>1, <4>0, Zenon
        <4>3. it[n] \o seqs[m] \in Seq(S) /\ Len(it[n] \o seqs[m]) = Len(it[n]) + Len(seqs[m])
          BY <3>2, <4>1, ConcatProperties, Zenon
        <4> QED BY <3>1, <3>2, <4>1, <4>2, <4>3, Zenon
      <3> QED BY <3>3, <3>4
    <2>7. N \in T
      <3> HIDE DEF T
      <3> QED BY <2>5, <2>6, SetInduction
    <2>8. it[N] \in Seq(S) /\ Len(it[N]) = sum[N]
      BY <1>5, <2>7
    <2> QED BY <1>3, <2>3, <2>8, Zenon
  <1> QED BY <1>4, <1>5


-----------------------------------------------------------------------------
(***************************************************************************)
(* The order of the items of an object                                     *)
(***************************************************************************)

\* What rapidhash returns for a key is a number.
HashIsNumber == \A key \in Seq(Nat) : Hash(key) \in Nat

LEMMA KeyDataOrder ==
    ASSUME NEW k \in Seq(Nat), NEW l \in Seq(Nat), Len(k) = Len(l)
    PROVE  /\ ~KeyDataLess(k, k)
           /\ k = l \/ KeyDataLess(k, l) \/ KeyDataLess(l, k)
           /\ \A m \in Seq(Nat) :
                KeyDataLess(k, l) /\ Len(m) = Len(l) /\ KeyDataLess(l, m)
                  => KeyDataLess(k, m)
  <1>1. PICK n \in Nat : n = Len(k) /\ DOMAIN k = 1..n /\ DOMAIN l = 1..n
    OBVIOUS
  <1>2. \A i \in 1..n : k[i] \in Nat /\ l[i] \in Nat
    BY <1>1
  <1>3. ~KeyDataLess(k, k)
    BY <1>1, <1>2 DEF KeyDataLess
  <1>4. ASSUME k # l PROVE KeyDataLess(k, l) \/ KeyDataLess(l, k)
    <2> DEFINE T == {i \in 1..n : k[i] # l[i]}
    <2>1. T # {}
      <3>1. (\A i \in 1..n : k[i] = l[i]) => k = l
        BY <1>1, SameElements
      <3> QED BY <1>4, <3>1
    <2>2. PICK i \in T : \A j \in T : i <= j
      <3>1. T \in SUBSET Nat
        OBVIOUS
      <3> QED BY <2>1, <3>1, LeastNumber, Zenon
    <2>3. i \in 1..n /\ k[i] # l[i]
      OBVIOUS
    <2>4. \A j \in 1..(i - 1) : k[j] = l[j]
      <3>1. TAKE j \in 1..(i - 1)
      <3>2. j \in 1..n /\ ~(i <= j)
        BY <2>3
      <3> QED BY <2>2, <3>2
    <2>5. k[i] < l[i] \/ l[i] < k[i]
      BY <1>2, <2>3
    <2> QED BY <1>1, <2>3, <2>4, <2>5, Zenon DEF KeyDataLess
  <1>5. ASSUME NEW m \in Seq(Nat), KeyDataLess(k, l), Len(m) = Len(l), KeyDataLess(l, m)
        PROVE  KeyDataLess(k, m)
    <2>1. \A i \in 1..n : m[i] \in Nat
      BY <1>1, <1>5
    <2>2. PICK i \in 1..n : k[i] < l[i] /\ \A j \in 1..(i - 1) : k[j] = l[j]
      BY <1>1, <1>5, Zenon DEF KeyDataLess
    <2>3. PICK h \in 1..n : l[h] < m[h] /\ \A j \in 1..(h - 1) : l[j] = m[j]
      BY <1>1, <1>5, Zenon DEF KeyDataLess
    <2>4. PICK g \in 1..n : g = IF i < h THEN i ELSE h
      OBVIOUS
    <2>5. \A j \in 1..(g - 1) : k[j] = m[j]
      <3>1. TAKE j \in 1..(g - 1)
      <3>2. j \in 1..(i - 1) /\ j \in 1..(h - 1)
        BY <2>4
      <3> QED BY <2>2, <2>3, <3>2
    <2>6. k[g] < m[g]
      <3>1. CASE i < h
        <4>1. g = i /\ i \in 1..(h - 1)
          BY <2>4, <3>1
        <4> QED BY <2>2, <2>3, <4>1
      <3>2. CASE i = h
        <4>1. g = h /\ k[h] \in Nat /\ l[h] \in Nat /\ m[h] \in Nat
          BY <1>2, <2>1, <2>4, <3>2
        <4> QED BY <2>2, <2>3, <3>2, <4>1
      <3>3. CASE h < i
        <4>1. g = h /\ h \in 1..(i - 1)
          BY <2>4, <3>3
        <4> QED BY <2>2, <2>3, <4>1
      <3> QED BY <3>1, <3>2, <3>3
    <2> QED BY <1>1, <2>5, <2>6, Zenon DEF KeyDataLess
  <1> QED BY <1>3, <1>4, <1>5

LEMMA KeyOrder ==
    ASSUME HashIsNumber, NEW k \in Seq(Nat), NEW l \in Seq(Nat)
    PROVE  /\ ~KeyLess(k, k)
           /\ k = l \/ KeyLess(k, l) \/ KeyLess(l, k)
           /\ \A m \in Seq(Nat) : KeyLess(k, l) /\ KeyLess(l, m) => KeyLess(k, m)
  <1>1. PICK h \in [Seq(Nat) -> Nat] : \A key \in Seq(Nat) : h[key] = Hash(key)
    <2>1. [key \in Seq(Nat) |-> Hash(key)] \in [Seq(Nat) -> Nat]
      BY Zenon DEF HashIsNumber
    <2> QED BY <2>1, Zenon
  <1>2. ASSUME NEW a \in Seq(Nat), NEW b \in Seq(Nat)
        PROVE  KeyLess(a, b) <=>
                 \/ h[a] < h[b]
                 \/ h[a] = h[b] /\ Len(a) < Len(b)
                 \/ h[a] = h[b] /\ Len(a) = Len(b) /\ KeyDataLess(a, b)
    BY <1>1, Zenon DEF KeyLess
  <1>3. \A a \in Seq(Nat) : h[a] \in Nat /\ Len(a) \in Nat
    OBVIOUS
  <1>4. ~KeyLess(k, k)
    <2>1. ~KeyDataLess(k, k)
      BY KeyDataOrder, Zenon
    <2>2. ~(h[k] < h[k]) /\ ~(Len(k) < Len(k))
      BY <1>3
    <2> QED BY <1>2, <2>1, <2>2, Zenon
  <1>5. k = l \/ KeyLess(k, l) \/ KeyLess(l, k)
    <2>1. Len(k) = Len(l) => k = l \/ KeyDataLess(k, l) \/ KeyDataLess(l, k)
      BY KeyDataOrder, Zenon
    <2> QED BY SMTT(20), <1>2, <1>3, <2>1
  <1>6. ASSUME NEW m \in Seq(Nat), KeyLess(k, l), KeyLess(l, m) PROVE KeyLess(k, m)
    <2>1. Len(k) = Len(l) /\ Len(m) = Len(l) /\ KeyDataLess(k, l) /\ KeyDataLess(l, m)
            => KeyDataLess(k, m)
      BY KeyDataOrder
    <2>2. KeyLess(k, l) <=>
                 \/ h[k] < h[l]
                 \/ h[k] = h[l] /\ Len(k) < Len(l)
                 \/ h[k] = h[l] /\ Len(k) = Len(l) /\ KeyDataLess(k, l)
      BY <1>2
    <2>3. KeyLess(l, m) <=>
                 \/ h[l] < h[m]
                 \/ h[l] = h[m] /\ Len(l) < Len(m)
                 \/ h[l] = h[m] /\ Len(l) = Len(m) /\ KeyDataLess(l, m)
      BY <1>2
    <2>4. KeyLess(k, m) <=>
                 \/ h[k] < h[m]
                 \/ h[k] = h[m] /\ Len(k) < Len(m)
                 \/ h[k] = h[m] /\ Len(k) = Len(m) /\ KeyDataLess(k, m)
      BY <1>2
    <2>5. PICK hk \in Nat, hl \in Nat, hm \in Nat : hk = h[k] /\ hl = h[l] /\ hm = h[m]
      BY <1>3
    <2>6. PICK nk \in Nat, nl \in Nat, nm \in Nat : nk = Len(k) /\ nl = Len(l) /\ nm = Len(m)
      BY <1>3
    <2> QED BY <1>6, <2>1, <2>2, <2>3, <2>4, <2>5, <2>6
  <1> QED BY <1>4, <1>5, <1>6


\* A relation that orders a finite set: each element has a rank of its own.
Orders(R, A) ==
    /\ \A a \in A : <<a, a>> \notin R
    /\ \A a, b \in A : a = b \/ <<a, b>> \in R \/ <<b, a>> \in R
    /\ \A a, b, c \in A : <<a, b>> \in R /\ <<b, c>> \in R => <<a, c>> \in R

Below(R, A, a) == {b \in A : <<b, a>> \in R}

LEMMA RanksDiffer ==
    ASSUME NEW R, NEW A, IsFiniteSet(A), Orders(R, A),
           NEW a \in A, NEW b \in A, <<a, b>> \in R
    PROVE  Cardinality(Below(R, A, a)) < Cardinality(Below(R, A, b))
  <1>1. Below(R, A, a) \in SUBSET Below(R, A, b)
    BY Zenon DEF Orders, Below
  <1>2. a \in Below(R, A, b) /\ a \notin Below(R, A, a)
    BY Zenon DEF Orders, Below
  <1>3. IsFiniteSet(Below(R, A, b)) /\ IsFiniteSet(Below(R, A, a))
    <2>1. Below(R, A, a) \in SUBSET A /\ Below(R, A, b) \in SUBSET A
      BY DEF Below
    <2> QED BY <2>1, FS_Subset
  <1>4. Below(R, A, a) # Below(R, A, b)
    BY <1>2, Zenon
  <1>5. /\ Cardinality(Below(R, A, a)) <= Cardinality(Below(R, A, b))
        /\ Cardinality(Below(R, A, b)) # Cardinality(Below(R, A, a))
    BY <1>1, <1>3, <1>4, FS_Subset
  <1>6. Cardinality(Below(R, A, a)) \in Nat /\ Cardinality(Below(R, A, b)) \in Nat
    BY <1>3, FS_CardinalityType
  <1> HIDE DEF Below
  <1> QED BY <1>5, <1>6

LEMMA RanksTaken ==
    ASSUME NEW R, NEW A, IsFiniteSet(A), Orders(R, A), NEW n \in Nat, n = Cardinality(A)
    PROVE  /\ \A a \in A : Cardinality(Below(R, A, a)) \in 0..(n - 1)
           /\ \A a, b \in A :
                Cardinality(Below(R, A, a)) = Cardinality(Below(R, A, b)) => a = b
           /\ \A z \in 1..n : \E a \in A : Cardinality(Below(R, A, a)) = z - 1
  <1> DEFINE rank == [a \in A |-> Cardinality(Below(R, A, a))]
  <1>1. ASSUME NEW a \in A PROVE Cardinality(Below(R, A, a)) \in 0..(n - 1)
    <2>1. Below(R, A, a) \in SUBSET A /\ a \notin Below(R, A, a)
      BY DEF Below, Orders
    <2>2. /\ IsFiniteSet(Below(R, A, a))
          /\ Cardinality(Below(R, A, a)) <= n /\ Cardinality(Below(R, A, a)) # n
      <3>1. Below(R, A, a) # A
        BY <2>1, Zenon
      <3> QED BY <2>1, <3>1, FS_Subset
    <2>3. Cardinality(Below(R, A, a)) \in Nat
      BY <2>2, FS_CardinalityType
    <2> QED BY <2>2, <2>3
  <1>2. ASSUME NEW a \in A, NEW b \in A,
               Cardinality(Below(R, A, a)) = Cardinality(Below(R, A, b))
        PROVE  a = b
    <2>1. <<a, b>> \notin R /\ <<b, a>> \notin R
      <3>0. \A x \in 0..(n - 1) : ~(x < x)
        OBVIOUS
      <3>1. ~(Cardinality(Below(R, A, a)) < Cardinality(Below(R, A, b)))
        BY <1>1, <1>2, <3>0, Zenon
      <3>2. ~(Cardinality(Below(R, A, b)) < Cardinality(Below(R, A, a)))
        BY <1>1, <1>2, <3>0, Zenon
      <3> QED BY <3>1, <3>2, RanksDiffer, Zenon
    <2> QED BY <2>1, Zenon DEF Orders
  <1>3. rank \in Injection(A, 0..(n - 1))
    <2>1. rank \in [A -> 0..(n - 1)]
      BY <1>1
    <2>2. \A a, b \in A : rank[a] = rank[b] => a = b
      BY <1>2
    <2> HIDE DEF rank
    <2> QED BY <2>1, <2>2 DEF Injection, IsInjective
  <1>4. IsFiniteSet(0..(n - 1)) /\ Cardinality(0..(n - 1)) = n
    <2>1. 0 \in Int /\ n - 1 \in Int
      OBVIOUS
    <2>2. /\ IsFiniteSet(0..(n - 1))
          /\ Cardinality(0..(n - 1)) = IF 0 > n - 1 THEN 0 ELSE (n - 1) - 0 + 1
      BY <2>1, FS_Interval
    <2> QED BY <2>2
  <1>5. rank \in Surjection(A, 0..(n - 1))
    <2> HIDE DEF rank
    <2> QED BY <1>3, <1>4, FS_Injection
  <1>6. ASSUME NEW z \in 1..n PROVE \E a \in A : Cardinality(Below(R, A, a)) = z - 1
    <2>1. z - 1 \in 0..(n - 1)
      OBVIOUS
    <2>2. \E a \in A : rank[a] = z - 1
      BY <1>5, <2>1, Zenon DEF Surjection
    <2> QED BY <2>2, Zenon
  <1> QED BY <1>1, <1>2, <1>6


Increasing(items) == \A i, j \in 1..Len(items) : i < j => items[i] < items[j]

\* The items of an object in the order in which they were added.
KeyedItems(s, items) ==
    /\ items \in Seq(Nat) /\ Increasing(items)
    /\ \A i \in 1..Len(items) : KeyOf(s, items[i]) \in Seq(Nat)

Before(s, items) == {r \in ToSet(items) \X ToSet(items) : ItemBefore(s, r[1], r[2])}

LEMMA ElementsFacts ==
    ASSUME NEW items \in Seq(Nat), NEW n \in Nat, n = Len(items), Increasing(items)
    PROVE  /\ IsInjective(items) /\ DOMAIN items = 1..n
           /\ IsFiniteSet(ToSet(items)) /\ Cardinality(ToSet(items)) = n
           /\ \A a \in ToSet(items) : a \in Nat /\ \E i \in 1..n : items[i] = a
           /\ \A i \in 1..n : items[i] \in ToSet(items)
  <1>1. DOMAIN items = 1..n /\ \A i \in 1..n : items[i] \in Nat
    OBVIOUS
  <1>2. \A i, j \in 1..n : items[i] = items[j] => i = j
    <2>1. TAKE i, j \in 1..n
    <2>2. i < j \/ i = j \/ j < i
      OBVIOUS
    <2>3. i < j => items[i] < items[j]
      BY Zenon DEF Increasing
    <2>4. j < i => items[j] < items[i]
      BY Zenon DEF Increasing
    <2>5. PICK x \in Nat, y \in Nat : x = items[i] /\ y = items[j]
      BY <1>1
    <2> QED BY <2>2, <2>3, <2>4, <2>5
  <1>3. IsInjective(items)
    BY <1>1, <1>2, Zenon DEF IsInjective
  <1> DEFINE A == ToSet(items)
  <1>4. /\ \A a \in A : \E i \in 1..n : items[i] = a
        /\ \A i \in 1..n : items[i] \in A
    BY <1>1, Zenon DEF ToSet
  <1> HIDE DEF A
  <1>5. items \in [1..n -> A]
    BY <1>1, <1>4
  <1>6. items \in Surjection(1..n, A) /\ items \in Injection(1..n, A)
    BY <1>2, <1>4, <1>5 DEF Surjection, Injection, IsInjective
  <1>7. IsFiniteSet(1..n) /\ Cardinality(1..n) = n
    <2>1. 1 \in Int /\ n \in Int
      OBVIOUS
    <2>2. IsFiniteSet(1..n) /\ Cardinality(1..n) = IF 1 > n THEN 0 ELSE n - 1 + 1
      BY <2>1, FS_Interval
    <2> QED BY <2>2
  <1>8. IsFiniteSet(A) /\ Cardinality(A) = n
    BY <1>6, <1>7, FS_Surjection
  <1>9. \A a \in A : a \in Nat
    BY <1>1, <1>4
  <1> QED BY <1>1, <1>3, <1>4, <1>8, <1>9 DEF A

LEMMA ItemsOrdered ==
    ASSUME HashIsNumber, NEW s, NEW items, KeyedItems(s, items)
    PROVE  /\ Orders(Before(s, items), ToSet(items))
           /\ \A a \in ToSet(items) :
                Below(Before(s, items), ToSet(items), a)
                  = {p \in ToSet(items) : ItemBefore(s, p, a)}
  <1> DEFINE A == ToSet(items)
             R == Before(s, items)
  <1>1. \A a \in A : a \in Nat /\ KeyOf(s, a) \in Seq(Nat)
    <2>1. PICK n \in Nat : n = Len(items)
      BY DEF KeyedItems
    <2>2. \A a \in A : a \in Nat /\ \E i \in 1..n : items[i] = a
      BY <2>1, ElementsFacts DEF KeyedItems
    <2> QED BY <2>1, <2>2, Zenon DEF KeyedItems
  <1>2. \A a, b \in A : <<a, b>> \in R <=> ItemBefore(s, a, b)
    BY DEF Before
  <1> HIDE DEF A, R
  <1>3. ASSUME NEW a \in A PROVE ~ItemBefore(s, a, a)
    <2>1. ~KeyLess(KeyOf(s, a), KeyOf(s, a))
      BY <1>1, KeyOrder, Zenon
    <2>2. ~(a < a)
      BY <1>1
    <2> QED BY <2>1, <2>2, Zenon DEF ItemBefore
  <1>4. ASSUME NEW a \in A, NEW b \in A
        PROVE  a = b \/ ItemBefore(s, a, b) \/ ItemBefore(s, b, a)
    <2>1. \/ KeyOf(s, a) = KeyOf(s, b)
          \/ KeyLess(KeyOf(s, a), KeyOf(s, b)) \/ KeyLess(KeyOf(s, b), KeyOf(s, a))
      BY <1>1, KeyOrder, Zenon
    <2>2. a < b \/ a = b \/ b < a
      BY <1>1
    <2> QED BY <2>1, <2>2, Zenon DEF ItemBefore
  <1>5. ASSUME NEW a \in A, NEW b \in A, NEW c \in A,
               ItemBefore(s, a, b), ItemBefore(s, b, c)
        PROVE  ItemBefore(s, a, c)
    <2>1. PICK k \in Seq(Nat), l \in Seq(Nat), m \in Seq(Nat) :
            k = KeyOf(s, a) /\ l = KeyOf(s, b) /\ m = KeyOf(s, c)
      BY <1>1
    <2>2. KeyLess(k, l) /\ KeyLess(l, m) => KeyLess(k, m)
      BY KeyOrder, Zenon
    <2>3. a < b /\ b < c => a < c
      BY <1>1
    <2>4. /\ KeyLess(k, l) \/ (k = l /\ a < b)
          /\ KeyLess(l, m) \/ (l = m /\ b < c)
      BY <1>5, <2>1, Zenon DEF ItemBefore
    <2>5. KeyLess(k, m) \/ (k = m /\ a < c)
      BY <2>2, <2>3, <2>4, Zenon
    <2> QED BY <2>1, <2>5, Zenon DEF ItemBefore
  <1>6. Orders(R, A)
    BY <1>2, <1>3, <1>4, <1>5, Zenon DEF Orders
  <1>7. \A a \in A : Below(R, A, a) = {p \in A : ItemBefore(s, p, a)}
    <2>1. TAKE a \in A
    <2>2. \A p : p \in Below(R, A, a) <=> p \in A /\ ItemBefore(s, p, a)
      BY <1>2 DEF Below
    <2> QED BY <2>2
  <1> QED BY <1>6, <1>7 DEF A, R

\* Sorting puts the same items into another order.
LEMMA SortedFacts ==
    ASSUME HashIsNumber, NEW s, NEW items, KeyedItems(s, items),
           NEW sorted, sorted = SortedItems(s, items)
    PROVE  /\ sorted \in Seq(Nat) /\ Len(sorted) = Len(items)
           /\ IsInjective(sorted) /\ ToSet(sorted) = ToSet(items)
           /\ \A z \in 1..Len(items) :
                Cardinality({p \in ToSet(items) : ItemBefore(s, p, sorted[z])}) = z - 1
  <1> DEFINE A == ToSet(items)
             rank(a) == Cardinality({p \in A : ItemBefore(s, p, a)})
  <1>1. PICK n \in Nat : n = Len(items)
    BY DEF KeyedItems
  <1>2. /\ IsInjective(items) /\ DOMAIN items = 1..n
        /\ IsFiniteSet(A) /\ n = Cardinality(A)
        /\ \A a \in A : a \in Nat
    BY <1>1, ElementsFacts DEF KeyedItems
  <1>3. /\ \A a \in A : rank(a) \in 0..(n - 1)
        /\ \A a, b \in A : rank(a) = rank(b) => a = b
        /\ \A z \in 1..n : \E a \in A : rank(a) = z - 1
    <2> DEFINE R == Before(s, items)
    <2>1. Orders(R, A) /\ \A a \in A : Cardinality(Below(R, A, a)) = rank(a)
      <3>1. Orders(R, A) /\ \A a \in A : Below(R, A, a) = {p \in A : ItemBefore(s, p, a)}
        BY ItemsOrdered, Zenon
      <3> QED BY <3>1, Zenon
    <2> HIDE DEF rank, A, R
    <2>2. /\ \A a \in A : Cardinality(Below(R, A, a)) \in 0..(n - 1)
          /\ \A a, b \in A : Cardinality(Below(R, A, a)) = Cardinality(Below(R, A, b)) => a = b
          /\ \A z \in 1..n : \E a \in A : Cardinality(Below(R, A, a)) = z - 1
      <3>1. IsFiniteSet(A) /\ Orders(R, A) /\ n \in Nat /\ n = Cardinality(A)
        BY <1>2, <2>1
      <3> QED BY <3>1, RanksTaken
    <2> QED BY <2>1, <2>2, Zenon
  <1>4. sorted = [z \in 1..n |-> CHOOSE o \in A : rank(o) = z - 1]
    BY <1>2, Zenon DEF SortedItems
  <1> HIDE DEF A, rank
  <1>5. ASSUME NEW z \in 1..n PROVE sorted[z] \in A /\ rank(sorted[z]) = z - 1
    BY <1>3, <1>4, Zenon
  <1>6. sorted \in Seq(Nat) /\ Len(sorted) = n /\ DOMAIN sorted = 1..n
    <2>1. \A z \in 1..n : sorted[z] \in Nat
      BY <1>2, <1>5, Zenon
    <2>2. sorted \in [1..n -> Nat]
      BY <1>4, <2>1, Zenon
    <2> QED BY <2>2
  <1>7. IsInjective(sorted)
    <2>1. \A y, z \in 1..n : sorted[y] = sorted[z] => y = z
      <3>1. TAKE y, z \in 1..n
      <3>2. sorted[y] = sorted[z] => y - 1 = z - 1
        BY <1>5, Zenon
      <3>3. y - 1 = z - 1 => y = z
        OBVIOUS
      <3> QED BY <3>2, <3>3
    <2> QED BY <1>6, <2>1, Zenon DEF IsInjective
  <1>8. ToSet(sorted) = A
    <2>1. ASSUME NEW a \in A PROVE \E z \in 1..n : sorted[z] = a
      <3>1. PICK z \in 1..n : rank(a) = z - 1
        <4>1. PICK r \in 0..(n - 1) : rank(a) = r
          BY <1>3
        <4>2. r + 1 \in 1..n /\ (r + 1) - 1 = r
          OBVIOUS
        <4> QED BY <4>1, <4>2, Zenon
      <3>2. rank(sorted[z]) = rank(a) /\ sorted[z] \in A
        BY <1>5, <3>1, Zenon
      <3> QED BY <1>3, <3>2, Zenon
    <2>2. \A x : x \in ToSet(sorted) <=> \E z \in 1..n : sorted[z] = x
      BY <1>6 DEF ToSet
    <2> QED BY <1>5, <2>1, <2>2, Zenon
  <1> QED BY <1>1, <1>5, <1>6, <1>7, <1>8 DEF A, rank


\* An item that all others come before.
Highest(s, items, n, a) ==
    /\ \E i \in 1..n : a = items[i]
    /\ \A i \in 1..n : items[i] = a \/ ItemBefore(s, items[i], a)

LEMMA HighestStep ==
    ASSUME HashIsNumber, NEW s, NEW items, KeyedItems(s, items),
           NEW n \in 1..(Len(items) - 1), NEW a, Highest(s, items, n, a),
           NEW b, b = IF KeyLess(KeyOf(s, items[n + 1]), KeyOf(s, a)) THEN a ELSE items[n + 1]
    PROVE  Highest(s, items, n + 1, b)
  <1>1. PICK N \in Nat : N = Len(items)
    BY DEF KeyedItems
  <1>2. PICK e \in Nat : e = items[n + 1] /\ n + 1 \in 1..N
    BY <1>1 DEF KeyedItems
  <1>3. PICK i \in 1..n : a = items[i]
    BY Zenon DEF Highest
  <1>4. i \in 1..N /\ i < n + 1 /\ a \in Nat
    BY <1>1, <1>3 DEF KeyedItems
  <1>5. a < e
    BY <1>1, <1>2, <1>3, <1>4, Zenon DEF KeyedItems, Increasing
  <1>6. KeyOf(s, a) \in Seq(Nat) /\ KeyOf(s, e) \in Seq(Nat)
    BY <1>1, <1>2, <1>3, <1>4, Zenon DEF KeyedItems
  <1>7. \A j \in 1..(n + 1) : j \in 1..n \/ j = n + 1
    OBVIOUS
  <1>8. CASE KeyLess(KeyOf(s, e), KeyOf(s, a))
    <2>1. b = a
      BY <1>2, <1>8, Zenon
    <2>2. ItemBefore(s, e, a)
      BY <1>8, Zenon DEF ItemBefore
    <2>3. i \in 1..(n + 1)
      BY <1>3
    <2> QED BY <1>2, <1>3, <1>7, <2>1, <2>2, <2>3, Zenon DEF Highest
  <1>9. CASE ~KeyLess(KeyOf(s, e), KeyOf(s, a))
    <2>1. b = e
      BY <1>2, <1>9, Zenon
    <2>2. KeyOf(s, a) = KeyOf(s, e) \/ KeyLess(KeyOf(s, a), KeyOf(s, e))
      BY <1>6, <1>9, KeyOrder, Zenon
    <2>3. ItemBefore(s, a, e)
      BY <1>5, <2>2, Zenon DEF ItemBefore
    <2>4. ASSUME NEW j \in 1..n PROVE ItemBefore(s, items[j], e)
      <3>1. items[j] = a \/ ItemBefore(s, items[j], a)
        BY Zenon DEF Highest
      <3>2. /\ a \in ToSet(items) /\ e \in ToSet(items) /\ items[j] \in ToSet(items)
        <4>1. \A x \in 1..N : items[x] \in ToSet(items)
          BY <1>1, ElementsFacts DEF KeyedItems
        <4>2. j \in 1..N
          BY <1>4, <1>2
        <4> QED BY <1>2, <1>3, <1>4, <4>1, <4>2, Zenon
      <3>3. \A x, y, z \in ToSet(items) :
              ItemBefore(s, x, y) /\ ItemBefore(s, y, z) => ItemBefore(s, x, z)
        <4>1. Orders(Before(s, items), ToSet(items))
          BY ItemsOrdered, Zenon
        <4>2. \A x, y \in ToSet(items) : <<x, y>> \in Before(s, items) <=> ItemBefore(s, x, y)
          BY DEF Before
        <4> QED BY <4>1, <4>2, Zenon DEF Orders
      <3> QED BY <2>3, <3>1, <3>2, <3>3, Zenon
    <2>5. n + 1 \in 1..(n + 1)
      OBVIOUS
    <2> QED BY <1>2, <1>7, <2>1, <2>4, <2>5, Zenon DEF Highest
  <1> QED BY <1>8, <1>9

\* What end_object finds without sorting.
LEMMA HighestFound ==
    ASSUME HashIsNumber, NEW s, NEW items, KeyedItems(s, items),
           NEW n \in Nat, n = Len(items), n > 0
    PROVE  Highest(s, items, n, HighestItem(s, items))
  <1> DEFINE A == ToSet(items)
             next(i, a) == IF KeyLess(KeyOf(s, items[i]), KeyOf(s, a)) THEN a ELSE items[i]
             Is(f) == f = [i \in 1..n |-> IF i = 1 THEN items[1] ELSE next(i, f[i - 1])]
             it == CHOOSE f : Is(f)
  <1>1. /\ IsFiniteSet(A) /\ n = Cardinality(A)
        /\ \A i \in 1..n : items[i] \in A
        /\ \A a \in A : a \in Nat /\ \E i \in 1..n : items[i] = a
    BY ElementsFacts DEF KeyedItems
  <1> HIDE DEF A
  <1>2. \E f : Is(f)
    <2> DEFINE step == [i \in 1..n |-> [a \in A |-> IF i = 1 THEN items[1] ELSE next(i, a)]]
    <2>1. \A i \in 1..n : 1 \in 1..n
      OBVIOUS
    <2>2. step \in [1..n -> [A -> A]]
      BY <1>1, <2>1, Zenon
    <2>3. items[1] \in A
      BY <1>1
    <2> HIDE DEF step, next
    <2>4. PICK g \in [0..n -> A] : Recurs(g, n, items[1], step)
      BY <2>2, <2>3, RecursionExists
    <2> DEFINE f == [i \in 1..n |-> g[i]]
    <2>5. ASSUME NEW i \in 1..n
          PROVE  g[i] = IF i = 1 THEN items[1] ELSE next(i, f[i - 1])
      <3>1. i - 1 \in 0..n /\ g[i - 1] \in A
        OBVIOUS
      <3>2. g[i] = step[i][g[i - 1]]
        BY <2>4, Zenon DEF Recurs
      <3>3. g[i] = IF i = 1 THEN items[1] ELSE next(i, g[i - 1])
        BY <3>1, <3>2, Zenon DEF step
      <3>4. i # 1 => f[i - 1] = g[i - 1]
        <4>1. i # 1 => i - 1 \in 1..n
          OBVIOUS
        <4> QED BY <4>1, Zenon
      <3> QED BY <3>3, <3>4, Zenon
    <2>6. PICK h : h = f
      OBVIOUS
    <2>7. h = [i \in 1..n |-> IF i = 1 THEN items[1] ELSE next(i, h[i - 1])]
      BY <2>5, <2>6, Zenon
    <2> QED BY <2>7, Zenon
  <1>3. Is(it)
    BY <1>2, Zenon
  <1>4. HighestItem(s, items) = it[n]
    BY Zenon DEF HighestItem
  <1> HIDE DEF it
  <1>5. \A i \in 1..n : it[i] = IF i = 1 THEN items[1] ELSE next(i, it[i - 1])
    BY <1>3, Zenon
  <1> DEFINE S == {i \in Nat : 1 <= i /\ i <= n => Highest(s, items, i, it[i])}
  <1>6. 0 \in S
    OBVIOUS
  <1>7. ASSUME NEW i \in Nat, i \in S PROVE i + 1 \in S
    <2> SUFFICES ASSUME i + 1 <= n PROVE Highest(s, items, i + 1, it[i + 1])
      OBVIOUS
    <2>1. PICK m \in 1..n : m = i + 1 /\ m - 1 = i
      OBVIOUS
    <2>2. CASE i = 0
      <3>1. m = 1 /\ it[1] = items[1]
        BY <1>5, <2>1, <2>2
      <3>2. \A j \in 1..1 : j = 1
        OBVIOUS
      <3>3. 1 \in 1..1
        OBVIOUS
      <3> QED BY <2>1, <3>1, <3>2, <3>3, Zenon DEF Highest
    <2>3. CASE i # 0
      <3>1. m # 1 /\ i \in 1..(Len(items) - 1) /\ Highest(s, items, i, it[i])
        BY <1>7, <2>1, <2>3
      <3>2. it[m] = next(m, it[i])
        BY <1>5, <2>1, <3>1, Zenon
      <3> QED BY <2>1, <3>1, <3>2, HighestStep, Zenon
    <2> QED BY <2>2, <2>3
  <1>8. Highest(s, items, n, it[n])
    <2> HIDE DEF S
    <2>1. n \in S
      BY <1>6, <1>7, SetInduction
    <2> QED BY <2>1 DEF S
  <1> QED BY <1>4, <1>8, Zenon

\* It is the last item of those sorted.
LEMMA HighestIsLast ==
    ASSUME HashIsNumber, NEW s, NEW items, KeyedItems(s, items),
           NEW n \in Nat, n = Len(items), n > 0
    PROVE  HighestItem(s, items) = SortedItems(s, items)[n]
  <1> DEFINE A == ToSet(items)
  <1>1. /\ IsFiniteSet(A) /\ n = Cardinality(A)
        /\ \A i \in 1..n : items[i] \in A
        /\ \A a \in A : a \in Nat /\ \E i \in 1..n : items[i] = a
    BY ElementsFacts DEF KeyedItems
  <1> HIDE DEF A
  <1>8. Highest(s, items, n, HighestItem(s, items))
    BY HighestFound
  <1>9. PICK a \in A : a = HighestItem(s, items) /\ \A p \in A : p = a \/ ItemBefore(s, p, a)
    BY <1>1, <1>8, Zenon DEF Highest
  <1>0. PICK sorted : sorted = SortedItems(s, items)
    OBVIOUS
  <1>10. /\ \E z \in 1..n : sorted[z] = a
         /\ \A z \in 1..n : Cardinality({p \in A : ItemBefore(s, p, sorted[z])}) = z - 1
    <2>1. /\ sorted \in Seq(Nat) /\ Len(sorted) = n /\ ToSet(sorted) = A
          /\ \A z \in 1..n : Cardinality({p \in A : ItemBefore(s, p, sorted[z])}) = z - 1
      BY <1>0, SortedFacts DEF A
    <2>2. DOMAIN sorted = 1..n
      BY <2>1
    <2> QED BY <2>1, <2>2, Zenon DEF ToSet
  <1>11. Cardinality({p \in A : ItemBefore(s, p, a)}) = n - 1
    <2>1. ~ItemBefore(s, a, a)
      <3>1. Orders(Before(s, items), A)
        BY ItemsOrdered, Zenon DEF A
      <3>2. <<a, a>> \in Before(s, items) <=> ItemBefore(s, a, a)
        BY DEF Before, A
      <3> QED BY <3>1, <3>2, Zenon DEF Orders
    <2>2. {p \in A : ItemBefore(s, p, a)} = A \ {a}
      BY <1>9, <2>1, Zenon
    <2>3. Cardinality(A \ {a}) = Cardinality(A) - 1
      BY <1>1, FS_RemoveElement
    <2> QED BY <1>1, <2>2, <2>3, Zenon
  <1>12. PICK z \in 1..n : sorted[z] = a /\ z - 1 = n - 1
    BY <1>10, <1>11, Zenon
  <1>13. z = n
    BY <1>12
  <1> QED BY <1>0, <1>9, <1>12, <1>13, Zenon


-----------------------------------------------------------------------------
(***************************************************************************)
(* Each item starts where the one before it ends.                          *)
(***************************************************************************)

Adjacent(s, type, lo, hi) ==
    LET items == ItemsOf(s, type, lo, hi)
    IN  /\ Len(items) > 0 => items[1] = lo
        /\ \A i \in 1..(Len(items) - 1) : items[i + 1] = ItemEnd(s, type, items[i])

LEMMA ItemsAdjacent ==
    ASSUME NEW s \in Seq(Nat), NEW type, NEW hi \in 0..Len(s), NEW lo \in 0..hi
    PROVE  Adjacent(s, type, lo, hi)
  <1> DEFINE S == {n \in Nat : \A o \in 0..hi : hi <= o + n => Adjacent(s, type, o, hi)}
  <1>1. ASSUME NEW o \in 0..hi, ~IsItem(s, type, o, hi) PROVE Adjacent(s, type, o, hi)
    <2>1. ItemsOf(s, type, o, hi) = <<>>
      <3>1. o \in 0..Len(s)
        OBVIOUS
      <3> QED BY <1>1, <3>1, ItemsStep
    <2> QED BY <2>1 DEF Adjacent
  <1>2. ASSUME NEW o \in 0..hi, IsItem(s, type, o, hi),
               Adjacent(s, type, ItemEnd(s, type, o), hi)
        PROVE  Adjacent(s, type, o, hi)
    <2>1. PICK mid \in 0..hi : mid = ItemEnd(s, type, o)
      BY <1>2, ItemFacts
    <2>2. PICK rest \in Seq(Nat) : rest = ItemsOf(s, type, mid, hi)
      BY ItemsTile DEF Tiled
    <2>3. PICK items : items = ItemsOf(s, type, o, hi)
      OBVIOUS
    <2>4. items = <<o>> \o rest
      <3>1. o \in 0..Len(s)
        OBVIOUS
      <3> QED BY <1>2, <2>1, <2>2, <2>3, <3>1, ItemsStep
    <2>5. PICK n \in Nat : n = Len(rest)
      OBVIOUS
    <2>6. /\ Len(items) = n + 1 /\ items[1] = o
          /\ \A i \in 1..n : items[i + 1] = rest[i]
      BY <2>4, <2>5, ConsFacts
    <2>7. /\ n > 0 => rest[1] = mid
          /\ \A i \in 1..(n - 1) : rest[i + 1] = ItemEnd(s, type, rest[i])
      BY <1>2, <2>1, <2>2, <2>5, Zenon DEF Adjacent
    <2>8. ASSUME NEW i \in 1..n PROVE items[i + 1] = ItemEnd(s, type, items[i])
      <3>1. CASE i = 1
        <4>1. items[i + 1] = rest[i] /\ n > 0
          BY <2>6, <3>1
        <4> QED BY <2>1, <2>6, <2>7, <3>1, <4>1, Zenon
      <3>2. CASE i # 1
        <4>1. PICK j \in 1..(n - 1) : i = j + 1
          <5>1. i - 1 \in 1..(n - 1) /\ i = (i - 1) + 1
            BY <3>2
          <5> QED BY <5>1, Zenon
        <4>2. j \in 1..n
          OBVIOUS
        <4>3. items[i] = rest[j] /\ items[i + 1] = rest[i]
          BY <2>6, <4>1, <4>2, Zenon
        <4> QED BY <2>7, <4>1, <4>3, Zenon
      <3> QED BY <3>1, <3>2
    <2>9. (n + 1) - 1 = n
      OBVIOUS
    <2> QED BY <2>3, <2>6, <2>8, <2>9, Zenon DEF Adjacent
  <1>3. 0 \in S
    <2>1. ASSUME NEW o \in 0..hi, hi <= o + 0 PROVE ~IsItem(s, type, o, hi)
      BY <2>1 DEF IsItem
    <2> QED BY <1>1, <2>1
  <1>4. ASSUME NEW n \in Nat, n \in S PROVE n + 1 \in S
    <2>1. ASSUME NEW o \in 0..hi, hi <= o + (n + 1) PROVE Adjacent(s, type, o, hi)
      <3>1. CASE IsItem(s, type, o, hi)
        <4>1. /\ ItemEnd(s, type, o) \in 0..hi
              /\ hi <= ItemEnd(s, type, o) + n
          BY <2>1, <3>1, ItemFacts
        <4>2. Adjacent(s, type, ItemEnd(s, type, o), hi)
          BY <1>4, <4>1
        <4> QED BY <1>2, <3>1, <4>2
      <3> QED BY <1>1, <3>1
    <2> QED BY <2>1
  <1>5. hi \in S
    <2> HIDE DEF S
    <2>1. hi \in Nat
      OBVIOUS
    <2> QED BY <1>3, <1>4, <2>1, SetInduction
  <1> QED BY <1>5

\* Of items: their offsets, values and ends.
LEMMA ItemOf ==
    ASSUME NEW s \in Seq(Nat), NEW type, NEW hi \in 0..Len(s), NEW lo \in 0..hi,
           NEW items, items = ItemsOf(s, type, lo, hi),
           NEW i \in 1..Len(items)
    PROVE  /\ items \in Seq(Nat) /\ items[i] \in Nat /\ lo <= items[i]
           /\ IsItem(s, type, items[i], hi)
           /\ items[i] <= ValueIn(s, type, items[i]) /\ ValueIn(s, type, items[i]) \in Nat
           /\ ValueIn(s, type, items[i]) + 2 <= ItemEnd(s, type, items[i])
           /\ ItemEnd(s, type, items[i]) \in Nat /\ ItemEnd(s, type, items[i]) <= hi
           /\ items[i] < ItemEnd(s, type, items[i])
  <1>1. PICK end \in 0..Len(s) :
          /\ end <= hi /\ items \in Seq(Nat)
          /\ \A j \in 1..Len(items) : lo <= items[j] /\ IsItem(s, type, items[j], end)
    <2>1. Tiled(s, type, lo, hi)
      BY ItemsTile
    <2> DEFINE end == EndOfItems(s, type, lo, items)
    <2>2. /\ end \in Nat /\ end <= hi /\ items \in Seq(Nat)
          /\ \A j \in 1..Len(items) : lo <= items[j] /\ IsItem(s, type, items[j], end)
      BY <2>1, Zenon DEF Tiled
    <2> HIDE DEF end
    <2>3. end \in 0..Len(s)
      BY <2>2
    <2> QED BY <2>2, <2>3, Zenon
  <1>2. PICK p \in Nat : p = items[i]
    BY <1>1
  <1>3. lo <= p /\ IsItem(s, type, p, end)
    BY <1>1, <1>2
  <1>4. /\ ValueIn(s, type, p) \in Nat /\ ItemEnd(s, type, p) \in Nat
        /\ p <= ValueIn(s, type, p) /\ p < end
        /\ ValueIn(s, type, p) + 2 <= ItemEnd(s, type, p)
        /\ ItemEnd(s, type, p) <= end /\ p < ItemEnd(s, type, p)
    BY <1>3, ItemFacts
  <1>5. ItemEnd(s, type, p) <= hi
    BY <1>1, <1>4
  <1>6. IsItem(s, type, p, hi)
    <2>1. PICK v \in Nat, e \in Nat : v = ValueIn(s, type, p) /\ e = ItemEnd(s, type, p)
      BY <1>4, Zenon
    <2>2. end \in Nat /\ end <= hi /\ hi \in Nat
      BY <1>1
    <2>3. p < end /\ v + 2 <= e /\ e <= end
      BY <1>4, <2>1, Zenon
    <2>4. p < hi /\ v + 1 + 1 <= hi /\ e <= hi
      BY ONLY <2>2, <2>3, p \in Nat, v \in Nat, e \in Nat
    <2> QED BY <2>1, <2>4 DEF IsItem, TypeByteSize, SizeOfSize
  <1> QED BY <1>1, <1>2, <1>3, <1>4, <1>5, <1>6, Zenon


LEMMA ItemsIncrease ==
    ASSUME NEW s \in Seq(Nat), NEW type, NEW hi \in 0..Len(s), NEW lo \in 0..hi,
           NEW items, items = ItemsOf(s, type, lo, hi)
    PROVE  items \in Seq(0..Len(s)) /\ Increasing(items)
  <1>1. items \in Seq(Nat)
    BY ItemsTile DEF Tiled
  <1>2. PICK n \in Nat : n = Len(items)
    BY <1>1
  <1>3. ASSUME NEW i \in 1..n
        PROVE  items[i] \in 0..Len(s) /\ (i < n => items[i] < items[i + 1])
    <2>1. /\ items[i] \in Nat /\ items[i] < ItemEnd(s, type, items[i])
          /\ ItemEnd(s, type, items[i]) \in Nat /\ ItemEnd(s, type, items[i]) <= hi
      BY <1>2, ItemOf
    <2>2. i < n => i \in 1..(n - 1)
      OBVIOUS
    <2>3. i < n => items[i + 1] = ItemEnd(s, type, items[i])
      BY <1>2, <2>2, ItemsAdjacent, Zenon DEF Adjacent
    <2>4. PICK x \in Nat, e \in Nat : x = items[i] /\ e = ItemEnd(s, type, items[i])
      BY <2>1
    <2> QED BY <2>1, <2>3, <2>4
  <1>4. items \in Seq(0..Len(s))
    <2>1. items \in [1..n -> 0..Len(s)]
      <3>1. items \in [1..n -> Nat]
        BY <1>1, <1>2
      <3> QED BY <1>3, <3>1
    <2> QED BY <1>2, <2>1
  <1> DEFINE S == {d \in Nat : \A i \in 1..n : i + (d + 1) <= n => items[i] < items[i + (d + 1)]}
  <1>5. 0 \in S
    BY <1>3
  <1>6. ASSUME NEW d \in Nat, d \in S PROVE d + 1 \in S
    <2> SUFFICES ASSUME NEW i \in 1..n, i + (d + 2) <= n
                 PROVE  items[i] < items[i + (d + 2)]
      OBVIOUS
    <2>1. PICK j \in 1..n : j = i + (d + 1) /\ j < n /\ j + 1 = i + (d + 2) /\ j + 1 \in 1..n
      OBVIOUS
    <2>2. items[i] < items[j] /\ items[j] < items[j + 1]
      BY <1>3, <1>6, <2>1
    <2>3. items[i] \in 0..Len(s) /\ items[j] \in 0..Len(s) /\ items[j + 1] \in 0..Len(s)
      BY <1>3, <2>1, Zenon
    <2>4. \A x, y, z \in 0..Len(s) : x < y /\ y < z => x < z
      OBVIOUS
    <2>5. items[i] < items[j + 1]
      BY <2>2, <2>3, <2>4, Zenon
    <2> QED BY <2>1, <2>5, Zenon
  <1>7. Increasing(items)
    <2> SUFFICES ASSUME NEW i \in 1..n, NEW j \in 1..n, i < j PROVE items[i] < items[j]
      BY <1>2, Zenon DEF Increasing
    <2>1. PICK d \in Nat : i + (d + 1) = j
      <3>1. j - i - 1 \in Nat /\ i + ((j - i - 1) + 1) = j
        OBVIOUS
      <3> QED BY <3>1, Zenon
    <2>2. d \in S
      <3> HIDE DEF S
      <3> QED BY <1>5, <1>6, SetInduction
    <2>3. i + (d + 1) <= n
      BY <2>1
    <2>4. items[i] < items[i + (d + 1)]
      BY <2>2, <2>3
    <2> QED BY <2>1, <2>4, Zenon
  <1> QED BY <1>4, <1>7

\* What each item weighs at most for a cell, all weigh for the cells of all.
LEMMA ItemsWeigh ==
    ASSUME NEW s \in Seq(Nat), NEW type, NEW hi \in 0..Len(s), NEW lo \in 0..hi,
           NEW items, items = ItemsOf(s, type, lo, hi),
           NEW w \in Seq(Nat), Len(w) = Len(items),
           \A i \in 1..Len(items) : w[i] <= 8 * (ItemEnd(s, type, items[i]) - items[i])
    PROVE  Total(w) <= 8 * (hi - lo)
  <1>1. items \in Seq(Nat)
    BY ItemsTile DEF Tiled
  <1>2. PICK n \in Nat : n = Len(items)
    BY <1>1
  <1>3. PICK sum \in [0..n -> Nat] : Sums(w, sum) /\ Total(w) = sum[n]
    <2>1. PICK sum \in [0..n -> Nat] : Sums(w, sum)
      BY <1>2, SumsExist
    <2> QED BY <1>2, <2>1, TotalIs
  <1>4. PICK end \in [0..n -> 0..hi] :
          \A i \in 0..n : end[i] = IF i = 0 THEN lo ELSE ItemEnd(s, type, items[i])
    <2>1. ASSUME NEW i \in 1..n PROVE ItemEnd(s, type, items[i]) \in 0..hi
      <3>1. ItemEnd(s, type, items[i]) \in Nat /\ ItemEnd(s, type, items[i]) <= hi
        BY <1>2, ItemOf
      <3> QED BY <3>1
    <2> DEFINE end == [i \in 0..n |-> IF i = 0 THEN lo ELSE ItemEnd(s, type, items[i])]
    <2>2. \A i \in 0..n : i = 0 \/ i \in 1..n
      OBVIOUS
    <2>3. end \in [0..n -> 0..hi]
      BY <2>1, <2>2, Zenon
    <2> QED BY <2>3, Zenon
  <1>5. ASSUME NEW i \in 1..n PROVE items[i] = end[i - 1]
    <2>1. CASE i = 1
      <3>1. Len(items) > 0 /\ i - 1 = 0 /\ 0 \in 0..n
        BY <1>2, <2>1
      <3>2. items[1] = lo
        BY <3>1, ItemsAdjacent, Zenon DEF Adjacent
      <3> QED BY <1>4, <2>1, <3>1, <3>2, Zenon
    <2>2. CASE i # 1
      <3>1. PICK j \in 1..(n - 1) : i - 1 = j /\ i = j + 1 /\ j # 0 /\ j \in 0..n
        <4>1. /\ i - 1 \in 1..(n - 1) /\ i = (i - 1) + 1
              /\ i - 1 # 0 /\ i - 1 \in 0..n
          BY <2>2
        <4> QED BY <4>1
      <3>2. items[j + 1] = ItemEnd(s, type, items[j])
        BY <1>2, ItemsAdjacent, ZenonT(40) DEF Adjacent
      <3> QED BY <1>4, <3>1, <3>2, Zenon
    <2> QED BY <2>1, <2>2
  <1> DEFINE S == {i \in Nat : i <= n => sum[i] <= 8 * (end[i] - lo)}
  <1>6. 0 \in S
    BY <1>3, <1>4 DEF Sums
  <1>7. ASSUME NEW i \in Nat, i \in S PROVE i + 1 \in S
    <2> SUFFICES ASSUME i + 1 <= n PROVE sum[i + 1] <= 8 * (end[i + 1] - lo)
      OBVIOUS
    <2>1. PICK m \in 1..n : m = i + 1 /\ m - 1 = i /\ i \in 0..n /\ m # 0 /\ m \in 0..n
      OBVIOUS
    <2>2. sum[m] = sum[i] + w[m] /\ w[m] \in Nat
      BY <1>2, <1>3, <2>1 DEF Sums
    <2>3. PICK a \in Nat, b \in Nat : a = end[i] /\ b = end[m]
      <3>1. end[i] \in 0..hi /\ end[m] \in 0..hi
        BY <2>1
      <3>2. \A e \in 0..hi : e \in Nat
        OBVIOUS
      <3> QED BY <3>1, <3>2, Zenon
    <2>4. w[m] <= 8 * (b - a)
      <3>1. w[m] <= 8 * (ItemEnd(s, type, items[m]) - items[m])
        BY <1>2
      <3>2. items[m] = a /\ ItemEnd(s, type, items[m]) = b
        BY <1>4, <1>5, <2>1, <2>3, Zenon
      <3> QED BY <3>1, <3>2, Zenon
    <2>5. PICK x \in Nat, y \in Nat : x = sum[i] /\ y = w[m]
      BY <2>1, <2>2
    <2>6. x <= 8 * (a - lo)
      BY <1>7, <2>1, <2>3, <2>5
    <2>7. x + y <= 8 * (b - lo)
      <3>1. y <= 8 * (b - a)
        BY <2>4, <2>5, Zenon
      <3>2. lo \in Nat
        OBVIOUS
      <3> QED BY <2>6, <3>1, <3>2
    <2> QED BY <2>1, <2>2, <2>3, <2>5, <2>7
  <1>8. n \in S
    <2> HIDE DEF S
    <2> QED BY <1>6, <1>7, SetInduction
  <1>9. sum[n] \in Nat /\ end[n] \in 0..hi /\ sum[n] <= 8 * (end[n] - lo)
    BY <1>8
  <1>10. sum[n] <= 8 * (hi - lo)
    BY <1>9
  <1> QED BY <1>3, <1>10


-----------------------------------------------------------------------------
(***************************************************************************)
(* The widths of integers and the bytes that they take                     *)
(***************************************************************************)

\* Everything that write sends is one of these.
Bytes == Nat \union {(u \div Base ^ k) % Base : u \in Nat, k \in Nat}

Summed(n, a, b, w) ==
    /\ a \in Seq(Nat) /\ b \in Seq(Nat) /\ w \in Seq(Nat)
    /\ Len(a) = n /\ Len(b) = n /\ Len(w) = n /\ \A i \in 1..n : w[i] = a[i] + b[i]

LEMMA TotalPlus ==
    ASSUME NEW n \in Nat, NEW a, NEW b, NEW w, Summed(n, a, b, w)
    PROVE  Total(w) = Total(a) + Total(b)
  <1>0. /\ a \in Seq(Nat) /\ b \in Seq(Nat) /\ w \in Seq(Nat)
        /\ Len(a) = n /\ Len(b) = n /\ Len(w) = n /\ \A i \in 1..n : w[i] = a[i] + b[i]
    BY Zenon DEF Summed
  <1>1. PICK f \in [0..n -> Nat] : Sums(a, f)
    BY <1>0, SumsExist
  <1>2. PICK g \in [0..n -> Nat] : Sums(b, g)
    BY <1>0, SumsExist
  <1> DEFINE sum == [i \in 0..n |-> f[i] + g[i]]
  <1>3. \A i \in 0..n : sum[i] = f[i] + g[i]
    OBVIOUS
  <1> HIDE DEF sum
  <1>4. Sums(w, sum)
    <2>1. sum[0] = 0
      <3>1. f[0] = 0 /\ g[0] = 0
        BY <1>0, <1>1, <1>2 DEF Sums
      <3>2. 0 \in 0..n /\ 0 + 0 = 0
        OBVIOUS
      <3> QED BY <1>3, <3>1, <3>2, Zenon
    <2>2. ASSUME NEW i \in 1..n PROVE sum[i] = sum[i - 1] + w[i]
      <3>1. f[i] = f[i - 1] + a[i] /\ g[i] = g[i - 1] + b[i]
        BY <1>0, <1>1, <1>2 DEF Sums
      <3>2. i - 1 \in 0..n /\ i \in 0..n
        OBVIOUS
      <3>3. PICK x \in Nat, y \in Nat : x = f[i - 1] /\ y = g[i - 1]
        BY <3>2
      <3>4. PICK p \in Nat, q \in Nat : p = a[i] /\ q = b[i]
        <4>1. a[i] \in Nat /\ b[i] \in Nat
          BY <1>0, ElementOfSeq, Zenon
        <4> QED BY <4>1, Zenon
      <3>5. sum[i] = (x + p) + (y + q) /\ sum[i - 1] = x + y /\ w[i] = p + q
        BY <1>0, <1>3, <3>1, <3>2, <3>3, <3>4, Zenon
      <3>6. (x + p) + (y + q) = (x + y) + (p + q)
        OBVIOUS
      <3> QED BY <3>5, <3>6, Zenon
    <2> QED BY <1>0, <2>1, <2>2 DEF Sums
  <1>5. Total(w) = sum[n] /\ Total(a) = f[n] /\ Total(b) = g[n] /\ n \in 0..n
    BY <1>0, <1>1, <1>2, <1>4, TotalIs
  <1> QED BY <1>3, <1>5, Zenon

LEMMA TotalConstant ==
    ASSUME NEW n \in Nat, NEW c \in Nat, NEW w \in Seq(Nat), Len(w) = n,
           \A i \in 1..n : w[i] = c
    PROVE  Total(w) = n * c
  <1> DEFINE sum == [i \in 0..n |-> i * c]
  <1>1. \A i \in 0..n : sum[i] = i * c
    OBVIOUS
  <1>2. 0 * c = 0
    OBVIOUS
  <1> HIDE DEF sum
  <1>3. Sums(w, sum)
    <2>1. ASSUME NEW i \in 1..n PROVE sum[i] = sum[i - 1] + w[i]
      <3>1. i - 1 \in 0..n /\ i \in 0..n
        OBVIOUS
      <3>2. i * c = (i - 1) * c + c
        OBVIOUS
      <3> QED BY <1>1, <3>1, <3>2, Zenon
    <2>2. sum[0] = 0
      BY <1>1, <1>2
    <2> QED BY <2>1, <2>2 DEF Sums
  <1>4. Total(w) = sum[n]
    BY <1>3, TotalIs
  <1> QED BY <1>1, <1>4

LEMMA WidthFacts ==
    ASSUME NEW len \in Int
    PROVE  /\ OptimalStorageSize(len) \in 0..3
           /\ OptimalStorageSize1(len + 1) = OptimalStorageSize(len)
  <1>1. PICK p \in Nat, q \in Nat : p = Base * Base /\ q = Base * Base * Base * Base
    BY BaseAssumption
  <1>2. Base \in Nat
    BY BaseAssumption
  <1>3. /\ len > p - 1 <=> len + 1 > p
        /\ len > q - 1 <=> len + 1 > q
        /\ len > Base - 1 <=> len + 1 > Base
    BY <1>2
  <1>4. 0 \in 0..3 /\ 1 \in 0..3 /\ 2 \in 0..3 /\ 3 \in 0..3
    OBVIOUS
  <1>5. OptimalStorageSize(len) \in 0..3
    BY <1>4, Zenon DEF OptimalStorageSize
  <1>6. OptimalStorageSize(len) =
          IF len > p - 1 THEN IF len > q - 1 THEN 3 ELSE 2
          ELSE IF len > Base - 1 THEN 1 ELSE 0
    BY <1>1, Zenon DEF OptimalStorageSize
  <1>7. OptimalStorageSize1(len + 1) =
          IF len + 1 > p THEN IF len + 1 > q THEN 3 ELSE 2
          ELSE IF len + 1 > Base THEN 1 ELSE 0
    BY <1>1, Zenon DEF OptimalStorageSize1
  <1> QED BY <1>3, <1>5, <1>6, <1>7, Zenon

LEMMA WidthBytes ==
    ASSUME NEW w \in 0..3
    PROVE  /\ OptimalStorageSizeBytes(w) \in 1..8
           /\ \A u \in Nat : /\ CompactInt(u, w) \in Seq(Bytes)
                             /\ Len(CompactInt(u, w)) = OptimalStorageSizeBytes(w)
  <1>1. 2 ^ 0 = 1 /\ 2 ^ 1 = 2 /\ 2 ^ 2 = 4 /\ 2 ^ 3 = 8
    <2>1. 2 ^ (0 + 1) = 2 ^ 0 + 2 ^ 0 /\ 2 ^ (1 + 1) = 2 ^ 1 + 2 ^ 1
      BY PowerDoubles
    <2>2. 2 ^ (2 + 1) = 2 ^ 2 + 2 ^ 2
      BY PowerDoubles
    <2>3. 0 + 1 = 1 /\ 1 + 1 = 2 /\ 2 + 1 = 3
      OBVIOUS
    <2> QED BY <2>1, <2>2, <2>3, PowerOfZero
  <1>2. OptimalStorageSizeBytes(w) \in 1..8
    <2>1. w = 0 \/ w = 1 \/ w = 2 \/ w = 3
      OBVIOUS
    <2>2. 1 \in 1..8 /\ 2 \in 1..8 /\ 4 \in 1..8 /\ 8 \in 1..8
      OBVIOUS
    <2> QED BY <1>1, <2>1, <2>2, Zenon DEF OptimalStorageSizeBytes
  <1>3. PICK n \in 1..8 : n = OptimalStorageSizeBytes(w)
    BY <1>2
  <1>4. ASSUME NEW u \in Nat
        PROVE  CompactInt(u, w) \in Seq(Bytes) /\ Len(CompactInt(u, w)) = n
    <2>1. CompactInt(u, w) = [i \in 1..n |-> (u \div Base ^ (i - 1)) % Base]
      BY <1>3, Zenon DEF CompactInt
    <2>2. \A i \in 1..n : (u \div Base ^ (i - 1)) % Base \in Bytes
      <3>1. TAKE i \in 1..n
      <3>2. PICK k \in Nat : k = i - 1
        OBVIOUS
      <3>3. (u \div Base ^ k) % Base \in {(v \div Base ^ j) % Base : v \in Nat, j \in Nat}
        OBVIOUS
      <3> QED BY <3>2, <3>3 DEF Bytes
    <2>3. CompactInt(u, w) \in [1..n -> Bytes]
      BY <2>1, <2>2, Zenon
    <2> QED BY <2>3
  <1> QED BY <1>2, <1>3, <1>4

LEMMA OffsetsLength ==
    ASSUME NEW sizes \in Seq(Nat), NEW w \in 0..3
    PROVE  /\ Offsets(sizes, w) \in Seq(Bytes)
           /\ Len(Offsets(sizes, w)) = Len(sizes) * OptimalStorageSizeBytes(w)
  <1>1. PICK n \in Nat : n = Len(sizes) /\ DOMAIN sizes = 1..n
    OBVIOUS
  <1>2. PICK c \in Nat : c = OptimalStorageSizeBytes(w)
    BY WidthBytes
  <1> DEFINE ints == [z \in 1..n |-> CompactInt(Total(SubSeq(sizes, 1, z)), w)]
             lens == [z \in 1..n |-> c]
  <1>3. Offsets(sizes, w) = FlattenSeq(ints)
    BY <1>1, Zenon DEF Offsets
  <1>4. ASSUME NEW z \in 1..n PROVE ints[z] \in Seq(Bytes) /\ Len(ints[z]) = c
    <2>1. SubSeq(sizes, 1, z) \in Seq(Nat)
      BY <1>1
    <2>2. Total(SubSeq(sizes, 1, z)) \in Nat
      BY <2>1, TotalType
    <2> QED BY <1>2, <2>2, WidthBytes
  <1>5. ints \in Seq(Seq(Bytes)) /\ Len(ints) = n
    <2>1. \A z \in 1..n : CompactInt(Total(SubSeq(sizes, 1, z)), w) \in Seq(Bytes)
      BY <1>4
    <2>2. ints \in [1..n -> Seq(Bytes)]
      BY <2>1
    <2> HIDE DEF ints
    <2> QED BY <2>2
  <1>6. lens \in Seq(Nat) /\ Len(lens) = n /\ \A z \in 1..n : lens[z] = c
    OBVIOUS
  <1> HIDE DEF ints, lens
  <1>7. /\ FlattenSeq(ints) \in Seq(Bytes)
        /\ Len(FlattenSeq(ints)) = Total(lens)
    BY <1>4, <1>5, <1>6, FlattenLength
  <1>8. Total(lens) = n * c
    BY <1>6, TotalConstant
  <1> QED BY <1>1, <1>2, <1>3, <1>7, <1>8


-----------------------------------------------------------------------------
(***************************************************************************)
(* What write sends for a value depends on the values behind it.           *)
(***************************************************************************)

LEMMA KeyFactsOf ==
    ASSUME NEW s \in Seq(Nat), NEW hi \in 0..Len(s), NEW lo \in 0..hi,
           NEW items, items = ItemsOf(s, OBJECT, lo, hi)
    PROVE  /\ KeyedItems(s, items)
           /\ \A i \in 1..Len(items) :
                /\ KeySize(s, items[i]) \in Nat
                /\ Len(KeyOf(s, items[i])) = KeySize(s, items[i])
                /\ KeyOf(s, items[i]) \in Seq(Nat)
                /\ ValueIn(s, OBJECT, items[i]) = items[i] + 1 + KeySize(s, items[i])
  <1>1. items \in Seq(Nat) /\ Increasing(items)
    BY ItemsIncrease, ItemsTile DEF Tiled
  <1>2. ASSUME NEW i \in 1..Len(items)
        PROVE  /\ KeySize(s, items[i]) \in Nat
               /\ Len(KeyOf(s, items[i])) = KeySize(s, items[i])
               /\ KeyOf(s, items[i]) \in Seq(Nat)
               /\ ValueIn(s, OBJECT, items[i]) = items[i] + 1 + KeySize(s, items[i])
    <2>1. PICK p \in Nat : p = items[i]
      BY <1>1
    <2>2. /\ p <= ValueIn(s, OBJECT, p) /\ ValueIn(s, OBJECT, p) \in Nat
          /\ ValueIn(s, OBJECT, p) + 2 <= ItemEnd(s, OBJECT, p)
          /\ ItemEnd(s, OBJECT, p) \in Nat /\ ItemEnd(s, OBJECT, p) <= hi
          /\ p < ItemEnd(s, OBJECT, p)
      BY <2>1, ItemOf
    <2>3. PICK n \in Nat : n = Cell(s, p)
      <3>1. p < Len(s)
        BY <2>2
      <3> QED BY <3>1, CellType
    <2>4. ValueIn(s, OBJECT, p) = p + 1 + n /\ KeySize(s, p) = n
      BY <2>3 DEF ValueIn, ValueOf, KeySize, SizeOfSize
    <2>5. (p + 1) + n <= Len(s) /\ p + 1 \in Nat
      BY <2>2, <2>4
    <2>6. KeyOf(s, p) = Slice(s, p + 1, n)
      BY <2>4 DEF KeyOf, SizeOfSize
    <2>7. KeyOf(s, p) \in Seq(Nat) /\ Len(KeyOf(s, p)) = n
      BY <2>5, <2>6, SliceFacts
    <2> QED BY <2>1, <2>4, <2>7, Zenon
  <1> QED BY <1>1, <1>2, Zenon DEF KeyedItems

LEMMA KeyedAt ==
    ASSUME NEW s \in Seq(Nat), NEW o \in ValueOffsets(s), Cell(s, o) = OBJECT
    PROVE  KeyedItems(s, ItemsAt(s, o))
  <1>1. FirstItem(o) \in Nat /\ EndOfValue(s, o) \in Nat
    BY HeadFacts
  <1>2. CASE FirstItem(o) <= EndOfValue(s, o) /\ EndOfValue(s, o) <= Len(s)
    <2>1. EndOfValue(s, o) \in 0..Len(s) /\ FirstItem(o) \in 0..EndOfValue(s, o)
      BY <1>1, <1>2
    <2>2. ItemsAt(s, o) = ItemsOf(s, OBJECT, FirstItem(o), EndOfValue(s, o))
      BY Zenon DEF ItemsAt
    <2> QED BY <2>1, <2>2, KeyFactsOf, Zenon
  <1>3. CASE ~(FirstItem(o) <= EndOfValue(s, o) /\ EndOfValue(s, o) <= Len(s))
    <2>1. ItemsAt(s, o) = <<>>
      BY <1>3, Zenon DEF ItemsAt, ItemsOf
    <2> QED BY <2>1 DEF KeyedItems, Increasing
  <1> QED BY <1>2, <1>3

LEMMA WrittenFacts ==
    ASSUME HashIsNumber, NEW s \in Seq(Nat), NEW o \in ValueOffsets(s),
           NEW written, written = WrittenItems(s, o)
    PROVE  /\ written \in Seq(Nat)
           /\ \A z \in 1..Len(written) :
                LET v == ValueIn(s, Cell(s, o), written[z])
                IN  v \in ValueOffsets(s) /\ o < v
  <1>1. PICK items \in Seq(Nat) : items = ItemsAt(s, o)
    BY ItemsAtFacts
  <1>2. \A i \in 1..Len(items) :
          /\ ValueIn(s, Cell(s, o), items[i]) \in ValueOffsets(s)
          /\ o < ValueIn(s, Cell(s, o), items[i])
    BY <1>1, ItemsAtFacts
  <1>3. CASE Cell(s, o) # OBJECT
    <2>1. written = items
      BY <1>1, <1>3, Zenon DEF WrittenItems
    <2> QED BY <1>2, <2>1, Zenon
  <1>4. CASE Cell(s, o) = OBJECT
    <2>1. written = SortedItems(s, items) /\ KeyedItems(s, items)
      BY <1>1, <1>4, KeyedAt, Zenon DEF WrittenItems
    <2>2. /\ written \in Seq(Nat) /\ Len(written) = Len(items)
          /\ ToSet(written) = ToSet(items)
      BY <2>1, SortedFacts
    <2>3. ASSUME NEW z \in 1..Len(written) PROVE \E i \in 1..Len(items) : written[z] = items[i]
      <3>1. DOMAIN written = 1..Len(written) /\ DOMAIN items = 1..Len(items)
        BY <2>2
      <3>2. written[z] \in ToSet(items)
        BY <2>2, <3>1, Zenon DEF ToSet
      <3> QED BY <3>1, <3>2, Zenon DEF ToSet
    <2> QED BY <1>2, <2>2, <2>3, Zenon
  <1> QED BY <1>3, <1>4

LEMMA EmitValueLocal ==
    ASSUME HashIsNumber, NEW s \in Seq(Nat), NEW o \in ValueOffsets(s),
           NEW emit, NEW emit2,
           \A p \in ValueOffsets(s) : o < p => emit2[p] = emit[p]
    PROVE  EmitValue(s, emit2, o, WrittenItems(s, o)) =
             EmitValue(s, emit, o, WrittenItems(s, o))
  <1>1. PICK items : items = WrittenItems(s, o)
    OBVIOUS
  <1>2. /\ items \in Seq(Nat)
        /\ \A z \in 1..Len(items) :
             /\ ValueIn(s, Cell(s, o), items[z]) \in ValueOffsets(s)
             /\ o < ValueIn(s, Cell(s, o), items[z])
    BY <1>1, WrittenFacts
  <1>3. DOMAIN items = 1..Len(items)
    BY <1>2
  <1>4. PICK type : type = Cell(s, o)
    OBVIOUS
  <1>5. \A z \in DOMAIN items :
          emit2[ValueIn(s, type, items[z])] = emit[ValueIn(s, type, items[z])]
    BY <1>2, <1>3, <1>4, Zenon
  <1>6. EmitItems(s, type, emit2, items) = EmitItems(s, type, emit, items)
    BY <1>5, Zenon DEF EmitItems
  <1>7. ARRAY # OBJECT
    BY DEF ARRAY, OBJECT
  <1> QED BY <1>1, <1>4, <1>6, <1>7, Zenon DEF EmitValue


Emitting(s, emit, offsets) ==
    emit = [o \in offsets |-> EmitValue(s, emit, o, WrittenItems(s, o))]

LEMMA EmittedExists ==
    ASSUME HashIsNumber, NEW s \in Seq(Nat)
    PROVE  \E emit : Emitting(s, emit, ValueOffsets(s))
  <1> DEFINE N == Len(s)
             From(n) == {o \in ValueOffsets(s) : N <= o + n}
             S == {n \in Nat : \E w : Emitting(s, w, From(n))}
  <1>0. N \in Nat /\ \A o \in ValueOffsets(s) : o \in Nat /\ o < N
    BY DEF ValueOffsets, TypeByteSize, SizeOfSize
  <1>1. 0 \in S
    <2>1. From(0) = {}
      BY <1>0
    <2> DEFINE w == [o \in {} |-> <<>>]
    <2>2. Emitting(s, w, {})
      BY DEF Emitting
    <2> QED BY <2>1, <2>2
  <1>2. ASSUME NEW n \in Nat, n \in S PROVE n + 1 \in S
    <2>1. PICK w : Emitting(s, w, From(n))
      BY <1>2
    <2> HIDE DEF N
    <2> DEFINE w2 == [o \in From(n + 1) |-> EmitValue(s, w, o, WrittenItems(s, o))]
    <2>2. \A o \in From(n) : w2[o] = w[o]
      <3>1. TAKE o \in From(n)
      <3>2. o \in From(n + 1)
        BY <1>0
      <3>3. w[o] = EmitValue(s, w, o, WrittenItems(s, o))
        BY <2>1, <3>1, Zenon DEF Emitting
      <3>4. w2[o] = EmitValue(s, w, o, WrittenItems(s, o))
        BY <3>2, Zenon
      <3> QED BY <3>3, <3>4, Zenon
    <2>3. ASSUME NEW o \in From(n + 1)
          PROVE  EmitValue(s, w, o, WrittenItems(s, o)) = EmitValue(s, w2, o, WrittenItems(s, o))
      <3>1. \A p \in ValueOffsets(s) : o < p => p \in From(n)
        BY <1>0
      <3>2. \A p \in ValueOffsets(s) : o < p => w2[p] = w[p]
        BY <2>2, <3>1, Zenon
      <3>3. o \in ValueOffsets(s)
        OBVIOUS
      <3> HIDE DEF w2
      <3> QED BY <3>2, <3>3, EmitValueLocal, Zenon
    <2>4. Emitting(s, w2, From(n + 1))
      BY <2>3, Zenon DEF Emitting
    <2> HIDE DEF w2, From
    <2>5. n + 1 \in Nat /\ \E v : Emitting(s, v, From(n + 1))
      BY <2>4
    <2> QED BY <2>5, Zenon
  <1>3. N \in S
    <2> HIDE DEF S
    <2> QED BY <1>0, <1>1, <1>2, SetInduction
  <1>4. From(N) = ValueOffsets(s)
    BY <1>0
  <1> QED BY <1>3, <1>4

LEMMA EmittedStep ==
    ASSUME HashIsNumber, NEW s \in Seq(Nat), NEW o \in ValueOffsets(s)
    PROVE  Emitted(s)[o] = EmitValue(s, Emitted(s), o, WrittenItems(s, o))
  <1> DEFINE emit == CHOOSE w : Emitting(s, w, ValueOffsets(s))
  <1>1. Emitting(s, emit, ValueOffsets(s))
    BY EmittedExists, Zenon
  <1>2. Emitted(s) = emit
    BY Zenon DEF Emitted, Emitting
  <1> HIDE DEF emit
  <1>3. emit[o] = EmitValue(s, emit, o, WrittenItems(s, o))
    BY <1>1, Zenon DEF Emitting
  <1> QED BY <1>2, <1>3, Zenon


-----------------------------------------------------------------------------
(***************************************************************************)
(* What write sends for a container has the size that was predicted, when  *)
(* this is so for the values in it.                                        *)
(***************************************************************************)

\* A value is sent with its size, and takes a bounded number of bytes for
\* each of its cells but the first.
Emits(s, v) ==
    /\ Emitted(s)[v] \in Seq(Bytes)
    /\ Len(Emitted(s)[v]) = SizeValue(s, v)
    /\ SizeValue(s, v) \in 1..(8 * (EndOfValue(s, v) - v - 1))

EmitsItems(s, type, items) ==
    \A i \in 1..Len(items) : Emits(s, ValueIn(s, type, items[i]))

\* Without the bound.
Sends(s, v) ==
    /\ Emitted(s)[v] \in Seq(Bytes)
    /\ Len(Emitted(s)[v]) = SizeValue(s, v) /\ SizeValue(s, v) \in Nat \ {0}

SendsItems(s, type, items) ==
    \A i \in 1..Len(items) : Sends(s, ValueIn(s, type, items[i]))

LEMMA ItemsSent ==
    ASSUME NEW s, NEW type, NEW items \in Seq(Nat), SendsItems(s, type, items)
    PROVE  /\ ValueSizes(s, type, items) \in Seq(Nat)
           /\ Len(ValueSizes(s, type, items)) = Len(items)
           /\ \A i \in 1..Len(items) :
                /\ ValueSizes(s, type, items)[i] = SizeValue(s, ValueIn(s, type, items[i]))
                /\ ValueSizes(s, type, items)[i] \in Nat \ {0}
           /\ EmitItems(s, type, Emitted(s), items) \in Seq(Bytes)
           /\ Len(EmitItems(s, type, Emitted(s), items)) = Total(ValueSizes(s, type, items))
  <1>1. PICK n \in Nat : n = Len(items) /\ DOMAIN items = 1..n
    OBVIOUS
  <1> DEFINE sizes == [z \in 1..n |-> SizeValue(s, ValueIn(s, type, items[z]))]
             sent  == [z \in 1..n |-> Emitted(s)[ValueIn(s, type, items[z])]]
  <1>2. ValueSizes(s, type, items) = sizes
    BY <1>1, Zenon DEF ValueSizes
  <1>3. EmitItems(s, type, Emitted(s), items) = FlattenSeq(sent)
    BY <1>1, Zenon DEF EmitItems
  <1>4. \A z \in 1..n : /\ sizes[z] = SizeValue(s, ValueIn(s, type, items[z]))
                        /\ sizes[z] \in Nat \ {0} /\ sizes[z] \in Nat
                        /\ sent[z] \in Seq(Bytes) /\ Len(sent[z]) = sizes[z]
    BY <1>1 DEF SendsItems, Sends
  <1>5. sizes \in [1..n -> Nat] /\ sent \in [1..n -> Seq(Bytes)]
    BY <1>4, Zenon
  <1> HIDE DEF sizes, sent
  <1>6. /\ sizes \in Seq(Nat) /\ Len(sizes) = n
        /\ sent \in Seq(Seq(Bytes)) /\ Len(sent) = n
    BY <1>5
  <1>7. FlattenSeq(sent) \in Seq(Bytes) /\ Len(FlattenSeq(sent)) = Total(sizes)
    BY <1>4, <1>6, FlattenLength
  <1> QED BY <1>1, <1>2, <1>3, <1>4, <1>6, <1>7, Zenon

LEMMA FunctionSeq ==
    ASSUME NEW S, NEW n \in Nat, NEW f \in [1..n -> S]
    PROVE  f \in Seq(S) /\ Len(f) = n
  OBVIOUS

\* Sorting leaves sums as they are.
SortedBy(s, items, M, sorted, f, a, b) ==
    /\ KeyedItems(s, items) /\ M \in Nat /\ items \in Seq(0..M)
    /\ sorted = SortedItems(s, items) /\ f \in [ToSet(items) -> Nat]
    /\ a \in Seq(Nat) /\ b \in Seq(Nat) /\ Len(a) = Len(items) /\ Len(b) = Len(items)
    /\ \A i \in 1..Len(items) : a[i] = f[items[i]] /\ b[i] = f[sorted[i]]

LEMMA SortedTotal ==
    ASSUME HashIsNumber, NEW s, NEW items, NEW M, NEW sorted, NEW f, NEW a, NEW b,
           SortedBy(s, items, M, sorted, f, a, b)
    PROVE  Total(a) = Total(b)
  <1>0. /\ KeyedItems(s, items) /\ M \in Nat /\ items \in Seq(0..M)
        /\ sorted = SortedItems(s, items) /\ f \in [ToSet(items) -> Nat]
        /\ a \in Seq(Nat) /\ b \in Seq(Nat) /\ Len(a) = Len(items) /\ Len(b) = Len(items)
        /\ \A i \in 1..Len(items) : a[i] = f[items[i]] /\ b[i] = f[sorted[i]]
    BY Zenon DEF SortedBy
  <1>1. PICK n \in Nat : n = Len(items)
    BY <1>0 DEF KeyedItems
  <1>2. /\ sorted \in Seq(Nat) /\ Len(sorted) = n
        /\ IsInjective(sorted) /\ ToSet(sorted) = ToSet(items)
    BY <1>0, <1>1, SortedFacts
  <1>3. /\ IsInjective(items) /\ DOMAIN items = 1..n
        /\ \A i \in 1..n : items[i] \in ToSet(items)
    BY <1>0, <1>1, ElementsFacts DEF KeyedItems
  <1>4. \A i \in 1..n : sorted[i] \in ToSet(items)
    <2>1. DOMAIN sorted = 1..n
      BY <1>2
    <2> QED BY <1>2, <2>1, Zenon DEF ToSet
  <1>5. ToSet(items) \subseteq 0..M
    <2>1. \A i \in 1..n : items[i] \in 0..M
      BY <1>0, <1>1, ElementOfSeq, Zenon
    <2> QED BY <1>3, <2>1, Zenon DEF ToSet
  <1>6. sorted \in Seq(0..M)
    <2>1. sorted \in [1..n -> 0..M]
      <3>1. sorted \in [1..n -> Nat]
        BY <1>2
      <3>2. \A i \in 1..n : sorted[i] \in 0..M
        BY <1>4, <1>5, Zenon
      <3> QED BY <3>1, <3>2, Zenon
    <2> QED BY <2>1, FunctionSeq, Zenon
  <1>7. PICK w \in [0..M -> Nat] : \A p \in ToSet(items) : w[p] = f[p]
    <2> DEFINE w == [p \in 0..M |-> IF p \in ToSet(items) THEN f[p] ELSE 0]
    <2>1. w \in [0..M -> Nat]
      BY <1>0
    <2>2. \A p \in ToSet(items) : w[p] = f[p]
      BY <1>5, Zenon
    <2> QED BY <2>1, <2>2, Zenon
  <1>8. Permuted(M, items, sorted)
    BY <1>0, <1>1, <1>2, <1>3, <1>6, Zenon DEF Permuted
  <1>9. Weighed(items, w, a) /\ Weighed(sorted, w, b)
    BY <1>0, <1>1, <1>2, <1>3, <1>4, <1>7, Zenon DEF Weighed
  <1>10. w \in Weighing(M)
    BY DEF Weighing
  <1> QED BY <1>0, <1>8, <1>9, <1>10, TotalPermuted


LEMMA WidthProduct ==
    ASSUME NEW m \in Nat, NEW b \in 1..8
    PROVE  m * b \in Nat /\ m * b <= 8 * m
  <1>1. b = 1 \/ b = 2 \/ b = 3 \/ b = 4 \/ b = 5 \/ b = 6 \/ b = 7 \/ b = 8
    OBVIOUS
  <1> QED BY <1>1

\* The bytes of a byte sequence with a type byte before it.
LEMMA TypeAdded ==
    ASSUME NEW t \in Nat, NEW a \in Seq(Bytes)
    PROVE  <<t>> \o a \in Seq(Bytes) /\ Len(<<t>> \o a) = 1 + Len(a)
  <1>1. t \in Bytes
    BY DEF Bytes
  <1>2. <<t>> \in Seq(Bytes) /\ Len(<<t>>) = 1
    BY <1>1
  <1> QED BY <1>2, ConcatProperties, Zenon

\* Of the sizes of the values in a container: those that the index has.
LEMMA IndexedAre ==
    ASSUME NEW s, NEW type, NEW items \in Seq(Nat),
           NEW n \in Nat, n + 1 = Len(items),
           NEW sizes \in Seq(Nat), Len(sizes) = Len(items),
           \A i \in 1..Len(items) :
             /\ sizes[i] = SizeValue(s, ValueIn(s, type, items[i]))
             /\ sizes[i] \in Nat \ {0}
    PROVE  /\ IndexedSizes(s, type, items) \in Seq(Nat)
           /\ Len(IndexedSizes(s, type, items)) = n
           /\ Total(IndexedSizes(s, type, items)) = Total(sizes) - sizes[n + 1] - n
           /\ Total(IndexedSizes(s, type, items)) \in Nat
  <1> DEFINE less == [z \in 1..n |-> SizeValue(s, ValueIn(s, type, items[z])) - 1]
  <1>1. IndexedSizes(s, type, items) = less
    <2>1. Len(items) - 1 = n
      OBVIOUS
    <2> QED BY <2>1, Zenon DEF IndexedSizes
  <1>2. \A z \in 1..n : z \in 1..Len(items)
    OBVIOUS
  <1>3. \A z \in 1..n : less[z] = sizes[z] - 1 /\ less[z] \in Nat
    <2>1. TAKE z \in 1..n
    <2>2. PICK x \in Nat \ {0} : x = sizes[z] /\ x = SizeValue(s, ValueIn(s, type, items[z]))
      BY <1>2, Zenon
    <2>3. less[z] = x - 1
      BY <2>2
    <2>4. x - 1 \in Nat
      OBVIOUS
    <2> QED BY <2>2, <2>3, <2>4, Zenon
  <1>4. less \in [1..n -> Nat]
    BY <1>3, Zenon
  <1> HIDE DEF less
  <1>5. less \in Seq(Nat) /\ Len(less) = n
    BY <1>4
  <1>6. \A i \in 1..(n + 1) : sizes[i] > 0
    <2>1. TAKE i \in 1..(n + 1)
    <2>2. i \in 1..Len(items)
      OBVIOUS
    <2>3. PICK x \in Nat \ {0} : x = sizes[i]
      BY <2>2, Zenon
    <2> QED BY <2>3
  <1>7. Total(less) + sizes[n + 1] + n = Total(sizes)
    BY <1>3, <1>5, <1>6, TotalLess
  <1>8. Total(less) \in Nat /\ Total(sizes) \in Nat
    BY <1>5, TotalType
  <1>9. PICK x \in Nat : x = sizes[n + 1]
    <2>1. n + 1 \in 1..Len(items)
      OBVIOUS
    <2> QED BY <2>1
  <1>10. PICK p \in Nat, q \in Nat : p = Total(less) /\ q = Total(sizes)
    BY <1>8
  <1>11. p + x + n = q
    BY <1>7, <1>9, <1>10, Zenon
  <1>12. p = q - x - n
    BY <1>11
  <1> QED BY <1>1, <1>5, <1>9, <1>10, <1>12, Zenon

LEMMA ArrayHeadIs ==
    ASSUME NEW s, NEW items \in Seq(Nat), NEW n \in Nat, n + 1 = Len(items),
           NEW less \in Seq(Nat), less = IndexedSizes(s, ARRAY, items), Len(less) = n
    PROVE  /\ ArrayHead(s, items) \in Seq(Bytes)
           /\ Len(ArrayHead(s, items)) =
                1 + OptimalStorageSizeBytes(OptimalStorageSize(n))
                  + n * OptimalStorageSizeBytes(OptimalStorageSize(Total(less)))
  <1>1. PICK a \in 0..3 : a = OptimalStorageSize(n)
    BY WidthFacts
  <1>2. PICK b \in 0..3 : b = OptimalStorageSize(Total(less))
    <2>1. Total(less) \in Int
      BY TotalType
    <2> QED BY <2>1, WidthFacts
  <1> DEFINE ints == CompactInt(n, a)
             offs == Offsets(less, b)
             t    == 48 + 4 * b + a
  <1>3. ArrayHead(s, items) = <<t>> \o ints \o offs
    <2>1. Len(items) - 1 = n
      OBVIOUS
    <2> QED BY <1>1, <1>2, <2>1, Zenon DEF ArrayHead
  <1>4. t \in Nat
    OBVIOUS
  <1>5. ints \in Seq(Bytes) /\ Len(ints) = OptimalStorageSizeBytes(a)
    BY WidthBytes
  <1>6. offs \in Seq(Bytes) /\ Len(offs) = n * OptimalStorageSizeBytes(b)
    BY OffsetsLength
  <1> HIDE DEF t, ints, offs
  <1>7. <<t>> \o ints \in Seq(Bytes) /\ Len(<<t>> \o ints) = 1 + Len(ints)
    BY <1>4, <1>5, TypeAdded
  <1>8. /\ (<<t>> \o ints) \o offs \in Seq(Bytes)
        /\ Len((<<t>> \o ints) \o offs) = Len(<<t>> \o ints) + Len(offs)
    BY <1>6, <1>7, ConcatProperties, Zenon
  <1> QED BY <1>1, <1>2, <1>3, <1>5, <1>6, <1>7, <1>8, Zenon


\* The head and the items of a container, and what it takes for its cells.
Container(s, type, o, hi) ==
    /\ o + 3 <= hi /\ hi <= Len(s)
    /\ Cell(s, o) = type /\ Cell(s, o + 1) = hi - o - 2
    /\ EndOfItems(s, type, o + 3, ItemsOf(s, type, o + 3, hi)) = hi
    /\ EmitsItems(s, type, ItemsOf(s, type, o + 3, hi))

\* Its items, their number and the sizes of their values.
ContainerParts(s, type, o, hi, items, n, sizes) ==
    /\ o \in ValueOffsets(s) /\ EndOfValue(s, o) = hi /\ ItemsAt(s, o) = items
    /\ IsEmpty(s, o) <=> n = 0
    /\ items = ItemsOf(s, type, o + 3, hi) /\ items \in Seq(Nat)
    /\ n \in Nat /\ n = Len(items)
    /\ SendsItems(s, type, items)
    /\ sizes = ValueSizes(s, type, items) /\ sizes \in Seq(Nat) /\ Len(sizes) = n
    /\ \A i \in 1..n : /\ sizes[i] = SizeValue(s, ValueIn(s, type, items[i]))
                       /\ sizes[i] \in Nat \ {0}

\* Each value takes eight bytes less than there is room for.
ContainerRoom(s, type, items, n, sizes) ==
    \A i \in 1..n :
      /\ ItemEnd(s, type, items[i]) \in Nat /\ ValueIn(s, type, items[i]) \in Nat
      /\ sizes[i] + 8 <= 8 * (ItemEnd(s, type, items[i]) - ValueIn(s, type, items[i]))

LEMMA ContainerFacts ==
    ASSUME NEW s \in Seq(Nat), NEW type, NEW o \in Nat, NEW hi \in Nat,
           Container(s, type, o, hi)
    PROVE  \E items, n, sizes : /\ ContainerParts(s, type, o, hi, items, n, sizes)
                               /\ ContainerRoom(s, type, items, n, sizes)
  <1>1. /\ o + 3 <= hi /\ hi <= Len(s)
        /\ Cell(s, o) = type /\ Cell(s, o + 1) = hi - o - 2
    BY DEF Container
  <1>2. PICK lo \in 0..hi : lo = o + 3 /\ hi \in 0..Len(s)
    BY <1>1
  <1>0. PICK items, n, sizes : /\ items = ItemsOf(s, type, lo, hi) /\ n = Len(items)
                               /\ sizes = ValueSizes(s, type, items)
    OBVIOUS
  <1>3. o \in ValueOffsets(s)
    <2>1. o + 2 <= Len(s)
      BY <1>1
    <2> QED BY <2>1, ValueOffset
  <1>4. EndOfValue(s, o) = hi /\ FirstItem(o) = lo
    BY <1>1, <1>2, <1>3, HeadFacts
  <1>5. ItemsAt(s, o) = items
    BY <1>0, <1>1, <1>2, <1>4, Zenon DEF ItemsAt
  <1>6. items \in Seq(Nat) /\ n \in Nat /\ (items = <<>> <=> n = 0)
    <2>1. items \in Seq(Nat)
      BY <1>0, <1>2, ItemsTile DEF Tiled
    <2> QED BY <1>0, <2>1, EmptySeq
  <1>7. EndOfItems(s, type, lo, items) = hi
    BY <1>0, <1>2, Zenon DEF Container
  <1>8. n = 0 <=> hi = lo
    <2>1. CASE n = 0
      BY <1>6, <1>7, <2>1, Zenon DEF EndOfItems
    <2>2. CASE n # 0
      <3>1. 1 \in 1..n
        BY <1>6, <2>2
      <3>2. lo <= items[1] /\ items[1] \in Nat /\ items[1] < ItemEnd(s, type, items[1])
            /\ ItemEnd(s, type, items[1]) \in Nat /\ ItemEnd(s, type, items[1]) <= hi
        BY <1>0, <1>2, <3>1, ItemOf
      <3> QED BY <2>2, <3>2
    <2> QED BY <2>1, <2>2
  <1>9. IsEmpty(s, o) <=> n = 0
    <2>1. IsEmpty(s, o) <=> Cell(s, o + 1) = 1
      BY DEF IsEmpty, TypeByteSize, SizeOfSize
    <2> QED BY <1>1, <1>2, <1>8, <2>1
  <1>10. ASSUME NEW i \in 1..n, NEW v, v = ValueIn(s, type, items[i])
         PROVE  /\ Sends(s, v)
                /\ v \in Nat /\ SizeValue(s, v) + 8 <= 8 * (ItemEnd(s, type, items[i]) - v)
    <2>1. Emits(s, v)
      BY <1>0, <1>2, <1>10, Zenon DEF Container, EmitsItems
    <2>2. ItemEnd(s, type, items[i]) = EndOfValue(s, v)
      BY <1>10 DEF ItemEnd
    <2>3. PICK e \in Nat : e = ItemEnd(s, type, items[i]) /\ v \in Nat
      BY <1>0, <1>2, <1>10, ItemOf
    <2>4. SizeValue(s, v) \in 1..(8 * (e - v - 1))
      BY <2>1, <2>2, <2>3, Zenon DEF Emits
    <2>5. \A x \in 1..(8 * (e - v - 1)) : x \in Nat \ {0} /\ x + 8 <= 8 * (e - v)
      BY <2>3
    <2>6. SizeValue(s, v) \in Nat \ {0} /\ SizeValue(s, v) + 8 <= 8 * (e - v)
      BY <2>4, <2>5, Zenon
    <2> QED BY <2>1, <2>3, <2>6, Zenon DEF Emits, Sends
  <1>11. SendsItems(s, type, items)
    BY <1>0, <1>10, Zenon DEF SendsItems
  <1>12. /\ sizes \in Seq(Nat) /\ Len(sizes) = n
         /\ \A i \in 1..n : /\ sizes[i] = SizeValue(s, ValueIn(s, type, items[i]))
                            /\ sizes[i] \in Nat \ {0}
    BY <1>0, <1>6, <1>11, ItemsSent
  <1>13. ContainerRoom(s, type, items, n, sizes)
    <2>1. ASSUME NEW i \in 1..n PROVE ItemEnd(s, type, items[i]) \in Nat
      BY <1>0, <1>2, ItemOf
    <2> QED BY <1>10, <1>12, <2>1, Zenon DEF ContainerRoom
  <1>14. ContainerParts(s, type, o, hi, items, n, sizes)
    BY <1>0, <1>2, <1>3, <1>4, <1>5, <1>6, <1>9, <1>11, <1>12, Zenon DEF ContainerParts
  <1> QED BY <1>13, <1>14, Zenon

LEMMA ContainerWeighs ==
    ASSUME NEW s \in Seq(Nat), NEW type, NEW o \in Nat, NEW hi \in Nat,
           Container(s, type, o, hi), NEW items, items = ItemsOf(s, type, o + 3, hi),
           NEW w \in Seq(Nat), Len(w) = Len(items),
           \A i \in 1..Len(items) : w[i] <= 8 * (ItemEnd(s, type, items[i]) - items[i])
    PROVE  Total(w) <= 8 * (hi - (o + 3))
  <1>1. PICK lo \in 0..hi : lo = o + 3 /\ hi \in 0..Len(s)
    BY DEF Container
  <1>2. items = ItemsOf(s, type, lo, hi)
    BY <1>1
  <1>3. Total(w) <= 8 * (hi - lo)
    BY <1>1, <1>2, ItemsWeigh
  <1> QED BY <1>1, <1>3, Zenon


\* A container is sent with the size predicted when its bytes are counted.
LEMMA EmitsCounted ==
    ASSUME NEW s \in Seq(Nat), NEW o \in Nat, NEW hi \in Nat, o + 3 <= hi,
           8 * hi <= SizeMax, EndOfValue(s, o) = hi,
           Cell(s, o) # SCALAR, NEW size \in Nat, Cell(s, o + 2) = SizeT(size),
           NEW sent \in Seq(Bytes), Emitted(s)[o] = sent, Len(sent) = size,
           size > 0, size <= 1 + 8 * (hi - (o + 3))
    PROVE  Emits(s, o)
  <1>1. size \in 0..SizeMax
    BY SizeMaxAssumption
  <1>2. Cell(s, o + 2) = size
    BY <1>1, Zenon DEF SizeT
  <1>3. SizeValue(s, o) = size
    BY <1>2 DEF SizeValue, TypeByteSize, SizeOfSize
  <1>4. size \in 1..(8 * (hi - o - 1))
    OBVIOUS
  <1> QED BY <1>3, <1>4, Zenon DEF Emits


\* The sizes of the values and eight more for each.
LEMMA EightMore ==
    ASSUME NEW n \in Nat, NEW sizes \in Seq(Nat), Len(sizes) = n,
           NEW c \in Nat
    PROVE  \E w \in Seq(Nat) : /\ Len(w) = n /\ \A i \in 1..n : w[i] = sizes[i] + c
                               /\ Total(w) = Total(sizes) + n * c
  <1> DEFINE w  == [i \in 1..n |-> sizes[i] + c]
             cs == [i \in 1..n |-> c]
  <1>1. \A i \in 1..n : w[i] = sizes[i] + c /\ w[i] \in Nat /\ cs[i] = c
    <2>1. \A i \in 1..n : sizes[i] \in Nat
      OBVIOUS
    <2> QED BY <2>1
  <1>2. w \in [1..n -> Nat] /\ cs \in [1..n -> Nat]
    BY <1>1
  <1> HIDE DEF w, cs
  <1>3. w \in Seq(Nat) /\ Len(w) = n /\ cs \in Seq(Nat) /\ Len(cs) = n
    BY <1>2
  <1>4. Total(cs) = n * c
    BY <1>1, <1>3, TotalConstant
  <1>5. \A i \in 1..n : w[i] = sizes[i] + cs[i]
    BY <1>1, Zenon
  <1>6. Total(w) = Total(sizes) + Total(cs)
    <2>1. Summed(n, sizes, cs, w)
      BY <1>3, <1>5, Zenon DEF Summed
    <2> QED BY <2>1, TotalPlus
  <1> QED BY <1>1, <1>3, <1>4, <1>6, Zenon

LEMMA ArraySizeFits ==
    ASSUME NEW c \in 1..8, NEW m \in Nat, NEW n \in Nat, m + 1 = n,
           NEW p \in Nat, p <= 8 * m, NEW total \in Nat, NEW lo \in Nat, NEW hi \in Nat,
           lo <= hi, total + n * 8 <= 8 * (hi - lo)
    PROVE  /\ 1 + c + p + total \in Nat /\ 1 + c + p + total > 0
           /\ 1 + c + p + total <= 1 + 8 * (hi - lo)
  <1>1. c + p <= n * 8
    OBVIOUS
  <1> QED BY <1>1

LEMMA ArraySent ==
    ASSUME HashIsNumber, NEW s \in Seq(Nat), NEW o \in Nat, NEW hi \in Nat,
           Container(s, ARRAY, o, hi), 8 * hi <= SizeMax,
           Cell(s, o + 2) = SizeT(ArrayOutputSize(s, o + 3, hi))
    PROVE  Emits(s, o)
  <1>1. PICK items, n, sizes : /\ ContainerParts(s, ARRAY, o, hi, items, n, sizes)
                               /\ ContainerRoom(s, ARRAY, items, n, sizes)
    BY ContainerFacts, Zenon
  <1>2. /\ o \in ValueOffsets(s) /\ EndOfValue(s, o) = hi /\ ItemsAt(s, o) = items
        /\ IsEmpty(s, o) <=> n = 0
        /\ items = ItemsOf(s, ARRAY, o + 3, hi) /\ items \in Seq(Nat)
        /\ n \in Nat /\ n = Len(items) /\ SendsItems(s, ARRAY, items)
        /\ sizes = ValueSizes(s, ARRAY, items) /\ sizes \in Seq(Nat) /\ Len(sizes) = n
        /\ \A i \in 1..n : /\ sizes[i] = SizeValue(s, ValueIn(s, ARRAY, items[i]))
                           /\ sizes[i] \in Nat \ {0}
    BY <1>1, Zenon DEF ContainerParts
  <1>5. Cell(s, o) = ARRAY /\ ARRAY # OBJECT /\ ARRAY # SCALAR /\ o + 3 <= hi
    BY DEF Container, ARRAY, OBJECT, SCALAR
  <1>6. Emitted(s)[o] = IF n = 0 THEN <<48>>
                        ELSE ArrayHead(s, items) \o EmitItems(s, ARRAY, Emitted(s), items)
    <2>1. WrittenItems(s, o) = items
      BY <1>2, <1>5, Zenon DEF WrittenItems
    <2>2. Emitted(s)[o] = EmitValue(s, Emitted(s), o, items)
      BY <1>2, <2>1, EmittedStep, Zenon
    <2> QED BY <1>2, <1>5, <2>2, Zenon DEF EmitValue
  <1>7. CASE n = 0
    <2>1. ArrayOutputSize(s, o + 3, hi) = 1
      BY <1>2, <1>7, Zenon DEF ArrayOutputSize
    <2>2. <<48>> \in Seq(Bytes) /\ Len(<<48>>) = 1
      BY DEF Bytes
    <2>3. 1 > 0 /\ 1 <= 1 + 8 * (hi - (o + 3)) /\ 1 \in Nat
      BY <1>5
    <2>4. PICK sent \in Seq(Bytes) : sent = Emitted(s)[o] /\ Len(sent) = 1
      BY <1>6, <1>7, <2>2, Zenon
    <2>5. Cell(s, o + 2) = SizeT(1) /\ Cell(s, o) # SCALAR
      BY <1>5, <2>1, Zenon
    <2> QED BY <1>2, <1>5, <2>3, <2>4, <2>5, EmitsCounted
  <1>8. CASE n # 0
    <2>1. PICK m \in Nat : m + 1 = n /\ n - 1 = m
      <3>1. n - 1 \in Nat /\ (n - 1) + 1 = n
        BY <1>2, <1>8
      <3> QED BY <3>1, Zenon
    <2>0. n \in Nat /\ n \in 1..n
      BY <1>2, <1>8
    <2>2. PICK less : /\ less = IndexedSizes(s, ARRAY, items)
                      /\ less \in Seq(Nat) /\ Len(less) = m
                      /\ Total(less) = Total(sizes) - sizes[n] - m /\ Total(less) \in Nat
      <3>1. m + 1 = Len(items) /\ Len(sizes) = Len(items)
        BY <1>2, <2>1, Zenon
      <3>2. \A i \in 1..Len(items) : /\ sizes[i] = SizeValue(s, ValueIn(s, ARRAY, items[i]))
                                     /\ sizes[i] \in Nat \ {0}
        BY <1>2, Zenon
      <3>3. items \in Seq(Nat) /\ sizes \in Seq(Nat)
        BY <1>2
      <3>4. /\ IndexedSizes(s, ARRAY, items) \in Seq(Nat)
            /\ Len(IndexedSizes(s, ARRAY, items)) = m
            /\ Total(IndexedSizes(s, ARRAY, items)) = Total(sizes) - sizes[m + 1] - m
            /\ Total(IndexedSizes(s, ARRAY, items)) \in Nat
        BY <3>1, <3>2, <3>3, IndexedAre, Zenon
      <3> QED BY <2>1, <3>4, Zenon
    <2>3. PICK c \in 1..8 : /\ c = OptimalStorageSizeBytes(OptimalStorageSize(m))
                            /\ c = OptimalStorageSizeBytes(OptimalStorageSize1(n))
      <3>1. OptimalStorageSize(m) \in 0..3 /\ OptimalStorageSize1(n) = OptimalStorageSize(m)
        BY <2>1, WidthFacts
      <3>2. OptimalStorageSizeBytes(OptimalStorageSize(m)) \in 1..8
        BY <3>1, WidthBytes, Zenon
      <3> QED BY <3>1, <3>2, Zenon
    <2>4. PICK d \in 1..8 : d = OptimalStorageSizeBytes(OptimalStorageSize(Total(less)))
      <3>1. PICK t \in Nat : t = Total(less)
        BY <2>2, Zenon
      <3>2. OptimalStorageSize(t) \in 0..3
        BY WidthFacts
      <3> QED BY <3>1, <3>2, WidthBytes, Zenon
    <2>5. PICK head \in Seq(Bytes) : head = ArrayHead(s, items) /\ Len(head) = 1 + c + m * d
      <3>1. m + 1 = Len(items) /\ items \in Seq(Nat) /\ less \in Seq(Nat)
        BY <1>2, <2>1, <2>2, Zenon
      <3>2. less = IndexedSizes(s, ARRAY, items) /\ Len(less) = m
        BY <2>2, Zenon
      <3>3. /\ ArrayHead(s, items) \in Seq(Bytes)
            /\ Len(ArrayHead(s, items)) =
                 1 + OptimalStorageSizeBytes(OptimalStorageSize(m))
                   + m * OptimalStorageSizeBytes(OptimalStorageSize(Total(less)))
        BY <3>1, <3>2, ArrayHeadIs, ZenonT(40)
      <3> QED BY <2>3, <2>4, <3>3, Zenon
    <2>6. PICK total \in Nat : total = Total(sizes)
      BY <1>2, TotalType
    <2>7. PICK rest \in Seq(Bytes) :
            rest = EmitItems(s, ARRAY, Emitted(s), items) /\ Len(rest) = total
      <3>1. items \in Seq(Nat) /\ SendsItems(s, ARRAY, items) /\ sizes = ValueSizes(s, ARRAY, items)
        BY <1>2, Zenon
      <3>2. /\ EmitItems(s, ARRAY, Emitted(s), items) \in Seq(Bytes)
            /\ Len(EmitItems(s, ARRAY, Emitted(s), items)) = Total(ValueSizes(s, ARRAY, items))
        BY <3>1, ItemsSent, Zenon
      <3> QED BY <2>6, <3>1, <3>2, Zenon
    <2>8. ArrayOutputSize(s, o + 3, hi) = 1 + c + m * d + total
      BY <1>2, <1>8, <2>1, <2>2, <2>3, <2>4, <2>6, Zenon DEF ArrayOutputSize
    <2>9. PICK p \in Nat : p = m * d /\ p <= 8 * m
      BY WidthProduct
    <2>10. PICK sent \in Seq(Bytes) : /\ Emitted(s)[o] = sent
                                      /\ Len(sent) = 1 + c + p + total
      <3>1. head \o rest \in Seq(Bytes) /\ Len(head \o rest) = Len(head) + Len(rest)
        BY ConcatProperties, Zenon
      <3> QED BY <1>6, <1>8, <2>5, <2>7, <2>9, <3>1, Zenon
    <2>11. PICK w \in Seq(Nat) : /\ Len(w) = n /\ \A i \in 1..n : w[i] = sizes[i] + 8
                                 /\ Total(w) = total + n * 8
      <3>1. 8 \in Nat
        OBVIOUS
      <3>2. n \in Nat /\ sizes \in Seq(Nat) /\ Len(sizes) = n
        BY <1>2, Zenon
      <3>3. \E w \in Seq(Nat) : /\ Len(w) = n /\ \A i \in 1..n : w[i] = sizes[i] + 8
                               /\ Total(w) = Total(sizes) + n * 8
        BY <3>1, <3>2, EightMore, ZenonT(40)
      <3> QED BY <2>6, <3>3, Zenon
    <2>12. Total(w) <= 8 * (hi - (o + 3))
      <3>1. ASSUME NEW i \in 1..n PROVE w[i] <= 8 * (ItemEnd(s, ARRAY, items[i]) - items[i])
        <4>1. ValueIn(s, ARRAY, items[i]) = items[i]
          BY <1>5, Zenon DEF ValueIn
        <4> QED BY <1>1, <2>11, <4>1, Zenon DEF ContainerRoom
      <3>2. Len(w) = Len(items) /\ \A i \in 1..Len(items) :
                                     w[i] <= 8 * (ItemEnd(s, ARRAY, items[i]) - items[i])
        BY <1>2, <2>11, <3>1, Zenon
      <3>3. items = ItemsOf(s, ARRAY, o + 3, hi) /\ w \in Seq(Nat)
        BY <1>2, <2>11, Zenon
      <3> QED BY <3>2, <3>3, ContainerWeighs, Zenon
    <2>13. /\ 1 + c + p + total \in Nat /\ 1 + c + p + total > 0
           /\ 1 + c + p + total <= 1 + 8 * (hi - (o + 3))
      <3>1. PICK lo \in Nat : lo = o + 3
        OBVIOUS
      <3>2. total + n * 8 <= 8 * (hi - lo) /\ lo <= hi
        BY <1>5, <2>11, <2>12, <3>1, Zenon
      <3>3. p <= 8 * m
        BY <2>9
      <3> QED BY <2>0, <2>1, <3>1, <3>2, <3>3, ArraySizeFits, Zenon
    <2>14. PICK size \in Nat : /\ size = 1 + c + p + total
                               /\ size > 0 /\ size <= 1 + 8 * (hi - (o + 3))
      BY <2>13, Zenon
    <2>15. Cell(s, o + 2) = SizeT(size) /\ Len(sent) = size /\ Cell(s, o) # SCALAR
      BY <1>5, <2>8, <2>9, <2>10, <2>14, Zenon
    <2>16. EndOfValue(s, o) = hi /\ o + 3 <= hi /\ Emitted(s)[o] = sent
      BY <1>2, <1>5, <2>10, Zenon
    <2> QED BY <2>14, <2>15, <2>16, EmitsCounted
  <1> QED BY <1>7, <1>8


KeysAre(s, items, count, keys) ==
    /\ keys = KeySizes(s, items) /\ keys \in Seq(Nat) /\ Len(keys) = count
    /\ \A i \in 1..count :
         KeyOf(s, items[i]) \in Seq(Nat) /\ Len(KeyOf(s, items[i])) = keys[i]

ObjectIndex(s, items, n, keys, less) ==
    /\ items \in Seq(Nat) /\ n \in Nat /\ n + 1 = Len(items)
    /\ KeysAre(s, items, n + 1, keys)
    /\ less \in Seq(Nat) /\ less = IndexedSizes(s, OBJECT, items) /\ Len(less) = n

LEMMA ObjectHeadIs ==
    ASSUME NEW s, NEW items, NEW n, NEW keys, NEW less,
           ObjectIndex(s, items, n, keys, less)
    PROVE  /\ ObjectHead(s, items) \in Seq(Bytes)
           /\ Len(ObjectHead(s, items)) =
                1 + OptimalStorageSizeBytes(OptimalStorageSize(n))
                  + (n + 1) * OptimalStorageSizeBytes(OptimalStorageSize(Total(keys)))
                  + n * OptimalStorageSizeBytes(OptimalStorageSize(Total(less)))
                  + Total(keys)
  <1>a. /\ items \in Seq(Nat) /\ n \in Nat /\ n + 1 = Len(items)
        /\ KeysAre(s, items, n + 1, keys)
        /\ less \in Seq(Nat) /\ less = IndexedSizes(s, OBJECT, items) /\ Len(less) = n
    BY Zenon DEF ObjectIndex
  <1>0. /\ keys = KeySizes(s, items) /\ keys \in Seq(Nat) /\ Len(keys) = n + 1
        /\ \A i \in 1..(n + 1) :
             KeyOf(s, items[i]) \in Seq(Nat) /\ Len(KeyOf(s, items[i])) = keys[i]
    BY <1>a, Zenon DEF KeysAre
  <1>1. PICK a \in 0..3 : a = OptimalStorageSize(n)
    BY <1>a, WidthFacts
  <1>2. PICK b \in 0..3 : b = OptimalStorageSize(Total(less))
    <2>1. Total(less) \in Int
      BY <1>a, TotalType
    <2> QED BY <1>a, <2>1, WidthFacts
  <1>3. PICK c \in 0..3 : c = OptimalStorageSize(Total(keys))
    <2>1. Total(keys) \in Int
      BY <1>a, <1>0, TotalType
    <2> QED BY <1>a, <2>1, WidthFacts
  <1>4. DOMAIN items = 1..(n + 1)
    BY <1>a
  <1> DEFINE ints == CompactInt(n, a)
             ends == Offsets(keys, c)
             offs == Offsets(less, b)
             t    == 64 + 16 * b + 4 * c + a
             data == [z \in 1..(n + 1) |-> KeyOf(s, items[z])]
             all  == FlattenSeq(data)
  <1>5. ObjectHead(s, items) = <<t>> \o ints \o ends \o offs \o all
    <2>1. Len(items) - 1 = n
      BY <1>a
    <2> QED BY <1>a, <1>0, <1>1, <1>2, <1>3, <1>4, <2>1, Zenon DEF ObjectHead
  <1>6. t \in Nat
    BY <1>a
  <1>7. ints \in Seq(Bytes) /\ Len(ints) = OptimalStorageSizeBytes(a)
    BY <1>a, WidthBytes
  <1>8. offs \in Seq(Bytes) /\ Len(offs) = n * OptimalStorageSizeBytes(b)
    BY <1>a, OffsetsLength
  <1>9. ends \in Seq(Bytes) /\ Len(ends) = (n + 1) * OptimalStorageSizeBytes(c)
    BY <1>a, <1>0, OffsetsLength
  <1>10. \A z \in 1..(n + 1) : data[z] \in Seq(Bytes) /\ Len(data[z]) = keys[z]
    <2>1. Nat \subseteq Bytes
      BY DEF Bytes
    <2>2. \A k \in Seq(Nat) : k \in Seq(Bytes)
      BY <1>a, <2>1
    <2> QED BY <1>a, <1>0, <2>2, Zenon
  <1>11. data \in [1..(n + 1) -> Seq(Bytes)]
    BY <1>a, <1>10, Zenon
  <1> HIDE DEF t, ints, ends, offs, data
  <1>12. data \in Seq(Seq(Bytes)) /\ Len(data) = n + 1
    BY <1>a, <1>11
  <1>13. all \in Seq(Bytes) /\ Len(all) = Total(keys)
    BY <1>a, <1>0, <1>10, <1>12, FlattenLength
  <1> HIDE DEF all
  <1>14. <<t>> \o ints \in Seq(Bytes) /\ Len(<<t>> \o ints) = 1 + Len(ints)
    BY <1>a, <1>6, <1>7, TypeAdded
  <1>15. /\ (<<t>> \o ints) \o ends \in Seq(Bytes)
         /\ Len((<<t>> \o ints) \o ends) = Len(<<t>> \o ints) + Len(ends)
    BY <1>a, <1>9, <1>14, ConcatProperties, Zenon
  <1>16. /\ ((<<t>> \o ints) \o ends) \o offs \in Seq(Bytes)
         /\ Len(((<<t>> \o ints) \o ends) \o offs) = Len((<<t>> \o ints) \o ends) + Len(offs)
    BY <1>a, <1>8, <1>15, ConcatProperties, Zenon
  <1>17. /\ (((<<t>> \o ints) \o ends) \o offs) \o all \in Seq(Bytes)
         /\ Len((((<<t>> \o ints) \o ends) \o offs) \o all)
              = Len(((<<t>> \o ints) \o ends) \o offs) + Len(all)
    BY <1>a, <1>13, <1>16, ConcatProperties, Zenon
  <1> QED BY <1>a, <1>1, <1>2, <1>3, <1>5, <1>7, <1>8, <1>9, <1>13, <1>14, <1>15, <1>16, <1>17, Zenon

\* What end_object has counted in the order in which the items were added,
\* holds in the order in which they are written.
Reordered(s, items, n, sizes, keys, written, keys2, sizes2) ==
    /\ keys = KeySizes(s, items) /\ keys \in Seq(Nat) /\ Len(keys) = n
    /\ \A i \in 1..n : keys[i] + 1 = ValueIn(s, OBJECT, items[i]) - items[i]
    /\ written = SortedItems(s, items) /\ written \in Seq(Nat) /\ Len(written) = n
    /\ SendsItems(s, OBJECT, written)
    /\ keys2 = KeySizes(s, written) /\ keys2 \in Seq(Nat) /\ Len(keys2) = n
    /\ \A i \in 1..n : KeyOf(s, written[i]) \in Seq(Nat) /\ Len(KeyOf(s, written[i])) = keys2[i]
    /\ sizes2 = ValueSizes(s, OBJECT, written) /\ sizes2 \in Seq(Nat) /\ Len(sizes2) = n
    /\ \A i \in 1..n : /\ sizes2[i] = SizeValue(s, ValueIn(s, OBJECT, written[i]))
                       /\ sizes2[i] \in Nat \ {0}
    /\ Total(keys2) = Total(keys) /\ Total(sizes2) = Total(sizes)
    /\ n > 0 => sizes2[n] = SizeValue(s, ValueOf(s, HighestItem(s, items)))

LEMMA ItemsReordered ==
    ASSUME HashIsNumber, NEW s \in Seq(Nat), NEW o \in Nat, NEW hi \in Nat,
           Container(s, OBJECT, o, hi),
           NEW items, NEW n, NEW sizes, ContainerParts(s, OBJECT, o, hi, items, n, sizes)
    PROVE  \E keys, written, keys2, sizes2 :
             Reordered(s, items, n, sizes, keys, written, keys2, sizes2)
  <1>1. /\ items = ItemsOf(s, OBJECT, o + 3, hi) /\ items \in Seq(Nat)
        /\ n \in Nat /\ n = Len(items) /\ SendsItems(s, OBJECT, items)
        /\ sizes \in Seq(Nat) /\ Len(sizes) = n
        /\ \A i \in 1..n : /\ sizes[i] = SizeValue(s, ValueIn(s, OBJECT, items[i]))
                           /\ sizes[i] \in Nat \ {0}
    BY Zenon DEF ContainerParts
  <1>2. PICK lo \in 0..hi : lo = o + 3 /\ hi \in 0..Len(s)
    BY DEF Container
  <1>3. /\ KeyedItems(s, items)
        /\ \A i \in 1..n :
             /\ KeySize(s, items[i]) \in Nat
             /\ Len(KeyOf(s, items[i])) = KeySize(s, items[i])
             /\ KeyOf(s, items[i]) \in Seq(Nat)
             /\ ValueIn(s, OBJECT, items[i]) = items[i] + 1 + KeySize(s, items[i])
    BY SMTT(20), <1>1, <1>2, KeyFactsOf
  <1>4. PICK M \in Nat : items \in Seq(0..M)
    <2>1. Len(s) \in Nat
      OBVIOUS
    <2> QED BY <1>1, <1>2, <2>1, ItemsIncrease
  <1>5. PICK written : written = SortedItems(s, items)
    OBVIOUS
  <1>6. /\ written \in Seq(Nat) /\ Len(written) = n /\ ToSet(written) = ToSet(items)
    BY <1>1, <1>3, <1>5, SortedFacts
  <1>7. DOMAIN written = 1..n /\ DOMAIN items = 1..n
    BY <1>1, <1>6
  <1>8. \A i \in 1..n : written[i] \in ToSet(items) /\ items[i] \in ToSet(items)
    BY <1>6, <1>7, Zenon DEF ToSet
  <1>9. \A p \in ToSet(items) : \E i \in 1..n : p = items[i]
    BY <1>7, Zenon DEF ToSet
  <1>10. \A p \in ToSet(items) :
           /\ KeySize(s, p) \in Nat /\ KeyOf(s, p) \in Seq(Nat)
           /\ Len(KeyOf(s, p)) = KeySize(s, p)
    BY <1>3, <1>9, Zenon
  <1>11. \A p \in ToSet(items) : /\ Sends(s, ValueIn(s, OBJECT, p))
                                 /\ SizeValue(s, ValueIn(s, OBJECT, p)) \in Nat \ {0}
    BY <1>1, <1>9, Zenon DEF SendsItems, Sends
  <1> DEFINE keys   == [i \in 1..n |-> KeySize(s, items[i])]
             keys2  == [i \in 1..n |-> KeySize(s, written[i])]
             sizes2 == [i \in 1..n |-> SizeValue(s, ValueIn(s, OBJECT, written[i]))]
             f      == [p \in ToSet(items) |-> KeySize(s, p)]
             g      == [p \in ToSet(items) |-> SizeValue(s, ValueIn(s, OBJECT, p))]
  <1>12. /\ keys = KeySizes(s, items) /\ keys2 = KeySizes(s, written)
         /\ sizes2 = ValueSizes(s, OBJECT, written)
    BY <1>7, Zenon DEF KeySizes, ValueSizes
  <1>13. /\ keys \in [1..n -> Nat] /\ keys2 \in [1..n -> Nat] /\ sizes2 \in [1..n -> Nat]
    BY <1>8, <1>10, <1>11
  <1>14. \A i \in 1..n : keys[i] = f[items[i]] /\ keys2[i] = f[written[i]]
    BY <1>8, Zenon
  <1>15. \A i \in 1..n : sizes[i] = g[items[i]] /\ sizes2[i] = g[written[i]]
    BY <1>1, <1>8, Zenon
  <1>16. \A i \in 1..n : /\ sizes2[i] = SizeValue(s, ValueIn(s, OBJECT, written[i]))
                         /\ sizes2[i] \in Nat \ {0}
    BY <1>8, <1>11, Zenon
  <1>17. \A i \in 1..n : KeyOf(s, written[i]) \in Seq(Nat) /\ Len(KeyOf(s, written[i])) = keys2[i]
    BY <1>8, <1>10, Zenon
  <1>18. \A i \in 1..n : keys[i] + 1 = ValueIn(s, OBJECT, items[i]) - items[i]
    <2>1. TAKE i \in 1..n
    <2>2. PICK p \in Nat, k \in Nat : p = items[i] /\ k = KeySize(s, items[i])
      <3>1. items[i] \in Nat
        BY <1>1
      <3> QED BY <1>3, <3>1, Zenon
    <2>3. ValueIn(s, OBJECT, items[i]) = p + 1 + k
      BY <1>3, <2>2, Zenon
    <2>4. keys[i] = k
      BY <2>2, Zenon
    <2>5. k + 1 = (p + 1 + k) - p
      OBVIOUS
    <2> QED BY <2>2, <2>3, <2>4, <2>5, Zenon
  <1>19. f \in [ToSet(items) -> Nat] /\ g \in [ToSet(items) -> Nat]
    BY <1>10, <1>11
  <1> HIDE DEF keys, keys2, sizes2, f, g
  <1>20. /\ keys \in Seq(Nat) /\ Len(keys) = n /\ keys2 \in Seq(Nat) /\ Len(keys2) = n
         /\ sizes2 \in Seq(Nat) /\ Len(sizes2) = n
    <2>1. n \in Nat
      BY <1>1
    <2> QED BY <1>13, <2>1, FunctionSeq, Zenon
  <1>21. Total(keys) = Total(keys2)
    <2>1. SortedBy(s, items, M, written, f, keys, keys2)
      BY <1>1, <1>3, <1>4, <1>5, <1>14, <1>19, <1>20, Zenon DEF SortedBy
    <2> QED BY <2>1, SortedTotal
  <1>22. Total(sizes) = Total(sizes2)
    <2>1. SortedBy(s, items, M, written, g, sizes, sizes2)
      BY <1>1, <1>3, <1>4, <1>5, <1>15, <1>19, <1>20, Zenon DEF SortedBy
    <2> QED BY <2>1, SortedTotal
  <1>23. ASSUME n > 0 PROVE sizes2[n] = SizeValue(s, ValueOf(s, HighestItem(s, items)))
    <2>1. HighestItem(s, items) = written[n]
      BY <1>1, <1>3, <1>5, <1>23, HighestIsLast
    <2>2. n \in 1..n
      BY <1>1, <1>23
    <2>3. ValueIn(s, OBJECT, written[n]) = ValueOf(s, written[n])
      BY Zenon DEF ValueIn
    <2> QED BY <1>16, <2>1, <2>2, <2>3, Zenon
  <1>24. SendsItems(s, OBJECT, written)
    BY <1>6, <1>8, <1>11, Zenon DEF SendsItems
  <1>25. Reordered(s, items, n, sizes, keys, written, keys2, sizes2)
    BY <1>5, <1>6, <1>12, <1>16, <1>17, <1>18, <1>20, <1>21, <1>22, <1>23, <1>24, Zenon DEF Reordered
  <1> QED BY <1>25, Zenon


\* There are the sums of the elements of a and b and c.
HasSums(n, a, b, c) ==
    \E w \in Seq(Nat) : /\ Len(w) = n /\ \A i \in 1..n : w[i] = (a[i] + c) + b[i]
                        /\ Total(w) = (Total(a) + n * c) + Total(b)

LEMMA BothAndMore ==
    ASSUME NEW n \in Nat, NEW a \in Seq(Nat), Len(a) = n, NEW b \in Seq(Nat), Len(b) = n,
           NEW c \in Nat
    PROVE  HasSums(n, a, b, c)
  <1>1. PICK v \in Seq(Nat) : /\ Len(v) = n /\ \A i \in 1..n : v[i] = a[i] + c
                              /\ Total(v) = Total(a) + n * c
    BY EightMore, Zenon
  <1> DEFINE w == [i \in 1..n |-> v[i] + b[i]]
  <1>2. \A i \in 1..n : w[i] = v[i] + b[i] /\ w[i] \in Nat
    <2>1. \A i \in 1..n : v[i] \in Nat /\ b[i] \in Nat
      BY <1>1
    <2> QED BY <2>1
  <1>3. w \in [1..n -> Nat]
    BY <1>2, Zenon
  <1> HIDE DEF w
  <1>4. w \in Seq(Nat) /\ Len(w) = n
    BY <1>3, FunctionSeq, Zenon
  <1>5. \A i \in 1..n : w[i] = v[i] + b[i]
    BY <1>2, Zenon
  <1>6. Total(w) = Total(v) + Total(b)
    <2>1. v \in Seq(Nat) /\ Len(v) = n
      BY <1>1, Zenon
    <2>2. Summed(n, v, b, w)
      BY <1>4, <1>5, <2>1, Zenon DEF Summed
    <2> QED BY <2>2, TotalPlus
  <1> QED BY <1>1, <1>4, <1>5, <1>6, Zenon DEF HasSums

LEMMA ObjectSizeFits ==
    ASSUME NEW c \in 1..8, NEW m \in Nat, NEW n \in Nat, m + 1 = n,
           NEW p \in Nat, p <= 8 * m, NEW q \in Nat, q <= 8 * n,
           NEW keys \in Nat, NEW total \in Nat, NEW lo \in Nat, NEW hi \in Nat,
           lo <= hi, (total + n * 16) + keys <= 8 * (hi - lo)
    PROVE  /\ 1 + c + q + p + keys + total \in Nat /\ 1 + c + q + p + keys + total > 0
           /\ 1 + c + q + p + keys + total <= 1 + 8 * (hi - lo)
  <1>1. c + q + p <= n * 16
    OBVIOUS
  <1> QED BY <1>1

\* The items of an object weigh less than there is room for.
LEMMA ObjectRoom ==
    ASSUME HashIsNumber, NEW s \in Seq(Nat), NEW o \in Nat, NEW hi \in Nat,
           Container(s, OBJECT, o, hi),
           NEW items, NEW n, NEW sizes, ContainerParts(s, OBJECT, o, hi, items, n, sizes),
           ContainerRoom(s, OBJECT, items, n, sizes),
           NEW keys, NEW written, NEW keys2, NEW sizes2,
           Reordered(s, items, n, sizes, keys, written, keys2, sizes2)
    PROVE  (Total(sizes) + n * 16) + Total(keys) <= 8 * (hi - (o + 3))
  <1>1. /\ items = ItemsOf(s, OBJECT, o + 3, hi) /\ items \in Seq(Nat)
        /\ n \in Nat /\ n = Len(items) /\ sizes \in Seq(Nat) /\ Len(sizes) = n
        /\ \A i \in 1..n : sizes[i] \in Nat \ {0}
    BY Zenon DEF ContainerParts
  <1>2. /\ keys \in Seq(Nat) /\ Len(keys) = n
        /\ \A i \in 1..n : keys[i] + 1 = ValueIn(s, OBJECT, items[i]) - items[i]
    BY Zenon DEF Reordered
  <1>3. PICK w \in Seq(Nat) : /\ Len(w) = n /\ \A i \in 1..n : w[i] = (sizes[i] + 16) + keys[i]
                              /\ Total(w) = (Total(sizes) + n * 16) + Total(keys)
    <2>1. 16 \in Nat
      OBVIOUS
    <2>2. n \in Nat /\ sizes \in Seq(Nat) /\ Len(sizes) = n
      BY <1>1
    <2>3. keys \in Seq(Nat) /\ Len(keys) = n
      BY <1>2
    <2>4. HasSums(n, sizes, keys, 16)
      BY <2>1, <2>2, <2>3, BothAndMore
    <2> QED BY <2>4, Zenon DEF HasSums
  <1>4. ASSUME NEW i \in 1..n
        PROVE  w[i] <= 8 * (ItemEnd(s, OBJECT, items[i]) - items[i])
    <2>1. PICK e \in Nat, v \in Nat :
            /\ e = ItemEnd(s, OBJECT, items[i]) /\ v = ValueIn(s, OBJECT, items[i])
            /\ sizes[i] + 8 <= 8 * (e - v)
      BY Zenon DEF ContainerRoom
    <2>2. PICK p \in Nat, k \in Nat, z \in Nat : p = items[i] /\ k = keys[i] /\ z = sizes[i]
      <3>1. items[i] \in Nat /\ keys[i] \in Nat /\ sizes[i] \in Nat
        BY SMTT(20), <1>1, <1>2
      <3> QED BY <3>1, Zenon
    <2>3. k + 1 = v - p /\ w[i] = (z + 16) + k /\ z + 8 <= 8 * (e - v)
      BY <1>2, <1>3, <2>1, <2>2, Zenon
    <2>4. (z + 16) + k <= 8 * (e - p)
      BY <2>3
    <2> QED BY <2>1, <2>2, <2>3, <2>4, Zenon
  <1>5. Len(w) = Len(items) /\ \A i \in 1..Len(items) :
                                 w[i] <= 8 * (ItemEnd(s, OBJECT, items[i]) - items[i])
    BY <1>1, <1>3, <1>4, Zenon
  <1>6. Total(w) <= 8 * (hi - (o + 3))
    BY <1>1, <1>5, ContainerWeighs, Zenon
  <1> QED BY <1>3, <1>6, Zenon

LEMMA ObjectSent ==
    ASSUME HashIsNumber, NEW s \in Seq(Nat), NEW o \in Nat, NEW hi \in Nat,
           Container(s, OBJECT, o, hi), 8 * hi <= SizeMax,
           Cell(s, o + 2) = SizeT(ObjectOutputSize(s, o + 3, hi))
    PROVE  Emits(s, o)
  <1>1. PICK items, n, sizes : /\ ContainerParts(s, OBJECT, o, hi, items, n, sizes)
                               /\ ContainerRoom(s, OBJECT, items, n, sizes)
    BY ContainerFacts, Zenon
  <1>2. /\ o \in ValueOffsets(s) /\ EndOfValue(s, o) = hi /\ ItemsAt(s, o) = items
        /\ IsEmpty(s, o) <=> n = 0
        /\ items = ItemsOf(s, OBJECT, o + 3, hi) /\ items \in Seq(Nat)
        /\ n \in Nat /\ n = Len(items)
        /\ sizes = ValueSizes(s, OBJECT, items) /\ sizes \in Seq(Nat) /\ Len(sizes) = n
    BY <1>1, Zenon DEF ContainerParts
  <1>3. PICK keys, written, keys2, sizes2 :
          Reordered(s, items, n, sizes, keys, written, keys2, sizes2)
    BY <1>1, ItemsReordered
  <1>4. /\ keys = KeySizes(s, items) /\ keys \in Seq(Nat) /\ Len(keys) = n
        /\ written = SortedItems(s, items) /\ written \in Seq(Nat) /\ Len(written) = n
        /\ SendsItems(s, OBJECT, written)
        /\ keys2 = KeySizes(s, written) /\ keys2 \in Seq(Nat) /\ Len(keys2) = n
        /\ \A i \in 1..n : KeyOf(s, written[i]) \in Seq(Nat) /\ Len(KeyOf(s, written[i])) = keys2[i]
        /\ sizes2 = ValueSizes(s, OBJECT, written) /\ sizes2 \in Seq(Nat) /\ Len(sizes2) = n
        /\ \A i \in 1..n : /\ sizes2[i] = SizeValue(s, ValueIn(s, OBJECT, written[i]))
                           /\ sizes2[i] \in Nat \ {0}
        /\ Total(keys2) = Total(keys) /\ Total(sizes2) = Total(sizes)
        /\ n > 0 => sizes2[n] = SizeValue(s, ValueOf(s, HighestItem(s, items)))
    BY <1>3, Zenon DEF Reordered
  <1>5. Cell(s, o) = OBJECT /\ ARRAY # OBJECT /\ OBJECT # SCALAR /\ o + 3 <= hi
    BY DEF Container, ARRAY, OBJECT, SCALAR
  <1>6. Emitted(s)[o] = IF n = 0 THEN <<64>>
                        ELSE ObjectHead(s, written) \o EmitItems(s, OBJECT, Emitted(s), written)
    <2>1. WrittenItems(s, o) = written
      BY <1>2, <1>4, <1>5, Zenon DEF WrittenItems
    <2>2. Emitted(s)[o] = EmitValue(s, Emitted(s), o, written)
      BY <1>2, <2>1, EmittedStep, Zenon
    <2> QED BY <1>2, <1>5, <2>2, Zenon DEF EmitValue
  <1>7. CASE n = 0
    <2>1. ObjectOutputSize(s, o + 3, hi) = 1
      BY <1>2, <1>7, Zenon DEF ObjectOutputSize
    <2>2. <<64>> \in Seq(Bytes) /\ Len(<<64>>) = 1
      BY DEF Bytes
    <2>3. 1 > 0 /\ 1 <= 1 + 8 * (hi - (o + 3)) /\ 1 \in Nat
      BY <1>5
    <2>4. PICK sent \in Seq(Bytes) : sent = Emitted(s)[o] /\ Len(sent) = 1
      BY <1>6, <1>7, <2>2, Zenon
    <2>5. Cell(s, o + 2) = SizeT(1) /\ Cell(s, o) # SCALAR
      BY <1>5, <2>1, Zenon
    <2> QED BY <1>2, <1>5, <2>3, <2>4, <2>5, EmitsCounted
  <1>8. CASE n # 0
    <2>1. PICK m \in Nat : m + 1 = n /\ n - 1 = m
      <3>1. n - 1 \in Nat /\ (n - 1) + 1 = n
        BY <1>2, <1>8
      <3> QED BY <3>1, Zenon
    <2>0. n \in Nat /\ n > 0 /\ n \in 1..n
      BY <1>2, <1>8
    <2>2. PICK less : /\ less = IndexedSizes(s, OBJECT, written)
                      /\ less \in Seq(Nat) /\ Len(less) = m
                      /\ Total(less) = Total(sizes2) - sizes2[n] - m /\ Total(less) \in Nat
      <3>1. m + 1 = Len(written) /\ Len(sizes2) = Len(written)
        BY <1>4, <2>1, Zenon
      <3>2. \A i \in 1..Len(written) : /\ sizes2[i] = SizeValue(s, ValueIn(s, OBJECT, written[i]))
                                       /\ sizes2[i] \in Nat \ {0}
        BY <1>4, Zenon
      <3>3. written \in Seq(Nat) /\ sizes2 \in Seq(Nat)
        BY <1>4
      <3>4. /\ IndexedSizes(s, OBJECT, written) \in Seq(Nat)
            /\ Len(IndexedSizes(s, OBJECT, written)) = m
            /\ Total(IndexedSizes(s, OBJECT, written)) = Total(sizes2) - sizes2[m + 1] - m
            /\ Total(IndexedSizes(s, OBJECT, written)) \in Nat
        BY <3>1, <3>2, <3>3, IndexedAre, Zenon
      <3> QED BY <2>1, <3>4, Zenon
    <2>3. PICK c \in 1..8 : /\ c = OptimalStorageSizeBytes(OptimalStorageSize(m))
                            /\ c = OptimalStorageSizeBytes(OptimalStorageSize1(n))
      <3>1. OptimalStorageSize(m) \in 0..3 /\ OptimalStorageSize1(n) = OptimalStorageSize(m)
        BY <2>1, WidthFacts
      <3>2. OptimalStorageSizeBytes(OptimalStorageSize(m)) \in 1..8
        BY <3>1, WidthBytes, Zenon
      <3> QED BY <3>1, <3>2, Zenon
    <2>4. PICK d \in 1..8 : d = OptimalStorageSizeBytes(OptimalStorageSize(Total(less)))
      <3>1. PICK t \in Nat : t = Total(less)
        BY <2>2, Zenon
      <3>2. OptimalStorageSize(t) \in 0..3
        BY WidthFacts
      <3> QED BY <3>1, <3>2, WidthBytes, Zenon
    <2>5. PICK total \in Nat, data \in Nat : total = Total(sizes) /\ data = Total(keys)
      <3>1. Total(sizes) \in Nat /\ Total(keys) \in Nat
        BY <1>2, <1>4, TotalType
      <3> QED BY <3>1, Zenon
    <2>6. PICK e \in 1..8 : e = OptimalStorageSizeBytes(OptimalStorageSize(data))
      <3>1. OptimalStorageSize(data) \in 0..3
        BY WidthFacts
      <3> QED BY <3>1, WidthBytes, Zenon
    <2>7. PICK head \in Seq(Bytes) : /\ head = ObjectHead(s, written)
                                     /\ Len(head) = 1 + c + n * e + m * d + data
      <3>1. m + 1 = Len(written) /\ written \in Seq(Nat) /\ less \in Seq(Nat)
        BY <1>4, <2>1, <2>2, Zenon
      <3>2. less = IndexedSizes(s, OBJECT, written) /\ Len(less) = m
        BY <2>2, Zenon
      <3>3. KeysAre(s, written, m + 1, keys2)
        BY <1>4, <2>1, Zenon DEF KeysAre
      <3>4. /\ ObjectHead(s, written) \in Seq(Bytes)
            /\ Len(ObjectHead(s, written)) =
                 1 + OptimalStorageSizeBytes(OptimalStorageSize(m))
                   + (m + 1) * OptimalStorageSizeBytes(OptimalStorageSize(Total(keys2)))
                   + m * OptimalStorageSizeBytes(OptimalStorageSize(Total(less)))
                   + Total(keys2)
        <4>1. ObjectIndex(s, written, m, keys2, less)
          BY <3>1, <3>2, <3>3, Zenon DEF ObjectIndex
        <4> QED BY <4>1, ObjectHeadIs
      <3> QED BY <1>4, <2>1, <2>3, <2>4, <2>5, <2>6, <3>4, Zenon
    <2>8. PICK rest \in Seq(Bytes) :
            rest = EmitItems(s, OBJECT, Emitted(s), written) /\ Len(rest) = total
      <3>1. written \in Seq(Nat) /\ SendsItems(s, OBJECT, written)
            /\ Total(ValueSizes(s, OBJECT, written)) = total
        BY <1>4, <2>5, Zenon
      <3>2. /\ EmitItems(s, OBJECT, Emitted(s), written) \in Seq(Bytes)
            /\ Len(EmitItems(s, OBJECT, Emitted(s), written)) = Total(ValueSizes(s, OBJECT, written))
        BY <3>1, ItemsSent, Zenon
      <3> QED BY <3>1, <3>2, Zenon
    <2>9. PICK p \in Nat, q \in Nat : p = m * d /\ p <= 8 * m /\ q = n * e /\ q <= 8 * n
      <3>1. m * d \in Nat /\ m * d <= 8 * m
        BY WidthProduct
      <3>2. n * e \in Nat /\ n * e <= 8 * n
        BY <2>0, WidthProduct
      <3> QED BY <3>1, <3>2, Zenon
    <2>10. ObjectOutputSize(s, o + 3, hi) = 1 + c + q + p + data + total
      <3>1. OptimalStorageSize(Total(sizes) - SizeValue(s, ValueOf(s, HighestItem(s, items))) - (n - 1))
              = OptimalStorageSize(Total(less))
        BY <1>4, <2>0, <2>1, <2>2, Zenon
      <3> QED BY <1>2, <1>4, <1>8, <2>1, <2>3, <2>4, <2>5, <2>6, <2>9, <3>1, Zenon DEF ObjectOutputSize
    <2>11. PICK sent \in Seq(Bytes) : /\ Emitted(s)[o] = sent
                                      /\ Len(sent) = 1 + c + q + p + data + total
      <3>1. head \o rest \in Seq(Bytes) /\ Len(head \o rest) = Len(head) + Len(rest)
        BY ConcatProperties, Zenon
      <3> QED BY <1>6, <1>8, <2>7, <2>8, <2>9, <3>1, Zenon
    <2>12. (total + n * 16) + data <= 8 * (hi - (o + 3))
      BY <1>1, <1>3, <2>5, ObjectRoom, Zenon
    <2>13. /\ 1 + c + q + p + data + total \in Nat /\ 1 + c + q + p + data + total > 0
           /\ 1 + c + q + p + data + total <= 1 + 8 * (hi - (o + 3))
      <3>1. PICK lo \in Nat : lo = o + 3
        OBVIOUS
      <3>2. (total + n * 16) + data <= 8 * (hi - lo) /\ lo <= hi
        BY <1>5, <2>12, <3>1, Zenon
      <3>3. p <= 8 * m /\ q <= 8 * n
        BY <2>9
      <3>4. n \in Nat /\ m + 1 = n
        BY <2>0, <2>1
      <3> QED BY <3>1, <3>2, <3>3, <3>4, ObjectSizeFits, ZenonT(40)
    <2>14. PICK size \in Nat : /\ size = 1 + c + q + p + data + total
                               /\ size > 0 /\ size <= 1 + 8 * (hi - (o + 3))
      BY <2>13, Zenon
    <2>15. Cell(s, o + 2) = SizeT(size) /\ Len(sent) = size /\ Cell(s, o) # SCALAR
      BY <1>5, <2>10, <2>11, <2>14, Zenon
    <2>16. EndOfValue(s, o) = hi /\ o + 3 <= hi /\ Emitted(s)[o] = sent
      BY <1>2, <1>5, <2>11, Zenon
    <2> QED BY <2>14, <2>15, <2>16, EmitsCounted
  <1> QED BY <1>7, <1>8


-----------------------------------------------------------------------------
(***************************************************************************)
(* A value that is sent with its size, on this spool and on every other    *)
(* that has the same cells for it.                                         *)
(***************************************************************************)

WellSized(s, v) ==
    /\ Cell(s, v) # SCALAR => v + 3 <= EndOfValue(s, v)
    /\ \A s2 \in Seq(Nat) : Agree(s, s2, v, EndOfValue(s, v)) => Emits(s2, v)

LEMMA WellSizedNow ==
    ASSUME NEW s \in Seq(Nat), NEW v \in Nat, EndOfValue(s, v) <= Len(s), WellSized(s, v)
    PROVE  Emits(s, v)
  <1>1. Agree(s, s, v, EndOfValue(s, v))
    BY Zenon DEF Agree
  <1> QED BY <1>1, Zenon DEF WellSized

LEMMA AgreeThrough ==
    ASSUME NEW s, NEW s2, NEW s3, NEW lo, NEW hi, Agree(s, s2, lo, hi), Agree(s2, s3, lo, hi)
    PROVE  Agree(s, s3, lo, hi)
  BY Zenon DEF Agree

\* The cells that a value's size is read from are its own.
LEMMA SizeAgrees ==
    ASSUME NEW s \in Seq(Nat), NEW s2 \in Seq(Nat), NEW v \in Nat, NEW e \in Nat,
           e = EndOfValue(s, v), v + 2 <= e, Agree(s, s2, v, e)
    PROVE  /\ EndOfValue(s2, v) = e /\ Cell(s2, v) = Cell(s, v)
           /\ (Cell(s, v) = SCALAR \/ v + 3 <= e) => SizeValue(s2, v) = SizeValue(s, v)
  <1>1. Cell(s2, v) = Cell(s, v) /\ Cell(s2, v + 1) = Cell(s, v + 1)
    <2>1. v + 1 \in Nat /\ v <= v + 1 /\ v + 1 < e /\ v < e /\ v <= v
      OBVIOUS
    <2> QED BY <2>1, Zenon DEF Agree
  <1>2. EndOfValue(s2, v) = e
    BY <1>1 DEF EndOfValue, TypeByteSize, SizeOfSize
  <1>3. ASSUME v + 3 <= e PROVE Cell(s2, v + 2) = Cell(s, v + 2)
    <2>1. v + 2 \in Nat /\ v <= v + 2 /\ v + 2 < e
      BY <1>3
    <2> QED BY <2>1, Zenon DEF Agree
  <1>4. ASSUME Cell(s, v) = SCALAR \/ v + 3 <= e
        PROVE  SizeValue(s2, v) = SizeValue(s, v)
    BY <1>1, <1>3, <1>4 DEF SizeValue, TypeByteSize, SizeOfSize
  <1> QED BY <1>1, <1>2, <1>4, Zenon

LEMMA WellSizedKept ==
    ASSUME NEW s \in Seq(Nat), NEW s2 \in Seq(Nat), NEW v \in Nat, NEW e \in Nat,
           e = EndOfValue(s, v), v + 2 <= e, Agree(s, s2, v, e), WellSized(s, v)
    PROVE  WellSized(s2, v) /\ EndOfValue(s2, v) = e /\ SizeValue(s2, v) = SizeValue(s, v)
  <1>1. Cell(s, v) = SCALAR \/ v + 3 <= e
    BY Zenon DEF WellSized
  <1>2. EndOfValue(s2, v) = e /\ Cell(s2, v) = Cell(s, v) /\ SizeValue(s2, v) = SizeValue(s, v)
    BY <1>1, SizeAgrees
  <1>3. ASSUME NEW s3 \in Seq(Nat), Agree(s2, s3, v, EndOfValue(s2, v)) PROVE Emits(s3, v)
    <2>1. Agree(s, s3, v, e)
      BY <1>2, <1>3, AgreeThrough, Zenon
    <2> QED BY <2>1, Zenon DEF WellSized
  <1> QED BY <1>1, <1>2, <1>3, Zenon DEF WellSized

LEMMA ScalarSized ==
    ASSUME HashIsNumber, NEW s \in Seq(Nat), NEW v \in Nat, NEW n \in Nat,
           v + 2 + n <= Len(s), n > 0,
           Cell(s, v) = SCALAR, Cell(s, v + 1) = n
    PROVE  WellSized(s, v) /\ EndOfValue(s, v) = v + 2 + n
  <1>1. EndOfValue(s, v) = v + 2 + n
    BY DEF EndOfValue, TypeByteSize, SizeOfSize
  <1>2. ASSUME NEW s2 \in Seq(Nat), Agree(s, s2, v, v + 2 + n) PROVE Emits(s2, v)
    <2>1. v + 2 + n <= Len(s2)
      BY <1>2 DEF Agree
    <2>2. Cell(s2, v) = SCALAR /\ Cell(s2, v + 1) = n
      <3>1. v + 1 \in Nat /\ v <= v + 1 /\ v + 1 < v + 2 + n /\ v < v + 2 + n /\ v <= v
        OBVIOUS
      <3> QED BY <1>2, <3>1, Zenon DEF Agree
    <2>3. v \in ValueOffsets(s2)
      <3>1. v + 2 <= Len(s2)
        BY <2>1
      <3> QED BY <3>1, ValueOffset
    <2>4. Emitted(s2)[v] = Slice(s2, v + 2, n)
      <3>1. Emitted(s2)[v] = EmitValue(s2, Emitted(s2), v, WrittenItems(s2, v))
        BY <2>3, EmittedStep, Zenon
      <3>2. SCALAR # ARRAY /\ SCALAR # OBJECT
        BY DEF SCALAR, ARRAY, OBJECT
      <3>3. v + TypeByteSize + SizeOfSize = v + 2 /\ v + TypeByteSize = v + 1
        BY DEF TypeByteSize, SizeOfSize
      <3> QED BY <2>2, <3>1, <3>2, <3>3, Zenon DEF EmitValue
    <2>5. Slice(s2, v + 2, n) \in Seq(Nat) /\ Len(Slice(s2, v + 2, n)) = n
      <3>1. v + 2 \in Nat /\ (v + 2) + n <= Len(s2)
        BY <2>1
      <3> QED BY <3>1, SliceFacts
    <2>6. Emitted(s2)[v] \in Seq(Bytes)
      <3>1. Nat \subseteq Bytes
        BY DEF Bytes
      <3>2. \A k \in Seq(Nat) : k \in Seq(Bytes)
        BY <3>1
      <3> QED BY <2>4, <2>5, <3>2, Zenon
    <2>7. SizeValue(s2, v) = n /\ EndOfValue(s2, v) = v + 2 + n
      BY <2>2 DEF SizeValue, EndOfValue, TypeByteSize, SizeOfSize
    <2>8. n \in 1..(8 * ((v + 2 + n) - v - 1))
      OBVIOUS
    <2> QED BY <2>4, <2>5, <2>6, <2>7, <2>8, Zenon DEF Emits
  <1> QED BY <1>1, <1>2, Zenon DEF WellSized

\* The values of the items from lo to hi.
SizedItems(s, type, lo, hi) ==
    \A i \in 1..Len(ItemsOf(s, type, lo, hi)) :
      WellSized(s, ValueIn(s, type, ItemsOf(s, type, lo, hi)[i]))

\* Two spools have the same items, keys and sizes.
SameSizes(s, s2, type, items) ==
    \A i \in 1..Len(items) :
      /\ ValueIn(s2, type, items[i]) = ValueIn(s, type, items[i])
      /\ ItemEnd(s2, type, items[i]) = ItemEnd(s, type, items[i])
      /\ SizeValue(s2, ValueIn(s, type, items[i])) = SizeValue(s, ValueIn(s, type, items[i]))
      /\ WellSized(s2, ValueIn(s, type, items[i])) /\ Emits(s2, ValueIn(s, type, items[i]))
      /\ type = OBJECT => /\ KeySize(s2, items[i]) = KeySize(s, items[i])
                          /\ KeyOf(s2, items[i]) = KeyOf(s, items[i])

LEMMA ItemsSized ==
    ASSUME NEW s \in Seq(Nat), NEW s2 \in Seq(Nat), NEW type,
           NEW lo \in Nat, NEW hi \in Nat, lo <= hi, Agree(s, s2, lo, hi),
           SizedItems(s, type, lo, hi), NEW items, items = ItemsOf(s, type, lo, hi)
    PROVE  SameSizes(s, s2, type, items)
  <1>1. hi \in 0..Len(s) /\ lo \in 0..hi /\ hi \in 0..Len(s2)
    BY DEF Agree
  <1>2. ASSUME NEW i \in 1..Len(items), NEW p, p = items[i],
               NEW v, v = ValueIn(s, type, p), NEW e, e = ItemEnd(s, type, p)
        PROVE  /\ ValueIn(s2, type, p) = v /\ ItemEnd(s2, type, p) = e
               /\ SizeValue(s2, v) = SizeValue(s, v)
               /\ WellSized(s2, v) /\ Emits(s2, v)
               /\ type = OBJECT => KeySize(s2, p) = KeySize(s, p) /\ KeyOf(s2, p) = KeyOf(s, p)
    <2>1. /\ p \in Nat /\ lo <= p /\ IsItem(s, type, p, hi) /\ p <= v /\ v \in Nat
          /\ v + 2 <= e /\ e \in Nat /\ e <= hi /\ p < e
      BY <1>1, <1>2, ItemOf
    <2>2. Agree(s, s2, p, e) /\ Agree(s, s2, v, e)
      BY <2>1, AgreeWithin
    <2>3. ValueIn(s2, type, p) = v /\ ItemEnd(s2, type, p) = e
      <3>1. Agree(s, s2, p, ItemEnd(s, type, p)) /\ ItemEnd(s, type, p) <= hi
        BY <1>2, <2>1, <2>2, Zenon
      <3>2. /\ ItemEnd(s2, type, p) = ItemEnd(s, type, p)
            /\ ValueIn(s2, type, p) = ValueIn(s, type, p)
        BY <1>1, <2>1, <3>1, IsItemKept
      <3> QED BY <1>2, <3>2, Zenon
    <2>4. e = EndOfValue(s, v) /\ WellSized(s, v)
      BY <1>2, Zenon DEF SizedItems, ItemEnd
    <2>5. WellSized(s2, v) /\ EndOfValue(s2, v) = e /\ SizeValue(s2, v) = SizeValue(s, v)
      BY <2>1, <2>2, <2>4, WellSizedKept
    <2>6. Emits(s2, v)
      <3>1. e <= Len(s2)
        BY <2>2 DEF Agree
      <3> QED BY <2>1, <2>5, <3>1, WellSizedNow
    <2>7. ASSUME type = OBJECT
          PROVE  KeySize(s2, p) = KeySize(s, p) /\ KeyOf(s2, p) = KeyOf(s, p)
      <3>1. PICK k \in Nat : k = Cell(s, p)
        <4>1. p < Len(s)
          BY <1>1, <2>1
        <4> QED BY <2>1, <4>1, CellType
      <3>2. v = p + 1 + k
        BY <1>2, <2>7, <3>1 DEF ValueIn, ValueOf, KeySize, SizeOfSize
      <3>3. Cell(s2, p) = k
        BY <2>1, <2>2, <3>1 DEF Agree
      <3>4. p + 1 \in Nat /\ (p + 1) + k \in Nat /\ p <= p + 1 /\ (p + 1) + k <= e
        BY <2>1, <3>2
      <3>5. Agree(s, s2, p + 1, (p + 1) + k)
        BY <2>1, <2>2, <3>4, AgreeWithin
      <3>6. Slice(s2, p + 1, k) = Slice(s, p + 1, k)
        BY <3>4, <3>5, SliceAgree
      <3> QED BY <3>1, <3>3, <3>6, Zenon DEF KeyOf, KeySize, SizeOfSize
    <2> QED BY <2>3, <2>5, <2>6, <2>7
  <1> QED BY <1>2, Zenon DEF SameSizes


OutputSize(s, type, lo, hi) ==
    IF type = ARRAY THEN ArrayOutputSize(s, lo, hi) ELSE ObjectOutputSize(s, lo, hi)

\* The item that comes last in an object depends on nothing but the keys.
LEMMA HighestAgrees ==
    ASSUME HashIsNumber, NEW s, NEW s2, NEW items, KeyedItems(s, items), KeyedItems(s2, items),
           NEW n \in Nat, n = Len(items), n > 0,
           \A i \in 1..n : KeyOf(s2, items[i]) = KeyOf(s, items[i])
    PROVE  HighestItem(s2, items) = HighestItem(s, items)
  <1> DEFINE A == ToSet(items)
  <1>1. PICK a : a = HighestItem(s, items)
    OBVIOUS
  <1>2. PICK b : b = HighestItem(s2, items)
    OBVIOUS
  <1>3. Highest(s, items, n, a) /\ Highest(s2, items, n, b)
    BY <1>1, <1>2, HighestFound
  <1>4. \A i, j \in 1..n : ItemBefore(s2, items[i], items[j]) <=> ItemBefore(s, items[i], items[j])
    BY Zenon DEF ItemBefore
  <1>5. a = b \/ (ItemBefore(s, a, b) /\ ItemBefore(s, b, a))
    BY <1>3, <1>4, Zenon DEF Highest
  <1>6. a \in A /\ b \in A
    <2>1. \A i \in 1..n : items[i] \in A
      BY ElementsFacts DEF KeyedItems
    <2> QED BY <1>3, <2>1, Zenon DEF Highest
  <1> HIDE DEF A
  <1>7. ASSUME ItemBefore(s, a, b), ItemBefore(s, b, a) PROVE FALSE
    <2>1. Orders(Before(s, items), A)
      BY ItemsOrdered DEF A
    <2>2. <<a, b>> \in Before(s, items) /\ <<b, a>> \in Before(s, items)
      BY <1>6, <1>7 DEF Before, A
    <2> QED BY <1>6, <2>1, <2>2, Zenon DEF Orders
  <1> QED BY <1>1, <1>2, <1>5, <1>7

LEMMA OutputSizeAgrees ==
    ASSUME HashIsNumber, NEW s \in Seq(Nat), NEW s2 \in Seq(Nat), NEW type \in {OBJECT, ARRAY},
           NEW lo \in Nat, NEW hi \in Nat, lo <= hi, Agree(s, s2, lo, hi),
           SizedItems(s, type, lo, hi)
    PROVE  OutputSize(s2, type, lo, hi) = OutputSize(s, type, lo, hi)
  <1>1. PICK items : items = ItemsOf(s, type, lo, hi) /\ items = ItemsOf(s2, type, lo, hi)
    BY ItemsAgree
  <1>2. PICK n \in Nat : items \in Seq(Nat) /\ n = Len(items) /\ DOMAIN items = 1..n
    <2>1. items \in Seq(Nat)
      <3>1. hi \in 0..Len(s) /\ lo \in 0..hi
        BY DEF Agree
      <3> QED BY <1>1, <3>1, ItemsTile, ZenonT(40) DEF Tiled
    <2> QED BY <2>1
  <1>3. SameSizes(s, s2, type, items)
    BY <1>1, ItemsSized
  <1>4. ValueSizes(s2, type, items) = ValueSizes(s, type, items)
    BY <1>2, <1>3, Zenon DEF ValueSizes, SameSizes
  <1>5. CASE type = ARRAY
    BY <1>1, <1>4, <1>5, Zenon DEF OutputSize, ArrayOutputSize
  <1>6. CASE type = OBJECT
    <2>1. KeySizes(s2, items) = KeySizes(s, items)
      BY <1>2, <1>3, <1>6, Zenon DEF KeySizes, SameSizes
    <2>2. ASSUME n # 0
          PROVE  SizeValue(s2, ValueOf(s2, HighestItem(s2, items))) =
                   SizeValue(s, ValueOf(s, HighestItem(s, items)))
      <3>1. hi \in 0..Len(s) /\ lo \in 0..hi /\ hi \in 0..Len(s2)
        BY DEF Agree
      <3>2. KeyedItems(s, items) /\ KeyedItems(s2, items)
        BY <1>1, <1>6, <3>1, KeyFactsOf
      <3>3. \A i \in 1..n : KeyOf(s2, items[i]) = KeyOf(s, items[i])
        BY <1>2, <1>3, <1>6, Zenon DEF SameSizes
      <3>4. n > 0
        BY <2>2
      <3>5. HighestItem(s2, items) = HighestItem(s, items)
        BY <1>2, <3>2, <3>3, <3>4, HighestAgrees
      <3>6. PICK i \in 1..n : HighestItem(s, items) = items[i]
        <4>1. Highest(s, items, n, HighestItem(s, items))
          BY <1>2, <3>2, <3>4, HighestFound
        <4> QED BY <4>1, Zenon DEF Highest
      <3>7. \A r : ValueIn(r, OBJECT, items[i]) = ValueOf(r, items[i])
        BY Zenon DEF ValueIn
      <3> QED BY <1>2, <1>3, <1>6, <3>5, <3>6, <3>7, Zenon DEF SameSizes
    <2>3. ARRAY # OBJECT
      BY DEF ARRAY, OBJECT
    <2>4. ObjectOutputSize(s2, lo, hi) = ObjectOutputSize(s, lo, hi)
      BY <1>1, <1>2, <1>4, <1>6, <2>1, <2>2, Zenon DEF ObjectOutputSize
    <2> QED BY <1>6, <2>3, <2>4, Zenon DEF OutputSize
  <1> QED BY <1>5, <1>6

\* The cells from o + 3 to hi are the items of a container; s2 has its head.
ClosedOver(s, s2, type, o, hi) ==
    /\ o + 3 <= hi /\ Agree(s, s2, o + 3, hi)
    /\ EndOfItems(s, type, o + 3, ItemsOf(s, type, o + 3, hi)) = hi
    /\ SizedItems(s, type, o + 3, hi)
    /\ Cell(s2, o) = type /\ Cell(s2, o + 1) = hi - o - 2
    /\ Cell(s2, o + 2) = SizeT(OutputSize(s, type, o + 3, hi))

\* So is the container that is closed over such values.
LEMMA ContainerSized ==
    ASSUME HashIsNumber, NEW s \in Seq(Nat), NEW s2 \in Seq(Nat),
           NEW type \in {OBJECT, ARRAY}, NEW o \in Nat, NEW hi \in Nat,
           8 * hi <= SizeMax, ClosedOver(s, s2, type, o, hi)
    PROVE  WellSized(s2, o) /\ EndOfValue(s2, o) = hi
  <1>1. /\ o + 3 <= hi /\ Agree(s, s2, o + 3, hi)
        /\ EndOfItems(s, type, o + 3, ItemsOf(s, type, o + 3, hi)) = hi
        /\ SizedItems(s, type, o + 3, hi)
        /\ Cell(s2, o) = type /\ Cell(s2, o + 1) = hi - o - 2
        /\ Cell(s2, o + 2) = SizeT(OutputSize(s, type, o + 3, hi))
    BY Zenon DEF ClosedOver
  <1>2. EndOfValue(s2, o) = hi
    BY <1>1 DEF EndOfValue, TypeByteSize, SizeOfSize
  <1>3. PICK lo \in Nat : lo = o + 3 /\ lo <= hi
    BY <1>1
  <1>4. ASSUME NEW s3 \in Seq(Nat), Agree(s2, s3, o, hi) PROVE Emits(s3, o)
    <2>1. Agree(s, s3, lo, hi)
      <3>1. Agree(s2, s3, lo, hi)
        <4>1. o <= lo /\ hi <= hi
          BY <1>3
        <4> QED BY <1>4, <4>1, AgreeWithin
      <3> QED BY <1>1, <1>3, <3>1, AgreeThrough, Zenon
    <2>2. PICK items : items = ItemsOf(s, type, lo, hi) /\ items = ItemsOf(s3, type, lo, hi)
      BY <1>3, <2>1, ItemsAgree
    <2>3. SameSizes(s, s3, type, items)
      BY <1>1, <1>3, <2>1, <2>2, ItemsSized
    <2>4. EmitsItems(s3, type, items)
      BY <2>3, Zenon DEF EmitsItems, SameSizes
    <2>5. EndOfItems(s3, type, lo, items) = hi
      <3>1. CASE items = <<>>
        BY <1>1, <1>3, <2>2, <3>1, Zenon DEF EndOfItems
      <3>2. CASE items # <<>>
        <4>1. items \in Seq(Nat)
          <5>1. hi \in 0..Len(s) /\ lo \in 0..hi
            BY <1>3, <2>1 DEF Agree
          <5>2. Tiled(s, type, lo, hi)
            BY <5>1, ItemsTile
          <5> QED BY <2>2, <5>2, Zenon DEF Tiled
        <4>2. Len(items) \in 1..Len(items) /\ Last(items) = items[Len(items)]
          BY <3>2, <4>1 DEF Last
        <4>3. ItemEnd(s3, type, Last(items)) = ItemEnd(s, type, Last(items))
          BY <2>3, <4>2, Zenon DEF SameSizes
        <4> QED BY <1>1, <1>3, <2>2, <3>2, <4>3, Zenon DEF EndOfItems
      <3> QED BY <3>1, <3>2
    <2>6. /\ Cell(s3, o) = type /\ Cell(s3, o + 1) = hi - o - 2
          /\ Cell(s3, o + 2) = SizeT(OutputSize(s, type, lo, hi)) /\ hi <= Len(s3)
      <3>1. /\ o + 1 \in Nat /\ o + 2 \in Nat /\ o <= o /\ o <= o + 1 /\ o <= o + 2
            /\ o < hi /\ o + 1 < hi /\ o + 2 < hi
        BY <1>1
      <3> QED BY <1>1, <1>3, <1>4, <3>1, Zenon DEF Agree
    <2>7. Container(s3, type, o, hi)
      BY <1>1, <1>3, <2>2, <2>4, <2>5, <2>6, Zenon DEF Container
    <2>8. OutputSize(s3, type, lo, hi) = OutputSize(s, type, lo, hi)
      BY <1>1, <1>3, <2>1, OutputSizeAgrees
    <2>9. CASE type = ARRAY
      <3>1. Cell(s3, o + 2) = SizeT(ArrayOutputSize(s3, o + 3, hi))
        BY <1>3, <2>6, <2>8, <2>9, Zenon DEF OutputSize
      <3> QED BY <2>7, <2>9, <3>1, ArraySent
    <2>10. CASE type = OBJECT
      <3>1. ARRAY # OBJECT
        BY DEF ARRAY, OBJECT
      <3>2. Cell(s3, o + 2) = SizeT(ObjectOutputSize(s3, o + 3, hi))
        BY <1>3, <2>6, <2>8, <2>10, <3>1, Zenon DEF OutputSize
      <3> QED BY <2>7, <2>10, <3>2, ObjectSent
    <2> QED BY <2>9, <2>10
  <1> QED BY <1>1, <1>2, <1>4, Zenon DEF WellSized


\* Items that stay the same stay well sized.
LEMMA SizedKept ==
    ASSUME NEW s \in Seq(Nat), NEW s2 \in Seq(Nat), NEW type,
           NEW lo \in Nat, NEW hi \in Nat, lo <= hi, Agree(s, s2, lo, hi),
           SizedItems(s, type, lo, hi), NEW hi2,
           ItemsOf(s2, type, lo, hi2) = ItemsOf(s, type, lo, hi)
    PROVE  SizedItems(s2, type, lo, hi2)
  <1>1. PICK items : items = ItemsOf(s, type, lo, hi)
    OBVIOUS
  <1>2. SameSizes(s, s2, type, items)
    BY <1>1, ItemsSized
  <1> QED BY <1>1, <1>2, Zenon DEF SizedItems, SameSizes
=============================================================================
