------------------------ MODULE WriterDocumentProofs ------------------------
(***************************************************************************)
(* The writer implements Document: theorems for documents of any size.     *)
(***************************************************************************)
EXTENDS WriterProofs, SpoolProofs

-----------------------------------------------------------------------------
(***************************************************************************)
(* The values on a spool exist, since each is made of those behind it, and *)
(* depend on no cells but their own.                                       *)
(***************************************************************************)

Valued(s, value, offsets) ==
    value = [o \in offsets |-> ValueTree(s, value, o, ItemsAt(s, o))]

LEMMA ValueTreeLocal ==
    ASSUME NEW s \in Seq(Nat), NEW o \in ValueOffsets(s), NEW value, NEW value2,
           \A p \in ValueOffsets(s) : o < p => value2[p] = value[p]
    PROVE  ValueTree(s, value2, o, ItemsAt(s, o)) = ValueTree(s, value, o, ItemsAt(s, o))
  <1> DEFINE items == ItemsAt(s, o)
  <1>1. /\ items \in Seq(Nat)
        /\ \A i \in 1..Len(items) :
             LET v == ValueIn(s, Cell(s, o), items[i]) IN v \in ValueOffsets(s) /\ o < v
    BY ItemsAtFacts
  <1> HIDE DEF items
  <1>2. DOMAIN items = 1..Len(items)
    BY <1>1
  <1>3. CASE Cell(s, o) = OBJECT
    <2>1. ASSUME NEW i \in DOMAIN items
          PROVE  value2[ValueOf(s, items[i])] = value[ValueOf(s, items[i])]
      BY <1>1, <1>2, <1>3 DEF ValueIn
    <2>2. ItemTrees(s, OBJECT, value2, items) = ItemTrees(s, OBJECT, value, items)
      BY <2>1, Zenon DEF ItemTrees, ItemTree
    <2>3. Cell(s, o) # SCALAR /\ Cell(s, o) # ARRAY
      BY <1>3 DEF OBJECT, ARRAY, SCALAR
    <2> QED BY <1>3, <2>2, <2>3, Zenon DEF ValueTree, items
  <1>4. CASE Cell(s, o) = ARRAY
    <2>0. Cell(s, o) # SCALAR /\ ARRAY # OBJECT
      BY <1>4 DEF OBJECT, ARRAY, SCALAR
    <2>1. ASSUME NEW i \in DOMAIN items PROVE value2[items[i]] = value[items[i]]
      BY <1>1, <1>2, <1>4, <2>0 DEF ValueIn
    <2>2. ItemTrees(s, ARRAY, value2, items) = ItemTrees(s, ARRAY, value, items)
      BY <2>0, <2>1, Zenon DEF ItemTrees, ItemTree
    <2> QED BY <1>4, <2>0, <2>2, Zenon DEF ValueTree, items
  <1>5. CASE Cell(s, o) \notin {OBJECT, ARRAY}
    BY <1>5, Zenon DEF ValueTree
  <1> QED BY <1>3, <1>4, <1>5

LEMMA ValuesExist ==
    ASSUME NEW s \in Seq(Nat)
    PROVE  \E value : Valued(s, value, ValueOffsets(s))
  <1> DEFINE N == Len(s)
             From(n) == {o \in ValueOffsets(s) : N <= o + n}
             S == {n \in Nat : \E w : Valued(s, w, From(n))}
  <1>0. N \in Nat /\ \A o \in ValueOffsets(s) : o \in Nat /\ o < N
    BY DEF ValueOffsets, TypeByteSize, SizeOfSize
  <1>1. 0 \in S
    <2>1. From(0) = {}
      BY <1>0
    <2> DEFINE w == [o \in {} |-> <<>>]
    <2>2. Valued(s, w, {})
      BY DEF Valued
    <2> QED BY <2>1, <2>2
  <1>2. ASSUME NEW n \in Nat, n \in S PROVE n + 1 \in S
    <2>1. PICK w : Valued(s, w, From(n))
      BY <1>2
    <2> HIDE DEF N
    <2> DEFINE w2 == [o \in From(n + 1) |-> ValueTree(s, w, o, ItemsAt(s, o))]
    <2>2. \A o \in From(n) : w2[o] = w[o]
      <3>1. TAKE o \in From(n)
      <3>2. o \in From(n + 1)
        BY <1>0
      <3>3. w[o] = ValueTree(s, w, o, ItemsAt(s, o))
        BY <2>1, <3>1, Zenon DEF Valued
      <3>4. w2[o] = ValueTree(s, w, o, ItemsAt(s, o))
        BY <3>2, Zenon
      <3> QED BY <3>3, <3>4, Zenon
    <2>3. ASSUME NEW o \in From(n + 1)
          PROVE  ValueTree(s, w, o, ItemsAt(s, o)) = ValueTree(s, w2, o, ItemsAt(s, o))
      <3>1. \A p \in ValueOffsets(s) : o < p => p \in From(n)
        BY <1>0
      <3>2. \A p \in ValueOffsets(s) : o < p => w2[p] = w[p]
        BY <2>2, <3>1, Zenon
      <3>3. o \in ValueOffsets(s)
        OBVIOUS
      <3> HIDE DEF w2
      <3> QED BY <3>2, <3>3, ValueTreeLocal, Zenon
    <2>4. Valued(s, w2, From(n + 1))
      BY <2>3, Zenon DEF Valued
    <2> HIDE DEF w2, From
    <2>5. n + 1 \in Nat /\ \E v : Valued(s, v, From(n + 1))
      BY <2>4
    <2> QED BY <2>5, Zenon
  <1>3. N \in S
    <2> HIDE DEF S
    <2> QED BY <1>0, <1>1, <1>2, SetInduction
  <1>4. From(N) = ValueOffsets(s)
    BY <1>0
  <1> QED BY <1>3, <1>4

LEMMA ValuesStep ==
    ASSUME NEW s \in Seq(Nat), NEW o \in ValueOffsets(s)
    PROVE  Values(s)[o] = ValueTree(s, Values(s), o, ItemsAt(s, o))
  <1> DEFINE value == CHOOSE w : Valued(s, w, ValueOffsets(s))
  <1>1. Valued(s, value, ValueOffsets(s))
    BY ValuesExist, Zenon
  <1>2. Values(s) = value
    BY Zenon DEF Values, Valued
  <1> HIDE DEF value
  <1>3. value[o] = ValueTree(s, value, o, ItemsAt(s, o))
    BY <1>1, Zenon DEF Valued
  <1> QED BY <1>2, <1>3, Zenon

\* The trees of items are the same when their cells and their values are.
LEMMA ItemTreesAgree ==
    ASSUME NEW s \in Seq(Nat), NEW s2 \in Seq(Nat), NEW type,
           NEW lo \in Nat, NEW hi \in Nat, lo <= hi, Agree(s, s2, lo, hi),
           NEW items, items = ItemsOf(s, type, lo, hi),
           NEW value, NEW value2,
           \A i \in 1..Len(items) :
             LET v == ValueIn(s, type, items[i]) IN value2[v] = value[v]
    PROVE  ItemTrees(s2, type, value2, items) = ItemTrees(s, type, value, items)
  <1> DEFINE end == EndOfItems(s, type, lo, items)
  <1>1. hi \in 0..Len(s) /\ lo \in 0..hi
    BY DEF Agree
  <1>2. /\ items \in Seq(Nat) /\ end \in Nat /\ end <= hi
        /\ \A i \in 1..Len(items) : lo <= items[i] /\ IsItem(s, type, items[i], end)
    BY <1>1, ItemsTile DEF Tiled
  <1> HIDE DEF end
  <1>3. ASSUME NEW i \in DOMAIN items
        PROVE  ItemTree(s2, type, value2, items[i]) = ItemTree(s, type, value, items[i])
    <2>0. i \in 1..Len(items)
      BY <1>2
    <2>1. PICK p \in Nat : p = items[i]
      BY <1>2, <2>0
    <2>2. /\ lo <= p /\ IsItem(s, type, p, end) /\ end \in 0..Len(s)
      BY <1>1, <1>2, <2>0, <2>1
    <2>3. /\ ValueIn(s, type, p) \in Nat /\ p <= ValueIn(s, type, p)
          /\ type = OBJECT => p < ValueIn(s, type, p)
          /\ ValueIn(s, type, p) + 2 <= ItemEnd(s, type, p)
          /\ ItemEnd(s, type, p) \in Nat /\ ItemEnd(s, type, p) <= end
      BY <2>2, ItemFacts
    <2>4. value2[ValueIn(s, type, p)] = value[ValueIn(s, type, p)]
      BY <2>0, <2>1
    <2>5. CASE type = OBJECT
      <3>1. ValueIn(s, type, p) = ValueOf(s, p) /\ p < ValueOf(s, p)
        BY <2>3, <2>5 DEF ValueIn
      <3>2. Cell(s2, p) = Cell(s, p) /\ Cell(s, p) \in Nat
        <4>1. p < hi /\ hi <= Len(s)
          BY <1>1, <1>2, <2>2, <2>3
        <4> QED BY <2>2, <4>1, CellType DEF Agree
      <3>3. ValueOf(s, p) = p + 1 + Cell(s, p) /\ ValueOf(s2, p) = ValueOf(s, p)
        BY <3>2 DEF ValueOf, KeySize, SizeOfSize
      <3>4. KeyOf(s2, p) = KeyOf(s, p)
        <4>1. p + 1 + Cell(s, p) <= hi
          BY <1>1, <1>2, <2>3, <3>1, <3>2, <3>3
        <4>2. lo <= p + 1 /\ p + 1 \in Nat /\ p + 1 + Cell(s, p) \in Nat
          BY <2>2, <3>2
        <4>3. Agree(s, s2, p + 1, p + 1 + Cell(s, p))
          BY <4>1, <4>2, AgreeWithin
        <4>4. Slice(s2, p + 1, Cell(s, p)) = Slice(s, p + 1, Cell(s, p))
          BY <3>2, <4>2, <4>3, SliceAgree
        <4> QED BY <3>2, <4>4 DEF KeyOf, KeySize, SizeOfSize
      <3> QED BY <2>1, <2>4, <2>5, <3>1, <3>3, <3>4, Zenon DEF ItemTree
    <2>6. CASE type # OBJECT
      <3>1. ValueIn(s, type, p) = p
        BY <2>6 DEF ValueIn
      <3> QED BY <2>1, <2>4, <2>6, <3>1, Zenon DEF ItemTree
    <2> QED BY <2>5, <2>6
  <1> QED BY <1>3, Zenon DEF ItemTrees

ValueAgrees(s, s2, o) ==
    EndOfValue(s, o) <= Len(s) /\ Agree(s, s2, o, EndOfValue(s, o))
      => EndOfValue(s2, o) = EndOfValue(s, o) /\ Values(s2)[o] = Values(s)[o]

LEMMA ValueAgree ==
    ASSUME NEW s \in Seq(Nat), NEW s2 \in Seq(Nat), NEW o \in ValueOffsets(s)
    PROVE  ValueAgrees(s, s2, o)
  <1> DEFINE S == {n \in Nat : \A p \in ValueOffsets(s) :
                     Len(s) <= p + n => ValueAgrees(s, s2, p)}
  <1>0. \A p \in ValueOffsets(s) : p \in Nat /\ p + 2 <= Len(s)
    BY HeadFacts
  <1>1. 0 \in S
    BY <1>0
  <1>2. ASSUME NEW n \in Nat, n \in S PROVE n + 1 \in S
    <2>1. ASSUME NEW p \in ValueOffsets(s), Len(s) <= p + (n + 1),
                 EndOfValue(s, p) <= Len(s), Agree(s, s2, p, EndOfValue(s, p))
          PROVE  EndOfValue(s2, p) = EndOfValue(s, p) /\ Values(s2)[p] = Values(s)[p]
      <3> DEFINE hi == EndOfValue(s, p)
                 lo == p + 3
                 items == ItemsAt(s, p)
                 type == Cell(s, p)
      <3>1. /\ p \in Nat /\ p + 2 <= Len(s) /\ hi \in Nat /\ FirstItem(p) = lo
            /\ hi <= Len(s)
            /\ hi = p + 2 + Cell(s, p + 1) /\ Cell(s, p + 1) \in Nat /\ Cell(s, p) \in Nat
        BY <2>1, HeadFacts
      <3>2. Cell(s2, p) = Cell(s, p) /\ Cell(s2, p + 1) = Cell(s, p + 1)
        <4>1. p + 1 \in Nat /\ p <= p + 1 /\ p < hi /\ p + 1 < hi
          BY <3>1
        <4> QED BY <2>1, <3>1, <4>1 DEF Agree
      <3>3. p \in ValueOffsets(s2) /\ EndOfValue(s2, p) = hi
        <4>1. hi <= Len(s2) /\ p + 2 <= hi
          BY <2>1, <3>1 DEF Agree
        <4>2. p + 2 <= Len(s2)
          BY <3>1, <4>1
        <4>3. p \in ValueOffsets(s2)
          BY <3>1, <4>2, ValueOffset
        <4> QED BY <3>1, <3>2, <4>3, HeadFacts
      <3>4. items = ItemsOf(s, type, lo, hi) /\ ItemsAt(s2, p) = ItemsOf(s2, type, lo, hi)
        BY <3>1, <3>2, <3>3 DEF ItemsAt
      <3>5. ASSUME type \in {OBJECT, ARRAY}
            PROVE  /\ ItemsAt(s2, p) = items
                   /\ ItemTrees(s2, type, Values(s2), items) =
                        ItemTrees(s, type, Values(s), items)
        <4>1. CASE lo <= hi
          <5>1. lo \in Nat /\ p <= lo /\ hi <= hi
            BY <3>1
          <5>2. Agree(s, s2, lo, hi)
            BY <2>1, <3>1, <5>1, AgreeWithin
          <5>3. ItemsAt(s2, p) = items
            BY <3>1, <3>4, <4>1, <5>1, <5>2, ItemsAgree
          <5> DEFINE end == EndOfItems(s, type, lo, items)
          <5>4. /\ items \in Seq(Nat) /\ end \in Nat /\ end <= hi
                /\ \A i \in 1..Len(items) : lo <= items[i] /\ IsItem(s, type, items[i], end)
            <6>1. hi \in 0..Len(s) /\ lo \in 0..hi
              BY <2>1, <3>1, <4>1, <5>1
            <6> QED BY <3>4, <6>1, ItemsTile DEF Tiled
          <5> HIDE DEF end, items, type
          <5>5. ASSUME NEW i \in 1..Len(items)
                PROVE  Values(s2)[ValueIn(s, type, items[i])] =
                         Values(s)[ValueIn(s, type, items[i])]
            <6>1. PICK q \in Nat : q = items[i]
              BY <5>4
            <6>2. PICK v : v = ValueIn(s, type, q)
              OBVIOUS
            <6>3. lo <= q /\ IsItem(s, type, q, end) /\ end \in 0..Len(s)
              BY <2>1, <3>1, <5>4, <6>1
            <6>4. /\ v \in Nat /\ q <= v
                  /\ v + 2 <= ItemEnd(s, type, q)
                  /\ ItemEnd(s, type, q) \in Nat /\ ItemEnd(s, type, q) <= end
              BY <6>2, <6>3, ItemFacts
            <6>5. ItemEnd(s, type, q) = EndOfValue(s, v)
              BY <6>2 DEF ItemEnd
            <6>6. v + 2 <= Len(s) /\ p <= v /\ Len(s) <= v + n
                  /\ EndOfValue(s, v) <= hi /\ EndOfValue(s, v) <= Len(s)
                  /\ EndOfValue(s, v) \in Nat
              <7>1. PICK e : e = ItemEnd(s, type, q)
                OBVIOUS
              <7>2. /\ p \in Nat /\ lo = p + 3 /\ hi <= Len(s) /\ Len(s) <= p + (n + 1)
                    /\ hi \in Nat /\ Len(s) \in Nat
                BY <2>1, <3>1
              <7>3. /\ e \in Nat /\ e <= end /\ v + 2 <= e /\ lo <= q /\ end <= hi
                    /\ EndOfValue(s, v) = e /\ v \in Nat /\ q <= v /\ end \in Nat
                BY <5>4, <6>3, <6>4, <6>5, <7>1
              <7> HIDE DEF hi, lo
              <7> QED BY <7>2, <7>3
            <6>7. v \in ValueOffsets(s)
              BY <6>4, <6>6, ValueOffset
            <6>8. Agree(s, s2, v, EndOfValue(s, v))
              BY <2>1, <3>1, <6>4, <6>6, AgreeWithin
            <6>9. ValueAgrees(s, s2, v)
              BY <1>2, <6>6, <6>7
            <6> QED BY <6>1, <6>2, <6>6, <6>8, <6>9 DEF ValueAgrees
          <5>6. items = ItemsOf(s, type, lo, hi)
            BY <3>4 DEF items, type
          <5>7. ItemTrees(s2, type, Values(s2), items) = ItemTrees(s, type, Values(s), items)
            <6> HIDE DEF lo, hi
            <6>1. lo \in Nat /\ hi \in Nat
              BY <3>1, <5>1 DEF lo, hi
            <6> QED BY <4>1, <5>2, <5>5, <5>6, <6>1, ItemTreesAgree
          <5> QED BY <5>3, <5>7 DEF items, type
        <4>2. CASE ~(lo <= hi)
          <5>1. items = <<>> /\ ItemsAt(s2, p) = <<>>
            BY <3>4, <4>2 DEF ItemsOf
          <5> HIDE DEF items
          <5>2. DOMAIN items = {}
            BY <5>1
          <5>3. ItemTrees(s2, type, Values(s2), items) = ItemTrees(s, type, Values(s), items)
            BY <5>2 DEF ItemTrees
          <5> QED BY <5>1, <5>3 DEF items
        <4> QED BY <4>1, <4>2
      <3>6. Slice(s2, p + 2, Cell(s2, p + 1)) = Slice(s, p + 2, Cell(s, p + 1))
        <4>1. PICK n2 \in Nat : n2 = Cell(s, p + 1)
          BY <3>1
        <4>2. Agree(s, s2, p + 2, p + 2 + n2)
          <5>1. p + 2 \in Nat /\ p + 2 + n2 \in Nat /\ p <= p + 2 /\ p + 2 + n2 <= hi
            BY <3>1, <4>1
          <5> QED BY <2>1, <3>1, <5>1, AgreeWithin
        <4>3. p + 2 \in Nat
          BY <3>1
        <4> QED BY <3>2, <4>1, <4>2, <4>3, SliceAgree
      <3>7. /\ Values(s)[p] = ValueTree(s, Values(s), p, items)
            /\ Values(s2)[p] = ValueTree(s2, Values(s2), p, ItemsAt(s2, p))
        BY <3>3, ValuesStep
      <3>8. ValueTree(s2, Values(s2), p, ItemsAt(s2, p)) = ValueTree(s, Values(s), p, items)
        <4> HIDE DEF items
        <4>0. OBJECT # ARRAY
          BY DEF OBJECT, ARRAY
        <4>1. CASE type = ARRAY
          <5>1. /\ ItemsAt(s2, p) = items
                /\ ItemTrees(s2, ARRAY, Values(s2), items) =
                     ItemTrees(s, ARRAY, Values(s), items)
            BY <3>5, <4>1
          <5>2. /\ Cell(s, p) = ARRAY /\ Cell(s2, p) = ARRAY
                /\ Cell(s, p) # OBJECT /\ Cell(s2, p) # OBJECT
            BY <3>2, <4>0, <4>1
          <5> QED BY <5>1, <5>2, Zenon DEF ValueTree
        <4>3. CASE type = OBJECT
          <5>1. /\ ItemsAt(s2, p) = items
                /\ ItemTrees(s2, OBJECT, Values(s2), items) =
                     ItemTrees(s, OBJECT, Values(s), items)
            BY <3>5, <4>3
          <5> QED BY <3>2, <4>0, <4>3, <5>1, Zenon DEF ValueTree
        <4>2. CASE type \notin {OBJECT, ARRAY}
          BY <3>2, <3>6, <4>2, Zenon DEF ValueTree
        <4> QED BY <4>1, <4>2, <4>3
      <3> QED BY <3>3, <3>7, <3>8
    <2> QED BY <2>1 DEF ValueAgrees
  <1>3. Len(s) \in S
    <2> HIDE DEF S
    <2>1. Len(s) \in Nat
      OBVIOUS
    <2> QED BY <1>1, <1>2, <2>1, SetInduction
  <1> QED BY <1>0, <1>3

-----------------------------------------------------------------------------
(***************************************************************************)
(* The content of one container                                            *)
(***************************************************************************)

\* The cells from lo to hi are items, and in an object that takes a value next
\* a key behind them.  What write sends for the items has the size predicted,
\* if the items of an object have an order, for which hashes must be numbers.
Filled(s, type, lo, hi, next) ==
    LET end == EndOfItems(s, type, lo, ItemsOf(s, type, lo, hi))
    IN  /\ lo <= hi /\ hi <= Len(s)
        /\ IF type = OBJECT /\ next = "value" THEN end < hi /\ ValueOf(s, end) = hi
           ELSE end = hi
        /\ HashIsNumber => SizedItems(s, type, lo, hi)

\* The items of a container, their end and their trees depend on nothing else.
LEMMA ContentAgrees ==
    ASSUME NEW s \in Seq(Nat), NEW s2 \in Seq(Nat), NEW type,
           NEW lo \in Nat, NEW hi \in Nat, lo <= hi, Agree(s, s2, lo, hi),
           NEW items, items = ItemsOf(s, type, lo, hi)
    PROVE  /\ ItemsOf(s2, type, lo, hi) = items
           /\ EndOfItems(s2, type, lo, items) = EndOfItems(s, type, lo, items)
           /\ ItemTrees(s2, type, Values(s2), items) = ItemTrees(s, type, Values(s), items)
  <1> DEFINE end == EndOfItems(s, type, lo, items)
  <1>1. hi \in 0..Len(s) /\ hi \in 0..Len(s2) /\ lo \in 0..hi
    BY DEF Agree
  <1>2. /\ items \in Seq(Nat) /\ end \in Nat /\ lo <= end /\ end <= hi
        /\ \A i \in 1..Len(items) : lo <= items[i] /\ IsItem(s, type, items[i], end)
    BY <1>1, ItemsTile DEF Tiled
  <1> HIDE DEF end
  <1>3. ASSUME NEW i \in 1..Len(items)
        PROVE  /\ ItemEnd(s2, type, items[i]) = ItemEnd(s, type, items[i])
               /\ Values(s2)[ValueIn(s, type, items[i])] =
                    Values(s)[ValueIn(s, type, items[i])]
    <2>1. PICK q \in Nat : q = items[i]
      BY <1>2
    <2>2. PICK v : v = ValueIn(s, type, q)
      OBVIOUS
    <2>3. PICK e : e = ItemEnd(s, type, q)
      OBVIOUS
    <2>4. lo <= q /\ IsItem(s, type, q, end) /\ end \in 0..Len(s)
      BY <1>1, <1>2, <2>1
    <2>5. v \in Nat /\ q <= v /\ v + 2 <= e /\ e \in Nat /\ e <= end
      BY <2>2, <2>3, <2>4, ItemFacts
    <2>6. e = EndOfValue(s, v)
      BY <2>2, <2>3 DEF ItemEnd
    <2>7. v + 2 <= Len(s) /\ lo <= v /\ e <= Len(s) /\ e <= hi
      <3>1. Len(s) \in Nat /\ hi <= Len(s)
        BY <1>1
      <3> QED BY <1>2, <2>4, <2>5, <3>1
    <2>8. v \in ValueOffsets(s)
      BY <2>5, <2>7, ValueOffset
    <2>9. Agree(s, s2, v, e) /\ Agree(s, s2, q, e)
      BY <2>4, <2>5, <2>7, AgreeWithin
    <2>10. Values(s2)[v] = Values(s)[v]
      BY <2>6, <2>7, <2>8, <2>9, ValueAgree DEF ValueAgrees
    <2>11. ItemEnd(s2, type, q) = e
      BY <1>1, <2>3, <2>4, <2>7, <2>9, IsItemKept
    <2> QED BY <2>1, <2>2, <2>3, <2>10, <2>11
  <1>4. ItemsOf(s2, type, lo, hi) = items
    BY ItemsAgree
  <1>5. EndOfItems(s2, type, lo, items) = EndOfItems(s, type, lo, items)
    <2>1. CASE items = <<>>
      BY <2>1 DEF EndOfItems
    <2>2. CASE items # <<>>
      <3>1. Len(items) \in 1..Len(items) /\ Last(items) = items[Len(items)]
        BY <1>2, <2>2 DEF Last
      <3>2. ItemEnd(s2, type, Last(items)) = ItemEnd(s, type, Last(items))
        BY <1>3, <3>1
      <3> QED BY <2>2, <3>2 DEF EndOfItems
    <2> QED BY <2>1, <2>2
  <1>6. ItemTrees(s2, type, Values(s2), items) = ItemTrees(s, type, Values(s), items)
    BY <1>3, ItemTreesAgree
  <1> QED BY <1>4, <1>5, <1>6

LEMMA FilledFacts ==
    ASSUME NEW s \in Seq(Nat), NEW type, NEW lo \in Nat, NEW hi \in Nat, NEW next,
           Filled(s, type, lo, hi, next)
    PROVE  /\ hi \in 0..Len(s) /\ lo \in 0..hi
           /\ Tiled(s, type, lo, hi)
  <1>1. hi \in 0..Len(s) /\ lo \in 0..hi
    BY DEF Filled
  <1> QED BY <1>1, ItemsTile

LEMMA FrameAgrees ==
    ASSUME NEW s \in Seq(Nat), NEW s2 \in Seq(Nat), NEW type \in {OBJECT, ARRAY},
           NEW lo \in Nat, NEW hi \in Nat, NEW next,
           Filled(s, type, lo, hi, next), Agree(s, s2, lo, hi)
    PROVE  /\ Filled(s2, type, lo, hi, next)
           /\ FrameOf(s2, type, lo, hi) = FrameOf(s, type, lo, hi)
  <1> DEFINE items == ItemsOf(s, type, lo, hi)
             end   == EndOfItems(s, type, lo, items)
  <1>1. /\ lo <= hi /\ hi <= Len(s) /\ hi <= Len(s2)
        /\ end \in Nat /\ lo <= end /\ end <= hi
    <2>1. end \in Nat /\ lo <= end /\ end <= hi
      <3>1. Tiled(s, type, lo, hi)
        BY FilledFacts
      <3> QED BY <3>1 DEF Tiled
    <2> QED BY <2>1 DEF Agree, Filled
  <1>2. /\ ItemsOf(s2, type, lo, hi) = items
        /\ EndOfItems(s2, type, lo, items) = end
        /\ ItemTrees(s2, type, Values(s2), items) = ItemTrees(s, type, Values(s), items)
    BY <1>1, ContentAgrees
  <1>3. IF type = OBJECT /\ next = "value" THEN end < hi /\ ValueOf(s, end) = hi ELSE end = hi
    BY DEF Filled
  <1> HIDE DEF items, end
  <1>4. ASSUME end < hi PROVE ValueOf(s2, end) = ValueOf(s, end) /\ KeyOf(s2, end) = KeyOf(s, end)
    <2>1. Cell(s2, end) = Cell(s, end) /\ Cell(s, end) \in Nat
      <3>1. end < Len(s)
        <4>1. Len(s) \in Nat
          OBVIOUS
        <4> QED BY <1>1, <1>4, <4>1
      <3> QED BY <1>1, <1>4, <3>1, CellType DEF Agree
    <2>2. PICK n \in Nat : n = Cell(s, end)
      BY <2>1
    <2>3. ValueOf(s, end) = hi
      BY <1>1, <1>3, <1>4
    <2>4. end + 1 + n = hi /\ ValueOf(s2, end) = ValueOf(s, end)
      BY <1>1, <2>1, <2>2, <2>3 DEF ValueOf, KeySize, SizeOfSize
    <2>5. end + 1 \in Nat /\ lo <= end + 1 /\ end + 1 + n <= hi /\ end + 1 + n \in Nat
      BY <1>1, <2>4
    <2>6. Agree(s, s2, end + 1, end + 1 + n)
      BY <2>5, AgreeWithin
    <2>7. Slice(s2, end + 1, n) = Slice(s, end + 1, n)
      BY <2>5, <2>6, SliceAgree
    <2> QED BY <2>1, <2>2, <2>4, <2>7 DEF KeyOf, KeySize, SizeOfSize
  <1>5. Filled(s2, type, lo, hi, next)
    <2>1. ASSUME HashIsNumber PROVE SizedItems(s2, type, lo, hi)
      <3>1. SizedItems(s, type, lo, hi)
        BY <2>1, Zenon DEF Filled
      <3>2. ItemsOf(s2, type, lo, hi) = ItemsOf(s, type, lo, hi)
        BY <1>2 DEF items
      <3> QED BY <1>1, <3>1, <3>2, SizedKept
    <2> QED BY <1>1, <1>2, <1>3, <1>4, <2>1, Zenon DEF Filled
  <1>6. FrameOf(s2, type, lo, hi) = FrameOf(s, type, lo, hi)
    BY <1>2, <1>4, Zenon DEF FrameOf, items, end
  <1> QED BY <1>5, <1>6

LEMMA TreesAppend ==
    ASSUME NEW s, NEW type, NEW value, NEW items \in Seq(Nat), NEW o \in Nat
    PROVE  ItemTrees(s, type, value, items \o <<o>>) =
             Append(ItemTrees(s, type, value, items), ItemTree(s, type, value, o))
  <1> DEFINE T(p) == ItemTree(s, type, value, p)
             n == Len(items)
             more == items \o <<o>>
             trees == [i \in 1..n |-> T(items[i])]
             all == [i \in 1..(n + 1) |-> T(more[i])]
  <1>1. /\ more \in Seq(Nat) /\ Len(more) = n + 1 /\ n \in Nat
        /\ \A i \in 1..n : more[i] = items[i]
        /\ more[n + 1] = o
    BY AddedFacts
  <1>2. ItemTrees(s, type, value, more) = all
    <2>1. DOMAIN more = 1..(n + 1)
      BY <1>1
    <2> HIDE DEF more
    <2> QED BY <2>1 DEF ItemTrees
  <1>3. ItemTrees(s, type, value, items) = trees
    <2>1. DOMAIN items = 1..n
      OBVIOUS
    <2> QED BY <2>1 DEF ItemTrees
  <1> HIDE DEF more, T, n
  <1>4. \A i \in 1..n : all[i] = trees[i]
    BY <1>1
  <1>5. all[n + 1] = T(o)
    BY <1>1
  <1>6. PICK S : S = {T(items[i]) : i \in 1..n} \union {T(o)}
    OBVIOUS
  <1>7. all = Append(trees, T(o))
    <2>1. \A i \in 1..n : T(items[i]) \in S
      BY <1>6
    <2>2. trees \in [1..n -> S] /\ T(o) \in S
      BY <1>6, <2>1
    <2>3. \A i \in 1..(n + 1) : T(more[i]) \in S
      <3>1. TAKE i \in 1..(n + 1)
      <3>2. i = n + 1 \/ i \in 1..n
        BY <1>1
      <3> QED BY <1>1, <2>1, <2>2, <3>2
    <2>4. all \in [1..(n + 1) -> S]
      BY <2>3
    <2> HIDE DEF all, trees
    <2> QED BY <1>1, <1>4, <1>5, <2>2, <2>4, AppendIs
  <1> QED BY <1>2, <1>3, <1>7 DEF T, more

\* What a value behind the content of a container does to it.
LEMMA FramePlaced ==
    ASSUME NEW s \in Seq(Nat), NEW s2 \in Seq(Nat), NEW type \in {OBJECT, ARRAY},
           NEW lo \in Nat, NEW hi \in Nat,
           Filled(s, type, lo, hi, "value"), Agree(s, s2, lo, hi),
           hi + 2 <= Len(s2),
           NEW hi2 \in Nat, hi2 = EndOfValue(s2, hi), hi2 <= Len(s2),
           HashIsNumber => WellSized(s2, hi)
    PROVE  /\ \A w : ~(type = OBJECT /\ w = "value") => Filled(s2, type, lo, hi2, w)
           /\ FrameOf(s2, type, lo, hi2) =
                D!WithItem(FrameOf(s, type, lo, hi), Values(s2)[hi])
  <1> DEFINE items == ItemsOf(s, type, lo, hi)
             end   == EndOfItems(s, type, lo, items)
             more  == items \o <<end>>
  <1>1. /\ hi \in 0..Len(s) /\ lo \in 0..hi /\ lo <= hi
        /\ items \in Seq(Nat) /\ end \in Nat /\ lo <= end /\ end <= hi
    <2>1. Tiled(s, type, lo, hi) /\ hi \in 0..Len(s) /\ lo \in 0..hi
      BY FilledFacts
    <2> QED BY <2>1 DEF Tiled
  <1>2. hi + 2 <= hi2
    <2>1. hi \in ValueOffsets(s2)
      BY ValueOffset
    <2> QED BY <2>1, HeadFacts
  <1>3. IF type = OBJECT THEN end < hi /\ ValueOf(s, end) = hi ELSE end = hi
    BY DEF Filled
  <1>4. ItemTrees(s2, type, Values(s2), items) = ItemTrees(s, type, Values(s), items)
    BY <1>1, ContentAgrees
  <1>5. ItemsOf(s2, type, lo, hi2) = items \o ItemsOf(s2, type, end, hi2)
    <2>1. Agree(s, s2, lo, end) /\ hi2 \in 0..Len(s2) /\ end <= hi2
      <3> HIDE DEF end
      <3> QED BY <1>1, <1>2, AgreeWithin
    <2>2. ItemsExtend(s, s2, type, lo, hi, hi2)
      BY <1>1, <2>1, ItemsExtended
    <2> QED BY <2>1, <2>2 DEF ItemsExtend
  <1> HIDE DEF items, end
  <1>6. /\ ValueIn(s2, type, end) = hi
        /\ type = OBJECT => KeyOf(s2, end) = KeyOf(s, end) /\ ValueOf(s2, end) = hi
    <2>1. CASE type = OBJECT
      <3>1. Cell(s2, end) = Cell(s, end) /\ Cell(s, end) \in Nat
        <4>1. end < hi /\ end < Len(s)
          BY <1>1, <1>3, <2>1
        <4> QED BY <1>1, <4>1, CellType DEF Agree
      <3>2. PICK n \in Nat : n = Cell(s, end)
        BY <3>1
      <3>3. end + 1 + n = hi /\ ValueOf(s2, end) = hi
        BY <1>1, <1>3, <2>1, <3>1, <3>2 DEF ValueOf, KeySize, SizeOfSize
      <3>4. end + 1 \in Nat /\ lo <= end + 1 /\ end + 1 + n <= hi /\ end + 1 + n \in Nat
        BY <1>1, <3>3
      <3>5. Agree(s, s2, end + 1, end + 1 + n)
        BY <3>4, AgreeWithin
      <3>6. Slice(s2, end + 1, n) = Slice(s, end + 1, n)
        BY <3>4, <3>5, SliceAgree
      <3> QED BY <2>1, <3>1, <3>2, <3>3, <3>6 DEF ValueIn, KeyOf, KeySize, SizeOfSize
    <2>2. CASE type # OBJECT
      BY <1>3, <2>2 DEF ValueIn
    <2> QED BY <2>1, <2>2
  <1>7. ItemEnd(s2, type, end) = hi2
    BY <1>6 DEF ItemEnd
  <1>8. IsItem(s2, type, end, hi2)
    BY <1>1, <1>2, <1>6, <1>7 DEF IsItem, TypeByteSize, SizeOfSize
  <1>9. ItemsOf(s2, type, lo, hi2) = more
    <2>1. ~IsItem(s2, type, hi2, hi2)
      BY DEF IsItem
    <2>2. hi2 \in 0..Len(s2) /\ end \in 0..Len(s2)
      BY <1>1, <1>2
    <2>3. ItemsOf(s2, type, hi2, hi2) = <<>>
      BY <2>1, <2>2, ItemsStep
    <2>4. ItemsOf(s2, type, end, hi2) = <<end>> \o <<>>
      BY <1>7, <1>8, <2>2, <2>3, ItemsStep
    <2>5. <<end>> \o <<>> = <<end>>
      BY <1>1
    <2> QED BY <1>5, <2>4, <2>5
  <1>10. /\ more # <<>> /\ Last(more) = end
         /\ more \in Seq(Nat) /\ Len(more) = Len(items) + 1
         /\ \A i \in 1..Len(items) : more[i] = items[i]
         /\ more[Len(items) + 1] = end
    BY <1>1, AddedFacts
  <1>11. ItemTrees(s2, type, Values(s2), more) =
           Append(ItemTrees(s, type, Values(s), items), ItemTree(s2, type, Values(s2), end))
    BY SMTT(20), <1>1, <1>4, TreesAppend
  <1> HIDE DEF more
  <1>12. EndOfItems(s2, type, lo, more) = hi2
    BY <1>7, <1>10 DEF EndOfItems
  <1>13. ASSUME NEW w, ~(type = OBJECT /\ w = "value") PROVE Filled(s2, type, lo, hi2, w)
    <2>1. lo <= hi2 /\ hi2 <= Len(s2)
      BY <1>1, <1>2
    <2>2. ASSUME HashIsNumber PROVE SizedItems(s2, type, lo, hi2)
      <3>1. SizedItems(s, type, lo, hi)
        BY <2>2, Zenon DEF Filled
      <3>2. WellSized(s2, ValueIn(s2, type, end))
        BY <1>6, <2>2
      <3>3. \A i \in 1..Len(more) : i \in 1..Len(items) \/ i = Len(items) + 1
        BY <1>1, <1>10
      <3>4. items = ItemsOf(s, type, lo, hi) /\ more = ItemsOf(s2, type, lo, hi2)
        BY <1>9 DEF items
      <3>5. SameSizes(s, s2, type, items)
        BY <1>1, <3>1, <3>4, ItemsSized
      <3>6. ASSUME NEW i \in 1..Len(more)
            PROVE  WellSized(s2, ValueIn(s2, type, more[i]))
        BY <1>10, <3>2, <3>3, <3>5, Zenon DEF SameSizes
      <3> QED BY <3>4, <3>6, Zenon DEF SizedItems
    <2> QED BY <1>9, <1>12, <1>13, <2>1, <2>2 DEF Filled
  <1> DEFINE trees == ItemTrees(s, type, Values(s), items)
             tree  == ItemTree(s2, type, Values(s2), end)
  <1>14. FrameOf(s2, type, lo, hi2) =
           [kind  |-> IF type = ARRAY THEN "array" ELSE "object",
            items |-> Append(trees, tree), key |-> <<>>]
    <2>1. ~(hi2 < hi2)
      OBVIOUS
    <2> QED BY <1>9, <1>11, <1>12, <2>1, Zenon DEF FrameOf
  <1>15. FrameOf(s, type, lo, hi) =
           [kind  |-> IF type = ARRAY THEN "array" ELSE "object",
            items |-> trees, key |-> IF end < hi THEN <<KeyOf(s, end)>> ELSE <<>>]
    BY Zenon DEF FrameOf, items, end
  <1> HIDE DEF trees
  <1>16. ARRAY # OBJECT
    BY DEF OBJECT, ARRAY
  <1> DEFINE frame == FrameOf(s, type, lo, hi)
  <1>17. frame.items = trees /\ frame.kind = IF type = ARRAY THEN "array" ELSE "object"
    BY <1>15
  <1>18. tree = IF frame.kind = "array" THEN Values(s2)[hi]
                ELSE [key |-> frame.key[1], value |-> Values(s2)[hi]]
    <2>1. CASE type = ARRAY
      <3>1. tree = Values(s2)[hi] /\ frame.kind = "array"
        BY <1>3, <1>16, <1>17, <2>1 DEF ItemTree
      <3> QED BY <3>1
    <2>2. CASE type = OBJECT
      <3>1. tree = [key |-> KeyOf(s, end), value |-> Values(s2)[hi]]
        BY <1>6, <2>2 DEF ItemTree
      <3>2. frame.key[1] = KeyOf(s, end) /\ frame.kind # "array"
        BY <1>3, <1>15, <1>16, <1>17, <2>2
      <3> HIDE DEF tree, frame
      <3> QED BY <3>1, <3>2, Zenon
    <2> QED BY <2>1, <2>2
  <1> HIDE DEF frame, tree
  <1>19. FrameOf(s2, type, lo, hi2) = D!WithItem(frame, Values(s2)[hi])
    BY <1>14, <1>17, <1>18, Zenon DEF D!WithItem
  <1> QED BY <1>13, <1>19 DEF frame

\* A container that has just been begun.
LEMMA FrameEmpty ==
    ASSUME NEW s \in Seq(Nat), NEW type \in {OBJECT, ARRAY}, NEW lo \in 0..Len(s)
    PROVE  /\ \A w : ~(type = OBJECT /\ w = "value") => Filled(s, type, lo, lo, w)
           /\ FrameOf(s, type, lo, lo) =
                D!Frame(IF type = ARRAY THEN "array" ELSE "object")
  <1>1. ~IsItem(s, type, lo, lo)
    BY DEF IsItem
  <1>2. ItemsOf(s, type, lo, lo) = <<>>
    BY <1>1, ItemsStep
  <1>3. EndOfItems(s, type, lo, <<>>) = lo
    BY DEF EndOfItems
  <1>4. ItemTrees(s, type, Values(s), <<>>) = <<>>
    BY DEF ItemTrees
  <1>5. lo <= lo /\ lo <= Len(s) /\ ~(lo < lo)
    OBVIOUS
  <1>6. ASSUME NEW w, ~(type = OBJECT /\ w = "value") PROVE Filled(s, type, lo, lo, w)
    <2>1. SizedItems(s, type, lo, lo)
      BY <1>2 DEF SizedItems
    <2> QED BY <1>2, <1>3, <1>5, <1>6, <2>1, Zenon DEF Filled
  <1>7. FrameOf(s, type, lo, lo) =
          [kind |-> IF type = ARRAY THEN "array" ELSE "object", items |-> <<>>, key |-> <<>>]
    BY <1>2, <1>3, <1>4, <1>5, Zenon DEF FrameOf
  <1> QED BY <1>6, <1>7, Zenon DEF D!Frame

\* What a key behind the content of an object does to it.
LEMMA FrameKeyed ==
    ASSUME NEW s \in Seq(Nat), NEW s2 \in Seq(Nat), NEW lo \in Nat, NEW hi \in Nat,
           Filled(s, OBJECT, lo, hi, "key"), Agree(s, s2, lo, hi), hi < Len(s2),
           NEW n \in Nat, Cell(s2, hi) = n, hi + 1 + n <= Len(s2)
    PROVE  /\ Filled(s2, OBJECT, lo, hi + 1 + n, "value")
           /\ FrameOf(s2, OBJECT, lo, hi + 1 + n) =
                D!WithKey(FrameOf(s, OBJECT, lo, hi), Slice(s2, hi + 1, n))
  <1> DEFINE items == ItemsOf(s, OBJECT, lo, hi)
             end   == EndOfItems(s, OBJECT, lo, items)
             trees == ItemTrees(s, OBJECT, Values(s), items)
             hi2   == hi + 1 + n
  <1>1. hi \in 0..Len(s) /\ lo \in 0..hi /\ lo <= hi /\ items \in Seq(Nat)
    <2>1. Tiled(s, OBJECT, lo, hi) /\ hi \in 0..Len(s) /\ lo \in 0..hi
      BY FilledFacts
    <2> QED BY <2>1 DEF Tiled
  <1>2. end = hi
    BY DEF Filled
  <1>3. /\ EndOfItems(s2, OBJECT, lo, items) = hi
        /\ ItemTrees(s2, OBJECT, Values(s2), items) = trees
    BY <1>1, <1>2, ContentAgrees
  <1>4. hi2 \in 0..Len(s2) /\ hi < hi2 /\ lo <= hi2
    BY <1>1
  <1>5. ValueOf(s2, hi) = hi2
    BY <1>1 DEF ValueOf, KeySize, SizeOfSize
  <1> HIDE DEF hi2
  <1>6. ItemsOf(s2, OBJECT, lo, hi2) = items
    <2>1. ItemsOf(s2, OBJECT, lo, hi2) = items \o ItemsOf(s2, OBJECT, end, hi2)
      <3>1. ItemsExtend(s, s2, OBJECT, lo, hi, hi2)
        BY <1>1, <1>4, ItemsExtended
      <3>2. Agree(s, s2, lo, end) /\ end <= hi2
        BY <1>1, <1>2, <1>4
      <3> QED BY <3>1, <3>2, Zenon DEF ItemsExtend
    <2>2. ~IsItem(s2, OBJECT, hi, hi2)
      BY <1>4, <1>5 DEF IsItem, ValueIn, TypeByteSize, SizeOfSize
    <2>3. ItemsOf(s2, OBJECT, hi, hi2) = <<>>
      <3>1. hi \in 0..Len(s2)
        BY <1>4
      <3> QED BY <1>4, <2>2, <3>1, ItemsStep
    <2>4. items \o <<>> = items
      BY <1>1
    <2> QED BY <1>2, <2>1, <2>3, <2>4
  <1>7. KeyOf(s2, hi) = Slice(s2, hi + 1, n)
    BY DEF KeyOf, KeySize, SizeOfSize
  <1> HIDE DEF trees
  <1>8. FrameOf(s, OBJECT, lo, hi) =
          [kind |-> IF OBJECT = ARRAY THEN "array" ELSE "object", items |-> trees,
           key |-> <<>>]
    <2>1. ~(hi < hi)
      OBVIOUS
    <2> QED BY <1>2, <2>1, Zenon DEF FrameOf, trees, items, end
  <1> HIDE DEF items, end
  <1>9. FrameOf(s2, OBJECT, lo, hi2) =
          [kind |-> IF OBJECT = ARRAY THEN "array" ELSE "object", items |-> trees,
           key |-> <<Slice(s2, hi + 1, n)>>]
    BY <1>3, <1>4, <1>6, <1>7, Zenon DEF FrameOf
  <1>10. FrameOf(s2, OBJECT, lo, hi2) =
           D!WithKey(FrameOf(s, OBJECT, lo, hi), Slice(s2, hi + 1, n))
    <2> DEFINE frame == FrameOf(s, OBJECT, lo, hi)
    <2>1. /\ frame.items = trees
          /\ frame.kind = IF OBJECT = ARRAY THEN "array" ELSE "object"
      BY <1>8
    <2> HIDE DEF frame
    <2>2. FrameOf(s2, OBJECT, lo, hi2) = D!WithKey(frame, Slice(s2, hi + 1, n))
      BY <1>9, <2>1, Zenon DEF D!WithKey
    <2> QED BY <2>2 DEF frame
  <1>11. Filled(s2, OBJECT, lo, hi2, "value")
    <2>1. hi2 <= Len(s2)
      BY <1>4
    <2>2. ASSUME HashIsNumber PROVE SizedItems(s2, OBJECT, lo, hi2)
      <3>1. SizedItems(s, OBJECT, lo, hi)
        BY <2>2, Zenon DEF Filled
      <3>2. ItemsOf(s2, OBJECT, lo, hi2) = ItemsOf(s, OBJECT, lo, hi)
        BY <1>6 DEF items
      <3> QED BY <1>1, <3>1, <3>2, SizedKept
    <2> QED BY <1>3, <1>4, <1>5, <1>6, <2>1, <2>2, Zenon DEF Filled
  <1> QED BY <1>10, <1>11 DEF hi2

\* The values that containers and scalars are once all of them is there.
LEMMA ContainerValue ==
    ASSUME NEW s \in Seq(Nat), NEW s2 \in Seq(Nat), NEW type \in {OBJECT, ARRAY},
           NEW o \in Nat, NEW hi \in Nat,
           Filled(s, type, o + 3, hi, "key"), Agree(s, s2, o + 3, hi),
           Cell(s2, o) = type, Cell(s2, o + 1) = hi - o - 2
    PROVE  /\ EndOfValue(s2, o) = hi
           /\ Values(s2)[o] = IF type = ARRAY
                              THEN [array |-> FrameOf(s, type, o + 3, hi).items]
                              ELSE [object |-> FrameOf(s, type, o + 3, hi).items]
  <1> DEFINE lo == o + 3
             items == ItemsOf(s, type, lo, hi)
  <1>1. lo \in Nat /\ lo <= hi /\ hi <= Len(s2)
    BY DEF Filled, Agree
  <1>2. o \in ValueOffsets(s2)
    <2>1. o + 2 <= Len(s2)
      BY <1>1
    <2> QED BY <2>1, ValueOffset
  <1>3. EndOfValue(s2, o) = hi /\ FirstItem(o) = lo
    BY <1>2, HeadFacts
  <1> HIDE DEF lo
  <1>4. ItemsAt(s2, o) = ItemsOf(s2, type, lo, hi)
    BY <1>3 DEF ItemsAt
  <1>5. /\ ItemsAt(s2, o) = items
        /\ ItemTrees(s2, type, Values(s2), items) = ItemTrees(s, type, Values(s), items)
    <2>1. Agree(s, s2, lo, hi)
      BY DEF lo
    <2> QED BY <1>1, <1>4, <2>1, ContentAgrees
  <1>6. Values(s2)[o] = ValueTree(s2, Values(s2), o, items)
    BY <1>2, <1>5, ValuesStep
  <1> DEFINE frame == FrameOf(s, type, lo, hi)
  <1>7. frame.items = ItemTrees(s, type, Values(s), items)
    BY DEF FrameOf
  <1>8. OBJECT # ARRAY
    BY DEF OBJECT, ARRAY
  <1> HIDE DEF items, frame
  <1>9. CASE type = ARRAY
    <2>1. type # OBJECT
      BY <1>8, <1>9
    <2> QED BY <1>3, <1>5, <1>6, <1>7, <1>9, <2>1, Zenon DEF ValueTree, frame, lo
  <1>10. CASE type = OBJECT
    BY <1>3, <1>5, <1>6, <1>7, <1>8, <1>10, Zenon DEF ValueTree, frame, lo
  <1> QED BY <1>9, <1>10

LEMMA ScalarValue ==
    ASSUME NEW s \in Seq(Nat), NEW o \in Nat, o + 2 <= Len(s), Cell(s, o) = SCALAR
    PROVE  Values(s)[o] = [scalar |-> Slice(s, o + 2, Cell(s, o + 1))]
  <1>1. Values(s)[o] = ValueTree(s, Values(s), o, ItemsAt(s, o))
    BY ValueOffset, ValuesStep
  <1>2. SCALAR # ARRAY /\ SCALAR # OBJECT
    BY DEF SCALAR, OBJECT, ARRAY
  <1> QED BY <1>1, <1>2, Zenon DEF ValueTree

-----------------------------------------------------------------------------
(***************************************************************************)
(* The open containers, each inside the one before it                      *)
(***************************************************************************)

\* An open container: its header and its content.
ContainerAt(s, header, end, next) ==
    /\ header > 0 /\ header + 2 <= end
    /\ Cell(s, header - 1) \in {OBJECT, ARRAY}
    /\ Filled(s, Cell(s, header - 1), header + 2, end, next)

\* The content of the i-th ends where the next one starts.
EndAt(headers, end, i) == IF i = Len(headers) THEN end ELSE headers[i + 1] - 1

Frames(s, headers, end) ==
    [i \in 1..Len(headers) |-> ContentOf(s, headers[i], EndAt(headers, end, i))]

\* All but the innermost have taken a key for the container in them.
Holds(s, headers, end, next) ==
    /\ end \in 0..Len(s)
    /\ \A i, j \in 1..Len(headers) : i < j => headers[i] < headers[j]
    /\ \A i \in 1..Len(headers) :
         /\ i < Len(headers) => ContainerAt(s, headers[i], EndAt(headers, end, i), "value")
         /\ i = Len(headers) => ContainerAt(s, headers[i], EndAt(headers, end, i), next)

LEMMA ContentIs ==
    ASSUME NEW s \in Seq(Nat), NEW header \in Nat, NEW end \in Nat, NEW next,
           ContainerAt(s, header, end, next)
    PROVE  ContentOf(s, header, end) = FrameOf(s, Cell(s, header - 1), header + 2, end)
  <1>1. PICK type : type = Cell(s, header - 1)
    OBVIOUS
  <1>2. type \in {OBJECT, ARRAY} /\ OBJECT # ARRAY
    BY <1>1 DEF ContainerAt, OBJECT, ARRAY
  <1>3. TypeByteSize = 1 /\ HeaderSize = 2
    BY DEF TypeByteSize, HeaderSize, SizeOfSize
  <1> QED BY <1>1, <1>2, <1>3, Zenon DEF ContentOf

LEMMA ContainerKept ==
    ASSUME NEW s \in Seq(Nat), NEW s2 \in Seq(Nat),
           NEW header \in Nat, NEW end \in Nat, NEW next,
           ContainerAt(s, header, end, next), Agree(s, s2, 0, end)
    PROVE  /\ ContainerAt(s2, header, end, next)
           /\ ContentOf(s2, header, end) = ContentOf(s, header, end)
  <1>1. PICK type : type = Cell(s, header - 1)
    OBVIOUS
  <1>2. /\ header > 0 /\ header + 2 <= end /\ type \in {OBJECT, ARRAY}
        /\ Filled(s, type, header + 2, end, next)
    BY <1>1 DEF ContainerAt
  <1>3. Cell(s2, header - 1) = type
    <2>1. header - 1 \in Nat /\ 0 <= header - 1 /\ header - 1 < end
      BY <1>2
    <2> QED BY <1>1, <2>1 DEF Agree
  <1>4. header + 2 \in Nat /\ Agree(s, s2, header + 2, end)
    BY AgreeWithin
  <1>5. /\ Filled(s2, type, header + 2, end, next)
        /\ FrameOf(s2, type, header + 2, end) = FrameOf(s, type, header + 2, end)
    BY <1>2, <1>4, FrameAgrees
  <1>6. ContainerAt(s2, header, end, next)
    BY <1>2, <1>3, <1>5 DEF ContainerAt
  <1> QED BY <1>1, <1>3, <1>5, <1>6, ContentIs

LEMMA EndFacts ==
    ASSUME NEW s \in Seq(Nat), NEW headers \in Seq(Nat), NEW end, NEW next,
           Holds(s, headers, end, next),
           NEW i \in 1..Len(headers), NEW e, e = EndAt(headers, end, i)
    PROVE  /\ end \in Nat /\ end <= Len(s) /\ e \in Nat /\ e <= end
           /\ headers[i] \in Nat /\ headers[i] > 0 /\ headers[i] + 2 <= e
           /\ i < Len(headers) => e < headers[Len(headers)]
           /\ i < Len(headers) => ContainerAt(s, headers[i], e, "value")
           /\ i = Len(headers) => ContainerAt(s, headers[i], e, next)
  <1>1. PICK n \in Nat : n = Len(headers)
    OBVIOUS
  <1>2. /\ end \in Nat /\ end <= Len(s) /\ i \in 1..n /\ n \in 1..n
        /\ \A j \in 1..n : headers[j] \in Nat
        /\ \A j, k \in 1..n : j < k => headers[j] < headers[k]
    <2>1. end \in 0..Len(s) /\ \A j, k \in 1..n : j < k => headers[j] < headers[k]
      BY <1>1, Zenon DEF Holds
    <2>2. i \in 1..n /\ n \in 1..n /\ \A j \in 1..n : headers[j] \in Nat
      BY <1>1
    <2> QED BY <2>1, <2>2
  <1>3. \A j \in 1..n :
          /\ j < n => ContainerAt(s, headers[j], EndAt(headers, end, j), "value")
          /\ j = n => ContainerAt(s, headers[j], EndAt(headers, end, j), next)
    BY <1>1, Zenon DEF Holds
  <1>4. /\ i < n => ContainerAt(s, headers[i], e, "value")
        /\ i = n => ContainerAt(s, headers[i], e, next)
        /\ \A j \in 1..n : j < n \/ j = n
    <2>1. \A j \in 1..n : j < n \/ j = n
      OBVIOUS
    <2> QED BY <1>1, <1>2, <1>3, <2>1, Zenon
  <1>5. /\ \A j \in 1..n : headers[j] > 0
        /\ headers[i] + 2 <= e /\ headers[n] + 2 <= end
    <2>1. \A j \in 1..n : headers[j] > 0
      BY <1>3, <1>4, Zenon DEF ContainerAt
    <2>2. headers[i] + 2 <= e
      BY <1>2, <1>4, Zenon DEF ContainerAt
    <2>3. EndAt(headers, end, n) = end
      BY <1>1 DEF EndAt
    <2>4. headers[n] + 2 <= EndAt(headers, end, n)
      BY <1>2, <1>3, Zenon DEF ContainerAt
    <2> QED BY <2>1, <2>2, <2>3, <2>4
  <1>6. /\ e \in Nat /\ e <= end
        /\ i < n => e < headers[n]
    <2>1. CASE i = n
      <3>1. e = end
        BY <1>1, <2>1 DEF EndAt
      <3> QED BY <1>2, <2>1, <3>1
    <2>2. CASE i # n
      <3>1. PICK j \in 1..n : j = i + 1
        BY <1>2, <2>2
      <3>2. e = headers[j] - 1
        BY <1>1, <2>2, <3>1 DEF EndAt
      <3>3. headers[j] > 0 /\ headers[j] <= headers[n]
        <4>1. headers[j] > 0 /\ headers[j] \in Nat
          BY <1>2, <1>5
        <4>2. CASE j = n
          BY <4>1, <4>2
        <4>3. CASE j # n
          <5>1. j < n
            BY <1>2, <4>3
          <5>2. headers[j] < headers[n]
            BY <1>2, <5>1
          <5> QED BY <1>2, <4>1, <5>2
        <4> QED BY <4>2, <4>3
      <3>4. PICK a \in Nat : a = headers[j]
        BY <1>2
      <3>5. PICK b \in Nat : b = headers[n]
        BY <1>2
      <3>6. e = a - 1 /\ a > 0 /\ a <= b /\ b + 2 <= end
        BY <1>5, <3>2, <3>3, <3>4, <3>5
      <3>7. e \in Nat /\ e <= end /\ e < b
        BY <1>2, <3>6
      <3> QED BY <3>5, <3>7
    <2> QED BY <2>1, <2>2
  <1>7. headers[i] \in Nat /\ headers[i] > 0
    BY <1>2, <1>5
  <1> QED BY <1>1, <1>2, <1>4, <1>5, <1>6, <1>7, Zenon

\* A sequence of which only the last element is new, and one without it.
LEMMA LastReplaced ==
    ASSUME NEW S, NEW n \in Nat, NEW f \in [1..(n + 1) -> S], NEW g \in [1..(n + 1) -> S],
           \A i \in 1..n : g[i] = f[i]
    PROVE  /\ g = Append(Front(f), g[n + 1])
           /\ f # <<>> /\ Last(f) = f[n + 1] /\ Front(f) = [i \in 1..n |-> f[i]]
  <1> DEFINE h == [i \in 1..n |-> f[i]]
  <1>1. /\ f \in Seq(S) /\ Len(f) = n + 1
        /\ h \in [1..n -> S] /\ \A i \in 1..n : h[i] = f[i]
    <2>1. n + 1 \in Nat
      OBVIOUS
    <2> QED BY <2>1
  <1>2. Front(f) = h
    <2>1. Front(f) = SubSeq(f, 1, n)
      BY <1>1 DEF Front
    <2>2. SubSeq(f, 1, n) \in Seq(S) /\ Len(SubSeq(f, 1, n)) = n
          /\ \A i \in 1..n : SubSeq(f, 1, n)[i] = f[i]
      BY <1>1
    <2>3. h \in Seq(S) /\ Len(h) = n
      BY <1>1
    <2> HIDE DEF h
    <2> QED BY <1>1, <2>1, <2>2, <2>3, SeqEqual
  <1>3. g[n + 1] \in S /\ n + 1 \in 1..(n + 1)
    OBVIOUS
  <1> HIDE DEF h
  <1>4. g = Append(h, g[n + 1])
    BY <1>1, <1>3, AppendIs
  <1>5. f # <<>> /\ Last(f) = f[n + 1]
    BY <1>1 DEF Last
  <1> QED BY <1>2, <1>4, <1>5 DEF h

\* The containers on a spool that agrees so far ...
LEMMA HoldsKept ==
    ASSUME NEW s \in Seq(Nat), NEW s2 \in Seq(Nat), NEW headers \in Seq(Nat),
           NEW end, NEW next,
           Holds(s, headers, end, next), Agree(s, s2, 0, end)
    PROVE  /\ Holds(s2, headers, end, next)
           /\ Frames(s2, headers, end) = Frames(s, headers, end)
  <1>1. end \in Nat /\ end <= Len(s2) /\ end \in 0..Len(s2)
    BY DEF Holds, Agree
  <1>2. ASSUME NEW i \in 1..Len(headers), NEW w,
               ContainerAt(s, headers[i], EndAt(headers, end, i), w)
        PROVE  /\ ContainerAt(s2, headers[i], EndAt(headers, end, i), w)
               /\ ContentOf(s2, headers[i], EndAt(headers, end, i)) =
                    ContentOf(s, headers[i], EndAt(headers, end, i))
    <2>1. PICK e : e = EndAt(headers, end, i)
      OBVIOUS
    <2>2. e \in Nat /\ e <= end /\ headers[i] \in Nat
      BY <2>1, EndFacts
    <2>3. Agree(s, s2, 0, e)
      BY <1>1, <2>2, AgreeWithin
    <2>4. ContainerAt(s, headers[i], e, w)
      BY <1>2, <2>1
    <2>5. /\ ContainerAt(s2, headers[i], e, w)
          /\ ContentOf(s2, headers[i], e) = ContentOf(s, headers[i], e)
      BY <2>2, <2>3, <2>4, ContainerKept
    <2> QED BY <2>1, <2>5
  <1>3. ASSUME NEW i \in 1..Len(headers)
        PROVE  ContentOf(s2, headers[i], EndAt(headers, end, i)) =
                 ContentOf(s, headers[i], EndAt(headers, end, i))
    <2>1. i < Len(headers) \/ i = Len(headers)
      OBVIOUS
    <2> QED BY <1>2, <2>1, Zenon DEF Holds
  <1>4. Holds(s2, headers, end, next)
    BY <1>1, <1>2, Zenon DEF Holds
  <1>5. Frames(s2, headers, end) = Frames(s, headers, end)
    BY <1>3, Zenon DEF Frames
  <1> QED BY <1>4, <1>5

\* ... with the innermost of them changed ...
LEMMA InnermostReplaced ==
    ASSUME NEW s \in Seq(Nat), NEW s2 \in Seq(Nat), NEW headers \in Seq(Nat),
           NEW end \in Nat, NEW next, NEW end2 \in 0..Len(s2), NEW next2,
           headers # <<>>,
           Holds(s, headers, end, next), Agree(s, s2, 0, end),
           ContainerAt(s2, Last(headers), end2, next2)
    PROVE  /\ Holds(s2, headers, end2, next2)
           /\ Frames(s2, headers, end2) =
                Append(Front(Frames(s, headers, end)), ContentOf(s2, Last(headers), end2))
  <1> DEFINE f == Frames(s, headers, end)
             g == Frames(s2, headers, end2)
  <1>1. PICK n \in Nat : Len(headers) = n + 1
    <2>1. Len(headers) \in Nat /\ Len(headers) # 0
      OBVIOUS
    <2>2. Len(headers) - 1 \in Nat /\ Len(headers) = (Len(headers) - 1) + 1
      BY <2>1
    <2> QED BY <2>2
  <1>2. Last(headers) = headers[n + 1] /\ n + 1 \in 1..(n + 1)
    BY <1>1 DEF Last
  <1>3. ASSUME NEW i \in 1..n
        PROVE  /\ i \in 1..(n + 1) /\ i < n + 1
               /\ EndAt(headers, end2, i) = EndAt(headers, end, i)
               /\ ContainerAt(s2, headers[i], EndAt(headers, end, i), "value")
               /\ ContentOf(s2, headers[i], EndAt(headers, end, i)) =
                    ContentOf(s, headers[i], EndAt(headers, end, i))
    <2>1. i \in 1..(n + 1) /\ i < n + 1 /\ i # n + 1
      OBVIOUS
    <2>2. PICK e : e = EndAt(headers, end, i)
      OBVIOUS
    <2>3. EndAt(headers, end2, i) = e
      BY <1>1, <2>1, <2>2, Zenon DEF EndAt
    <2>4. /\ e \in Nat /\ e <= end /\ headers[i] \in Nat
          /\ ContainerAt(s, headers[i], e, "value")
      BY <1>1, <2>1, <2>2, EndFacts
    <2>5. Agree(s, s2, 0, e)
      BY <2>4, AgreeWithin
    <2>6. /\ ContainerAt(s2, headers[i], e, "value")
          /\ ContentOf(s2, headers[i], e) = ContentOf(s, headers[i], e)
      BY <2>4, <2>5, ContainerKept
    <2> QED BY <2>1, <2>2, <2>3, <2>6, Zenon
  <1>4. EndAt(headers, end2, n + 1) = end2
    BY <1>1, Zenon DEF EndAt
  <1>5. Holds(s2, headers, end2, next2)
    <2>1. \A i, j \in 1..(n + 1) : i < j => headers[i] < headers[j]
      BY <1>1, Zenon DEF Holds
    <2>2. ASSUME NEW i \in 1..(n + 1)
          PROVE  /\ i < n + 1 => ContainerAt(s2, headers[i], EndAt(headers, end2, i), "value")
                 /\ i = n + 1 => ContainerAt(s2, headers[i], EndAt(headers, end2, i), next2)
      <3>1. i < n + 1 => i \in 1..n
        OBVIOUS
      <3> QED BY <1>2, <1>3, <1>4, <3>1, Zenon
    <2> QED BY <1>1, <2>1, <2>2, Zenon DEF Holds
  <1>6. PICK S : f \in [1..(n + 1) -> S] /\ g \in [1..(n + 1) -> S]
    <2> DEFINE S == {f[i] : i \in 1..(n + 1)} \union {g[i] : i \in 1..(n + 1)}
    <2>1. f \in [1..(n + 1) -> S] /\ g \in [1..(n + 1) -> S]
      BY <1>1, Zenon DEF Frames
    <2> QED BY <2>1
  <1>7. /\ \A i \in 1..n : g[i] = f[i]
        /\ g[n + 1] = ContentOf(s2, Last(headers), end2)
    <2>1. \A i \in 1..(n + 1) : /\ f[i] = ContentOf(s, headers[i], EndAt(headers, end, i))
                                /\ g[i] = ContentOf(s2, headers[i], EndAt(headers, end2, i))
      BY <1>1, Zenon DEF Frames
    <2> QED BY <1>2, <1>3, <1>4, <2>1, Zenon
  <1> HIDE DEF f, g
  <1>8. g = Append(Front(f), g[n + 1])
    BY <1>6, <1>7, LastReplaced, ZenonT(40)
  <1>9. g = Append(Front(f), ContentOf(s2, Last(headers), end2))
    BY <1>7, <1>8, Zenon
  <1> QED BY <1>5, <1>9, ZenonT(40) DEF f, g

\* ... with another container begun in it: its type byte comes first ...
Behind(end, header) == header = end + 1

LEMMA InnermostPushed ==
    ASSUME NEW s \in Seq(Nat), NEW s2 \in Seq(Nat), NEW headers \in Seq(Nat),
           NEW end \in Nat, NEW c \in Nat, Behind(end, c), NEW end2 \in Nat, NEW next,
           Holds(s, headers, end, "value"), Agree(s, s2, 0, end),
           ContainerAt(s2, c, end2, next)
    PROVE  /\ Holds(s2, Append(headers, c), end2, next)
           /\ Frames(s2, Append(headers, c), end2) =
                Append(Frames(s, headers, end), ContentOf(s2, c, end2))
  <1> DEFINE more == Append(headers, c)
             f == Frames(s, headers, end)
             g == Frames(s2, more, end2)
  <1>1. PICK n \in Nat : Len(headers) = n
    OBVIOUS
  <1>2. /\ more \in Seq(Nat) /\ Len(more) = n + 1 /\ more[n + 1] = c
        /\ \A i \in 1..n : more[i] = headers[i]
        /\ n + 1 \in Nat /\ n + 1 \in 1..(n + 1)
    <2>1. n + 1 \in Nat /\ n + 1 \in 1..(n + 1)
      OBVIOUS
    <2> QED BY <1>1, <2>1, AppendProperties
  <1> HIDE DEF more
  <1>3. Frames(s2, headers, end) = f /\ Holds(s2, headers, end, "value")
    BY HoldsKept
  <1>4. ASSUME NEW i \in 1..n
        PROVE  /\ i \in 1..(n + 1) /\ i < n + 1
               /\ EndAt(more, end2, i) = EndAt(headers, end, i)
               /\ headers[i] < c
               /\ ContainerAt(s2, headers[i], EndAt(headers, end, i), "value")
    <2>1. i \in 1..(n + 1) /\ i < n + 1 /\ i # n + 1 /\ (i = n \/ i + 1 \in 1..n)
      BY <1>1
    <2>2. PICK e : e = EndAt(headers, end, i)
      OBVIOUS
    <2>3. EndAt(more, end2, i) = more[i + 1] - 1
      BY <1>2, <2>1, Zenon DEF EndAt
    <2>4. more[i + 1] - 1 = e
      <3>1. CASE i = n
        <4>1. e = end /\ more[i + 1] = c
          BY <1>1, <1>2, <2>2, <3>1, Zenon DEF EndAt
        <4> QED BY <4>1 DEF Behind
      <3>2. CASE i # n
        <4>1. e = headers[i + 1] - 1 /\ more[i + 1] = headers[i + 1]
          BY <1>1, <1>2, <2>1, <2>2, <3>2, Zenon DEF EndAt
        <4> QED BY <4>1
      <3> QED BY <3>1, <3>2
    <2>5. /\ headers[i] \in Nat /\ headers[i] + 2 <= e /\ e \in Nat /\ e <= end
          /\ ContainerAt(s2, headers[i], e, "value")
      <3>1. i < n \/ i = n
        BY <2>1
      <3> QED BY <1>1, <1>3, <2>2, <3>1, EndFacts
    <2>6. headers[i] < c
      BY <2>5 DEF Behind
    <2> QED BY <2>1, <2>2, <2>3, <2>4, <2>5, <2>6, Zenon
  <1>5. EndAt(more, end2, n + 1) = end2
    BY <1>2, Zenon DEF EndAt
  <1>6. Holds(s2, more, end2, next)
    <2>1. ASSUME NEW i \in 1..(n + 1), NEW j \in 1..(n + 1), i < j
          PROVE  more[i] < more[j]
      <3>1. i \in 1..n /\ (j \in 1..n \/ j = n + 1)
        BY <2>1
      <3>2. CASE j = n + 1
        BY <1>2, <1>4, <3>1, <3>2, Zenon
      <3>3. CASE j \in 1..n
        <4>1. headers[i] < headers[j]
          BY <1>1, <2>1, <3>1, <3>3, Zenon DEF Holds
        <4> QED BY <1>2, <3>1, <3>3, <4>1, Zenon
      <3> QED BY <3>1, <3>2, <3>3
    <2>2. ASSUME NEW i \in 1..(n + 1)
          PROVE  /\ i < n + 1 => ContainerAt(s2, more[i], EndAt(more, end2, i), "value")
                 /\ i = n + 1 => ContainerAt(s2, more[i], EndAt(more, end2, i), next)
      <3>1. i < n + 1 => i \in 1..n
        OBVIOUS
      <3> QED BY <1>2, <1>4, <1>5, <3>1, Zenon
    <2>3. end2 \in 0..Len(s2)
      <3>1. end2 <= Len(s2)
        BY Zenon DEF ContainerAt, Filled
      <3> QED BY <3>1
    <2> QED BY <1>2, <2>1, <2>2, <2>3, Zenon DEF Holds
  <1>7. PICK S : f \in [1..n -> S] /\ g \in [1..(n + 1) -> S] /\ g[n + 1] \in S
    <2> DEFINE S == {f[i] : i \in 1..n} \union {g[i] : i \in 1..(n + 1)}
    <2>1. f \in [1..n -> S]
      BY <1>1, Zenon DEF Frames
    <2>2. g \in [1..(n + 1) -> S]
      BY <1>2, Zenon DEF Frames
    <2>3. g[n + 1] \in S
      BY <1>2
    <2> QED BY <2>1, <2>2, <2>3
  <1>8. /\ \A i \in 1..n : g[i] = f[i]
        /\ g[n + 1] = ContentOf(s2, c, end2)
    <2>1. \A i \in 1..n : f[i] = ContentOf(s2, headers[i], EndAt(headers, end, i))
      BY <1>1, <1>3, Zenon DEF Frames
    <2>2. \A i \in 1..(n + 1) : g[i] = ContentOf(s2, more[i], EndAt(more, end2, i))
      BY <1>2, Zenon DEF Frames
    <2> HIDE DEF f, g, more
    <2> QED BY <1>2, <1>4, <1>5, <2>1, <2>2, Zenon
  <1> HIDE DEF f, g, more
  <1>9. g = Append(f, g[n + 1])
    BY <1>7, <1>8, AppendIs, ZenonT(40)
  <1>10. g = Append(f, ContentOf(s2, c, end2))
    BY <1>8, <1>9, Zenon
  <1> QED BY <1>6, <1>10, Zenon DEF f, g, more

\* ... and without the innermost: what was behind its type byte is then the
\* next thing in the container around it.
LEMMA InnermostPopped ==
    ASSUME NEW s \in Seq(Nat), NEW headers \in Seq(Nat), NEW end, NEW next,
           headers # <<>>, Holds(s, headers, end, next), NEW c, c = Last(headers)
    PROVE  /\ c \in Nat /\ c > 0 /\ c + 2 <= end /\ ContainerAt(s, c, end, next)
           /\ Front(headers) \in Seq(Nat) /\ Len(Front(headers)) = Len(headers) - 1
           /\ Holds(s, Front(headers), c - 1, "value")
           /\ Frames(s, Front(headers), c - 1) = Front(Frames(s, headers, end))
           /\ Frames(s, headers, end) # <<>>
           /\ Last(Frames(s, headers, end)) = ContentOf(s, c, end)
  <1> DEFINE less == Front(headers)
             f == Frames(s, headers, end)
             g == Frames(s, less, c - 1)
  <1>1. PICK m \in Nat : m = Len(headers)
    OBVIOUS
  <1>2. PICK n \in Nat : m = n + 1 /\ m - 1 = n /\ n + 1 \in 1..(n + 1) /\ n + 1 \in Nat
    <2>1. m # 0
      BY <1>1
    <2>2. m - 1 \in Nat /\ m = (m - 1) + 1
      BY <2>1
    <2> QED BY <2>2
  <1>3. /\ Len(headers) = n + 1 /\ less \in Seq(Nat) /\ Len(less) = n
         /\ c = headers[n + 1] /\ \A i \in 1..n : less[i] = headers[i]
    <2> HIDE DEF less
    <2>1. /\ less \in Seq(Nat) /\ Len(less) = m - 1 /\ c = headers[m]
          /\ \A i \in 1..(m - 1) : less[i] = headers[i]
      BY <1>1, FrontFacts, Zenon DEF less
    <2> QED BY <1>1, <1>2, <2>1
  <1>4. EndAt(headers, end, n + 1) = end
    BY <1>2, <1>3, Zenon DEF EndAt
  <1>5. /\ c \in Nat /\ c > 0 /\ c + 2 <= end /\ end \in Nat /\ end <= Len(s)
        /\ ContainerAt(s, c, end, next)
    <2>1. PICK k \in 1..Len(headers) : k = n + 1
      BY <1>2, <1>3
    <2>2. headers[k] = c /\ EndAt(headers, end, k) = end /\ k = Len(headers)
      BY <1>3, <1>4, <2>1, Zenon
    <2> QED BY <2>2, EndFacts, Zenon
  <1> HIDE DEF less
  <1>6. ASSUME NEW i \in 1..n
        PROVE  /\ i \in 1..(n + 1) /\ i < n + 1
               /\ EndAt(less, c - 1, i) = EndAt(headers, end, i)
               /\ ContainerAt(s, headers[i], EndAt(headers, end, i), "value")
    <2>1. i \in 1..(n + 1) /\ i < n + 1 /\ i # n + 1 /\ (i = n \/ i + 1 \in 1..n)
      OBVIOUS
    <2>2. ContainerAt(s, headers[i], EndAt(headers, end, i), "value")
      BY <1>2, <1>3, <2>1, Zenon DEF Holds
    <2>3. EndAt(less, c - 1, i) = EndAt(headers, end, i)
      BY <1>2, <1>3, <2>1, Zenon DEF EndAt
    <2> QED BY <2>1, <2>2, <2>3
  <1>7. Holds(s, less, c - 1, "value")
    <2>1. c - 1 \in 0..Len(s)
      <3>1. Len(s) \in Nat
        OBVIOUS
      <3> QED BY <1>5, <3>1
    <2>2. \A i, j \in 1..n : i < j => less[i] < less[j]
      <3>1. \A i, j \in 1..(n + 1) : i < j => headers[i] < headers[j]
        BY <1>2, <1>3, Zenon DEF Holds
      <3> QED BY <1>2, <1>3, <1>6, <3>1, Zenon
    <2> QED BY <1>2, <1>3, <1>6, <2>1, <2>2, Zenon DEF Holds
  <1>8. PICK S : f \in [1..(n + 1) -> S]
    <2> DEFINE S == {f[i] : i \in 1..(n + 1)}
    <2>1. f \in [1..(n + 1) -> S]
      BY <1>2, <1>3, Zenon DEF Frames
    <2> QED BY <2>1
  <1>9. /\ g = [i \in 1..n |-> f[i]]
        /\ f[n + 1] = ContentOf(s, c, end)
    <2>1. \A i \in 1..(n + 1) : f[i] = ContentOf(s, headers[i], EndAt(headers, end, i))
      BY <1>2, <1>3, Zenon DEF Frames
    <2>2. g = [i \in 1..n |-> ContentOf(s, less[i], EndAt(less, c - 1, i))]
      BY <1>2, <1>3, Zenon DEF Frames
    <2> HIDE DEF f, g
    <2> QED BY <1>2, <1>3, <1>4, <1>6, <2>1, <2>2, Zenon
  <1> HIDE DEF f, g
  <1>10. f # <<>> /\ Last(f) = f[n + 1] /\ Front(f) = [i \in 1..n |-> f[i]]
    BY <1>8, LastReplaced, ZenonT(40)
  <1>11. g = Front(f) /\ f # <<>> /\ Last(f) = ContentOf(s, c, end)
    BY <1>9, <1>10, Zenon
  <1>12. less \in Seq(Nat) /\ Len(less) = Len(headers) - 1
    BY <1>2, <1>3 DEF less
  <1> QED BY <1>5, <1>7, <1>11, <1>12, Zenon DEF f, g, less

\* What the innermost container says that the document can take.
LEMMA InnermostTakes ==
    ASSUME NEW s \in Seq(Nat), NEW c \in Nat, NEW end \in Nat, NEW next,
           ContainerAt(s, c, end, next), NEW frame, frame = ContentOf(s, c, end)
    PROVE  /\ frame.kind = "array" <=> Cell(s, c - 1) = ARRAY
           /\ frame.kind = "object" <=> Cell(s, c - 1) = OBJECT
           /\ frame.key # <<>> <=> Cell(s, c - 1) = OBJECT /\ next = "value"
  <1> DEFINE lo == c + 2
  <1>1. PICK type : type = Cell(s, c - 1)
    OBVIOUS
  <1>2. type \in {OBJECT, ARRAY} /\ OBJECT # ARRAY
    BY <1>1 DEF ContainerAt, OBJECT, ARRAY
  <1>3. Filled(s, type, lo, end, next)
    BY <1>1 DEF ContainerAt
  <1>4. frame = FrameOf(s, type, lo, end)
    BY <1>1, ContentIs
  <1>5. ~(end < end)
    OBVIOUS
  <1> HIDE DEF lo
  <1>6. frame.kind = IF type = ARRAY THEN "array" ELSE "object"
    BY <1>4 DEF FrameOf
  <1>7. frame.key # <<>> <=> EndOfItems(s, type, lo, ItemsOf(s, type, lo, end)) < end
    BY <1>4 DEF FrameOf
  <1>8. EndOfItems(s, type, lo, ItemsOf(s, type, lo, end)) < end <=> type = OBJECT /\ next = "value"
    BY <1>3, <1>5, Zenon DEF Filled
  <1> QED BY <1>1, <1>2, <1>6, <1>7, <1>8

\* What a value, a key and the begin of a container behind the content of the
\* innermost container do to all of them.
ValueBehind(s, s2, end, end2) ==
    /\ Agree(s, s2, 0, end)
    /\ end + 2 <= Len(s2)
    /\ end2 = EndOfValue(s2, end) /\ end2 <= Len(s2)
    /\ HashIsNumber => WellSized(s2, end)

LEMMA ValuePlaced ==
    ASSUME NEW s \in Seq(Nat), NEW s2 \in Seq(Nat), NEW headers \in Seq(Nat),
           NEW end \in Nat, headers # <<>>, Holds(s, headers, end, "value"),
           NEW end2 \in Nat, ValueBehind(s, s2, end, end2)
    PROVE  /\ \A next : ~(Cell(s, Last(headers) - 1) = OBJECT /\ next = "value") =>
                          Holds(s2, headers, end2, next)
           /\ Frames(s, headers, end) # <<>>
           /\ Frames(s2, headers, end2) =
                Append(Front(Frames(s, headers, end)),
                       D!WithItem(Last(Frames(s, headers, end)), Values(s2)[end]))
  <1>0. /\ Agree(s, s2, 0, end) /\ end + 2 <= Len(s2)
        /\ end2 = EndOfValue(s2, end) /\ end2 <= Len(s2)
        /\ HashIsNumber => WellSized(s2, end)
    BY Zenon DEF ValueBehind
  <1>1. PICK c : c = Last(headers)
    OBVIOUS
  <1>2. PICK type : type = Cell(s, c - 1)
    OBVIOUS
  <1>3. /\ c \in Nat /\ c > 0 /\ c + 2 <= end /\ ContainerAt(s, c, end, "value")
        /\ Frames(s, headers, end) # <<>> /\ Last(Frames(s, headers, end)) = ContentOf(s, c, end)
    BY <1>1, InnermostPopped
  <1>4. type \in {OBJECT, ARRAY} /\ Filled(s, type, c + 2, end, "value")
    BY <1>2, <1>3 DEF ContainerAt
  <1>5. c + 2 \in Nat /\ Agree(s, s2, c + 2, end)
    BY <1>0, <1>3 DEF Agree
  <1>6. /\ \A w : ~(type = OBJECT /\ w = "value") => Filled(s2, type, c + 2, end2, w)
        /\ FrameOf(s2, type, c + 2, end2) =
             D!WithItem(FrameOf(s, type, c + 2, end), Values(s2)[end])
    BY <1>0, <1>4, <1>5, FramePlaced
  <1>7. Cell(s2, c - 1) = type
    <2>1. c - 1 \in Nat /\ 0 <= c - 1 /\ c - 1 < end
      BY <1>3
    <2> QED BY <1>0, <1>2, <2>1 DEF Agree
  <1>8. c + 2 <= end2 /\ end2 \in 0..Len(s2)
    <2>1. end + 2 <= end2
      <3>1. end \in ValueOffsets(s2)
        BY <1>0, ValueOffset
      <3> QED BY <1>0, <3>1, HeadFacts
    <2> QED BY <1>0, <1>3, <2>1
  <1>9. ASSUME NEW next, ~(type = OBJECT /\ next = "value")
        PROVE  ContainerAt(s2, c, end2, next)
    BY <1>3, <1>4, <1>6, <1>7, <1>8, <1>9, Zenon DEF ContainerAt
  <1>10. ContainerAt(s2, c, end2, "key")
    BY <1>9
  <1>11. ContentOf(s2, c, end2) = D!WithItem(Last(Frames(s, headers, end)), Values(s2)[end])
    <2>1. ContentOf(s2, c, end2) = FrameOf(s2, type, c + 2, end2)
      BY <1>3, <1>7, <1>10, ContentIs
    <2>2. ContentOf(s, c, end) = FrameOf(s, type, c + 2, end)
      BY <1>2, <1>3, ContentIs
    <2> QED BY <1>3, <1>6, <2>1, <2>2, Zenon
  <1>12. /\ Holds(s2, headers, end2, "key")
         /\ Frames(s2, headers, end2) =
              Append(Front(Frames(s, headers, end)), ContentOf(s2, c, end2))
    BY <1>0, <1>1, <1>8, <1>10, InnermostReplaced
  <1>13. ASSUME NEW next, ~(type = OBJECT /\ next = "value")
         PROVE  Holds(s2, headers, end2, next)
    BY <1>0, <1>1, <1>8, <1>9, <1>13, InnermostReplaced
  <1> QED BY <1>1, <1>2, <1>3, <1>11, <1>12, <1>13, Zenon

KeyBehind(s, s2, end, end2) ==
    /\ Agree(s, s2, 0, end)
    /\ end < Len(s2)
    /\ end2 = ValueOf(s2, end) /\ end2 <= Len(s2)

LEMMA KeyPlaced ==
    ASSUME NEW s \in Seq(Nat), NEW s2 \in Seq(Nat), NEW headers \in Seq(Nat),
           NEW end \in Nat, headers # <<>>, Holds(s, headers, end, "key"),
           Cell(s, Last(headers) - 1) = OBJECT,
           NEW end2 \in Nat, KeyBehind(s, s2, end, end2)
    PROVE  /\ Holds(s2, headers, end2, "value")
           /\ Frames(s, headers, end) # <<>>
           /\ Frames(s2, headers, end2) =
                Append(Front(Frames(s, headers, end)),
                       D!WithKey(Last(Frames(s, headers, end)), KeyOf(s2, end)))
  <1>0. PICK n \in Nat : /\ n = Cell(s2, end) /\ end2 = end + 1 + n
                         /\ Agree(s, s2, 0, end) /\ end2 <= Len(s2) /\ end < Len(s2)
    <2>1. /\ end < Len(s2) /\ end2 = end + 1 + Cell(s2, end)
          /\ Agree(s, s2, 0, end) /\ end2 <= Len(s2)
      BY Layout DEF KeyBehind, ValueOf, KeySize
    <2>2. Cell(s2, end) \in Nat
      BY <2>1, CellType
    <2> QED BY <2>1, <2>2
  <1>11. KeyOf(s2, end) = Slice(s2, end + 1, n)
    BY <1>0, Layout DEF KeyOf, KeySize
  <1>1. PICK c : c = Last(headers)
    OBVIOUS
  <1>2. /\ c \in Nat /\ c > 0 /\ c + 2 <= end /\ ContainerAt(s, c, end, "key")
        /\ Frames(s, headers, end) # <<>> /\ Last(Frames(s, headers, end)) = ContentOf(s, c, end)
    BY <1>1, InnermostPopped
  <1>3. Filled(s, OBJECT, c + 2, end, "key")
    BY <1>1, <1>2 DEF ContainerAt
  <1>4. c + 2 \in Nat /\ Agree(s, s2, c + 2, end)
    BY <1>0, <1>2 DEF Agree
  <1>5. /\ Filled(s2, OBJECT, c + 2, end2, "value")
        /\ FrameOf(s2, OBJECT, c + 2, end2) =
             D!WithKey(FrameOf(s, OBJECT, c + 2, end), Slice(s2, end + 1, n))
    BY SMTT(20), <1>0, <1>3, <1>4, FrameKeyed
  <1>6. Cell(s2, c - 1) = OBJECT
    <2>1. c - 1 \in Nat /\ 0 <= c - 1 /\ c - 1 < end
      BY <1>2
    <2> QED BY <1>0, <1>1, <2>1 DEF Agree
  <1>7. c + 2 <= end2 /\ end2 \in 0..Len(s2)
    BY <1>0, <1>2
  <1>8. ContainerAt(s2, c, end2, "value")
    <2>1. OBJECT \in {OBJECT, ARRAY}
      OBVIOUS
    <2> QED BY <1>2, <1>5, <1>6, <1>7, <2>1, Zenon DEF ContainerAt
  <1>9. ContentOf(s2, c, end2) = D!WithKey(Last(Frames(s, headers, end)), KeyOf(s2, end))
    <2>1. ContentOf(s2, c, end2) = FrameOf(s2, OBJECT, c + 2, end2)
      BY <1>2, <1>6, <1>7, <1>8, ContentIs
    <2>2. ContentOf(s, c, end) = FrameOf(s, OBJECT, c + 2, end)
      BY <1>1, <1>2, ContentIs
    <2> QED BY <1>11, <1>2, <1>5, <2>1, <2>2, Zenon
  <1>10. /\ Holds(s2, headers, end2, "value")
         /\ Frames(s2, headers, end2) =
              Append(Front(Frames(s, headers, end)), ContentOf(s2, c, end2))
    BY SMTT(20), <1>0, <1>1, <1>7, <1>8, InnermostReplaced
  <1> QED BY <1>2, <1>9, <1>10, Zenon

ContainerBehind(s, s2, end, type, end2) ==
    /\ Agree(s, s2, 0, end)
    /\ end2 = end + 3 /\ end2 <= Len(s2)
    /\ Cell(s2, end) = type

\* What a new container is called and what it takes first.
Starts(type, kind, first) ==
    \/ type = ARRAY /\ kind = "array" /\ first = "value"
    \/ type = OBJECT /\ kind = "object" /\ first = "key"

LEMMA ContainerBegun ==
    ASSUME NEW s \in Seq(Nat), NEW s2 \in Seq(Nat), NEW headers \in Seq(Nat),
           NEW end \in Nat, Holds(s, headers, end, "value"),
           NEW type, NEW kind, NEW next, Starts(type, kind, next), NEW end2 \in Nat,
           ContainerBehind(s, s2, end, type, end2), NEW c \in Nat, Behind(end, c)
    PROVE  /\ Holds(s2, Append(headers, c), end2, next)
           /\ Frames(s2, Append(headers, c), end2) =
                Append(Frames(s, headers, end), D!Frame(kind))
  <1>1. /\ Agree(s, s2, 0, end) /\ end2 \in 0..Len(s2) /\ Cell(s2, end) = type
    BY DEF ContainerBehind
  <1>2. /\ type \in {OBJECT, ARRAY} /\ ~(type = OBJECT /\ next = "value")
        /\ kind = IF type = ARRAY THEN "array" ELSE "object"
    BY DEF Starts, OBJECT, ARRAY
  <1>3. c > 0 /\ c - 1 = end /\ c + 2 = end2
    BY DEF Behind, ContainerBehind
  <1>4. /\ Filled(s2, type, end2, end2, next)
        /\ FrameOf(s2, type, end2, end2) =
             D!Frame(IF type = ARRAY THEN "array" ELSE "object")
    BY <1>1, <1>2, FrameEmpty
  <1>5. ContainerAt(s2, c, end2, next)
    <2>1. c + 2 <= end2
      BY <1>3
    <2> QED BY <1>1, <1>3, <1>4, <1>2, <2>1, Zenon DEF ContainerAt
  <1>6. ContentOf(s2, c, end2) = FrameOf(s2, type, end2, end2)
    BY <1>1, <1>3, <1>5, ContentIs
  <1>7. /\ Holds(s2, Append(headers, c), end2, next)
        /\ Frames(s2, Append(headers, c), end2) =
             Append(Frames(s, headers, end), ContentOf(s2, c, end2))
    BY <1>1, <1>5, InnermostPushed
  <1> QED BY <1>4, <1>6, <1>7, <1>2, Zenon

\* The root's type byte is the first cell, or comes next.
Rooted(headers, end) == EndAt(headers, end, 0) = 0

LEMMA RootedKept ==
    ASSUME NEW headers \in Seq(Nat), headers # <<>>, NEW end, Rooted(headers, end),
           NEW end2
    PROVE  Rooted(headers, end2)
  BY DEF Rooted, EndAt

LEMMA RootedPushed ==
    ASSUME NEW headers \in Seq(Nat), NEW end \in Nat, Rooted(headers, end),
           NEW c \in Nat, Behind(end, c), NEW end2
    PROVE  Rooted(Append(headers, c), end2)
  <1>1. PICK more : more = Append(headers, c)
    OBVIOUS
  <1>2. Len(more) = Len(headers) + 1 /\ Len(headers) \in Nat
    BY <1>1
  <1>3. more[1] = IF Len(headers) = 0 THEN c ELSE headers[1]
    BY <1>1
  <1>4. EndAt(more, end2, 0) = more[1] - 1
    BY <1>2 DEF EndAt
  <1>5. CASE Len(headers) = 0
    BY <1>1, <1>3, <1>4, <1>5 DEF Rooted, EndAt, Behind
  <1>6. CASE Len(headers) # 0
    BY <1>1, <1>3, <1>4, <1>6 DEF Rooted, EndAt
  <1> QED BY <1>5, <1>6

LEMMA RootedPopped ==
    ASSUME NEW headers \in Seq(Nat), headers # <<>>, NEW end, Rooted(headers, end),
           NEW c, c = Last(headers), NEW next, NEW s, Holds(s, headers, end, next)
    PROVE  Rooted(Front(headers), c - 1)
  <1>1. PICK less : less = Front(headers)
    OBVIOUS
  <1>2. /\ less \in Seq(Nat) /\ Len(less) = Len(headers) - 1
        /\ \A i \in 1..(Len(headers) - 1) : less[i] = headers[i]
        /\ c = headers[Len(headers)]
    BY <1>1, FrontFacts
  <1>3. Len(headers) \in Nat /\ Len(headers) # 0 /\ headers[1] - 1 = 0
    BY DEF Rooted, EndAt
  <1>4. CASE Len(headers) = 1
    BY <1>1, <1>2, <1>3, <1>4 DEF Rooted, EndAt
  <1>5. CASE Len(headers) # 1
    <2>1. PICK len : len = Len(headers)
      OBVIOUS
    <2>2. len \in Nat /\ len # 0 /\ len # 1
      BY <1>3, <1>5, <2>1
    <2>3. 1 \in 1..(len - 1)
      BY <2>2
    <2>4. less[1] = headers[1] /\ Len(less) # 0
      BY <1>2, <2>1, <2>2, <2>3
    <2> QED BY <1>1, <1>3, <2>4 DEF Rooted, EndAt
  <1> QED BY <1>4, <1>5

-----------------------------------------------------------------------------
(***************************************************************************)
(* The writer's buffers                                                    *)
(***************************************************************************)

\* The headers of n open containers, when c is the innermost one's and the
\* others are on the stack st.
HeadersOn(st, n, c) == [i \in 1..n |-> IF i = n THEN c ELSE st[i + 1]]
Headers == HeadersOn(stack, Saved, current_container)
Taken == IF expect \in {"key", "more_key"} THEN "key" ELSE "value"

\* What is on the spool while the document can take more: containers in
\* containers, and behind them what is being added in parts.
ContentHeld ==
    /\ Len(spool) <= MaxSpool
    /\ Holds(spool, Headers, ContentEnd, Taken)
    /\ Rooted(Headers, ContentEnd)
    /\ expect \in {"more_string", "more_bytes"} =>
         /\ ContentEnd + 1 = Last(stack) /\ ContentEnd + 2 < Len(spool)
         /\ Cell(spool, ContentEnd) = SCALAR

\* Nothing is taken any more: the root is what the spool holds, of the size
\* that was predicted for it.
Finished ==
    HashIsNumber => WellSized(spool, 0) /\ EndOfValue(spool, 0) = Len(spool)
Held == IF expect = "none" THEN Finished ELSE ContentHeld
DInv == IInv /\ (~failed => Held)

LEMMA HeadersFacts ==
    ASSUME NEW st \in Seq(Nat), NEW n \in 0..Len(st), NEW c \in Nat,
           NEW headers, headers = HeadersOn(st, n, c)
    PROVE  /\ headers \in Seq(Nat) /\ Len(headers) = n
           /\ headers = <<>> <=> n = 0
           /\ n > 0 => Last(headers) = c
  <1>1. n \in Nat /\ n <= Len(st)
    OBVIOUS
  <1>2. \A i \in 1..n : i = n \/ i + 1 \in 1..Len(st)
    BY <1>1
  <1>3. headers \in [1..n -> Nat]
    <2>1. \A i \in 1..n : (IF i = n THEN c ELSE st[i + 1]) \in Nat
      BY <1>2
    <2> QED BY <2>1 DEF HeadersOn
  <1>4. headers \in Seq(Nat) /\ Len(headers) = n
    BY <1>1, <1>3
  <1>5. n > 0 => headers[n] = c
    BY <1>1 DEF HeadersOn
  <1> QED BY <1>4, <1>5 DEF Last

\* The frames, as OpenFrames computes them from the stack.
FramesOn(s, st, n, c, end) ==
    [i \in 1..n |->
        ContentOf(s, IF i = n THEN c ELSE st[i + 1],
                  IF i = n THEN end
                  ELSE (IF i + 1 = n THEN c ELSE st[i + 1 + 1]) - 1)]

LEMMA FramesAre ==
    ASSUME NEW s, NEW st \in Seq(Nat), NEW n \in 0..Len(st), NEW c \in Nat, NEW end
    PROVE  FramesOn(s, st, n, c, end) = Frames(s, HeadersOn(st, n, c), end)
  <1>1. PICK headers : headers = HeadersOn(st, n, c)
    OBVIOUS
  <1>2. Len(headers) = n
    BY <1>1, HeadersFacts
  <1>3. \A i \in 1..n : i # n => i + 1 \in 1..n
    OBVIOUS
  <1>4. \A i \in 1..n :
          /\ headers[i] = IF i = n THEN c ELSE st[i + 1]
          /\ i # n => headers[i + 1] = IF i + 1 = n THEN c ELSE st[i + 1 + 1]
    BY <1>1, <1>3, Zenon DEF HeadersOn
  <1>5. \A i \in 1..n :
          ContentOf(s, IF i = n THEN c ELSE st[i + 1],
                    IF i = n THEN end
                    ELSE (IF i + 1 = n THEN c ELSE st[i + 1 + 1]) - 1)
            = ContentOf(s, headers[i], EndAt(headers, end, i))
    BY <1>2, <1>4, Zenon DEF EndAt
  <1>6. Frames(s, headers, end) =
          [i \in 1..n |-> ContentOf(s, headers[i], EndAt(headers, end, i))]
    BY <1>2, Zenon DEF Frames
  <1> QED BY <1>1, <1>5, <1>6, Zenon DEF FramesOn

\* Headers depend only on the cells of the stack below n.
LEMMA HeadersSame ==
    ASSUME NEW st \in Seq(Nat), NEW st2 \in Seq(Nat), NEW n \in Nat, NEW c,
           \A i \in 1..n : st2[i] = st[i]
    PROVE  HeadersOn(st2, n, c) = HeadersOn(st, n, c)
  <1>1. \A i \in 1..n : i = n \/ i + 1 \in 1..n
    OBVIOUS
  <1> QED BY <1>1, Zenon DEF HeadersOn

\* A container is begun: the innermost one so far is saved.
LEMMA HeadersPushed ==
    ASSUME NEW st \in Seq(Nat), NEW n \in Nat, n = Len(st), NEW c \in Nat, NEW c2 \in Nat
    PROVE  HeadersOn(Append(st, c), n + 1, c2) = Append(HeadersOn(st, n, c), c2)
  <1> DEFINE st2 == Append(st, c)
             f == HeadersOn(st, n, c)
             g == HeadersOn(st2, n + 1, c2)
  <1>1. \A i \in 1..n : /\ i # n + 1 /\ i \in 1..(n + 1)
                        /\ i = n => st2[i + 1] = c
                        /\ i # n => st2[i + 1] = st[i + 1]
    OBVIOUS
  <1>2. f \in Seq(Nat) /\ Len(f) = n
    <2>1. n \in 0..Len(st)
      OBVIOUS
    <2> QED BY <2>1, HeadersFacts
  <1>3. g \in Seq(Nat) /\ Len(g) = n + 1 /\ Last(g) = c2
    <2>1. st2 \in Seq(Nat) /\ n + 1 \in 0..Len(st2) /\ n + 1 > 0
      OBVIOUS
    <2> HIDE DEF st2
    <2>2. PICK m \in 0..Len(st2) : m = n + 1
      BY <2>1
    <2>3. m > 0
      BY <2>2
    <2>4. PICK headers : headers = HeadersOn(st2, m, c2)
      OBVIOUS
    <2>5. headers \in Seq(Nat) /\ Len(headers) = m /\ Last(headers) = c2
      BY <2>1, <2>3, <2>4, HeadersFacts
    <2> QED BY <2>2, <2>4, <2>5, Zenon
  <1> HIDE DEF st2
  <1>4. \A i \in 1..n : g[i] = f[i]
    BY <1>1, Zenon DEF HeadersOn
  <1> HIDE DEF f, g
  <1>5. f \in [1..n -> Nat] /\ g \in [1..(n + 1) -> Nat] /\ g[n + 1] = c2
    BY <1>2, <1>3, LenProperties DEF Last
  <1>6. g = Append(f, c2)
    BY <1>4, <1>5, AppendIs
  <1> QED BY <1>6 DEF f, g, st2

\* A container is ended: back to the one that was saved last.
LEMMA HeadersPopped ==
    ASSUME NEW st \in Seq(Nat), NEW n \in Nat, n = Len(st), n > 0, NEW c \in Nat
    PROVE  HeadersOn(Front(st), n - 1, st[n]) = Front(HeadersOn(st, n, c))
  <1> DEFINE f == HeadersOn(st, n, c)
             g == HeadersOn(Front(st), n - 1, st[n])
  <1>1. PICK m \in Nat : n = m + 1
    <2>1. n - 1 \in Nat /\ n = (n - 1) + 1
      OBVIOUS
    <2> QED BY <2>1
  <1>2. /\ n - 1 = m /\ Front(st) \in Seq(Nat) /\ Len(Front(st)) = m
        /\ \A i \in 1..m : Front(st)[i] = st[i]
    <2>1. st # <<>>
      OBVIOUS
    <2>2. n - 1 = m
      BY <1>1
    <2> QED BY <2>1, <2>2, FrontFacts
  <1>3. \A i \in 1..m : /\ i # n /\ (i = m \/ i + 1 \in 1..m) /\ (i = m => i + 1 = n)
                        /\ i \in 1..n
    BY <1>1
  <1>4. g = [i \in 1..m |-> IF i = m THEN st[n] ELSE Front(st)[i + 1]]
    BY <1>2 DEF HeadersOn
  <1>5. f = [i \in 1..n |-> IF i = n THEN c ELSE st[i + 1]]
    BY DEF HeadersOn
  <1>6. f \in [1..(m + 1) -> Nat]
    <2>1. f \in Seq(Nat) /\ Len(f) = n
      <3>1. n \in 0..Len(st)
        OBVIOUS
      <3> QED BY <3>1, HeadersFacts
    <2> HIDE DEF f
    <2> QED BY <1>1, <2>1
  <1> HIDE DEF f, g
  <1>7. Front(f) = [i \in 1..m |-> f[i]]
    BY <1>6, LastReplaced, ZenonT(40)
  <1>8. \A i \in 1..m : f[i] = IF i = m THEN st[n] ELSE Front(st)[i + 1]
    <2>1. \A i \in 1..m : i # m => Front(st)[i + 1] = st[i + 1]
      BY <1>2, <1>3
    <2> QED BY <1>3, <1>5, <2>1, Zenon
  <1>9. g = Front(f)
    BY <1>4, <1>7, <1>8, Zenon
  <1> QED BY <1>9 DEF f, g

-----------------------------------------------------------------------------
(***************************************************************************)
(* The tree that the buffers stand for                                     *)
(***************************************************************************)

\* The open containers, when the document can take more.
LEMMA OpenAre ==
    ASSUME stack \in Seq(Nat), current_container \in Nat, Saved \in 0..Len(stack)
    PROVE  OpenFrames = Frames(spool, Headers, ContentEnd)
  <1>1. OpenFrames = FramesOn(spool, stack, Saved, current_container, ContentEnd)
    BY Layout, Zenon DEF OpenFrames, Header, EndOfContent, FramesOn
  <1> QED BY <1>1, FramesAre, Zenon DEF Headers

LEMMA OpenAreAfter ==
    ASSUME stack' \in Seq(Nat), current_container' \in Nat, Saved' \in 0..Len(stack')
    PROVE  OpenFrames' = Frames(spool', Headers', ContentEnd')
  <1>1. OpenFrames' = FramesOn(spool', stack', Saved', current_container', ContentEnd')
    BY Layout, Zenon DEF OpenFrames, Header, EndOfContent, FramesOn
  <1> QED BY <1>1, FramesAre, Zenon DEF Headers

\* What the invariant says of a document that can take more.
LEMMA DocumentFacts ==
    ASSUME DInv, ~failed, expect # "none"
    PROVE  /\ spool \in Seq(Nat) /\ stack \in Seq(Nat) /\ current_container \in Nat
           /\ Saved \in 0..Len(stack)
           /\ Headers \in Seq(Nat) /\ Len(Headers) = Saved
           /\ Headers = <<>> <=> current_container = 0
           /\ Headers # <<>> => Last(Headers) = current_container
           /\ ContentEnd \in Nat /\ ContentEnd <= Len(spool)
           /\ Headers = <<>> => ContentEnd = 0
           /\ Rooted(Headers, ContentEnd)
           /\ Holds(spool, Headers, ContentEnd, Taken)
           /\ Open = Frames(spool, Headers, ContentEnd)
           /\ Root = <<>>
           /\ expect_after_value = ExpectIn(spool, current_container)
           /\ Len(spool) <= MaxSpool
  <1>1. IInv /\ ContentHeld
    BY DEF DInv, Held
  <1>2. /\ spool \in Seq(Nat) /\ stack \in Seq(Nat) /\ current_container \in Nat
        /\ Saved \in Nat /\ Saved <= Len(stack)
        /\ Saved = 0 <=> current_container = 0
        /\ expect_after_value = ExpectIn(spool, current_container)
    BY <1>1, ChainFacts
  <1>3. Saved \in 0..Len(stack)
    BY <1>2
  <1>4. /\ Headers \in Seq(Nat) /\ Len(Headers) = Saved
        /\ Headers = <<>> <=> Saved = 0
        /\ Saved > 0 => Last(Headers) = current_container
    BY <1>2, <1>3, HeadersFacts DEF Headers
  <1>5. Headers # <<>> => Last(Headers) = current_container
    BY <1>2, <1>4
  <1>6. /\ Holds(spool, Headers, ContentEnd, Taken)
        /\ Rooted(Headers, ContentEnd)
        /\ Len(spool) <= MaxSpool
    BY <1>1 DEF ContentHeld
  <1>7. ContentEnd \in Nat /\ ContentEnd <= Len(spool)
    BY <1>6 DEF Holds
  <1>8. Open = Frames(spool, Headers, ContentEnd)
    BY <1>2, <1>3, OpenAre, Zenon DEF Open
  <1>9. Root = <<>>
    BY DEF Root
  <1>10. Headers = <<>> => ContentEnd = 0
    BY <1>6 DEF Rooted, EndAt
  <1> QED BY <1>2, <1>3, <1>4, <1>5, <1>6, <1>7, <1>8, <1>9, <1>10, Zenon

\* No text is being added in parts, or one of some use is.
LEMMA TextFacts ==
    ASSUME expect \in Expect, ~failed
    PROVE  TextSoFar = <<>> <=> expect \in AfterValue
  <1>1. expect \in AfterValue => PartialText = <<>>
    BY DEF PartialText, AfterValue
  <1>2. expect \notin AfterValue => PartialText # <<>>
    <2>1. expect \notin AfterValue =>
            expect \in {"more_key", "more_string", "more_bytes", "more_decimal_string"}
      BY DEF Expect, AfterValue
    <2> QED BY <2>1 DEF PartialText
  <1> QED BY <1>1, <1>2 DEF TextSoFar

LEMMA EmptyFrames ==
    ASSUME NEW s, NEW headers \in Seq(Nat), NEW end, headers = <<>>
    PROVE  Frames(s, headers, end) = <<>>
  BY DEF Frames

\* Document's operators on sequences are the same ones.
LEMMA SameOperators ==
    \A u : D!Last(u) = Last(u) /\ D!Front(u) = Front(u)
  BY Zenon DEF D!Last, D!Front, Last, Front

\* What the tree can take is what the writer accepts.
LEMMA TreeTakes ==
    ASSUME DInv
    PROVE  /\ D!ValueExpected <=> Accepts(CheckExpectValue)
           /\ D!KeyExpected <=> Accepts(CheckExpectKey)
           /\ D!EndExpected("array") <=> Accepts(CheckEndArray)
           /\ D!EndExpected("object") <=> Accepts(CheckEndObject)
  <1> USE DEF D!ValueExpected, D!KeyExpected, D!EndExpected, Accepts, CheckExpectValue,
              CheckExpectKey, CheckEndArray, CheckEndObject, OK
  <1>1. CASE failed
    BY <1>1
  <1>2. CASE ~failed /\ expect = "none"
    <2>1. Open = <<>> /\ Root # <<>>
      BY <1>2 DEF Open, Root
    <2>2. expect_after_value = "none"
      BY <1>2 DEF DInv, Held, IInv, ContainersNested
    <2> QED BY <1>2, <2>1, <2>2
  <1>3. CASE ~failed /\ expect # "none"
    <2>1. /\ Headers \in Seq(Nat)
          /\ Headers = <<>> <=> current_container = 0
          /\ Open = Frames(spool, Headers, ContentEnd)
          /\ Root = <<>>
          /\ expect_after_value = ExpectIn(spool, current_container)
      BY <1>3, DocumentFacts
    <2>2. /\ expect \in Expect /\ expect_after_value \in AfterValue
          /\ expect \in {"key", "more_key"} => expect_after_value = "key"
      BY <1>3 DEF DInv, Held, IInv, TypeOK, ContainersNested
    <2>3. TextSoFar = <<>> <=> expect \in {"key", "value"}
      BY <1>3, <2>2, TextFacts DEF AfterValue
    <2>4. CASE Headers = <<>>
      <3>1. Open = <<>> /\ expect_after_value = "none"
        BY <2>1, <2>4, EmptyFrames DEF ExpectIn
      <3> QED BY <1>3, <2>1, <2>2, <2>3, <3>1
    <2>5. CASE Headers # <<>>
      <3>1. PICK frame : frame = Last(Open) /\ frame = D!Last(Open)
        BY SameOperators
      <3>2. PICK type : type = Cell(spool, current_container - 1)
        OBVIOUS
      <3>3. /\ Last(Headers) = current_container
            /\ spool \in Seq(Nat) /\ ContentEnd \in Nat
            /\ Holds(spool, Headers, ContentEnd, Taken)
        BY <1>3, <2>5, DocumentFacts
      <3>4. /\ current_container \in Nat
            /\ ContainerAt(spool, current_container, ContentEnd, Taken)
            /\ Frames(spool, Headers, ContentEnd) # <<>>
            /\ Last(Frames(spool, Headers, ContentEnd)) =
                 ContentOf(spool, current_container, ContentEnd)
        BY <2>1, <2>5, <3>3, InnermostPopped
      <3>5. Open # <<>> /\ frame = ContentOf(spool, current_container, ContentEnd)
        BY <2>1, <3>1, <3>4
      <3>6. /\ frame.kind = "array" <=> type = ARRAY
            /\ frame.kind = "object" <=> type = OBJECT
            /\ frame.key # <<>> <=> type = OBJECT /\ Taken = "value"
        BY <3>2, <3>3, <3>4, <3>5, InnermostTakes
      <3>7. type \in {OBJECT, ARRAY} /\ OBJECT # ARRAY
        BY <3>2, <3>4, Layout DEF ContainerAt
      <3>8. /\ expect_after_value = "key" <=> type = OBJECT
            /\ expect_after_value = "value" <=> type = ARRAY
        BY <2>1, <2>5, <3>2, <3>7, Layout DEF ExpectIn
      <3>9. Taken = "value" <=> expect \notin {"key", "more_key"}
        BY DEF Taken
      <3>10. D!ValueExpected <=> Accepts(CheckExpectValue)
        BY <1>3, <2>1, <2>2, <2>3, <3>1, <3>5, <3>6, <3>7, <3>8, <3>9
      <3>11. D!KeyExpected <=> Accepts(CheckExpectKey)
        BY <1>3, <2>1, <2>2, <2>3, <3>1, <3>5, <3>6, <3>7, <3>8, <3>9
      <3>12. D!EndExpected("array") <=> Accepts(CheckEndArray)
        BY <1>3, <2>1, <2>2, <2>3, <3>1, <3>5, <3>6, <3>7, <3>8, <3>9
      <3>13. D!EndExpected("object") <=> Accepts(CheckEndObject)
        BY <1>3, <2>1, <2>2, <2>3, <3>1, <3>5, <3>6, <3>7, <3>8, <3>9
      <3> QED BY <3>10, <3>11, <3>12, <3>13
    <2> QED BY <2>4, <2>5
  <1> QED BY <1>1, <1>2, <1>3

-----------------------------------------------------------------------------
(***************************************************************************)
(* What a call does to the tree                                            *)
(***************************************************************************)

\* A call that leaves the buffers alone, and one that costs the document.
LEMMA RefusedIsRefuse ==
    ASSUME UNCHANGED <<buffers, expects, failed>>, ret' # OK
    PROVE  D!Refuse
  <1>1. /\ spool' = spool /\ stack' = stack /\ current_container' = current_container
        /\ expect' = expect /\ failed' = failed
    BY DEF buffers, expects
  <1>2. Root' = Root /\ TextSoFar' = TextSoFar
    BY <1>1 DEF Root, TextSoFar, PartialText
  <1>3. Saved' = Saved /\ ContentEnd' = ContentEnd
    BY <1>1 DEF Saved, ContentEnd
  <1>4. OpenFrames' = OpenFrames
    BY <1>1, <1>3, Zenon DEF OpenFrames, Header, EndOfContent
  <1>5. Open' = Open
    BY <1>1, <1>4 DEF Open
  <1>6. Answer' = "error"
    BY DEF Answer
  <1> QED BY <1>1, <1>2, <1>5, <1>6 DEF D!Refuse

LEMMA FailedIsBreak ==
    ASSUME ~failed, failed' = TRUE, ret' # OK
    PROVE  D!Break
  BY DEF D!Break, Root, Open, TextSoFar, Answer

\* What is expected next, and the buffers, after a value or a key.
LEMMA SettledAfter ==
    ASSUME IInv', ~failed', expect' \in AfterValue,
           NEW headers \in Seq(Nat), Headers' = headers, Len(stack') = Len(headers)
    PROVE  /\ spool' \in Seq(Nat)
           /\ TextSoFar' = <<>>
           /\ ContentEnd' = Len(spool') /\ Saved' = Len(stack')
           /\ expect' # "none" =>
                Root' = <<>> /\ Open' = Frames(spool', headers, Len(spool'))
           /\ headers # <<>> => Last(headers) = current_container'
           /\ expect' # "none" => (Taken' = "value" <=> expect' # "key")
           /\ expect' \notin {"more_string", "more_bytes"}
  <1>1. /\ spool' \in Seq(Nat) /\ stack' \in Seq(Nat) /\ current_container' \in Nat
    BY DEF IInv, TypeOK
  <1>2. /\ TextSoFar' = <<>>
        /\ ContentEnd' = Len(spool') /\ Saved' = Len(stack')
        /\ expect' \notin {"more_string", "more_bytes"}
        /\ Taken' = "value" <=> expect' # "key"
    BY DEF AfterValue, TextSoFar, PartialText, ContentEnd, Saved, Taken
  <1>3. Saved' \in 0..Len(stack')
    <2>1. Len(stack') \in Nat
      BY <1>1
    <2> QED BY <1>2, <2>1
  <1>4. OpenFrames' = Frames(spool', headers, Len(spool'))
    BY <1>1, <1>2, <1>3, OpenAreAfter, Zenon
  <1>5. expect' # "none" => Root' = <<>> /\ Open' = Frames(spool', headers, Len(spool'))
    BY <1>4 DEF Root, Open
  <1>6. headers # <<>> => Last(headers) = current_container'
    <2>1. headers = HeadersOn(stack', Saved', current_container')
      BY DEF Headers
    <2>2. /\ headers = <<>> <=> Saved' = 0
          /\ Saved' > 0 => Last(headers) = current_container'
      BY <1>1, <1>3, <2>1, HeadersFacts
    <2> QED BY <1>3, <2>2
  <1> QED BY <1>1, <1>2, <1>5, <1>6, Zenon

\* A finished value: behind the content of the containers that are open
\* around it, and the last thing on the spool.
LEMMA ValueLands ==
    ASSUME IInv', ~failed', expect' \in AfterValue,
           NEW headers \in Seq(Nat), Headers' = headers, Len(stack') = Len(headers),
           headers = <<>> <=> current_container' = 0,
           expect' = ExpectIn(spool', current_container'),
           NEW s \in Seq(Nat), NEW end \in Nat, Holds(s, headers, end, "value"),
           Rooted(headers, end),
           ValueBehind(s, spool', end, Len(spool')), Len(spool') <= MaxSpool,
           Root = <<>>
    PROVE  /\ Held'
           /\ TextSoFar' = <<>>
           /\ D!Place(Values(spool')[end], Frames(s, headers, end))
  <1>1. /\ spool' \in Seq(Nat)
        /\ TextSoFar' = <<>>
        /\ ContentEnd' = Len(spool') /\ Saved' = Len(stack')
        /\ expect' # "none" =>
             Root' = <<>> /\ Open' = Frames(spool', headers, Len(spool'))
        /\ headers # <<>> => Last(headers) = current_container'
        /\ expect' # "none" => (Taken' = "value" <=> expect' # "key")
        /\ expect' \notin {"more_string", "more_bytes"}
    BY SettledAfter
  <1>2. CASE headers = <<>>
    <2>1. expect' = "none" /\ end = 0
      BY <1>2 DEF ExpectIn, Rooted, EndAt
    <2>4. Held'
      <3>1. Finished'
        BY <2>1, Zenon DEF Finished, ValueBehind
      <3> QED BY <2>1, <3>1 DEF Held
    <2>2. Root' = <<Values(spool')[end]>> /\ Open' = <<>>
      BY <2>1 DEF Root, Open
    <2>3. Frames(s, headers, end) = <<>>
      BY <1>2, EmptyFrames
    <2> QED BY <1>1, <2>1, <2>2, <2>3, <2>4 DEF D!Place
  <1>3. CASE headers # <<>>
    <2>1. PICK c : c = Last(headers)
      OBVIOUS
    <2>2. PICK frames : frames = Frames(s, headers, end)
      OBVIOUS
    <2>3. PICK end2 \in Nat : end2 = Len(spool')
      BY <1>1
    <2>4. c \in Nat /\ c > 0 /\ c + 2 <= end /\ ContainerAt(s, c, end, "value")
      BY <1>3, <2>1, InnermostPopped
    <2>5. Cell(spool', c - 1) = Cell(s, c - 1) /\ Cell(s, c - 1) \in {OBJECT, ARRAY}
      <3>1. c - 1 \in Nat /\ 0 <= c - 1 /\ c - 1 < end
        BY <2>4
      <3> QED BY <2>4, <3>1 DEF Agree, ValueBehind, ContainerAt
    <2>6. expect' # "none" /\ (expect' = "key" <=> Cell(s, c - 1) = OBJECT)
      BY <1>1, <1>3, <2>1, <2>5, Layout DEF ExpectIn
    <2>7. ~(Cell(s, Last(headers) - 1) = OBJECT /\ Taken' = "value")
      BY <1>1, <2>1, <2>6
    <2>8. PICK next : next = Taken'
      OBVIOUS
    <2>9. /\ Holds(spool', headers, end2, next)
          /\ frames # <<>>
          /\ Frames(spool', headers, end2) =
               Append(Front(frames), D!WithItem(Last(frames), Values(spool')[end]))
      <3>1. /\ Holds(spool', headers, end2, next)
            /\ Frames(s, headers, end) # <<>>
            /\ Frames(spool', headers, end2) =
                 Append(Front(Frames(s, headers, end)),
                        D!WithItem(Last(Frames(s, headers, end)), Values(spool')[end]))
        <4>1. PICK s2 : s2 = spool'
          OBVIOUS
        <4>2. s2 \in Seq(Nat) /\ ValueBehind(s, s2, end, end2)
          BY <1>1, <2>3, <4>1
        <4>3. ~(Cell(s, Last(headers) - 1) = OBJECT /\ next = "value")
          BY <2>7, <2>8
        <4>4. /\ Holds(s2, headers, end2, next)
              /\ Frames(s, headers, end) # <<>>
              /\ Frames(s2, headers, end2) =
                   Append(Front(Frames(s, headers, end)),
                          D!WithItem(Last(Frames(s, headers, end)), Values(s2)[end]))
          BY <1>3, <2>1, <4>2, <4>3, ValuePlaced
        <4> QED BY <4>1, <4>4
      <3> QED BY <2>2, <3>1
    <2>10. ContentHeld'
      <3>1. Holds(spool', Headers', ContentEnd', Taken')
        BY <1>1, <2>3, <2>8, <2>9, Zenon
      <3>2. Rooted(Headers', ContentEnd')
        <4>1. Rooted(headers, end2)
          BY <1>3, RootedKept
        <4> QED BY <1>1, <2>3, <4>1
      <3> QED BY <1>1, <3>1, <3>2 DEF ContentHeld
    <2>11. /\ Root' = Root
           /\ Open' = Append(D!Front(frames), D!WithItem(D!Last(frames), Values(spool')[end]))
      BY <1>1, <2>3, <2>6, <2>9, SameOperators, Zenon
    <2>12. Held'
      BY <2>6, <2>10 DEF Held
    <2> QED BY <1>1, <2>2, <2>9, <2>11, <2>12, Zenon DEF D!Place
  <1> QED BY <1>2, <1>3

\* A finished key: behind the content of the innermost container.
LEMMA KeyLands ==
    ASSUME IInv', ~failed', expect' = "value",
           NEW headers \in Seq(Nat), Headers' = headers, Len(stack') = Len(headers),
           headers # <<>>,
           NEW s \in Seq(Nat), NEW end \in Nat, Holds(s, headers, end, "key"),
           Cell(s, Last(headers) - 1) = OBJECT,
           KeyBehind(s, spool', end, Len(spool')), Len(spool') <= MaxSpool,
           Rooted(headers, end)
    PROVE  /\ ContentHeld'
           /\ TextSoFar' = <<>> /\ Root' = <<>>
           /\ Open' = Append(D!Front(Frames(s, headers, end)),
                             D!WithKey(D!Last(Frames(s, headers, end)),
                                       KeyOf(spool', end)))
  <1>1. expect' \in AfterValue
    BY DEF AfterValue
  <1>2. /\ spool' \in Seq(Nat)
        /\ TextSoFar' = <<>> /\ Root' = <<>>
        /\ ContentEnd' = Len(spool') /\ Saved' = Len(stack')
        /\ Open' = Frames(spool', headers, Len(spool'))
        /\ Taken' = "value"
    <2>1. expect' # "none" /\ expect' # "key"
      OBVIOUS
    <2> QED BY <1>1, <2>1, SettledAfter
  <1>3. PICK end2 \in Nat : end2 = Len(spool')
    BY <1>2
  <1>4. PICK s2 : s2 = spool'
    OBVIOUS
  <1>5. /\ Holds(s2, headers, end2, "value")
        /\ Frames(s2, headers, end2) =
             Append(Front(Frames(s, headers, end)),
                    D!WithKey(Last(Frames(s, headers, end)), KeyOf(s2, end)))
    <2>1. s2 \in Seq(Nat) /\ KeyBehind(s, s2, end, end2)
      BY <1>2, <1>3, <1>4
    <2> QED BY <2>1, KeyPlaced
  <1>6. ContentHeld'
    <2>1. Holds(spool', Headers', ContentEnd', Taken')
      BY <1>2, <1>3, <1>4, <1>5, Zenon
    <2>2. Rooted(Headers', ContentEnd')
      <3>1. Rooted(headers, end2)
        BY RootedKept
      <3> QED BY <1>2, <1>3, <3>1
    <2> QED BY <2>1, <2>2 DEF ContentHeld
  <1> QED BY <1>2, <1>3, <1>4, <1>5, <1>6, SameOperators, Zenon

\* A container that has just been begun.
LEMMA ContainerLands ==
    ASSUME IInv', ~failed', NEW type, NEW kind, NEW next,
           Starts(type, kind, next), expect' = next,
           NEW headers \in Seq(Nat), NEW c \in Nat,
           Headers' = Append(headers, c), Len(stack') = Len(Append(headers, c)),
           NEW s \in Seq(Nat), NEW end \in Nat, Holds(s, headers, end, "value"),
           ContainerBehind(s, spool', end, type, Len(spool')), Behind(end, c), Len(spool') <= MaxSpool,
           Rooted(headers, end)
    PROVE  /\ ContentHeld'
           /\ TextSoFar' = <<>> /\ Root' = <<>>
           /\ Open' = Append(Frames(s, headers, end), D!Frame(kind))
  <1>1. expect' \in AfterValue /\ next \in {"key", "value"}
    BY DEF AfterValue, Starts
  <1>2. PICK more : more = Append(headers, c)
    OBVIOUS
  <1>3. more \in Seq(Nat) /\ Len(more) > 0
    BY <1>2
  <1>4. /\ spool' \in Seq(Nat)
        /\ TextSoFar' = <<>> /\ Root' = <<>>
        /\ ContentEnd' = Len(spool') /\ Saved' = Len(stack')
        /\ Open' = Frames(spool', more, Len(spool'))
        /\ Taken' = next
    <2>1. expect' # "none" /\ (expect' # "key" <=> next = "value")
      BY <1>1
    <2>2. Taken' \in {"key", "value"}
      BY DEF Taken
    <2>3. /\ spool' \in Seq(Nat)
          /\ TextSoFar' = <<>>
          /\ ContentEnd' = Len(spool') /\ Saved' = Len(stack')
          /\ Root' = <<>> /\ Open' = Frames(spool', more, Len(spool'))
          /\ Taken' = "value" <=> expect' # "key"
      BY <1>1, <1>2, <1>3, <2>1, SettledAfter
    <2> QED BY <1>1, <2>1, <2>2, <2>3
  <1>5. PICK end2 \in Nat : end2 = Len(spool')
    BY <1>4
  <1>6. PICK s2 : s2 = spool'
    OBVIOUS
  <1>7. /\ Holds(s2, Append(headers, c), end2, next)
        /\ Frames(s2, Append(headers, c), end2) =
             Append(Frames(s, headers, end), D!Frame(kind))
    <2>1. s2 \in Seq(Nat) /\ ContainerBehind(s, s2, end, type, end2)
      BY <1>4, <1>5, <1>6
    <2> QED BY <2>1, ContainerBegun
  <1>8. ContentHeld'
    <2>1. Holds(spool', Headers', ContentEnd', Taken')
      BY <1>2, <1>4, <1>5, <1>6, <1>7, Zenon
    <2>2. Rooted(Headers', ContentEnd')
      <3>1. Rooted(Append(headers, c), end2)
        BY RootedPushed
      <3> QED BY <1>2, <1>4, <1>5, <3>1
    <2>3. expect' \notin {"more_string", "more_bytes"}
      BY <1>1
    <2> QED BY <2>1, <2>2, <2>3 DEF ContentHeld
  <1> QED BY <1>2, <1>4, <1>5, <1>6, <1>7, <1>8, Zenon

\* What is added in parts lies behind the content of the containers.
LEMMA TextKept ==
    ASSUME DInv, ~failed, expect # "none", IInv', ~failed', expect' # "none",
           Agree(spool, spool', 0, ContentEnd), Headers' = Headers,
           ContentEnd' = ContentEnd, Taken' = Taken, Saved' \in 0..Len(stack')
    PROVE  /\ Holds(spool', Headers', ContentEnd', Taken')
           /\ Rooted(Headers', ContentEnd')
           /\ Root' = Root /\ Open' = Open
  <1>1. /\ spool \in Seq(Nat) /\ Headers \in Seq(Nat)
        /\ Rooted(Headers, ContentEnd)
        /\ Holds(spool, Headers, ContentEnd, Taken)
        /\ Open = Frames(spool, Headers, ContentEnd)
        /\ Root = <<>>
    BY DocumentFacts
  <1>2. spool' \in Seq(Nat) /\ stack' \in Seq(Nat) /\ current_container' \in Nat
    BY DEF IInv, TypeOK
  <1>3. PICK headers : headers = Headers
    OBVIOUS
  <1>4. PICK end : end = ContentEnd
    OBVIOUS
  <1>5. PICK next : next = Taken
    OBVIOUS
  <1>6. PICK s2 : s2 = spool'
    OBVIOUS
  <1>7. /\ Holds(s2, headers, end, next)
        /\ Frames(s2, headers, end) = Frames(spool, headers, end)
    <2>1. /\ s2 \in Seq(Nat) /\ headers \in Seq(Nat)
          /\ Holds(spool, headers, end, next) /\ Agree(spool, s2, 0, end)
      BY <1>1, <1>2, <1>3, <1>4, <1>5, <1>6
    <2> QED BY <1>1, <2>1, HoldsKept
  <1>8. OpenFrames' = Frames(spool', Headers', ContentEnd')
    BY <1>2, OpenAreAfter
  <1>9. Open' = OpenFrames' /\ Root' = <<>>
    BY DEF Open, Root
  <1>10. /\ Holds(spool', Headers', ContentEnd', Taken')
         /\ Rooted(Headers', ContentEnd')
         /\ Open' = Open
    BY <1>1, <1>3, <1>4, <1>5, <1>6, <1>7, <1>8, <1>9, Zenon
  <1> QED BY <1>1, <1>9, <1>10

-----------------------------------------------------------------------------
(***************************************************************************)
(* The calls                                                               *)
(***************************************************************************)

\* A call that is refused, or that leaves the writer failed.
LEMMA RefusedImplements ==
    ASSUME DInv, IInv', UNCHANGED <<buffers, expects, failed>>, ret' # OK
    PROVE  DInv' /\ D!Next
  <1>1. /\ spool' = spool /\ stack' = stack /\ current_container' = current_container
        /\ expect' = expect /\ failed' = failed
    BY DEF buffers, expects
  <1>2. Saved' = Saved /\ ContentEnd' = ContentEnd /\ Taken' = Taken
    BY <1>1 DEF Saved, ContentEnd, Taken
  <1>3. Headers' = Headers
    BY <1>1, <1>2 DEF Headers
  <1>4. ContentHeld => ContentHeld'
    BY <1>1, <1>2, <1>3, Zenon DEF ContentHeld
  <1>5. Finished => Finished'
    BY <1>1, Zenon DEF Finished
  <1>6. DInv'
    <2>1. ASSUME ~failed' PROVE Held'
      <3>1. ~failed
        BY <1>1, <2>1
      <3>2. Held
        BY <3>1, Zenon DEF DInv
      <3> QED BY <1>1, <1>4, <1>5, <3>2, Zenon DEF Held
    <2> QED BY <2>1, Zenon DEF DInv
  <1> QED BY <1>6, RefusedIsRefuse DEF D!Next

LEMMA RefuseImplements ==
    ASSUME DInv, IInv', NEW check, Refuse(check)
    PROVE  DInv' /\ D!Next
  <1>1. UNCHANGED <<buffers, expects, failed>> /\ ret' # OK
    BY DEF Refuse, Return, OK
  <1> QED BY <1>1, RefusedImplements

LEMMA FailImplements ==
    ASSUME IInv', ~failed, failed' = TRUE, ret' # OK
    PROVE  DInv' /\ D!Next
  <1>1. DInv'
    BY DEF DInv, Held
  <1> QED BY <1>1, FailedIsBreak DEF D!Next

\* Cells behind a spool.
Added(s, t, s2) == s2 = s \o t
Grown(s, t, s2) ==
    /\ s2 \in Seq(Nat) /\ Len(s2) = Len(s) + Len(t)
    /\ Agree(s, s2, 0, Len(s))
    /\ \A i \in 1..Len(t) : s2[Len(s) + i] = t[i]

LEMMA AddedCells ==
    ASSUME NEW s \in Seq(Nat), NEW t \in Seq(Nat), NEW s2, Added(s, t, s2)
    PROVE  Grown(s, t, s2)
  <1>1. s2 \in Seq(Nat) /\ Len(s2) = Len(s) + Len(t)
    BY DEF Added
  <1>2. \A o \in Nat : o < Len(s) => Cell(s2, o) = Cell(s, o)
    BY DEF Added, Cell
  <1>3. Agree(s, s2, 0, Len(s))
    BY <1>1, <1>2 DEF Agree
  <1>4. ASSUME NEW i \in 1..Len(t) PROVE s2[Len(s) + i] = t[i]
    <2>1. PICK j : j = Len(s) + i
      OBVIOUS
    <2>2. j \in 1..(Len(s) + Len(t)) /\ j > Len(s) /\ j - Len(s) = i
      BY <2>1
    <2>3. s2[j] = t[j - Len(s)]
      BY <2>2 DEF Added
    <2> QED BY <2>1, <2>2, <2>3
  <1> QED BY <1>1, <1>3, <1>4 DEF Grown

LEMMA SpoolGrows ==
    ASSUME spool \in Seq(Nat), NEW cells \in Seq(Nat), spool' = spool \o cells
    PROVE  /\ spool' \in Seq(Nat) /\ Len(spool') = Len(spool) + Len(cells)
           /\ Agree(spool, spool', 0, Len(spool))
           /\ \A i \in 1..Len(cells) : spool'[Len(spool) + i] = cells[i]
  <1>1. PICK s2 : s2 = spool'
    OBVIOUS
  <1>2. Added(spool, cells, s2)
    BY <1>1 DEF Added
  <1>3. Grown(spool, cells, s2)
    BY <1>2, AddedCells
  <1> QED BY <1>1, <1>3, Zenon DEF Grown

\* A container is begun.
LEMMA BeginContainerImplements ==
    ASSUME DInv, IInv', NEW type, NEW kind \in {"array", "object"}, NEW first,
           Starts(type, kind, first), BeginContainer(type, first)
    PROVE  DInv' /\ D!Next
  <1>1. CASE Refuse(CheckExpectValue)
    BY <1>1, RefuseImplements
  <1>2. CASE Accepts(CheckExpectValue) /\ Fail("system")
    <2>1. ~failed /\ failed' = TRUE /\ ret' # OK
      BY <1>2 DEF Accepts, Fail, OK
    <2> QED BY <2>1, FailImplements
  <1> DEFINE c == Len(spool) + TypeByteSize
             header == <<type, 0, 0>>
  <1>3. CASE /\ Accepts(CheckExpectValue)
             /\ HasRoom(TypeByteSize + HeaderSize)
             /\ expect' = first
             /\ spool' = spool \o header
             /\ stack' = Append(stack, current_container)
             /\ current_container' = c
             /\ Succeed
    <2>1. /\ ~failed /\ expect = "value" /\ ~failed' /\ failed' = failed
          /\ ret' = OK /\ D!ValueExpected
      BY <1>3, TreeTakes DEF Accepts, CheckExpectValue, Succeed, OK
    <2>2. Saved = Len(stack) /\ ContentEnd = Len(spool) /\ Taken = "value"
      BY <2>1 DEF Saved, ContentEnd, Taken
    <2>3. /\ spool \in Seq(Nat) /\ stack \in Seq(Nat) /\ current_container \in Nat
          /\ Headers \in Seq(Nat) /\ Len(Headers) = Len(stack)
          /\ Holds(spool, Headers, Len(spool), "value")
          /\ Rooted(Headers, Len(spool))
          /\ Open = Frames(spool, Headers, Len(spool))
          /\ Root = <<>>
      BY <2>1, <2>2, DocumentFacts
    <2>4. /\ type \in Nat /\ first \in {"key", "value"}
          /\ Len(spool) \in Nat /\ Len(stack) \in Nat /\ c \in Nat
      <3>1. type \in Nat /\ first \in {"key", "value"}
        BY DEF Starts, OBJECT, ARRAY
      <3> QED BY <2>3, <3>1, Layout
    <2>5. header \in Seq(Nat) /\ Len(header) = 3 /\ header[1] = type
      BY <2>4
    <2>6. ContainerBehind(spool, spool', Len(spool), type, Len(spool'))
      <3> HIDE DEF header
      <3>1. /\ Len(spool') = Len(spool) + Len(header)
            /\ Agree(spool, spool', 0, Len(spool))
            /\ \A i \in 1..Len(header) : spool'[Len(spool) + i] = header[i]
        BY <1>3, <2>3, <2>5, SpoolGrows, Zenon
      <3>2. Cell(spool', Len(spool)) = type
        BY <2>5, <3>1 DEF Cell
      <3> QED BY <2>4, <2>5, <3>1, <3>2 DEF ContainerBehind
    <2>7. Len(spool') <= MaxSpool
      BY <1>3, <2>3, <2>4, <2>5, Layout DEF HasRoom
    <2>8. Behind(Len(spool), c)
      BY Layout DEF Behind
    <2>9. expect' \in AfterValue /\ Saved' = Len(stack')
      BY <1>3, <2>4 DEF AfterValue, Saved
    <2>10. Headers' = Append(Headers, c) /\ Len(stack') = Len(Append(Headers, c))
      <3>1. Len(stack') = Len(stack) + 1 /\ Len(Append(Headers, c)) = Len(Headers) + 1
        BY <1>3, <2>3, <2>4
      <3>2. HeadersOn(Append(stack, current_container), Len(stack) + 1, c) =
              Append(HeadersOn(stack, Len(stack), current_container), c)
        BY <2>3, <2>4, HeadersPushed
      <3>3. Headers' = HeadersOn(Append(stack, current_container), Len(stack) + 1, c)
        BY <1>3, <2>9, <3>1, Zenon DEF Headers
      <3> QED BY <2>2, <2>3, <3>1, <3>2, <3>3, Zenon DEF Headers
    <2> HIDE DEF c, header
    <2>11. /\ ContentHeld'
           /\ TextSoFar' = <<>> /\ Root' = <<>>
           /\ Open' = Append(Open, D!Frame(kind))
      <3>1. PICK headers : headers = Headers
        OBVIOUS
      <3>2. /\ headers \in Seq(Nat)
            /\ Headers' = Append(headers, c) /\ Len(stack') = Len(Append(headers, c))
            /\ Holds(spool, headers, Len(spool), "value")
            /\ Rooted(headers, Len(spool))
            /\ Open = Frames(spool, headers, Len(spool))
            /\ expect' = first
        BY <1>3, <2>3, <2>10, <3>1
      <3>3. PICK end : end = Len(spool)
        OBVIOUS
      <3>4. PICK s : s = spool
        OBVIOUS
      <3>5. /\ ContentHeld'
            /\ TextSoFar' = <<>> /\ Root' = <<>>
            /\ Open' = Append(Frames(s, headers, end), D!Frame(kind))
        <4>1. /\ s \in Seq(Nat) /\ end \in Nat /\ Holds(s, headers, end, "value")
              /\ Rooted(headers, end)
              /\ ContainerBehind(s, spool', end, type, Len(spool')) /\ Behind(end, c)
          BY <2>3, <2>4, <2>6, <2>8, <3>2, <3>3, <3>4
        <4> QED BY <2>1, <2>4, <2>7, <3>2, <4>1, ContainerLands
      <3> QED BY <3>2, <3>3, <3>4, <3>5, Zenon
    <2>12. DInv'
      <3>1. expect' # "none"
        BY <1>3, <2>4
      <3> QED BY <2>11, <3>1 DEF DInv, Held
    <2>13. Answer' = "ok"
      BY <2>1 DEF Answer
    <2>14. D!Begin(kind)
      <3>1. TextSoFar = <<>>
        BY <2>1 DEF D!ValueExpected
      <3> QED BY <2>1, <2>3, <2>11, <2>13, <3>1, Zenon DEF D!Begin
    <2> QED BY <2>12, <2>13, <2>14, Zenon DEF D!Next
  <1> QED BY <1>1, <1>2, <1>3 DEF BeginContainer

\* A scalar is added in one call.
LEMMA ScalarCells ==
    ASSUME NEW payload \in Seq(Nat), NEW cells,
           cells = <<SCALAR, Len(payload)>> \o payload
    PROVE  /\ cells \in Seq(Nat) /\ Len(cells) = 2 + Len(payload)
           /\ cells[1] = SCALAR /\ cells[2] = Len(payload)
           /\ \A i \in 1..Len(payload) : cells[2 + i] = payload[i]
  <1> DEFINE head == <<SCALAR, Len(payload)>>
  <1>1. head \in Seq(Nat) /\ Len(head) = 2 /\ head[1] = SCALAR /\ head[2] = Len(payload)
    BY Layout
  <1>2. cells = head \o payload
    OBVIOUS
  <1> HIDE DEF head
  <1>3. cells \in Seq(Nat) /\ Len(cells) = 2 + Len(payload)
    BY <1>1, <1>2
  <1>4. cells[1] = head[1] /\ cells[2] = head[2]
    BY <1>1, <1>2
  <1>5. ASSUME NEW i \in 1..Len(payload) PROVE cells[2 + i] = payload[i]
    <2>1. 2 + i \in 1..(2 + Len(payload)) /\ 2 + i > 2 /\ (2 + i) - 2 = i
      OBVIOUS
    <2> QED BY <1>1, <1>2, <2>1
  <1> QED BY <1>1, <1>3, <1>4, <1>5

LEMMA ScalarAdded ==
    ASSUME spool \in Seq(Nat), NEW payload \in Seq(Nat), payload # <<>>,
           spool' = spool \o (<<SCALAR, Len(payload)>> \o payload)
    PROVE  /\ ValueBehind(spool, spool', Len(spool), Len(spool'))
           /\ Values(spool')[Len(spool)] = [scalar |-> payload]
           /\ Len(spool') = Len(spool) + (2 + Len(payload))
  <1>1. PICK cells : cells = <<SCALAR, Len(payload)>> \o payload
    OBVIOUS
  <1>2. /\ cells \in Seq(Nat) /\ Len(cells) = 2 + Len(payload)
        /\ cells[1] = SCALAR /\ cells[2] = Len(payload)
        /\ \A i \in 1..Len(payload) : cells[2 + i] = payload[i]
    BY <1>1, ScalarCells
  <1>3. /\ spool' \in Seq(Nat) /\ Len(spool') = Len(spool) + Len(cells)
        /\ Agree(spool, spool', 0, Len(spool))
        /\ \A i \in 1..Len(cells) : spool'[Len(spool) + i] = cells[i]
    BY <1>1, <1>2, SpoolGrows, Zenon
  <1>4. PICK s \in Seq(Nat) : s = spool'
    BY <1>3
  <1>5. PICK end \in Nat : end = Len(spool)
    OBVIOUS
  <1>6. PICK n \in Nat : n = Len(payload)
    OBVIOUS
  <1>7. /\ Len(s) = end + 2 + n
        /\ s[end + 1] = SCALAR /\ s[end + 2] = n
        /\ \A i \in 1..n : s[end + (2 + i)] = payload[i]
    <2>1. Len(s) = end + 2 + n
      BY <1>2, <1>3, <1>4, <1>5, <1>6
    <2>2. 1 \in 1..Len(cells) /\ 2 \in 1..Len(cells)
      BY <1>2
    <2>3. s[end + 1] = SCALAR /\ s[end + 2] = n
      BY <1>2, <1>3, <1>4, <1>5, <1>6, <2>2, Zenon
    <2>4. ASSUME NEW i \in 1..n PROVE s[end + (2 + i)] = payload[i]
      <3>1. 2 + i \in 1..Len(cells) /\ i \in 1..Len(payload)
        BY <1>2, <1>6
      <3> QED BY <1>2, <1>3, <1>4, <1>5, <3>1, Zenon
    <2> QED BY <2>1, <2>3, <2>4
  <1>8. Cell(s, end) = SCALAR /\ Cell(s, end + 1) = n
    <2>1. (end + 1) + 1 = end + 2
      OBVIOUS
    <2> QED BY <1>7, <2>1 DEF Cell
  <1>9. end + 2 <= Len(s) /\ EndOfValue(s, end) = Len(s)
    <2>1. end + 2 <= Len(s)
      BY <1>7
    <2>2. end \in ValueOffsets(s)
      BY <2>1, ValueOffset
    <2>3. EndOfValue(s, end) = end + 2 + n
      BY <1>8, <2>2, HeadFacts
    <2> QED BY <1>7, <2>1, <2>3
  <1>10. Values(s)[end] = [scalar |-> Slice(s, end + 2, n)]
    BY <1>8, <1>9, ScalarValue
  <1>11. Slice(s, end + 2, n) = payload
    <2>1. PICK p \in Nat : p = end + 2
      OBVIOUS
    <2>2. p + n <= Len(s)
      BY <1>7, <2>1
    <2>3. /\ Slice(s, p, n) \in Seq(Nat) /\ Len(Slice(s, p, n)) = n
          /\ \A i \in 1..n : Slice(s, p, n)[i] = s[p + i]
      BY <2>2, SliceFacts
    <2>4. \A i \in 1..n : s[p + i] = payload[i]
      <3>1. \A i \in 1..n : p + i = end + (2 + i)
        BY <2>1
      <3> QED BY <1>7, <3>1
    <2>5. Slice(s, p, n) = payload
      BY <1>6, <2>3, <2>4, SameElements
    <2> QED BY <2>1, <2>5
  <1>12. ValueBehind(spool, spool', Len(spool), Len(spool'))
    <2>1. ASSUME HashIsNumber PROVE WellSized(s, end)
      <3>1. n > 0 /\ end + 2 + n <= Len(s)
        BY <1>6, <1>7
      <3> QED BY <1>8, <2>1, <3>1, ScalarSized
    <2>2. Len(s) <= Len(s)
      OBVIOUS
    <2>3. Len(s) \in Nat
      OBVIOUS
    <2>4. ValueBehind(spool, s, end, Len(s))
      <3>1. Agree(spool, s, 0, end)
        BY <1>3, <1>4, <1>5, Zenon
      <3> QED BY <1>9, <2>1, <2>2, <3>1, Zenon DEF ValueBehind
    <2> QED BY <1>4, <1>5, <2>4, Zenon
  <1> QED BY <1>2, <1>3, <1>4, <1>5, <1>10, <1>11, <1>12

\* What is expected next is what the innermost container asks for.
LEMMA ExpectedIsIn ==
    ASSUME IInv', ~failed', expect' = expect_after_value'
    PROVE  expect' = ExpectIn(spool', current_container')
  <1>1. CASE expect' = "none"
    <2>1. current_container' = 0
      BY <1>1 DEF IInv, ContainersNested
    <2> QED BY <1>1, <2>1 DEF ExpectIn
  <1>2. CASE expect' # "none"
    BY <1>2 DEF IInv, ContainersNested
  <1> QED BY <1>1, <1>2

LEMMA PayloadsAre == Payloads \subseteq Seq(Nat) \ {<<>>}
  <1>1. ASSUME NEW type \in Nat PROVE <<type>> \in Seq(Nat) \ {<<>>}
    OBVIOUS
  <1>2. TYPE_STRING \in Nat /\ TYPE_BYTES \in Nat
    BY DEF TYPE_STRING, TYPE_BYTES
  <1>3. ASSUME NEW type \in {TYPE_STRING, TYPE_BYTES}, NEW text \in Texts
        PROVE  <<type>> \o text \in Seq(Nat) \ {<<>>}
    <2>1. <<type>> \in Seq(Nat) /\ Len(<<type>>) = 1 /\ text \in Seq(Nat)
      BY <1>1, <1>2, WriterAssumption
    <2>2. <<type>> \o text \in Seq(Nat) /\ Len(<<type>> \o text) > 0
      BY <2>1
    <2> QED BY <2>2
  <1>4. {<<type>> : type \in Constants} \subseteq Seq(Nat) \ {<<>>}
    BY <1>1, WriterAssumption
  <1>5. /\ {<<TYPE_STRING>> \o text : text \in Texts} \subseteq Seq(Nat) \ {<<>>}
        /\ {<<TYPE_BYTES>> \o text : text \in Texts} \subseteq Seq(Nat) \ {<<>>}
    BY <1>3
  <1>6. {decimal.payload : decimal \in Decimals} \subseteq Seq(Nat) \ {<<>>}
    BY WriterAssumption
  <1> QED BY <1>4, <1>5, <1>6 DEF Payloads

LEMMA PushScalarImplements ==
    ASSUME DInv, IInv', NEW payload \in Payloads, NEW pieces,
           Accepts(CheckExpectValue), PushScalar(Len(payload), payload, pieces)
    PROVE  DInv' /\ D!Next
  <1> DEFINE cells == <<SCALAR, Len(payload)>> \o payload
  <1>1. ~failed /\ expect = "value" /\ D!ValueExpected
    BY TreeTakes DEF Accepts, CheckExpectValue, OK
  <1>2. CASE PushFails(cells, 2 + pieces)
    <2>1. failed' = TRUE /\ ret' # OK
      BY <1>2 DEF PushFails, Fail, OK
    <2> QED BY <1>1, <2>1, FailImplements
  <1>3. CASE /\ HasRoom(Len(cells))
             /\ spool' = spool \o cells
             /\ expect' = expect_after_value
             /\ Succeed
             /\ UNCHANGED <<stack, current_container, expect_after_value>>
    <2>1. ~failed' /\ failed' = failed /\ ret' = OK
      BY <1>1, <1>3 DEF Succeed
    <2>2. Saved = Len(stack) /\ ContentEnd = Len(spool) /\ Taken = "value"
      BY <1>1 DEF Saved, ContentEnd, Taken
    <2>3. /\ spool \in Seq(Nat) /\ Headers \in Seq(Nat) /\ Len(Headers) = Len(stack)
          /\ Headers = <<>> <=> current_container = 0
          /\ Rooted(Headers, Len(spool))
          /\ Holds(spool, Headers, Len(spool), "value")
          /\ Open = Frames(spool, Headers, Len(spool))
          /\ Root = <<>>
      BY <1>1, <2>2, DocumentFacts
    <2>4. expect' = ExpectIn(spool', current_container') /\ expect' \in AfterValue
      <3>1. expect' = expect_after_value'
        BY <1>3
      <3>2. expect_after_value' \in AfterValue
        BY DEF IInv, TypeOK
      <3> QED BY <2>1, <3>1, <3>2, ExpectedIsIn
    <2>5. Saved' = Len(stack') /\ Headers' = Headers /\ Len(stack') = Len(Headers)
      <3>1. Saved' = Len(stack')
        BY <2>4 DEF AfterValue, Saved
      <3> QED BY <1>3, <2>2, <2>3, <3>1 DEF Headers
    <2>6. payload \in Seq(Nat) /\ payload # <<>>
      BY PayloadsAre
    <2>7. /\ ValueBehind(spool, spool', Len(spool), Len(spool'))
          /\ Values(spool')[Len(spool)] = [scalar |-> payload]
          /\ Len(spool') = Len(spool) + (2 + Len(payload))
      BY <1>3, <2>3, <2>6, ScalarAdded
    <2>8. Len(spool') <= MaxSpool
      <3>1. Len(cells) = 2 + Len(payload)
        BY <2>6, ScalarCells
      <3> QED BY <1>3, <2>7, <3>1 DEF HasRoom
    <2> HIDE DEF cells
    <2>9. /\ Held'
          /\ TextSoFar' = <<>>
          /\ D!Place([scalar |-> payload], Open)
      <3>1. PICK headers : headers = Headers
        OBVIOUS
      <3>2. PICK end : end = Len(spool)
        OBVIOUS
      <3>3. PICK s : s = spool
        OBVIOUS
      <3>4. /\ s \in Seq(Nat) /\ end \in Nat /\ headers \in Seq(Nat)
            /\ Headers' = headers /\ Len(stack') = Len(headers)
            /\ headers = <<>> <=> current_container' = 0
            /\ Holds(s, headers, end, "value")
            /\ Rooted(headers, end)
            /\ ValueBehind(s, spool', end, Len(spool'))
        BY <1>3, <2>3, <2>5, <2>7, <3>1, <3>2, <3>3
      <3>5. /\ Held'
            /\ TextSoFar' = <<>>
            /\ D!Place(Values(spool')[end], Frames(s, headers, end))
        BY <2>1, <2>3, <2>4, <2>8, <3>4, ValueLands
      <3> QED BY <2>3, <2>7, <3>1, <3>2, <3>3, <3>5, Zenon
    <2>10. DInv'
      BY <2>9 DEF DInv, Held
    <2>11. Answer' = "ok"
      BY <2>1 DEF Answer
    <2>12. D!AddScalar(payload)
      <3>1. TextSoFar = <<>>
        BY <1>1 DEF D!ValueExpected
      <3> QED BY <1>1, <2>1, <2>9, <2>11, <3>1, Zenon DEF D!AddScalar
    <2> QED BY <2>10, <2>11, <2>12, Zenon DEF D!Next
  <1> QED BY <1>2, <1>3 DEF PushScalar

\* A key is added in one call.
LEMMA KeyCells ==
    ASSUME NEW key \in Seq(Nat), NEW cells, cells = <<Len(key)>> \o key
    PROVE  /\ cells \in Seq(Nat) /\ Len(cells) = 1 + Len(key)
           /\ cells[1] = Len(key)
           /\ \A i \in 1..Len(key) : cells[1 + i] = key[i]
  <1> DEFINE head == <<Len(key)>>
  <1>1. head \in Seq(Nat) /\ Len(head) = 1 /\ head[1] = Len(key)
    OBVIOUS
  <1>2. cells = head \o key
    OBVIOUS
  <1> HIDE DEF head
  <1>3. cells \in Seq(Nat) /\ Len(cells) = 1 + Len(key)
    BY <1>1, <1>2
  <1>4. cells[1] = head[1]
    BY <1>1, <1>2
  <1>5. ASSUME NEW i \in 1..Len(key) PROVE cells[1 + i] = key[i]
    <2>1. 1 + i \in 1..(1 + Len(key)) /\ 1 + i > 1 /\ (1 + i) - 1 = i
      OBVIOUS
    <2> QED BY <1>1, <1>2, <2>1
  <1> QED BY <1>1, <1>3, <1>4, <1>5

LEMMA KeyAdded ==
    ASSUME spool \in Seq(Nat), NEW key \in Seq(Nat),
           spool' = spool \o (<<Len(key)>> \o key)
    PROVE  /\ KeyBehind(spool, spool', Len(spool), Len(spool'))
           /\ KeyOf(spool', Len(spool)) = key
           /\ Len(spool') = Len(spool) + (1 + Len(key))
  <1>1. PICK cells : cells = <<Len(key)>> \o key
    OBVIOUS
  <1>2. /\ cells \in Seq(Nat) /\ Len(cells) = 1 + Len(key)
        /\ cells[1] = Len(key)
        /\ \A i \in 1..Len(key) : cells[1 + i] = key[i]
    BY <1>1, KeyCells
  <1>3. /\ spool' \in Seq(Nat) /\ Len(spool') = Len(spool) + Len(cells)
        /\ Agree(spool, spool', 0, Len(spool))
        /\ \A i \in 1..Len(cells) : spool'[Len(spool) + i] = cells[i]
    BY <1>1, <1>2, SpoolGrows, Zenon
  <1>4. PICK s \in Seq(Nat) : s = spool'
    BY <1>3
  <1>5. PICK end \in Nat : end = Len(spool)
    OBVIOUS
  <1>6. PICK n \in Nat : n = Len(key)
    OBVIOUS
  <1>7. /\ Len(s) = end + 1 + n
        /\ Cell(s, end) = n
        /\ \A i \in 1..n : s[end + (1 + i)] = key[i]
    <2>1. Len(s) = end + 1 + n
      BY <1>2, <1>3, <1>4, <1>5, <1>6
    <2>2. 1 \in 1..Len(cells)
      BY <1>2
    <2>3. s[end + 1] = n
      BY <1>2, <1>3, <1>4, <1>5, <1>6, <2>2, Zenon
    <2>4. ASSUME NEW i \in 1..n PROVE s[end + (1 + i)] = key[i]
      <3>1. 1 + i \in 1..Len(cells) /\ i \in 1..Len(key)
        BY <1>2, <1>6
      <3> QED BY <1>2, <1>3, <1>4, <1>5, <3>1, Zenon
    <2> QED BY <2>1, <2>3, <2>4 DEF Cell
  <1>8. KeyOf(s, end) = key
    <2>1. PICK p \in Nat : p = end + 1
      OBVIOUS
    <2>2. p + n <= Len(s)
      BY <1>7, <2>1
    <2>3. /\ Slice(s, p, n) \in Seq(Nat) /\ Len(Slice(s, p, n)) = n
          /\ \A i \in 1..n : Slice(s, p, n)[i] = s[p + i]
      BY <2>2, SliceFacts
    <2>4. \A i \in 1..n : s[p + i] = key[i]
      <3>1. \A i \in 1..n : p + i = end + (1 + i)
        BY <2>1
      <3> QED BY <1>7, <3>1
    <2>5. Slice(s, p, n) = key
      BY <1>6, <2>3, <2>4, SameElements
    <2> QED BY <1>7, <2>1, <2>5, Layout DEF KeyOf, KeySize
  <1>9. end < Len(s) /\ ValueOf(s, end) = Len(s)
    BY <1>7, Layout DEF ValueOf, KeySize
  <1>10. KeyBehind(spool, spool', Len(spool), Len(spool'))
    BY <1>3, <1>4, <1>5, <1>9 DEF KeyBehind
  <1> QED BY <1>2, <1>3, <1>4, <1>5, <1>8, <1>10

\* A key is expected, or being added, in an object.
LEMMA KeyFacts ==
    ASSUME DInv, ~failed, expect \in {"key", "more_key"}
    PROVE  /\ Headers # <<>> /\ Cell(spool, Last(Headers) - 1) = OBJECT
           /\ Taken = "key"
  <1>1. expect_after_value = "key" /\ expect # "none"
    BY DEF DInv, Held, IInv, ContainersNested
  <1>2. /\ Headers = <<>> <=> current_container = 0
        /\ Headers # <<>> => Last(Headers) = current_container
        /\ expect_after_value = ExpectIn(spool, current_container)
    BY <1>1, DocumentFacts
  <1>3. current_container # 0 /\ Cell(spool, current_container - 1) = OBJECT
    BY <1>1, <1>2, Layout DEF ExpectIn
  <1> QED BY <1>2, <1>3 DEF Taken

LEMMA AddKeyImplements ==
    ASSUME DInv, IInv', NEW key \in Texts, AddKey(key)
    PROVE  DInv' /\ D!Next
  <1> DEFINE cells == <<Len(key)>> \o key
  <1>1. CASE Refuse(CheckExpectKey)
    BY <1>1, RefuseImplements
  <1>2. CASE Return("invalid_utf8")
    <2>1. UNCHANGED <<buffers, expects, failed>> /\ ret' # OK
      BY <1>2 DEF Return, OK
    <2> QED BY <2>1, RefusedImplements
  <1>3. CASE Accepts(CheckExpectKey) /\ PushFails(cells, 1)
    <2>1. ~failed /\ failed' = TRUE /\ ret' # OK
      BY <1>3 DEF Accepts, PushFails, Fail, OK
    <2> QED BY <2>1, FailImplements
  <1>4. CASE /\ Accepts(CheckExpectKey)
             /\ HasRoom(Len(cells))
             /\ spool' = spool \o cells
             /\ expect' = "value"
             /\ Succeed
             /\ UNCHANGED <<stack, current_container, expect_after_value>>
    <2>1. /\ ~failed /\ expect = "key" /\ ~failed' /\ failed' = failed
          /\ ret' = OK /\ D!KeyExpected
      BY <1>4, TreeTakes DEF Accepts, CheckExpectKey, Succeed, OK
    <2>2. Saved = Len(stack) /\ ContentEnd = Len(spool)
      BY <2>1 DEF Saved, ContentEnd
    <2>3. /\ Headers # <<>> /\ Cell(spool, Last(Headers) - 1) = OBJECT
          /\ Taken = "key"
      BY <2>1, KeyFacts
    <2>4. /\ spool \in Seq(Nat) /\ Headers \in Seq(Nat) /\ Len(Headers) = Len(stack)
          /\ Holds(spool, Headers, Len(spool), "key")
          /\ Rooted(Headers, Len(spool))
          /\ Open = Frames(spool, Headers, Len(spool))
          /\ Root = <<>>
      BY <2>1, <2>2, <2>3, DocumentFacts
    <2>5. Saved' = Len(stack') /\ Headers' = Headers /\ Len(stack') = Len(Headers)
      <3>1. Saved' = Len(stack')
        BY <1>4 DEF Saved
      <3> QED BY <1>4, <2>2, <2>4, <3>1 DEF Headers
    <2>6. key \in Seq(Nat)
      BY WriterAssumption
    <2>7. /\ KeyBehind(spool, spool', Len(spool), Len(spool'))
          /\ KeyOf(spool', Len(spool)) = key
          /\ Len(spool') = Len(spool) + (1 + Len(key))
      BY <1>4, <2>4, <2>6, KeyAdded
    <2>8. Len(spool') <= MaxSpool
      <3>1. Len(cells) = 1 + Len(key)
        BY <2>6
      <3> QED BY <1>4, <2>7, <3>1 DEF HasRoom
    <2> HIDE DEF cells
    <2>9. /\ ContentHeld'
          /\ TextSoFar' = <<>> /\ Root' = <<>>
          /\ Open' = Append(D!Front(Open), D!WithKey(D!Last(Open), key))
      <3>1. PICK headers : headers = Headers
        OBVIOUS
      <3>2. PICK end : end = Len(spool)
        OBVIOUS
      <3>3. PICK s : s = spool
        OBVIOUS
      <3>4. /\ s \in Seq(Nat) /\ end \in Nat /\ headers \in Seq(Nat)
            /\ Headers' = headers /\ Len(stack') = Len(headers)
            /\ headers # <<>> /\ Cell(s, Last(headers) - 1) = OBJECT
            /\ Holds(s, headers, end, "key")
            /\ Rooted(headers, end)
            /\ KeyBehind(s, spool', end, Len(spool'))
        BY <2>3, <2>4, <2>5, <2>7, <3>1, <3>2, <3>3
      <3>5. /\ ContentHeld'
            /\ TextSoFar' = <<>> /\ Root' = <<>>
            /\ Open' = Append(D!Front(Frames(s, headers, end)),
                              D!WithKey(D!Last(Frames(s, headers, end)),
                                        KeyOf(spool', end)))
        BY <1>4, <2>1, <2>8, <3>4, KeyLands
      <3> QED BY <2>4, <2>7, <3>1, <3>2, <3>3, <3>5, Zenon
    <2>10. DInv'
      <3>1. expect' # "none"
        BY <1>4
      <3> QED BY <2>9, <3>1 DEF DInv, Held
    <2>11. Answer' = "ok"
      BY <2>1 DEF Answer
    <2>12. D!SetKey(key)
      <3>1. TextSoFar = <<>>
        BY <2>1 DEF D!KeyExpected
      <3> QED BY <2>1, <2>4, <2>9, <2>11, <3>1, Zenon DEF D!SetKey
    <2> QED BY <2>10, <2>11, <2>12, Zenon DEF D!Next
  <1> QED BY <1>1, <1>2, <1>3, <1>4 DEF AddKey

\* A value or a key is begun in parts: it lies behind all content.
LEMMA HeadersKept ==
    ASSUME stack \in Seq(Nat), stack' \in Seq(Nat), Saved \in 0..Len(stack),
           Saved' = Saved, current_container' = current_container,
           \A i \in 1..Saved : stack'[i] = stack[i]
    PROVE  Headers' = Headers
  <1>1. PICK st : st = stack'
    OBVIOUS
  <1>2. PICK n : n = Saved
    OBVIOUS
  <1>3. PICK c : c = current_container
    OBVIOUS
  <1>4. HeadersOn(st, n, c) = HeadersOn(stack, n, c)
    <2>1. st \in Seq(Nat) /\ n \in Nat /\ \A i \in 1..n : st[i] = stack[i]
      BY <1>1, <1>2
    <2> QED BY <2>1, HeadersSame
  <1> QED BY <1>1, <1>2, <1>3, <1>4, Zenon DEF Headers

LEMMA TextBegins ==
    ASSUME DInv, IInv', ~failed, failed' = failed, ret' = OK,
           expect # "none", expect' # "none",
           Agree(spool, spool', 0, ContentEnd), Headers' = Headers,
           ContentEnd' = ContentEnd, Taken' = Taken, Saved' \in 0..Len(stack'),
           Len(spool') <= MaxSpool,
           expect' \in {"more_string", "more_bytes"} =>
             /\ ContentEnd' + 1 = Last(stack') /\ ContentEnd' + 2 < Len(spool')
             /\ Cell(spool', ContentEnd') = SCALAR,
           NEW use, NEW chars,
           IF use = "key" THEN D!KeyExpected ELSE D!ValueExpected,
           PartialText' = <<[use |-> use, chars |-> chars]>>
    PROVE  DInv' /\ D!BeginText(use, chars) /\ Answer' = "ok"
  <1>1. /\ Holds(spool', Headers', ContentEnd', Taken')
        /\ Rooted(Headers', ContentEnd')
        /\ Root' = Root /\ Open' = Open
    BY TextKept
  <1>2. DInv'
    BY <1>1 DEF DInv, Held, ContentHeld
  <1>3. TextSoFar' = <<[use |-> use, chars |-> chars]>>
    BY Zenon DEF TextSoFar
  <1>4. Answer' = "ok"
    BY DEF Answer
  <1>5. D!BeginText(use, chars)
    BY <1>1, <1>3, <1>4, Zenon DEF D!BeginText
  <1> QED BY <1>2, <1>4, <1>5

LEMMA AppendIsAdded ==
    ASSUME NEW s \in Seq(Nat), NEW e \in Nat
    PROVE  /\ Append(s, e) = s \o <<e>>
           /\ <<e>> \in Seq(Nat) /\ Len(<<e>>) = 1
  OBVIOUS

LEMMA EmptySlice == ASSUME NEW s \in Seq(Nat) PROVE SubSeq(s, Len(s) + 1, Len(s)) = <<>>
  OBVIOUS

LEMMA BeginKeyImplements ==
    ASSUME DInv, IInv', BeginKey
    PROVE  DInv' /\ D!Next
  <1>1. CASE Refuse(CheckExpectKey)
    BY <1>1, RefuseImplements
  <1>2. CASE Accepts(CheckExpectKey) /\ Fail("system")
    <2>1. ~failed /\ failed' = TRUE /\ ret' # OK
      BY <1>2 DEF Accepts, Fail, OK
    <2> QED BY <2>1, FailImplements
  <1>3. CASE /\ Accepts(CheckExpectKey)
             /\ HasRoom(SizeOfSize)
             /\ stack' = Append(stack, Len(spool))
             /\ spool' = Append(spool, 0)
             /\ expect' = "more_key"
             /\ Succeed
             /\ UNCHANGED <<current_container, expect_after_value>>
    <2>1. /\ ~failed /\ expect = "key" /\ failed' = failed /\ ret' = OK
          /\ D!KeyExpected
      BY <1>3, TreeTakes DEF Accepts, CheckExpectKey, Succeed, OK
    <2>2. Saved = Len(stack) /\ ContentEnd = Len(spool) /\ Taken = "key"
      BY <2>1 DEF Saved, ContentEnd, Taken
    <2>3. spool \in Seq(Nat) /\ stack \in Seq(Nat)
      BY DEF DInv, Held, IInv, TypeOK
    <2>4. /\ spool' \in Seq(Nat) /\ Len(spool') = Len(spool) + 1
          /\ Agree(spool, spool', 0, Len(spool))
      <3>1. <<0>> \in Seq(Nat) /\ Len(<<0>>) = 1 /\ spool' = spool \o <<0>>
        BY <1>3, <2>3, AppendIsAdded
      <3> QED BY <2>3, <3>1, SpoolGrows
    <2>5. /\ stack' \in Seq(Nat) /\ Len(stack') = Len(stack) + 1
          /\ Last(stack') = Len(spool)
          /\ \A i \in 1..Len(stack) : stack'[i] = stack[i]
      <3>1. Len(spool) \in Nat
        BY <2>3
      <3>2. \A i \in 1..Len(stack) : stack'[i] = stack[i]
        BY <1>3, <2>3
      <3> QED BY <1>3, <2>3, <3>1, <3>2, AppendFacts
    <2>6. Saved' = Len(stack) /\ ContentEnd' = Len(spool) /\ Taken' = "key"
      <3>1. Saved' = Len(stack') - 1 /\ ContentEnd' = Last(stack') /\ Taken' = "key"
        BY <1>3 DEF Saved, ContentEnd, Taken
      <3>2. Len(stack) \in Nat
        BY <2>3
      <3> QED BY <2>5, <3>1, <3>2
    <2>7. Saved \in 0..Len(stack) /\ Saved' \in 0..Len(stack')
      BY <2>2, <2>3, <2>5, <2>6
    <2>8. Headers' = Headers
      BY <1>3, <2>2, <2>3, <2>5, <2>6, <2>7, HeadersKept
    <2>9. Len(spool') <= MaxSpool
      BY <1>3, <2>4, Layout DEF HasRoom
    <2>10. PartialText' = <<[use |-> "key", chars |-> <<>>]>>
      <3>1. PartialText' =
              <<[use |-> "key",
                 chars |-> SubSeq(spool', Last(stack') + 1 + 1, Len(spool'))]>>
        BY <1>3, Layout DEF PartialText
      <3>2. SubSeq(spool', Len(spool') + 1, Len(spool')) = <<>>
        BY <2>4, EmptySlice
      <3>3. Last(stack') + 1 + 1 = Len(spool') + 1
        BY <2>3, <2>4, <2>5
      <3> QED BY <3>1, <3>2, <3>3
    <2>11. DInv' /\ D!BeginText("key", <<>>) /\ Answer' = "ok"
      BY <1>3, <2>1, <2>2, <2>4, <2>6, <2>7, <2>8, <2>9, <2>10, TextBegins
    <2> QED BY <2>11, Zenon DEF D!Next
  <1> QED BY <1>1, <1>2, <1>3 DEF BeginKey

LEMMA LastSlice ==
    ASSUME NEW s \in Seq(Nat), s # <<>>
    PROVE  SubSeq(s, Len(s), Len(s)) = <<s[Len(s)]>>
  <1>1. PICK n \in Nat : n = Len(s) /\ n \in 1..n
    OBVIOUS
  <1>2. /\ SubSeq(s, n, n) \in Seq(Nat) /\ Len(SubSeq(s, n, n)) = 1
        /\ SubSeq(s, n, n)[1] = s[n]
    BY <1>1
  <1>3. <<s[n]>> \in Seq(Nat) /\ Len(<<s[n]>>) = 1 /\ <<s[n]>>[1] = s[n]
    BY <1>1
  <1>4. PICK a \in Seq(Nat) : a = SubSeq(s, n, n)
    BY <1>2
  <1>5. PICK b \in Seq(Nat) : b = <<s[n]>>
    BY <1>3
  <1>6. Len(a) = 1 /\ Len(b) = 1 /\ \A i \in 1..1 : a[i] = b[i]
    BY <1>2, <1>3, <1>4, <1>5
  <1>7. a = b
    BY <1>6, SameElements
  <1> QED BY <1>1, <1>4, <1>5, <1>7

LEMMA BeginScalarImplements ==
    ASSUME DInv, IInv', NEW type \in {TYPE_STRING, TYPE_BYTES},
           NEW more \in {"more_string", "more_bytes"}, BeginScalar(type, more)
    PROVE  DInv' /\ D!Next
  <1> DEFINE cells == <<SCALAR, 0, type>>
  <1>1. CASE Refuse(CheckExpectValue)
    BY <1>1, RefuseImplements
  <1>2. CASE Accepts(CheckExpectValue) /\ Fail("system")
    <2>1. ~failed /\ failed' = TRUE /\ ret' # OK
      BY <1>2 DEF Accepts, Fail, OK
    <2> QED BY <2>1, FailImplements
  <1>3. CASE /\ Accepts(CheckExpectValue)
             /\ HasRoom(Len(cells))
             /\ spool' = spool \o cells
             /\ stack' = Append(stack, Len(spool) + TypeByteSize)
             /\ expect' = more
             /\ Succeed
             /\ UNCHANGED <<current_container, expect_after_value>>
    <2>1. /\ ~failed /\ expect = "value" /\ failed' = failed /\ ret' = OK
          /\ D!ValueExpected
      BY <1>3, TreeTakes DEF Accepts, CheckExpectValue, Succeed, OK
    <2>2. Saved = Len(stack) /\ ContentEnd = Len(spool) /\ Taken = "value"
      BY <2>1 DEF Saved, ContentEnd, Taken
    <2>3. spool \in Seq(Nat) /\ stack \in Seq(Nat) /\ type \in Nat
      BY DEF DInv, Held, IInv, TypeOK, TYPE_STRING, TYPE_BYTES
    <2>4. /\ cells \in Seq(Nat) /\ Len(cells) = 3
          /\ cells[1] = SCALAR /\ cells[3] = type
      BY <2>3, Layout
    <2> HIDE DEF cells
    <2>5. /\ spool' \in Seq(Nat) /\ Len(spool') = Len(spool) + 3
          /\ Agree(spool, spool', 0, Len(spool))
          /\ spool'[Len(spool) + 1] = SCALAR /\ spool'[Len(spool) + 3] = type
      <3>1. /\ spool' \in Seq(Nat) /\ Len(spool') = Len(spool) + Len(cells)
            /\ Agree(spool, spool', 0, Len(spool))
            /\ \A i \in 1..Len(cells) : spool'[Len(spool) + i] = cells[i]
        BY <1>3, <2>3, <2>4, SpoolGrows, Zenon
      <3>2. 1 \in 1..3 /\ 3 \in 1..3
        OBVIOUS
      <3> QED BY <2>4, <3>1, <3>2, Zenon
    <2>6. PICK place \in Nat : place = Len(spool) + 1
      BY <2>3
    <2>7. /\ stack' \in Seq(Nat) /\ Len(stack') = Len(stack) + 1
          /\ Last(stack') = place
          /\ \A i \in 1..Len(stack) : stack'[i] = stack[i]
      <3>1. stack' = Append(stack, place)
        BY <1>3, <2>6, Layout
      <3>2. \A i \in 1..Len(stack) : stack'[i] = stack[i]
        BY <2>3, <3>1
      <3> QED BY <2>3, <3>1, <3>2, AppendFacts
    <2>8. Saved' = Len(stack) /\ ContentEnd' = Len(spool) /\ Taken' = "value"
      <3>1. Saved' = Len(stack') - 1 /\ ContentEnd' = Last(stack') - 1 /\ Taken' = "value"
        BY <1>3, Layout DEF Saved, ContentEnd, Taken
      <3>2. Len(stack) \in Nat /\ Len(spool) \in Nat
        BY <2>3
      <3> QED BY <2>6, <2>7, <3>1, <3>2
    <2>9. Saved \in 0..Len(stack) /\ Saved' \in 0..Len(stack')
      BY <2>2, <2>3, <2>7, <2>8
    <2>10. Headers' = Headers
      BY <1>3, <2>2, <2>3, <2>7, <2>8, <2>9, HeadersKept
    <2>11. Len(spool') <= MaxSpool
      BY <1>3, <2>4, <2>5 DEF HasRoom
    <2>12. PartialText' = <<[use |-> "scalar", chars |-> <<type>>]>>
      <3>1. PartialText' =
              <<[use |-> "scalar",
                 chars |-> SubSeq(spool', Last(stack') + 1 + 1, Len(spool'))]>>
        BY <1>3, Layout DEF PartialText
      <3>2. Last(stack') + 1 + 1 = Len(spool') /\ Len(spool') = Len(spool) + 3
            /\ spool' # <<>>
        BY <2>3, <2>5, <2>6, <2>7
      <3>3. SubSeq(spool', Len(spool'), Len(spool')) = <<spool'[Len(spool')]>>
        BY <2>5, <3>2, LastSlice
      <3> QED BY <2>5, <3>1, <3>2, <3>3
    <2>13. /\ ContentEnd' + 1 = Last(stack') /\ ContentEnd' + 2 < Len(spool')
           /\ Cell(spool', ContentEnd') = SCALAR
      BY <2>3, <2>5, <2>6, <2>7, <2>8 DEF Cell
    <2>14. DInv' /\ D!BeginText("scalar", <<type>>) /\ Answer' = "ok"
      <3>1. expect # "none" /\ expect' # "none"
        BY <1>3, <2>1
      <3>2. /\ Agree(spool, spool', 0, ContentEnd)
            /\ ContentEnd' = ContentEnd /\ Taken' = Taken
        BY <2>2, <2>5, <2>8
      <3>3. PICK chars : chars = <<type>>
        OBVIOUS
      <3>4. PICK use : use = "scalar"
        OBVIOUS
      <3>5. IF use = "key" THEN D!KeyExpected ELSE D!ValueExpected
        BY <2>1, <3>4
      <3>6. PartialText' = <<[use |-> use, chars |-> chars]>>
        BY <2>12, <3>3, <3>4
      <3>7. DInv' /\ D!BeginText(use, chars) /\ Answer' = "ok"
        BY <2>1, <2>9, <2>10, <2>11, <2>13, <3>1, <3>2, <3>5, <3>6, TextBegins
      <3> QED BY <3>3, <3>4, <3>7
    <2> QED BY <2>14, Zenon DEF D!Next
  <1> QED BY <1>1, <1>2, <1>3 DEF BeginScalar, PushFails

LEMMA BeginDecimalImplements ==
    ASSUME DInv, IInv', BeginDecimalFromString
    PROVE  DInv' /\ D!Next
  <1>1. CASE Refuse(CheckExpectValue)
    BY <1>1, RefuseImplements
  <1>2. CASE Accepts(CheckExpectValue) /\ Fail("system")
    <2>1. ~failed /\ failed' = TRUE /\ ret' # OK
      BY <1>2 DEF Accepts, Fail, OK
    <2> QED BY <2>1, FailImplements
  <1>3. CASE /\ Accepts(CheckExpectValue)
             /\ HasRoom(SizeOfSize)
             /\ spool' = Append(spool, Len(stack))
             /\ expect' = "more_decimal_string"
             /\ Succeed
             /\ UNCHANGED <<stack, current_container, expect_after_value>>
    <2>1. /\ ~failed /\ expect = "value" /\ failed' = failed /\ ret' = OK
          /\ D!ValueExpected
      BY <1>3, TreeTakes DEF Accepts, CheckExpectValue, Succeed, OK
    <2>2. Saved = Len(stack) /\ ContentEnd = Len(spool) /\ Taken = "value"
      BY <2>1 DEF Saved, ContentEnd, Taken
    <2>3. spool \in Seq(Nat) /\ stack \in Seq(Nat)
      BY DEF DInv, Held, IInv, TypeOK
    <2>4. PICK n \in Nat : n = Len(stack)
      BY <2>3
    <2>5. /\ spool' \in Seq(Nat) /\ Len(spool') = Len(spool) + 1
          /\ Agree(spool, spool', 0, Len(spool))
          /\ Last(spool') = n
      <3>1. spool' = Append(spool, n)
        BY <1>3, <2>4
      <3>2. <<n>> \in Seq(Nat) /\ Len(<<n>>) = 1 /\ spool' = spool \o <<n>>
        BY <2>3, <3>1, AppendIsAdded
      <3>3. /\ spool' \in Seq(Nat) /\ Len(spool') = Len(spool) + 1
            /\ Agree(spool, spool', 0, Len(spool))
        BY <2>3, <3>2, SpoolGrows
      <3> QED BY <2>3, <3>1, <3>3, AppendFacts
    <2>6. Saved' = Len(stack) /\ ContentEnd' = Len(spool) /\ Taken' = "value"
      <3>1. /\ Saved' = Last(spool') /\ ContentEnd' = Len(spool') - 1
            /\ Taken' = "value"
        BY <1>3, Layout DEF Saved, ContentEnd, Taken
      <3>2. Len(spool) \in Nat
        BY <2>3
      <3> QED BY <2>4, <2>5, <3>1, <3>2
    <2>7. Saved \in 0..Len(stack) /\ Saved' \in 0..Len(stack')
      BY <1>3, <2>2, <2>3, <2>6
    <2>8. Headers' = Headers
      BY <1>3, <2>2, <2>6 DEF Headers
    <2>9. Len(spool') <= MaxSpool
      BY <1>3, <2>5, Layout DEF HasRoom
    <2>10. PartialText' = <<[use |-> "decimal", chars |-> <<>>]>>
      <3>1. PartialText' =
              <<[use |-> "decimal",
                 chars |-> SubSeq(stack', Last(spool') + 1, Len(stack'))]>>
        BY <1>3 DEF PartialText
      <3>2. stack' = stack /\ Last(spool') = Len(stack)
        BY <1>3, <2>4, <2>5
      <3>3. SubSeq(stack, Len(stack) + 1, Len(stack)) = <<>>
        BY <2>3, EmptySlice
      <3> QED BY <3>1, <3>2, <3>3
    <2>11. DInv' /\ D!BeginText("decimal", <<>>) /\ Answer' = "ok"
      BY <1>3, <2>1, <2>2, <2>5, <2>6, <2>7, <2>8, <2>9, <2>10, TextBegins
    <2> QED BY <2>11, Zenon DEF D!Next
  <1> QED BY <1>1, <1>2, <1>3 DEF BeginDecimalFromString

\* More of a text is added behind what is there.
LEMMA StartIs ==
    ASSUME NEW s \in Seq(Nat), NEW n \in Nat, n <= Len(s), NEW s2, s2 = SubSeq(s, 1, n)
    PROVE  s2 \in Seq(Nat) /\ Len(s2) = n /\ \A i \in 1..n : s2[i] = s[i]
  OBVIOUS

LEMMA TextGrows ==
    ASSUME NEW s \in Seq(Nat), NEW t \in Seq(Nat), NEW s2, Added(s, t, s2),
           NEW lo \in Nat, lo <= Len(s)
    PROVE  D!IsPrefix(SubSeq(s, lo + 1, Len(s)), SubSeq(s2, lo + 1, Len(s2)))
  <1>1. PICK m \in Nat : m = Len(s)
    OBVIOUS
  <1>2. PICK n \in Nat : n = Len(s2)
    BY AddedCells DEF Grown
  <1>3. /\ s2 \in Seq(Nat) /\ m <= n
        /\ \A i \in 1..m : s2[i] = s[i]
    <2>1. Grown(s, t, s2)
      BY AddedCells
    <2>2. s2 \in Seq(Nat) /\ Len(s2) = Len(s) + Len(t)
      BY <2>1 DEF Grown
    <2>3. \A i \in 1..Len(s) : s2[i] = s[i]
      BY DEF Added
    <2> QED BY <1>1, <1>2, <2>2, <2>3
  <1>4. PICK a : a = SubSeq(s, lo + 1, m)
    OBVIOUS
  <1>5. PICK b : b = SubSeq(s2, lo + 1, n)
    OBVIOUS
  <1>6. PICK k \in Nat : m = lo + k
    <2>1. m - lo \in Nat /\ m = lo + (m - lo)
      BY <1>1
    <2> QED BY <2>1
  <1>7. PICK l \in Nat : n = lo + l
    <2>1. n - lo \in Nat /\ n = lo + (n - lo)
      BY <1>1, <1>3
    <2> QED BY <2>1
  <1>8. a \in Seq(Nat) /\ Len(a) = k /\ \A i \in 1..k : a[i] = s[lo + i]
    <2>1. Slice(s, lo, k) = a
      BY <1>4, <1>6 DEF Slice
    <2>2. lo + k <= Len(s)
      BY <1>1, <1>6
    <2>3. /\ Slice(s, lo, k) \in Seq(Nat) /\ Len(Slice(s, lo, k)) = k
          /\ \A i \in 1..k : Slice(s, lo, k)[i] = s[lo + i]
      BY <2>2, SliceFacts
    <2> QED BY <2>1, <2>3, Zenon
  <1>9. b \in Seq(Nat) /\ Len(b) = l /\ \A i \in 1..l : b[i] = s2[lo + i]
    <2>1. Slice(s2, lo, l) = b
      BY <1>5, <1>7 DEF Slice
    <2>2. lo + l <= Len(s2)
      BY <1>2, <1>7
    <2>3. /\ Slice(s2, lo, l) \in Seq(Nat) /\ Len(Slice(s2, lo, l)) = l
          /\ \A i \in 1..l : Slice(s2, lo, l)[i] = s2[lo + i]
      BY <1>3, <2>2, SliceFacts
    <2> QED BY <2>1, <2>3, Zenon
  <1>10. k <= l
    BY <1>3, <1>6, <1>7
  <1>11. ASSUME NEW i \in 1..k PROVE a[i] = b[i]
    <2>1. i \in 1..l /\ lo + i \in 1..m
      BY <1>6, <1>10
    <2> QED BY <1>3, <1>8, <1>9, <2>1
  <1>12. SubSeq(a, 1, k) = SubSeq(b, 1, k)
    <2>1. PICK a2 : a2 = SubSeq(a, 1, k)
      OBVIOUS
    <2>2. PICK b2 : b2 = SubSeq(b, 1, k)
      OBVIOUS
    <2>3. a2 \in Seq(Nat) /\ Len(a2) = k /\ \A i \in 1..k : a2[i] = a[i]
      BY <1>8, <2>1, StartIs
    <2>4. b2 \in Seq(Nat) /\ Len(b2) = k /\ \A i \in 1..k : b2[i] = b[i]
      BY <1>9, <1>10, <2>2, StartIs
    <2>5. a2 = b2
      BY <1>11, <2>3, <2>4, SameElements
    <2> QED BY <2>1, <2>2, <2>5
  <1>13. D!IsPrefix(a, b)
    BY <1>8, <1>9, <1>10, <1>12 DEF D!IsPrefix
  <1> QED BY <1>1, <1>2, <1>4, <1>5, <1>13

LEMMA TextAppended ==
    ASSUME DInv, IInv', ~failed, failed' = failed, ret' = OK,
           expect # "none", expect' = expect,
           Agree(spool, spool', 0, ContentEnd), Headers' = Headers,
           ContentEnd' = ContentEnd, Saved' \in 0..Len(stack'),
           Len(spool') <= MaxSpool,
           expect \in {"more_string", "more_bytes"} =>
             stack' = stack /\ ContentEnd < Len(spool) /\ Agree(spool, spool', 0, Len(spool)),
           NEW use, NEW chars, NEW chars2,
           PartialText = <<[use |-> use, chars |-> chars]>>,
           PartialText' = <<[use |-> use, chars |-> chars2]>>,
           D!IsPrefix(chars, chars2)
    PROVE  DInv' /\ D!AppendText /\ Answer' = "ok"
  <1>1. Taken' = Taken
    BY DEF Taken
  <1>2. /\ Holds(spool', Headers', ContentEnd', Taken')
        /\ Rooted(Headers', ContentEnd')
        /\ Root' = Root /\ Open' = Open
    BY <1>1, TextKept
  <1>3. ASSUME expect' \in {"more_string", "more_bytes"}
        PROVE  /\ ContentEnd' + 1 = Last(stack') /\ ContentEnd' + 2 < Len(spool')
               /\ Cell(spool', ContentEnd') = SCALAR
    <2>1. /\ ContentEnd + 1 = Last(stack) /\ ContentEnd + 2 < Len(spool)
          /\ Cell(spool, ContentEnd) = SCALAR
      BY <1>3 DEF DInv, Held, ContentHeld
    <2>2. ContentEnd \in Nat
      BY DocumentFacts
    <2>4. ContentEnd' + 2 < Len(spool')
      <3>1. Len(spool) <= Len(spool') /\ spool' \in Seq(Nat) /\ spool \in Seq(Nat)
        BY <1>3 DEF Agree, DInv, IInv, TypeOK
      <3> QED BY <2>1, <2>2, <3>1
    <2>3. Cell(spool', ContentEnd) = Cell(spool, ContentEnd)
      BY <1>3, <2>2 DEF Agree
    <2> QED BY <1>3, <2>1, <2>3, <2>4
  <1>4. DInv'
    BY <1>2, <1>3 DEF DInv, Held, ContentHeld
  <1>5. /\ TextSoFar = <<[use |-> use, chars |-> chars]>>
        /\ TextSoFar' = <<[use |-> use, chars |-> chars2]>>
    BY Zenon DEF TextSoFar
  <1>6. Answer' = "ok"
    BY DEF Answer
  <1>7. D!AppendText
    <2>1. TextSoFar # <<>> /\ TextSoFar' # <<>>
      BY <1>5
    <2>2. /\ TextSoFar[1].use = use /\ TextSoFar'[1].use = use
          /\ TextSoFar[1].chars = chars /\ TextSoFar'[1].chars = chars2
      BY <1>5
    <2> QED BY <1>2, <1>6, <2>1, <2>2, Zenon DEF D!AppendText
  <1> QED BY <1>4, <1>6, <1>7

\* The text so far starts behind its size field.
LEMMA PartialIs ==
    ASSUME DInv, ~failed, expect \in {"more_key", "more_string", "more_bytes"}
    PROVE  /\ Last(stack) + 1 \in Nat /\ Last(stack) + 1 <= Len(spool)
           /\ Saved \in 0..Len(stack)
           /\ ContentEnd \in Nat /\ ContentEnd < Len(spool)
           /\ stack # <<>>
  <1>1. PartInContainer
    BY DEF DInv, Held, IInv, ContainersNested
  <1>2. /\ spool \in Seq(Nat) /\ stack \in Seq(Nat)
        /\ Saved \in 0..Len(stack) /\ ContentEnd \in Nat
    BY DocumentFacts
  <1>3. stack # <<>> /\ Last(stack) \in Nat
    BY <1>1, <1>2, FrontFacts DEF PartInContainer
  <1>4. Last(stack) + 1 <= Len(spool)
    BY <1>1, <1>2, <1>3, Layout DEF PartInContainer
  <1>5. ContentEnd <= Last(stack)
    <2>1. ContentEnd = IF expect = "more_key" THEN Last(stack) ELSE Last(stack) - 1
      BY Layout DEF ContentEnd
    <2> QED BY <1>3, <2>1
  <1>6. ContentEnd < Len(spool)
    BY <1>2, <1>3, <1>4, <1>5
  <1> QED BY <1>2, <1>3, <1>4, <1>6

LEMMA AppendSpoolImplements ==
    ASSUME DInv, IInv', NEW more \in {"more_key", "more_string", "more_bytes"},
           NEW text \in Seq(Nat), AppendSpool(more, text)
    PROVE  DInv' /\ D!Next
  <1>1. CASE Refuse(CheckExpectMore(more))
    BY <1>1, RefuseImplements
  <1>2. CASE Return("system")
    <2>1. UNCHANGED <<buffers, expects, failed>> /\ ret' # OK
      BY <1>2 DEF Return, OK
    <2> QED BY <2>1, RefusedImplements
  <1>3. CASE /\ Accepts(CheckExpectMore(more))
             /\ HasRoom(Len(text))
             /\ spool' = spool \o text
             /\ Succeed
             /\ UNCHANGED <<stack, current_container, expects>>
    <2>1. /\ ~failed /\ expect = more /\ failed' = failed /\ ret' = OK
          /\ expect' = expect /\ stack' = stack
          /\ current_container' = current_container
      BY <1>3 DEF Accepts, CheckExpectMore, Succeed, OK, expects
    <2>2. /\ Last(stack) + 1 \in Nat /\ Last(stack) + 1 <= Len(spool)
          /\ Saved \in 0..Len(stack)
          /\ ContentEnd \in Nat /\ ContentEnd < Len(spool)
          /\ spool \in Seq(Nat)
      BY <2>1, PartialIs DEF DInv, Held, IInv, TypeOK
    <2>3. /\ spool' \in Seq(Nat) /\ Len(spool') = Len(spool) + Len(text)
          /\ Agree(spool, spool', 0, Len(spool))
      BY <1>3, <2>2, SpoolGrows
    <2>4. Agree(spool, spool', 0, ContentEnd)
      <3>1. ContentEnd <= Len(spool) /\ Len(spool) \in Nat
        BY <2>2
      <3> QED BY <2>2, <2>3, <3>1 DEF Agree
    <2>5. Saved' = Saved /\ ContentEnd' = ContentEnd
      BY <2>1 DEF Saved, ContentEnd
    <2>6. Headers' = Headers /\ Saved' \in 0..Len(stack')
      BY <2>1, <2>2, <2>5 DEF Headers
    <2>7. Len(spool') <= MaxSpool
      BY <1>3, <2>3 DEF HasRoom
    <2>8. PICK lo \in Nat : lo = Last(stack) + 1
      BY <2>2
    <2>9. PICK chars : chars = SubSeq(spool, lo + 1, Len(spool))
      OBVIOUS
    <2>10. PICK chars2 : chars2 = SubSeq(spool', lo + 1, Len(spool'))
      OBVIOUS
    <2>11. PICK use : use = IF more = "more_key" THEN "key" ELSE "scalar"
      OBVIOUS
    <2>12. /\ PartialText = <<[use |-> use, chars |-> chars]>>
           /\ PartialText' = <<[use |-> use, chars |-> chars2]>>
      BY <2>1, <2>8, <2>9, <2>10, <2>11, Layout DEF PartialText
    <2>13. D!IsPrefix(chars, chars2)
      <3>1. PICK s2 : s2 = spool'
        OBVIOUS
      <3>2. Added(spool, text, s2)
        BY <1>3, <3>1 DEF Added
      <3>3. D!IsPrefix(SubSeq(spool, lo + 1, Len(spool)), SubSeq(s2, lo + 1, Len(s2)))
        BY <2>2, <2>8, <3>2, TextGrows
      <3> QED BY <2>9, <2>10, <3>1, <3>3
    <2>14. DInv' /\ D!AppendText /\ Answer' = "ok"
      <3>1. expect # "none"
        BY <2>1
      <3> QED BY <2>1, <2>2, <2>3, <2>4, <2>5, <2>6, <2>7, <2>12, <2>13, <3>1,
                 TextAppended
    <2> QED BY <2>14, Zenon DEF D!Next
  <1> QED BY <1>1, <1>2, <1>3 DEF AppendSpool

LEMMA AppendDecimalImplements ==
    ASSUME DInv, IInv', NEW text \in Seq(Nat), AppendDecimalFromString(text)
    PROVE  DInv' /\ D!Next
  <1> DEFINE check == CheckExpectMore("more_decimal_string")
  <1>1. CASE Refuse(check)
    BY <1>1, RefuseImplements
  <1>2. CASE Return("system")
    <2>1. UNCHANGED <<buffers, expects, failed>> /\ ret' # OK
      BY <1>2 DEF Return, OK
    <2> QED BY <2>1, RefusedImplements
  <1>3. CASE /\ Accepts(check)
             /\ stack' = stack \o text
             /\ Succeed
             /\ UNCHANGED <<spool, current_container, expects>>
    <2>1. /\ ~failed /\ expect = "more_decimal_string" /\ failed' = failed /\ ret' = OK
          /\ expect' = expect /\ spool' = spool
          /\ current_container' = current_container
      BY <1>3 DEF Accepts, CheckExpectMore, Succeed, OK, expects
    <2>2. /\ stack \in Seq(Nat) /\ spool \in Seq(Nat) /\ Saved \in 0..Len(stack)
          /\ ContentEnd \in Nat /\ ContentEnd <= Len(spool) /\ Len(spool) <= MaxSpool
      BY <2>1, DocumentFacts
    <2>3. /\ stack' \in Seq(Nat) /\ Len(stack') = Len(stack) + Len(text)
          /\ \A i \in 1..Len(stack) : stack'[i] = stack[i]
      BY <1>3, <2>2, ConcatFacts
    <2>4. Agree(spool, spool', 0, ContentEnd)
      BY <2>1, <2>2 DEF Agree
    <2>5. Saved = Last(spool) /\ Saved' = Saved /\ ContentEnd' = ContentEnd
      BY <2>1 DEF Saved, ContentEnd
    <2>6. Saved' \in 0..Len(stack') /\ \A i \in 1..Saved : stack'[i] = stack[i]
      BY <2>2, <2>3, <2>5
    <2>7. Headers' = Headers
      BY <2>1, <2>2, <2>3, <2>5, <2>6, HeadersKept
    <2>8. PICK lo \in Nat : lo = Last(spool)
      BY <2>2, <2>5
    <2>9. PICK chars : chars = SubSeq(stack, lo + 1, Len(stack))
      OBVIOUS
    <2>10. PICK chars2 : chars2 = SubSeq(stack', lo + 1, Len(stack'))
      OBVIOUS
    <2>11. PICK use : use = "decimal"
      OBVIOUS
    <2>12. /\ PartialText = <<[use |-> use, chars |-> chars]>>
           /\ PartialText' = <<[use |-> use, chars |-> chars2]>>
      BY <2>1, <2>8, <2>9, <2>10, <2>11 DEF PartialText
    <2>13. D!IsPrefix(chars, chars2)
      <3>1. PICK st2 : st2 = stack'
        OBVIOUS
      <3>2. Added(stack, text, st2)
        BY <1>3, <3>1 DEF Added
      <3>3. lo <= Len(stack)
        BY <2>2, <2>5, <2>8
      <3>4. D!IsPrefix(SubSeq(stack, lo + 1, Len(stack)), SubSeq(st2, lo + 1, Len(st2)))
        BY <2>2, <3>2, <3>3, TextGrows
      <3> QED BY <2>9, <2>10, <3>1, <3>4
    <2>14. DInv' /\ D!AppendText /\ Answer' = "ok"
      <3>1. expect # "none" /\ expect \notin {"more_string", "more_bytes"}
        BY <2>1
      <3>2. Len(spool') <= MaxSpool
        BY <2>1, <2>2
      <3> QED BY <2>1, <2>4, <2>5, <2>6, <2>7, <2>12, <2>13, <3>1, <3>2, TextAppended
    <2> QED BY <2>14, Zenon DEF D!Next
  <1> QED BY <1>1, <1>2, <1>3 DEF AppendDecimalFromString

LEMMA EndDecimalImplements ==
    ASSUME DInv, IInv', EndDecimalFromString
    PROVE  DInv' /\ D!Next
  <1> DEFINE check == CheckExpectMore("more_decimal_string")
  <1>1. CASE Refuse(check)
    BY <1>1, RefuseImplements
  <1>2. CASE Accepts(check) /\ Fail(CheckExpectValue)
    <2>1. ~failed /\ failed' = TRUE /\ ret' # OK
      BY <1>2 DEF Accepts, Fail, CheckExpectMore, CheckExpectValue, OK
    <2> QED BY <2>1, FailImplements
  <1> QED BY <1>1, <1>2 DEF EndDecimalFromString

\* A size is filled in at p; what lies behind it is n cells long.
Patched(s, p, n, s2) == s2 = [s EXCEPT ![p + 1] = n]
Reaches(s, p, n) == Len(s) = p + 1 + n
Sized(s, p, n, s2) ==
    /\ s2 \in Seq(Nat) /\ Len(s2) = Len(s)
    /\ Agree(s, s2, 0, p) /\ Cell(s2, p) = n
    /\ Slice(s2, p + 1, n) = SubSeq(s, p + 1 + 1, Len(s))

LEMMA PatchedCells ==
    ASSUME NEW s \in Seq(Nat), NEW p \in Nat, NEW n \in Nat, Reaches(s, p, n),
           NEW s2, Patched(s, p, n, s2)
    PROVE  Sized(s, p, n, s2)
  <1>1. p + 1 \in 1..Len(s) /\ Len(s) = p + 1 + n
    BY DEF Reaches
  <1>2. /\ s2 \in Seq(Nat) /\ Len(s2) = Len(s)
        /\ \A i \in 1..Len(s) : i # p + 1 => s2[i] = s[i]
        /\ s2[p + 1] = n
    BY <1>1 DEF Patched
  <1>3. Agree(s, s2, 0, p)
    <2>1. \A o \in Nat : o < p => o + 1 \in 1..Len(s) /\ o + 1 # p + 1
      BY <1>1
    <2> QED BY <1>1, <1>2, <2>1 DEF Agree, Cell
  <1>4. Slice(s2, p + 1, n) = SubSeq(s, p + 1 + 1, Len(s))
    <2>1. PICK q \in Nat : q = p + 1
      OBVIOUS
    <2>2. q + n <= Len(s) /\ q + n <= Len(s2)
      BY <1>1, <1>2, <2>1
    <2>3. PICK a : a = Slice(s, q, n)
      OBVIOUS
    <2>4. PICK b : b = Slice(s2, q, n)
      OBVIOUS
    <2>5. a \in Seq(Nat) /\ Len(a) = n /\ \A i \in 1..n : a[i] = s[q + i]
      <3>1. /\ Slice(s, q, n) \in Seq(Nat) /\ Len(Slice(s, q, n)) = n
            /\ \A i \in 1..n : Slice(s, q, n)[i] = s[q + i]
        BY <2>2, SliceFacts
      <3> QED BY <2>3, <3>1, Zenon
    <2>6. b \in Seq(Nat) /\ Len(b) = n /\ \A i \in 1..n : b[i] = s2[q + i]
      <3>1. /\ Slice(s2, q, n) \in Seq(Nat) /\ Len(Slice(s2, q, n)) = n
            /\ \A i \in 1..n : Slice(s2, q, n)[i] = s2[q + i]
        BY <1>2, <2>2, SliceFacts
      <3> QED BY <2>4, <3>1, Zenon
    <2>7. \A i \in 1..n : q + i \in 1..Len(s) /\ q + i # p + 1
      BY <1>1, <2>1
    <2>8. \A i \in 1..n : a[i] = b[i]
      BY <1>2, <2>5, <2>6, <2>7, Zenon
    <2>9. a = b
      BY <2>5, <2>6, <2>8, SameElements
    <2>10. a = SubSeq(s, q + 1, Len(s))
      BY <1>1, <2>1, <2>3 DEF Slice
    <2> QED BY <2>1, <2>4, <2>9, <2>10
  <1> QED BY <1>2, <1>3, <1>4 DEF Cell, Sized

LEMMA SizeFits ==
    ASSUME NEW p \in Nat, NEW len \in Nat, p + 1 <= len, len <= MaxSpool
    PROVE  /\ len - p - 1 \in Nat /\ len = p + 1 + (len - p - 1)
           /\ SizeT(len - p - 1) = len - p - 1
  <1>1. PICK n \in Nat : n = len - p - 1
    OBVIOUS
  <1>2. n \in 0..SizeMax
    BY <1>1, WriterAssumption, SizeMaxAssumption
  <1> QED BY <1>1, <1>2 DEF SizeT

\* The end of a text: its size is filled in and it is no longer on the stack.
LEMMA EndTextFacts ==
    ASSUME DInv, ~failed, expect \in {"more_key", "more_string", "more_bytes"},
           NEW place, place = Last(stack),
           Patched(spool, place, SizeT(Len(spool) - place - 1), spool'),
           stack' = Front(stack)
    PROVE  /\ place \in Nat /\ place + 1 <= Len(spool)
           /\ spool' \in Seq(Nat) /\ Len(spool') = Len(spool)
           /\ Len(spool') <= MaxSpool
           /\ Agree(spool, spool', 0, place)
           /\ Cell(spool', place) = Len(spool) - place - 1
           /\ Slice(spool', place + 1, Len(spool) - place - 1) =
                SubSeq(spool, place + 1 + 1, Len(spool))
           /\ stack' \in Seq(Nat) /\ Len(stack') = Saved
           /\ Saved \in 0..Len(stack)
           /\ \A i \in 1..Saved : stack'[i] = stack[i]
  <1>1. /\ place + 1 \in Nat /\ place + 1 <= Len(spool)
        /\ Saved \in 0..Len(stack)
        /\ stack # <<>>
    BY PartialIs
  <1>2. /\ spool \in Seq(Nat) /\ stack \in Seq(Nat) /\ Len(spool) <= MaxSpool
    BY DocumentFacts
  <1>3. /\ stack' \in Seq(Nat) /\ Len(stack') = Len(stack) - 1
        /\ \A i \in 1..(Len(stack) - 1) : stack'[i] = stack[i]
        /\ place \in Nat /\ place = stack[Len(stack)]
    BY <1>1, <1>2, FrontFacts
  <1>4. Saved = Len(stack) - 1
    BY DEF Saved
  <1>5. PICK n : n = Len(spool) - place - 1
    OBVIOUS
  <1>6. n \in Nat /\ Len(spool) = place + 1 + n /\ SizeT(n) = n
    <2>1. PICK len \in Nat : len = Len(spool)
      BY <1>2
    <2>2. /\ len - place - 1 \in Nat /\ len = place + 1 + (len - place - 1)
          /\ SizeT(len - place - 1) = len - place - 1
      BY <1>1, <1>2, <1>3, <2>1, SizeFits
    <2> QED BY <1>5, <2>1, <2>2, Zenon
  <1>7. PICK s2 : s2 = spool'
    OBVIOUS
  <1>8. Patched(spool, place, n, s2)
    BY <1>5, <1>6, <1>7
  <1>9. Sized(spool, place, n, s2)
    <2>1. Reaches(spool, place, n)
      BY <1>6 DEF Reaches
    <2>2. spool \in Seq(Nat) /\ place \in Nat /\ n \in Nat
      BY <1>2, <1>3, <1>6
    <2> QED BY <1>8, <2>1, <2>2, PatchedCells
  <1>10. /\ spool' \in Seq(Nat) /\ Len(spool') = Len(spool)
         /\ Agree(spool, spool', 0, place) /\ Cell(spool', place) = n
         /\ Slice(spool', place + 1, n) = SubSeq(spool, place + 1 + 1, Len(spool))
    BY <1>7, <1>9, Zenon DEF Sized
  <1> QED BY <1>1, <1>2, <1>3, <1>4, <1>5, <1>10

\* What the last step of a text finds, when it succeeds.
LEMMA EndsText ==
    ASSUME DInv, IInv', NEW more \in {"more_key", "more_string", "more_bytes"},
           NEW skip, NEW next, NEW checked,
           next \in AfterValue, EndText(more, skip, next, checked), ret' = OK
    PROVE  /\ ~failed /\ failed' = failed /\ expect = more /\ expect' = next
           /\ UNCHANGED <<current_container, expect_after_value>>
           /\ stack' = Front(stack)
           /\ Patched(spool, Last(stack), SizeT(Len(spool) - Last(stack) - 1), spool')
  <1>1. ~Refuse(CheckExpectMore(more))
    BY DEF Refuse, Return, OK
  <1>2. /\ Accepts(CheckExpectMore(more))
        /\ spool' = [spool EXCEPT
                       ![stack[Len(stack)] + 1] =
                           SizeT(Len(spool) - stack[Len(stack)] - SizeOfSize)]
        /\ stack' = Front(stack)
        /\ \/ expect' = next /\ Succeed
           \/ Fail("invalid_utf8")
        /\ UNCHANGED <<current_container, expect_after_value>>
    BY <1>1, Zenon DEF EndText
  <1>3. ~failed /\ expect = more
    BY <1>2 DEF Accepts, CheckExpectMore, OK
  <1>4. expect' = next /\ failed' = failed
    BY <1>2 DEF Succeed, Fail, OK
  <1>5. Patched(spool, Last(stack), SizeT(Len(spool) - Last(stack) - 1), spool')
    BY <1>2, Layout, Zenon DEF Patched, Last
  <1> QED BY <1>2, <1>3, <1>4, <1>5

LEMMA EndTextFails ==
    ASSUME DInv, IInv', NEW more, NEW skip, NEW next, NEW checked,
           EndText(more, skip, next, checked), ret' # OK
    PROVE  DInv' /\ D!Next
  <1>1. CASE Refuse(CheckExpectMore(more))
    BY <1>1, RefuseImplements
  <1>2. CASE Accepts(CheckExpectMore(more)) /\ Fail("invalid_utf8")
    <2>1. ~failed /\ failed' = TRUE
      BY <1>2 DEF Accepts, Fail
    <2> QED BY <2>1, FailImplements
  <1>3. ~Succeed
    BY DEF Succeed
  <1> QED BY <1>1, <1>2, <1>3, Zenon DEF EndText

LEMMA EndKeyImplements ==
    ASSUME DInv, IInv', EndKey
    PROVE  DInv' /\ D!Next
  <1>1. EndText("more_key", 0, "value", TRUE)
    BY DEF EndKey
  <1>2. CASE ret' # OK
    BY <1>1, <1>2, EndTextFails
  <1>3. CASE ret' = OK
    <2>1. /\ ~failed /\ failed' = failed /\ expect = "more_key" /\ expect' = "value"
          /\ UNCHANGED <<current_container, expect_after_value>>
          /\ stack' = Front(stack)
          /\ Patched(spool, Last(stack), SizeT(Len(spool) - Last(stack) - 1), spool')
      <3>1. "value" \in AfterValue
        BY DEF AfterValue
      <3> QED BY <1>1, <1>3, <3>1, EndsText
    <2>2. PICK end : end = Last(stack)
      OBVIOUS
    <2>3. /\ end \in Nat /\ end + 1 <= Len(spool)
          /\ spool' \in Seq(Nat) /\ Len(spool') = Len(spool)
          /\ Len(spool') <= MaxSpool
          /\ Agree(spool, spool', 0, end)
          /\ Cell(spool', end) = Len(spool) - end - 1
          /\ Slice(spool', end + 1, Len(spool) - end - 1) =
               SubSeq(spool, end + 1 + 1, Len(spool))
          /\ stack' \in Seq(Nat) /\ Len(stack') = Saved
          /\ Saved \in 0..Len(stack)
          /\ \A i \in 1..Saved : stack'[i] = stack[i]
      BY <2>1, <2>2, EndTextFacts
    <2>4. PICK chars : chars = SubSeq(spool, end + 1 + 1, Len(spool))
      OBVIOUS
    <2>5. ContentEnd = end /\ TextSoFar = <<[use |-> "key", chars |-> chars]>>
      <3>1. PartialText = <<[use |-> "key", chars |-> chars]>>
        BY <2>1, <2>2, <2>4, Layout DEF PartialText
      <3> QED BY <2>1, <2>2, <3>1, Zenon DEF ContentEnd, TextSoFar
    <2>6. /\ Headers # <<>> /\ Cell(spool, Last(Headers) - 1) = OBJECT
          /\ Taken = "key"
      BY <2>1, KeyFacts
    <2>7. /\ spool \in Seq(Nat) /\ Headers \in Seq(Nat) /\ Len(Headers) = Saved
          /\ Holds(spool, Headers, end, "key")
          /\ Rooted(Headers, end)
          /\ Open = Frames(spool, Headers, end)
          /\ Root = <<>> /\ stack \in Seq(Nat)
      BY <2>1, <2>5, <2>6, DocumentFacts
    <2>8. Saved' = Saved
      BY <2>1, <2>3 DEF Saved
    <2>9. Headers' = Headers
      BY <2>1, <2>3, <2>7, <2>8, HeadersKept
    <2>10. KeyBehind(spool, spool', end, Len(spool')) /\ KeyOf(spool', end) = chars
      <3>1. Len(spool) \in Nat
        BY <2>7
      <3>2. ValueOf(spool', end) = Len(spool')
        BY SMTT(20), <2>3, <3>1, Layout DEF ValueOf, KeySize
      <3>3. end < Len(spool')
        BY <2>3, <3>1
      <3>4. KeyOf(spool', end) = chars
        BY <2>3, <2>4, Layout DEF KeyOf, KeySize
      <3>5. Len(spool') <= Len(spool')
        BY <2>3, <3>1
      <3> QED BY <2>3, <3>2, <3>3, <3>4, <3>5 DEF KeyBehind
    <2>11. /\ ContentHeld'
           /\ TextSoFar' = <<>> /\ Root' = <<>>
           /\ Open' = Append(D!Front(Open), D!WithKey(D!Last(Open), chars))
      <3>1. PICK headers : headers = Headers
        OBVIOUS
      <3>2. PICK s : s = spool
        OBVIOUS
      <3>3. /\ s \in Seq(Nat) /\ headers \in Seq(Nat)
            /\ Headers' = headers /\ Len(stack') = Len(headers)
            /\ headers # <<>> /\ Cell(s, Last(headers) - 1) = OBJECT
            /\ Holds(s, headers, end, "key")
            /\ Rooted(headers, end)
            /\ KeyBehind(s, spool', end, Len(spool'))
        BY <2>3, <2>6, <2>7, <2>9, <2>10, <3>1, <3>2
      <3>4. ~failed' /\ end \in Nat /\ Len(spool') <= MaxSpool
        BY <2>1, <2>3
      <3>5. /\ ContentHeld'
            /\ TextSoFar' = <<>> /\ Root' = <<>>
            /\ Open' = Append(D!Front(Frames(s, headers, end)),
                              D!WithKey(D!Last(Frames(s, headers, end)),
                                        KeyOf(spool', end)))
        BY <2>1, <3>3, <3>4, KeyLands
      <3> QED BY <2>7, <2>10, <3>1, <3>2, <3>5, Zenon
    <2>12. DInv'
      <3>1. expect' # "none"
        BY <2>1
      <3> QED BY <2>11, <3>1 DEF DInv, Held
    <2>13. Answer' = "ok"
      BY <1>3 DEF Answer
    <2>14. D!EndKey
      <3>1. TextSoFar # <<>> /\ TextSoFar[1].use = "key" /\ TextSoFar[1].chars = chars
        BY <2>5
      <3> QED BY <2>1, <2>7, <2>11, <2>13, <3>1, Zenon DEF D!EndKey
    <2> QED BY <2>12, <2>13, <2>14, Zenon DEF D!Next
  <1> QED BY <1>2, <1>3

LEMMA EndScalarImplements ==
    ASSUME DInv, IInv', NEW more \in {"more_string", "more_bytes"},
           NEW skip, NEW checked, EndText(more, skip, expect_after_value, checked)
    PROVE  DInv' /\ D!Next
  <1>1. CASE ret' # OK
    BY <1>1, EndTextFails
  <1>2. CASE ret' = OK
    <2>1. PICK next : next = expect_after_value
      OBVIOUS
    <2>2. /\ ~failed /\ failed' = failed /\ expect = more /\ expect' = next
          /\ UNCHANGED <<current_container, expect_after_value>>
          /\ stack' = Front(stack)
          /\ Patched(spool, Last(stack), SizeT(Len(spool) - Last(stack) - 1), spool')
      <3>1. next \in AfterValue
        BY <2>1 DEF DInv, Held, IInv, TypeOK
      <3>2. EndText(more, skip, next, checked)
        BY <2>1
      <3>3. more \in {"more_key", "more_string", "more_bytes"}
        OBVIOUS
      <3> QED BY <1>2, <3>1, <3>2, <3>3, EndsText
    <2>3. PICK place : place = Last(stack)
      OBVIOUS
    <2>4. /\ place \in Nat /\ place + 1 <= Len(spool)
          /\ spool' \in Seq(Nat) /\ Len(spool') = Len(spool)
          /\ Len(spool') <= MaxSpool
          /\ Agree(spool, spool', 0, place)
          /\ Cell(spool', place) = Len(spool) - place - 1
          /\ Slice(spool', place + 1, Len(spool) - place - 1) =
               SubSeq(spool, place + 1 + 1, Len(spool))
          /\ stack' \in Seq(Nat) /\ Len(stack') = Saved
          /\ Saved \in 0..Len(stack)
          /\ \A i \in 1..Saved : stack'[i] = stack[i]
      <3>1. expect \in {"more_key", "more_string", "more_bytes"}
        BY <2>2
      <3> QED BY <2>2, <2>3, <3>1, EndTextFacts
    <2>5. PICK chars : chars = SubSeq(spool, place + 1 + 1, Len(spool))
      OBVIOUS
    <2>6. TextSoFar = <<[use |-> "scalar", chars |-> chars]>>
      <3>1. PartialText = <<[use |-> "scalar", chars |-> chars]>>
        BY <2>2, <2>3, <2>5, Layout DEF PartialText
      <3> QED BY <2>2, <3>1, Zenon DEF TextSoFar
    <2>7. /\ spool \in Seq(Nat) /\ Headers \in Seq(Nat) /\ Len(Headers) = Saved
          /\ Headers = <<>> <=> current_container = 0
          /\ Rooted(Headers, ContentEnd)
          /\ Holds(spool, Headers, ContentEnd, "value")
          /\ Open = Frames(spool, Headers, ContentEnd)
          /\ Root = <<>> /\ stack \in Seq(Nat) /\ ContentEnd \in Nat
      <3>1. expect # "none" /\ Taken = "value"
        BY <2>2 DEF Taken
      <3> QED BY <2>2, <3>1, DocumentFacts
    <2>8. /\ ContentEnd + 1 = place /\ ContentEnd + 2 < Len(spool)
          /\ Cell(spool, ContentEnd) = SCALAR
      <3>1. expect # "none" /\ expect \in {"more_string", "more_bytes"}
        BY <2>2
      <3> QED BY <2>2, <2>3, <3>1 DEF DInv, Held, ContentHeld
    <2>9. PICK end \in Nat : end = ContentEnd /\ end + 1 = place
      BY <2>7, <2>8
    <2>10. expect' = ExpectIn(spool', current_container') /\ expect' \in AfterValue
      <3>1. expect' = expect_after_value'
        BY <2>1, <2>2
      <3>2. expect_after_value' \in AfterValue
        BY DEF IInv, TypeOK
      <3> QED BY <2>2, <3>1, <3>2, ExpectedIsIn
    <2>11. Saved' = Saved
      <3>1. Saved' = Len(stack')
        BY <2>10 DEF AfterValue, Saved
      <3> QED BY <2>4, <3>1
    <2>12. Headers' = Headers
      BY <2>2, <2>4, <2>7, <2>11, HeadersKept
    <2>13. PICK s2 \in Seq(Nat) : s2 = spool'
      BY <2>4
    <2>14. PICK len \in Nat : len = Len(spool)
      BY <2>7
    <2>15. /\ Len(s2) = len /\ end + 2 <= len
           /\ Cell(s2, end) = SCALAR /\ Cell(s2, end + 1) = len - place - 1
      <3>1. Len(s2) = len /\ end + 2 <= len
        BY <2>4, <2>9, <2>13, <2>14
      <3>2. Cell(s2, end) = SCALAR
        BY <2>4, <2>8, <2>9, <2>13 DEF Agree
      <3>3. Cell(s2, end + 1) = len - place - 1
        BY <2>4, <2>9, <2>13, <2>14
      <3> QED BY <3>1, <3>2, <3>3
    <2>16. EndOfValue(s2, end) = len
      <3>1. end \in ValueOffsets(s2)
        BY <2>15, ValueOffset
      <3>2. EndOfValue(s2, end) = end + 2 + Cell(s2, end + 1)
        BY <3>1, HeadFacts
      <3> QED BY <2>9, <2>15, <3>2
    <2>17. Values(s2)[end] = [scalar |-> chars]
      <3>1. Values(s2)[end] = [scalar |-> Slice(s2, end + 2, Cell(s2, end + 1))]
        BY <2>15, ScalarValue
      <3>2. end + 2 = place + 1
        BY <2>9
      <3> QED BY <2>4, <2>5, <2>13, <2>14, <2>15, <3>1, <3>2, Zenon
    <2>18. ValueBehind(spool, s2, end, Len(s2))
      <3>1. Agree(spool, s2, 0, end)
        <4>1. Agree(spool, s2, 0, place)
          BY <2>4, <2>13
        <4>2. place \in Nat /\ end <= place
          BY <2>9
        <4>3. spool \in Seq(Nat)
          BY <2>7
        <4> QED BY <4>1, <4>2, <4>3, AgreeWithin
      <3>2. ASSUME HashIsNumber PROVE WellSized(s2, end)
        <4>1. PICK n \in Nat : n = len - end - 2 /\ n > 0
          <5>1. len - end - 2 \in Nat /\ len - end - 2 > 0
            BY <2>8, <2>9, <2>14
          <5> QED BY <5>1
        <4>2. Cell(s2, end + 1) = n /\ end + 2 + n <= Len(s2)
          BY <2>9, <2>15, <4>1
        <4> QED BY <2>15, <3>2, <4>1, <4>2, ScalarSized
      <3>3. Len(s2) = EndOfValue(s2, end) /\ Len(s2) <= Len(s2) /\ end + 2 <= Len(s2)
        BY <2>15, <2>16
      <3> QED BY <3>1, <3>2, <3>3, Zenon DEF ValueBehind
    <2>19. /\ Held'
           /\ TextSoFar' = <<>>
           /\ D!Place([scalar |-> chars], Open)
      <3>1. PICK headers : headers = Headers
        OBVIOUS
      <3>2. PICK s : s = spool
        OBVIOUS
      <3>3. /\ s \in Seq(Nat) /\ headers \in Seq(Nat)
            /\ Headers' = headers /\ Len(stack') = Len(headers)
            /\ headers = <<>> <=> current_container' = 0
            /\ Holds(s, headers, end, "value")
            /\ Rooted(headers, end)
            /\ ValueBehind(s, spool', end, Len(spool'))
        BY <2>2, <2>4, <2>7, <2>9, <2>12, <2>13, <2>18, <3>1, <3>2
      <3>4. ~failed' /\ Len(spool') <= MaxSpool
        BY <2>2, <2>4
      <3>5. /\ Held'
            /\ TextSoFar' = <<>>
            /\ D!Place(Values(spool')[end], Frames(s, headers, end))
        BY <2>7, <2>10, <3>3, <3>4, ValueLands
      <3> QED BY <2>7, <2>9, <2>13, <2>17, <3>1, <3>2, <3>5, Zenon
    <2>20. DInv'
      BY <2>19 DEF DInv, Held
    <2>21. Answer' = "ok"
      BY <1>2 DEF Answer
    <2>22. D!EndScalar
      <3>1. TextSoFar # <<>> /\ TextSoFar[1].use = "scalar" /\ TextSoFar[1].chars = chars
        BY <2>6
      <3> QED BY <2>2, <2>19, <2>21, <3>1, Zenon DEF D!EndScalar
    <2> QED BY <2>20, <2>21, <2>22, Zenon DEF D!Next
  <1> QED BY <1>1, <1>2

\* A container is ended: the sizes in its header, at c, are filled in.
Closed(s, c, size, output_size, s2) ==
    s2 = [s EXCEPT ![c + 1] = size, ![c + 2] = output_size]
Ended(s, c, size, output_size, s2) ==
    /\ Len(s2) = Len(s)
    /\ Agree(s, s2, 0, c) /\ Agree(s, s2, c + 2, Len(s))
    /\ Cell(s2, c) = size /\ Cell(s2, c + 1) = output_size

LEMMA ClosedCells ==
    ASSUME NEW s \in Seq(Nat), NEW c \in Nat, c + 2 <= Len(s),
           NEW size, NEW output_size,
           NEW s2 \in Seq(Nat), Closed(s, c, size, output_size, s2)
    PROVE  Ended(s, c, size, output_size, s2)
  <1>1. Len(s2) = Len(s) /\ DOMAIN s2 = DOMAIN s
    BY DEF Closed
  <1>2. \A i \in 1..Len(s) : i # c + 1 /\ i # c + 2 => s2[i] = s[i]
    BY DEF Closed
  <1>3. s2[c + 1] = size
    <2>1. c + 1 \in 1..Len(s) /\ c + 1 # c + 2
      OBVIOUS
    <2> QED BY <2>1 DEF Closed
  <1>4. ASSUME NEW o \in Nat, o < Len(s), o < c \/ c + 2 <= o
        PROVE  Cell(s2, o) = Cell(s, o)
    <2>1. o + 1 \in 1..Len(s) /\ o + 1 # c + 1 /\ o + 1 # c + 2
      BY <1>4
    <2> QED BY <1>2, <2>1 DEF Cell
  <1>5. Agree(s, s2, 0, c)
    <2>1. c <= Len(s)
      OBVIOUS
    <2>2. \A o \in Nat : 0 <= o /\ o < c => Cell(s2, o) = Cell(s, o)
      BY <1>4
    <2> QED BY <1>1, <2>1, <2>2 DEF Agree
  <1>6. Agree(s, s2, c + 2, Len(s))
    BY <1>1, <1>4 DEF Agree
  <1>7. Cell(s2, c) = size
    BY <1>3 DEF Cell
  <1>8. Cell(s2, c + 1) = output_size
    <2>1. c + 2 \in 1..Len(s) /\ (c + 1) + 1 = c + 2
      OBVIOUS
    <2>2. s2[c + 2] = output_size
      BY <2>1 DEF Closed
    <2> QED BY <2>1, <2>2 DEF Cell
  <1> QED BY <1>1, <1>5, <1>6, <1>7, <1>8 DEF Ended

\* The header that was saved last, when a container can be ended.
LEMMA SavedLast ==
    ASSUME IInv, ~failed, expect \in {"key", "value"}, current_container # 0
    PROVE  /\ Saved = Len(stack) /\ Len(stack) \in Nat /\ Len(stack) > 0
           /\ stack[Len(stack)] \in Nat
           /\ stack[Len(stack)] = 0 <=> Len(stack) = 1
           /\ Front(stack) \in Seq(Nat) /\ Len(Front(stack)) = Len(stack) - 1
  <1>1. Saved = Len(stack)
    BY DEF Saved
  <1>2. /\ Nested(spool, stack, Len(stack), current_container)
        /\ stack \in Seq(Nat) /\ current_container \in Nat
    BY <1>1 DEF IInv, ContainersNested, TypeOK
  <1>3. PICK n \in Nat : n = Len(stack)
    BY <1>2
  <1>4. n # 0
    BY <1>2, <1>3 DEF Nested
  <1>5. n \in 1..n
    BY <1>4
  <1>6. IF n = 1 THEN stack[n] = 0 ELSE stack[n] > 0
    BY <1>2, <1>3, <1>5, Zenon DEF Nested
  <1>7. stack[n] \in Nat
    BY <1>2, <1>3, <1>5
  <1>8. stack # <<>>
    BY <1>3, <1>4
  <1>9. Front(stack) \in Seq(Nat) /\ Len(Front(stack)) = Len(stack) - 1
    BY <1>2, <1>8, FrontFacts
  <1>10. n > 0 /\ (stack[n] = 0 <=> n = 1)
    BY <1>4, <1>6, <1>7
  <1> QED BY <1>1, <1>3, <1>7, <1>9, <1>10

\* What the end of a container finds.
LEMMA EndContainerFacts ==
    ASSUME DInv, ~failed, NEW type, NEW kind, NEW first, Starts(type, kind, first),
           expect = first, expect_after_value = first,
           NEW c, c = current_container, NEW len, len = Len(spool)
    PROVE  /\ spool \in Seq(Nat) /\ c \in Nat /\ c > 0 /\ len \in Nat /\ c + 2 <= len
           /\ len <= MaxSpool
           /\ Cell(spool, c - 1) = type /\ type \in {OBJECT, ARRAY}
           /\ Filled(spool, type, c + 2, len, "key")
           /\ Headers \in Seq(Nat) /\ Headers # <<>>
           /\ Len(Headers) = Len(stack) /\ Len(stack) \in Nat
           /\ Front(Headers) \in Seq(Nat)
           /\ Len(Front(Headers)) = Len(Headers) - 1
           /\ Holds(spool, Front(Headers), c - 1, "value")
           /\ Rooted(Front(Headers), c - 1)
           /\ Front(Open) = Frames(spool, Front(Headers), c - 1)
           /\ Last(Open) = FrameOf(spool, type, c + 2, len)
           /\ Root = <<>> /\ TextSoFar = <<>>
  <1>1. /\ expect # "none" /\ expect \in {"key", "value"} /\ first \in {"key", "value"}
        /\ type \in {OBJECT, ARRAY}
    BY DEF Starts
  <1>2. /\ spool \in Seq(Nat) /\ stack \in Seq(Nat) /\ current_container \in Nat
        /\ Headers \in Seq(Nat) /\ Len(Headers) = Saved
        /\ Headers = <<>> <=> current_container = 0
        /\ Headers # <<>> => Last(Headers) = current_container
        /\ Rooted(Headers, ContentEnd)
        /\ Holds(spool, Headers, ContentEnd, Taken)
        /\ Open = Frames(spool, Headers, ContentEnd)
        /\ Root = <<>> /\ Len(spool) <= MaxSpool
        /\ first = ExpectIn(spool, current_container)
    BY <1>1, DocumentFacts
  <1>3. ContentEnd = len /\ Taken = first /\ Saved = Len(stack)
    BY <1>1 DEF ContentEnd, Taken, Saved
  <1>4. TextSoFar = <<>>
    BY <1>1 DEF TextSoFar, PartialText
  <1>5. c # 0 /\ (first = "key" <=> Cell(spool, c - 1) = OBJECT)
    BY <1>1, <1>2, Layout DEF ExpectIn
  <1>6. Headers # <<>> /\ c = Last(Headers)
    BY <1>2, <1>5
  <1>7. Holds(spool, Headers, len, first) /\ Rooted(Headers, len)
    BY <1>2, <1>3
  <1>8. /\ c \in Nat /\ c > 0 /\ c + 2 <= len /\ ContainerAt(spool, c, len, first)
        /\ Front(Headers) \in Seq(Nat) /\ Len(Front(Headers)) = Len(Headers) - 1
        /\ Holds(spool, Front(Headers), c - 1, "value")
        /\ Frames(spool, Front(Headers), c - 1) = Front(Frames(spool, Headers, len))
        /\ Last(Frames(spool, Headers, len)) = ContentOf(spool, c, len)
    BY SMTT(20), <1>2, <1>6, <1>7, InnermostPopped
  <1>9. Rooted(Front(Headers), c - 1)
    BY <1>2, <1>6, <1>7, RootedPopped
  <1>10. Cell(spool, c - 1) = type
    <2>1. Cell(spool, c - 1) \in {OBJECT, ARRAY}
      BY <1>8, Zenon DEF ContainerAt
    <2> QED BY <1>5, <2>1 DEF Starts
  <1>11. Filled(spool, type, c + 2, len, first)
    BY <1>8, <1>10, Zenon DEF ContainerAt
  <1>12. Filled(spool, type, c + 2, len, "key")
    BY <1>11 DEF Filled, Starts, OBJECT, ARRAY
  <1>13. len \in Nat
    BY <1>2
  <1>14. ContentOf(spool, c, len) = FrameOf(spool, type, c + 2, len)
    BY <1>2, <1>8, <1>10, <1>13, ContentIs
  <1>15. Open = Frames(spool, Headers, len)
    BY <1>2, <1>3
  <1>16. Len(stack) \in Nat /\ Len(Headers) = Len(stack)
    BY <1>2, <1>3
  <1>17. /\ Front(Open) = Frames(spool, Front(Headers), c - 1)
         /\ Last(Open) = FrameOf(spool, type, c + 2, len)
    BY <1>8, <1>14, <1>15, Zenon
  <1> QED BY <1>1, <1>2, <1>4, <1>6, <1>8, <1>9, <1>10, <1>12, <1>13, <1>16, <1>17, Zenon

LEMMA EndContainerImplements ==
    ASSUME DInv, IInv', ~failed, failed' = failed, ret' = OK,
           NEW type, NEW kind, NEW first, Starts(type, kind, first),
           expect = first, expect_after_value = first,
           NEW output_size,
           output_size = SizeT(OutputSize(spool, type, current_container + HeaderSize,
                                          Len(spool))),
           Closed(spool, current_container,
                  SizeT(Len(spool) - current_container - SizeOfSize), output_size, spool'),
           stack' = Front(stack), current_container' = stack[Len(stack)],
           expect' = expect_after_value'
    PROVE  DInv' /\ D!Next
  <1>1. PICK c : c = current_container
    OBVIOUS
  <1>2. PICK len : len = Len(spool)
    OBVIOUS
  <1>3. /\ spool \in Seq(Nat) /\ c \in Nat /\ c > 0 /\ len \in Nat /\ c + 2 <= len
        /\ len <= MaxSpool
        /\ Cell(spool, c - 1) = type /\ type \in {OBJECT, ARRAY}
        /\ Filled(spool, type, c + 2, len, "key")
        /\ Headers \in Seq(Nat) /\ Headers # <<>>
        /\ Len(Headers) = Len(stack) /\ Len(stack) \in Nat
        /\ Front(Headers) \in Seq(Nat)
        /\ Len(Front(Headers)) = Len(Headers) - 1
        /\ Holds(spool, Front(Headers), c - 1, "value")
        /\ Rooted(Front(Headers), c - 1)
        /\ Front(Open) = Frames(spool, Front(Headers), c - 1)
        /\ Last(Open) = FrameOf(spool, type, c + 2, len)
        /\ Root = <<>> /\ TextSoFar = <<>>
    BY <1>1, <1>2, EndContainerFacts
  <1>4. PICK o : o = c - 1
    OBVIOUS
  <1>5. o \in Nat /\ c = o + 1 /\ c + 2 = o + 3 /\ o + 3 <= len
    BY <1>3, <1>4
  <1>6. PICK size : size = len - o - 2
    OBVIOUS
  <1>7. size = len - c - 1 /\ SizeT(len - c - 1) = size
    <2>1. len - c - 1 = size /\ c + 1 <= len
      BY <1>3, <1>5, <1>6
    <2>2. SizeT(len - c - 1) = len - c - 1
      BY <1>3, <2>1, SizeFits
    <2> QED BY <2>1, <2>2
  <1>8. PICK s2 \in Seq(Nat) : s2 = spool'
    BY DEF IInv, TypeOK
  <1>9. Ended(spool, c, size, output_size, s2)
    <2>1. Closed(spool, c, size, output_size, s2)
      BY <1>1, <1>2, <1>7, <1>8, Layout
    <2>2. c + 2 <= Len(spool)
      BY <1>2, <1>3
    <2> QED BY <1>3, <2>1, <2>2, ClosedCells
  <1>10. /\ Len(s2) = len /\ Agree(spool, s2, 0, c) /\ Agree(spool, s2, o + 3, len)
         /\ Cell(s2, o + 1) = size /\ Cell(s2, o + 2) = output_size
    <2>1. c + 1 = o + 2
      BY <1>5
    <2> QED BY <1>2, <1>5, <1>9, <2>1 DEF Ended
  <1>11. Agree(spool, s2, 0, o)
    <2>1. o <= c
      BY <1>5
    <2> QED BY <1>3, <1>5, <1>10, <2>1, AgreeWithin
  <1>12. Cell(s2, o) = type
    <2>1. o < c /\ Cell(spool, o) = type
      BY <1>3, <1>4, <1>5
    <2> QED BY <1>5, <1>10, <2>1 DEF Agree
  <1>13. PICK value : value = IF type = ARRAY
                              THEN [array |-> FrameOf(spool, type, o + 3, len).items]
                              ELSE [object |-> FrameOf(spool, type, o + 3, len).items]
    OBVIOUS
  <1>14. EndOfValue(s2, o) = len /\ Values(s2)[o] = value
    <2>1. Filled(spool, type, o + 3, len, "key")
      BY <1>3, <1>5
    <2>2. Cell(s2, o + 1) = len - o - 2
      BY <1>6, <1>10
    <2>3. /\ spool \in Seq(Nat) /\ type \in {OBJECT, ARRAY} /\ o \in Nat /\ len \in Nat
          /\ Agree(spool, s2, o + 3, len)
      BY <1>3, <1>5, <1>10
    <2>4. /\ EndOfValue(s2, o) = len
          /\ Values(s2)[o] = IF type = ARRAY
                             THEN [array |-> FrameOf(spool, type, o + 3, len).items]
                             ELSE [object |-> FrameOf(spool, type, o + 3, len).items]
      BY <1>12, <2>1, <2>2, <2>3, ContainerValue
    <2> QED BY <1>13, <2>4, Zenon
  <1>15. ValueBehind(spool, s2, o, Len(s2))
    <2>1. o + 2 <= len
      BY <1>3, <1>5
    <2>2. ASSUME HashIsNumber PROVE WellSized(s2, o)
      <3>1. SizedItems(spool, type, o + 3, len)
        BY <1>3, <1>5, <2>2, Zenon DEF Filled
      <3>2. EndOfItems(spool, type, o + 3, ItemsOf(spool, type, o + 3, len)) = len
        <4>1. "key" # "value"
          OBVIOUS
        <4> QED BY <1>3, <1>5, <4>1, Zenon DEF Filled
      <3>3. Cell(s2, o + 2) = SizeT(OutputSize(spool, type, o + 3, len))
        <4>1. current_container + HeaderSize = o + 3
          BY <1>1, <1>5, Layout
        <4> QED BY <1>2, <1>10, <4>1, Zenon
      <3>4. ClosedOver(spool, s2, type, o, len)
        BY <1>5, <1>6, <1>10, <1>12, <3>1, <3>2, <3>3, Zenon DEF ClosedOver
      <3>5. 8 * len <= SizeMax
        BY <1>3, WriterAssumption, SizeMaxAssumption
      <3> QED BY <1>3, <1>5, <2>2, <3>4, <3>5, ContainerSized
    <2>3. Len(s2) = EndOfValue(s2, o) /\ Len(s2) <= Len(s2) /\ o + 2 <= Len(s2)
      BY <1>3, <1>10, <1>14, <2>1
    <2> QED BY <1>11, <2>2, <2>3, Zenon DEF ValueBehind
  <1>16. expect' = ExpectIn(spool', current_container') /\ expect' \in AfterValue
    <2>1. expect_after_value' \in AfterValue
      BY DEF IInv, TypeOK
    <2> QED BY <2>1, ExpectedIsIn
  <1>17. PICK headers : headers = Front(Headers)
    OBVIOUS
  <1>18. /\ Headers' = headers /\ Len(stack') = Len(headers)
         /\ headers = <<>> <=> current_container' = 0
    <2>1. expect \in {"key", "value"} /\ current_container # 0
      BY <1>1, <1>3 DEF Starts
    <2>2. /\ Saved = Len(stack) /\ Len(stack) > 0
          /\ stack[Len(stack)] = 0 <=> Len(stack) = 1
          /\ Len(Front(stack)) = Len(stack) - 1
      BY <2>1, SavedLast DEF DInv, Held
    <2>3. Saved' = Len(stack')
      BY <1>16 DEF AfterValue, Saved
    <2>4. PICK n \in Nat : n = Len(stack)
      BY <1>3
    <2>5. PICK outer : outer = stack[n]
      OBVIOUS
    <2>6. stack \in Seq(Nat)
      BY DEF DInv, Held, IInv, TypeOK
    <2>7. HeadersOn(Front(stack), n - 1, outer) = Front(HeadersOn(stack, n, c))
      BY <1>3, <2>2, <2>4, <2>5, <2>6, HeadersPopped
    <2>8. Headers = HeadersOn(stack, n, c)
      BY <1>1, <2>2, <2>4, Zenon DEF Headers
    <2>9. Headers' = HeadersOn(Front(stack), n - 1, outer)
      BY <2>2, <2>3, <2>4, <2>5, Zenon DEF Headers
    <2>10. Len(headers) = n - 1 /\ headers \in Seq(Nat)
      BY <1>3, <1>17, <2>4
    <2>11. headers = <<>> <=> n = 1
      BY <2>10
    <2> QED BY <1>17, <2>2, <2>4, <2>7, <2>8, <2>9, <2>10, <2>11, Zenon
  <1>19. /\ Held'
         /\ TextSoFar' = <<>>
         /\ D!Place(value, Front(Open))
    <2>1. PICK s : s = spool
      OBVIOUS
    <2>2. /\ s \in Seq(Nat) /\ headers \in Seq(Nat)
          /\ Holds(s, headers, o, "value") /\ Rooted(headers, o)
          /\ ValueBehind(s, spool', o, Len(spool')) /\ Len(spool') <= MaxSpool
      BY <1>3, <1>4, <1>8, <1>10, <1>15, <1>17, <2>1
    <2>3. ~failed'
      OBVIOUS
    <2>4. /\ Held'
          /\ TextSoFar' = <<>>
          /\ D!Place(Values(spool')[o], Frames(s, headers, o))
      BY <1>3, <1>5, <1>16, <1>18, <2>2, <2>3, ValueLands
    <2>5. Frames(s, headers, o) = Front(Open) /\ Values(spool')[o] = value
      BY <1>3, <1>4, <1>8, <1>14, <1>17, <2>1, Zenon
    <2> QED BY <2>4, <2>5, Zenon
  <1>20. DInv'
    BY <1>19 DEF DInv, Held
  <1>21. /\ D!EndExpected("array") <=> Accepts(CheckEndArray)
         /\ D!EndExpected("object") <=> Accepts(CheckEndObject)
    BY TreeTakes
  <1>22. /\ UNCHANGED <<TextSoFar, failed>>
         /\ D!Last(Open) = Last(Open) /\ D!Front(Open) = Front(Open)
    BY <1>3, <1>19, SameOperators
  <1>23. Last(Open) = FrameOf(spool, type, o + 3, len)
    BY <1>3, <1>5
  <1>24. Answer' = "ok"
    BY DEF Answer
  <1>25. D!EndArray \/ D!EndObject
    <2>1. CASE type = ARRAY /\ kind = "array" /\ first = "value"
      <3>1. D!EndExpected("array")
        BY <1>21, <2>1 DEF Accepts, CheckEndArray
      <3>2. D!Place([array |-> D!Last(Open).items], D!Front(Open))
        BY <1>13, <1>19, <1>22, <1>23, <2>1, Zenon
      <3> QED BY <1>22, <1>24, <3>1, <3>2, Zenon DEF D!EndArray
    <2>2. CASE type = OBJECT /\ kind = "object" /\ first = "key"
      <3>1. D!EndExpected("object")
        BY <1>21, <2>2 DEF Accepts, CheckEndObject
      <3>2. type # ARRAY
        BY <2>2, Layout
      <3>3. D!Place([object |-> D!Last(Open).items], D!Front(Open))
        BY <1>13, <1>19, <1>22, <1>23, <3>2, Zenon
      <3> QED BY <1>22, <1>24, <3>1, <3>3, Zenon DEF D!EndObject
    <2> QED BY <2>1, <2>2, Zenon DEF Starts
  <1> QED BY <1>20, <1>24, <1>25, Zenon DEF D!Next

LEMMA EndArrayImplements ==
    ASSUME DInv, IInv', EndArray
    PROVE  DInv' /\ D!Next
  <1>1. CASE Refuse(CheckEndArray)
    BY <1>1, RefuseImplements
  <1>2. CASE Accepts(CheckEndArray) /\ EndContainer(ArrayOutputSize)
    <2>1. ~failed /\ expect = "value" /\ expect_after_value = "value"
      BY <1>2 DEF Accepts, CheckEndArray, OK
    <2>2. PICK output_size :
            output_size = SizeT(ArrayOutputSize(spool, current_container + HeaderSize,
                                                Len(spool)))
      OBVIOUS
    <2>3. /\ Closed(spool, current_container,
                    SizeT(Len(spool) - current_container - SizeOfSize), output_size, spool')
          /\ stack' = Front(stack) /\ current_container' = stack[Len(stack)]
          /\ expect' = expect_after_value'
          /\ failed' = failed /\ ret' = OK
      BY <1>2, <2>2 DEF EndContainer, Succeed, Closed
    <2>4. Starts(ARRAY, "array", "value")
      BY DEF Starts
    <2>5. output_size = SizeT(OutputSize(spool, ARRAY, current_container + HeaderSize,
                                         Len(spool)))
      BY <2>2, Zenon DEF OutputSize
    <2> QED BY <2>1, <2>3, <2>4, <2>5, EndContainerImplements
  <1> QED BY <1>1, <1>2 DEF EndArray

LEMMA EndObjectImplements ==
    ASSUME DInv, IInv', EndObject
    PROVE  DInv' /\ D!Next
  <1>1. CASE Refuse(CheckEndObject)
    BY <1>1, RefuseImplements
  <1>2. CASE Accepts(CheckEndObject) /\ EndContainer(ObjectOutputSize)
    <2>1. ~failed /\ expect = "key" /\ expect_after_value = "key"
      BY <1>2 DEF Accepts, CheckEndObject, OK, DInv, IInv, ContainersNested
    <2>2. PICK output_size :
            output_size = SizeT(ObjectOutputSize(spool, current_container + HeaderSize,
                                                 Len(spool)))
      OBVIOUS
    <2>3. /\ Closed(spool, current_container,
                    SizeT(Len(spool) - current_container - SizeOfSize), output_size, spool')
          /\ stack' = Front(stack) /\ current_container' = stack[Len(stack)]
          /\ expect' = expect_after_value'
          /\ failed' = failed /\ ret' = OK
      BY <1>2, <2>2 DEF EndContainer, Succeed, Closed
    <2>4. Starts(OBJECT, "object", "key")
      BY DEF Starts
    <2>5. output_size = SizeT(OutputSize(spool, OBJECT, current_container + HeaderSize,
                                         Len(spool)))
      <3>1. OBJECT # ARRAY
        BY DEF OBJECT, ARRAY
      <3> QED BY <2>2, <3>1, Zenon DEF OutputSize
    <2> QED BY <2>1, <2>3, <2>4, <2>5, EndContainerImplements
  <1> QED BY <1>1, <1>2 DEF EndObject

\* write leaves the tree alone, whatever it leaves on the stack.
LEMMA WriteImplements ==
    ASSUME DInv, IInv', Write
    PROVE  DInv' /\ D!Next
  <1>1. CASE Refuse(CheckWrite)
    BY <1>1, RefuseImplements
  <1>2. CASE /\ Accepts(CheckWrite)
             /\ UNCHANGED <<spool, current_container, expects, failed>>
             /\ ret' = OK \/ ret' \in {"output", "system"}
    <2>1. ~failed /\ expect = "none"
      BY <1>2, WriteAcceptsComplete DEF DInv, Held
    <2>2. spool' = spool /\ failed' = failed /\ expect' = expect
      BY <1>2 DEF expects
    <2>3. DInv'
      <3>1. Finished'
        BY <2>1, <2>2, Zenon DEF DInv, Held, Finished
      <3> QED BY <2>1, <2>2, <3>1, Zenon DEF DInv, Held
    <2>4. /\ Open = <<>> /\ TextSoFar = <<>> /\ Root # <<>>
          /\ Open' = <<>> /\ TextSoFar' = <<>>
      BY <2>1, <2>2 DEF Open, TextSoFar, PartialText, Root
    <2>5. Root' = Root
      BY <2>2, Zenon DEF Root
    <2>6. CASE ret' = OK
      <3>1. Answer' = "ok"
        BY <2>6 DEF Answer
      <3>2. D!Write
        BY <2>1, <2>2, <2>4, <2>5, <3>1 DEF D!Write, D!Complete
      <3> QED BY <2>3, <3>1, <3>2, Zenon DEF D!Next
    <2>7. CASE ret' \in {"output", "system"}
      <3>1. Answer' = "error"
        BY <2>7 DEF Answer, OK
      <3>2. D!Refuse
        BY <2>2, <2>4, <2>5, <3>1, Zenon DEF D!Refuse
      <3> QED BY <2>3, <3>2, Zenon DEF D!Next
    <2> QED BY <1>2, <2>6, <2>7
  <1> QED BY <1>1, <1>2 DEF Write, buffers

\* Scalars in one call, decimals of the size that was counted for them.
LEMMA AddScalarImplements ==
    ASSUME CountedRight, DInv, IInv'
    PROVE  /\ \A type \in Constants : AddConstant(type) => DInv' /\ D!Next
           /\ \A text \in Texts : AddString(text) \/ AddBytes(text) => DInv' /\ D!Next
           /\ AddDecimalFromString => DInv' /\ D!Next
  <1>1. ASSUME Refuse(CheckExpectValue) PROVE DInv' /\ D!Next
    BY <1>1, RefuseImplements
  <1>2. ASSUME NEW payload \in Payloads, NEW pieces,
               Accepts(CheckExpectValue), PushScalar(Len(payload), payload, pieces)
        PROVE  DInv' /\ D!Next
    BY <1>2, PushScalarImplements
  <1>3. ASSUME NEW error \in {"invalid_utf8", "parameter_is_zero"}, Return(error)
        PROVE  DInv' /\ D!Next
    BY <1>3, RefusedImplements DEF Return, OK
  <1>4. ASSUME NEW type \in Constants, AddConstant(type) PROVE DInv' /\ D!Next
    <2>1. <<type>> \in Payloads /\ Len(<<type>>) = 1
      BY DEF Payloads
    <2> QED BY <1>1, <1>2, <1>4, <2>1 DEF AddConstant
  <1>5. ASSUME NEW text \in Texts, AddString(text) PROVE DInv' /\ D!Next
    <2>1. <<TYPE_STRING>> \o text \in Payloads
      BY Zenon DEF Payloads
    <2>2. Len(<<TYPE_STRING>> \o text) = 1 + Len(text)
      BY WriterAssumption DEF TYPE_STRING
    <2> QED BY <1>1, <1>2, <1>3, <1>5, <2>1, <2>2 DEF AddString
  <1>6. ASSUME NEW text \in Texts, AddBytes(text) PROVE DInv' /\ D!Next
    <2>1. <<TYPE_BYTES>> \o text \in Payloads
      BY Zenon DEF Payloads
    <2>2. Len(<<TYPE_BYTES>> \o text) = 1 + Len(text)
      BY WriterAssumption DEF TYPE_BYTES
    <2> QED BY <1>1, <1>2, <1>6, <2>1, <2>2 DEF AddBytes
  <1>7. ASSUME AddDecimalFromString PROVE DInv' /\ D!Next
    <2>1. ASSUME NEW decimal \in Decimals
          PROVE  decimal.payload \in Payloads /\ decimal.size = Len(decimal.payload)
      BY DEF Payloads, CountedRight
    <2>2. CASE Accepts(CheckExpectValue) /\ Fail("invalid_decimal_syntax")
      BY <2>2, FailImplements DEF Accepts, Fail, OK
    <2> QED BY <1>1, <1>2, <1>3, <1>7, <2>1, <2>2 DEF AddDecimalFromString
  <1> QED BY <1>4, <1>5, <1>6, <1>7

\* Between the calls nothing happens.
LEMMA StutterImplements ==
    ASSUME DInv, UNCHANGED vars
    PROVE  DInv' /\ UNCHANGED <<Root, Open, TextSoFar, failed, Answer>>
  <1>1. IInv'
    BY NextInv DEF DInv, Held
  <1>2. DInv'
    BY <1>1 DEF DInv, Held, Finished, vars, ContentHeld, ContentEnd, Headers, Taken, Saved
  <1>3. UNCHANGED <<Root, Open, TextSoFar, failed, Answer>>
    BY DEF vars, Root, Open, OpenFrames, Header, EndOfContent, ContentEnd, Saved,
           TextSoFar, PartialText, Answer
  <1> QED BY <1>2, <1>3

-----------------------------------------------------------------------------
(***************************************************************************)
(* The writer implements Document                                          *)
(***************************************************************************)

LEMMA InitDocument ==
    ASSUME Init
    PROVE  DInv /\ D!Init
  <1>1. IInv
    BY InitInv
  <1>2. /\ spool = <<>> /\ stack = <<>> /\ current_container = 0
        /\ expect = "value" /\ failed = FALSE /\ ret = OK
    BY DEF Init
  <1>3. Saved = 0 /\ ContentEnd = 0 /\ Len(spool) = 0
    BY <1>2 DEF Saved, ContentEnd
  <1>4. Headers \in Seq(Nat) /\ Len(Headers) = 0
    <2>1. Headers = <<>>
      BY <1>3 DEF Headers, HeadersOn
    <2> QED BY <2>1
  <1>5. Holds(spool, Headers, 0, Taken) /\ Rooted(Headers, 0)
    BY <1>3, <1>4 DEF Holds, Rooted, EndAt
  <1>6. ContentHeld
    BY <1>2, <1>3, <1>5, WriterAssumption DEF ContentHeld
  <1>7. Root = <<>> /\ Open = <<>> /\ TextSoFar = <<>> /\ Answer = "ok"
    BY <1>2, <1>3 DEF Root, Open, OpenFrames, TextSoFar, PartialText, Answer
  <1> QED BY <1>1, <1>2, <1>6, <1>7 DEF DInv, Held, D!Init

LEMMA NextDocument ==
    ASSUME CountedRight, DInv, [Next]_vars
    PROVE  DInv' /\ [D!Next]_(D!vars)
  <1>1. IInv'
    BY NextInv DEF DInv, Held
  <1>2. CASE UNCHANGED vars
    BY <1>2, StutterImplements DEF D!vars
  <1>3. ASSUME Next PROVE DInv' /\ D!Next
    <2>1. CASE BeginArray
      <3>1. Starts(ARRAY, "array", "value")
        BY DEF Starts
      <3> QED BY <1>1, <2>1, <3>1, BeginContainerImplements DEF BeginArray
    <2>2. CASE BeginObject
      <3>1. Starts(OBJECT, "object", "key")
        BY DEF Starts
      <3> QED BY <1>1, <2>2, <3>1, BeginContainerImplements DEF BeginObject
    <2>3. CASE EndArray \/ EndObject
      BY <1>1, <2>3, EndArrayImplements, EndObjectImplements
    <2>4. CASE \E type \in Constants : AddConstant(type)
      BY <1>1, <2>4, AddScalarImplements
    <2>5. CASE \E text \in Texts : AddString(text) \/ AddBytes(text) \/ AddKey(text)
      BY <1>1, <2>5, AddScalarImplements, AddKeyImplements
    <2>6. CASE AddDecimalFromString
      BY <1>1, <2>6, AddScalarImplements
    <2>7. CASE BeginKey \/ EndKey
      BY <1>1, <2>7, BeginKeyImplements, EndKeyImplements
    <2>8. CASE BeginString
      BY <1>1, <2>8, BeginScalarImplements DEF BeginString
    <2>9. CASE BeginBytes
      BY <1>1, <2>9, BeginScalarImplements DEF BeginBytes
    <2>10. CASE EndString
      BY <1>1, <2>10, EndScalarImplements DEF EndString
    <2>11. CASE EndBytes
      BY <1>1, <2>11, EndScalarImplements DEF EndBytes
    <2>12. ASSUME NEW text \in Texts,
                  AppendKey(text) \/ AppendString(text) \/ AppendBytes(text)
           PROVE  DInv' /\ D!Next
      <3>1. text \in Seq(Nat)
        BY WriterAssumption
      <3> QED BY <1>1, <2>12, <3>1, AppendSpoolImplements
              DEF AppendKey, AppendString, AppendBytes
    <2>13. CASE BeginDecimalFromString \/ EndDecimalFromString
      BY <1>1, <2>13, BeginDecimalImplements, EndDecimalImplements
    <2>14. ASSUME NEW text \in Texts, AppendDecimalFromString(text)
           PROVE  DInv' /\ D!Next
      <3>1. text \in Seq(Nat)
        BY WriterAssumption
      <3> QED BY <1>1, <2>14, <3>1, AppendDecimalImplements
    <2>15. CASE Write
      BY <1>1, <2>15, WriteImplements
    <2> QED BY <1>3, <2>1, <2>2, <2>3, <2>4, <2>5, <2>6, <2>7, <2>8, <2>9, <2>10,
               <2>11, <2>12, <2>13, <2>14, <2>15, Zenon DEF Next
  <1> QED BY <1>2, <1>3

\* Between the calls, what is on the spool and the stack is a tree of containers
\* as far as the content of the innermost one goes, behind which only what is
\* being added in parts lies (lib/writer.h, lib/writer/*.c).  That is so as long as
\* the decimals are counted right: behind one that is not, nothing is where the
\* sizes say (lib/writer/decimal.c:46, 416).
THEOREM DocumentInvariance ==
    ASSUME CountedRight
    PROVE  Spec => []DInv
  <1>1. DInv /\ [Next]_vars => DInv'
    BY NextDocument
  <1>2. Init => DInv
    BY InitDocument
  <1> QED BY <1>1, <1>2, PTL DEF Spec

\* The writer implements Document: whatever calls are made, in whatever order
\* and however many, and whichever of their pushes fail, what is on the spool
\* and on the stack is the tree that the calls have built, and a call changes
\* that tree only as it should or costs the whole document (lib/writer.c,
\* lib/writer/*.c).  The decimals among the values have to be counted right, as those
\* of texts shorter than a word are.
THEOREM WriterBuildsDocument ==
    ASSUME CountedRight
    PROVE  Spec => BuildsDocument
  <1>1. Init => D!Init
    BY InitDocument
  <1>2. DInv /\ [Next]_vars => [D!Next]_(D!vars)
    BY NextDocument
  <1>3. Spec => []DInv
    BY DocumentInvariance
  <1> QED BY <1>1, <1>2, <1>3, PTL DEF Spec, BuildsDocument, D!Spec

\* A call that is refused is not carried out.
LEMMA RefusedNotCarriedOut ==
    ASSUME NEW check, check \notin {"system", "invalid_utf8"}, Refuse(check)
    PROVE  ~CarriedOut /\ ~Accepts(check)
  BY DEF Refuse, Return, CarriedOut, Accepts, OK

LEMMA CallsFollow ==
    ASSUME DInv, Next
    PROVE  CallFollowsDocument
  <1>1. /\ D!ValueExpected <=> Accepts(CheckExpectValue)
        /\ D!KeyExpected <=> Accepts(CheckExpectKey)
        /\ D!EndExpected("array") <=> Accepts(CheckEndArray)
        /\ D!EndExpected("object") <=> Accepts(CheckEndObject)
    BY TreeTakes
  <1>2. ASSUME NEW check \in {CheckExpectValue, CheckExpectKey, CheckEndArray, CheckEndObject},
               Refuse(check)
        PROVE  ~CarriedOut /\ ~Accepts(check)
    <2>1. check \notin {"system", "invalid_utf8"}
      BY DEF CheckExpectValue, CheckExpectKey, CheckEndArray, CheckEndObject, OK
    <2> QED BY <1>2, <2>1, RefusedNotCarriedOut
  <1>3. ASSUME NEW type, NEW first, BeginContainer(type, first)
        PROVE  CarriedOut <=> Accepts(CheckExpectValue)
    <2>1. CASE Refuse(CheckExpectValue)
      BY <1>2, <2>1
    <2>2. CASE Accepts(CheckExpectValue) /\ ret' \in {OK, "system"}
      BY <2>2 DEF CarriedOut
    <2> QED BY <1>3, <2>1, <2>2 DEF BeginContainer, Succeed, Fail
  <1>4. ASSUME NEW type, NEW more, BeginScalar(type, more)
        PROVE  CarriedOut <=> Accepts(CheckExpectValue)
    <2>1. CASE Refuse(CheckExpectValue)
      BY <1>2, <2>1
    <2>2. CASE Accepts(CheckExpectValue) /\ ret' \in {OK, "system"}
      BY <2>2 DEF CarriedOut
    <2> QED BY <1>4, <2>1, <2>2 DEF BeginScalar, PushFails, Succeed, Fail
  <1>5. BeginDecimalFromString => (CarriedOut <=> Accepts(CheckExpectValue))
    <2>1. CASE Refuse(CheckExpectValue)
      BY <1>2, <2>1
    <2>2. CASE Accepts(CheckExpectValue) /\ ret' \in {OK, "system"}
      BY <2>2 DEF CarriedOut
    <2> QED BY <2>1, <2>2 DEF BeginDecimalFromString, Succeed, Fail
  <1>6. BeginKey => (CarriedOut <=> Accepts(CheckExpectKey))
    <2>1. CASE Refuse(CheckExpectKey)
      BY <1>2, <2>1
    <2>2. CASE Accepts(CheckExpectKey) /\ ret' \in {OK, "system"}
      BY <2>2 DEF CarriedOut
    <2> QED BY <2>1, <2>2 DEF BeginKey, Succeed, Fail
  <1>7. EndArray => (CarriedOut <=> Accepts(CheckEndArray))
    <2>1. CASE Refuse(CheckEndArray)
      BY <1>2, <2>1
    <2>2. CASE Accepts(CheckEndArray) /\ ret' = OK
      BY <2>2 DEF CarriedOut
    <2> QED BY <2>1, <2>2 DEF EndArray, EndContainer, Succeed
  <1>8. EndObject => (CarriedOut <=> Accepts(CheckEndObject))
    <2>1. CASE Refuse(CheckEndObject)
      BY <1>2, <2>1
    <2>2. CASE Accepts(CheckEndObject) /\ ret' = OK
      BY <2>2 DEF CarriedOut
    <2> QED BY <2>1, <2>2 DEF EndObject, EndContainer, Succeed
  <1>9. BeginArray \/ BeginObject \/ BeginString \/ BeginBytes \/ BeginDecimalFromString
          => (CarriedOut <=> D!ValueExpected)
    BY <1>1, <1>3, <1>4, <1>5 DEF BeginArray, BeginObject, BeginString, BeginBytes
  <1> QED BY <1>1, <1>6, <1>7, <1>8, <1>9 DEF CallFollowsDocument

\* Of documents of any size: a call is carried out when the tree can take it,
\* and refused when it cannot, though the writer decides from two variables
\* that it sets in different calls (lib/writer.c, lib/writer/container.c).  What the
\* tree is can only be said when the decimals in it are counted right.
THEOREM CallsFollowDocument ==
    ASSUME CountedRight
    PROVE  Spec => FollowsDocument
  <1>1. DInv /\ [Next]_vars => [CallFollowsDocument]_vars
    BY CallsFollow
  <1>2. Spec => []DInv
    BY DocumentInvariance
  <1> QED BY <1>1, <1>2, PTL DEF Spec, FollowsDocument


\* A finished document is as long as the size in its head says.
LEMMA FinishedSize ==
    ASSUME HashIsNumber, DInv
    PROVE  SizePredicted
  <1> SUFFICES ASSUME Accepts(CheckWrite) PROVE SizeValue(spool, 0) = Len(Emit(spool, 0))
    BY DEF SizePredicted
  <1>1. ~failed /\ expect = "none"
    BY WriteAcceptsComplete DEF DInv
  <1>2. WellSized(spool, 0) /\ EndOfValue(spool, 0) = Len(spool)
    BY <1>1, Zenon DEF DInv, Held, Finished
  <1>3. spool \in Seq(Nat) /\ Len(spool) <= Len(spool)
    BY DEF DInv, IInv, TypeOK
  <1>4. Emits(spool, 0)
    <2>1. 0 \in Nat /\ EndOfValue(spool, 0) <= Len(spool)
      BY <1>2, <1>3
    <2> QED BY <1>2, <1>3, <2>1, WellSizedNow
  <1> QED BY <1>4, Zenon DEF Emits, Emit

\* The size that the end of the outermost array or object, or the scalar that
\* is the document, has put on the spool is the size of what write sends, at
\* whatever depth, with whatever keys in whatever order: the ends of arrays and
\* objects compute it from the sizes on the spool alone, and write computes the
\* offsets in the output from the same sizes (lib/writer/array.c,
\* lib/writer/object.c).  Of the hash no more is assumed than that it is a
\* number, as rapidhash's is: different keys may have the same.  Of a decimal the
\* size that both use is the one that was counted, which has to be right.
THEOREM SizesArePredicted ==
    ASSUME HashIsNumber, CountedRight
    PROVE  Spec => []SizePredicted
  <1>1. DInv => SizePredicted
    BY FinishedSize
  <1>2. Spec => []DInv
    BY DocumentInvariance
  <1> QED BY <1>1, <1>2, PTL
=====
