---------------------------- MODULE ToJsonProofs ----------------------------
(***************************************************************************)
(* Proofs that the conversion to JSON keeps inside the document and puts   *)
(* out a beginning of its JSON, for documents of any size, whatever their  *)
(* bytes are.                                                              *)
(***************************************************************************)
EXTENDS ToJson, NumberLemmas

Slices == [buffer : Nat, size : Nat]

\* The analysis of a container of the document d.
AnalysisOf(d, v) == IF IsArray(TypeOf(d, v)) THEN ArrayAnalyze(d, v) ELSE ObjectAnalyze(d, v)

\* A container of the document d that is being converted.
Frames(d) == {[value |-> v, analysis |-> AnalysisOf(d, v), u |-> n] : v \in Slices, n \in Nat}

\* A slice of the document d that has a type byte.
InDocument(d, v) == v \in Slices /\ v.size > 0 /\ SliceEnd(v) <= Len(d)

\* A container of which the analysis has found nothing wrong.
IsContainer(d, v) ==
    /\ InDocument(d, v)
    /\ IsArray(TypeOf(d, v)) \/ IsObject(TypeOf(d, v))
    /\ AnalysisOf(d, v).error = OK

\* Where the data of a container v lies that has items.
DataInside(v, count, data, highest) ==
    /\ count \in Nat
    /\ count > 0 => /\ data \in Nat /\ v.buffer < data
                    /\ highest \in Nat
                    /\ data + highest + count = SliceEnd(v)

(***************************************************************************)
(* The invariant: each container lies inside the one before it, and so     *)
(* does what is converted next.                                            *)
(***************************************************************************)
Nested(d, containers) ==
    /\ \A i \in 1..Len(containers) : IsContainer(d, containers[i].value)
    /\ containers # <<>> => containers[1].value = Root(d)
    /\ \A i \in 1..(Len(containers) - 1) : Inside(containers[i + 1].value, containers[i].value)

MayFollow(d, containers, v) ==
    /\ v \in Slices
    /\ containers = <<>> => v = Root(d)
    /\ containers # <<>> => InDocument(d, v) /\ Inside(v, containers[Len(containers)].value)

ConvertInv ==
    /\ doc \in Seq(Nat)
    /\ frames \in Seq(Frames(doc))
    /\ Nested(doc, frames)
    /\ pending = <<>> \/ \E v \in Slices : pending = <<v>> /\ MayFollow(doc, frames, v)

-----------------------------------------------------------------------------
(***************************************************************************)
(* Analyses and items                                                      *)
(***************************************************************************)

LEMMA WidthInBytes ==
    ASSUME NEW n \in Nat
    PROVE  2 ^ (n % 4) \in {1, 2, 4, 8}
  <1>1. n % 4 \in 0..3
    OBVIOUS
  <1>2. n % 4 = 0 \/ n % 4 = 1 \/ n % 4 = 2 \/ n % 4 = 3
    BY <1>1
  <1>3. 2 ^ 0 = 1 /\ 2 ^ 1 = 2 /\ 2 ^ 2 = 4 /\ 2 ^ 3 = 8
    OBVIOUS
  <1>4. QED  BY <1>2, <1>3

LEMMA Widths ==
    ASSUME NEW type \in Nat
    PROVE  /\ CountWidth(type) \in {1, 2, 4, 8}
           /\ IndexWidth(type) \in {1, 2, 4, 8}
           /\ ValuesWidth(type) \in {1, 2, 4, 8}
  <1>1. type \div 4 \in Nat /\ type \div 16 \in Nat
    OBVIOUS
  <1>2. QED  BY <1>1, WidthInBytes DEF CountWidth, IndexWidth, ValuesWidth

\* A container of which the analysis accepts the count, n + 1, has room for its
\* index, which has n entries, and for the types of its items.
LEMMA RoomForItems ==
    ASSUME NEW n \in Nat, NEW width \in {1, 2, 4, 8}, NEW room \in Int,
           n + 1 <= (room + width) \div (width + 1)
    PROVE  n * width + (n + 1) <= room
  <1>1. CASE width = 1
    BY <1>1
  <1>2. CASE width = 2
    BY <1>2
  <1>3. CASE width = 4
    BY <1>3
  <1>4. CASE width = 8
    BY <1>4
  <1>5. QED  BY <1>1, <1>2, <1>3, <1>4

LEMMA SliceFacts ==
    ASSUME NEW d \in Seq(Nat), NEW v, InDocument(d, v)
    PROVE  /\ v \in Slices /\ v.buffer \in Nat /\ v.size \in Nat /\ v.size > 0
           /\ SliceEnd(v) = v.buffer + v.size /\ SliceEnd(v) \in Nat /\ SliceEnd(v) <= Len(d)
           /\ TypeOf(d, v) \in Nat
  BY DEF InDocument, Slices, SliceEnd, TypeOf

LEMMA ArrayFacts ==
    ASSUME NEW d \in Seq(Nat), NEW v, InDocument(d, v),
           NEW a, a = ArrayAnalyze(d, v), a.error = OK
    PROVE  DataInside(v, a.count, a.data, a.highest)
  <1> DEFINE type == TypeOf(d, v)
             count_size == CountWidth(type)
             width == IndexWidth(type)
             raw_count == ReadMinimalInt(d, v.buffer + 1, count_size)
             index == v.buffer + 1 + count_size
             data == index + raw_count * width
             head == AnalyzeCount(d, v, IsArray)
  <1>1. /\ v.buffer \in Nat /\ v.size \in Nat \ {0} /\ SliceEnd(v) \in Nat /\ type \in Nat
    BY SliceFacts
  <1>2. count_size \in {1, 2, 4, 8} /\ width \in {1, 2, 4, 8}
    BY <1>1, Widths
  <1> HIDE DEF width, count_size, type
  <1>3. head.error = OK
    BY DEF ArrayAnalyze
  <1>4. CASE head = [error |-> OK, count |-> 0]
    BY <1>4 DEF ArrayAnalyze, DataInside
  <1>5. CASE /\ head = [error |-> OK, count |-> raw_count + 1, index |-> index]
             /\ raw_count \in 0..(SizeMax - 1)
    <2>1. raw_count \in Nat
      BY <1>5, SizeMaxAssumption
    <2> HIDE DEF raw_count, index
    <2>2. a = [error |-> OK, count |-> raw_count + 1, index |-> index, width |-> width,
               data |-> data, highest |-> SliceEnd(v) - data - (raw_count + 1)]
          /\ ~(raw_count + 1 > (SliceEnd(v) - index + width) \div (width + 1))
      BY <1>5, <2>1 DEF ArrayAnalyze, width, type, Error, OK
    <2>3. index \in Nat /\ v.buffer < index
      BY <1>1, <1>2 DEF index
    <2>4. raw_count * width + (raw_count + 1) <= SliceEnd(v) - index
      <3>1. SliceEnd(v) - index \in Int
        BY <1>1, <2>3
      <3>2. raw_count + 1 <= (SliceEnd(v) - index + width) \div (width + 1)
        <4>1. (SliceEnd(v) - index + width) \div (width + 1) \in Int
          BY <1>2, <3>1
        <4>2. QED  BY <2>1, <2>2, <4>1
      <3>3. QED  BY <1>2, <2>1, <3>1, <3>2, RoomForItems
    <2>5. raw_count * width \in Nat
      BY <1>2, <2>1
    <2>6. /\ a.count = raw_count + 1
          /\ a.data = index + raw_count * width
          /\ a.highest = SliceEnd(v) - (index + raw_count * width) - (raw_count + 1)
      BY <2>2
    <2> DEFINE before == raw_count * width
               count == raw_count + 1
               end == SliceEnd(v)
    <2>7. /\ before \in Nat /\ count \in Nat /\ end \in Nat
          /\ before + count <= end - index
      BY <1>1, <2>1, <2>4, <2>5
    <2>8. a.count = count /\ a.data = index + before /\ a.highest = end - (index + before) - count
      BY <2>6
    <2>9. end = SliceEnd(v)
      OBVIOUS
    <2> HIDE DEF before, count, end
    <2>10. /\ index + before \in Nat /\ v.buffer < index + before
           /\ end - (index + before) - count \in Nat
           /\ index + before + (end - (index + before) - count) + count = end
      BY <1>1, <2>3, <2>7
    <2>11. a.data + a.highest + a.count = SliceEnd(v)
      BY <2>8, <2>9, <2>10
    <2>12. a.count \in Nat /\ a.data \in Nat /\ v.buffer < a.data /\ a.highest \in Nat
      BY <2>7, <2>8, <2>10
    <2>13. QED
      BY <2>11, <2>12 DEF DataInside
  <1>6. QED
    BY <1>1, <1>3, <1>4, <1>5 DEF AnalyzeCount, Error, OK, type, count_size

LEMMA ObjectFacts ==
    ASSUME NEW d \in Seq(Nat), NEW v, InDocument(d, v),
           NEW o, o = ObjectAnalyze(d, v), o.error = OK
    PROVE  /\ DataInside(v, o.count, o.value_data, o.highest)
           /\ o.count > 0 => /\ o.key_data \in Nat /\ o.last_key_end \in Nat
                             /\ o.value_data = o.key_data + o.last_key_end
  <1> DEFINE type == TypeOf(d, v)
             count_size == CountWidth(type)
             key_width == IndexWidth(type)
             value_width == ValuesWidth(type)
             raw_count == ReadMinimalInt(d, v.buffer + 1, count_size)
             index == v.buffer + 1 + count_size
             value_index == index + (raw_count + 1) * key_width
             key_data == value_index + raw_count * value_width
             last_key_end == ReadMinimalInt(d, value_index - key_width, key_width)
             head == AnalyzeCount(d, v, IsObject)
  <1>1. /\ v.buffer \in Nat /\ v.size \in Nat \ {0} /\ SliceEnd(v) \in Nat /\ type \in Nat
    BY SliceFacts
  <1>2. count_size \in {1, 2, 4, 8} /\ key_width \in {1, 2, 4, 8} /\ value_width \in {1, 2, 4, 8}
    BY <1>1, Widths
  <1> HIDE DEF key_width, value_width, count_size, type
  <1>3. head.error = OK
    BY DEF ObjectAnalyze
  <1>4. CASE head = [error |-> OK, count |-> 0]
    BY <1>4 DEF ObjectAnalyze, DataInside
  <1>5. CASE /\ head = [error |-> OK, count |-> raw_count + 1, index |-> index]
             /\ raw_count \in 0..(SizeMax - 1)
    <2>1. raw_count \in Nat
      BY <1>5, SizeMaxAssumption
    <2> HIDE DEF raw_count, index
    <2>2. (raw_count + 1) - 1 = raw_count
      BY <2>1
    <2>3. /\ o.count = raw_count + 1
          /\ o.value_data = key_data + last_key_end
          /\ o.highest = SliceEnd(v) - (key_data + last_key_end) - (raw_count + 1)
          /\ o.key_data = key_data /\ o.last_key_end = last_key_end
          /\ last_key_end \in 0..(SliceEnd(v) - key_data - (raw_count + 1))
      BY <1>5, <2>2 DEF ObjectAnalyze, key_width, value_width, type, Error, OK
    <2>4. index \in Nat /\ v.buffer < index
      BY <1>1, <1>2 DEF index
    <2> DEFINE keys_index == (raw_count + 1) * key_width
               values_index == raw_count * value_width
    <2>5. keys_index \in Nat /\ values_index \in Nat /\ raw_count + 1 \in Nat
      BY <1>2, <2>1
    <2> HIDE DEF keys_index, values_index, last_key_end
    <2>6. key_data = index + keys_index + values_index
      BY DEF keys_index, values_index
    <2>7. key_data \in Nat /\ v.buffer < key_data
      BY <1>1, <2>4, <2>5, <2>6
    <2> DEFINE count == raw_count + 1
               end == SliceEnd(v)
               data == key_data + last_key_end
    <2>8. count \in Nat /\ end \in Nat /\ o.count = count /\ end = SliceEnd(v)
      BY <1>1, <2>3, <2>5
    <2>9. last_key_end \in 0..(end - key_data - count)
      BY <2>3
    <2>10. o.value_data = data /\ o.highest = end - data - count
      BY <2>3
    <2> HIDE DEF key_data, count, end
    <2>11. data \in Nat /\ v.buffer < data
      BY <1>1, <2>7, <2>8, <2>9
    <2>12. end - data - count \in Nat /\ data + (end - data - count) + count = end
      BY <2>7, <2>8, <2>9
    <2> HIDE DEF data
    <2>13. o.value_data + o.highest + o.count = SliceEnd(v)
      BY <2>8, <2>10, <2>12
    <2>14. o.count \in Nat /\ o.value_data \in Nat /\ v.buffer < o.value_data /\ o.highest \in Nat
      BY <2>8, <2>10, <2>11, <2>12
    <2>15. o.key_data \in Nat /\ o.last_key_end \in Nat
      <3>1. last_key_end \in Nat
        BY <2>9
      <3> QED BY <2>3, <2>7, <3>1 DEF key_data
    <2>16. o.value_data = o.key_data + o.last_key_end
      BY <2>3 DEF key_data
    <2>17. QED
      BY <2>13, <2>14, <2>15, <2>16 DEF DataInside
  <1>6. QED
    BY <1>1, <1>3, <1>4, <1>5 DEF AnalyzeCount, Error, OK, type, count_size

-----------------------------------------------------------------------------
(***************************************************************************)
(* Items                                                                   *)
(***************************************************************************)

\* An item with offsets in order is a part of its container.
LEMMA ItemInside ==
    ASSUME NEW d \in Seq(Nat), NEW v, InDocument(d, v),
           NEW count, NEW data, NEW highest, DataInside(v, count, data, highest),
           NEW i \in 0..(count - 1), NEW start, NEW end, Ordered(start, end, highest),
           NEW value, value = Slice(data + start + i, end + 1 - start)
    PROVE  /\ InDocument(d, value)
           /\ Inside(value, v)
           /\ value.buffer = data + start + i
           /\ SliceEnd(value) = data + end + i + 1
  <1>1. count \in Nat /\ i \in Nat /\ i + 1 <= count /\ count > 0
    BY DEF DataInside
  <1>2. data \in Nat /\ v.buffer < data /\ highest \in Nat /\ data + highest + count = SliceEnd(v)
    BY <1>1 DEF DataInside
  <1>3. start \in Nat /\ end \in Nat /\ end <= highest /\ start <= end
    BY <1>2 DEF Ordered
  <1>4. v.buffer \in Nat /\ SliceEnd(v) \in Nat /\ SliceEnd(v) <= Len(d) /\ Len(d) \in Nat
    BY SliceFacts
  <1>5. value.buffer = data + start + i /\ value.size = end + 1 - start
    BY DEF Slice
  <1>6. value.buffer \in Nat /\ value.size \in Nat /\ value.size > 0
    BY <1>1, <1>2, <1>3, <1>5
  <1>7. value \in Slices
    BY <1>5, <1>6 DEF Slices, Slice
  <1>8. SliceEnd(value) = data + end + i + 1
    BY <1>1, <1>2, <1>3, <1>5 DEF SliceEnd
  <1>9. data + end + i + 1 <= data + highest + count
    BY <1>1, <1>2, <1>3
  <1>10. SliceEnd(value) <= SliceEnd(v)
    BY <1>2, <1>8, <1>9
  <1>11. v.buffer < data + start + i
    BY <1>1, <1>2, <1>3, <1>4
  <1>12. data + end + i + 1 \in Nat
    BY <1>1, <1>2, <1>3
  <1>13. SliceEnd(value) <= Len(d)
    BY <1>4, <1>8, <1>10, <1>12
  <1>14. Inside(value, v)
    BY <1>5, <1>10, <1>11 DEF Inside
  <1>15. QED
    BY <1>5, <1>6, <1>7, <1>8, <1>13, <1>14 DEF InDocument

LEMMA ArrayItem ==
    ASSUME NEW d \in Seq(Nat), NEW v, InDocument(d, v),
           NEW a, a = ArrayAnalyze(d, v), a.error = OK, NEW i \in 0..(a.count - 1),
           NEW item, item = ArrayGetIndex(d, a, i), item.error = OK
    PROVE  LET start == StartOffset(d, a.index, a.width, i)
               end   == EndOffset(d, a.index, a.width, i, a.count, a.highest)
           IN  /\ InDocument(d, item.value)
               /\ Inside(item.value, v)
               /\ item.value.buffer = a.data + start + i
               /\ SliceEnd(item.value) = a.data + end + i + 1
               /\ start \in Nat /\ end \in Nat
  <1> DEFINE start == StartOffset(d, a.index, a.width, i)
             end   == EndOffset(d, a.index, a.width, i, a.count, a.highest)
  <1>1. DataInside(v, a.count, a.data, a.highest)
    BY ArrayFacts
  <1>2. /\ Ordered(start, end, a.highest)
        /\ item.value = Slice(a.data + start + i, end + 1 - start)
    BY DEF ArrayGetIndex, Error, OK
  <1>3. start \in Nat /\ end \in Nat
    BY <1>2 DEF Ordered
  <1> HIDE DEF start, end
  <1>4. /\ InDocument(d, item.value)
        /\ Inside(item.value, v)
        /\ item.value.buffer = a.data + start + i
        /\ SliceEnd(item.value) = a.data + end + i + 1
    BY <1>1, <1>2, ItemInside
  <1>5. QED
    BY <1>3, <1>4 DEF start, end

LEMMA ObjectItem ==
    ASSUME NEW d \in Seq(Nat), NEW v, InDocument(d, v),
           NEW o, o = ObjectAnalyze(d, v), o.error = OK, NEW i \in 0..(o.count - 1),
           NEW item, item = ObjectGetIndex(d, o, i), item.error = OK
    PROVE  LET start == StartOffset(d, o.value_index, o.value_width, i)
               end   == EndOffset(d, o.value_index, o.value_width, i, o.count, o.highest)
           IN  /\ InDocument(d, item.value)
               /\ Inside(item.value, v)
               /\ item.value.buffer = o.value_data + start + i
               /\ SliceEnd(item.value) = o.value_data + end + i + 1
               /\ start \in Nat /\ end \in Nat
  <1> DEFINE start == StartOffset(d, o.value_index, o.value_width, i)
             end   == EndOffset(d, o.value_index, o.value_width, i, o.count, o.highest)
  <1>1. DataInside(v, o.count, o.value_data, o.highest)
    BY ObjectFacts
  <1>2. /\ Ordered(start, end, o.highest)
        /\ item.value = Slice(o.value_data + start + i, end + 1 - start)
    BY DEF ObjectGetIndex, Error, OK
  <1>3. start \in Nat /\ end \in Nat
    BY <1>2 DEF Ordered
  <1> HIDE DEF start, end
  <1>4. /\ InDocument(d, item.value)
        /\ Inside(item.value, v)
        /\ item.value.buffer = o.value_data + start + i
        /\ SliceEnd(item.value) = o.value_data + end + i + 1
    BY <1>1, <1>2, ItemInside
  <1>5. QED
    BY <1>3, <1>4 DEF start, end

LEMMA AddOne ==
    ASSUME NEW x \in Nat, NEW y \in Nat, NEW i \in Nat
    PROVE  x + y + (i + 1) = x + y + i + 1
  OBVIOUS

\* The items of an array that can be read follow one another up to its end.
LEMMA ArrayTiles ==
    ASSUME NEW d \in Seq(Nat), NEW v, InDocument(d, v),
           NEW a, a = ArrayAnalyze(d, v), a.error = OK
    PROVE  \A i \in 0..(a.count - 1) :
             ArrayGetIndex(d, a, i).error = OK =>
               IF i = a.count - 1 THEN SliceEnd(ArrayGetIndex(d, a, i).value) = SliceEnd(v)
               ELSE ArrayGetIndex(d, a, i + 1).error = OK =>
                      ArrayGetIndex(d, a, i + 1).value.buffer
                        = SliceEnd(ArrayGetIndex(d, a, i).value)
  <1> DEFINE Item(i)  == ArrayGetIndex(d, a, i)
             Start(i) == StartOffset(d, a.index, a.width, i)
             End(i)   == EndOffset(d, a.index, a.width, i, a.count, a.highest)
  <1>1. SUFFICES ASSUME NEW i \in 0..(a.count - 1), Item(i).error = OK
                 PROVE  IF i = a.count - 1 THEN SliceEnd(Item(i).value) = SliceEnd(v)
                        ELSE Item(i + 1).error = OK =>
                               Item(i + 1).value.buffer = SliceEnd(Item(i).value)
    OBVIOUS
  <1>2. DataInside(v, a.count, a.data, a.highest)
    BY ArrayFacts
  <1>3. a.count \in Nat /\ i \in Nat /\ a.data \in Nat /\ a.highest \in Nat
        /\ a.data + a.highest + a.count = SliceEnd(v)
    BY <1>2 DEF DataInside
  <1>4. SliceEnd(Item(i).value) = a.data + End(i) + i + 1 /\ End(i) \in Nat
    BY <1>1, ArrayItem
  <1>5. CASE i = a.count - 1
    <2>1. End(i) = a.highest
      BY <1>5 DEF EndOffset
    <2>2. a.data + a.highest + i + 1 = a.data + a.highest + a.count
      BY <1>3, <1>5
    <2>3. QED  BY <1>3, <1>4, <1>5, <2>1, <2>2
  <1>6. CASE i # a.count - 1
    <2>1. i + 1 \in 0..(a.count - 1) /\ (i + 1) - 1 = i /\ i + 1 # 0
      BY <1>3, <1>6
    <2>2. Start(i + 1) = End(i)
      BY <1>6, <2>1 DEF StartOffset, EndOffset
    <2> SUFFICES ASSUME Item(i + 1).error = OK
                 PROVE  Item(i + 1).value.buffer = SliceEnd(Item(i).value)
      BY <1>6
    <2>3. Item(i + 1).value.buffer = a.data + Start(i + 1) + (i + 1)
      BY <2>1, ArrayItem
    <2> HIDE DEF Item, Start, End
    <2>4. a.data \in Nat /\ End(i) \in Nat /\ i \in Nat
      BY <1>3, <1>4
    <2>5. a.data + End(i) + (i + 1) = a.data + End(i) + i + 1
      BY <2>4, AddOne
    <2>6. QED  BY <1>4, <2>2, <2>3, <2>5
  <1>7. QED  BY <1>5, <1>6

\* The values of an object that can be read follow one another up to its end.
LEMMA ObjectTiles ==
    ASSUME NEW d \in Seq(Nat), NEW v, InDocument(d, v),
           NEW o, o = ObjectAnalyze(d, v), o.error = OK
    PROVE  \A i \in 0..(o.count - 1) :
             ObjectGetIndex(d, o, i).error = OK =>
               IF i = o.count - 1 THEN SliceEnd(ObjectGetIndex(d, o, i).value) = SliceEnd(v)
               ELSE ObjectGetIndex(d, o, i + 1).error = OK =>
                      ObjectGetIndex(d, o, i + 1).value.buffer
                        = SliceEnd(ObjectGetIndex(d, o, i).value)
  <1> DEFINE Item(i)  == ObjectGetIndex(d, o, i)
             Start(i) == StartOffset(d, o.value_index, o.value_width, i)
             End(i)   == EndOffset(d, o.value_index, o.value_width, i, o.count, o.highest)
  <1>1. SUFFICES ASSUME NEW i \in 0..(o.count - 1), Item(i).error = OK
                 PROVE  IF i = o.count - 1 THEN SliceEnd(Item(i).value) = SliceEnd(v)
                        ELSE Item(i + 1).error = OK =>
                               Item(i + 1).value.buffer = SliceEnd(Item(i).value)
    OBVIOUS
  <1>2. DataInside(v, o.count, o.value_data, o.highest)
    BY ObjectFacts
  <1>3. o.count \in Nat /\ i \in Nat /\ o.value_data \in Nat /\ o.highest \in Nat
        /\ o.value_data + o.highest + o.count = SliceEnd(v)
    BY <1>2 DEF DataInside
  <1>4. SliceEnd(Item(i).value) = o.value_data + End(i) + i + 1 /\ End(i) \in Nat
    BY <1>1, ObjectItem
  <1>5. CASE i = o.count - 1
    <2>1. End(i) = o.highest
      BY <1>5 DEF EndOffset
    <2>2. o.value_data + o.highest + i + 1 = o.value_data + o.highest + o.count
      BY <1>3, <1>5
    <2>3. QED  BY <1>3, <1>4, <1>5, <2>1, <2>2
  <1>6. CASE i # o.count - 1
    <2>1. i + 1 \in 0..(o.count - 1) /\ (i + 1) - 1 = i /\ i + 1 # 0
      BY <1>3, <1>6
    <2>2. Start(i + 1) = End(i)
      BY <1>6, <2>1 DEF StartOffset, EndOffset
    <2> SUFFICES ASSUME Item(i + 1).error = OK
                 PROVE  Item(i + 1).value.buffer = SliceEnd(Item(i).value)
      BY <1>6
    <2>3. Item(i + 1).value.buffer = o.value_data + Start(i + 1) + (i + 1)
      BY <2>1, ObjectItem
    <2> HIDE DEF Item, Start, End
    <2>4. o.value_data \in Nat /\ End(i) \in Nat /\ i \in Nat
      BY <1>3, <1>4
    <2>5. o.value_data + End(i) + (i + 1) = o.value_data + End(i) + i + 1
      BY <2>4, AddOne
    <2>6. QED  BY <1>4, <2>2, <2>3, <2>5
  <1>7. QED  BY <1>5, <1>6

LEMMA ContainerTiles ==
    ASSUME doc \in Seq(Nat), NEW v, IsContainer(doc, v)
    PROVE  ItemsTile(v, AnalysisOf(doc, v))
  <1>1. InDocument(doc, v) /\ AnalysisOf(doc, v).error = OK
    BY DEF IsContainer
  <1>2. CASE IsArray(TypeOf(doc, v))
    <2>1. AnalysisOf(doc, v) = ArrayAnalyze(doc, v)
      BY <1>2 DEF AnalysisOf
    <2> DEFINE a == ArrayAnalyze(doc, v)
    <2>2. \A i \in 0..(a.count - 1) :
            ArrayGetIndex(doc, a, i).error = OK =>
              IF i = a.count - 1 THEN SliceEnd(ArrayGetIndex(doc, a, i).value) = SliceEnd(v)
              ELSE ArrayGetIndex(doc, a, i + 1).error = OK =>
                     ArrayGetIndex(doc, a, i + 1).value.buffer
                       = SliceEnd(ArrayGetIndex(doc, a, i).value)
      BY <1>1, <2>1, ArrayTiles
    <2>3. QED  BY <1>2, <2>1, <2>2 DEF ItemsTile, Tiles
  <1>3. CASE ~IsArray(TypeOf(doc, v))
    <2>1. AnalysisOf(doc, v) = ObjectAnalyze(doc, v)
      BY <1>3 DEF AnalysisOf
    <2> DEFINE o == ObjectAnalyze(doc, v)
    <2>2. \A i \in 0..(o.count - 1) :
            ObjectGetIndex(doc, o, i).error = OK =>
              IF i = o.count - 1 THEN SliceEnd(ObjectGetIndex(doc, o, i).value) = SliceEnd(v)
              ELSE ObjectGetIndex(doc, o, i + 1).error = OK =>
                     ObjectGetIndex(doc, o, i + 1).value.buffer
                       = SliceEnd(ObjectGetIndex(doc, o, i).value)
      BY <1>1, <2>1, ObjectTiles
    <2>3. QED  BY <1>3, <2>1, <2>2 DEF ItemsTile, Tiles
  <1>4. QED  BY <1>2, <1>3

-----------------------------------------------------------------------------
(***************************************************************************)
(* The containers that are being converted                                 *)
(***************************************************************************)

\* A container is entered.
LEMMA NestedPush ==
    ASSUME NEW d, NEW containers \in Seq(Frames(d)), Nested(d, containers),
           NEW v, MayFollow(d, containers, v), IsContainer(d, v),
           NEW frame, frame = [value |-> v, analysis |-> AnalysisOf(d, v), u |-> 0]
    PROVE  /\ Append(containers, frame) \in Seq(Frames(d))
           /\ Nested(d, Append(containers, frame))
  <1> DEFINE after == Append(containers, frame)
  <1>1. frame \in Frames(d)
    BY DEF MayFollow, Frames
  <1>2. /\ Len(containers) \in Nat /\ Len(after) = Len(containers) + 1
        /\ after[Len(after)] = frame
        /\ \A i \in 1..Len(containers) : after[i] = containers[i]
    OBVIOUS
  <1>3. after \in Seq(Frames(d))
    BY <1>1
  <1> HIDE DEF after
  <1>4. frame.value = v
    OBVIOUS
  <1>5. \A i \in 1..Len(after) : IsContainer(d, after[i].value)
    <2> SUFFICES ASSUME NEW i \in 1..Len(after)
                 PROVE  IsContainer(d, after[i].value)
      OBVIOUS
    <2>1. CASE i = Len(after)
      BY <1>2, <1>4, <2>1
    <2>2. CASE i \in 1..Len(containers)
      BY <1>2, <2>2 DEF Nested
    <2>3. QED  BY <1>2, <2>1, <2>2
  <1>6. after[1].value = Root(d)
    <2>1. CASE containers = <<>>
      BY <1>2, <1>4, <2>1 DEF MayFollow
    <2>2. CASE containers # <<>>
      <3>1. 1 \in 1..Len(containers)
        BY <1>2, <2>2
      <3>2. QED  BY <1>2, <2>2, <3>1 DEF Nested
    <2>3. QED  BY <2>1, <2>2
  <1>7. ASSUME NEW i \in 1..(Len(after) - 1)
        PROVE  Inside(after[i + 1].value, after[i].value)
    <2>1. i \in 1..Len(containers) /\ after[i] = containers[i]
      BY <1>2
    <2>2. CASE i = Len(containers)
      <3>1. after[i + 1] = frame /\ containers # <<>>
        BY <1>2, <2>1, <2>2
      <3>2. QED  BY <1>4, <2>1, <2>2, <3>1 DEF MayFollow
    <2>3. CASE i # Len(containers)
      <3>1. i \in 1..(Len(containers) - 1) /\ i + 1 \in 1..Len(containers)
        BY <1>2, <2>1, <2>3
      <3>2. QED  BY <1>2, <2>1, <3>1 DEF Nested
    <2>4. QED  BY <2>2, <2>3
  <1>8. Nested(d, after)
    BY <1>5, <1>6, <1>7 DEF Nested
  <1>9. QED  BY <1>3, <1>8 DEF after

\* The innermost container is left.
LEMMA NestedPop ==
    ASSUME NEW d, NEW containers \in Seq(Frames(d)), Nested(d, containers), containers # <<>>
    PROVE  /\ Front(containers) \in Seq(Frames(d))
           /\ Nested(d, Front(containers))
  <1> DEFINE after == Front(containers)
  <1>1. Len(containers) \in Nat \ {0}
    OBVIOUS
  <1>2. after \in Seq(Frames(d))
    BY <1>1 DEF Front
  <1>3. after = [i \in 1..(Len(containers) - 1) |-> containers[i]]
    <2>1. after = [i \in 1..((Len(containers) - 1) - 1 + 1) |-> containers[i + 1 - 1]]
      BY <1>1 DEF Front
    <2>2. QED  BY <1>1, <2>1
  <1>4. /\ Len(after) = Len(containers) - 1
        /\ \A i \in 1..Len(after) : after[i] = containers[i]
    BY <1>1, <1>3
  <1> HIDE DEF after
  <1>5. \A i \in 1..Len(after) : IsContainer(d, after[i].value)
    <2> SUFFICES ASSUME NEW i \in 1..Len(after)
                 PROVE  IsContainer(d, after[i].value)
      OBVIOUS
    <2>1. i \in 1..Len(containers)
      BY <1>1, <1>4
    <2>2. QED  BY <1>4, <2>1 DEF Nested
  <1>6. after # <<>> => after[1].value = Root(d)
    <2> SUFFICES ASSUME after # <<>>
                 PROVE  after[1].value = Root(d)
      OBVIOUS
    <2>1. 1 \in 1..Len(after)
      BY <1>2
    <2>2. QED  BY <1>4, <2>1 DEF Nested
  <1>7. ASSUME NEW i \in 1..(Len(after) - 1)
        PROVE  Inside(after[i + 1].value, after[i].value)
    <2>1. i \in 1..Len(after) /\ i + 1 \in 1..Len(after) /\ i \in 1..(Len(containers) - 1)
      BY <1>1, <1>4
    <2>2. QED  BY <1>4, <2>1 DEF Nested
  <1>8. Nested(d, after)
    BY <1>5, <1>6, <1>7 DEF Nested
  <1>9. QED  BY <1>2, <1>8 DEF after

\* The next item of the innermost container is its turn.
LEMMA NestedNext ==
    ASSUME NEW d, NEW containers \in Seq(Frames(d)), Nested(d, containers), containers # <<>>,
           NEW n \in Nat,
           NEW after, after = [containers EXCEPT ![Len(containers)].u = n]
    PROVE  /\ after \in Seq(Frames(d))
           /\ Nested(d, after)
           /\ Len(after) = Len(containers)
           /\ after[Len(after)].value = containers[Len(containers)].value
  <1>1. Len(containers) \in Nat \ {0} /\ Len(containers) \in 1..Len(containers)
    OBVIOUS
  <1> DEFINE last == containers[Len(containers)]
             frame == [last EXCEPT !.u = n]
  <1>2. PICK v \in Slices, u \in Nat : last = [value |-> v, analysis |-> AnalysisOf(d, v), u |-> u]
    <2>1. last \in Frames(d)
      BY <1>1
    <2>2. QED  BY <2>1 DEF Frames
  <1>3. frame = [value |-> v, analysis |-> AnalysisOf(d, v), u |-> n]
    BY <1>2
  <1>4. frame \in Frames(d) /\ frame.value = last.value
    BY <1>2, <1>3 DEF Frames
  <1>5. after = [containers EXCEPT ![Len(containers)] = frame]
    BY <1>1
  <1> HIDE DEF frame
  <1>6. after \in Seq(Frames(d)) /\ Len(after) = Len(containers)
    BY <1>1, <1>4, <1>5
  <1>7. \A i \in 1..Len(containers) : after[i].value = containers[i].value
    <2> SUFFICES ASSUME NEW i \in 1..Len(containers)
                 PROVE  after[i].value = containers[i].value
      OBVIOUS
    <2>1. after[i] = IF i = Len(containers) THEN frame ELSE containers[i]
      BY <1>1, <1>5
    <2>2. QED  BY <1>4, <2>1
  <1>8. \A i \in 1..Len(after) : IsContainer(d, after[i].value)
    BY <1>6, <1>7 DEF Nested
  <1>9. after[1].value = Root(d)
    BY <1>1, <1>7 DEF Nested
  <1>10. ASSUME NEW i \in 1..(Len(after) - 1)
         PROVE  Inside(after[i + 1].value, after[i].value)
    <2>1. i \in 1..Len(containers) /\ i + 1 \in 1..Len(containers) /\ i \in 1..(Len(containers) - 1)
      BY <1>1, <1>6
    <2>2. QED  BY <1>7, <2>1 DEF Nested
  <1>11. Nested(d, after)
    BY <1>8, <1>9, <1>10 DEF Nested
  <1>12. QED  BY <1>1, <1>6, <1>7, <1>11

-----------------------------------------------------------------------------
(***************************************************************************)
(* The invariant                                                           *)
(***************************************************************************)

LEMMA ConvertInitInv == ConvertInit => ConvertInv
  <1> SUFFICES ASSUME ConvertInit
               PROVE  ConvertInv
    OBVIOUS
  <1>1. doc \in Seq(Nat)
    BY DocumentsAssumption DEF ConvertInit
  <1>2. frames = <<>> /\ frames \in Seq(Frames(doc)) /\ Len(frames) = 0
    BY DEF ConvertInit
  <1>3. Nested(doc, frames)
    BY <1>2 DEF Nested
  <1>4. Root(doc) \in Slices
    BY <1>1 DEF Root, Slice, Slices
  <1>5. MayFollow(doc, frames, Root(doc))
    BY <1>2, <1>4 DEF MayFollow
  <1>6. pending = <<Root(doc)>>
    BY DEF ConvertInit
  <1>7. QED  BY <1>1, <1>2, <1>3, <1>4, <1>5, <1>6 DEF ConvertInv

\* Nothing moves: also what a failure leaves behind.
LEMMA InvStays ==
    ASSUME ConvertInv, UNCHANGED <<doc, frames, pending>>
    PROVE  ConvertInv'
  BY DEF ConvertInv

\* What is to be converted has a type byte.
LEMMA PendingInDocument ==
    ASSUME ConvertInv, pending # <<>>, pending[1].size > 0
    PROVE  InDocument(doc, pending[1]) /\ MayFollow(doc, frames, pending[1])
  <1>1. PICK v \in Slices : pending = <<v>> /\ MayFollow(doc, frames, v)
    BY DEF ConvertInv
  <1>2. pending[1] = v /\ v.size > 0
    BY <1>1
  <1>3. CASE frames = <<>>
    <2>1. v = Root(doc) /\ doc \in Seq(Nat)
      BY <1>1, <1>3 DEF MayFollow, ConvertInv
    <2>2. Len(doc) \in Nat /\ v.buffer = 0 /\ v.size = Len(doc)
      BY <2>1 DEF Root, Slice
    <2>3. SliceEnd(v) = Len(doc)
      BY <2>2 DEF SliceEnd
    <2>4. SliceEnd(v) <= Len(doc)
      BY <2>2, <2>3
    <2>5. InDocument(doc, v)
      BY <1>2, <2>4 DEF InDocument
    <2>6. QED  BY <1>1, <1>2, <2>5
  <1>4. CASE frames # <<>>
    BY <1>1, <1>2, <1>4 DEF MayFollow
  <1>5. QED  BY <1>3, <1>4

\* The innermost container that is being converted.
LEMMA LastFrame ==
    ASSUME ConvertInv, frames # <<>>
    PROVE  LET frame == Last(frames)
           IN  /\ frame = frames[Len(frames)]
               /\ frame.u \in Nat
               /\ IsContainer(doc, frame.value)
               /\ frame.analysis = AnalysisOf(doc, frame.value)
  <1>1. frames \in Seq(Frames(doc)) /\ Nested(doc, frames)
    BY DEF ConvertInv
  <1>2. Len(frames) \in 1..Len(frames) /\ Last(frames) = frames[Len(frames)]
    BY <1>1 DEF Last
  <1>3. Last(frames) \in Frames(doc)
    BY <1>1, <1>2
  <1>4. PICK v \in Slices, n \in Nat :
          Last(frames) = [value |-> v, analysis |-> AnalysisOf(doc, v), u |-> n]
    BY <1>3 DEF Frames
  <1>5. IsContainer(doc, frames[Len(frames)].value)
    BY <1>1, <1>2 DEF Nested
  <1>6. QED  BY <1>2, <1>4, <1>5

LEMMA ConvertScalarInv ==
    ASSUME ConvertInv, ConvertScalar
    PROVE  ConvertInv'
  <1>1. doc' = doc /\ frames' = frames /\ (pending' = pending \/ pending' = <<>>)
    BY DEF ConvertScalar, FailsAfter, CallbackFails, Outputs
  <1>2. CASE pending' = pending
    BY <1>1, <1>2, InvStays
  <1>3. CASE pending' = <<>>
    BY <1>1, <1>3 DEF ConvertInv
  <1>4. QED  BY <1>1, <1>2, <1>3

LEMMA OpenInv ==
    ASSUME ConvertInv, outcome = "running", pending # <<>>, pending[1].size > 0,
           IsArray(TypeOf(doc, pending[1])) \/ IsObject(TypeOf(doc, pending[1])),
           NEW bracket, Open(AnalysisOf(doc, pending[1]), bracket)
    PROVE  ConvertInv'
  <1> DEFINE v == pending[1]
             analysis == AnalysisOf(doc, v)
             frame == [value |-> v, analysis |-> analysis, u |-> 0]
  <1>1. CASE UNCHANGED <<doc, frames, pending>>
    BY <1>1, InvStays
  <1>2. CASE /\ analysis.error = OK
             /\ doc' = doc /\ frames' = Append(frames, frame) /\ pending' = <<>>
    <2>1. InDocument(doc, v) /\ MayFollow(doc, frames, v)
      BY PendingInDocument
    <2>2. IsContainer(doc, v)
      BY <1>2, <2>1 DEF IsContainer
    <2>3. frames \in Seq(Frames(doc)) /\ Nested(doc, frames) /\ doc \in Seq(Nat)
      BY DEF ConvertInv
    <2> HIDE DEF v
    <2>4. Append(frames, frame) \in Seq(Frames(doc)) /\ Nested(doc, Append(frames, frame))
      BY <2>1, <2>2, <2>3, NestedPush
    <2> HIDE DEF frame
    <2>5. QED  BY <1>2, <2>3, <2>4 DEF ConvertInv
  <1>3. QED  BY <1>1, <1>2 DEF Open, FailsAfter, CallbackFails, Outputs

LEMMA NextItemInv ==
    ASSUME ConvertInv, frames # <<>>, pending = <<>>,
           NEW item, NEW label, NextItem(item, label),
           item.error = OK => /\ InDocument(doc, item.value)
                              /\ Inside(item.value, Last(frames).value)
    PROVE  ConvertInv'
  <1> DEFINE n == Last(frames).u + 1
             after == [frames EXCEPT ![Len(frames)].u = n]
  <1>1. CASE UNCHANGED <<doc, frames, pending>>
    BY <1>1, InvStays
  <1>2. CASE /\ item.error = OK
             /\ doc' = doc /\ frames' = after /\ pending' = <<item.value>>
    <2>1. frames \in Seq(Frames(doc)) /\ Nested(doc, frames) /\ doc \in Seq(Nat)
      BY DEF ConvertInv
    <2>2. n \in Nat /\ Last(frames) = frames[Len(frames)]
      BY LastFrame
    <2> HIDE DEF n
    <2>3. /\ after \in Seq(Frames(doc))
          /\ Nested(doc, after)
          /\ Len(after) = Len(frames)
          /\ after[Len(after)].value = frames[Len(frames)].value
      BY <2>1, <2>2, NestedNext, Zenon
    <2> HIDE DEF after
    <2>4. after # <<>>
      BY <2>1, <2>3
    <2>5. item.value \in Slices
      BY <1>2 DEF InDocument
    <2>6. MayFollow(doc, after, item.value)
      BY <1>2, <2>2, <2>3, <2>4, <2>5 DEF MayFollow
    <2>7. QED  BY <1>2, <2>1, <2>3, <2>5, <2>6 DEF ConvertInv
  <1>3. QED  BY <1>1, <1>2 DEF NextItem, FailsAfter, CallbackFails, Outputs

LEMMA CloseInv ==
    ASSUME ConvertInv, frames # <<>>, NEW bracket, Close(bracket), pending = <<>>
    PROVE  ConvertInv'
  <1>1. CASE UNCHANGED <<doc, frames, pending>>
    BY <1>1, InvStays
  <1>2. CASE doc' = doc /\ frames' = Front(frames) /\ pending' = pending
    <2>1. frames \in Seq(Frames(doc)) /\ Nested(doc, frames) /\ doc \in Seq(Nat)
      BY DEF ConvertInv
    <2>2. Front(frames) \in Seq(Frames(doc)) /\ Nested(doc, Front(frames))
      BY <2>1, NestedPop
    <2>3. QED  BY <1>2, <2>1, <2>2 DEF ConvertInv
  <1>3. QED  BY <1>1, <1>2 DEF Close, CallbackFails, Outputs

\* A type byte does not stand for both kinds of container.
LEMMA OneKind ==
    ASSUME NEW type \in Nat, IsObject(type)
    PROVE  ~IsArray(type)
  BY DEF IsArray, IsObject

LEMMA ArrayOrObject ==
    ASSUME NEW d \in Seq(Nat), NEW v, InDocument(d, v)
    PROVE  /\ IsArray(TypeOf(d, v)) => AnalysisOf(d, v) = ArrayAnalyze(d, v)
           /\ IsObject(TypeOf(d, v)) => AnalysisOf(d, v) = ObjectAnalyze(d, v)
  <1>1. TypeOf(d, v) \in Nat
    BY SliceFacts
  <1>2. QED  BY <1>1, OneKind DEF AnalysisOf

\* The next item of the innermost container, which has one left.
LEMMA ItemFits ==
    ASSUME ConvertInv, frames # <<>>, HasNext,
           NEW item, item.error = OK,
           \/ /\ IsArray(TypeOf(doc, Last(frames).value))
              /\ item = ArrayGetIndex(doc, Last(frames).analysis, Last(frames).u)
           \/ /\ IsObject(TypeOf(doc, Last(frames).value))
              /\ item = ObjectGetIndex(doc, Last(frames).analysis, Last(frames).u)
    PROVE  InDocument(doc, item.value) /\ Inside(item.value, Last(frames).value)
  <1> DEFINE v == Last(frames).value
             a == Last(frames).analysis
             i == Last(frames).u
  <1>1. /\ i \in Nat /\ i < a.count /\ IsContainer(doc, v) /\ a = AnalysisOf(doc, v)
        /\ doc \in Seq(Nat)
    BY LastFrame DEF HasNext, ConvertInv
  <1>2. InDocument(doc, v) /\ a.error = OK
    BY <1>1 DEF IsContainer
  <1> HIDE DEF v, a, i
  <1>3. CASE IsArray(TypeOf(doc, v)) /\ item = ArrayGetIndex(doc, a, i)
    <2>1. a = ArrayAnalyze(doc, v)
      BY <1>1, <1>2, <1>3, ArrayOrObject
    <2>2. a.count \in Nat
      BY <1>1, <1>2, <2>1, ArrayFacts DEF DataInside
    <2>3. i \in 0..(a.count - 1)
      BY <1>1, <2>2
    <2>4. InDocument(doc, item.value) /\ Inside(item.value, v)
      BY <1>1, <1>2, <1>3, <2>1, <2>3, ArrayItem
    <2>5. QED  BY <2>4 DEF v
  <1>4. CASE IsObject(TypeOf(doc, v)) /\ item = ObjectGetIndex(doc, a, i)
    <2>1. a = ObjectAnalyze(doc, v)
      BY <1>1, <1>2, <1>4, ArrayOrObject
    <2>2. a.count \in Nat
      BY <1>1, <1>2, <2>1, ObjectFacts DEF DataInside
    <2>3. i \in 0..(a.count - 1)
      BY <1>1, <2>2
    <2>4. InDocument(doc, item.value) /\ Inside(item.value, v)
      BY <1>1, <1>2, <1>4, <2>1, <2>3, ObjectItem
    <2>5. QED  BY <2>4 DEF v
  <1>5. QED  BY <1>3, <1>4 DEF v, a, i

LEMMA ConvertNextInv == ConvertInv /\ [ConvertNext]_convert_vars => ConvertInv'
  <1> SUFFICES ASSUME ConvertInv, [ConvertNext]_convert_vars
               PROVE  ConvertInv'
    OBVIOUS
  <1> DEFINE v == pending[1]
             frame == Last(frames)
  <1>1. CASE ConvertNothing \/ Converted \/ UNCHANGED convert_vars
    BY <1>1, InvStays DEF ConvertNothing, Converted, convert_vars
  <1>2. CASE ConvertScalar
    BY <1>2, ConvertScalarInv
  <1>3. CASE OpenArray
    <2>1. /\ outcome = "running" /\ pending # <<>> /\ v.size > 0 /\ IsArray(TypeOf(doc, v))
          /\ Open(ArrayAnalyze(doc, v), "[")
      BY <1>3 DEF OpenArray, Converting
    <2>2. InDocument(doc, v) /\ doc \in Seq(Nat)
      BY <2>1, PendingInDocument DEF ConvertInv
    <2>3. AnalysisOf(doc, v) = ArrayAnalyze(doc, v)
      BY <2>1, <2>2, ArrayOrObject
    <2>4. QED  BY <2>1, <2>3, OpenInv
  <1>4. CASE OpenObject
    <2>1. /\ outcome = "running" /\ pending # <<>> /\ v.size > 0 /\ IsObject(TypeOf(doc, v))
          /\ Open(ObjectAnalyze(doc, v), "{")
      BY <1>4 DEF OpenObject, Converting
    <2>2. InDocument(doc, v) /\ doc \in Seq(Nat)
      BY <2>1, PendingInDocument DEF ConvertInv
    <2>3. AnalysisOf(doc, v) = ObjectAnalyze(doc, v)
      BY <2>1, <2>2, ArrayOrObject
    <2>4. QED  BY <2>1, <2>3, OpenInv
  <1>5. CASE NextElement
    <2> DEFINE item == ArrayGetIndex(doc, frame.analysis, frame.u)
    <2>1. /\ pending = <<>> /\ frames # <<>> /\ IsArray(TypeOf(doc, frame.value))
          /\ HasNext /\ NextItem(item, <<>>)
      BY <1>5 DEF NextElement, In
    <2>2. item.error = OK => InDocument(doc, item.value) /\ Inside(item.value, frame.value)
      BY <2>1, ItemFits
    <2> HIDE DEF item
    <2>3. QED  BY <2>1, <2>2, NextItemInv
  <1>6. CASE NextMember
    <2> DEFINE item  == ObjectGetIndex(doc, frame.analysis, frame.u)
               label == IF item.error # OK THEN <<>>
                        ELSE KeyTokens(doc, item)
    <2>1. /\ pending = <<>> /\ frames # <<>> /\ IsObject(TypeOf(doc, frame.value))
          /\ HasNext /\ NextItem(item, label)
      BY <1>6 DEF NextMember, In
    <2>2. item.error = OK => InDocument(doc, item.value) /\ Inside(item.value, frame.value)
      BY <2>1, ItemFits
    <2> HIDE DEF item, label
    <2>3. QED  BY <2>1, <2>2, NextItemInv
  <1>7. CASE CloseArray
    BY <1>7, CloseInv DEF CloseArray, In
  <1>8. CASE CloseObject
    BY <1>8, CloseInv DEF CloseObject, In
  <1>9. QED
    BY <1>1, <1>2, <1>3, <1>4, <1>5, <1>6, <1>7, <1>8 DEF ConvertNext

LEMMA InvInside == ConvertInv => ValuesInside
  <1> SUFFICES ASSUME ConvertInv
               PROVE  ValuesInside
    OBVIOUS
  <1> DEFINE containers == [f \in DOMAIN frames |-> frames[f].value]
             values == containers \o pending
  <1>1. frames \in Seq(Frames(doc)) /\ Nested(doc, frames) /\ doc \in Seq(Nat)
    BY DEF ConvertInv
  <1>2. DOMAIN frames = 1..Len(frames) /\ Len(frames) \in Nat
    BY <1>1
  <1>3. containers \in Seq(Slices) /\ Len(containers) = Len(frames)
    BY <1>1, <1>2 DEF Frames
  <1>4. \A f \in 1..Len(frames) : containers[f] = frames[f].value
    BY <1>2
  <1>5. \A f \in DOMAIN frames : ItemsTile(frames[f].value, frames[f].analysis)
    <2> SUFFICES ASSUME NEW f \in DOMAIN frames
                 PROVE  ItemsTile(frames[f].value, frames[f].analysis)
      OBVIOUS
    <2>1. frames[f] \in Frames(doc) /\ IsContainer(doc, frames[f].value)
      BY <1>1, <1>2 DEF Nested
    <2>2. frames[f].analysis = AnalysisOf(doc, frames[f].value)
      BY <2>1 DEF Frames
    <2>3. QED  BY <1>1, <2>1, <2>2, ContainerTiles
  <1>6. \A f \in 1..Len(frames) :
          /\ f = 1 => frames[f].value = Root(doc)
          /\ f > 1 => Inside(frames[f].value, frames[f - 1].value) /\ frames[f].value.size > 0
    <2> SUFFICES ASSUME NEW f \in 1..Len(frames)
                 PROVE  /\ f = 1 => frames[f].value = Root(doc)
                        /\ f > 1 => /\ Inside(frames[f].value, frames[f - 1].value)
                                    /\ frames[f].value.size > 0
      OBVIOUS
    <2>1. f = 1 => frames[f].value = Root(doc)
      BY <1>1, <1>2 DEF Nested
    <2>2. frames[f].value.size > 0
      BY <1>1 DEF Nested, IsContainer, InDocument
    <2>3. ASSUME f > 1
          PROVE  Inside(frames[f].value, frames[f - 1].value)
      <3>1. f - 1 \in 1..(Len(frames) - 1) /\ (f - 1) + 1 = f
        BY <1>2, <2>3
      <3>2. QED  BY <1>1, <3>1 DEF Nested
    <2>4. QED  BY <2>1, <2>2, <2>3
  <1>7. \A i \in DOMAIN values : /\ i = 1 => values[i] = Root(doc)
                                 /\ i > 1 => Inside(values[i], values[i - 1]) /\ values[i].size > 0
    <2> SUFFICES ASSUME NEW i \in DOMAIN values
                 PROVE  /\ i = 1 => values[i] = Root(doc)
                        /\ i > 1 => Inside(values[i], values[i - 1]) /\ values[i].size > 0
      OBVIOUS
    <2> HIDE DEF containers
    <2>1. CASE pending = <<>>
      <3>1. values = containers
        BY <1>3, <2>1
      <3>2. i \in 1..Len(frames) /\ (i > 1 => i - 1 \in 1..Len(frames))
        BY <1>2, <1>3, <3>1
      <3>3. values[i] = frames[i].value /\ (i > 1 => values[i - 1] = frames[i - 1].value)
        BY <1>4, <3>1, <3>2
      <3>4. QED  BY <1>6, <3>2, <3>3
    <2>2. ASSUME NEW v \in Slices, pending = <<v>>, MayFollow(doc, frames, v)
          PROVE  /\ i = 1 => values[i] = Root(doc)
                 /\ i > 1 => Inside(values[i], values[i - 1]) /\ values[i].size > 0
      <3>1. values = Append(containers, v)
        BY <1>3, <2>2
      <3>2. i \in 1..(Len(frames) + 1)
        BY <1>2, <1>3, <3>1
      <3> HIDE DEF values
      <3>3. CASE i \in 1..Len(frames)
        <4>1. i > 1 => i - 1 \in 1..Len(frames)
          BY <1>2, <3>3
        <4>2. values[i] = frames[i].value /\ (i > 1 => values[i - 1] = frames[i - 1].value)
          BY <1>3, <1>4, <3>1, <3>3, <4>1
        <4>3. QED  BY <1>6, <3>3, <4>2
      <3>4. CASE i = Len(frames) + 1
        <4>1. values[i] = v
          BY <1>3, <3>1, <3>4
        <4>2. CASE frames = <<>>
          BY <1>2, <2>2, <3>4, <4>1, <4>2 DEF MayFollow
        <4>3. CASE frames # <<>>
          <5>1. i > 1 /\ i - 1 = Len(frames) /\ i - 1 \in 1..Len(frames)
            BY <1>1, <1>2, <3>4, <4>3
          <5>2. values[i - 1] = frames[Len(frames)].value
            BY <1>3, <1>4, <3>1, <5>1
          <5>3. QED  BY <2>2, <4>1, <4>3, <5>1, <5>2 DEF MayFollow, InDocument
        <4>4. QED  BY <4>2, <4>3
      <3>5. QED  BY <1>2, <3>2, <3>3, <3>4
    <2>3. QED  BY <2>1, <2>2 DEF ConvertInv
  <1>8. QED  BY <1>5, <1>7 DEF ValuesInside

(***************************************************************************)
(* Whatever the bytes of a document of any size are, the conversion enters *)
(* only values that lie inside the container they are in, and that inside  *)
(* the document; the items of a container follow one another up to its end. *)
(***************************************************************************)
THEOREM EveryValueInside == ConvertSpec => []ValuesInside
  <1>1. ConvertInit => ConvertInv
    BY ConvertInitInv
  <1>2. ConvertInv /\ [ConvertNext]_convert_vars => ConvertInv'
    BY ConvertNextInv
  <1>3. ConvertInv => ValuesInside
    BY InvInside
  <1>4. QED  BY <1>1, <1>2, <1>3, PTL DEF ConvertSpec

-----------------------------------------------------------------------------
(***************************************************************************)
(* The tokens of analyses and items                                        *)
(***************************************************************************)
Kinds == {"null", "false", "true", "string", "decimal", "[", "]", "{", "}", ",", ":",
          "file_format_error", "unsupported_data_type", "invalid_utf8",
          "parameter_is_zero", "type_mismatch", "index_out_of_range"}
Tokens == [kind : Kinds, bytes : Seq(Nat)]

\* What has failed has failed for one of the reasons.
MayFail(x) == x.error # OK => x.error \in Kinds

LEMMA MarkType ==
    ASSUME NEW kind \in Kinds
    PROVE  <<Mark(kind)>> \in Seq(Tokens)
  <1>1. Mark(kind) \in Tokens
    BY DEF Mark, Token, Tokens
  <1> QED BY <1>1

LEMMA AnalysisFails ==
    ASSUME NEW d, NEW v
    PROVE  MayFail(AnalysisOf(d, v))
  <1>1. MayFail(AnalyzeCount(d, v, IsArray)) /\ MayFail(AnalyzeCount(d, v, IsObject))
    BY DEF AnalyzeCount, MayFail, Error, Kinds, OK
  <1>2. MayFail(ArrayAnalyze(d, v))
    BY <1>1 DEF ArrayAnalyze, MayFail, Error, Kinds, OK
  <1>3. MayFail(ObjectAnalyze(d, v))
    BY <1>1 DEF ObjectAnalyze, MayFail, Error, Kinds, OK
  <1> QED BY <1>2, <1>3 DEF AnalysisOf

\* Item i of the container v with the analysis a.
ItemIn(d, v, a, i) ==
    IF IsArray(TypeOf(d, v)) THEN ArrayGetIndex(d, a, i) ELSE ObjectGetIndex(d, a, i)

LEMMA ItemFails ==
    ASSUME NEW d, NEW v, NEW a, NEW i
    PROVE  MayFail(ItemIn(d, v, a, i))
  <1>1. MayFail(ArrayGetIndex(d, a, i))
    BY DEF ArrayGetIndex, MayFail, Error, Kinds, OK
  <1>2. MayFail(ObjectGetIndex(d, a, i))
    BY DEF ObjectGetIndex, MayFail, Error, Kinds, OK
  <1> QED BY <1>1, <1>2 DEF ItemIn

LEMMA BytesType ==
    ASSUME NEW d \in Seq(Nat), NEW v \in Slices, SliceEnd(v) <= Len(d)
    PROVE  Bytes(d, v) \in Seq(Nat) /\ Len(Bytes(d, v)) = v.size
  <1>1. PICK b \in Nat, n \in Nat : b = v.buffer /\ n = v.size
    BY DEF Slices
  <1>2. Bytes(d, v) = SubSeq(d, b + 1, b + n) /\ b + n <= Len(d)
    BY <1>1 DEF Bytes, SliceEnd
  <1>3. PICK x \in 1..Len(d) + 1 : x = b + 1
    BY <1>2
  <1>4. PICK y \in x - 1..Len(d) : y = b + n /\ y - x + 1 = n
    BY <1>2, <1>3
  <1>5. SubSeq(d, x, y) \in Seq(Nat) /\ Len(SubSeq(d, x, y)) = y - x + 1
    OBVIOUS
  <1> QED BY <1>1, <1>2, <1>3, <1>4, <1>5

Good(scalar) ==
    scalar = [error |-> OK, token |-> scalar.token] /\ scalar.token \in Tokens
Bad(scalar) == \E error \in Kinds : error # OK /\ scalar = Error(error)

LEMMA ScalarToken ==
    ASSUME NEW d \in Seq(Nat), NEW v, InDocument(d, v)
    PROVE  /\ MayFail(Scalar(d, v))
           /\ Scalar(d, v).error = OK => <<Scalar(d, v).token>> \in Seq(Tokens)
  <1>1. PICK bytes \in Seq(Nat) : bytes = Bytes(d, v) /\ Tail(bytes) \in Seq(Nat)
    <2>1. Bytes(d, v) \in Seq(Nat) /\ Len(Bytes(d, v)) > 0
      BY BytesType DEF InDocument
    <2> QED BY <2>1
  <1>2. Good(Scalar(d, v)) \/ Bad(Scalar(d, v))
    <2>1. ASSUME NEW kind \in Kinds, NEW b \in Seq(Nat)
          PROVE  Good([error |-> OK, token |-> Token(kind, b)])
      BY DEF Token, Tokens, Good
    <2>2. ASSUME NEW kind \in Kinds
          PROVE  Good([error |-> OK, token |-> Mark(kind)])
      BY DEF Mark, Token, Tokens, Good
    <2>3. /\ "null" \in Kinds /\ "false" \in Kinds /\ "true" \in Kinds /\ "string" \in Kinds
          /\ "decimal" \in Kinds /\ "file_format_error" \in Kinds /\ "invalid_utf8" \in Kinds
          /\ "unsupported_data_type" \in Kinds
          /\ OK # "file_format_error" /\ OK # "invalid_utf8" /\ OK # "unsupported_data_type"
      BY DEF Kinds, OK
    <2>4. \/ Scalar(d, v) \in {Error("file_format_error"), Error("invalid_utf8"),
                               Error("unsupported_data_type")}
          \/ Scalar(d, v) \in {[error |-> OK, token |-> Mark("null")],
                               [error |-> OK, token |-> Mark("false")],
                               [error |-> OK, token |-> Mark("true")],
                               [error |-> OK, token |-> Token("string", Tail(bytes))],
                               [error |-> OK, token |-> Token("decimal", bytes)]}
      BY <1>1 DEF Scalar
    <2>5. CASE Scalar(d, v) \in {Error("file_format_error"), Error("invalid_utf8"),
                                Error("unsupported_data_type")}
      BY <2>3, <2>5, Zenon DEF Bad
    <2>6. CASE Scalar(d, v) \in {[error |-> OK, token |-> Mark("null")],
                                [error |-> OK, token |-> Mark("false")],
                                [error |-> OK, token |-> Mark("true")],
                                [error |-> OK, token |-> Token("string", Tail(bytes))],
                                [error |-> OK, token |-> Token("decimal", bytes)]}
      BY <1>1, <2>1, <2>2, <2>3, <2>6, Zenon
    <2> QED BY <2>4, <2>5, <2>6
  <1> QED BY <1>2 DEF MayFail, Error, Good, Bad

-----------------------------------------------------------------------------
(***************************************************************************)
(* The JSON of a value is made of that of the values in it                 *)
(***************************************************************************)

LEMMA ContainerFacts ==
    ASSUME NEW d \in Seq(Nat), NEW v, IsContainer(d, v)
    PROVE  AnalysisOf(d, v).count \in Nat
  <1>1. InDocument(d, v) /\ AnalysisOf(d, v).error = OK
    BY DEF IsContainer
  <1>2. CASE IsArray(TypeOf(d, v))
    BY <1>1, <1>2, ArrayOrObject, ArrayFacts DEF DataInside
  <1>3. CASE IsObject(TypeOf(d, v))
    BY <1>1, <1>3, ArrayOrObject, ObjectFacts DEF DataInside
  <1> QED BY <1>2, <1>3 DEF IsContainer

\* An item that can be read is smaller than its container.
LEMMA ItemSmaller ==
    ASSUME NEW d \in Seq(Nat), NEW v, IsContainer(d, v), NEW i,
           i \in 0..(AnalysisOf(d, v).count - 1),
           NEW item, item = ItemIn(d, v, AnalysisOf(d, v), i), item.error = OK
    PROVE  InDocument(d, item.value) /\ item.value \in Parts(d) /\ item.value.size < v.size
  <1>1. InDocument(d, v) /\ AnalysisOf(d, v).error = OK
    BY DEF IsContainer
  <1>2. InDocument(d, item.value) /\ Inside(item.value, v)
    <2>1. CASE IsArray(TypeOf(d, v))
      BY <1>1, <2>1, ArrayOrObject, ArrayItem DEF ItemIn
    <2>2. CASE IsObject(TypeOf(d, v))
      <3>1. ~IsArray(TypeOf(d, v))
        BY <1>1, <2>2, OneKind, SliceFacts
      <3> QED BY <1>1, <2>2, <3>1, ArrayOrObject, ObjectItem DEF ItemIn
    <2> QED BY <2>1, <2>2 DEF IsContainer
  <1>3. PICK w \in Slices : w = item.value
    BY <1>2 DEF InDocument
  <1>4. PICK b \in Nat, n \in Nat : b = w.buffer /\ n = w.size /\ w = [buffer |-> b, size |-> n]
    BY DEF Slices
  <1>5. b + n <= Len(d) /\ v.buffer < b /\ b + n <= v.buffer + v.size
    BY <1>2, <1>3, <1>4 DEF InDocument, Inside, SliceEnd
  <1>6. v.buffer \in Nat /\ v.size \in Nat /\ Len(d) \in Nat
    BY <1>1 DEF InDocument, Slices
  <1>7. n < v.size
    BY <1>5, <1>6
  <1>8. w \in Parts(d)
    BY SMTT(20), <1>4, <1>5, <1>6 DEF Parts, SliceEnd
  <1> QED BY <1>2, <1>3, <1>4, <1>7, <1>8

\* A frame with u of its items behind it.
IsFrame(d, frame) ==
    /\ IsContainer(d, frame.value)
    /\ frame.analysis = AnalysisOf(d, frame.value)
    /\ frame.u \in 0..frame.analysis.count

ItemTokens(d, json, frame) ==
    [z \in 1..(frame.analysis.count - frame.u) |-> ItemJson(d, json, frame, frame.u + z - 1)]

Closing(d, v) == Mark(IF IsArray(TypeOf(d, v)) THEN "]" ELSE "}")

LEMMA RestJsonIs ==
    ASSUME NEW d, NEW json, NEW frame
    PROVE  RestJson(d, json, frame)
             = FlattenSeq(ItemTokens(d, json, frame)) \o <<Closing(d, frame.value)>>
  BY Zenon DEF RestJson, ItemTokens, Closing

\* Only the values that are smaller are asked for.
LEMMA ItemJsonLocal ==
    ASSUME NEW d \in Seq(Nat), NEW frame, IsFrame(d, frame), NEW json, NEW json2,
           \A v \in Parts(d) : v.size < frame.value.size => json2[v] = json[v],
           NEW i \in 0..(frame.analysis.count - 1)
    PROVE  ItemJson(d, json2, frame, i) = ItemJson(d, json, frame, i)
  <1> DEFINE item == ItemIn(d, frame.value, frame.analysis, i)
  <1>1. item.error = OK => json2[item.value] = json[item.value]
    BY ItemSmaller, Zenon DEF IsFrame
  <1> QED BY <1>1, Zenon DEF ItemJson, ItemIn, OrError

LEMMA RestJsonLocal ==
    ASSUME NEW d \in Seq(Nat), NEW frame, IsFrame(d, frame), NEW json, NEW json2,
           \A v \in Parts(d) : v.size < frame.value.size => json2[v] = json[v]
    PROVE  RestJson(d, json2, frame) = RestJson(d, json, frame)
  <1>1. PICK count \in Nat, u \in Nat : count = frame.analysis.count /\ u = frame.u
    <2>1. frame.analysis.count \in Nat
      BY ContainerFacts DEF IsFrame
    <2> QED BY <2>1 DEF IsFrame
  <1>2. ASSUME NEW z \in 1..(count - u)
        PROVE  ItemJson(d, json2, frame, u + z - 1) = ItemJson(d, json, frame, u + z - 1)
    <2>1. PICK i \in 0..(frame.analysis.count - 1) : i = u + z - 1
      BY SMTT(20), <1>1
    <2>2. ItemJson(d, json2, frame, i) = ItemJson(d, json, frame, i)
      BY ItemJsonLocal
    <2> QED BY <2>1, <2>2, Zenon
  <1>3. ItemTokens(d, json2, frame) = ItemTokens(d, json, frame)
    BY <1>1, <1>2, Zenon DEF ItemTokens
  <1> QED BY <1>3, RestJsonIs, Zenon

LEMMA ValueJsonLocal ==
    ASSUME NEW d \in Seq(Nat), NEW v \in Parts(d), NEW json, NEW json2,
           \A w \in Parts(d) : w.size < v.size => json2[w] = json[w]
    PROVE  ValueJson(d, json2, v) = ValueJson(d, json, v)
  <1>1. CASE v.size = 0
    BY <1>1, Zenon DEF ValueJson
  <1>2. CASE v.size # 0
    <2>1. InDocument(d, v)
      <3>1. PICK b \in 0..Len(d), n \in 0..Len(d) : v = [buffer |-> b, size |-> n]
        BY DEF Parts
      <3> QED BY <1>2, <3>1 DEF Parts, InDocument, Slices
    <2> DEFINE a == AnalysisOf(d, v)
               frame == [value |-> v, analysis |-> a, u |-> 0]
    <2>2. ASSUME IsArray(TypeOf(d, v)) \/ IsObject(TypeOf(d, v)), NEW bracket
          PROVE  ContainerJson(d, json2, v, bracket, a) = ContainerJson(d, json, v, bracket, a)
      <3>1. CASE a.error # OK
        BY <3>1, Zenon DEF ContainerJson, OrError
      <3>2. CASE a.error = OK
        <4>1. IsContainer(d, v)
          BY <2>1, <2>2, <3>2 DEF IsContainer
        <4>2. frame.value = v /\ frame.analysis = a /\ frame.u = 0
          OBVIOUS
        <4>3. IsFrame(d, frame)
          BY <4>1, <4>2, ContainerFacts DEF IsFrame
        <4> HIDE DEF frame
        <4>4. RestJson(d, json2, frame) = RestJson(d, json, frame)
          BY <4>2, <4>3, RestJsonLocal, Zenon
        <4> QED BY <4>4, Zenon DEF ContainerJson, OrError, frame
      <3> QED BY <3>1, <3>2
    <2>3. /\ IsArray(TypeOf(d, v)) => a = ArrayAnalyze(d, v)
          /\ IsObject(TypeOf(d, v)) => a = ObjectAnalyze(d, v) /\ ~IsArray(TypeOf(d, v))
      BY <2>1, ArrayOrObject, OneKind, SliceFacts
    <2> HIDE DEF a
    <2>4. CASE IsArray(TypeOf(d, v))
      <3>1. \A f : ValueJson(d, f, v) = ContainerJson(d, f, v, "[", a)
        BY <1>2, <2>3, <2>4, Zenon DEF ValueJson
      <3> QED BY <2>2, <2>4, <3>1, Zenon
    <2>5. CASE IsObject(TypeOf(d, v))
      <3>1. \A f : ValueJson(d, f, v) = ContainerJson(d, f, v, "{", a)
        BY <1>2, <2>3, <2>5, Zenon DEF ValueJson
      <3> QED BY <2>2, <2>5, <3>1, Zenon
    <2>6. CASE ~IsArray(TypeOf(d, v)) /\ ~IsObject(TypeOf(d, v))
      BY <1>2, <2>6, Zenon DEF ValueJson
    <2> QED BY <2>4, <2>5, <2>6
  <1> QED BY <1>1, <1>2

\* The function by which the JSON of all values is defined, on some of them.
ConvertsAll(d, json, values) == json = [v \in values |-> ValueJson(d, json, v)]

LEMMA JsonsExist ==
    ASSUME NEW d \in Seq(Nat)
    PROVE  \E json : ConvertsAll(d, json, Parts(d))
  <1> DEFINE Small(n) == {v \in Parts(d) : v.size <= n}
             S == {n \in Nat : \E json : ConvertsAll(d, json, Small(n))}
  <1>0. \A v \in Parts(d) : v.size \in Nat /\ v.size <= Len(d)
    BY DEF Parts
  <1>1. 0 \in S
    <2>1. PICK nothing : nothing = [v \in Parts(d) |-> 0]
      OBVIOUS
    <2> DEFINE json == [v \in Small(0) |-> ValueJson(d, nothing, v)]
    <2>2. ASSUME NEW v \in Small(0)
          PROVE  ValueJson(d, json, v) = ValueJson(d, nothing, v)
      <3>1. v \in Parts(d) /\ \A w \in Parts(d) : ~(w.size < v.size)
        BY <1>0
      <3> HIDE DEF json
      <3> QED BY <3>1, ValueJsonLocal, Zenon
    <2>3. PICK j : j = json
      OBVIOUS
    <2>4. j = [v \in Small(0) |-> ValueJson(d, j, v)]
      BY <2>2, <2>3, Zenon
    <2>5. ConvertsAll(d, j, Small(0))
      BY <2>4, Zenon DEF ConvertsAll
    <2> HIDE DEF Small
    <2>6. 0 \in Nat
      OBVIOUS
    <2> QED BY <2>5, <2>6, Zenon
  <1>2. ASSUME NEW n \in Nat, n \in S PROVE n + 1 \in S
    <2>1. PICK json : ConvertsAll(d, json, Small(n))
      BY <1>2, Zenon
    <2> DEFINE json2 == [v \in Small(n + 1) |-> ValueJson(d, json, v)]
    <2>2. ASSUME NEW v \in Small(n) PROVE json2[v] = json[v]
      <3>1. v \in Small(n + 1)
        BY <1>0
      <3>2. json[v] = ValueJson(d, json, v)
        <4> HIDE DEF Small
        <4> QED BY <2>1, Zenon DEF ConvertsAll
      <3> HIDE DEF Small
      <3> QED BY <3>1, <3>2, Zenon
    <2>3. ASSUME NEW v \in Small(n + 1)
          PROVE  ValueJson(d, json2, v) = ValueJson(d, json, v)
      <3>1. v \in Parts(d) /\ \A w \in Parts(d) : w.size < v.size => w \in Small(n)
        BY <1>0
      <3> HIDE DEF json2, Small
      <3>2. \A w \in Parts(d) : w.size < v.size => json2[w] = json[w]
        BY <2>2, <3>1, Zenon
      <3> QED BY <3>1, <3>2, ValueJsonLocal, Zenon
    <2>4. PICK j : j = json2
      OBVIOUS
    <2>5. j = [v \in Small(n + 1) |-> ValueJson(d, j, v)]
      BY <2>3, <2>4, Zenon
    <2>6. ConvertsAll(d, j, Small(n + 1))
      BY <2>5, Zenon DEF ConvertsAll
    <2> HIDE DEF Small
    <2>7. n + 1 \in Nat
      OBVIOUS
    <2> QED BY <2>6, <2>7, Zenon
  <1>3. Len(d) \in S
    <2>1. Len(d) \in Nat
      OBVIOUS
    <2> HIDE DEF S
    <2> QED BY <1>1, <1>2, <2>1, SetInduction
  <1>4. Small(Len(d)) = Parts(d)
    BY <1>0
  <1> QED BY <1>3, <1>4

LEMMA JsonsStep ==
    ASSUME NEW d \in Seq(Nat), NEW v \in Parts(d)
    PROVE  Jsons(d)[v] = ValueJson(d, Jsons(d), v)
  <1> DEFINE json == CHOOSE j : ConvertsAll(d, j, Parts(d))
  <1>1. ConvertsAll(d, json, Parts(d))
    BY JsonsExist, Zenon
  <1>2. Jsons(d) = json
    BY Zenon DEF Jsons, ConvertsAll
  <1> HIDE DEF json
  <1>3. json[v] = ValueJson(d, json, v)
    BY <1>1, Zenon DEF ConvertsAll
  <1> QED BY <1>2, <1>3, Zenon

-----------------------------------------------------------------------------
(***************************************************************************)
(* It is a sequence of tokens                                              *)
(***************************************************************************)

LEMMA KeyTokensType ==
    ASSUME NEW d \in Seq(Nat), NEW v, IsContainer(d, v), ~IsArray(TypeOf(d, v)), NEW i,
           i \in 0..(AnalysisOf(d, v).count - 1),
           NEW item, item = ItemIn(d, v, AnalysisOf(d, v), i), item.error = OK
    PROVE  KeyTokens(d, item) \in Seq(Tokens)
  <1> DEFINE o == ObjectAnalyze(d, v)
             start == StartOffset(d, o.key_index, o.key_width, i)
             end == EndOffset(d, o.key_index, o.key_width, i, o.count, o.last_key_end)
  <1>1. InDocument(d, v) /\ o = AnalysisOf(d, v) /\ o.error = OK /\ item = ObjectGetIndex(d, o, i)
    BY ArrayOrObject DEF IsContainer, ItemIn
  <1>2. o.count \in Nat /\ o.count > 0
    BY <1>1, ContainerFacts
  <1>3. /\ o.key_data \in Nat /\ o.last_key_end \in Nat
        /\ o.value_data = o.key_data + o.last_key_end
        /\ o.highest \in Nat /\ o.value_data + o.highest + o.count = SliceEnd(v)
    BY <1>1, <1>2, ObjectFacts DEF DataInside
  <1>4. /\ Ordered(start, end, o.last_key_end)
        /\ item.key = Slice(o.key_data + start, end - start)
    BY <1>1 DEF ObjectGetIndex, Error, OK
  <1> HIDE DEF start, end
  <1>5. PICK k \in Nat, last \in Nat : k = o.key_data /\ last = o.last_key_end
    BY <1>3
  <1>6. start \in Nat /\ end \in Nat /\ start <= end /\ end <= last
    BY <1>4, <1>5 DEF Ordered
  <1>7. k + last <= Len(d)
    <2>1. SliceEnd(v) \in Nat /\ SliceEnd(v) <= Len(d)
      BY <1>1, SliceFacts
    <2>2. k + last <= SliceEnd(v)
      BY SMTT(20), <1>2, <1>3, <1>5
    <2> QED BY <2>1, <2>2
  <1>8. item.key \in Slices /\ SliceEnd(item.key) = k + end
    BY <1>4, <1>5, <1>6 DEF Slice, Slices, SliceEnd
  <1>9. SliceEnd(item.key) <= Len(d)
    BY <1>6, <1>7, <1>8
  <1>10. PICK bytes \in Seq(Nat) : bytes = Bytes(d, item.key)
    BY <1>8, <1>9, BytesType
  <1>11. Token("string", bytes) \in Tokens /\ Mark(":") \in Tokens
    BY DEF Mark, Token, Tokens, Kinds
  <1> QED BY <1>10, <1>11 DEF KeyTokens

\* Every value that is smaller is converted to tokens.
AreTokens(d, json, size) ==
    \A v \in Parts(d) : v.size < size => json[v] \in Seq(Tokens)

LEMMA ItemJsonType ==
    ASSUME NEW d \in Seq(Nat), NEW frame, IsFrame(d, frame), NEW json,
           AreTokens(d, json, frame.value.size), NEW i \in 0..(frame.analysis.count - 1)
    PROVE  ItemJson(d, json, frame, i) \in Seq(Tokens)
  <1> DEFINE v == frame.value
             item == ItemIn(d, v, frame.analysis, i)
             key == IF IsArray(TypeOf(d, v)) THEN <<>> ELSE KeyTokens(d, item)
             comma == IF i = 0 THEN <<>> ELSE <<Mark(",")>>
             rest == OrError(item, key \o json[item.value])
  <1>1. IsContainer(d, v) /\ frame.analysis = AnalysisOf(d, v)
    BY DEF IsFrame
  <1>2. comma \in Seq(Tokens)
    <2>1. <<Mark(",")>> \in Seq(Tokens)
      BY MarkType DEF Kinds
    <2>2. <<>> \in Seq(Tokens)
      OBVIOUS
    <2> QED BY <2>1, <2>2, Zenon
  <1>3. rest \in Seq(Tokens)
    <2>1. CASE item.error # OK
      <3>1. <<Mark(item.error)>> \in Seq(Tokens)
        BY <2>1, ItemFails, MarkType DEF MayFail
      <3> QED BY <2>1, <3>1, Zenon DEF OrError
    <2>2. CASE item.error = OK
      <3>1. item.value \in Parts(d) /\ item.value.size < v.size
        BY <1>1, <2>2, ItemSmaller, Zenon
      <3>2. key \in Seq(Tokens)
        <4>1. CASE IsArray(TypeOf(d, v))
          <5>1. <<>> \in Seq(Tokens)
            OBVIOUS
          <5> QED BY <4>1, <5>1, Zenon
        <4>2. CASE ~IsArray(TypeOf(d, v))
          BY <1>1, <2>2, <4>2, KeyTokensType, Zenon
        <4> QED BY <4>1, <4>2
      <3>3. json[item.value] \in Seq(Tokens)
        BY <3>1, Zenon DEF AreTokens
      <3> HIDE DEF key, item
      <3>4. key \o json[item.value] \in Seq(Tokens)
        BY <3>2, <3>3, ConcatProperties, Zenon
      <3> QED BY <2>2, <3>4, Zenon DEF OrError
    <2> QED BY <2>1, <2>2
  <1>4. ItemJson(d, json, frame, i) = comma \o rest
    BY Zenon DEF ItemJson, ItemIn
  <1> HIDE DEF comma, rest
  <1> QED BY <1>2, <1>3, <1>4, ConcatProperties, Zenon

LEMMA ClosingType ==
    ASSUME NEW d, NEW v
    PROVE  <<Closing(d, v)>> \in Seq(Tokens)
  <1>1. <<Mark("]")>> \in Seq(Tokens) /\ <<Mark("}")>> \in Seq(Tokens)
    BY MarkType DEF Kinds
  <1> QED BY <1>1 DEF Closing

LEMMA ItemTokensType ==
    ASSUME NEW d \in Seq(Nat), NEW frame, IsFrame(d, frame), NEW json,
           AreTokens(d, json, frame.value.size)
    PROVE  /\ ItemTokens(d, json, frame) \in Seq(Seq(Tokens))
           /\ Len(ItemTokens(d, json, frame)) = frame.analysis.count - frame.u
  <1>1. PICK count \in Nat, u \in Nat :
          count = frame.analysis.count /\ u = frame.u /\ u <= count
    <2>1. frame.analysis.count \in Nat
      BY ContainerFacts DEF IsFrame
    <2> QED BY <2>1 DEF IsFrame
  <1>2. PICK n \in Nat : n = count - u
    BY <1>1
  <1>3. ASSUME NEW z \in 1..n PROVE ItemJson(d, json, frame, u + z - 1) \in Seq(Tokens)
    <2>0. u + z - 1 \in 0..(count - 1)
      BY <1>1, <1>2
    <2>1. PICK i \in 0..(count - 1) : i = u + z - 1
      BY <2>0
    <2>2. i \in 0..(frame.analysis.count - 1)
      BY <1>1, Zenon
    <2> QED BY <2>1, <2>2, ItemJsonType, Zenon
  <1>4. ItemTokens(d, json, frame) = [z \in 1..n |-> ItemJson(d, json, frame, u + z - 1)]
    BY <1>1, <1>2, Zenon DEF ItemTokens
  <1>5. ItemTokens(d, json, frame) \in [1..n -> Seq(Tokens)]
    BY <1>3, <1>4, Zenon
  <1> QED BY <1>1, <1>2, <1>5

LEMMA RestJsonType ==
    ASSUME NEW d \in Seq(Nat), NEW frame, IsFrame(d, frame), NEW json,
           AreTokens(d, json, frame.value.size)
    PROVE  RestJson(d, json, frame) \in Seq(Tokens)
  <1>1. PICK items \in Seq(Seq(Tokens)) : items = ItemTokens(d, json, frame)
    BY ItemTokensType
  <1>2. FlattenSeq(items) \in Seq(Tokens)
    <2>1. <<>> \in Seq(Tokens)
      OBVIOUS
    <2> QED BY <2>1, FlattenCons
  <1> QED BY <1>1, <1>2, RestJsonIs, ClosingType, ConcatProperties, Zenon

LEMMA ValueJsonType ==
    ASSUME NEW d \in Seq(Nat), NEW v \in Parts(d), NEW json, AreTokens(d, json, v.size)
    PROVE  ValueJson(d, json, v) \in Seq(Tokens)
  <1>1. CASE v.size = 0
    <2>1. <<Mark("parameter_is_zero")>> \in Seq(Tokens)
      BY MarkType DEF Kinds
    <2> QED BY <1>1, <2>1, Zenon DEF ValueJson
  <1>2. CASE v.size # 0
    <2>1. InDocument(d, v)
      <3>1. PICK b \in 0..Len(d), n \in 0..Len(d) : v = [buffer |-> b, size |-> n]
        BY DEF Parts
      <3> QED BY <1>2, <3>1 DEF Parts, InDocument, Slices
    <2> DEFINE a == AnalysisOf(d, v)
               frame == [value |-> v, analysis |-> a, u |-> 0]
    <2>2. ASSUME IsArray(TypeOf(d, v)) \/ IsObject(TypeOf(d, v)), NEW bracket \in Kinds
          PROVE  ContainerJson(d, json, v, bracket, a) \in Seq(Tokens)
      <3>1. CASE a.error # OK
        <4>1. <<Mark(a.error)>> \in Seq(Tokens)
          BY <3>1, AnalysisFails, MarkType DEF MayFail
        <4> QED BY <3>1, <4>1, Zenon DEF ContainerJson, OrError
      <3>2. CASE a.error = OK
        <4>1. IsContainer(d, v)
          BY <2>1, <2>2, <3>2 DEF IsContainer
        <4>2. frame.value = v /\ frame.analysis = a /\ frame.u = 0
          OBVIOUS
        <4>3. IsFrame(d, frame)
          BY <4>1, <4>2, ContainerFacts DEF IsFrame
        <4> HIDE DEF frame
        <4>4. RestJson(d, json, frame) \in Seq(Tokens)
          BY <4>2, <4>3, RestJsonType, Zenon
        <4>5. <<Mark(bracket)>> \in Seq(Tokens)
          BY MarkType
        <4>6. <<Mark(bracket)>> \o RestJson(d, json, frame) \in Seq(Tokens)
          BY <4>4, <4>5, ConcatProperties, Zenon
        <4> QED BY <3>2, <4>6, Zenon DEF ContainerJson, OrError, frame
      <3> QED BY <3>1, <3>2
    <2>3. /\ IsArray(TypeOf(d, v)) => a = ArrayAnalyze(d, v)
          /\ IsObject(TypeOf(d, v)) => a = ObjectAnalyze(d, v) /\ ~IsArray(TypeOf(d, v))
      BY <2>1, ArrayOrObject, OneKind, SliceFacts
    <2> HIDE DEF a
    <2>4. CASE IsArray(TypeOf(d, v))
      <3>1. ValueJson(d, json, v) = ContainerJson(d, json, v, "[", a)
        BY <1>2, <2>3, <2>4, Zenon DEF ValueJson
      <3>2. "[" \in Kinds
        BY DEF Kinds
      <3> QED BY <2>2, <2>4, <3>1, <3>2, Zenon
    <2>5. CASE IsObject(TypeOf(d, v))
      <3>1. ValueJson(d, json, v) = ContainerJson(d, json, v, "{", a)
        BY <1>2, <2>3, <2>5, Zenon DEF ValueJson
      <3>2. "{" \in Kinds
        BY DEF Kinds
      <3> QED BY <2>2, <2>5, <3>1, <3>2, Zenon
    <2>6. CASE ~IsArray(TypeOf(d, v)) /\ ~IsObject(TypeOf(d, v))
      <3> DEFINE scalar == Scalar(d, v)
      <3>1. ValueJson(d, json, v) = OrError(scalar, <<scalar.token>>)
        BY <1>2, <2>6, Zenon DEF ValueJson
      <3>2. scalar.error # OK => <<Mark(scalar.error)>> \in Seq(Tokens)
        BY <2>1, ScalarToken, MarkType DEF MayFail
      <3>3. scalar.error = OK => <<scalar.token>> \in Seq(Tokens)
        BY <2>1, ScalarToken, Zenon
      <3> QED BY <3>1, <3>2, <3>3, Zenon DEF OrError
    <2> QED BY <2>4, <2>5, <2>6
  <1> QED BY <1>1, <1>2

LEMMA JsonsType ==
    ASSUME NEW d \in Seq(Nat), NEW v \in Parts(d)
    PROVE  Jsons(d)[v] \in Seq(Tokens)
  <1> DEFINE S == {n \in Nat : AreTokens(d, Jsons(d), n)}
  <1>1. \A w \in Parts(d) : w.size \in Nat
    BY DEF Parts
  <1>2. 0 \in S
    BY <1>1 DEF AreTokens
  <1>3. ASSUME NEW n \in Nat, n \in S PROVE n + 1 \in S
    <2>1. ASSUME NEW w \in Parts(d), w.size < n + 1 PROVE Jsons(d)[w] \in Seq(Tokens)
      <3>1. \A x \in Parts(d) : x.size < w.size => x.size < n
        BY <1>1, <2>1
      <3>2. AreTokens(d, Jsons(d), w.size)
        BY <1>3, <3>1, Zenon DEF AreTokens
      <3> QED BY <3>2, JsonsStep, ValueJsonType, Zenon
    <2> QED BY <2>1 DEF AreTokens
  <1>4. \A n \in Nat : n \in S
    <2> HIDE DEF S
    <2> QED BY <1>2, <1>3, SetInduction
  <1>5. v.size + 1 \in Nat /\ v.size < v.size + 1
    BY <1>1
  <1>6. AreTokens(d, Jsons(d), v.size + 1)
    BY <1>4, <1>5
  <1> QED BY <1>5, <1>6, Zenon DEF AreTokens

LEMMA AllTokens ==
    ASSUME NEW d \in Seq(Nat), NEW size
    PROVE  AreTokens(d, Jsons(d), size)
  BY JsonsType, Zenon DEF AreTokens

-----------------------------------------------------------------------------
(***************************************************************************)
(* What is still to be put out                                             *)
(***************************************************************************)

LEMMA FirstAndMore ==
    ASSUME NEW S, NEW first \in S, NEW more \in Seq(S), NEW all \in Seq(S),
           Len(all) = Len(more) + 1, all[1] = first,
           \A z \in 1..Len(more) : all[z + 1] = more[z]
    PROVE  all = <<first>> \o more
  <1>1. PICK both \in Seq(S) : both = <<first>> \o more
    OBVIOUS
  <1>2. Len(both) = Len(all) /\ both[1] = first /\ \A z \in 1..Len(more) : both[z + 1] = more[z]
    BY <1>1
  <1>3. ASSUME NEW i \in 1..Len(all) PROVE both[i] = all[i]
    <2>1. CASE i = 1
      BY <1>2, <2>1, Zenon
    <2>2. CASE i # 1
      <3>1. i - 1 \in 1..Len(more) /\ (i - 1) + 1 = i
        BY <2>2
      <3> QED BY <1>2, <3>1, Zenon
    <2> QED BY <2>1, <2>2
  <1> QED BY <1>1, <1>2, <1>3, SeqEqual

LEMMA ConsIs ==
    ASSUME NEW first \in Seq(Tokens), NEW more \in Seq(Seq(Tokens)),
           NEW all \in Seq(Seq(Tokens)),
           Len(all) = Len(more) + 1, all[1] = first,
           \A z \in 1..Len(more) : all[z + 1] = more[z]
    PROVE  all = <<first>> \o more
  BY FirstAndMore, Zenon

LEMMA JoinAssociates ==
    ASSUME NEW a \in Seq(Tokens), NEW b \in Seq(Tokens), NEW c \in Seq(Tokens)
    PROVE  (a \o b) \o c = a \o (b \o c)
  OBVIOUS

LEMMA JoinEmpty ==
    ASSUME NEW a \in Seq(Tokens)
    PROVE  <<>> \o a = a /\ a \o <<>> = a
  OBVIOUS

\* The rest of a container is its next item and the rest behind that.
LEMMA NextInRest ==
    ASSUME NEW d \in Seq(Nat), NEW frame, IsFrame(d, frame), NEW next, IsFrame(d, next),
           frame.u < frame.analysis.count, next.u = frame.u + 1,
           next.value = frame.value, next.analysis = frame.analysis
    PROVE  RestJson(d, Jsons(d), frame)
             = ItemJson(d, Jsons(d), frame, frame.u) \o RestJson(d, Jsons(d), next)
  <1> DEFINE json == Jsons(d)
             items == ItemTokens(d, json, frame)
             more == ItemTokens(d, json, next)
             first == ItemJson(d, json, frame, frame.u)
  <1>1. PICK count \in Nat, u \in Nat :
          count = frame.analysis.count /\ u = frame.u /\ u < count
    <2>1. frame.analysis.count \in Nat
      BY ContainerFacts DEF IsFrame
    <2> QED BY <2>1 DEF IsFrame
  <1>2. /\ items \in Seq(Seq(Tokens)) /\ Len(items) = count - u
        /\ more \in Seq(Seq(Tokens)) /\ Len(more) = count - (u + 1)
    BY <1>1, AllTokens, ItemTokensType
  <1>3. first \in Seq(Tokens)
    <2>1. frame.u \in 0..(frame.analysis.count - 1)
      BY <1>1
    <2> QED BY <2>1, AllTokens, ItemJsonType, Zenon
  <1>4. \A i : ItemJson(d, json, next, i) = ItemJson(d, json, frame, i)
    BY Zenon DEF ItemJson
  <1>5. PICK n \in Nat : n + 1 = count - u /\ n = count - (u + 1)
    <2>1. count - (u + 1) \in Nat /\ (count - (u + 1)) + 1 = count - u
      BY SMTT(20), <1>1
    <2> QED BY <2>1
  <1>6. items = [z \in 1..n + 1 |-> ItemJson(d, json, frame, u + z - 1)]
    BY <1>1, <1>5, Zenon DEF ItemTokens
  <1>7. more = [z \in 1..n |-> ItemJson(d, json, frame, u + 1 + z - 1)]
    BY <1>1, <1>4, <1>5, Zenon DEF ItemTokens
  <1> HIDE DEF items, more, first
  <1>8. items[1] = first
    <2>1. 1 \in 1..n + 1 /\ u + 1 - 1 = u
      OBVIOUS
    <2> QED BY <1>1, <1>6, <2>1, Zenon DEF first
  <1>9. ASSUME NEW z \in 1..n PROVE items[z + 1] = more[z]
    <2>1. z + 1 \in 1..n + 1 /\ u + 1 + z - 1 = u + (z + 1) - 1
      OBVIOUS
    <2> QED BY <1>6, <1>7, <2>1, Zenon
  <1>10. items = <<first>> \o more
    <2>1. Len(items) = Len(more) + 1 /\ \A z \in 1..Len(more) : items[z + 1] = more[z]
      BY <1>2, <1>5, <1>9
    <2> QED BY <1>2, <1>3, <1>8, <2>1, ConsIs
  <1>11. /\ FlattenSeq(items) = first \o FlattenSeq(more) /\ FlattenSeq(more) \in Seq(Tokens)
    BY <1>2, <1>3, <1>10, FlattenCons
  <1>12. <<Closing(d, frame.value)>> \in Seq(Tokens)
    BY ClosingType
  <1>13. RestJson(d, json, frame) = FlattenSeq(items) \o <<Closing(d, frame.value)>>
    BY RestJsonIs, Zenon DEF items
  <1>14. RestJson(d, json, next) = FlattenSeq(more) \o <<Closing(d, frame.value)>>
    BY RestJsonIs, Zenon DEF more
  <1>15. (first \o FlattenSeq(more)) \o <<Closing(d, frame.value)>>
           = first \o (FlattenSeq(more) \o <<Closing(d, frame.value)>>)
    BY <1>3, <1>11, <1>12, JoinAssociates, Zenon
  <1> QED BY <1>11, <1>13, <1>14, <1>15, Zenon DEF first

LEMMA NothingInRest ==
    ASSUME NEW d \in Seq(Nat), NEW frame, IsFrame(d, frame),
           frame.u = frame.analysis.count
    PROVE  RestJson(d, Jsons(d), frame) = <<Closing(d, frame.value)>>
  <1>1. frame.analysis.count \in Nat
    BY ContainerFacts DEF IsFrame
  <1>2. /\ ItemTokens(d, Jsons(d), frame) \in Seq(Seq(Tokens))
        /\ Len(ItemTokens(d, Jsons(d), frame)) = 0
    BY <1>1, AllTokens, ItemTokensType
  <1>3. ItemTokens(d, Jsons(d), frame) = <<>>
    BY <1>2, EmptySeq, Zenon
  <1>4. <<>> \o <<Closing(d, frame.value)>> = <<Closing(d, frame.value)>>
    BY ClosingType, JoinEmpty, Zenon
  <1> QED BY <1>3, <1>4, RestJsonIs, FlattenEmpty, Zenon

\* What follows the containers that are open, innermost first.
AfterAll(d, containers) ==
    FlattenSeq([i \in 1..Len(containers) |->
                  RestJson(d, Jsons(d), containers[Len(containers) + 1 - i])])

AreFrames(d, containers) == \A f \in 1..Len(containers) : IsFrame(d, containers[f])

LEMMA AfterAllType ==
    ASSUME NEW d \in Seq(Nat), NEW S, NEW containers \in Seq(S), AreFrames(d, containers)
    PROVE  /\ [i \in 1..Len(containers) |->
                 RestJson(d, Jsons(d), containers[Len(containers) + 1 - i])] \in Seq(Seq(Tokens))
           /\ AfterAll(d, containers) \in Seq(Tokens)
  <1>1. PICK n \in Nat : n = Len(containers)
    OBVIOUS
  <1>2. PICK rests : rests = [i \in 1..n |-> RestJson(d, Jsons(d), containers[n + 1 - i])]
    OBVIOUS
  <1>3. ASSUME NEW i \in 1..n PROVE RestJson(d, Jsons(d), containers[n + 1 - i]) \in Seq(Tokens)
    <2>1. PICK f \in 1..n : f = n + 1 - i
      OBVIOUS
    <2>2. IsFrame(d, containers[f])
      BY <1>1 DEF AreFrames
    <2> QED BY <2>1, <2>2, AllTokens, RestJsonType, Zenon
  <1>4. rests \in [1..n -> Seq(Tokens)]
    BY <1>2, <1>3, Zenon
  <1>5. rests \in Seq(Seq(Tokens))
    BY <1>4
  <1>6. FlattenSeq(rests) \in Seq(Tokens)
    <2>1. <<>> \in Seq(Tokens)
      OBVIOUS
    <2> QED BY <1>5, <2>1, FlattenCons
  <1> QED BY <1>1, <1>2, <1>5, <1>6, Zenon DEF AfterAll

\* A container that is opened comes before what follows the others.
LEMMA AfterPushed ==
    ASSUME NEW d \in Seq(Nat), NEW S, NEW containers \in Seq(S), AreFrames(d, containers),
           NEW frame \in S, IsFrame(d, frame)
    PROVE  AfterAll(d, Append(containers, frame))
             = RestJson(d, Jsons(d), frame) \o AfterAll(d, containers)
  <1>1. PICK n \in Nat : n = Len(containers)
    OBVIOUS
  <1>2. PICK pushed \in Seq(S) :
          /\ pushed = Append(containers, frame) /\ Len(pushed) = n + 1 /\ pushed[n + 1] = frame
          /\ \A i \in 1..n : pushed[i] = containers[i]
    <2>1. PICK pushed \in Seq(S) : pushed = Append(containers, frame)
      <3>1. Append(containers, frame) \in Seq(S)
        BY AppendProperties, Zenon
      <3> QED BY <3>1, Zenon
    <2>2. /\ Len(pushed) = n + 1 /\ pushed[n + 1] = frame
          /\ \A i \in 1..n : pushed[i] = containers[i]
      BY <1>1, <2>1
    <2> QED BY <2>1, <2>2, Zenon
  <1>3. PICK rests \in Seq(Seq(Tokens)) :
          rests = [i \in 1..n |-> RestJson(d, Jsons(d), containers[n + 1 - i])]
    BY <1>1, AfterAllType
  <1>4. PICK rest \in Seq(Tokens) : rest = RestJson(d, Jsons(d), frame)
    BY AllTokens, RestJsonType
  <1>5. PICK all : all = [i \in 1..n + 1 |-> RestJson(d, Jsons(d), pushed[n + 1 + 1 - i])]
    OBVIOUS
  <1>6. all[1] = rest
    <2>1. 1 \in 1..n + 1 /\ n + 1 + 1 - 1 = n + 1
      OBVIOUS
    <2> QED BY <1>2, <1>4, <1>5, <2>1, Zenon
  <1>7. ASSUME NEW i \in 1..n PROVE all[i + 1] = rests[i]
    <2>1. i + 1 \in 1..n + 1 /\ n + 1 + 1 - (i + 1) = n + 1 - i /\ n + 1 - i \in 1..n
      OBVIOUS
    <2> QED BY <1>2, <1>3, <1>5, <2>1, Zenon
  <1>8. DOMAIN rests = 1..n /\ Len(rests) = n
    BY <1>3
  <1>9. all = <<rest>> \o rests
    <2>1. \A i \in 1..n + 1 : all[i] \in Seq(Tokens)
      <3>1. ASSUME NEW i \in 1..n + 1, i # 1 PROVE i - 1 \in 1..n /\ (i - 1) + 1 = i
        BY <3>1
      <3>2. \A i \in 1..n : rests[i] \in Seq(Tokens)
        BY <1>8
      <3> QED BY <1>4, <1>6, <1>7, <3>1, <3>2, Zenon
    <2>2. all \in [1..n + 1 -> Seq(Tokens)]
      BY <1>5, <2>1, Zenon
    <2>3. all \in Seq(Seq(Tokens)) /\ Len(all) = n + 1
      BY <2>2
    <2>4. Len(all) = Len(rests) + 1 /\ \A z \in 1..Len(rests) : all[z + 1] = rests[z]
      BY <1>7, <1>8, <2>3, Zenon
    <2> QED BY <1>6, <2>3, <2>4, ConsIs, Zenon
  <1>10. FlattenSeq(all) = rest \o FlattenSeq(rests)
    BY <1>9, FlattenCons
  <1> QED BY <1>1, <1>2, <1>3, <1>4, <1>5, <1>10, Zenon DEF AfterAll

-----------------------------------------------------------------------------
(***************************************************************************)
(* The invariant: while the conversion goes on, what has been put out, the *)
(* JSON of what is converted next and what is left of the open containers  *)
(* make up the JSON of the document.                                       *)
(***************************************************************************)
Coming(d, values) == IF values = <<>> THEN <<>> ELSE Jsons(d)[values[1]]

ToCome == Coming(doc, pending) \o AfterAll(doc, frames)

AllCounted(containers) ==
    \A f \in 1..Len(containers) : containers[f].u <= containers[f].analysis.count

JsonInv ==
    /\ ConvertInv
    /\ AllCounted(frames)
    /\ output \in Seq(Tokens)
    /\ outcome = "running" => Json = output \o ToCome
    /\ BeginningOf(Json)

LEMMA PrefixOfJoined ==
    ASSUME NEW a \in Seq(Tokens), NEW b \in Seq(Tokens)
    PROVE  /\ IsPrefix(a, a \o b)
           /\ b # <<>> => (a \o b)[Len(a) + 1] = b[1]
  <1>1. PICK n \in Nat, m \in Nat : n = Len(a) /\ m = Len(b)
    OBVIOUS
  <1>2. PICK all \in Seq(Tokens) : all = a \o b
    <2>1. a \o b \in Seq(Tokens)
      BY ConcatProperties, Zenon
    <2> QED BY <2>1, Zenon
  <1>3. Len(all) = n + m /\ \A i \in 1..n : all[i] = a[i]
    BY <1>1, <1>2
  <1>4. SubSeq(all, 1, n) = SubSeq(a, 1, n)
    <2>1. n \in 0..Len(all) /\ n \in 0..Len(a)
      BY <1>1, <1>3
    <2>2. /\ SubSeq(all, 1, n) \in Seq(Tokens) /\ Len(SubSeq(all, 1, n)) = n
          /\ SubSeq(a, 1, n) \in Seq(Tokens) /\ Len(SubSeq(a, 1, n)) = n
          /\ \A i \in 1..n : SubSeq(all, 1, n)[i] = all[i] /\ SubSeq(a, 1, n)[i] = a[i]
      BY <2>1
    <2>3. \A i \in 1..n : SubSeq(all, 1, n)[i] = SubSeq(a, 1, n)[i]
      BY <1>3, <2>2, Zenon
    <2> QED BY <2>2, <2>3, SeqEqual
  <1>5. b # <<>> => all[n + 1] = b[1]
    BY <1>1, <1>2
  <1>6. n <= n + m
    OBVIOUS
  <1> QED BY <1>1, <1>2, <1>3, <1>4, <1>5, <1>6, Zenon DEF IsPrefix

LEMMA TwoParts ==
    ASSUME NEW b \in Seq(Tokens), NEW n \in 0..Len(b)
    PROVE  \E part \in Seq(Tokens) : \E left \in Seq(Tokens) :
             part = SubSeq(b, 1, n) /\ b = part \o left
  <1>1. PICK part \in Seq(Tokens) :
          part = SubSeq(b, 1, n) /\ Len(part) = n /\ \A i \in 1..n : part[i] = b[i]
    <2>1. /\ SubSeq(b, 1, n) \in Seq(Tokens) /\ Len(SubSeq(b, 1, n)) = n
          /\ \A i \in 1..n : SubSeq(b, 1, n)[i] = b[i]
      BY SMTT(20)
    <2> QED BY <2>1, Zenon
  <1>2. PICK m \in Nat : n + m = Len(b)
    <2>1. Len(b) - n \in Nat /\ n + (Len(b) - n) = Len(b)
      OBVIOUS
    <2> QED BY <2>1
  <1>3. PICK left \in Seq(Tokens) : Len(left) = m /\ \A i \in 1..m : left[i] = b[n + i]
    <2>1. ASSUME NEW i \in 1..m PROVE b[n + i] \in Tokens
      BY <1>2
    <2>2. PICK left : left = [i \in 1..m |-> b[n + i]]
      OBVIOUS
    <2>3. left \in [1..m -> Tokens] /\ \A i \in 1..m : left[i] = b[n + i]
      BY <2>1, <2>2, Zenon
    <2>4. left \in Seq(Tokens) /\ Len(left) = m
      BY <2>3
    <2> QED BY <2>3, <2>4, Zenon
  <1>4. PICK all \in Seq(Tokens) : all = part \o left
    <2>1. part \o left \in Seq(Tokens)
      BY ConcatProperties, Zenon
    <2> QED BY <2>1, Zenon
  <1>5. /\ Len(all) = n + m
        /\ \A i \in 1..n : all[i] = part[i]
        /\ \A i \in 1..m : all[n + i] = left[i]
    <2>1. /\ Len(part \o left) = Len(part) + Len(left)
          /\ \A i \in 1..Len(part) + Len(left) :
               (part \o left)[i] = IF i <= Len(part) THEN part[i] ELSE left[i - Len(part)]
      BY ConcatProperties, Zenon
    <2>2. /\ Len(all) = n + m
          /\ \A i \in 1..n + m : all[i] = IF i <= n THEN part[i] ELSE left[i - n]
      BY <1>1, <1>3, <1>4, <2>1, Zenon
    <2>3. ASSUME NEW i \in 1..n PROVE i \in 1..n + m /\ i <= n
      OBVIOUS
    <2>4. ASSUME NEW i \in 1..m PROVE n + i \in 1..n + m /\ ~(n + i <= n) /\ (n + i) - n = i
      OBVIOUS
    <2> QED BY <2>2, <2>3, <2>4, Zenon
  <1>6. ASSUME NEW i \in 1..Len(b) PROVE all[i] = b[i]
    <2>1. CASE i \in 1..n
      BY <1>1, <1>5, <2>1, Zenon
    <2>2. CASE i \notin 1..n
      <3>1. i - n \in 1..m /\ n + (i - n) = i
        BY <1>2, <2>2
      <3> QED BY <1>3, <1>5, <3>1, ZenonT(40)
    <2> QED BY <2>1, <2>2
  <1>7. all = b
    BY <1>2, <1>5, <1>6, SeqEqual
  <1> QED BY <1>1, <1>4, <1>7, Zenon

\* What a callback that fails has taken is the beginning of what it was given.
LEMMA PrefixOfPart ==
    ASSUME NEW a \in Seq(Tokens), NEW b \in Seq(Tokens), NEW c \in Seq(Tokens),
           NEW n \in 0..Len(b)
    PROVE  /\ a \o SubSeq(b, 1, n) \in Seq(Tokens)
           /\ IsPrefix(a \o SubSeq(b, 1, n), a \o (b \o c))
  <1>1. PICK part \in Seq(Tokens) : \E left \in Seq(Tokens) :
          part = SubSeq(b, 1, n) /\ b = part \o left
    BY TwoParts, Zenon
  <1>2. PICK left \in Seq(Tokens) : part = SubSeq(b, 1, n) /\ b = part \o left
    BY <1>1, Zenon
  <1>3. a \o part \in Seq(Tokens) /\ left \o c \in Seq(Tokens)
    BY ConcatProperties, Zenon
  <1>4. a \o (b \o c) = (a \o part) \o (left \o c)
    <2>1. (part \o left) \o c = part \o (left \o c)
      BY SMTT(20), JoinAssociates
    <2>2. a \o (part \o (left \o c)) = (a \o part) \o (left \o c)
      <3>1. PICK rest \in Seq(Tokens) : rest = left \o c
        BY <1>3, Zenon
      <3>2. (a \o part) \o rest = a \o (part \o rest)
        BY SMTT(20), JoinAssociates
      <3> QED BY <3>1, <3>2, Zenon
    <2> QED BY <1>2, <2>1, <2>2, Zenon
  <1> QED BY <1>2, <1>3, <1>4, PrefixOfJoined, Zenon

\* The containers that are open, as frames whose items are counted.
LEMMA FramesAre ==
    ASSUME JsonInv
    PROVE  /\ AreFrames(doc, frames) /\ doc \in Seq(Nat) /\ frames \in Seq(Frames(doc))
           /\ AfterAll(doc, frames) \in Seq(Tokens)
  <1>1. /\ doc \in Seq(Nat) /\ frames \in Seq(Frames(doc)) /\ Nested(doc, frames)
        /\ \A f \in 1..Len(frames) : frames[f].u <= frames[f].analysis.count
    BY DEF JsonInv, ConvertInv, AllCounted
  <1>2. ASSUME NEW f \in 1..Len(frames) PROVE IsFrame(doc, frames[f])
    <2>1. IsContainer(doc, frames[f].value)
      BY <1>1 DEF Nested
    <2>2. frames[f] \in Frames(doc)
      BY <1>1
    <2>3. frames[f].analysis = AnalysisOf(doc, frames[f].value) /\ frames[f].u \in Nat
      BY <2>2 DEF Frames
    <2>4. frames[f].analysis.count \in Nat
      BY <1>1, <2>1, <2>3, ContainerFacts
    <2> QED BY <1>1, <2>1, <2>3, <2>4 DEF IsFrame
  <1>3. AreFrames(doc, frames)
    BY <1>2 DEF AreFrames
  <1> QED BY <1>1, <1>3, AfterAllType

LEMMA PendingIs ==
    ASSUME JsonInv, pending # <<>>
    PROVE  pending[1] \in Parts(doc) /\ Coming(doc, pending) = Jsons(doc)[pending[1]]
  <1>1. PICK v \in Slices : pending = <<v>> /\ MayFollow(doc, frames, v)
    BY DEF JsonInv, ConvertInv
  <1>2. doc \in Seq(Nat) /\ pending[1] = v
    BY <1>1 DEF JsonInv, ConvertInv
  <1>3. SliceEnd(v) <= Len(doc)
    BY <1>1, <1>2 DEF MayFollow, InDocument, Root, Slice, SliceEnd
  <1>4. v \in Parts(doc)
    <2>1. PICK b \in Nat, n \in Nat : v = [buffer |-> b, size |-> n]
      BY DEF Slices
    <2>2. b + n <= Len(doc)
      BY <1>3, <2>1 DEF SliceEnd
    <2> QED BY <1>2, <1>3, <2>1, <2>2 DEF Parts
  <1> QED BY <1>2, <1>4, Zenon DEF Coming


-----------------------------------------------------------------------------
(***************************************************************************)
(* What a step leaves of the invariant                                     *)
(***************************************************************************)
LEMMA JsonStays ==
    ASSUME doc' = doc
    PROVE  Json' = Json
  BY Zenon DEF Json, Jsons, Root

\* Tokens have been put out, and the rest is still to come.
LEMMA JoinedInv ==
    ASSUME JsonInv, outcome = "running", ConvertInv', doc' = doc, AllCounted(frames)',
           NEW tokens \in Seq(Tokens), NEW rest \in Seq(Tokens), ToCome = tokens \o rest,
           output' = output \o tokens, outcome' = "running", ToCome' = rest
    PROVE  JsonInv'
  <1>1. output \in Seq(Tokens) /\ Json = output \o (tokens \o rest)
    BY DEF JsonInv
  <1>2. PICK after \in Seq(Tokens) : after = output \o tokens
    <2>1. output \o tokens \in Seq(Tokens)
      BY <1>1, ConcatProperties, Zenon
    <2> QED BY <2>1, Zenon
  <1>3. Json = after \o rest
    <2>1. (output \o tokens) \o rest = output \o (tokens \o rest)
      BY <1>1, JoinAssociates
    <2> QED BY <1>1, <1>2, <2>1, Zenon
  <1>4. IsPrefix(after, Json)
    BY <1>3, PrefixOfJoined, Zenon
  <1>5. Json' = Json /\ output' = after
    BY <1>2, JsonStays
  <1>6. BeginningOf(Json)'
    BY <1>4, <1>5 DEF BeginningOf, OK, FileErrors
  <1>7. (outcome = "running" => Json = output \o ToCome)'
    BY <1>3, <1>5, Zenon
  <1> QED BY <1>2, <1>5, <1>6, <1>7 DEF JsonInv

\* A callback has failed, or what comes next cannot be read.
LEMMA FailedInv ==
    ASSUME JsonInv, ConvertInv', UNCHANGED <<doc, frames, pending>>,
           output' \in Seq(Tokens), outcome' # "running", BeginningOf(Json)'
    PROVE  JsonInv'
  <1>1. AllCounted(frames)'
    BY DEF JsonInv, AllCounted
  <1> QED BY <1>1 DEF JsonInv

LEMMA CallbackFailsInv ==
    ASSUME JsonInv, outcome = "running",
           NEW tokens \in Seq(Tokens), NEW rest \in Seq(Tokens), ToCome = tokens \o rest,
           CallbackFails(tokens)
    PROVE  JsonInv'
  <1>1. output \in Seq(Tokens) /\ Json = output \o (tokens \o rest)
    BY DEF JsonInv
  <1>2. PICK n \in 0..(Len(tokens) - 1) : output' = output \o SubSeq(tokens, 1, n)
    BY DEF CallbackFails
  <1>3. n \in 0..Len(tokens)
    OBVIOUS
  <1>4. output' \in Seq(Tokens) /\ IsPrefix(output', Json)
    BY <1>1, <1>2, <1>3, PrefixOfPart
  <1>5. outcome' = "output" /\ UNCHANGED <<doc, frames, pending>>
    BY DEF CallbackFails
  <1>6. Json' = Json
    BY <1>5, JsonStays
  <1>7. BeginningOf(Json)'
    BY <1>4, <1>5, <1>6 DEF BeginningOf, OK, FileErrors
  <1>8. ConvertInv'
    BY <1>5, InvStays DEF JsonInv
  <1> QED BY <1>4, <1>5, <1>7, <1>8, FailedInv

LEMMA StoppedInv ==
    ASSUME JsonInv, outcome = "running", UNCHANGED <<doc, frames, pending>>,
           NEW tokens \in Seq(Tokens), NEW rest \in Seq(Tokens), NEW error \in Kinds,
           error # OK, ToCome = tokens \o (<<Mark(error)>> \o rest),
           output' = output \o tokens, outcome' = error
    PROVE  JsonInv'
  <1>1. output \in Seq(Tokens) /\ Json = output \o (tokens \o (<<Mark(error)>> \o rest))
    BY DEF JsonInv
  <1>2. PICK after \in Seq(Tokens) : after = output \o tokens
    <2>1. output \o tokens \in Seq(Tokens)
      BY <1>1, ConcatProperties, Zenon
    <2> QED BY <2>1, Zenon
  <1>3. PICK left \in Seq(Tokens) : left = <<Mark(error)>> \o rest
    <2>1. <<Mark(error)>> \o rest \in Seq(Tokens)
      BY MarkType, ConcatProperties, Zenon
    <2> QED BY <2>1, Zenon
  <1>4. left # <<>> /\ left[1] = Mark(error)
    <2>1. PICK mark \in Tokens : mark = Mark(error)
      <3>1. Mark(error) \in Tokens
        BY DEF Mark, Token, Tokens
      <3> QED BY <3>1, Zenon
    <2>2. (<<mark>> \o rest) # <<>> /\ (<<mark>> \o rest)[1] = mark
      OBVIOUS
    <2> QED BY <1>3, <2>1, <2>2, Zenon
  <1>5. Json = after \o left
    <2>1. (output \o tokens) \o left = output \o (tokens \o left)
      BY <1>1, JoinAssociates
    <2> QED BY <1>1, <1>2, <1>3, <2>1, Zenon
  <1>6. IsPrefix(after, Json) /\ Json[Len(after) + 1] = Mark(error)
    BY <1>4, <1>5, PrefixOfJoined, Zenon
  <1>7. Json' = Json /\ output' = after
    BY <1>2, JsonStays
  <1>8. error # "running"
    BY DEF Kinds
  <1>9. BeginningOf(Json)'
    BY <1>6, <1>7, Zenon DEF BeginningOf
  <1>10. ConvertInv'
    BY InvStays DEF JsonInv
  <1> QED BY <1>2, <1>7, <1>8, <1>9, <1>10, FailedInv

LEMMA FailsAfterInv ==
    ASSUME JsonInv, outcome = "running",
           NEW tokens \in Seq(Tokens), NEW rest \in Seq(Tokens), NEW error \in Kinds,
           error # OK, ToCome = tokens \o (<<Mark(error)>> \o rest), FailsAfter(tokens, error)
    PROVE  JsonInv'
  <1>1. CASE /\ output' = output \o tokens
             /\ outcome' = error
             /\ UNCHANGED <<doc, frames, pending>>
    BY <1>1, StoppedInv
  <1>2. CASE CallbackFails(tokens)
    <2>1. <<Mark(error)>> \o rest \in Seq(Tokens)
      BY MarkType, ConcatProperties, Zenon
    <2> QED BY <1>2, <2>1, CallbackFailsInv, Zenon
  <1> QED BY <1>1, <1>2 DEF FailsAfter


-----------------------------------------------------------------------------
(***************************************************************************)
(* Each step of the conversion                                             *)
(***************************************************************************)
LEMMA ToComeIs ==
    ASSUME JsonInv
    PROVE  /\ pending = <<>> => ToCome = AfterAll(doc, frames)
           /\ pending # <<>> => ToCome = ValueJson(doc, Jsons(doc), pending[1])
                                           \o AfterAll(doc, frames)
  <1>1. AfterAll(doc, frames) \in Seq(Tokens) /\ doc \in Seq(Nat)
    BY FramesAre
  <1>2. ASSUME pending = <<>> PROVE ToCome = AfterAll(doc, frames)
    BY <1>1, <1>2, JoinEmpty, Zenon DEF ToCome, Coming
  <1>3. ASSUME pending # <<>> PROVE ToCome = ValueJson(doc, Jsons(doc), pending[1])
                                              \o AfterAll(doc, frames)
    BY <1>1, <1>3, PendingIs, JsonsStep, Zenon DEF ToCome
  <1> QED BY <1>2, <1>3

LEMMA NothingJson ==
    ASSUME JsonInv, ConvertNothing
    PROVE  JsonInv'
  <1>1. PICK after \in Seq(Tokens) : after = AfterAll(doc, frames)
    BY FramesAre
  <1>2. /\ outcome = "running" /\ pending # <<>> /\ pending[1].size = 0
        /\ outcome' = "parameter_is_zero" /\ UNCHANGED <<doc, frames, pending, output>>
    BY DEF ConvertNothing
  <1>3. ToCome = <<Mark("parameter_is_zero")>> \o after
    BY <1>1, <1>2, ToComeIs, Zenon DEF ValueJson
  <1>4. "parameter_is_zero" \in Kinds /\ "parameter_is_zero" # OK
    BY DEF Kinds, OK
  <1>5. <<>> \in Seq(Tokens) /\ output \in Seq(Tokens)
    BY DEF JsonInv
  <1>6. PICK left \in Seq(Tokens) : left = <<Mark("parameter_is_zero")>> \o after
    <2>1. <<Mark("parameter_is_zero")>> \o after \in Seq(Tokens)
      BY <1>4, MarkType, ConcatProperties, Zenon
    <2> QED BY <2>1, Zenon
  <1>7. ToCome = <<>> \o (<<Mark("parameter_is_zero")>> \o after)
    BY <1>3, <1>6, JoinEmpty, Zenon
  <1>8. output' = output \o <<>>
    BY <1>2, <1>5, JoinEmpty
  <1> QED BY <1>2, <1>4, <1>5, <1>7, <1>8, StoppedInv

\* What is to be converted cannot be.
LEMMA CannotConvert ==
    ASSUME JsonInv, outcome = "running", pending # <<>>,
           NEW x, x.error # OK, MayFail(x), NEW tokens,
           ValueJson(doc, Jsons(doc), pending[1]) = OrError(x, tokens),
           FailsAfter(<<>>, x.error)
    PROVE  JsonInv'
  <1>1. PICK after \in Seq(Tokens) : after = AfterAll(doc, frames)
    BY FramesAre
  <1>2. PICK error \in Kinds : error = x.error /\ error # OK
    BY DEF MayFail
  <1>3. ToCome = <<Mark(error)>> \o after
    BY <1>1, <1>2, ToComeIs, Zenon DEF OrError
  <1>4. PICK left \in Seq(Tokens) : left = <<Mark(error)>> \o after
    <2>1. <<Mark(error)>> \o after \in Seq(Tokens)
      BY MarkType, ConcatProperties, Zenon
    <2> QED BY <2>1, Zenon
  <1>5. ToCome = <<>> \o (<<Mark(error)>> \o after)
    BY <1>3, <1>4, JoinEmpty, Zenon
  <1>6. <<>> \in Seq(Tokens)
    OBVIOUS
  <1> QED BY <1>2, <1>5, <1>6, FailsAfterInv, Zenon

LEMMA ScalarJson ==
    ASSUME JsonInv, ConvertScalar, ConvertInv'
    PROVE  JsonInv'
  <1> DEFINE v == pending[1]
             scalar == Scalar(doc, v)
  <1>1. /\ outcome = "running" /\ pending # <<>> /\ v.size > 0
        /\ ~IsArray(TypeOf(doc, v)) /\ ~IsObject(TypeOf(doc, v))
    BY DEF ConvertScalar, Converting
  <1>2. \/ scalar.error # OK /\ FailsAfter(<<>>, scalar.error)
        \/ /\ scalar.error = OK
           /\ \/ /\ Outputs(<<scalar.token>>) /\ pending' = <<>> /\ UNCHANGED frames
              \/ CallbackFails(<<scalar.token>>)
    BY Zenon DEF ConvertScalar
  <1>3. InDocument(doc, v) /\ doc \in Seq(Nat)
    BY <1>1, PendingInDocument DEF JsonInv, ConvertInv
  <1>4. MayFail(scalar) /\ (scalar.error = OK => <<scalar.token>> \in Seq(Tokens))
    BY <1>3, ScalarToken, Zenon
  <1>5. ValueJson(doc, Jsons(doc), v) = OrError(scalar, <<scalar.token>>)
    <2>1. v.size # 0
      BY <1>1
    <2> QED BY <1>1, <2>1, Zenon DEF ValueJson
  <1>6. CASE scalar.error # OK
    <2> HIDE DEF scalar
    <2>1. FailsAfter(<<>>, scalar.error)
      BY <1>2, <1>6, Zenon
    <2> QED BY <1>1, <1>4, <1>5, <1>6, <2>1, CannotConvert, Zenon
  <1>7. CASE scalar.error = OK
    <2>1. PICK tokens \in Seq(Tokens) : tokens = <<scalar.token>>
      BY <1>4, <1>7, Zenon
    <2>2. PICK after \in Seq(Tokens) : after = AfterAll(doc, frames)
      BY FramesAre
    <2>3. ToCome = tokens \o after
      BY <1>1, <1>5, <1>7, <2>1, <2>2, ToComeIs, Zenon DEF OrError
    <2>4. CASE Outputs(tokens) /\ pending' = <<>> /\ UNCHANGED frames
      <3>1. /\ output' = output \o tokens /\ doc' = doc /\ outcome' = "running"
            /\ frames' = frames /\ pending' = <<>>
        BY <1>1, <2>4 DEF Outputs
      <3>2. AllCounted(frames)'
        BY <3>1 DEF JsonInv, AllCounted
      <3>3. ToCome' = <<>> \o AfterAll(doc', frames')
        BY <3>1, Zenon DEF ToCome, Coming
      <3>4. AfterAll(doc', frames') = after
        BY <2>2, <3>1, Zenon
      <3>5. ToCome' = after
        BY <3>3, <3>4, JoinEmpty, Zenon
      <3> QED BY <1>1, <2>3, <3>1, <3>2, <3>5, JoinedInv, Zenon
    <2>5. CASE CallbackFails(tokens)
      BY <1>1, <2>3, <2>5, CallbackFailsInv, Zenon
    <2> QED BY <1>2, <1>7, <2>1, <2>4, <2>5, Zenon
  <1> QED BY <1>6, <1>7


LEMMA OpenJson ==
    ASSUME JsonInv, ConvertInv', outcome = "running", pending # <<>>, pending[1].size > 0,
           NEW bracket \in Kinds, Open(AnalysisOf(doc, pending[1]), bracket),
           IsArray(TypeOf(doc, pending[1])) \/ IsObject(TypeOf(doc, pending[1])),
           ValueJson(doc, Jsons(doc), pending[1])
             = ContainerJson(doc, Jsons(doc), pending[1], bracket, AnalysisOf(doc, pending[1]))
    PROVE  JsonInv'
  <1> DEFINE v == pending[1]
             a == AnalysisOf(doc, v)
             frame == [value |-> v, analysis |-> a, u |-> 0]
             rest == RestJson(doc, Jsons(doc), frame)
  <1>1. InDocument(doc, v)
    BY PendingInDocument DEF JsonInv
  <1>2. ValueJson(doc, Jsons(doc), v) = OrError(a, <<Mark(bracket)>> \o rest)
    BY Zenon DEF ContainerJson
  <1>3. MayFail(a)
    BY AnalysisFails
  <1>4. \/ a.error # OK /\ FailsAfter(<<>>, a.error)
        \/ /\ a.error = OK
           /\ \/ /\ Outputs(<<Mark(bracket)>>)
                 /\ frames' = Append(frames, frame) /\ pending' = <<>>
              \/ CallbackFails(<<Mark(bracket)>>)
    BY Zenon DEF Open
  <1>5. IsArray(TypeOf(doc, v)) \/ IsObject(TypeOf(doc, v))
    OBVIOUS
  <1> HIDE DEF a, rest
  <1>6. CASE a.error # OK
    BY <1>2, <1>3, <1>4, <1>6, CannotConvert, Zenon
  <1>7. CASE a.error = OK
    <2>1. PICK tokens \in Seq(Tokens) : tokens = <<Mark(bracket)>>
      <3>1. <<Mark(bracket)>> \in Seq(Tokens)
        BY MarkType
      <3> QED BY <3>1, Zenon
    <2>2. PICK after \in Seq(Tokens) : after = AfterAll(doc, frames)
      BY FramesAre
    <2>3. IsContainer(doc, v)
      BY <1>1, <1>5, <1>7 DEF IsContainer, a
    <2>4. a.count \in Nat
      BY <2>3, FramesAre, ContainerFacts DEF a
    <2>5. frame.value = v /\ frame.analysis = a /\ frame.u = 0
      OBVIOUS
    <2>6. IsFrame(doc, frame)
      BY <2>3, <2>4, <2>5 DEF IsFrame, a
    <2>7. frame \in Frames(doc)
      BY <1>1 DEF Frames, InDocument, a
    <2> HIDE DEF frame, v
    <2>8. PICK items \in Seq(Tokens) : items = rest
      <3>1. rest \in Seq(Tokens)
        BY <2>6, FramesAre, AllTokens, RestJsonType, Zenon DEF rest
      <3> QED BY <3>1, Zenon
    <2>9. AfterAll(doc, Append(frames, frame)) = items \o after
      BY <2>2, <2>6, <2>7, <2>8, FramesAre, AfterPushed, Zenon DEF rest
    <2>10. PICK left \in Seq(Tokens) : left = items \o after
      <3>1. items \o after \in Seq(Tokens)
        BY ConcatProperties, Zenon
      <3> QED BY <3>1, Zenon
    <2>11. ToCome = tokens \o left
      <3>1. ToCome = (tokens \o items) \o after
        BY <1>2, <1>7, <2>1, <2>2, <2>8, ToComeIs, Zenon DEF OrError, v
      <3>2. (tokens \o items) \o after = tokens \o (items \o after)
        BY JoinAssociates, ZenonT(40)
      <3> QED BY <2>10, <3>1, <3>2, Zenon
    <2>12. CASE Outputs(tokens) /\ frames' = Append(frames, frame) /\ pending' = <<>>
      <3>1. /\ output' = output \o tokens /\ doc' = doc /\ outcome' = "running"
            /\ frames' = Append(frames, frame) /\ pending' = <<>>
        BY <2>12 DEF Outputs
      <3>2. AllCounted(frames)'
        <4>1. frames \in Seq(Frames(doc)) /\ AllCounted(frames)
          BY DEF JsonInv, ConvertInv
        <4>2. frame.u <= frame.analysis.count
          BY <2>4, <2>5
        <4>3. AllCounted(Append(frames, frame))
          BY <2>7, <4>1, <4>2 DEF AllCounted
        <4> QED BY <3>1, <4>3 DEF AllCounted
      <3>3. ToCome' = <<>> \o AfterAll(doc', frames')
        BY <3>1, Zenon DEF ToCome, Coming
      <3>4. AfterAll(doc', frames') = left
        BY <2>9, <2>10, <3>1, Zenon
      <3>5. ToCome' = left
        BY <3>3, <3>4, JoinEmpty, Zenon
      <3> QED BY <2>11, <3>1, <3>2, <3>5, JoinedInv, Zenon
    <2>13. CASE CallbackFails(tokens)
      BY <2>11, <2>13, CallbackFailsInv, Zenon
    <2> QED BY <1>4, <1>7, <2>1, <2>12, <2>13, Zenon
  <1> QED BY <1>6, <1>7

LEMMA OpenArrayJson ==
    ASSUME JsonInv, OpenArray, ConvertInv'
    PROVE  JsonInv'
  <1> DEFINE v == pending[1]
  <1>1. /\ outcome = "running" /\ pending # <<>> /\ v.size > 0 /\ IsArray(TypeOf(doc, v))
        /\ Open(ArrayAnalyze(doc, v), "[")
    BY DEF OpenArray, Converting
  <1>2. InDocument(doc, v) /\ doc \in Seq(Nat)
    BY <1>1, PendingInDocument DEF JsonInv, ConvertInv
  <1>3. AnalysisOf(doc, v) = ArrayAnalyze(doc, v) /\ ~IsObject(TypeOf(doc, v))
    BY <1>1, <1>2, ArrayOrObject, OneKind, SliceFacts
  <1>4. v.size > 0 => v.size # 0
    OBVIOUS
  <1>5. ValueJson(doc, Jsons(doc), v)
          = ContainerJson(doc, Jsons(doc), v, "[", AnalysisOf(doc, v))
    BY <1>1, <1>3, <1>4, Zenon DEF ValueJson
  <1>6. Open(AnalysisOf(doc, v), "[")
    BY <1>1, <1>3, Zenon
  <1>7. "[" \in Kinds
    BY Zenon DEF Kinds
  <1> QED BY <1>1, <1>5, <1>6, <1>7, OpenJson, Zenon

LEMMA OpenObjectJson ==
    ASSUME JsonInv, OpenObject, ConvertInv'
    PROVE  JsonInv'
  <1> DEFINE v == pending[1]
  <1>1. /\ outcome = "running" /\ pending # <<>> /\ v.size > 0 /\ IsObject(TypeOf(doc, v))
        /\ Open(ObjectAnalyze(doc, v), "{")
    BY DEF OpenObject, Converting
  <1>2. InDocument(doc, v) /\ doc \in Seq(Nat)
    BY <1>1, PendingInDocument DEF JsonInv, ConvertInv
  <1>3. AnalysisOf(doc, v) = ObjectAnalyze(doc, v) /\ ~IsArray(TypeOf(doc, v))
    BY <1>1, <1>2, ArrayOrObject, OneKind, SliceFacts
  <1>4. v.size > 0 => v.size # 0
    OBVIOUS
  <1>5. ValueJson(doc, Jsons(doc), v)
          = ContainerJson(doc, Jsons(doc), v, "{", AnalysisOf(doc, v))
    BY <1>1, <1>3, <1>4, Zenon DEF ValueJson
  <1>6. Open(AnalysisOf(doc, v), "{")
    BY <1>1, <1>3, Zenon
  <1>7. "{" \in Kinds
    BY Zenon DEF Kinds
  <1> QED BY <1>1, <1>5, <1>6, <1>7, OpenJson, Zenon


\* The innermost open container is the last frame.
LEMMA FrontAndLast ==
    ASSUME NEW S, NEW containers \in Seq(S), containers # <<>>
    PROVE  /\ Front(containers) \in Seq(S) /\ Last(containers) \in S
           /\ containers = Append(Front(containers), Last(containers))
           /\ Len(containers) = Len(Front(containers)) + 1
           /\ \A f \in 1..Len(Front(containers)) : Front(containers)[f] = containers[f]
  <1>1. PICK n \in Nat : Len(containers) = n + 1
    <2>1. Len(containers) - 1 \in Nat /\ Len(containers) = (Len(containers) - 1) + 1
      OBVIOUS
    <2> QED BY <2>1
  <1>2. PICK front : front = Front(containers)
    OBVIOUS
  <1>3. front = [i \in 1..n |-> containers[i]]
    <2>1. front = [i \in 1..(n - 1 + 1) |-> containers[i + 1 - 1]]
      BY <1>1, <1>2 DEF Front
    <2> QED BY <1>1, <2>1
  <1>4. front \in Seq(S) /\ Len(front) = n /\ \A i \in 1..n : front[i] = containers[i]
    BY <1>1, <1>3
  <1>5. PICK last \in S : last = Last(containers) /\ last = containers[n + 1]
    <2>1. containers[n + 1] \in S /\ Last(containers) = containers[n + 1]
      BY <1>1 DEF Last
    <2> QED BY <2>1, Zenon
  <1>6. PICK all \in Seq(S) :
          /\ all = Append(front, last) /\ Len(all) = n + 1 /\ all[n + 1] = last
          /\ \A i \in 1..n : all[i] = front[i]
    <2>1. PICK all \in Seq(S) : all = Append(front, last)
      <3>1. Append(front, last) \in Seq(S)
        BY <1>4, AppendProperties, Zenon
      <3> QED BY <3>1, Zenon
    <2>2. /\ Len(all) = n + 1 /\ all[n + 1] = last
          /\ \A i \in 1..n : all[i] = front[i]
      BY <1>4, <2>1
    <2> QED BY <2>1, <2>2, Zenon
  <1>7. ASSUME NEW i \in 1..n + 1 PROVE all[i] = containers[i]
    <2>1. i \in 1..n \/ i = n + 1
      OBVIOUS
    <2> QED BY <1>4, <1>5, <1>6, <2>1, Zenon
  <1>8. all = containers
    BY <1>1, <1>6, <1>7, SeqEqual
  <1> QED BY <1>1, <1>2, <1>4, <1>5, <1>6, <1>8, ZenonT(40)

\* What comes while the innermost container is the last frame.
LEMMA LastIs ==
    ASSUME JsonInv, frames # <<>>
    PROVE  /\ Front(frames) \in Seq(Frames(doc)) /\ AreFrames(doc, Front(frames))
           /\ AllCounted(Front(frames))
           /\ Last(frames) \in Frames(doc) /\ IsFrame(doc, Last(frames))
           /\ AfterAll(doc, Front(frames)) \in Seq(Tokens)
           /\ AfterAll(doc, frames) = RestJson(doc, Jsons(doc), Last(frames))
                                        \o AfterAll(doc, Front(frames))
  <1>1. frames \in Seq(Frames(doc)) /\ AreFrames(doc, frames) /\ doc \in Seq(Nat)
    BY FramesAre
  <1>2. AllCounted(frames)
    BY DEF JsonInv
  <1>3. PICK front \in Seq(Frames(doc)) : front = Front(frames)
    BY <1>1, FrontAndLast, Zenon
  <1>4. PICK last \in Frames(doc) : last = Last(frames)
    BY <1>1, FrontAndLast, Zenon
  <1>5. /\ frames = Append(front, last)
        /\ Len(frames) = Len(front) + 1 /\ \A f \in 1..Len(front) : front[f] = frames[f]
    BY <1>1, <1>3, <1>4, FrontAndLast, Zenon
  <1>6. /\ \A f \in 1..Len(front) : f \in 1..Len(frames)
        /\ Len(frames) \in 1..Len(frames) /\ last = frames[Len(frames)]
    <2>1. PICK n \in Nat : n = Len(front)
      OBVIOUS
    <2>2. (\A f \in 1..n : f \in 1..n + 1) /\ n + 1 \in 1..n + 1
      OBVIOUS
    <2>3. last = frames[Len(frames)]
      BY <1>4 DEF Last
    <2> QED BY <1>5, <2>1, <2>2, <2>3, Zenon
  <1>7. AreFrames(doc, front) /\ IsFrame(doc, last)
    BY <1>1, <1>5, <1>6, Zenon DEF AreFrames
  <1>8. AllCounted(front)
    BY <1>2, <1>5, <1>6, Zenon DEF AllCounted
  <1>9. AfterAll(doc, front) \in Seq(Tokens)
    BY <1>1, <1>7, AfterAllType, Zenon
  <1>10. AfterAll(doc, Append(front, last))
           = RestJson(doc, Jsons(doc), last) \o AfterAll(doc, front)
    BY <1>1, <1>7, AfterPushed, Zenon
  <1> QED BY <1>3, <1>4, <1>5, <1>7, <1>8, <1>9, <1>10, Zenon

LEMMA CloseJson ==
    ASSUME JsonInv, ConvertInv', outcome = "running", pending = <<>>, frames # <<>>,
           NEW bracket, Mark(bracket) = Closing(doc, Last(frames).value), Close(bracket)
    PROVE  JsonInv'
  <1>1. PICK tokens \in Seq(Tokens) : tokens = <<Mark(bracket)>>
    BY ClosingType, Zenon
  <1>2. PICK after \in Seq(Tokens) : after = AfterAll(doc, Front(frames))
    BY LastIs, Zenon
  <1>3. Last(frames).u = Last(frames).analysis.count
    BY DEF Close
  <1>4. RestJson(doc, Jsons(doc), Last(frames)) = tokens
    BY <1>1, <1>3, LastIs, FramesAre, NothingInRest, Zenon
  <1>5. ToCome = tokens \o after
    BY <1>2, <1>4, LastIs, ToComeIs, Zenon
  <1>6. CASE Outputs(tokens) /\ frames' = Front(frames) /\ UNCHANGED pending
    <2>1. /\ output' = output \o tokens /\ doc' = doc /\ outcome' = "running"
          /\ frames' = Front(frames) /\ pending' = <<>>
      BY <1>6 DEF Outputs
    <2>2. AllCounted(Front(frames))
      BY LastIs, Zenon
    <2>3. AllCounted(frames)'
      BY <2>1, <2>2 DEF AllCounted
    <2>4. ToCome' = <<>> \o AfterAll(doc', frames')
      BY <2>1, Zenon DEF ToCome, Coming
    <2>5. AfterAll(doc', frames') = after
      BY <1>2, <2>1, Zenon
    <2>6. ToCome' = after
      BY <2>4, <2>5, JoinEmpty, Zenon
    <2> QED BY <1>5, <2>1, <2>3, <2>6, JoinedInv, Zenon
  <1>7. CASE CallbackFails(tokens)
    BY <1>5, <1>7, CallbackFailsInv, Zenon
  <1> QED BY <1>1, <1>6, <1>7, Zenon DEF Close

LEMMA CloseArrayJson ==
    ASSUME JsonInv, CloseArray, ConvertInv'
    PROVE  JsonInv'
  <1>1. /\ outcome = "running" /\ pending = <<>> /\ frames # <<>>
        /\ IsArray(TypeOf(doc, Last(frames).value)) /\ Close("]")
    BY DEF CloseArray, In
  <1>2. Mark("]") = Closing(doc, Last(frames).value)
    BY <1>1, Zenon DEF Closing
  <1> QED BY <1>1, <1>2, CloseJson, Zenon

LEMMA CloseObjectJson ==
    ASSUME JsonInv, CloseObject, ConvertInv'
    PROVE  JsonInv'
  <1>1. /\ outcome = "running" /\ pending = <<>> /\ frames # <<>>
        /\ IsObject(TypeOf(doc, Last(frames).value)) /\ Close("}")
    BY Zenon DEF CloseObject, In
  <1>2. InDocument(doc, Last(frames).value) /\ doc \in Seq(Nat)
    BY <1>1, LastIs, FramesAre DEF IsFrame, IsContainer
  <1>3. ~IsArray(TypeOf(doc, Last(frames).value))
    BY <1>1, <1>2, OneKind, SliceFacts, Zenon
  <1>4. Mark("}") = Closing(doc, Last(frames).value)
    BY <1>3, Zenon DEF Closing
  <1> QED BY <1>1, <1>4, CloseJson, Zenon


\* Its item is the next one.
LEMMA NextFrame ==
    ASSUME JsonInv, frames # <<>>, HasNext
    PROVE  LET frame == Last(frames)
               next == [frame EXCEPT !.u = frame.u + 1]
           IN  /\ frame.u \in 0..(frame.analysis.count - 1)
               /\ IsFrame(doc, next) /\ next \in Frames(doc)
               /\ next.u = frame.u + 1 /\ next.value = frame.value
               /\ next.analysis = frame.analysis
               /\ next.u <= next.analysis.count
               /\ [frames EXCEPT ![Len(frames)].u = frame.u + 1] = Append(Front(frames), next)
  <1>1. PICK frame : frame = Last(frames)
    OBVIOUS
  <1>2. frame \in Frames(doc) /\ IsFrame(doc, frame)
    BY <1>1, LastIs, Zenon
  <1>3. PICK v \in Slices, n \in Nat :
          frame = [value |-> v, analysis |-> AnalysisOf(doc, v), u |-> n]
    BY <1>2 DEF Frames
  <1>4. PICK next : next = [value |-> v, analysis |-> AnalysisOf(doc, v), u |-> n + 1]
    OBVIOUS
  <1>5. /\ next = [frame EXCEPT !.u = frame.u + 1] /\ next.u = n + 1 /\ frame.u = n
        /\ next.value = frame.value /\ next.analysis = frame.analysis
    BY <1>3, <1>4
  <1>6. PICK count \in Nat : count = frame.analysis.count
    BY <1>2, FramesAre, ContainerFacts DEF IsFrame
  <1>7. n < count
    BY <1>1, <1>5, <1>6 DEF HasNext
  <1>8. n \in 0..(count - 1) /\ n + 1 \in 0..count /\ n + 1 <= count /\ n + 1 \in Nat
    BY <1>7
  <1>9. IsFrame(doc, next)
    BY <1>2, <1>5, <1>6, <1>8, Zenon DEF IsFrame
  <1>10. next \in Frames(doc)
    BY <1>4, <1>8 DEF Frames
  <1>11. [frames EXCEPT ![Len(frames)].u = frame.u + 1] = Append(Front(frames), next)
    <2>1. PICK front \in Seq(Frames(doc)) : front = Front(frames)
      BY LastIs, Zenon
    <2>2. frames = Append(front, frame)
      BY <1>1, <2>1, FramesAre, FrontAndLast, Zenon
    <2>3. PICK m \in Nat : m = Len(front)
      OBVIOUS
    <2>4. PICK after : after = [frames EXCEPT ![Len(frames)].u = frame.u + 1]
      OBVIOUS
    <2>5. Len(frames) = m + 1
      BY <1>2, <2>2, <2>3
    <2>6. /\ DOMAIN after = 1..m + 1 /\ after[m + 1] = next
          /\ \A i \in 1..m : after[i] = front[i]
          /\ after = [i \in 1..m + 1 |-> after[i]]
      <3>1. /\ DOMAIN frames = 1..m + 1 /\ frames[m + 1] = frame
            /\ \A i \in 1..m : frames[i] = front[i]
        BY <1>2, <2>2, <2>3
      <3>2. after = [frames EXCEPT ![m + 1] = next]
        BY <1>5, <2>4, <2>5, <3>1
      <3>3. m + 1 \in 1..m + 1 /\ \A i \in 1..m : i \in 1..m + 1 /\ i # m + 1
        OBVIOUS
      <3> QED BY <3>1, <3>2, <3>3
    <2>7. ASSUME NEW i \in 1..m + 1 PROVE after[i] \in Frames(doc)
      <3>1. \A j \in 1..m : front[j] \in Frames(doc)
        BY <2>3
      <3>2. i \in 1..m \/ i = m + 1
        OBVIOUS
      <3> QED BY <1>10, <2>6, <3>1, <3>2, Zenon
    <2>8. after \in [1..m + 1 -> Frames(doc)]
      BY <2>6, <2>7, Zenon
    <2>9. after \in Seq(Frames(doc)) /\ Len(after) = m + 1
      BY <2>8
    <2>10. PICK both \in Seq(Frames(doc)) :
             /\ both = Append(front, next) /\ Len(both) = m + 1 /\ both[m + 1] = next
             /\ \A i \in 1..m : both[i] = front[i]
      <3>1. PICK both \in Seq(Frames(doc)) : both = Append(front, next)
        <4>1. Append(front, next) \in Seq(Frames(doc))
          BY <1>10, AppendProperties, Zenon
        <4> QED BY <4>1, Zenon
      <3>2. /\ Len(both) = m + 1 /\ both[m + 1] = next
            /\ \A i \in 1..m : both[i] = front[i]
        BY <1>10, <2>3, <3>1
      <3> QED BY <3>1, <3>2, Zenon
    <2>11. ASSUME NEW i \in 1..m + 1 PROVE after[i] = both[i]
      <3>1. i \in 1..m \/ i = m + 1
        OBVIOUS
      <3> QED BY <2>6, <2>10, <3>1, Zenon
    <2>12. after = both
      BY <2>9, <2>10, <2>11, SeqEqual
    <2> QED BY <2>1, <2>4, <2>10, <2>12, Zenon
  <1> QED BY <1>1, <1>5, <1>6, <1>8, <1>9, <1>10, <1>11, Zenon


Regrouped(a, b, c, z) ==
    /\ (a \o b) \o c = a \o (b \o c)
    /\ ((a \o b) \o c) \o z = a \o (b \o (c \o z))

LEMMA JoinsThree ==
    ASSUME NEW a \in Seq(Tokens), NEW b \in Seq(Tokens), NEW c \in Seq(Tokens),
           NEW z \in Seq(Tokens)
    PROVE  Regrouped(a, b, c, z)
  <1>1. PICK cz \in Seq(Tokens) : cz = c \o z
    <2>1. c \o z \in Seq(Tokens)
      BY ConcatProperties, Zenon
    <2> QED BY <2>1, Zenon
  <1>2. PICK ab \in Seq(Tokens) : ab = a \o b
    <2>1. a \o b \in Seq(Tokens)
      BY ConcatProperties, Zenon
    <2> QED BY <2>1, Zenon
  <1>3. (ab \o c) \o z = ab \o (c \o z)
    BY JoinAssociates
  <1>4. (a \o b) \o cz = a \o (b \o cz)
    BY SMTT(20), JoinAssociates
  <1>5. (a \o b) \o c = a \o (b \o c)
    BY SMTT(20), JoinAssociates
  <1> QED BY <1>1, <1>2, <1>3, <1>4, <1>5, Zenon DEF Regrouped

LEMMA NextItemJson ==
    ASSUME JsonInv, ConvertInv', outcome = "running", pending = <<>>, frames # <<>>, HasNext,
           NEW item, item = ItemIn(doc, Last(frames).value, Last(frames).analysis,
                                   Last(frames).u),
           NEW label, item.error = OK => label = IF IsArray(TypeOf(doc, Last(frames).value))
                                                 THEN <<>> ELSE KeyTokens(doc, item),
           NextItem(item, label)
    PROVE  JsonInv'
  <1> DEFINE frame == Last(frames)
             u == frame.u
             v == frame.value
             next == [frame EXCEPT !.u = u + 1]
             json == Jsons(doc)
  <1>1. doc \in Seq(Nat) /\ IsFrame(doc, frame) /\ frame \in Frames(doc)
    BY LastIs, FramesAre, Zenon
  <1>2. IsContainer(doc, v) /\ frame.analysis = AnalysisOf(doc, v)
    BY <1>1, Zenon DEF IsFrame
  <1>3. /\ u \in 0..(frame.analysis.count - 1)
        /\ IsFrame(doc, next) /\ next \in Frames(doc)
        /\ next.u = u + 1 /\ next.value = v /\ next.analysis = frame.analysis
        /\ next.u <= next.analysis.count
        /\ [frames EXCEPT ![Len(frames)].u = u + 1] = Append(Front(frames), next)
    BY NextFrame, Zenon
  <1> HIDE DEF next
  <1>4. PICK after \in Seq(Tokens) : after = AfterAll(doc, Front(frames))
    BY LastIs, Zenon
  <1>5. PICK rest \in Seq(Tokens) : rest = RestJson(doc, json, next)
    BY <1>1, <1>3, AllTokens, RestJsonType, Zenon
  <1>6. PICK left \in Seq(Tokens) : left = rest \o after
    <2>1. rest \o after \in Seq(Tokens)
      BY ConcatProperties, Zenon
    <2> QED BY <2>1, Zenon
  <1>7. PICK comma \in Seq(Tokens) : comma = IF u = 0 THEN <<>> ELSE <<Mark(",")>>
    <2>1. <<Mark(",")>> \in Seq(Tokens)
      BY MarkType DEF Kinds
    <2>2. <<>> \in Seq(Tokens)
      OBVIOUS
    <2> QED BY <2>1, <2>2, Zenon
  <1>8. /\ ItemJson(doc, json, frame, u) \in Seq(Tokens)
        /\ ToCome = (ItemJson(doc, json, frame, u) \o rest) \o after
    <2>1. HasNext /\ u < frame.analysis.count
      BY DEF HasNext
    <2>2. RestJson(doc, json, frame) = ItemJson(doc, json, frame, u) \o rest
      BY <1>1, <1>3, <1>5, <2>1, NextInRest, Zenon
    <2>3. ToCome = RestJson(doc, json, frame) \o after
      BY <1>4, LastIs, ToComeIs, Zenon
    <2>4. ItemJson(doc, json, frame, u) \in Seq(Tokens)
      BY <1>1, <1>3, AllTokens, ItemJsonType, Zenon
    <2> QED BY <2>2, <2>3, <2>4, Zenon
  <1>9. \/ item.error # OK /\ FailsAfter(comma, item.error)
        \/ /\ item.error = OK
           /\ \/ /\ Outputs(comma \o label)
                 /\ frames' = Append(Front(frames), next)
                 /\ pending' = <<item.value>>
              \/ CallbackFails(comma \o label)
    BY <1>3, <1>7, Zenon DEF NextItem
  <1>10. MayFail(item)
    BY ItemFails, Zenon
  <1>11. CASE item.error # OK
    <2>1. PICK error \in Kinds : error = item.error /\ error # OK
      BY <1>10, <1>11, Zenon DEF MayFail
    <2>2. PICK mark \in Seq(Tokens) : mark = <<Mark(error)>>
      BY MarkType, Zenon
    <2>3. ItemJson(doc, json, frame, u) = comma \o mark
      BY <1>7, <1>11, <2>1, <2>2, Zenon DEF ItemJson, ItemIn, OrError
    <2>4. ToCome = comma \o (<<Mark(error)>> \o left)
      <3>1. Regrouped(comma, mark, rest, after)
        BY JoinsThree, Zenon
      <3> QED BY <1>6, <1>8, <2>2, <2>3, <3>1, Zenon DEF Regrouped
    <2>5. FailsAfter(comma, error)
      BY <1>9, <1>11, <2>1, Zenon
    <2> QED BY <2>1, <2>4, <2>5, FailsAfterInv, Zenon
  <1>12. CASE item.error = OK
    <2>1. item.value \in Parts(doc)
      BY <1>1, <1>2, <1>3, <1>12, ItemSmaller, Zenon
    <2>2. PICK value \in Seq(Tokens) : value = json[item.value]
      BY <1>1, <2>1, JsonsType, Zenon
    <2>3. label \in Seq(Tokens)
      <3>1. CASE IsArray(TypeOf(doc, v))
        <4>1. <<>> \in Seq(Tokens)
          OBVIOUS
        <4> QED BY <1>12, <3>1, <4>1, Zenon
      <3>2. CASE ~IsArray(TypeOf(doc, v))
        <4>1. /\ item = ItemIn(doc, v, AnalysisOf(doc, v), u)
              /\ u \in 0..(AnalysisOf(doc, v).count - 1)
          BY <1>2, <1>3, Zenon
        <4>2. KeyTokens(doc, item) \in Seq(Tokens)
          BY <1>1, <1>2, <1>12, <3>2, <4>1, KeyTokensType, Zenon
        <4> QED BY <1>12, <3>2, <4>2, Zenon
      <3> QED BY <3>1, <3>2
    <2>4. ItemJson(doc, json, frame, u) = comma \o (label \o value)
      BY <1>7, <1>12, <2>2, Zenon DEF ItemJson, ItemIn, OrError
    <2>5. PICK tokens \in Seq(Tokens) : tokens = comma \o label
      <3>1. comma \o label \in Seq(Tokens)
        BY <2>3, ConcatProperties, Zenon
      <3> QED BY <3>1, Zenon
    <2>6. PICK coming \in Seq(Tokens) : coming = value \o left
      <3>1. value \o left \in Seq(Tokens)
        BY ConcatProperties, Zenon
      <3> QED BY <3>1, Zenon
    <2>7. ToCome = tokens \o coming
      <3>1. comma \o (label \o value) = tokens \o value
        <4>1. Regrouped(comma, label, value, value)
          BY <2>3, JoinsThree, Zenon
        <4> QED BY <2>5, <4>1, Zenon DEF Regrouped
      <3>2. Regrouped(tokens, value, rest, after)
        BY JoinsThree, Zenon
      <3> QED BY <1>6, <1>8, <2>4, <2>6, <3>1, <3>2, Zenon DEF Regrouped
    <2>8. CASE /\ Outputs(tokens) /\ frames' = Append(Front(frames), next)
               /\ pending' = <<item.value>>
      <3>1. /\ output' = output \o tokens /\ doc' = doc /\ outcome' = "running"
            /\ frames' = Append(Front(frames), next) /\ pending' = <<item.value>>
        BY <2>8 DEF Outputs
      <3>2. AllCounted(frames)'
        <4>1. PICK front \in Seq(Frames(doc)) : front = Front(frames) /\ AllCounted(front)
          BY LastIs, Zenon
        <4>2. AllCounted(Append(front, next))
          BY <1>3, <4>1 DEF AllCounted
        <4> QED BY <3>1, <4>1, <4>2 DEF AllCounted
      <3>3. ToCome' = value \o AfterAll(doc', frames')
        <4>1. pending' # <<>> /\ pending'[1] = item.value
          BY <3>1
        <4> QED BY <2>2, <3>1, <4>1, Zenon DEF ToCome, Coming
      <3>4. AfterAll(doc', frames') = left
        <4>1. AfterAll(doc, Append(Front(frames), next)) = rest \o after
          BY <1>1, <1>3, <1>4, <1>5, LastIs, AfterPushed, Zenon
        <4> QED BY <1>6, <3>1, <4>1, Zenon
      <3>5. ToCome' = coming
        BY <2>6, <3>3, <3>4, Zenon
      <3> QED BY <2>7, <3>1, <3>2, <3>5, JoinedInv, Zenon
    <2>9. CASE CallbackFails(tokens)
      BY <2>7, <2>9, CallbackFailsInv, Zenon
    <2> QED BY <1>9, <1>12, <2>5, <2>8, <2>9, Zenon
  <1> QED BY <1>11, <1>12


LEMMA NextElementJson ==
    ASSUME JsonInv, NextElement, ConvertInv'
    PROVE  JsonInv'
  <1> DEFINE frame == Last(frames)
             item == ArrayGetIndex(doc, frame.analysis, frame.u)
  <1>1. /\ outcome = "running" /\ pending = <<>> /\ frames # <<>>
        /\ IsArray(TypeOf(doc, frame.value)) /\ HasNext /\ NextItem(item, <<>>)
    BY Zenon DEF NextElement, In
  <1>2. item = ItemIn(doc, frame.value, frame.analysis, frame.u)
    BY <1>1, Zenon DEF ItemIn
  <1> HIDE DEF item
  <1> QED BY <1>1, <1>2, NextItemJson, Zenon

LEMMA NextMemberJson ==
    ASSUME JsonInv, NextMember, ConvertInv'
    PROVE  JsonInv'
  <1> DEFINE frame == Last(frames)
             item == ObjectGetIndex(doc, frame.analysis, frame.u)
             label == IF item.error # OK THEN <<>> ELSE KeyTokens(doc, item)
  <1>1. /\ outcome = "running" /\ pending = <<>> /\ frames # <<>>
        /\ IsObject(TypeOf(doc, frame.value)) /\ HasNext /\ NextItem(item, label)
    BY Zenon DEF NextMember, In
  <1>2. InDocument(doc, frame.value) /\ doc \in Seq(Nat)
    BY <1>1, LastIs, FramesAre DEF IsFrame, IsContainer
  <1>3. ~IsArray(TypeOf(doc, frame.value))
    BY <1>1, <1>2, OneKind, SliceFacts, Zenon
  <1>4. item = ItemIn(doc, frame.value, frame.analysis, frame.u)
    BY <1>3, Zenon DEF ItemIn
  <1>5. item.error = OK => label = KeyTokens(doc, item)
    BY Zenon
  <1> HIDE DEF item, label
  <1> QED BY <1>1, <1>3, <1>4, <1>5, NextItemJson, Zenon

LEMMA ConvertedJson ==
    ASSUME JsonInv, Converted
    PROVE  JsonInv'
  <1>1. /\ outcome = "running" /\ pending = <<>> /\ frames = <<>>
        /\ outcome' = OK /\ UNCHANGED <<doc, frames, pending, output>>
    BY DEF Converted
  <1>2. output \in Seq(Tokens) /\ Json = output \o ToCome /\ IsPrefix(output, Json)
    BY <1>1 DEF JsonInv, BeginningOf
  <1>3. AfterAll(doc, frames) = <<>>
    <2>1. [i \in 1..0 |-> RestJson(doc, Jsons(doc), frames[0 + 1 - i])] = <<>>
      OBVIOUS
    <2>2. Len(frames) = 0
      BY <1>1
    <2> QED BY <2>1, <2>2, FlattenEmpty, Zenon DEF AfterAll
  <1>4. Json = output
    BY <1>1, <1>2, <1>3, ToComeIs, JoinEmpty, Zenon
  <1>5. Json' = Json
    BY <1>1, JsonStays
  <1>6. BeginningOf(Json)'
    BY <1>1, <1>2, <1>4, <1>5 DEF BeginningOf, OK, FileErrors
  <1>7. ConvertInv'
    BY <1>1, InvStays DEF JsonInv
  <1>8. outcome' # "running"
    BY <1>1 DEF OK
  <1>9. output' \in Seq(Tokens) /\ UNCHANGED <<doc, frames, pending>>
    BY <1>1, <1>2
  <1> QED BY <1>6, <1>7, <1>8, <1>9, FailedInv

LEMMA UnchangedJson ==
    ASSUME JsonInv, UNCHANGED convert_vars
    PROVE  JsonInv'
  <1>1. UNCHANGED <<doc, frames, pending, output, outcome>>
    BY DEF convert_vars
  <1>2. ConvertInv' /\ AllCounted(frames)' /\ output' \in Seq(Tokens)
    BY <1>1, InvStays DEF JsonInv, AllCounted
  <1>3. Json' = Json
    BY <1>1, JsonStays
  <1>4. ToCome' = ToCome
    BY <1>1 DEF ToCome
  <1>5. BeginningOf(Json)'
    BY <1>1, <1>3 DEF JsonInv, BeginningOf
  <1>6. (outcome = "running" => Json = output \o ToCome)'
    BY <1>1, <1>3, <1>4 DEF JsonInv
  <1> QED BY <1>2, <1>5, <1>6 DEF JsonInv

LEMMA InitJson == ConvertInit => JsonInv
  <1> SUFFICES ASSUME ConvertInit
               PROVE  JsonInv
    OBVIOUS
  <1>1. /\ frames = <<>> /\ pending = <<Root(doc)>> /\ output = <<>> /\ outcome = "running"
    BY DEF ConvertInit
  <1>2. ConvertInv
    BY ConvertInitInv
  <1>3. doc \in Seq(Nat) /\ AllCounted(frames)
    BY <1>1, <1>2 DEF ConvertInv, AllCounted
  <1>4. Root(doc) \in Parts(doc)
    <2>1. PICK n \in Nat : n = Len(doc)
      BY <1>3
    <2>2. Root(doc) = [buffer |-> 0, size |-> n]
      BY <2>1 DEF Root, Slice
    <2> QED BY <2>1, <2>2 DEF Parts, SliceEnd
  <1>5. PICK json \in Seq(Tokens) : json = Json
    BY <1>3, <1>4, JsonsType, Zenon DEF Json
  <1>6. AfterAll(doc, frames) = <<>>
    <2>1. [i \in 1..0 |-> RestJson(doc, Jsons(doc), frames[0 + 1 - i])] = <<>>
      OBVIOUS
    <2>2. Len(frames) = 0
      BY <1>1
    <2> QED BY <2>1, <2>2, FlattenEmpty, Zenon DEF AfterAll
  <1>7. Coming(doc, pending) = json
    <2>1. pending # <<>> /\ pending[1] = Root(doc)
      BY <1>1
    <2> QED BY <1>5, <2>1, Zenon DEF Coming, Json
  <1>8. ToCome = json
    BY <1>6, <1>7, JoinEmpty, Zenon DEF ToCome
  <1>9. <<>> \in Seq(Tokens) /\ output \in Seq(Tokens)
    BY <1>1
  <1>10. Json = output \o ToCome
    BY <1>1, <1>5, <1>8, JoinEmpty, Zenon
  <1>11. IsPrefix(output, Json)
    BY <1>5, <1>8, <1>9, <1>10, PrefixOfJoined, Zenon
  <1>12. BeginningOf(Json)
    BY <1>1, <1>11 DEF BeginningOf, OK, FileErrors
  <1> QED BY <1>2, <1>3, <1>9, <1>10, <1>12 DEF JsonInv

LEMMA NextJson == JsonInv /\ [ConvertNext]_convert_vars => JsonInv'
  <1> SUFFICES ASSUME JsonInv, [ConvertNext]_convert_vars
               PROVE  JsonInv'
    OBVIOUS
  <1>1. ConvertInv'
    BY ConvertNextInv DEF JsonInv
  <1>2. CASE ConvertNothing
    BY <1>2, NothingJson
  <1>3. CASE ConvertScalar
    BY <1>1, <1>3, ScalarJson
  <1>4. CASE OpenArray
    BY <1>1, <1>4, OpenArrayJson
  <1>5. CASE NextElement
    BY <1>1, <1>5, NextElementJson
  <1>6. CASE CloseArray
    BY <1>1, <1>6, CloseArrayJson
  <1>7. CASE OpenObject
    BY <1>1, <1>7, OpenObjectJson
  <1>8. CASE NextMember
    BY <1>1, <1>8, NextMemberJson
  <1>9. CASE CloseObject
    BY <1>1, <1>9, CloseObjectJson
  <1>10. CASE Converted
    BY <1>10, ConvertedJson
  <1>11. CASE UNCHANGED convert_vars
    BY <1>11, UnchangedJson
  <1> QED
    BY <1>2, <1>3, <1>4, <1>5, <1>6, <1>7, <1>8, <1>9, <1>10, <1>11 DEF ConvertNext

(***************************************************************************)
(* Whatever the bytes of a document of any size are and wherever its       *)
(* callback fails, bijson_to_json puts out a beginning of the document's   *)
(* JSON: all of it when it succeeds, and what is in front of the value     *)
(* that cannot be read when it returns one of the errors of the file.      *)
(***************************************************************************)
THEOREM OutputIsTheJson == ConvertSpec => []OutputCorrect
  <1>1. JsonInv => OutputCorrect
    BY Zenon DEF JsonInv, OutputCorrect
  <1> QED BY InitJson, NextJson, <1>1, PTL DEF ConvertSpec
=============================================================================
