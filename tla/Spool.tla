------------------------------- MODULE Spool -------------------------------
(***************************************************************************)
(* The writer's intermediate form of a document and its translation to     *)
(* bijson (lib/writer/container.c, array.c, object.c, lib/writer.c).       *)
(*                                                                         *)
(* The spool is a sequence of cells, addressed by offsets that start at 0. *)
(* A cell is what the code reads or writes in one go: a type byte, a       *)
(* size_t or a byte of payload, so sizeof(size_t) is 1 here.  Values are   *)
(* laid out one after the other:                                           *)
(*                                                                         *)
(*     scalar      SCALAR  size         payload (type byte, data)          *)
(*     array       ARRAY   spool_size   output_size   items                *)
(*     object      OBJECT  spool_size   output_size   items                *)
(*                                                                         *)
(* where size and spool_size count the cells that follow them, output_size *)
(* is the size of the value's bijson form, and an item of an object is the *)
(* key's length, the key and a value.                                      *)
(***************************************************************************)
EXTENDS Sizes, Sequences, SequencesExt

CONSTANT
    Hash(_)         \* rapidhash of a key

SCALAR == 0
OBJECT == 1
ARRAY  == 2

TypeByteSize == 1
SizeOfSize   == 1
HeaderSize   == 2 * SizeOfSize

\* A size_t computation: below zero it wraps around to a huge size.
SizeT(x) == IF x \in 0..SizeMax THEN x ELSE SizeMax

Cell(s, offset) == s[offset + 1]
Slice(s, offset, len) == SubSeq(s, offset + 1, offset + len)

\* The value at offset: the offset behind it and the size of its bijson form.
EndOfValue(s, offset) ==
    offset + TypeByteSize + SizeOfSize + Cell(s, offset + TypeByteSize)
SizeValue(s, offset) ==
    IF Cell(s, offset) = SCALAR
    THEN Cell(s, offset + TypeByteSize)
    ELSE Cell(s, offset + TypeByteSize + SizeOfSize)

\* The item of an object at offset: its key and the offset of its value.
KeySize(s, item) == Cell(s, item)
KeyOf(s, item)   == Slice(s, item + SizeOfSize, KeySize(s, item))
ValueOf(s, item) == item + SizeOfSize + KeySize(s, item)

\* An item of a container, which starts at o: an array's is a value, and an
\* object's is a key and a value.
ValueIn(s, type, o) == IF type = OBJECT THEN ValueOf(s, o) ELSE o
ItemEnd(s, type, o) == EndOfValue(s, ValueIn(s, type, o))

\* All of it lies before hi.
IsItem(s, type, o, hi) ==
    /\ o < hi
    /\ ValueIn(s, type, o) + TypeByteSize + SizeOfSize <= hi
    /\ ItemEnd(s, type, o) <= hi

\* The items from lo on as far as hi, in the order they were added, and where
\* the last of them ends.  The loops of the code compare nothing but o with
\* hi: what the writer has put between the two are whole items.
ItemsOf(s, type, lo, hi) ==
    LET walk[o \in 0..Len(s)] ==
          IF IsItem(s, type, o, hi)
          THEN <<o>> \o walk[ItemEnd(s, type, o)] ELSE <<>>
    IN  IF lo <= hi /\ hi <= Len(s) THEN walk[lo] ELSE <<>>
EndOfItems(s, type, lo, items) ==
    IF items = <<>> THEN lo ELSE ItemEnd(s, type, Last(items))

\* The values on a spool are at some of these offsets.
ValueOffsets(s) == 0..(Len(s) - TypeByteSize - SizeOfSize)

\* The first item of the container whose type byte is at offset, and whether
\* it has any: an empty one holds nothing but output_size.
FirstItem(offset) == offset + TypeByteSize + HeaderSize
IsEmpty(s, offset) == Cell(s, offset + TypeByteSize) = SizeOfSize
ItemsAt(s, o) == ItemsOf(s, Cell(s, o), FirstItem(o), EndOfValue(s, o))

\* The sizes of items, and their sum.
KeySizes(s, items) == [z \in DOMAIN items |-> KeySize(s, items[z])]
ValueSizes(s, type, items) ==
    [z \in DOMAIN items |-> SizeValue(s, ValueIn(s, type, items[z]))]
Total(sizes) ==
    LET sum[n \in 0..Len(sizes)] == IF n = 0 THEN 0 ELSE sum[n - 1] + sizes[n]
    IN  sum[Len(sizes)]

\* memcmp of two keys of the same length.
KeyDataLess(k, l) ==
    \E i \in DOMAIN k : k[i] < l[i] /\ \A j \in 1..(i - 1) : k[j] = l[j]

\* The order of keys in an object: by hash, then length, then content.
KeyLess(k, l) ==
    \/ Hash(k) < Hash(l)
    \/ Hash(k) = Hash(l) /\ Len(k) < Len(l)
    \/ Hash(k) = Hash(l) /\ Len(k) = Len(l) /\ KeyDataLess(k, l)

\* Equal keys keep the order in which they were added.
ItemBefore(s, a, b) ==
    \/ KeyLess(KeyOf(s, a), KeyOf(s, b))
    \/ KeyOf(s, a) = KeyOf(s, b) /\ a < b

\* Each item has before it as many of the others as come before it.
SortedItems(s, items) ==
    [z \in DOMAIN items |->
        CHOOSE o \in ToSet(items) :
            Cardinality({p \in ToSet(items) : ItemBefore(s, p, o)}) = z - 1]

(***************************************************************************)
(* The sizes that end_array and end_object predict for the bijson form.    *)
(***************************************************************************)
ArrayOutputSize(s, lo, hi) ==
    LET sizes      == ValueSizes(s, ARRAY, ItemsOf(s, ARRAY, lo, hi))
        count      == Len(sizes)
        items_size == Total(sizes)
        offsets    == OptimalStorageSize(items_size - sizes[count] - (count - 1))
    IN  IF count = 0 THEN 1
        ELSE 1 + OptimalStorageSizeBytes(OptimalStorageSize1(count))
               + (count - 1) * OptimalStorageSizeBytes(offsets)
               + items_size

\* Mutant: of equal keys the first one is taken for the last.
HighestItem_KeepsFirst(s, items) ==
    LET highest[n \in 1..Len(items)] ==
          IF n = 1 THEN items[1]
          ELSE IF KeyLess(KeyOf(s, highest[n - 1]), KeyOf(s, items[n]))
               THEN items[n] ELSE highest[n - 1]
    IN  highest[Len(items)]

\* The item that a stable sort puts last, found without sorting.
HighestItem(s, items) ==
    LET highest[n \in 1..Len(items)] ==
          IF n = 1 THEN items[1]
          ELSE IF KeyLess(KeyOf(s, items[n]), KeyOf(s, highest[n - 1]))
               THEN highest[n - 1] ELSE items[n]
    IN  highest[Len(items)]

ObjectOutputSize(s, lo, hi) ==
    LET items       == ItemsOf(s, OBJECT, lo, hi)
        count       == Len(items)
        keys_size   == Total(KeySizes(s, items))
        values_size == Total(ValueSizes(s, OBJECT, items))
        last_size   == SizeValue(s, ValueOf(s, HighestItem(s, items)))
        offsets     == OptimalStorageSize(values_size - last_size - (count - 1))
    IN  IF count = 0 THEN 1
        ELSE 1 + OptimalStorageSizeBytes(OptimalStorageSize1(count))
               + count * OptimalStorageSizeBytes(OptimalStorageSize(keys_size))
               + (count - 1) * OptimalStorageSizeBytes(offsets)
               + keys_size + values_size

(***************************************************************************)
(* What write_array, write_object and write_value send to the output       *)
(* callback.  An index entry is the end of an item relative to the first   *)
(* one, less one for each type byte before it; the last value has none.    *)
(***************************************************************************)
Offsets(sizes, width) ==
    FlattenSeq([z \in DOMAIN sizes |->
        CompactInt(Total(SubSeq(sizes, 1, z)), width)])

\* The sizes of all values but the last without their type bytes.
IndexedSizes(s, type, items) ==
    [z \in 1..(Len(items) - 1) |-> SizeValue(s, ValueIn(s, type, items[z])) - 1]

\* Mutant: the offsets count the type bytes.
ArrayHead_CountsTypes(s, items) ==
    LET count_1      == Len(items) - 1
        sizes        == SubSeq(ValueSizes(s, ARRAY, items), 1, count_1)
        count_width  == OptimalStorageSize(count_1)
        offset_width == OptimalStorageSize(Total(sizes))
    IN  <<48 + 4 * offset_width + count_width>>
          \o CompactInt(count_1, count_width)
          \o Offsets(sizes, offset_width)

ArrayHead(s, items) ==
    LET count_1      == Len(items) - 1
        sizes        == IndexedSizes(s, ARRAY, items)
        count_width  == OptimalStorageSize(count_1)
        offset_width == OptimalStorageSize(Total(sizes))
    IN  <<48 + 4 * offset_width + count_width>>
          \o CompactInt(count_1, count_width)
          \o Offsets(sizes, offset_width)

ObjectHead(s, items) ==
    LET count_1     == Len(items) - 1
        keys        == KeySizes(s, items)
        sizes       == IndexedSizes(s, OBJECT, items)
        count_width == OptimalStorageSize(count_1)
        key_width   == OptimalStorageSize(Total(keys))
        value_width == OptimalStorageSize(Total(sizes))
    IN  <<64 + 16 * value_width + 4 * key_width + count_width>>
          \o CompactInt(count_1, count_width)
          \o Offsets(keys, key_width)
          \o Offsets(sizes, value_width)
          \o FlattenSeq([z \in DOMAIN items |-> KeyOf(s, items[z])])

\* The items of the container at offset o, in the order they are written.
WrittenItems(s, o) ==
    IF Cell(s, o) = OBJECT THEN SortedItems(s, ItemsAt(s, o)) ELSE ItemsAt(s, o)

\* The value at o, when emit has the values behind o.
EmitItems(s, type, emit, items) ==
    FlattenSeq([z \in DOMAIN items |-> emit[ValueIn(s, type, items[z])]])
EmitValue(s, emit, o, items) ==
    CASE Cell(s, o) = ARRAY  ->
           IF IsEmpty(s, o) THEN <<48>>
           ELSE ArrayHead(s, items) \o EmitItems(s, ARRAY, emit, items)
      [] Cell(s, o) = OBJECT ->
           IF IsEmpty(s, o) THEN <<64>>
           ELSE ObjectHead(s, items) \o EmitItems(s, OBJECT, emit, items)
      [] OTHER ->
           Slice(s, o + TypeByteSize + SizeOfSize, Cell(s, o + TypeByteSize))

Emitted(s) ==
    LET emit[o \in ValueOffsets(s)] == EmitValue(s, emit, o, WrittenItems(s, o))
    IN  emit
Emit(s, offset) == Emitted(s)[offset]

(***************************************************************************)
(* What a write that an error cuts short may leave on the stack.           *)
(* write_object pushes the addresses of its items, sorts them there, and   *)
(* pops them only when everything is written; the objects inside it push   *)
(* theirs on top.  An address is the offset of an item in the spool.       *)
(***************************************************************************)
Leftover(s, offset) ==
    LET left[o \in ValueOffsets(s)] ==
          LET items  == ItemsAt(s, o)
              sorted == WrittenItems(s, o)
          IN  CASE Cell(s, o) = SCALAR -> {<<>>}
                [] Cell(s, o) = ARRAY  ->
                     {<<>>} \union UNION {left[i] : i \in ToSet(items)}
                [] Cell(s, o) = OBJECT ->
                     {<<>>, sorted}
                       \union {SubSeq(items, 1, n) : n \in 1..(Len(items) - 1)}
                       \union {sorted \o rest : rest \in
                                 UNION {left[ValueOf(s, i)] : i \in ToSet(items)}}
    IN  {rest \in left[offset] : rest \in Seq(0..Len(s))}
=============================================================================
