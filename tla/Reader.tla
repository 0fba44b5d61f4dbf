------------------------------- MODULE Reader -------------------------------
(***************************************************************************)
(* Reading a document in place (lib/reader.c, lib/reader/array.c,          *)
(* lib/reader/object.c, lib/reader/object/index.c).                        *)
(*                                                                         *)
(* A document d is a sequence of bytes.  A value is a bijson_t, a slice of *)
(* it: the offset of its first byte, and its size.  A container starts     *)
(* with a type byte, its count less one, and an index of offsets; to       *)
(* analyze it is to find where these and its data lie.  Nothing is taken   *)
(* on trust: the bytes may be those of a damaged file, and an answer is    *)
(* [error |-> OK, ...] or [error |-> what is wrong].                       *)
(***************************************************************************)
EXTENDS Sizes, Text, SequencesExt

OK == "ok"
Error(error) == [error |-> error]

Slice(buffer, size) == [buffer |-> buffer, size |-> size]
Root(d)     == Slice(0, Len(d))
SliceEnd(v) == v.buffer + v.size
Bytes(d, v) == SubSeq(d, v.buffer + 1, SliceEnd(v))
TypeOf(d, v) == d[v.buffer + 1]

\* The widths in a type byte: of the count, of an array's or a key's offsets,
\* and of the offsets of an object's values.
CountWidth(type)  == 2 ^ (type % 4)
IndexWidth(type)  == 2 ^ ((type \div 4) % 4)
ValuesWidth(type) == 2 ^ ((type \div 16) % 4)

IsArray(type)  == type \div 16 = 3
IsObject(type) == type \div 64 = 1

\* bijson_get_value_type: the kind of value that a type byte stands for.
GetValueType(type) ==
    LET Is(value_type) == [error |-> OK, type |-> value_type]
    IN  CASE type = 0             -> Error("file_format_error")
          [] type = 1             -> Is("null")
          [] type = 5             -> Is("undefined")
          [] type = 2             -> Is("false")
          [] type = 3             -> Is("true")
          [] type = 8             -> Is("string")
          [] type = 9             -> Is("bytes")
          [] type = 10            -> Is("iee754_2008_float")
          [] type = 11            -> Is("iee754_2008_decimal_float")
          [] type = 12            -> Is("iee754_2008_decimal_float_dpd")
          [] type \in 16..17      -> Is("snan")
          [] type \in 18..19      -> Is("qnan")
          [] type \in 20..21      -> Is("inf")
          [] type \in 24..25      -> Is("integer")
          [] type \in 26..27 \union 32..47 -> Is("decimal")
          [] IsArray(type)        -> Is("array")
          [] IsObject(type)       -> Is("object")
          [] OTHER                -> Error("unsupported_data_type")

\* The integer stored in n bytes at offset p.
ReadMinimalInt(d, p, n) ==
    FoldRight(LAMBDA byte, high : byte + Base * high, SubSeq(d, p + 1, p + n), 0)

-----------------------------------------------------------------------------
(***************************************************************************)
(* Containers                                                              *)
(***************************************************************************)
AnalyzeCount(d, v, HasType(_)) ==
    LET count_size == CountWidth(TypeOf(d, v))
        index      == v.buffer + 1 + count_size
        raw_count  == ReadMinimalInt(d, v.buffer + 1, count_size)
    IN  IF v.size = 0 THEN Error("parameter_is_zero")
        ELSE IF ~HasType(TypeOf(d, v)) THEN Error("type_mismatch")
        ELSE IF v.size = 1 THEN [error |-> OK, count |-> 0]
        ELSE IF index > SliceEnd(v) \/ raw_count \notin 0..(SizeMax - 1)
        THEN Error("file_format_error")
        ELSE [error |-> OK, count |-> raw_count + 1, index |-> index]

\* An item takes at least an entry in the index and a type byte; the first
\* one has no entry.
ArrayAnalyze(d, v) ==
    LET head  == AnalyzeCount(d, v, IsArray)
        count == head.count
        width == IndexWidth(TypeOf(d, v))
        data  == head.index + (count - 1) * width
    IN  IF head.error # OK THEN head
        ELSE IF count = 0 THEN head
        ELSE IF count > (SliceEnd(v) - head.index + width) \div (width + 1)
        THEN Error("file_format_error")
        ELSE [error |-> OK, count |-> count, index |-> head.index, width |-> width,
              data |-> data, highest |-> SliceEnd(v) - data - count]

ObjectAnalyze(d, v) ==
    LET head         == AnalyzeCount(d, v, IsObject)
        count        == head.count
        key_width    == IndexWidth(TypeOf(d, v))
        value_width  == ValuesWidth(TypeOf(d, v))
        value_index  == head.index + count * key_width
        key_data     == value_index + (count - 1) * value_width
        last_key_end == ReadMinimalInt(d, value_index - key_width, key_width)
        value_data   == key_data + last_key_end
    IN  IF head.error # OK THEN head
        ELSE IF count = 0 THEN head
        ELSE IF count > (SliceEnd(v) - head.index + value_width)
                          \div (key_width + value_width + 1)
        THEN Error("file_format_error")
        ELSE IF last_key_end \notin 0..(SliceEnd(v) - key_data - count)
        THEN Error("file_format_error")
        ELSE [error |-> OK, count |-> count,
              key_index |-> head.index, key_width |-> key_width,
              key_data |-> key_data, last_key_end |-> last_key_end,
              value_index |-> value_index, value_width |-> value_width,
              value_data |-> value_data, highest |-> SliceEnd(v) - value_data - count]

\* Item i of an index whose last entry is not stored: where it starts and ends.
StartOffset(d, index, width, i) ==
    IF i = 0 THEN 0 ELSE ReadMinimalInt(d, index + width * (i - 1), width)
EndOffset(d, index, width, i, count, last) ==
    IF i = count - 1 THEN last ELSE ReadMinimalInt(d, index + width * i, width)

\* Mutant: an item may end before it starts.
Ordered_AnyOrder(start, end, highest) ==
    start \in 0..highest /\ end \in 0..highest

Ordered(start, end, highest) ==
    start \in 0..highest /\ end \in 0..highest /\ start <= end

\* The offsets leave out one byte, the type, for each item before.
ArrayGetIndex(d, a, i) ==
    LET start == StartOffset(d, a.index, a.width, i)
        end   == EndOffset(d, a.index, a.width, i, a.count, a.highest)
    IN  IF i >= a.count THEN Error("index_out_of_range")
        ELSE IF ~Ordered(start, end, a.highest) THEN Error("file_format_error")
        ELSE [error |-> OK, value |-> Slice(a.data + start + i, end + 1 - start)]

ObjectGetIndex(d, o, i) ==
    LET key_start   == StartOffset(d, o.key_index, o.key_width, i)
        key_end     == EndOffset(d, o.key_index, o.key_width, i, o.count, o.last_key_end)
        value_start == StartOffset(d, o.value_index, o.value_width, i)
        value_end   == EndOffset(d, o.value_index, o.value_width, i, o.count, o.highest)
        key         == Slice(o.key_data + key_start, key_end - key_start)
    IN  IF i >= o.count THEN Error("index_out_of_range")
        ELSE IF \/ ~Ordered(key_start, key_end, o.last_key_end)
                \/ ~Ordered(value_start, value_end, o.highest)
                \/ ~ValidUtf8(Bytes(d, key))
        THEN Error("file_format_error")
        ELSE [error |-> OK, key |-> key,
              value |-> Slice(o.value_data + value_start + i, value_end + 1 - value_start)]

-----------------------------------------------------------------------------
(***************************************************************************)
(* The document that a program sees which asks for the items of every      *)
(* container, as a tree; what cannot be read is [error |-> why].           *)
(***************************************************************************)
Value(d) ==
    LET value[v \in [buffer : Nat, size : Nat]] ==
          LET a        == ArrayAnalyze(d, v)
              o        == ObjectAnalyze(d, v)
              Item(i)  == ArrayGetIndex(d, a, i)
              Pair(i)  == ObjectGetIndex(d, o, i)
          IN  CASE IsArray(TypeOf(d, v)) ->
                     IF a.error # OK THEN a
                     ELSE [array |-> [z \in 1..a.count |->
                             IF Item(z - 1).error # OK THEN Item(z - 1)
                             ELSE value[Item(z - 1).value]]]
                [] IsObject(TypeOf(d, v)) ->
                     IF o.error # OK THEN o
                     ELSE [object |-> [z \in 1..o.count |->
                             IF Pair(z - 1).error # OK THEN Pair(z - 1)
                             ELSE [key   |-> Bytes(d, Pair(z - 1).key),
                                   value |-> value[Pair(z - 1).value]]]]
                [] OTHER -> [scalar |-> Bytes(d, v)]
    IN  value[Root(d)]
=============================================================================
