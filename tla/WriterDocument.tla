--------------------------- MODULE WriterDocument ---------------------------
(***************************************************************************)
(* The writer implements Document: what is on the spool and the stack, read *)
(* back, is at every moment the tree that the calls so far have built.     *)
(***************************************************************************)
EXTENDS Writer

\* The item at o and the value at o as trees, when value has the values
\* behind o.
ItemTree(s, type, value, o) ==
    IF type = OBJECT
    THEN [key |-> KeyOf(s, o), value |-> value[ValueOf(s, o)]]
    ELSE value[o]
ItemTrees(s, type, value, items) ==
    [i \in DOMAIN items |-> ItemTree(s, type, value, items[i])]
ValueTree(s, value, o, items) ==
    CASE Cell(s, o) = ARRAY  -> [array |-> ItemTrees(s, ARRAY, value, items)]
      [] Cell(s, o) = OBJECT -> [object |-> ItemTrees(s, OBJECT, value, items)]
      [] OTHER -> [scalar |-> Slice(s, o + 2, Cell(s, o + 1))]

\* The values on a spool by their offsets.
Values(s) ==
    LET value[o \in ValueOffsets(s)] == ValueTree(s, value, o, ItemsAt(s, o))
    IN  value

\* The content of an open container: the cells from lo to hi.  In an object
\* a key that ends at hi is waiting for its value.
FrameOf(s, type, lo, hi) ==
    LET items == ItemsOf(s, type, lo, hi)
        end   == EndOfItems(s, type, lo, items)
    IN  [kind  |-> IF type = ARRAY THEN "array" ELSE "object",
         items |-> ItemTrees(s, type, Values(s), items),
         key   |-> IF end < hi THEN <<KeyOf(s, end)>> ELSE <<>>]

\* Where the innermost open container ends: before what is added in parts.
ContentEnd ==
    CASE expect \in {"more_string", "more_bytes"} -> Last(stack) - TypeByteSize
      [] expect = "more_key"                      -> Last(stack)
      [] expect = "more_decimal_string"           -> Len(spool) - SizeOfSize
      [] OTHER                                    -> Len(spool)

\* The header of the i-th open container from outside, and where its content
\* ends: at the next one's type byte.
Header(i) == IF i = Saved THEN current_container ELSE stack[i + 1]
EndOfContent(i) == IF i = Saved THEN ContentEnd ELSE Header(i + 1) - TypeByteSize

ContentOf(s, header, end) ==
    IF Cell(s, header - TypeByteSize) = ARRAY
    THEN FrameOf(s, ARRAY, header + HeaderSize, end)
    ELSE FrameOf(s, OBJECT, header + HeaderSize, end)
OpenFrames == [i \in 1..Saved |-> ContentOf(spool, Header(i), EndOfContent(i))]

PartialText ==
    LET From(offset) == SubSeq(spool, offset + 1, Len(spool))
    IN  CASE expect = "more_key" ->
               <<[use |-> "key", chars |-> From(Last(stack) + SizeOfSize)]>>
          [] expect \in {"more_string", "more_bytes"} ->
               <<[use |-> "scalar", chars |-> From(Last(stack) + SizeOfSize)]>>
          [] expect = "more_decimal_string" ->
               <<[use   |-> "decimal",
                  chars |-> SubSeq(stack, Last(spool) + 1, Len(stack))]>>
          [] OTHER -> <<>>

Root == IF ~failed /\ expect = "none" THEN <<Values(spool)[0]>> ELSE <<>>
Open == IF failed \/ expect = "none" THEN <<>> ELSE OpenFrames
TextSoFar == IF failed THEN <<>> ELSE PartialText
Answer == IF ret = OK THEN "ok" ELSE "error"

Payloads == {<<type>> : type \in Constants} \union {decimal.payload : decimal \in Decimals}
              \union {<<TYPE_STRING>> \o text : text \in Texts}
              \union {<<TYPE_BYTES>> \o text : text \in Texts}

D == INSTANCE Document WITH
    root      <- Root,
    open      <- Open,
    text      <- TextSoFar,
    broken    <- failed,
    answer    <- Answer,
    Payloads  <- Payloads,
    Keys      <- Texts,
    TextTypes <- {TYPE_STRING, TYPE_BYTES}

(***************************************************************************)
(* Every step of the writer is a step of Document: each call has on the    *)
(* buffers exactly the effect that it should have on the tree, headers     *)
(* that are filled in late and calls that fail half-way included.  This is *)
(* so of programs whose decimals are counted right (CountedRight).         *)
(***************************************************************************)
BuildsDocument == D!Spec

CarriedOut == ret' \in {OK, "system", "invalid_utf8"}

CallFollowsDocument ==
    /\ BeginArray \/ BeginObject \/ BeginString \/ BeginBytes \/ BeginDecimalFromString
         => (CarriedOut <=> D!ValueExpected)
    /\ EndArray  => (CarriedOut <=> D!EndExpected("array"))
    /\ EndObject => (CarriedOut <=> D!EndExpected("object"))
    /\ BeginKey  => (CarriedOut <=> D!KeyExpected)

(***************************************************************************)
(* A call is carried out when the tree can take it, and refused when it    *)
(* cannot: the two variables from which the writer decides, set far apart  *)
(* in the code, say of the tree what they should (CountedRight, again).    *)
(***************************************************************************)
FollowsDocument == [][CallFollowsDocument]_vars

(***************************************************************************)
(* write never asks whether a value is expected.  It accepts a writer by   *)
(* the sizes of its buffers, and these admit no document but a complete    *)
(* one.                                                                    *)
(***************************************************************************)
WritesCompleteOnly == Accepts(CheckWrite) => D!Complete

(***************************************************************************)
(* The size that end_array or end_object predicted for the root, from the  *)
(* sizes of the values in it, is the size of what write sends: the offsets *)
(* that the enclosing containers store are right only if every one is.     *)
(* For this, too, the decimals have to be counted right.                   *)
(***************************************************************************)
SizePredicted ==
    Accepts(CheckWrite) => SizeValue(spool, 0) = Len(Emit(spool, 0))
=============================================================================
