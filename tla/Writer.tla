------------------------------- MODULE Writer -------------------------------
(***************************************************************************)
(* The writer: the calls a program makes to build a document value by      *)
(* value (lib/writer.h, lib/writer.c, lib/writer/*.c).                     *)
(*                                                                         *)
(* The writer keeps no tree.  It appends to the spool (see module Spool)   *)
(* and keeps the offset of the innermost open container's header; the      *)
(* offsets of the outer ones are saved on the stack, innermost last, with  *)
(* 0 below them for "no container".  A string, a byte string or a key that *)
(* is being added in parts puts the offset of its size field on top of     *)
(* them; a decimal that is being added in parts collects its text there.   *)
(* Calls may come in any order: a call that does not fit the state is      *)
(* answered with an error.  Any push may run out of memory.                *)
(***************************************************************************)
EXTENDS Spool, Text

CONSTANTS
    Texts,      \* the contents a call may pass for a key, a string or bytes
    Constants,  \* the type bytes of null, false, true, ...
    Decimals,   \* encoded decimals: the size that was counted for each, and its
                \* payload, type byte first
    MaxSpool,   \* bound: cells on the spool
    MaxStack    \* bound: cells on the stack when a decimal's text is added

\* A buffer fits the memory of the process: its size is a size_t, and a cell
\* has at most 8 bytes.
ASSUME WriterAssumption ==
    /\ Texts \subseteq Seq(Nat)
    /\ Constants \subseteq Nat
    /\ \A decimal \in Decimals :
         decimal.size \in 0..SizeMax /\ decimal.payload \in Seq(Nat) \ {<<>>}
    /\ MaxSpool \in Nat /\ 8 * MaxSpool <= SizeMax
    /\ MaxStack \in Nat

\* The size of a decimal is counted before it is pushed, by a loop that takes a
\* shortcut for long texts; the two are compared by an assertion alone
\* (lib/writer/decimal.c:469), which is not compiled in a release.  With a size that
\* is wrong the values on the spool no longer lie one behind the other, and what
\* the calls that read them make of it is not in this model.  What depends on them
\* is stated for programs whose decimals are counted right; see SizeCounted and
\* CountedAsPushed of DecimalWriter for the texts of which they are.
CountedRight ==
    \A decimal \in Decimals : decimal.size = Len(decimal.payload)

VARIABLES
    spool,
    stack,
    current_container,
    expect,
    expect_after_value,
    failed,
    ret,        \* what the last call returned
    out         \* what the last successful write sent to its callback

vars == <<spool, stack, current_container, expect, expect_after_value, failed,
          ret, out>>
buffers == <<spool, stack, current_container>>
expects == <<expect, expect_after_value>>

AfterValue == {"none", "key", "value"}
Expect == AfterValue
            \union {"more_key", "more_string", "more_bytes", "more_decimal_string"}

OK == "ok"
Errors == {"writer_failed", "key_expected", "value_expected", "unmatched_end",
           "bad_root", "invalid_utf8", "invalid_decimal_syntax",
           "parameter_is_zero", "system", "output"}

TYPE_STRING == 8
TYPE_BYTES  == 9

-----------------------------------------------------------------------------
Init ==
    /\ spool = <<>>
    /\ stack = <<>>
    /\ current_container = 0
    /\ expect = "value"
    /\ expect_after_value = "none"
    /\ failed = FALSE
    /\ ret = OK
    /\ out = <<>>

(***************************************************************************)
(* Whether a call fits the state: OK, or the error it is answered with.    *)
(***************************************************************************)
CheckExpectValue ==
    IF expect = "value" THEN OK
    ELSE IF expect = "key" THEN "key_expected"
    ELSE "unmatched_end"

CheckExpectKey ==
    IF expect = "key" THEN OK
    ELSE IF expect_after_value = "key" THEN "value_expected"
    ELSE "unmatched_end"

CheckExpectMore(more) == IF expect = more THEN OK ELSE "unmatched_end"

CheckEndArray ==
    IF expect = "value" /\ expect_after_value = "value" THEN OK ELSE "unmatched_end"
CheckEndObject ==
    IF expect = "key" THEN OK ELSE "unmatched_end"

Accepts(check) == ~failed /\ check = OK

\* An error that leaves the writer as it was.
Return(error) ==
    /\ ret' = error
    /\ UNCHANGED <<buffers, expects, failed, out>>

Refuse(check) ==
    \/ failed /\ Return("writer_failed")
    \/ ~failed /\ check # OK /\ Return(check)

\* How a call ends: an error may make the writer unusable for good.
Succeed == ret' = OK /\ UNCHANGED <<failed, out>>
Fail(error) == ret' = error /\ failed' = TRUE /\ UNCHANGED out

HasRoom(cells) == Len(spool) + cells <= MaxSpool

\* One of the pushes to the spool fails: the first n cells stay there.
PushFails(cells, max) ==
    /\ \E n \in 0..max :
         n < Len(cells) /\ spool' = spool \o SubSeq(cells, 1, n)
    /\ Fail("system")

-----------------------------------------------------------------------------
(***************************************************************************)
(* Containers                                                              *)
(***************************************************************************)

\* Mutant: the container is said to start at its type byte's predecessor.
BeginContainer_OffByOne(type, first) ==
    \/ Refuse(CheckExpectValue)
    \/ /\ Accepts(CheckExpectValue)
       /\ HasRoom(TypeByteSize + HeaderSize)
       /\ expect' = first /\ expect_after_value' = first
       /\ spool' = spool \o <<type, 0, 0>>
       /\ stack' = Append(stack, current_container)
       /\ current_container' = Len(spool) - TypeByteSize
       /\ Succeed

\* Mutant: the value expected after a value is left as it was.
BeginContainer_KeepsAfter(type, first) ==
    \/ Refuse(CheckExpectValue)
    \/ /\ Accepts(CheckExpectValue)
       /\ HasRoom(TypeByteSize + HeaderSize)
       /\ expect' = first
       /\ UNCHANGED expect_after_value
       /\ spool' = spool \o <<type, 0, 0>>
       /\ stack' = Append(stack, current_container)
       /\ current_container' = Len(spool) + TypeByteSize
       /\ Succeed

\* Push the type byte, save the current container, push an empty header.
BeginContainer(type, first) ==
    \/ Refuse(CheckExpectValue)
    \/ /\ Accepts(CheckExpectValue)
       /\ HasRoom(TypeByteSize + HeaderSize)
       /\ expect' = first /\ expect_after_value' = first
       /\ \/ /\ spool' = spool \o <<type, 0, 0>>
             /\ stack' = Append(stack, current_container)
             /\ current_container' = Len(spool) + TypeByteSize
             /\ Succeed
          \/ /\ UNCHANGED buffers
             /\ Fail("system")
          \/ /\ spool' = Append(spool, type)
             /\ UNCHANGED <<stack, current_container>>
             /\ Fail("system")
          \/ /\ spool' = Append(spool, type)
             /\ stack' = Append(stack, current_container)
             /\ current_container' = Len(spool) + TypeByteSize
             /\ Fail("system")

BeginArray  == BeginContainer(ARRAY, "value")
BeginObject == BeginContainer(OBJECT, "key")

\* What is expected in a container that a value has just been added to.
ExpectIn(s, container) ==
    IF container = 0 THEN "none"
    ELSE IF Cell(s, container - TypeByteSize) = OBJECT THEN "key"
    ELSE "value"

\* Fill in the header and go back to the container around this one.
EndContainer(OutputSize(_, _, _)) ==
    LET spool_used == Len(spool)
        outer      == stack[Len(stack)]
    IN  /\ spool' = [spool EXCEPT
             ![current_container + 1] = SizeT(spool_used - current_container - SizeOfSize),
             ![current_container + 2] =
                SizeT(OutputSize(spool, current_container + HeaderSize, spool_used))]
        /\ stack' = Front(stack)
        /\ current_container' = outer
        /\ expect' = ExpectIn(spool, outer)
        /\ expect_after_value' = ExpectIn(spool, outer)
        /\ Succeed

EndArray ==
    \/ Refuse(CheckEndArray)
    \/ Accepts(CheckEndArray) /\ EndContainer(ArrayOutputSize)

EndObject ==
    \/ Refuse(CheckEndObject)
    \/ Accepts(CheckEndObject) /\ EndContainer(ObjectOutputSize)

-----------------------------------------------------------------------------
(***************************************************************************)
(* Values and keys in one call                                             *)
(***************************************************************************)

\* Push a scalar: SCALAR, its size, its type byte and its data, which a
\* decimal pushes piece by piece and the others in one go.
PushScalar(size, payload, pieces) ==
    LET cells == <<SCALAR, size>> \o payload
    IN  /\ HasRoom(Len(cells))
        /\ \/ /\ spool' = spool \o cells
              /\ expect' = expect_after_value
              /\ Succeed
              /\ UNCHANGED <<stack, current_container, expect_after_value>>
           \/ /\ PushFails(cells, 2 + pieces)
              /\ UNCHANGED <<stack, current_container, expects>>

AddConstant(type) ==
    \/ Refuse(CheckExpectValue)
    \/ Accepts(CheckExpectValue) /\ PushScalar(1, <<type>>, 1)

AddString(text) ==
    \/ Refuse(CheckExpectValue)
    \/ /\ Accepts(CheckExpectValue)
       /\ \/ ~ValidUtf8(text) /\ Return("invalid_utf8")
          \/ ValidUtf8(text) /\ PushScalar(1 + Len(text), <<TYPE_STRING>> \o text, 1)

AddBytes(text) ==
    \/ Refuse(CheckExpectValue)
    \/ Accepts(CheckExpectValue) /\ PushScalar(1 + Len(text), <<TYPE_BYTES>> \o text, 1)

\* The empty text is refused, a text that is not a decimal is fatal.  The size
\* that is pushed is the one that was counted.
AddDecimalFromString ==
    \/ Refuse(CheckExpectValue)
    \/ /\ Accepts(CheckExpectValue)
       /\ \/ Return("parameter_is_zero")
          \/ Fail("invalid_decimal_syntax") /\ UNCHANGED <<buffers, expects>>
          \/ \E decimal \in Decimals :
               PushScalar(decimal.size, decimal.payload, Len(decimal.payload))

AddKey(key) ==
    LET cells == <<Len(key)>> \o key
    IN  \/ Refuse(CheckExpectKey)
        \/ /\ Accepts(CheckExpectKey)
           /\ ~ValidUtf8(key)
           /\ Return("invalid_utf8")
        \/ /\ Accepts(CheckExpectKey)
           /\ ValidUtf8(key)
           /\ HasRoom(Len(cells))
           /\ \/ /\ spool' = spool \o cells
                 /\ expect' = "value"
                 /\ Succeed
              \/ PushFails(cells, 1) /\ UNCHANGED expect
           /\ UNCHANGED <<stack, current_container, expect_after_value>>

-----------------------------------------------------------------------------
(***************************************************************************)
(* Values and keys in parts: begin, append any number of times, end.       *)
(***************************************************************************)

\* The size field goes on the stack, and is filled in when all is there.
BeginKey ==
    \/ Refuse(CheckExpectKey)
    \/ /\ Accepts(CheckExpectKey)
       /\ HasRoom(SizeOfSize)
       /\ \/ /\ stack' = Append(stack, Len(spool))
             /\ spool' = Append(spool, 0)
             /\ expect' = "more_key"
             /\ Succeed
          \/ /\ \/ UNCHANGED stack
                \/ stack' = Append(stack, Len(spool))
             /\ UNCHANGED <<spool, expect>>
             /\ Fail("system")
       /\ UNCHANGED <<current_container, expect_after_value>>

BeginScalar(type, more) ==
    LET cells == <<SCALAR, 0, type>>
    IN  \/ Refuse(CheckExpectValue)
        \/ /\ Accepts(CheckExpectValue)
           /\ HasRoom(Len(cells))
           /\ \/ /\ spool' = spool \o cells
                 /\ stack' = Append(stack, Len(spool) + TypeByteSize)
                 /\ expect' = more
                 /\ Succeed
              \/ /\ PushFails(cells, 1)
                 /\ UNCHANGED <<stack, expect>>
              \/ /\ \E n \in 1..2 : spool' = spool \o SubSeq(cells, 1, n)
                 /\ stack' = Append(stack, Len(spool) + TypeByteSize)
                 /\ Fail("system")
                 /\ UNCHANGED expect
           /\ UNCHANGED <<current_container, expect_after_value>>

BeginString == BeginScalar(TYPE_STRING, "more_string")
BeginBytes  == BeginScalar(TYPE_BYTES, "more_bytes")

\* Mutant: the text is stored although there was no memory for it.
AppendSpool_StoresAnyway(more, text) ==
    \/ Refuse(CheckExpectMore(more))
    \/ /\ Accepts(CheckExpectMore(more))
       /\ HasRoom(Len(text))
       /\ spool' = spool \o text
       /\ ret' \in {OK, "system"}
       /\ UNCHANGED <<stack, current_container, expects, failed, out>>

\* Running out of memory here is not remembered: the caller may try again.
AppendSpool(more, text) ==
    \/ Refuse(CheckExpectMore(more))
    \/ Accepts(CheckExpectMore(more)) /\ text # <<>> /\ Return("system")
    \/ /\ Accepts(CheckExpectMore(more))
       /\ HasRoom(Len(text))
       /\ spool' = spool \o text
       /\ Succeed
       /\ UNCHANGED <<stack, current_container, expects>>

AppendKey(text)    == AppendSpool("more_key", text)
AppendString(text) == AppendSpool("more_string", text)
AppendBytes(text)  == AppendSpool("more_bytes", text)

\* Mutant: the offset of the size field stays on the stack.
EndText_NoPop(more, skip, next, checked) ==
    LET size_offset == stack[Len(stack)]
        size        == Len(spool) - size_offset - SizeOfSize
    IN  \/ Refuse(CheckExpectMore(more))
        \/ /\ Accepts(CheckExpectMore(more))
           /\ spool' = [spool EXCEPT ![size_offset + 1] = SizeT(size)]
           /\ expect' = next
           /\ Succeed
           /\ UNCHANGED <<stack, current_container, expect_after_value>>

\* Fill in the size, then check the text that starts skip cells behind it.
EndText(more, skip, next, checked) ==
    LET size_offset == stack[Len(stack)]
        size        == Len(spool) - size_offset - SizeOfSize
        text        == Slice(spool, size_offset + SizeOfSize + skip, size - skip)
    IN  \/ Refuse(CheckExpectMore(more))
        \/ /\ Accepts(CheckExpectMore(more))
           /\ spool' = [spool EXCEPT ![size_offset + 1] = SizeT(size)]
           /\ stack' = Front(stack)
           /\ \/ /\ checked => ValidUtf8(text)
                 /\ expect' = next
                 /\ Succeed
              \/ /\ checked /\ ~ValidUtf8(text)
                 /\ UNCHANGED expect
                 /\ Fail("invalid_utf8")
           /\ UNCHANGED <<current_container, expect_after_value>>

EndKey    == EndText("more_key", 0, "value", TRUE)
EndString == EndText("more_string", 1, expect_after_value, TRUE)
EndBytes  == EndText("more_bytes", 0, expect_after_value, FALSE)

\* A decimal has the roles of the buffers switched: where its text starts
\* on the stack is kept on the spool.
BeginDecimalFromString ==
    \/ Refuse(CheckExpectValue)
    \/ /\ Accepts(CheckExpectValue)
       /\ HasRoom(SizeOfSize)
       /\ \/ /\ spool' = Append(spool, Len(stack))
             /\ expect' = "more_decimal_string"
             /\ Succeed
          \/ Fail("system") /\ UNCHANGED <<spool, expect>>
       /\ UNCHANGED <<stack, current_container, expect_after_value>>

AppendDecimalFromString(text) ==
    LET check == CheckExpectMore("more_decimal_string")
    IN  \/ Refuse(check)
        \/ Accepts(check) /\ text # <<>> /\ Return("system")
        \/ /\ Accepts(check)
           /\ Len(stack) + Len(text) <= MaxStack
           /\ stack' = stack \o text
           /\ Succeed
           /\ UNCHANGED <<spool, current_container, expects>>

\* The text is handed to add_decimal_from_string, which checks that a value
\* is expected; more of the decimal still is, so that call is refused.
EndDecimalFromString ==
    LET check == CheckExpectMore("more_decimal_string")
    IN  \/ Refuse(check)
        \/ /\ Accepts(check)
           /\ spool' = Front(spool)
           /\ Fail(CheckExpectValue)
           /\ UNCHANGED <<stack, current_container, expects>>

-----------------------------------------------------------------------------
(***************************************************************************)
(* Writing the document                                                    *)
(***************************************************************************)

\* The size of the root value.  An open decimal has a single cell on the
\* spool: the code then reads past its end, into bytes that are still zero.
RootSpoolSize ==
    TypeByteSize + SizeOfSize
      + (IF Len(spool) > TypeByteSize THEN Cell(spool, TypeByteSize) ELSE 0)

\* Mutant: the size of the root is not compared with what is on the spool.
CheckWrite_NoSize ==
    IF stack # <<>> THEN "unmatched_end"
    ELSE IF spool = <<>> THEN "bad_root"
    ELSE OK

CheckWrite ==
    IF stack # <<>> THEN "unmatched_end"
    ELSE IF spool = <<>> \/ RootSpoolSize # Len(spool) THEN "bad_root"
    ELSE OK

\* The callback, or a push of write_object's, may fail at any point.
Write ==
    \/ Refuse(CheckWrite)
    \/ /\ Accepts(CheckWrite)
       /\ out' = Emit(spool, 0)
       /\ ret' = OK
       /\ UNCHANGED <<buffers, expects, failed>>
    \/ /\ Accepts(CheckWrite)
       /\ \E left \in Leftover(spool, 0) : stack' = stack \o left
       /\ ret' \in {"output", "system"}
       /\ UNCHANGED <<spool, current_container, expects, failed, out>>

-----------------------------------------------------------------------------
Next ==
    \/ BeginArray \/ EndArray
    \/ BeginObject \/ EndObject
    \/ \E type \in Constants : AddConstant(type)
    \/ \E text \in Texts : AddString(text) \/ AddBytes(text) \/ AddKey(text)
    \/ AddDecimalFromString
    \/ BeginKey \/ EndKey \/ BeginString \/ EndString \/ BeginBytes \/ EndBytes
    \/ \E text \in Texts : AppendKey(text) \/ AppendString(text) \/ AppendBytes(text)
    \/ BeginDecimalFromString \/ EndDecimalFromString
    \/ \E text \in Texts : AppendDecimalFromString(text)
    \/ Write

Spec == Init /\ [][Next]_vars

-----------------------------------------------------------------------------
TypeOK ==
    /\ spool \in Seq(Nat)
    /\ stack \in Seq(Nat)
    /\ current_container \in Nat
    /\ expect \in Expect
    /\ expect_after_value \in AfterValue
    /\ failed \in BOOLEAN
    /\ ret \in Errors \union {OK}

\* A container's header is at offset: a type byte comes before it and all of
\* it is there.
HeaderIn(s, offset) ==
    /\ offset + HeaderSize <= Len(s)
    /\ Cell(s, offset - TypeByteSize) \in {OBJECT, ARRAY}

\* Of the stack, the lowest Saved cells are saved containers.
Saved ==
    CASE expect \in {"more_key", "more_string", "more_bytes"} -> Len(stack) - 1
      [] expect = "more_decimal_string" -> Last(spool)
      [] OTHER -> Len(stack)

\* The first n cells of st and c are nested containers, outermost first:
\* 0, and offsets of headers on the spool s that grow.
Nested(s, st, n, c) ==
    /\ n \in 0..Len(st)
    /\ n = 0 <=> c = 0
    /\ c > 0 => HeaderIn(s, c)
    /\ \A i \in 1..n :
         /\ st[i] < c
         /\ IF i = 1 THEN st[i] = 0 ELSE st[i] > 0 /\ HeaderIn(s, st[i])
    /\ \A i, j \in 1..n : i < j => st[i] < st[j]

\* What is being added in parts lies behind the innermost container's header,
\* and its size field is on the spool.
PartInContainer ==
    LET skip == IF expect = "more_key" THEN 0 ELSE TypeByteSize
    IN  /\ stack # <<>>
        /\ current_container > 0 => current_container + HeaderSize <= Last(stack)
        /\ Last(stack) + SizeOfSize + skip <= Len(spool)

(***************************************************************************)
(* The buffers agree with what is expected next.  While the document can   *)
(* take more, the stack and the current container are a chain of headers   *)
(* on the spool, what is expected after a value is what the type of the    *)
(* innermost one asks for, and a part that is open is inside it.  The      *)
(* chain lives in two buffers that the code never compares.                *)
(***************************************************************************)
ContainersNested ==
    ~failed =>
      /\ expect = "none" => current_container = 0 /\ expect_after_value = "none"
      /\ expect # "none" =>
           /\ Nested(spool, stack, Saved, current_container)
           /\ expect_after_value = ExpectIn(spool, current_container)
      /\ expect \in {"key", "more_key"} => expect_after_value = "key"
      /\ expect \in {"more_key", "more_string", "more_bytes"} => PartInContainer
      /\ expect = "more_decimal_string" => spool # <<>>
      /\ current_container = 0 =>
           /\ expect = "value" => spool = <<>>
           /\ expect = "more_decimal_string" => Len(spool) = SizeOfSize

(***************************************************************************)
(* What the code asserts of its buffers (lib/writer/buffer.h:41, 67, 102,  *)
(* lib/writer/container.c:16) holds at every call that relies on it: an    *)
(* end call finds an offset to pop on the stack, that offset is one of a   *)
(* container, of no container or of a size field, and the cells that the   *)
(* call fills in are on the spool.                                         *)
(***************************************************************************)
AssertionsHold ==
    ~failed =>
      /\ CheckEndArray = OK \/ CheckEndObject = OK =>
           /\ stack # <<>>
           /\ HeaderIn(spool, current_container)
           /\ Last(stack) = 0 \/ HeaderIn(spool, Last(stack))
           /\ Last(stack) < current_container
      /\ expect \in {"more_key", "more_string", "more_bytes"} =>
           /\ stack # <<>>
           /\ Last(stack) + SizeOfSize
                + (IF expect = "more_key" THEN 0 ELSE TypeByteSize) <= Len(spool)
      /\ expect = "more_decimal_string" =>
           spool # <<>> /\ Last(spool) <= Len(stack)

(***************************************************************************)
(* "unexpected end command" (lib/error.c:19) answers an end call that has  *)
(* no begin call to match; the end of a decimal that was begun has one.    *)
(***************************************************************************)
DecimalEndMatches ==
    [][ ~failed /\ expect = "more_decimal_string" /\ EndDecimalFromString
          => ret' # "unmatched_end" ]_vars

(***************************************************************************)
(* lib/writer.h:36 calls the computations that use the stack as memory     *)
(* self-contained: writing the document, which sorts the items of objects  *)
(* there, leaves the stack as it was, whether or not it succeeds.          *)
(***************************************************************************)
StackSelfContained == [][Write => stack' = stack]_vars

(***************************************************************************)
(* The assertion of lib/writer/buffer.h:41 when write reads the size of    *)
(* the root value: all of it lies in the used part of the spool.           *)
(***************************************************************************)
RootSizeOnSpool ==
    ~failed /\ stack = <<>> /\ spool # <<>>
      => TypeByteSize + SizeOfSize <= Len(spool)
=============================================================================
