------------------------------- MODULE ToJson -------------------------------
(***************************************************************************)
(* Converting a document to JSON (bijson_to_json of lib/reader.c,          *)
(* _bijson_array_to_json and _bijson_object_to_json).                      *)
(*                                                                         *)
(* The output goes to a callback, token by token, while the document is    *)
(* read; the callback may fail, and so may the reading of what comes next. *)
(* A token is a punctuation mark, a constant, or a string or a decimal     *)
(* with its bytes: their escapes and digits are left out.                  *)
(***************************************************************************)
EXTENDS Reader

CONSTANT Documents

ASSUME DocumentsAssumption == Documents \subseteq Seq(Nat)

VARIABLES
    doc,        \* the document, which nothing changes
    frames,     \* the containers being converted, outermost first
    pending,    \* <<>>, or the value that is to be converted next
    output,     \* the tokens that the callback has taken
    outcome     \* "running", or what bijson_to_json has returned

convert_vars == <<doc, frames, pending, output, outcome>>

Token(kind, bytes) == [kind |-> kind, bytes |-> bytes]
Mark(kind) == Token(kind, <<>>)

FileErrors == {"file_format_error", "unsupported_data_type", "invalid_utf8",
               "parameter_is_zero"}

\* The token of a scalar, or what is wrong with it.
Scalar(d, v) ==
    LET type  == TypeOf(d, v)
        bytes == Bytes(d, v)
        Is(token) == [error |-> OK, token |-> token]
    IN  CASE type = 0             -> Error("file_format_error")
          [] type \in {1, 5}      -> Is(Mark("null"))
          [] type = 2             -> Is(Mark("false"))
          [] type = 3             -> Is(Mark("true"))
          [] type = 8             -> IF ValidUtf8(Tail(bytes))
                                     THEN Is(Token("string", Tail(bytes)))
                                     ELSE Error("invalid_utf8")
          [] type \in 26..27 \union 32..47 -> Is(Token("decimal", bytes))
          [] OTHER                -> Error("unsupported_data_type")

-----------------------------------------------------------------------------
ConvertInit ==
    /\ doc \in Documents
    /\ frames = <<>>
    /\ pending = <<Root(doc)>>
    /\ output = <<>>
    /\ outcome = "running"

\* The callback is called for each of the tokens; a call may fail.
Outputs(tokens) == output' = output \o tokens /\ UNCHANGED <<doc, outcome>>

CallbackFails(tokens) ==
    /\ \E n \in 0..(Len(tokens) - 1) : output' = output \o SubSeq(tokens, 1, n)
    /\ outcome' = "output"
    /\ UNCHANGED <<doc, frames, pending>>

FailsAfter(tokens, error) ==
    \/ /\ output' = output \o tokens
       /\ outcome' = error
       /\ UNCHANGED <<doc, frames, pending>>
    \/ CallbackFails(tokens)

Converting(Is(_)) ==
    /\ outcome = "running"
    /\ pending # <<>>
    /\ pending[1].size > 0
    /\ Is(TypeOf(doc, pending[1]))

ConvertNothing ==
    /\ outcome = "running"
    /\ pending # <<>>
    /\ pending[1].size = 0
    /\ outcome' = "parameter_is_zero"
    /\ UNCHANGED <<doc, frames, pending, output>>

ConvertScalar ==
    LET scalar == Scalar(doc, pending[1])
    IN  /\ Converting(LAMBDA type : ~IsArray(type) /\ ~IsObject(type))
        /\ \/ scalar.error # OK /\ FailsAfter(<<>>, scalar.error)
           \/ /\ scalar.error = OK
              /\ \/ /\ Outputs(<<scalar.token>>)
                    /\ pending' = <<>>
                    /\ UNCHANGED frames
                 \/ CallbackFails(<<scalar.token>>)

Open(analysis, bracket) ==
    \/ analysis.error # OK /\ FailsAfter(<<>>, analysis.error)
    \/ /\ analysis.error = OK
       /\ \/ /\ Outputs(<<Mark(bracket)>>)
             /\ frames' = Append(frames, [value |-> pending[1], analysis |-> analysis,
                                          u |-> 0])
             /\ pending' = <<>>
          \/ CallbackFails(<<Mark(bracket)>>)

OpenArray  == Converting(IsArray)  /\ Open(ArrayAnalyze(doc, pending[1]), "[")
OpenObject == Converting(IsObject) /\ Open(ObjectAnalyze(doc, pending[1]), "{")

In(Is(_)) ==
    /\ outcome = "running"
    /\ pending = <<>>
    /\ frames # <<>>
    /\ Is(TypeOf(doc, Last(frames).value))

\* Mutant: a comma for every item but the last.
NextItem_CommaFirst(item, label) ==
    LET u     == Last(frames).u
        comma == IF u + 1 = Last(frames).analysis.count THEN <<>> ELSE <<Mark(",")>>
    IN  /\ item.error = OK
        /\ Outputs(comma \o label)
        /\ frames' = [frames EXCEPT ![Len(frames)].u = u + 1]
        /\ pending' = <<item.value>>

\* A comma, unless this is the first item, then the item.
NextItem(item, label) ==
    LET u     == Last(frames).u
        comma == IF u = 0 THEN <<>> ELSE <<Mark(",")>>
    IN  \/ item.error # OK /\ FailsAfter(comma, item.error)
        \/ /\ item.error = OK
           /\ \/ /\ Outputs(comma \o label)
                 /\ frames' = [frames EXCEPT ![Len(frames)].u = u + 1]
                 /\ pending' = <<item.value>>
              \/ CallbackFails(comma \o label)

\* Mutant: the last item is left out.
HasNext_NotLast == Last(frames).u + 1 < Last(frames).analysis.count

HasNext == Last(frames).u < Last(frames).analysis.count

NextElement ==
    /\ In(IsArray)
    /\ HasNext
    /\ NextItem(ArrayGetIndex(doc, Last(frames).analysis, Last(frames).u), <<>>)

KeyTokens(d, item) == <<Token("string", Bytes(d, item.key)), Mark(":")>>

NextMember ==
    LET item == ObjectGetIndex(doc, Last(frames).analysis, Last(frames).u)
    IN  /\ In(IsObject)
        /\ HasNext
        /\ NextItem(item, IF item.error # OK THEN <<>> ELSE KeyTokens(doc, item))

Close(bracket) ==
    /\ Last(frames).u = Last(frames).analysis.count
    /\ \/ /\ Outputs(<<Mark(bracket)>>)
          /\ frames' = Front(frames)
          /\ UNCHANGED pending
       \/ CallbackFails(<<Mark(bracket)>>)

CloseArray  == In(IsArray)  /\ Close("]")
CloseObject == In(IsObject) /\ Close("}")

Converted ==
    /\ outcome = "running"
    /\ pending = <<>> /\ frames = <<>>
    /\ outcome' = OK
    /\ UNCHANGED <<doc, frames, pending, output>>

ConvertNext ==
    \/ ConvertNothing \/ ConvertScalar
    \/ OpenArray \/ NextElement \/ CloseArray
    \/ OpenObject \/ NextMember \/ CloseObject
    \/ Converted

ConvertSpec == ConvertInit /\ [][ConvertNext]_convert_vars

-----------------------------------------------------------------------------
(***************************************************************************)
(* The JSON of a value, as if nothing could stop the conversion; a value   *)
(* that cannot be converted leaves a mark with its error.                  *)
(***************************************************************************)
OrError(x, tokens) == IF x.error # OK THEN <<Mark(x.error)>> ELSE tokens

\* The item of the frame's container behind the first u, with its comma.
ItemJson(d, json, frame, u) ==
    LET a     == frame.analysis
        item  == IF IsArray(TypeOf(d, frame.value))
                 THEN ArrayGetIndex(d, a, u) ELSE ObjectGetIndex(d, a, u)
        key   == IF IsArray(TypeOf(d, frame.value)) THEN <<>> ELSE KeyTokens(d, item)
        comma == IF u = 0 THEN <<>> ELSE <<Mark(",")>>
    IN  comma \o OrError(item, key \o json[item.value])

\* What is left of the frame's container.
RestJson(d, json, frame) ==
    FlattenSeq([z \in 1..(frame.analysis.count - frame.u) |->
                  ItemJson(d, json, frame, frame.u + z - 1)])
      \o <<Mark(IF IsArray(TypeOf(d, frame.value)) THEN "]" ELSE "}")>>

ContainerJson(d, json, v, bracket, a) ==
    OrError(a, <<Mark(bracket)>>
                 \o RestJson(d, json, [value |-> v, analysis |-> a, u |-> 0]))

\* The JSON of the value v, when json has that of the smaller ones.
ValueJson(d, json, v) ==
    LET scalar == Scalar(d, v)
    IN  IF v.size = 0 THEN <<Mark("parameter_is_zero")>>
        ELSE CASE IsArray(TypeOf(d, v))  -> ContainerJson(d, json, v, "[", ArrayAnalyze(d, v))
               [] IsObject(TypeOf(d, v)) -> ContainerJson(d, json, v, "{", ObjectAnalyze(d, v))
               [] OTHER                  -> OrError(scalar, <<scalar.token>>)

Parts(d) == {v \in [buffer : 0..Len(d), size : 0..Len(d)] : SliceEnd(v) <= Len(d)}

Jsons(d) ==
    LET json[v \in Parts(d)] == ValueJson(d, json, v)
    IN  json

Json == Jsons(doc)[Root(doc)]

BeginningOf(json) ==
    /\ IsPrefix(output, json)
    /\ outcome = OK => output = json
    /\ outcome \in FileErrors => json[Len(output) + 1] = Mark(outcome)

(***************************************************************************)
(* What the callback has been given is at every moment the beginning of    *)
(* the document's JSON; it is all of it when the conversion succeeds, and  *)
(* stops just where something cannot be read when it does not.             *)
(***************************************************************************)
OutputCorrect == BeginningOf(Json)

\* v is a part of the slice w other than its first byte.
Inside(v, w) == w.buffer < v.buffer /\ SliceEnd(v) <= SliceEnd(w)

Tiles(Get(_), count, end) ==
    \A i \in 0..(count - 1) :
      Get(i).error = OK =>
        IF i = count - 1 THEN SliceEnd(Get(i).value) = end
        ELSE Get(i + 1).error = OK => Get(i + 1).value.buffer = SliceEnd(Get(i).value)

ItemsTile(v, a) ==
    IF IsArray(TypeOf(doc, v))
    THEN Tiles(LAMBDA i : ArrayGetIndex(doc, a, i), a.count, SliceEnd(v))
    ELSE Tiles(LAMBDA i : ObjectGetIndex(doc, a, i), a.count, SliceEnd(v))

(***************************************************************************)
(* Whatever the bytes of the document are, every value that the conversion *)
(* enters lies inside the container it is in, and that inside the document. *)
(* The items of a container do not overlap and leave nothing out, whatever *)
(* offsets its index holds: those that can be read follow one another, and *)
(* the last one ends where the container ends.                             *)
(***************************************************************************)
ValuesInside ==
    LET values == [f \in DOMAIN frames |-> frames[f].value] \o pending IN
    /\ \A i \in DOMAIN values :
         /\ i = 1 => values[i] = Root(doc)
         /\ i > 1 => Inside(values[i], values[i - 1]) /\ values[i].size > 0
    /\ \A f \in DOMAIN frames : ItemsTile(frames[f].value, frames[f].analysis)
=============================================================================
