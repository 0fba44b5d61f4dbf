----------------------------- MODULE JsonParser -----------------------------
(***************************************************************************)
(* Parsing JSON (bijson_parse_json in lib/writer/parse.c).                 *)
(*                                                                         *)
(* The parser goes through the text once, without a stack of its own: it   *)
(* counts the containers it has opened, and asks the writer what the       *)
(* innermost one is.  The writer is the one of Document, which             *)
(* WriterDocument shows the code to implement, for decimals that are       *)
(* counted right.  Each action goes up to one call of the writer.  The     *)
(* call of the parser may be inside containers that were opened before.    *)
(* A call of the writer may fail for lack of memory: most calls cost the   *)
(* document then, an append leaves it as it was.                           *)
(*                                                                         *)
(* When the text is refused, pos is somewhere in what was refused.         *)
(***************************************************************************)
EXTENDS JsonText, DecimalForm

CONSTANT JsonCalls      \* the calls: a text, and the containers that are open

\* A container of Document: what has been added to it, and its pending key.
IsFrame(frame) ==
    /\ frame = [kind |-> frame.kind, items |-> frame.items, key |-> frame.key]
    /\ frame.items \in Seq(Range(frame.items))

ASSUME JsonCallsAssumption ==
    \A call \in JsonCalls :
        /\ call.open \in Seq(Range(call.open))
        /\ \A k \in 1..Len(call.open) : IsFrame(call.open[k])

VARIABLES
    json,           \* the text
    before,         \* the containers that were open at the call
    pos,            \* the place of the next byte
    nesting,        \* how many containers the parser has opened
    quote,          \* in a string with escapes: the next quote
    parser_pc,      \* value, array and object (behind the bracket), key, string,
                    \* escape, string_end, colon, after (a value), done
    parsed,         \* running, ok, refused, or failed
    root, open, added, broken, answer       \* the writer: see Document

writer_vars == <<root, open, added, broken, answer>>
parser_vars == <<json, before, pos, nesting, quote, parser_pc, parsed, writer_vars>>

Doc == INSTANCE Document WITH text <- added, Payloads <- {}, Keys <- {}, TextTypes <- {}

ParserInit ==
    /\ \E call \in JsonCalls : json = call.text /\ before = call.open
    /\ pos = 1 /\ nesting = 0 /\ quote = 0
    /\ parser_pc = "value" /\ parsed = "running"
    /\ root = <<>> /\ open = before /\ added = <<>> /\ broken = FALSE /\ answer = "ok"

\* The next byte that is not whitespace.
NextPlace == Past(json, pos, Whitespace)
AtEnd   == NextPlace > Len(json)
NextIs(chars) == ~AtEnd /\ json[NextPlace] \in chars

At(pc) == parser_pc = pc

Go(pc, place) == parser_pc' = pc /\ pos' = place /\ parsed' = parsed

Stop(result, place) == parser_pc' = "done" /\ pos' = place /\ parsed' = result

\* The parser returns without another call of the writer ...
Refuse(place) ==
    /\ Stop("refused", place)
    /\ UNCHANGED <<nesting, quote, writer_vars>>

\* ... or because of a call of the writer that has failed.
WriterFails ==
    /\ At("value") => Doc!ValueExpected
    /\ Doc!Break
    /\ Stop("failed", pos)
    /\ UNCHANGED <<nesting, quote>>

-----------------------------------------------------------------------------
(***************************************************************************)
(* Values.                                                                 *)
(***************************************************************************)

TextEnds ==
    /\ parser_pc \in {"value", "array", "object", "key", "colon", "after"}
    /\ At("after") => nesting # 0
    /\ AtEnd
    /\ Refuse(pos)

BeginArray ==
    /\ At("value") /\ NextIs({OpenSquare})
    /\ \/ Doc!Begin("array") /\ Go("array", NextPlace + 1) /\ UNCHANGED <<nesting, quote>>
       \/ WriterFails

EmptyArray ==
    /\ At("array") /\ NextIs({CloseSquare})
    /\ Doc!EndArray /\ Go("after", NextPlace + 1)
    /\ UNCHANGED <<nesting, quote>>

\* Mutant: only what is in objects is counted.
FirstItem_NotCounted ==
    /\ At("array") /\ ~AtEnd /\ ~NextIs({CloseSquare})
    /\ Go("value", NextPlace)
    /\ UNCHANGED <<nesting, quote, writer_vars>>

FirstItem ==
    /\ At("array") /\ ~AtEnd /\ ~NextIs({CloseSquare})
    /\ nesting' = nesting + 1
    /\ Go("value", NextPlace)
    /\ UNCHANGED <<quote, writer_vars>>

BeginObject ==
    /\ At("value") /\ NextIs({OpenCurly})
    /\ \/ Doc!Begin("object") /\ Go("object", NextPlace + 1) /\ UNCHANGED <<nesting, quote>>
       \/ WriterFails

EmptyObject ==
    /\ At("object") /\ NextIs({CloseCurly})
    /\ Doc!EndObject /\ Go("after", NextPlace + 1)
    /\ UNCHANGED <<nesting, quote>>

FirstMember ==
    /\ At("object") /\ ~AtEnd /\ ~NextIs({CloseCurly})
    /\ nesting' = nesting + 1
    /\ Go("key", NextPlace)
    /\ UNCHANGED <<quote, writer_vars>>

\* Mutant: the comparison of true for all literals.
LiteralFits_NotAtEnd(word, place) == place + Len(word) <= Len(json)

\* Behind true there has to be another byte.
LiteralFits(word, place) ==
    IF word = True THEN place + Len(word) <= Len(json)
                   ELSE place + Len(word) <= Len(json) + 1

Literals == {[word |-> True, type |-> TrueType], [word |-> False, type |-> FalseType],
             [word |-> Null, type |-> NullType]}

AddLiteral ==
    \E literal \in Literals :
        /\ At("value") /\ NextIs({literal.word[1]})
        /\ IF /\ LiteralFits(literal.word, NextPlace)
              /\ SubSeq(json, NextPlace, NextPlace + Len(literal.word) - 1) = literal.word
           THEN \/ /\ Doc!AddScalar(<<literal.type>>)
                   /\ Go("after", NextPlace + Len(literal.word))
                   /\ UNCHANGED <<nesting, quote>>
                \/ WriterFails
           ELSE Refuse(NextPlace)

NumberStarts == DigitChars \cup {MinusSign}

\* Behind the number at i, 0 when the text ends where a digit is missing.
NumberEnd(i) ==
    LET digits   == IF json[i] = MinusSign THEN i + 1 ELSE i
        whole    == IF Has(json, digits, {Zero}) THEN digits + 1 ELSE Past(json, digits, DigitChars)
        pointed  == Has(json, whole, {Dot})
        fraction == IF pointed THEN Past(json, whole + 1, DigitChars) ELSE whole
        raised   == Has(json, fraction, ExpChars)
        signed   == raised /\ Has(json, fraction + 1, {MinusSign, PlusSign})
        power    == fraction + (IF signed THEN 2 ELSE 1)
    IN  IF \/ digits > Len(json)
           \/ pointed /\ whole = Len(json)
           \/ raised /\ power > Len(json)
        THEN 0
        ELSE IF raised THEN Past(json, power, DigitChars) ELSE fraction

\* As the encoder of decimals sees the characters of a number.
DecimalChar(c) ==
    CASE c \in DigitChars -> c - Zero
      [] c = MinusSign -> Minus
      [] c = PlusSign -> Plus
      [] c = Dot -> Point
      [] c \in ExpChars -> Exp
      [] OTHER -> Other

AddNumber ==
    /\ At("value") /\ NextIs(NumberStarts)
    /\ LET end == NumberEnd(NextPlace)
           number == SubSeq(json, NextPlace, end - 1) IN
       IF end = 0 THEN Refuse(NextPlace)
       ELSE IF ~AnalyzeString([k \in DOMAIN number |-> DecimalChar(number[k])]).valid
       THEN Doc!ValueExpected /\ Doc!Break /\ Stop("refused", end) /\ UNCHANGED <<nesting, quote>>
       ELSE \/ /\ Doc!AddScalar(<<DecimalType>> \o number)
               /\ Go("after", end)
               /\ UNCHANGED <<nesting, quote>>
            \/ WriterFails

\* What does not start a value, or the writer expects none.
NoValue ==
    /\ At("value")
    /\ ~AtEnd
    /\ \/ ~NextIs({OpenSquare, OpenCurly, Quote, True[1], False[1], Null[1]} \cup NumberStarts)
       \/ ~Doc!ValueExpected
    /\ Refuse(NextPlace)

-----------------------------------------------------------------------------
(***************************************************************************)
(* Strings and keys.                                                       *)
(***************************************************************************)

\* The first place of a byte in from..to-1, 0 if there is none.
Find(char, from, to) ==
    LET found == {k \in from..to-1 : json[k] = char} IN
    IF found = {} THEN 0 ELSE Min(found)

NextQuote(from) == Find(Quote, from, Len(json) + 1)

HasControl(from, to) == \E k \in from..to-1 : json[k] < Space

\* Added in one go when there are no escapes.
AddString(use, chars, end) ==
    IF ~ValidString(chars) THEN Refuse(end)
    ELSE \/ /\ IF use = "key" THEN Doc!SetKey(chars) ELSE Doc!AddScalar(<<StringType>> \o chars)
            /\ Go(IF use = "key" THEN "colon" ELSE "after", end)
            /\ UNCHANGED <<nesting, quote>>
         \/ WriterFails

String(use) ==
    LET start  == NextPlace + 1
        end    == NextQuote(start)
        escape == Find(Backslash, start, end) IN
    IF end = 0 THEN Refuse(NextPlace)
    ELSE IF escape = 0
    THEN IF HasControl(start, end) THEN Refuse(NextPlace)
         ELSE AddString(use, SubSeq(json, start, end - 1), end + 1)
    ELSE \/ /\ Doc!BeginText(use, IF use = "key" THEN <<>> ELSE <<StringType>>)
            /\ quote' = end
            /\ Go("string", start)
            /\ UNCHANGED nesting
         \/ WriterFails

StringValue == At("value") /\ NextIs({Quote}) /\ String("scalar")

Key == At("key") /\ NextIs({Quote}) /\ String("key")

NoKey == At("key") /\ ~AtEnd /\ ~NextIs({Quote}) /\ Refuse(NextPlace)

HexAt(i) == \A k \in 2..5 : json[i + k] \in HexDigits
HexUnit(i) == FoldLeft(LAMBDA sum, c : sum * 16 + HexValue(c), 0, SubSeq(json, i + 2, i + 5))

\* Masks and shifts.
Utf8Bytes(unichar) ==
    LET Six(shift) == 128 + ((unichar \div 2 ^ shift) % 64) IN
    CASE unichar <= 127   -> <<unichar>>
      [] unichar \in 128..2047 -> <<192 + ((unichar \div 64) % 32), Six(0)>>
      [] unichar \in 2048..65535 -> <<224 + ((unichar \div 4096) % 16), Six(6), Six(0)>>
      [] OTHER -> <<240 + ((unichar \div 262144) % 8), Six(12), Six(6), Six(0)>>

\* The escape at i: its bytes and where it ends, or nothing.
EscapeAt(i) ==
    LET left == Len(json) + 1 - i
        single == SelectSeq(Escapes, LAMBDA e : e.char = json[i + 1])
        Escape(bytes, length) == <<[bytes |-> bytes, end |-> i + length]>> IN
    IF left < 2 THEN <<>>
    ELSE IF single # <<>> THEN Escape(<<single[1].stands>>, 2)
    ELSE IF json[i + 1] # 117 \/ left < 6 THEN <<>>
    ELSE IF ~HexAt(i) THEN <<>>
    ELSE IF HexUnit(i) \div 1024 # 54 THEN Escape(Utf8Bytes(HexUnit(i)), 6)
    ELSE IF left < 12 THEN <<>>
    ELSE IF json[i + 6] # Backslash \/ json[i + 7] # 117 \/ ~HexAt(i + 6) THEN <<>>
    ELSE IF HexUnit(i + 6) \div 1024 # 55 THEN <<>>
    ELSE Escape(Utf8Bytes((HexUnit(i) % 1024) * 1024 + (HexUnit(i + 6) % 1024)), 12)

Collect(chars) ==
    /\ added' = <<[added[1] EXCEPT !.chars = @ \o chars]>>
    /\ Doc!AppendText
    /\ UNCHANGED nesting

\* Mutant: the quote that was found first.
QuoteBehind_First(place) == quote

\* The quote that was found may be one that is escaped.
QuoteBehind(place) == IF quote < place THEN NextQuote(place) ELSE quote

\* An append that fails leaves the string or key open, as it was.
AppendFails(chars) ==
    /\ chars # <<>>
    /\ Doc!Refuse
    /\ Stop("failed", pos)
    /\ UNCHANGED <<nesting, quote>>

\* What is in front of the next escape ...
AppendChunk ==
    LET escape == Find(Backslash, pos, quote)
        chunk  == SubSeq(json, pos, escape - 1) IN
    /\ At("string") /\ escape # 0
    /\ IF HasControl(pos, escape) THEN Refuse(pos)
       ELSE \/ Collect(chunk) /\ Go("escape", escape) /\ UNCHANGED quote
            \/ AppendFails(chunk)

\* ... the escape itself ...
AppendEscape ==
    LET decoded == EscapeAt(pos) IN
    /\ At("escape")
    /\ IF decoded = <<>> THEN Refuse(pos)
       ELSE \/ /\ Collect(decoded[1].bytes)
               /\ quote' = QuoteBehind(decoded[1].end)
               /\ IF quote' = 0 THEN Stop("refused", decoded[1].end)
                                ELSE Go("string", decoded[1].end)
            \/ AppendFails(decoded[1].bytes)

\* ... and what is behind the last one.
AppendRest ==
    LET rest == SubSeq(json, pos, quote - 1) IN
    /\ At("string") /\ Find(Backslash, pos, quote) = 0
    /\ IF HasControl(pos, quote) THEN Refuse(quote + 1)
       ELSE \/ Collect(rest) /\ Go("string_end", quote + 1) /\ UNCHANGED quote
            \/ AppendFails(rest)

\* The writer checks what was collected, without the type byte of a string.
EndString ==
    /\ At("string_end")
    /\ IF added[1].use = "key"
       THEN /\ ValidString(added[1].chars)
            /\ Doc!EndKey /\ Go("colon", pos) /\ UNCHANGED <<nesting, quote>>
       ELSE /\ ValidString(Tail(added[1].chars))
            /\ Doc!EndScalar /\ Go("after", pos) /\ UNCHANGED <<nesting, quote>>

StringInvalid ==
    /\ At("string_end")
    /\ ~ValidString(IF added[1].use = "key" THEN added[1].chars ELSE Tail(added[1].chars))
    /\ Doc!Break
    /\ Stop("refused", pos)
    /\ UNCHANGED <<nesting, quote>>

SkipColon ==
    /\ At("colon") /\ ~AtEnd
    /\ IF NextIs({Colon}) THEN Go("value", NextPlace + 1) /\ UNCHANGED <<nesting, quote, writer_vars>>
                          ELSE Refuse(NextPlace + 1)

-----------------------------------------------------------------------------
(***************************************************************************)
(* Behind a value: the container that the writer has open says what may    *)
(* follow.                                                                 *)
(***************************************************************************)

ValueComplete ==
    /\ At("after") /\ nesting = 0
    /\ Stop("ok", pos)
    /\ UNCHANGED <<nesting, quote, writer_vars>>

Inside(kind) == At("after") /\ nesting # 0 /\ Last(open).kind = kind /\ ~AtEnd

CloseContainer(kind, bracket, End) ==
    /\ Inside(kind) /\ NextIs({bracket})
    /\ End
    /\ nesting' = nesting - 1
    /\ Go("after", NextPlace + 1)
    /\ UNCHANGED quote

CloseArray  == CloseContainer("array", CloseSquare, Doc!EndArray)
CloseObject == CloseContainer("object", CloseCurly, Doc!EndObject)

Separated(kind, next, bracket) ==
    /\ Inside(kind) /\ ~NextIs({bracket})
    /\ IF NextIs({Comma}) THEN Go(next, NextPlace + 1) /\ UNCHANGED <<nesting, quote, writer_vars>>
                          ELSE Refuse(NextPlace + 1)

NextItem   == Separated("array", "value", CloseSquare)
NextMember == Separated("object", "key", CloseCurly)

Parse ==
    \/ TextEnds
    \/ BeginArray \/ EmptyArray \/ FirstItem
    \/ BeginObject \/ EmptyObject \/ FirstMember
    \/ AddLiteral \/ AddNumber \/ StringValue \/ NoValue
    \/ Key \/ NoKey \/ SkipColon
    \/ AppendChunk \/ AppendEscape \/ AppendRest \/ EndString \/ StringInvalid
    \/ CloseArray \/ CloseObject \/ NextItem \/ NextMember
    \/ ValueComplete

ParserNext == Parse /\ UNCHANGED <<json, before>>

ParserSpec == ParserInit /\ [][ParserNext]_parser_vars

-----------------------------------------------------------------------------
(***************************************************************************)
(* Properties                                                              *)
(***************************************************************************)

(***************************************************************************)
(* A text that is JSON is taken where the writer expects a value, and all  *)
(* of it up to whitespace at the end.  The exceptions are true without     *)
(* another byte behind it, and surrogates, which may give what is not a    *)
(* character.                                                              *)
(***************************************************************************)
AcceptsJson ==
    /\ parsed \in {"ok", "refused"}
    /\ before # <<>> => Last(before).kind = "array" \/ Last(before).key # <<>>
    /\ ~HasPair(json)
    /\ ~(Len(json) >= 4 /\ SubSeq(json, Len(json) - 3, Len(json)) = True)
    /\ IsValue(Tokens(json, IsNumber))
    => /\ parsed = "ok"
       /\ AllIn(SubSeq(json, pos, Len(json)), Whitespace)

(***************************************************************************)
(* The parser keeps to what it has opened itself: containers from before   *)
(* the call stay open and as they were, one value is added to the          *)
(* innermost one if the text is taken and none if not, and what the        *)
(* parser counts is what the writer has open (so the abort() is not        *)
(* reached).  That is also how it leaves a writer that can still be used:  *)
(* with nothing added in parts where the text was taken, and where it was  *)
(* refused or an append has failed, with its own containers still open,    *)
(* the last of which it may not have counted yet.                          *)
(***************************************************************************)
OnlyAddsItsValue ==
    ~broken =>
        LET n == Len(before)
            complete == parsed = "ok" \/ (At("after") /\ nesting = 0) IN
        /\ n <= Len(open)
        /\ \A k \in 1..n-1 : open[k] = before[k]
        /\ ~complete => root = <<>> /\ (n > 0 => open[n] = before[n])
        /\ complete =>
             /\ Len(open) = n /\ added = <<>>
             /\ IF n = 0 THEN Len(root) = 1
                ELSE root = <<>> /\ Front(open[n].items) = before[n].items
        /\ parsed = "running" =>
             Len(open) = n + nesting + (IF parser_pc \in {"array", "object"} THEN 1 ELSE 0)
        /\ parsed \in {"refused", "failed"} => Len(open) - n - nesting \in {0, 1}
=============================================================================
