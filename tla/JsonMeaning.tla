---------------------------- MODULE JsonMeaning ----------------------------
(***************************************************************************)
(* What a text that was parsed means: the tokens of the value that the     *)
(* parser has added, next to those of the text.                            *)
(***************************************************************************)
EXTENDS JsonParser

\* The tokens of a value of a document.
ScalarToken(payload) ==
    LET type == payload[1] IN
    CASE type = NullType    -> Token(Null[1], <<>>)
      [] type = FalseType   -> Token(False[1], <<>>)
      [] type = TrueType    -> Token(True[1], <<>>)
      [] type = StringType  -> Token(Quote, Tail(payload))
      [] type = DecimalType -> Token(Zero, Tail(payload))

RECURSIVE Printed(_)
Printed(value) ==
    LET Listed(items, Item(_)) ==
            FlattenSeq([k \in DOMAIN items |->
                (IF k = 1 THEN <<>> ELSE <<Token(Comma, <<>>)>>) \o Item(items[k])])
        Member(m) == <<Token(Quote, m.key), Token(Colon, <<>>)>> \o Printed(m.value)
        Bracketed(left, tokens, right) == <<Token(left, <<>>)>> \o tokens \o <<Token(right, <<>>)>>
    IN  IF "scalar" \in DOMAIN value THEN <<ScalarToken(value.scalar)>>
        ELSE IF "array" \in DOMAIN value
        THEN Bracketed(OpenSquare, Listed(value.array, Printed), CloseSquare)
        ELSE Bracketed(OpenCurly, Listed(value.object, Member), CloseCurly)

\* What the call has added.
Given ==
    IF before = <<>> THEN root[1]
    ELSE IF Last(open).kind = "array" THEN Last(Last(open).items)
    ELSE Last(Last(open).items).value

Consumed == SubSeq(json, 1, pos - 1)

-----------------------------------------------------------------------------
(***************************************************************************)
(* Properties                                                              *)
(***************************************************************************)

(***************************************************************************)
(* What the writer has been told is what the text says: when the text is   *)
(* taken, the tokens up to where the parser stopped are those of the value *)
(* that was added, and they are a value of JSON.  The reference divides    *)
(* strings by counting backslashes where the parser looks for the next     *)
(* quote and the next escape, and balances brackets where the parser       *)
(* counts them and asks the writer.  Numbers may lack digits (the encoder  *)
(* of decimals takes none for 0), and surrogates are PairsCombined's.      *)
(***************************************************************************)
DocumentSaysText ==
    parsed = "ok" /\ ~HasPair(json) =>
        LET tokens == Tokens(Consumed, IsLenientNumber) IN
        IsValue(tokens) /\ Printed(Given) = tokens

(***************************************************************************)
(* "This is the first of a surrogate pair, so we must also parse the       *)
(* second half so we can combine them into a single codepoint"             *)
(* (lib/writer/parse.c:112): the character that is added is the one that   *)
(* the two stand for.                                                      *)
(***************************************************************************)
PairsCombined ==
    parsed = "ok" => Printed(Given) = Tokens(Consumed, IsLenientNumber)
=============================================================================
