------------------------------ MODULE JsonText ------------------------------
(***************************************************************************)
(* What a JSON text says: the tokens that a sequence of bytes is divided   *)
(* into, what each of them means, and which sequences of tokens are a      *)
(* value.                                                                  *)
(***************************************************************************)
EXTENDS Integers, FiniteSets, Sequences, SequencesExt

Space     == 32
Quote     == 34
PlusSign  == 43
Comma     == 44
MinusSign == 45
Dot       == 46
Slash     == 47
Zero      == 48
Nine      == 57
Colon     == 58
OpenSquare  == 91
Backslash   == 92
CloseSquare == 93
OpenCurly   == 123
CloseCurly  == 125

Whitespace == {9, 10, 13, Space}
DigitChars == Zero..Nine
ExpChars   == {69, 101}

True  == <<116, 114, 117, 101>>
False == <<102, 97, 108, 115, 101>>
Null  == <<110, 117, 108, 108>>

Punctuation == {OpenSquare, CloseSquare, OpenCurly, CloseCurly, Comma, Colon}

\* The type bytes of the scalars of a document; the digits of decimals are kept
\* as they were added.
NullType == 1
FalseType == 2
TrueType == 3
StringType == 8
DecimalType == 16

-----------------------------------------------------------------------------
(***************************************************************************)
(* Strings.                                                                *)
(***************************************************************************)

\* The quotes that may end a string that starts at i: those behind an even number
\* of backslashes.
ClosingQuotes(t, i) ==
    {j \in i+1..Len(t) :
        /\ t[j] = Quote
        /\ (j - 1 - Max({k \in i..j-1 : t[k] # Backslash})) % 2 = 0}

Escapes == <<[char |-> Quote, stands |-> Quote], [char |-> Slash, stands |-> Slash],
             [char |-> Backslash, stands |-> Backslash], [char |-> 98, stands |-> 8],
             [char |-> 102, stands |-> 12], [char |-> 110, stands |-> 10],
             [char |-> 114, stands |-> 13], [char |-> 116, stands |-> 9]>>

HexDigits == DigitChars \cup (65..70) \cup (97..102)

HexValue(c) == IF c \in DigitChars THEN c - Zero ELSE (c % 32) + 9

\* \uXXXX at i.
UnitAt(t, i) ==
    /\ i + 5 <= Len(t)
    /\ t[i] = Backslash /\ t[i+1] = 117
    /\ \A k \in 2..5 : t[i+k] \in HexDigits

Unit(t, i) == FoldLeft(LAMBDA sum, c : 16 * sum + HexValue(c), 0, SubSeq(t, i + 2, i + 5))

HighSurrogates == 55296..56319
LowSurrogates  == 56320..57343

PairAt(t, i) == /\ UnitAt(t, i) /\ Unit(t, i) \in HighSurrogates
                /\ UnitAt(t, i + 6) /\ Unit(t, i + 6) \in LowSurrogates

\* The character that two UTF-16 surrogates stand for.
Combined(high, low) == 65536 + 1024 * (high - 55296) + (low - 56320)

\* The bytes of a character in UTF-8: six bits each, from the end.
InUtf8(char) ==
    LET n == IF char < 128 THEN 1 ELSE IF char < 2048 THEN 2 ELSE IF char < 65536 THEN 3 ELSE 4
    IN  [k \in 1..n |-> (IF k > 1 THEN 128 + ((char \div 64 ^ (n - k)) % 64)
                         ELSE <<0, 192, 224, 240>>[n] + char \div 64 ^ (n - 1))]

\* Nothing that is a byte.
Bad == 256

\* The bytes that the string whose quotes are at i and at j stands for.
StringBytes(t, i, j) ==
    LET Decoded[k \in i+1..j] ==
          IF k >= j THEN <<>>
          ELSE IF t[k] # Backslash THEN <<IF t[k] < Space THEN Bad ELSE t[k]>> \o Decoded[k + 1]
          ELSE IF PairAt(t, k)
               THEN InUtf8(Combined(Unit(t, k), Unit(t, k + 6))) \o Decoded[k + 12]
          ELSE IF UnitAt(t, k) THEN InUtf8(Unit(t, k)) \o Decoded[k + 6]
          ELSE LET found == SelectSeq(Escapes, LAMBDA e : e.char = t[k + 1]) IN
               IF found = <<>> THEN <<Bad>> ELSE <<found[1].stands>> \o Decoded[k + 2]
    IN  Decoded[i + 1]

Checked(string) == INSTANCE Utf8 WITH
    Memories <- {}, bytes <- string, len <- Len(string), s <- 0, verdict <- "none"

\* The characters of UTF-8, one after the other (see the table in Utf8).  This is
\* what IsUtf8 says there; a function, for TLC evaluates its argument only once.
ValidBytes[string \in Seq(Nat)] ==
    LET From[i \in 0..Len(string)] ==
            \/ i = Len(string)
            \/ \E n \in 1..4 : /\ i + n <= Len(string)
                              /\ Checked(string)!CharacterAt(i, n)
                              /\ From[i + n]
    IN  From[0]

ValidString(string) == ValidBytes[string]

-----------------------------------------------------------------------------
(***************************************************************************)
(* Tokens: a kind, and the bytes of a string, a number or a literal.       *)
(***************************************************************************)

Token(kind, chars) == [kind |-> kind, chars |-> chars]

AllIn(chars, set) == ToSet(chars) \subseteq set

\* JSON's numbers: digits before the point, without another one behind a leading
\* zero, and digits behind the point and in the exponent.
IsNumber(chars) ==
    \E sign, point, exponent \in 0..Len(chars) :
        LET whole    == SubSeq(chars, sign + 1, point)
            fraction == SubSeq(chars, point + 1, exponent)
            power    == SubSeq(chars, exponent + 1, Len(chars)) IN
        /\ sign <= point /\ point <= exponent
        /\ SubSeq(chars, 1, sign) \in {<<>>, <<MinusSign>>}
        /\ whole # <<>> /\ AllIn(whole, DigitChars)
        /\ whole[1] = Zero => Len(whole) = 1
        /\ \/ fraction = <<>>
           \/ fraction[1] = Dot /\ Len(fraction) > 1 /\ AllIn(Tail(fraction), DigitChars)
        /\ \/ power = <<>>
           \/ \E signed \in 1..2 :
                /\ power[1] \in ExpChars /\ signed < Len(power)
                /\ signed = 2 => power[2] \in {PlusSign, MinusSign}
                /\ AllIn(SubSeq(power, signed + 1, Len(power)), DigitChars)

\* With a digit put in wherever one is missing.
Completed(chars) ==
    LET missing == {k \in 1..Len(chars) :
            /\ chars[k] \notin DigitChars
            /\ \/ k = Len(chars)
               \/ chars[k+1] \notin DigitChars \cup {PlusSign, MinusSign}}
        Filled[k \in 0..Len(chars)] ==
            IF k = 0 THEN <<>>
            ELSE Filled[k-1] \o <<chars[k]>> \o (IF k \in missing THEN <<Zero>> ELSE <<>>)
    IN  Filled[Len(chars)]

IsLenientNumber(chars) == IsNumber(Completed(chars))

\* Where a token that starts at i may end.
TokenEnds(t, i, Numeric(_)) ==
    IF t[i] \in Punctuation THEN {i}
    ELSE IF t[i] = Quote
    THEN LET ends == ClosingQuotes(t, i) IN IF ends = {} THEN {} ELSE {Min(ends)}
    ELSE {j \in i..Len(t) : \/ SubSeq(t, i, j) \in {True, False, Null}
                            \/ t[i] \in DigitChars \cup {MinusSign} /\ Numeric(SubSeq(t, i, j))}

TokenAt(t, i, j) ==
    IF t[i] \in Punctuation THEN Token(t[i], <<>>)
    ELSE IF t[i] = Quote
    THEN LET string == StringBytes(t, i, j) IN
         IF ValidString(string) THEN Token(Quote, string) ELSE Token(Bad, <<>>)
    ELSE IF SubSeq(t, i, j) \in {True, False, Null} THEN Token(t[i], <<>>)
    ELSE Token(Zero, SubSeq(t, i, j))

\* The tokens of a text, Bad at the first place that has none.
Tokens(t, Numeric(_)) ==
    LET From[i \in 1..Len(t)+1] ==
            IF i > Len(t) THEN <<>>
            ELSE IF t[i] \in Whitespace THEN From[i + 1]
            ELSE LET ends == TokenEnds(t, i, Numeric) IN
                 IF ends = {} THEN <<Token(Bad, <<>>)>>
                 ELSE <<TokenAt(t, i, Max(ends))>> \o From[Max(ends) + 1]
    IN  From[1]

-----------------------------------------------------------------------------
(***************************************************************************)
(* Values: brackets are balanced, and each token fits what is before it.   *)
(***************************************************************************)

Opening == {OpenSquare, OpenCurly}
Closing == {CloseSquare, CloseCurly}
Scalars == {Quote, Zero, True[1], False[1], Null[1]}

IsValue(tokens) ==
    LET n == Len(tokens)
        Kind(k) == tokens[k].kind
        \* How many brackets are open behind the k-th token.
        Depth(k) == Cardinality({i \in 1..k : Kind(i) \in Opening})
                    - Cardinality({i \in 1..k : Kind(i) \in Closing})
        \* The bracket that is the innermost one open in front of it.
        Innermost(k) == Kind(Max({i \in 1..k-1 : /\ Kind(i) \in Opening
                                                 /\ \A m \in i..k-1 : Depth(m) >= Depth(i)}))
        Starts(k) == Kind(k) \in Scalars \cup Opening
        Closes(k) == \/ Kind(k) = CloseSquare /\ Innermost(k) = OpenSquare
                     \/ Kind(k) = CloseCurly /\ Innermost(k) = OpenCurly
        IsKey(k) == /\ Kind(k) = Quote /\ Innermost(k) = OpenCurly
                    /\ Kind(k - 1) \in {OpenCurly, Comma}
    IN  /\ n > 0 /\ Starts(1)
        /\ Depth(n) = 0
        /\ \A k \in 1..n-1 : Depth(k) > 0
        /\ \A k \in 2..n :
             CASE Kind(k-1) = OpenSquare -> Starts(k) \/ Closes(k)
               [] Kind(k-1) = OpenCurly  -> IsKey(k) \/ Closes(k)
               [] Kind(k-1) = Comma -> IF Innermost(k) = OpenCurly THEN IsKey(k) ELSE Starts(k)
               [] Kind(k-1) = Colon -> Starts(k)
               [] Kind(k-1) \in Scalars \cup Closing ->
                    IF k > 2 /\ IsKey(k - 1) THEN Kind(k) = Colon ELSE Kind(k) = Comma \/ Closes(k)
               [] OTHER -> FALSE

\* A part of the text with two surrogates in it.
HasPair(t) == \E i \in 1..Len(t) : t[i] = Backslash /\ PairAt(t, i)
=============================================================================
