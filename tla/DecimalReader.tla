--------------------------- MODULE DecimalReader ---------------------------
(***************************************************************************)
(* Converting an encoded decimal to JSON (lib/reader/decimal.c).           *)
(*                                                                         *)
(* A value is its type, and the bytes behind the type byte.  A decimal     *)
(* with an exponent starts with the length of the exponent less one, and   *)
(* exponent and mantissa follow; one without an exponent is a mantissa.    *)
(* The words of a part are printed from the last one to the first, one     *)
(* call of the callback each; the callback may fail.  The bytes may be     *)
(* those of a damaged file.                                                *)
(***************************************************************************)
EXTENDS DecimalForm

CONSTANT DecimalValues      \* the values that are converted

ASSUME DecimalValuesAssumption ==
    \A v \in DecimalValues :
        v.integer \in BOOLEAN /\ v.width \in Width /\ v.bytes \in Seq(Nat)

VARIABLES
    value,          \* [integer, negative, exponent_negative, width, bytes]
    reader_pc,
    mantissa,       \* the place of the mantissa: its start, and what is behind it
    exponent,       \* that of the exponent
    word_start,     \* the word of the part that was printed last
    output,         \* the characters that the callback has accepted
    error

reader_vars == <<value, reader_pc, mantissa, exponent, word_start, output, error>>

NoError == "ok"
FormatError == "file_format_error"

PartAt(start, end) == [start |-> start, end |-> end]
ValueBytes == value.bytes
ValueEnd == Len(ValueBytes) + 1

ReadMinimalInt(start, end) ==
    FoldRight(LAMBDA byte, sum : sum * Base + byte, SubSeq(ValueBytes, start, end - 1), 0)

ReaderInit ==
    /\ value \in DecimalValues
    /\ reader_pc = "start"
    /\ mantissa = PartAt(1, 1)
    /\ exponent = PartAt(1, 1)
    /\ word_start = 0
    /\ output = <<>>
    /\ error = NoError

Fail(reason) ==
    /\ reader_pc' = "failed"
    /\ error' = reason
    /\ UNCHANGED <<value, mantissa, exponent, word_start, output>>

-----------------------------------------------------------------------------
(***************************************************************************)
(* Where the parts are.                                                    *)
(***************************************************************************)

LengthSize == 2 ^ value.width
RawLength  == ReadMinimalInt(1, 1 + LengthSize)

\* Mutant: nothing is left for a mantissa, and the length may be one too large.
LengthFits_Exactly ==
    /\ ValueBytes # <<>>
    /\ LengthSize + 1 <= Len(ValueBytes)
    /\ RawLength \in 0..SizeMax - 1
    /\ RawLength <= Len(ValueBytes) - LengthSize

\* A length, an exponent of that length, and a byte for the mantissa.
LengthFits ==
    /\ ValueBytes # <<>>
    /\ LengthSize + 1 <= Len(ValueBytes)
    /\ RawLength \in 0..SizeMax - 1
    /\ RawLength + 1 <= Len(ValueBytes) - LengthSize - 1

Analyze ==
    /\ reader_pc = "start" /\ ~value.integer /\ LengthFits
    /\ exponent' = PartAt(LengthSize + 1, LengthSize + 1 + RawLength + 1)
    /\ mantissa' = PartAt(exponent'.end, ValueEnd)
    /\ reader_pc' = "sign"
    /\ UNCHANGED <<value, word_start, output, error>>

AnalyzeFails ==
    /\ reader_pc = "start" /\ ~value.integer /\ ~LengthFits
    /\ Fail(FormatError)

AnalyzeInteger ==
    /\ reader_pc = "start" /\ value.integer
    /\ mantissa' = PartAt(1, ValueEnd)
    /\ reader_pc' = "sign"
    /\ UNCHANGED <<value, exponent, word_start, output, error>>

-----------------------------------------------------------------------------
(***************************************************************************)
(* Printing: the pieces in their order.                                    *)
(***************************************************************************)

\* Call the callback with a piece, unless it is an empty sign, and go on.
Callback(chars, next) ==
    /\ output' = output \o chars
    /\ reader_pc' = next
    /\ UNCHANGED <<value, mantissa, exponent, error>>

PrintSign ==
    /\ reader_pc = "sign"
    /\ Callback(IF value.negative THEN <<Minus>> ELSE <<>>, "mantissa")
    /\ UNCHANGED word_start

\* Only an integer may have no bytes.
PrintZero ==
    /\ reader_pc = "mantissa" /\ value.integer /\ ValueBytes = <<>>
    /\ Callback(<<0>>, "done")
    /\ UNCHANGED word_start

CurrentPart == IF reader_pc \in {"mantissa", "mantissa_words"} THEN mantissa ELSE exponent

WordsOfPart == IF reader_pc = "mantissa" THEN "mantissa_words" ELSE "exponent_words"

\* The digits of a number that is not 0.
Str(n) ==
    LET len == CHOOSE k \in 1..WordDigits + 1 : 10 ^ (k - 1) <= n /\ n < 10 ^ k IN
    [k \in 1..len |-> (n \div 10 ^ (len - k)) % 10]

\* A place more than a word has digits.
StrPadded(n) == [k \in 1..WordDigits + 1 |-> (n \div 10 ^ (WordDigits + 1 - k)) % 10]

\* Mutant: a last word that is full is taken for an empty one.
LastWordSize_Modulo(part) == (part.end - part.start) % WordBytes

LastWordSize(part) == ((part.end - part.start - 1) % WordBytes) + 1

LastWord == ReadMinimalInt(CurrentPart.end - LastWordSize(CurrentPart), CurrentPart.end)

\* Only the integer without bytes has no last word.
AtLastWord ==
    /\ reader_pc \in {"mantissa", "exponent"}
    /\ ~(reader_pc = "mantissa" /\ value.integer /\ ValueBytes = <<>>)

PrintLastWord ==
    /\ AtLastWord /\ LastWord <= WordLimit - 2
    /\ word_start' = CurrentPart.end - LastWordSize(CurrentPart)
    /\ Callback(Str(LastWord + 1), WordsOfPart)

LastWordFails ==
    /\ AtLastWord /\ LastWord > WordLimit - 2
    /\ Fail(FormatError)

AtWord == reader_pc \in {"mantissa_words", "exponent_words"} /\ word_start > CurrentPart.start

Word == ReadMinimalInt(word_start - WordBytes, word_start)

PrintWord ==
    /\ AtWord /\ Word <= WordLimit - 1
    /\ word_start' = word_start - WordBytes
    /\ Callback(StrPadded(Word), reader_pc)

WordFails ==
    /\ AtWord /\ Word > WordLimit - 1
    /\ Fail(FormatError)

PartPrinted ==
    /\ reader_pc \in {"mantissa_words", "exponent_words"} /\ word_start <= CurrentPart.start
    /\ reader_pc' = IF reader_pc = "exponent_words" \/ value.integer THEN "done" ELSE "e"
    /\ UNCHANGED <<value, mantissa, exponent, word_start, output, error>>

PrintExp ==
    /\ reader_pc = "e"
    /\ Callback(<<Exp>>, "exponent_sign")
    /\ UNCHANGED word_start

PrintExponentSign ==
    /\ reader_pc = "exponent_sign"
    /\ Callback(IF value.exponent_negative THEN <<Minus>> ELSE <<>>, "exponent")
    /\ UNCHANGED word_start

\* Wherever the callback is called it may fail.
CallbackFails ==
    /\ \/ reader_pc = "sign" /\ value.negative
       \/ reader_pc = "mantissa" /\ value.integer /\ ValueBytes = <<>>
       \/ AtLastWord /\ LastWord <= WordLimit - 2
       \/ AtWord /\ Word <= WordLimit - 1
       \/ reader_pc = "e"
       \/ reader_pc = "exponent_sign" /\ value.exponent_negative
    /\ Fail("callback")

ReaderNext ==
    \/ Analyze \/ AnalyzeFails \/ AnalyzeInteger
    \/ PrintSign \/ PrintZero \/ PrintLastWord \/ LastWordFails \/ PrintWord \/ WordFails
    \/ PartPrinted \/ PrintExp \/ PrintExponentSign \/ CallbackFails

ReaderSpec == ReaderInit /\ [][ReaderNext]_reader_vars

FairReaderSpec == ReaderSpec /\ WF_reader_vars(ReaderNext)

-----------------------------------------------------------------------------
(***************************************************************************)
(* What README.md says of the bytes.                                       *)
(***************************************************************************)

\* The words of a part, most significant first, the last one restored.
PartWords(part) ==
    LET count == (part.end - part.start + WordBytes - 1) \div WordBytes
        At(k) == part.start + (k - 1) * WordBytes IN
    [k \in 1..count |->
        IF k = 1 THEN ReadMinimalInt(At(count), part.end) + 1
                 ELSE ReadMinimalInt(At(count - k + 1), At(count - k + 2))]

InRange(part) == \A k \in DOMAIN PartWords(part) : PartWords(part)[k] \in 0..WordLimit - 1

\* A word that is not the first one of its part, with all of its places.
Padded(word) == [k \in 1..WordDigits |-> (word \div 10 ^ (WordDigits - k)) % 10]

PartText(part) ==
    Str(PartWords(part)[1])
    \o FlattenSeq([k \in 1..Len(PartWords(part)) - 1 |-> Padded(PartWords(part)[k + 1])])

SignText(negative) == IF negative THEN <<Minus>> ELSE <<>>

\* The parts of the value, if its length is inside it.
ExponentPart ==
    IF value.integer THEN PartAt(1, 1) ELSE PartAt(LengthSize + 1, LengthSize + 1 + RawLength + 1)

MantissaPart == PartAt(ExponentPart.end, ValueEnd)

HasParts ==
    \/ value.integer
    \/ Len(ValueBytes) >= LengthSize /\ ExponentPart.end <= ValueEnd

\* What a value the words of which are in range stands for.
Text ==
    SignText(value.negative)
    \o (IF MantissaPart.start = ValueEnd THEN <<0>>
        ELSE PartText(MantissaPart)
             \o (IF value.integer THEN <<>>
                 ELSE <<Exp>> \o SignText(value.exponent_negative) \o PartText(ExponentPart)))

Legal == HasParts /\ InRange(MantissaPart) /\ InRange(ExponentPart)

OneWordParts == {MantissaPart.end - MantissaPart.start, ExponentPart.end - ExponentPart.start}
                  \subseteq 0..WordBytes

WithoutZeros(chars) == SelectSeq(chars, LAMBDA char : char # 0)

-----------------------------------------------------------------------------
(***************************************************************************)
(* Properties                                                              *)
(***************************************************************************)

(***************************************************************************)
(* Whatever the bytes are, the parts and every word that is read are       *)
(* inside the value, and the parts fill it.                                *)
(***************************************************************************)
PartsInside ==
    /\ reader_pc \notin {"none", "start", "failed"} =>
        /\ mantissa.end = ValueEnd /\ mantissa.start <= ValueEnd
        /\ ~value.integer => LengthSize < exponent.start /\ exponent.end = mantissa.start
        /\ ~value.integer => exponent.start < exponent.end /\ mantissa.start < mantissa.end
    /\ reader_pc \in {"mantissa_words", "exponent_words"} =>
        /\ CurrentPart.start <= word_start
        /\ (word_start - CurrentPart.start) % WordBytes = 0

(***************************************************************************)
(* What is printed for a value is what README.md says of its words, but    *)
(* for the zeros in parts of several words (WordsPadded is about those);   *)
(* and so is what is refused: values the length of which is not inside     *)
(* them, and words that are out of range, but also values that have an     *)
(* exponent and no mantissa, which README.md takes for 0.                  *)
(***************************************************************************)
PrintsReadme ==
    /\ reader_pc = "done" =>
        /\ Legal
        /\ OneWordParts => output = Text
        /\ WithoutZeros(output) = WithoutZeros(Text)
    /\ reader_pc = "failed" /\ error = FormatError =>
        ~Legal \/ (~value.integer /\ MantissaPart.start = ValueEnd)

(***************************************************************************)
(* "The value of the mantissa and exponent are equal to the zero-padded    *)
(* decimal representations of each integer" (README.md), which is an       *)
(* integer below 10 ^ WordDigits: every word but the first one of a part   *)
(* is printed with WordDigits places.                                      *)
(***************************************************************************)
WordsPadded == reader_pc = "done" => output = Text

\* A conversion ends, with the text or with an error.
ReaderAnswered == reader_pc \in {"done", "failed"}
=============================================================================
