---------------------------- MODULE DecimalForm ----------------------------
(***************************************************************************)
(* Decimals: what an encoded number means (README.md, "decimal"), and how  *)
(* the code packs digits.                                                  *)
(*                                                                         *)
(* The digits of mantissa and exponent are packed into words of eight      *)
(* bytes, WordDigits digits each, the least significant word first.  The   *)
(* last word is reduced by one, and has only the bytes that it needs.  A   *)
(* packed number is a record of the full words, the last word as it is     *)
(* written, and the number of its bytes.                                   *)
(*                                                                         *)
(* Shifted, Added and Subtracted are the results of the three loops that   *)
(* pack digits; that they are is checked in DecimalDigits.                 *)
(***************************************************************************)
EXTENDS Sizes, FiniteSets, Sequences, SequencesExt

CONSTANTS
    Nibble,         \* the values of half a byte: 16 in the code
    WordDigits      \* the digits of a word: 19 in the code

WordBytes == 8

\* What a word holds is less than this, and what eight bytes hold less than that.
WordLimit == 10 ^ WordDigits
WordRange == Base ^ WordBytes

ASSUME NibbleAssumption == Nibble \in Nat \ {0, 1} /\ Base = Nibble * Nibble

ASSUME WordDigitsAssumption == WordDigits \in Nat \ {0} /\ WordLimit <= WordRange

\* The characters of a text: digits stand for themselves.
Minus == 10
Plus  == 11
Point == 12
Exp   == 13         \* e or E
Other == 14

DigitsOf(chars) == SelectSeq(chars, LAMBDA char : char # Point)

\* (Functions here and below for the sake of TLC, which evaluates the argument of
\* an operator at each of its uses.)
Number[chars \in Seq(Nat)] ==
    FoldLeft(LAMBDA sum, char : IF char = Point THEN sum ELSE sum * 10 + char, 0, chars)

StripLeft(digits) ==
    LET kept == {k \in DOMAIN digits : digits[k] # 0} IN
    IF kept = {} THEN <<>> ELSE SubSeq(digits, Min(kept), Len(digits))

StripRight(digits) ==
    LET kept == {k \in DOMAIN digits : digits[k] # 0} IN
    IF kept = {} THEN <<>> ELSE SubSeq(digits, 1, Max(kept))

\* The digits of a word, zero-padded.
WordChars(word) == [k \in 1..WordDigits |-> (word \div 10 ^ (WordDigits - k)) % 10]

\* The bounds on the sums and differences of an instance.
MaxWords == 4
MaxDigits == 10

\* The words of a number, least significant first, none above the last one that
\* is not zero.
WordsOf(n) ==
    LET used == {k \in 1..MaxWords : n \div WordLimit ^ (k - 1) > 0} IN
    [k \in used |-> (n \div WordLimit ^ (k - 1)) % WordLimit]

\* The digits of a number, none for 0.
DigitsOfNumber(n) ==
    LET len == Cardinality({k \in 1..MaxDigits : n >= 10 ^ (k - 1)}) IN
    [k \in 1..len |-> (n \div 10 ^ (len - k)) % 10]

-----------------------------------------------------------------------------
(***************************************************************************)
(* The parts of a text.                                                    *)
(***************************************************************************)

Digits == 0..9

\* The first place from i on that has none of the characters.
Past(string, i, chars) ==
    LET stops == {j \in i..Len(string) : string[j] \notin chars} IN
    IF stops = {} THEN Len(string) + 1 ELSE Min(stops)

Has(string, i, chars) == i <= Len(string) /\ string[i] \in chars

\* From the first to behind the last digit that is not zero.
Significand(string, first, point, last) ==
    LET nonzero == {j \in first..last - 1 : string[j] \in 1..9} IN
    IF nonzero = {} THEN <<point, point>> ELSE <<Min(nonzero), Max(nonzero) + 1>>

AnalyzeString(string) ==
    LET first == IF string[1] \in {Minus, Plus} THEN 2 ELSE 1
        point == Past(string, first, Digits)
        last == IF Has(string, point, {Point}) THEN Past(string, point + 1, Digits) ELSE point
        signed == Has(string, last, {Exp}) /\ Has(string, last + 1, {Minus, Plus})
        exponent == IF Has(string, last, {Exp})
                    THEN Past(string, last + (IF signed THEN 2 ELSE 1), {0})
                    ELSE last
        significand == Significand(string, first, point, last)
    IN  [significand_start |-> significand[1],
         significand_end   |-> significand[2],
         decimal_point     |-> point,
         exponent          |-> SubSeq(string, exponent, Len(string)),
         mantissa_negative |-> string[1] = Minus,
         exponent_negative |-> signed /\ string[last + 1] = Minus,
         valid             |-> IF Has(string, last, {Exp})
                               THEN Past(string, exponent, Digits) = Len(string) + 1
                               ELSE last = Len(string) + 1]

-----------------------------------------------------------------------------
(***************************************************************************)
(* Packed numbers.                                                         *)
(***************************************************************************)

Nothing == [words |-> <<>>, last |-> 0, bytes |-> 0]

\* The number of bytes for u.
FitUint64(u) ==
    LET Fs(n) == Nibble ^ n - 1 IN
    CASE u > Fs(15) -> 8
      [] u > Fs(13) /\ u <= Fs(15) -> 7
      [] u > Fs(10) /\ u <= Fs(13) -> 6
      [] u > Fs(9)  /\ u <= Fs(10) -> 5
      [] u > Fs(6)  /\ u <= Fs(9)  -> 4
      [] u > Fs(4)  /\ u <= Fs(6)  -> 3
      [] u > Fs(2)  /\ u <= Fs(4)  -> 2
      [] OTHER -> 1

\* One less, in 64 bits.
LessOne(word) == (word - 1) % WordRange

\* Full words and a last one, which is reduced and given the bytes it needs.
Packed(words, word) ==
    [words |-> words, last |-> LessOne(word), bytes |-> FitUint64(LessOne(word))]

SizeOf(packed) == WordBytes * Len(packed.words) + packed.bytes

\* The last word has lost bytes.
Truncated(packed) == packed.last >= Base ^ packed.bytes

\* The digits that a reader sees: README.md has it that the words, zero-padded,
\* are concatenated, the last one after one is added to it.
PackedDigits(packed) ==
    IF packed = Nothing THEN <<>>
    ELSE WordChars((packed.last % Base ^ packed.bytes) + 1)
         \o FlattenSeq([k \in DOMAIN packed.words |-> WordChars(Reverse(packed.words)[k])])

\* What a sequence of digits is worth.  The empty number is 0.
SameNumber(digits, others) == StripLeft(digits) = StripLeft(others)

-----------------------------------------------------------------------------
(***************************************************************************)
(* The results of the loops.                                               *)
(***************************************************************************)

\* A word that is not the first one takes one digit more than it has room for,
\* and the last two of its digits both count as units.
Crowd == 10 ^ (WordDigits + 1)
Crowded(n) == (n \div 10) + (n % 10)

ShiftedWords(number, zeros) ==
    LET room == 10 ^ (WordDigits - zeros)
        Above[rest \in Nat] ==
            [j \in {k \in 1..MaxWords - 1 : rest \div Crowd ^ (k - 1) > 0} |->
                Crowded((rest \div Crowd ^ (j - 1)) % Crowd)]
        Words[n \in Nat] == <<(n % room) * 10 ^ zeros>> \o Above[n \div room]
    IN  Words[number]

PackedWords(sequence) ==
    LET OfWords[words \in Seq(Nat)] == Packed(Front(words), Last(words))
    IN  OfWords[sequence]

\* _bijson_shift_digits: the number with zeros appended.  The number is 0 if and
\* only if there are no digits.
Shifted(n, zeros) == IF n = 0 THEN Nothing ELSE PackedWords(ShiftedWords(n, zeros))

\* What it counts: a word for every WordDigits characters, and what is left of
\* them at the front.
ShiftedSize(chars, zeros) ==
    LET skip == Len(chars) \div WordDigits IN
    IF chars = <<>> THEN 0
    ELSE skip * WordBytes
         + SizeOf(PackedWords(ShiftedWords(
               Number[SubSeq(chars, 1, Len(chars) - skip * WordDigits)], zeros)))

\* _bijson_add_digits: the last word is not reduced.
Added(m, n) ==
    IF m = 0 \/ n = 0 THEN Shifted(m + n, 0)
    ELSE [PackedWords(WordsOf(m + n)) EXCEPT !.last = Last(WordsOf(m + n))]

\* _bijson_subtract_digits, of which the second number is not the larger one: the
\* words that are zero are left out, except at the low end.
Subtracted(m, n) ==
    LET words == WordsOf(m - n)
        lowest == Min({k \in DOMAIN words : words[k] # 0}) IN
    IF n = 0 THEN Shifted(m, 0)
    ELSE IF m = n THEN Nothing
    ELSE PackedWords(SubSeq(words, 1, lowest - 1)
                     \o SelectSeq(SubSeq(words, lowest, Len(words)), LAMBDA w : w # 0))

-----------------------------------------------------------------------------
(***************************************************************************)
(* Where the loops do not pack what README.md says.                        *)
(***************************************************************************)

\* Two digits of a word count as units.
DigitsCrowded(n, zeros) == n >= 10 ^ (WordDigits + 1 - zeros)

\* The last word of a sum is as it would be before it is reduced.
SumNotReduced(m, n) == m # 0 /\ n # 0

\* A word of the difference is zero between two that are not.
ZeroWordLost(m, n) ==
    \E low, zero \in DOMAIN WordsOf(m - n) :
        low < zero /\ WordsOf(m - n)[low] # 0 /\ WordsOf(m - n)[zero] = 0
=============================================================================
