--------------------------- MODULE DecimalDigits ---------------------------
(***************************************************************************)
(* The loops that pack digits into words (_bijson_shift_digits,            *)
(* _bijson_add_digits and _bijson_subtract_digits in lib/writer/decimal.c):*)
(* one step takes one digit.  They write the words as they become full,    *)
(* to the spool or to a counter.                                           *)
(***************************************************************************)
EXTENDS DecimalForm

CONSTANTS
    LoopTexts,      \* the digits, with or without a point, that are shifted
    LoopNumbers,    \* the numbers that are added and subtracted
    MaxZeros    \* the number of zeros that may be appended

VARIABLES
    call,           \* what is called with which digits, to count or to write
    loop_pc,             \* loop or done
    left,           \* the number of digits that are left
    word,
    magnitude,
    carry,
    pending_word,
    pending_zeroes,
    written,        \* the full words
    counted,           \* the number of bytes written or counted
    result          \* the number as it was written

loop_vars == <<call, loop_pc, left, word, magnitude, carry, pending_word, pending_zeroes,
          written, counted, result>>

a == call.a
b == call.b

-----------------------------------------------------------------------------

\* Full words are written.
WriteWords(words) ==
    /\ written' = written \o words
    /\ counted' = counted + WordBytes * Len(words)

\* The last word is written, with the bytes that its value less one needs.
Finish(words, value, last) ==
    LET bytes == FitUint64(LessOne(value)) IN
    /\ result' = [words |-> written \o words, last |-> last, bytes |-> bytes]
    /\ written' = written \o words
    /\ counted' = counted + WordBytes * Len(words) + bytes
    /\ loop_pc' = "done"

\* The value of the digit at hand, 0 when the number has none there.
Taken == Max({Len(a), Len(b)}) - left

DigitOf(digits) == IF Taken < Len(digits) THEN digits[Len(digits) - Taken] ELSE 0

\* The words that a counter takes for granted.
Skipped == IF call.count THEN Len(a) \div WordDigits ELSE 0

Calls ==
    [op : {"shift"}, a : LoopTexts, b : {<<>>}, zeros : 0..MaxZeros, count : BOOLEAN]
    \cup {c \in [op : {"add", "subtract"}, a : LoopNumbers, b : LoopNumbers, zeros : {0}, count : {FALSE}] :
            c.op = "subtract" => Number[c.a] >= Number[c.b]}

LoopInit ==
    /\ call \in Calls
    /\ loop_pc = "loop"
    /\ left = Max({Len(a), Len(b)}) - Skipped * WordDigits
    /\ word = 0
    /\ magnitude = 10 ^ call.zeros
    /\ carry = 0
    /\ pending_word = FALSE
    /\ pending_zeroes = 0
    /\ written = <<>>
    /\ counted = Skipped * WordBytes
    /\ result = Nothing

-----------------------------------------------------------------------------
(***************************************************************************)
(* Shift                                                                   *)
(***************************************************************************)

Shifting == call.op = "shift" /\ loop_pc = "loop"

Char == a[left]

ShiftPoint ==
    /\ Shifting /\ left > 0 /\ Char = Point
    /\ left' = left - 1
    /\ UNCHANGED <<call, loop_pc, word, magnitude, carry, pending_word, pending_zeroes,
                   written, counted, result>>

\* Mutant: a full word is not written when a further digit is there.
ShiftFull_Dropped == WriteWords(<<>>)

ShiftFull == WriteWords(<<word>>)

\* The first digit of a further word leaves the magnitude as it is.
ShiftIntoNewWord ==
    /\ Shifting /\ left > 0 /\ Char # Point /\ magnitude = WordLimit
    /\ ShiftFull
    /\ word' = Char
    /\ magnitude' = 1
    /\ left' = left - 1
    /\ UNCHANGED <<call, loop_pc, carry, pending_word, pending_zeroes, result>>

ShiftIntoWord ==
    /\ Shifting /\ left > 0 /\ Char # Point /\ magnitude # WordLimit
    /\ word' = word + Char * magnitude
    /\ magnitude' = magnitude * 10
    /\ left' = left - 1
    /\ UNCHANGED <<call, loop_pc, carry, pending_word, pending_zeroes, written, counted, result>>

\* No digits are no number; otherwise the last word is written less one.
ShiftLast ==
    /\ Shifting /\ left = 0
    /\ IF a = <<>> THEN loop_pc' = "done" /\ UNCHANGED <<written, counted, result>>
                   ELSE Finish(<<>>, word, LessOne(word))
    /\ UNCHANGED <<call, left, word, magnitude, carry, pending_word, pending_zeroes>>

-----------------------------------------------------------------------------
(***************************************************************************)
(* Add and subtract: without one of the numbers the other one is shifted.  *)
(***************************************************************************)

OneEmpty == a = <<>> \/ b = <<>>

ShiftOther ==
    /\ call.op \in {"add", "subtract"} /\ loop_pc = "loop" /\ OneEmpty
    /\ call' = [call EXCEPT !.op = "shift", !.a = IF b = <<>> THEN a ELSE b, !.b = <<>>]
    /\ left' = Len(call'.a)
    /\ UNCHANGED <<loop_pc, word, magnitude, carry, pending_word, pending_zeroes,
                   written, counted, result>>

Adding == call.op = "add" /\ loop_pc = "loop" /\ ~OneEmpty

DigitSum == DigitOf(a) + DigitOf(b) + carry

\* The last digit; a carry that it leaves is a digit more, and may be a word more.
AddLast ==
    /\ Adding /\ left = 1
    /\ LET added == word + (DigitSum % 10) * magnitude IN
       IF DigitSum < 10 THEN Finish(<<>>, added, added)
       ELSE IF magnitude * 10 = WordLimit THEN Finish(<<added>>, 1, 1)
       ELSE Finish(<<>>, added + magnitude * 10, added + magnitude * 10)
    /\ UNCHANGED <<call, left, word, magnitude, carry, pending_word, pending_zeroes>>

Carry == IF DigitSum >= 10 THEN 1 ELSE 0

AddDigit ==
    /\ Adding /\ left > 1
    /\ carry' = Carry
    /\ LET added == word + (DigitSum % 10) * magnitude IN
       IF magnitude * 10 = WordLimit
       THEN WriteWords(<<added>>) /\ word' = 0 /\ magnitude' = 1
       ELSE word' = added /\ magnitude' = magnitude * 10 /\ UNCHANGED <<written, counted>>
    /\ left' = left - 1
    /\ UNCHANGED <<call, loop_pc, pending_word, pending_zeroes, result>>

Subtracting == call.op = "subtract" /\ loop_pc = "loop" /\ ~OneEmpty

DigitDifference == (10 + DigitOf(a) - DigitOf(b) - carry) % 10

Borrow == IF 10 + DigitOf(a) - DigitOf(b) - carry < 10 THEN 1 ELSE 0

\* Mutant: zero words wait although there is a digit above them.
Delayed_NoZeroes == IF DigitDifference # 0 /\ pending_word THEN <<word>> ELSE <<>>

\* A word that is full, and words that are zero, wait for a digit that is not zero:
\* without one the full word is the last one.
Delayed ==
    IF DigitDifference = 0 THEN <<>>
    ELSE (IF pending_word THEN <<word>> ELSE <<>>) \o [k \in 1..pending_zeroes |-> 0]

Difference ==
    IF DigitDifference # 0 /\ pending_word THEN DigitDifference * magnitude
    ELSE word + DigitDifference * magnitude

SubtractLast ==
    /\ Subtracting /\ left = 1
    /\ IF Difference = 0
       THEN WriteWords(Delayed) /\ loop_pc' = "done" /\ UNCHANGED result
       ELSE Finish(Delayed, Difference, LessOne(Difference))
    /\ UNCHANGED <<call, left, word, magnitude, carry, pending_word, pending_zeroes>>

SubtractDigit ==
    /\ Subtracting /\ left > 1
    /\ WriteWords(Delayed)
    /\ word' = Difference
    /\ carry' = Borrow
    /\ IF magnitude * 10 = WordLimit
       THEN /\ magnitude' = 1
            /\ pending_word' = (Difference # 0)
            /\ pending_zeroes' =
                 (IF DigitDifference # 0 THEN 0 ELSE pending_zeroes)
                 + (IF Difference = 0 THEN 1 ELSE 0)
       ELSE /\ magnitude' = magnitude * 10
            /\ pending_word' = (pending_word /\ DigitDifference = 0)
            /\ pending_zeroes' = IF DigitDifference # 0 THEN 0 ELSE pending_zeroes
    /\ left' = left - 1
    /\ UNCHANGED <<call, loop_pc, result>>

LoopNext ==
    \/ ShiftPoint \/ ShiftIntoNewWord \/ ShiftIntoWord \/ ShiftLast
    \/ ShiftOther \/ AddLast \/ AddDigit \/ SubtractLast \/ SubtractDigit

LoopSpec == LoopInit /\ [][LoopNext]_loop_vars

FairLoopSpec == LoopSpec /\ WF_loop_vars(LoopNext)

-----------------------------------------------------------------------------
(***************************************************************************)
(* What was to be packed.                                                  *)
(***************************************************************************)

Meant ==
    CASE call.op = "shift" -> DigitsOf(a) \o [k \in 1..call.zeros |-> 0]
      [] call.op = "add" -> DigitsOfNumber(Number[a] + Number[b])
      [] call.op = "subtract" -> DigitsOfNumber(Number[a] - Number[b])

LoopDone == loop_pc = "done" /\ ~call.count

\* The last word of a sum is not reduced by one.
Reduced == IF call.op = "add" THEN [result EXCEPT !.last = @ - 1] ELSE result

PackedIrregularly ==
    \/ Truncated(Reduced)
    \/ call.op = "shift" /\ DigitsCrowded(Number[a], call.zeros)
    \/ call.op = "subtract" /\ ZeroWordLost(Number[a], Number[b])

-----------------------------------------------------------------------------
(***************************************************************************)
(* Properties                                                              *)
(***************************************************************************)

(***************************************************************************)
(* Except where DecimalForm says so, the bytes that were written mean the  *)
(* number, those of a sum as soon as it is reduced by one: carries and     *)
(* borrows over the end of a word, a carry that makes a word more, words   *)
(* of the difference that are zero at the low or at the high end, zeros    *)
(* appended, a point anywhere between the digits.                          *)
(***************************************************************************)
PackedRight ==
    LoopDone /\ ~PackedIrregularly => SameNumber(PackedDigits(Reduced), Meant)

(***************************************************************************)
(* The loops end with what DecimalForm has in closed form, whatever the    *)
(* digits, and count what it says: DecimalWriter uses the closed forms.  A *)
(* text that is shorter than a word is counted as it is written.           *)
(***************************************************************************)
AsInDecimalForm ==
    /\ LoopDone => result = CASE call.op = "shift" -> Shifted(Number[a], call.zeros)
                          [] call.op = "add" -> Added(Number[a], Number[b])
                          [] call.op = "subtract" -> Subtracted(Number[a], Number[b])
    /\ loop_pc = "done" /\ call.count =>
        /\ counted = ShiftedSize(a, call.zeros)
        /\ Len(a) < WordDigits => counted = SizeOf(Shifted(Number[a], call.zeros))

\* Every digit is taken.
LoopAnswered == loop_pc = "done"

(***************************************************************************)
(* README.md, "decimal": the digits are in words, "the last of which is    *)
(* reduced by one".  That of a sum is not, and means one more than it      *)
(* should.                                                                 *)
(***************************************************************************)
SumReduced ==
    LoopDone /\ call.op = "add" /\ ~Truncated(result) => SameNumber(PackedDigits(result), Meant)
=============================================================================
