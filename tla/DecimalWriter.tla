--------------------------- MODULE DecimalWriter ---------------------------
(***************************************************************************)
(* Encoding a decimal from its text                                        *)
(* (bijson_writer_add_decimal_from_string in lib/writer/decimal.c).        *)
(*                                                                         *)
(* The text is taken apart; then its digits are packed with 0, 1, 2 ...    *)
(* zeros appended to them, the exponent reduced accordingly, each time     *)
(* only counting the bytes; and the shortest form is packed again and      *)
(* pushed to the spool.  One step of the model tries one form.  Pushes     *)
(* that fail are in Writer.                                                *)
(***************************************************************************)
EXTENDS DecimalForm

CONSTANTS
    DecimalTexts,          \* the texts that are added
    MaxAdjustment   \* the number of zeros that may be appended: 10 in the code

VARIABLES
    text,
    encoder_pc,             \* try, push, done or failed
    analysis,       \* the parts of the text
    adjustment,     \* the loop variable
    best,           \* the shortest form so far
    pushed          \* the value on the spool: its size field, its type, its parts

encoder_vars == <<text, encoder_pc, analysis, adjustment, best, pushed>>

\* The significand, which may have the decimal point in it.
SignificandChars == SubSeq(text, analysis.significand_start, analysis.significand_end - 1)

-----------------------------------------------------------------------------
(***************************************************************************)
(* The forms: the parameters that the code tries.                          *)
(***************************************************************************)

ShiftNegative == analysis.decimal_point < analysis.significand_end

Shift ==
    IF ShiftNegative
    THEN analysis.significand_end - analysis.decimal_point - 1
    ELSE analysis.decimal_point - analysis.significand_end

\* Mutant: what the shift is reduced by when it is negative already.
AdjustedShift_Reduced(zeros) == IF ShiftNegative THEN zeros - Shift ELSE Shift - zeros

\* The power of ten that is left for the exponent, with its sign.
AdjustedShift(zeros) == IF ShiftNegative THEN -(Shift + zeros) ELSE Shift - zeros

Abs(n) == IF n < 0 THEN -n ELSE n

\* Exponent and shift are added when they have the same sign.
SameSign(shift) == (shift < 0) = analysis.exponent_negative

TextExponent == Number[analysis.exponent]

\* The exponent that is written: exponent and shift together, or one of them less
\* the other one.
Exponent(shift) ==
    IF SameSign(shift) THEN Added(TextExponent, Abs(shift))
    ELSE IF TextExponent < Abs(shift) THEN Subtracted(Abs(shift), TextExponent)
    ELSE IF TextExponent > Abs(shift) THEN Subtracted(TextExponent, Abs(shift))
    ELSE Nothing

\* Exponent and shift when one of them is empty: the other one is counted.
ExponentChars(shift) == analysis.exponent \o DigitsOfNumber(Abs(shift))

ExponentAlone(shift) == analysis.exponent = <<>> \/ shift = 0

\* Its size, 0 for none.
ExponentSize(shift) ==
    IF ExponentAlone(shift) THEN ShiftedSize(ExponentChars(shift), 0) ELSE SizeOf(Exponent(shift))

\* Mutant: the sign of the exponent stays when the shift is larger.
ExponentNegative_Stays(shift) == analysis.exponent_negative

\* When the shift is larger the sign is that of the shift before adjustment.
ExponentNegative(shift) ==
    IF ~SameSign(shift) /\ TextExponent < Abs(shift)
    THEN ShiftNegative ELSE analysis.exponent_negative

\* Mutant: the size of the exponent is written itself, not less one.
TotalSize_WiderLength(mantissa_size, exponent_size) ==
    1 + mantissa_size + exponent_size
    + (IF exponent_size = 0 THEN 0 ELSE OptimalStorageSizeBytes(OptimalStorageSize(exponent_size)))

TotalSize(mantissa_size, exponent_size) ==
    1 + mantissa_size + exponent_size
    + (IF exponent_size = 0 THEN 0 ELSE OptimalStorageSizeBytes(OptimalStorageSize1(exponent_size)))

Form(zeros, shift, exponent_size) ==
    [zeros |-> zeros, shift |-> shift, exponent_size |-> exponent_size,
     total_size |-> TotalSize(ShiftedSize(SignificandChars, zeros), exponent_size)]

\* Mutant: of two that are as long it is always the first one.
Better_First(form, other) == form.total_size < other.total_size

\* The shorter form; of two that are as long, the first one, unless only the
\* second one has no exponent.
Better(form, other) ==
    \/ form.total_size < other.total_size
    \/ /\ form.total_size = other.total_size
       /\ other.exponent_size # 0 /\ form.exponent_size = 0

NoForm == [zeros |-> 0, shift |-> 0, exponent_size |-> 0, total_size |-> SizeMax]

-----------------------------------------------------------------------------
(***************************************************************************)
(* The call.                                                               *)
(***************************************************************************)

NothingPushed ==
    [size |-> 0, has_exponent |-> FALSE, width |-> 0, mantissa_negative |-> FALSE,
     exponent_negative |-> FALSE, exponent_length |-> <<>>, exponent |-> Nothing,
     significand |-> Nothing]

EncoderInit ==
    /\ text \in DecimalTexts
    /\ analysis = AnalyzeString(text)
    /\ encoder_pc = "start"
    /\ adjustment = 0
    /\ best = NoForm
    /\ pushed = NothingPushed

\* The text is no decimal, and the writer has failed.
SyntaxError ==
    /\ encoder_pc = "start" /\ ~analysis.valid
    /\ encoder_pc' = "failed"
    /\ UNCHANGED <<text, analysis, adjustment, best, pushed>>

\* Nothing but the type of an integer.
PushZero ==
    /\ encoder_pc = "start" /\ analysis.valid
    /\ analysis.significand_start = analysis.significand_end
    /\ pushed' = [NothingPushed EXCEPT !.size = 1,
                     !.mantissa_negative = analysis.mantissa_negative]
    /\ encoder_pc' = "done"
    /\ UNCHANGED <<text, analysis, adjustment, best>>

StartTrying ==
    /\ encoder_pc = "start" /\ analysis.valid
    /\ analysis.significand_start # analysis.significand_end
    /\ encoder_pc' = "try"
    /\ UNCHANGED <<text, analysis, adjustment, best, pushed>>

Max_Adjustment == IF ShiftNegative /\ analysis.exponent_negative THEN 0 ELSE MaxAdjustment

TryForm ==
    /\ encoder_pc = "try"
    /\ \E shift \in {AdjustedShift(adjustment)} :
       \E form \in {Form(adjustment, shift, ExponentSize(shift))} :
       best' = IF Better(form, best) THEN form ELSE best
    /\ IF adjustment = Max_Adjustment
       THEN encoder_pc' = "push" /\ UNCHANGED adjustment
       ELSE adjustment' = adjustment + 1 /\ UNCHANGED encoder_pc
    /\ UNCHANGED <<text, analysis, pushed>>

\* The counted size, the type, the length of the exponent less one, the exponent
\* and the mantissa.
PushBest ==
    /\ encoder_pc = "push"
    /\ pushed' =
         [size |-> best.total_size,
          has_exponent |-> best.exponent_size # 0,
          width |-> IF best.exponent_size = 0 THEN 0
                    ELSE OptimalStorageSize1(best.exponent_size),
          mantissa_negative |-> analysis.mantissa_negative,
          exponent_negative |-> best.exponent_size # 0 /\ ExponentNegative(best.shift),
          exponent_length |-> IF best.exponent_size = 0 THEN <<>>
                              ELSE CompactInt(best.exponent_size - 1,
                                              OptimalStorageSize(best.exponent_size - 1)),
          exponent |-> IF best.exponent_size = 0 THEN Nothing ELSE Exponent(best.shift),
          significand |-> Shifted(Number[SignificandChars], best.zeros)]
    /\ encoder_pc' = "done"
    /\ UNCHANGED <<text, analysis, adjustment, best>>

EncoderNext == SyntaxError \/ PushZero \/ StartTrying \/ TryForm \/ PushBest

EncoderSpec == EncoderInit /\ [][EncoderNext]_encoder_vars

FairEncoderSpec == EncoderSpec /\ WF_encoder_vars(EncoderNext)

-----------------------------------------------------------------------------
(***************************************************************************)
(* What the text says.                                                     *)
(***************************************************************************)

\* A number: a sign, digits without zeros at either end, and an exponent.
Value(negative, digits, exponent) ==
    [negative |-> negative,
     digits |-> StripLeft(StripRight(digits)),
     exponent |-> IF StripRight(digits) = <<>> THEN 0
                  ELSE exponent + Len(digits) - Len(StripRight(digits))]

Signed(negative, n) == IF negative THEN -n ELSE n

Before(string, char) == SubSeq(string, 1, Past(string, 1, 0..Other \ {char}) - 1)

Behind(string, char) == SubSeq(string, Past(string, 1, 0..Other \ {char}) + 1, Len(string))

Negative(string) == \E k \in DOMAIN string : string[k] = Minus

OnlyDigits(string) == SelectSeq(string, LAMBDA char : char \in Digits)

\* What a text means: its digits, and the exponent less the digits behind the point.
Meaning(string) ==
    LET mantissa == Before(string, Exp)
        exponent == Behind(string, Exp) IN
    Value(Negative(mantissa), OnlyDigits(mantissa),
          Signed(Negative(exponent), Number[OnlyDigits(exponent)])
          - Len(Behind(mantissa, Point)))

\* A sum is read as if it had been reduced.
ExponentWritten ==
    IF SameSign(best.shift) /\ SumNotReduced(TextExponent, best.shift)
    THEN [pushed.exponent EXCEPT !.last = @ - 1] ELSE pushed.exponent

PushedValue ==
    Value(pushed.mantissa_negative, PackedDigits(pushed.significand),
          IF pushed.has_exponent
          THEN Signed(pushed.exponent_negative, Number[PackedDigits(ExponentWritten)]) ELSE 0)

\* A part is packed in one of the ways that DecimalForm names.
EncodedIrregularly ==
    \/ Truncated(pushed.significand) \/ DigitsCrowded(Number[SignificandChars], best.zeros)
    \/ /\ pushed.has_exponent
       /\ \/ Truncated(ExponentWritten)
          \/ ExponentAlone(best.shift) /\ DigitsCrowded(Number[ExponentChars(best.shift)], 0)
          \/ /\ ~SameSign(best.shift)
             /\ \/ ZeroWordLost(TextExponent, Abs(best.shift))
                \/ ZeroWordLost(Abs(best.shift), TextExponent)

PushedSize ==
    1 + Len(pushed.exponent_length) + SizeOf(pushed.exponent) + SizeOf(pushed.significand)

\* The texts are shorter than a word, which is what shift_digits counts right.
ShortTexts ==
    /\ Len(SignificandChars) < WordDigits
    /\ ExponentAlone(best.shift) => Len(ExponentChars(best.shift)) < WordDigits

-----------------------------------------------------------------------------
(***************************************************************************)
(* Properties                                                              *)
(***************************************************************************)

(***************************************************************************)
(* The value on the spool means what the text says, whichever form was     *)
(* chosen: zeros appended, exponent and shift of any signs added or        *)
(* subtracted, a point anywhere, digits that are zero at either end.  The  *)
(* parts that are packed irregularly are left out; sums are read as they   *)
(* were meant.                                                             *)
(***************************************************************************)
EncodesText == encoder_pc = "done" /\ ~EncodedIrregularly => PushedValue = Meaning(text)

(***************************************************************************)
(* The form is chosen by sizes that are only counted.  For texts without a *)
(* word of digits they are those of what is pushed, and the width in the   *)
(* type is that of the length that follows it.                             *)
(***************************************************************************)
SizeCounted ==
    encoder_pc = "done" /\ ShortTexts =>
        /\ pushed.size = PushedSize
        /\ pushed.has_exponent => Len(pushed.exponent_length) = 2 ^ pushed.width

(***************************************************************************)
(* "assert(writer->spool.used - spool_used ==                              *)
(* best_output_parameters.total_size)" (lib/writer/decimal.c:469): the     *)
(* size in front of a decimal, by which the writer finds the next item on  *)
(* the spool, is that of the bytes that follow it, whatever the text.      *)
(***************************************************************************)
CountedAsPushed == encoder_pc = "done" => pushed.size = PushedSize

(***************************************************************************)
(* No form that was tried is shorter than the one that is pushed, and it   *)
(* is not pushed with an exponent when another of its length has none.     *)
(***************************************************************************)
ShortestForm ==
    encoder_pc = "done" /\ pushed.significand # Nothing =>
        \A zeros \in 0..Max_Adjustment :
            LET size == ExponentSize(AdjustedShift(zeros))
                form == Form(zeros, AdjustedShift(zeros), size) IN
            /\ pushed.size <= form.total_size
            /\ size = 0 /\ pushed.has_exponent => pushed.size < form.total_size
=============================================================================
