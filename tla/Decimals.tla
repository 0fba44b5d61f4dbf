------------------------------ MODULE Decimals ------------------------------
(***************************************************************************)
(* What becomes of a decimal: a text is encoded, and what the encoder has  *)
(* pushed is converted to JSON.                                            *)
(***************************************************************************)
EXTENDS DecimalWriter, DecimalReader

\* The bytes of a packed number: the words, and as many of the last one as it has.
PackedBytes(packed) ==
    FlattenSeq([k \in DOMAIN packed.words |-> CompactInt(packed.words[k], 3)])
    \o SubSeq(CompactInt(packed.last, 3), 1, packed.bytes)

\* The value that is behind the size that was pushed.
PushedDecimal ==
    [integer |-> ~pushed.has_exponent,
     negative |-> pushed.mantissa_negative,
     exponent_negative |-> pushed.exponent_negative,
     width |-> pushed.width,
     bytes |-> pushed.exponent_length \o PackedBytes(pushed.exponent)
               \o PackedBytes(pushed.significand)]

\* A document is read that has what the encoder has written.
ReadPushed ==
    /\ encoder_pc = "done" /\ reader_pc = "none"
    /\ value' = PushedDecimal
    /\ reader_pc' = "start"
    /\ mantissa' = PartAt(1, 1) /\ exponent' = PartAt(1, 1)
    /\ word_start' = 0 /\ output' = <<>> /\ error' = NoError
    /\ encoder_pc' = "read"
    /\ UNCHANGED <<text, analysis, adjustment, best, pushed>>

\* Sums, which are written one too large, and parts of several words, which are
\* padded too far, are read as other numbers.
ReadsDifferently ==
    \/ SameSign(best.shift) /\ SumNotReduced(TextExponent, best.shift)
    \/ Len(pushed.exponent.words) > 0 \/ Len(pushed.significand.words) > 0

(***************************************************************************)
(* A decimal that was encoded is printed, and what is printed means what   *)
(* the text meant: writer and reader agree on the order of the parts, on   *)
(* the signs and the width in the type, on the length of the exponent and  *)
(* on the reduction of last words.  Decimals of which a part is packed     *)
(* irregularly are left out.                                               *)
(***************************************************************************)
PrintsWhatWasAdded ==
    encoder_pc = "read" /\ ReaderAnswered /\ ~EncodedIrregularly /\ ~ReadsDifferently =>
        \/ reader_pc = "failed" /\ error = "callback"
        \/ reader_pc = "done" /\ Meaning(output) = Meaning(text)
=============================================================================
