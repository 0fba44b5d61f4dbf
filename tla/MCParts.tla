------------------------------ MODULE MCParts ------------------------------
(***************************************************************************)
(* Instances for TLC of the parts that work by themselves: the UTF-8 check *)
(* of a string, the loops that pack digits, the encoder of decimals, their *)
(* reader, the growable buffer, the JSON parser and the printing of        *)
(* strings as JSON.  A behaviour is one of one part.                       *)
(***************************************************************************)
EXTENDS Buffer, Utf8, DecimalDigits, Decimals, MCJson

VARIABLE part

-----------------------------------------------------------------------------
(***************************************************************************)
(* The growable buffer: sizes of a few bytes.                              *)
(***************************************************************************)

MCByte == 0..MaxSize + 8

Lengths == {0, 1, 3, 8}

\* The bytes that belong at the offsets from n on.
Places(n, length) == [k \in 1..length |-> n + k]

\* Every byte that is pushed is the number of its place; 0 is written over it.
MCPieces == {Places(n, length) : n \in 0..MaxSize, length \in Lengths} \cup {<<0>>}

BufferNext ==
    \/ \E length \in Lengths : Push(Places(used, length))
    \/ Continue
    \/ \E n \in 1..used : Pop(n)
    \/ \E offset \in Patches : Write(offset, <<0>>)
    \/ Wipe

-----------------------------------------------------------------------------
(***************************************************************************)
(* The UTF-8 check: bytes on both sides of the boundaries of the ranges.   *)
(***************************************************************************)

\* 7F | 80 8F | 90 9F | A0 BF | C1 | C2 DF | E0 | E1 | ED | F0 | F1 | F4 | F5 | FF
Bytes == {127, 128, 143, 144, 159, 160, 191, 193, 194, 223,
          224, 225, 237, 240, 241, 244, 245, 255}

\* Every sequence of four of the bytes that matter in longer characters, and
\* characters, and beginnings of characters, in front of any of the bytes.
Beginnings == {<< >>, <<127>>, <<194, 128>>, <<240, 144>>, <<225, 128, 128>>}

MCMemories == [1..4 -> {128, 143, 144, 159, 160, 224, 237, 240, 244}]
              \cup {first \o t : first \in Beginnings, t \in UNION {[1..n -> Bytes] : n \in 0..2}}

-----------------------------------------------------------------------------
(***************************************************************************)
(* The loops on digits: bytes of two bits, words of three digits, up to    *)
(* three words.                                                            *)
(***************************************************************************)

Tuples(S, n) == UNION {[1..m -> S] : m \in 1..n}

\* Numbers have no leading zeros.
Short == {t \in Tuples({0, 1, 9}, 4) : t[1] # 0}

MCNumbers ==
    Short \cup {<<>>, <<2, 5, 7>>, <<4, 0, 0>>, <<5>>, <<6, 5>>,
                <<9, 9, 9, 9, 9>>, <<9, 9, 9, 9, 9, 9>>, <<1, 0, 0, 0, 0, 0, 0>>,
                <<1, 0, 0, 0, 0, 0, 5>>, <<1, 0, 0, 0, 9, 9, 9>>, <<2, 0, 0, 0, 0, 0, 0, 0, 0>>}

\* A point may be before, between or behind the digits of a text.
PointAt(digits, n) == SubSeq(digits, 1, n) \o <<Point>> \o SubSeq(digits, n + 1, Len(digits))

MCTexts ==
    {<<>>} \cup UNION {{t} \cup {PointAt(t, n) : n \in 1..Len(t) - 1} :
        t \in Short \cup {<<2, 5, 7>>, <<4, 0, 0>>, <<1, 2, 3, 4, 5>>, <<1, 2, 3, 4, 5, 6>>,
                          <<1, 2, 3, 4, 5, 6, 7>>, <<1, 2, 3, 4, 5, 6, 7, 8>>}}

LoopsIdle ==
    /\ call = "none" /\ loop_pc = "none" /\ left = 0 /\ word = 0 /\ magnitude = 0 /\ carry = 0
    /\ pending_word = FALSE /\ pending_zeroes = 0 /\ written = <<>> /\ counted = 0
    /\ result = "none"

-----------------------------------------------------------------------------
(***************************************************************************)
(* The decimal encoder, with the same sizes.                               *)
(***************************************************************************)

Join(parts, others) == {one \o other : one \in parts, other \in others}

Signs == {<<>>, <<Minus>>, <<Plus>>}

\* Up to five digits, zeros before, between and after the others.
Whole == {<<>>, <<0>>, <<1>>, <<1, 7>>, <<2, 0, 0>>, <<0, 3, 0, 1>>,
          <<1, 0, 0, 0, 0>>, <<1, 2, 3, 4, 5>>}

Fractions == {<<>>, <<Point>>, <<Point, 0>>, <<Point, 5>>, <<Point, 0, 0, 1>>,
              <<Point, 6, 0>>, <<Point, 0, 0, 7, 2>>}

\* Around one, two and three words.
ExponentDigits == {<<0>>, <<1>>, <<2>>, <<0, 7>>, <<4, 3>>, <<2, 0, 0>>, <<9, 9, 9, 9>>, <<1, 0, 0, 0, 0>>,
                   <<2, 0, 0, 0, 3, 0, 0, 0, 5>>}

Exponents == {<<>>, <<Exp>>, <<Exp, Plus, 2>>} \cup Join({<<Exp>>, <<Exp, Minus>>}, ExponentDigits)

Refused == {<<Other>>, <<1, Other>>, <<1, Minus>>, <<1, Point, 2, Point>>, <<1, Exp, 2, Other>>}

MCDecimals ==
    Refused
    \cup (Join({<<>>, <<Minus>>}, Join(Join(Whole, Fractions), Exponents)) \ {<<>>})
    \cup Join(Signs, {<<1>>, <<0>>})

EncoderIdle ==
    /\ text = "none" /\ encoder_pc = "none" /\ analysis = "none" /\ adjustment = 0
    /\ best = "none" /\ pushed = "none"

-----------------------------------------------------------------------------
(***************************************************************************)
(* The decimal reader, with the same sizes.                                *)
(***************************************************************************)

\* Anything of up to four bytes, most of it damaged.
ShortBytes == UNION {[1..n -> 0..Base - 1] : n \in 0..4}

\* A word may use 0 to 999; the last one is reduced, and has any length.
FullWords == {CompactInt(n, 3) : n \in {0, 7, 340, 999, 1000, 65535}}
LastWords == {<<3>>, <<0, 1>>, <<2, 1, 2, 3, 3>>, <<3, 1, 2, 3, 3>>}
             \cup {CompactInt(n, 3) : n \in {998, 999}}

LongParts == LastWords \cup Join(FullWords, LastWords) \cup Join(Join(FullWords, FullWords), {<<3>>})

\* Behind a length that may be one too small or too large.
WithLength(part_bytes, width) ==
    {CompactInt(Len(part_bytes) - 1 + d, width) \o part_bytes : d \in {-1, 0, 1}}

LongExponents(width) ==
    UNION {WithLength(p, width) : p \in {q \in LongParts : Len(q) \in 2 .. Base ^ (2 ^ width) - 1}}

MCValues ==
    [integer : {TRUE}, negative : BOOLEAN, exponent_negative : {FALSE}, width : {0},
     bytes : ShortBytes \cup LongParts]
    \cup [integer : {FALSE}, negative : {FALSE}, exponent_negative : BOOLEAN, width : 0..1,
          bytes : ShortBytes]
    \cup UNION {[integer : {FALSE}, negative : {FALSE}, exponent_negative : {TRUE}, width : {w},
                 bytes : Join(LongExponents(w), {<<>>, <<2>>, CompactInt(7, 3) \o <<0, 1>>})] :
                 w \in 0..1}

ReaderIdle ==
    /\ value = "none" /\ reader_pc = "none" /\ mantissa = "none" /\ exponent = "none"
    /\ word_start = 0 /\ output = <<>> /\ error = "none"

-----------------------------------------------------------------------------
(***************************************************************************)
(* One of the parts; what was encoded is read, and what was printed is     *)
(* parsed.                                                                 *)
(***************************************************************************)

CheckIdle == bytes = <<>> /\ len = 0 /\ s = 0 /\ verdict = "none"

ParserIdle ==
    /\ json = <<>> /\ before = <<>> /\ pos = 0 /\ nesting = 0 /\ quote = 0
    /\ parser_pc = "none" /\ parsed = "none"
    /\ root = <<>> /\ open = <<>> /\ added = <<>> /\ broken = FALSE /\ answer = "ok"

StringIdle ==
    /\ string = <<>> /\ scanned = 0 /\ previously_written = 0
    /\ printed = <<>> /\ string_pc = "none"

digit_vars == <<loop_vars, encoder_vars, reader_vars>>
json_vars  == <<parser_vars, string_vars>>
all_vars   == <<part, vars, check_vars, digit_vars, json_vars>>

MCInit ==
    /\ Init
    /\ part \in {"buffer", "check", "loops", "encoder", "reader", "parser", "string"}
    /\ \/ part = "check" /\ CheckInit
       \/ part # "check" /\ CheckIdle
    /\ \/ part = "loops" /\ LoopInit
       \/ part # "loops" /\ LoopsIdle
    /\ \/ part = "encoder" /\ EncoderInit
       \/ part # "encoder" /\ EncoderIdle
    /\ \/ part = "reader" /\ ReaderInit
       \/ part # "reader" /\ ReaderIdle
    /\ \/ part = "parser" /\ ParserInit
       \/ part # "parser" /\ ParserIdle
    /\ \/ part = "string" /\ StringInit
       \/ part # "string" /\ StringIdle

MCNext ==
    \/ /\ part = "buffer" /\ BufferNext
       /\ UNCHANGED <<part, check_vars, digit_vars, json_vars>>
    \/ /\ part = "check" /\ CheckNext
       /\ UNCHANGED <<part, vars, digit_vars, json_vars>>
    \/ /\ part = "loops" /\ LoopNext
       /\ UNCHANGED <<part, vars, check_vars, encoder_vars, reader_vars, json_vars>>
    \/ /\ part = "encoder" /\ EncoderNext
       /\ UNCHANGED <<part, vars, check_vars, loop_vars, reader_vars, json_vars>>
    \/ /\ part = "encoder" /\ ReadPushed
       /\ part' = "reader"
       /\ UNCHANGED <<vars, check_vars, loop_vars, json_vars>>
    \/ /\ part = "reader" /\ ReaderNext
       /\ UNCHANGED <<part, vars, check_vars, loop_vars, encoder_vars, json_vars>>
    \/ /\ part = "parser" /\ ParserNext
       /\ UNCHANGED <<part, vars, check_vars, digit_vars, string_vars>>
    \/ /\ part = "string" /\ StringNext
       /\ UNCHANGED <<part, vars, check_vars, digit_vars, parser_vars>>
    \/ /\ part = "string" /\ ParsePrinted
       /\ part' = "parser"
       /\ UNCHANGED <<vars, check_vars, digit_vars>>

\* A call that has begun runs until it returns.  (Nothing is said of the encoder,
\* which tries a number of forms that is fixed, nor of the parser, which goes
\* through its text once.)
Running == part \notin {"encoder", "parser"} /\ (part = "buffer" => pc # "idle")

CallRuns ==
    CASE part = "buffer"  -> PushRuns
      [] part = "check"   -> verdict = "none"
      [] part = "loops"   -> ~LoopAnswered
      [] part = "reader"  -> ~ReaderAnswered
      [] part = "string"  -> string_pc \in {"open", "scan"}
      [] part \in {"encoder", "parser"} -> FALSE

MCSafety == MCInit /\ [][MCNext]_all_vars
MCSpec   == MCSafety /\ WF_all_vars(Running /\ MCNext)

(***************************************************************************)
(* Every call returns: the growth of a buffer whatever fails, the check    *)
(* and the reader whatever the bytes are, the loops, and the printing of a *)
(* string.                                                                 *)
(***************************************************************************)
EveryCallReturns == CallRuns ~> ~CallRuns
=============================================================================
