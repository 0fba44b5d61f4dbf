-------------------------------- MODULE Utf8 --------------------------------
(***************************************************************************)
(* The UTF-8 check (_bijson_check_valid_utf8 in lib/common.c) that every   *)
(* string and key passes when it is written, when it is read, and when     *)
(* it was collected in parts.                                              *)
(*                                                                         *)
(* The string is the first len of the bytes; what lies behind it is      *)
(* there too, and must not be taken for a part of it.  Masks and shifts    *)
(* are written as quotients and remainders of powers of two.               *)
(***************************************************************************)
EXTENDS Naturals, Sequences

CONSTANT Memories       \* the bytes at and behind the string

ASSUME MemoriesAssumption == Memories \subseteq Seq(0..255)

VARIABLES
    bytes,
    len,        \* of the string
    s,          \* the offset of the next byte
    verdict     \* none while the check runs, then ok or invalid_utf8

check_vars == <<bytes, len, s, verdict>>

CheckInit ==
    /\ bytes \in Memories
    /\ len \in 0..Len(bytes)
    /\ s = 0
    /\ verdict = "none"

ByteAt(i) == bytes[i + 1]

\* (c & 0xC0) == 0x80
IsContinuation(c) == c \div 64 = 2

-----------------------------------------------------------------------------
(***************************************************************************)
(* The four branches of the loop: for a character that starts at i, each   *)
(* says whether the branch reaches its end without an error.               *)
(***************************************************************************)

\* The classes by the first byte: 0......., 110....., 1110...., 11110...
Class(c) ==
    IF c < 128 THEN 1
    ELSE IF c \div 32 = 6 THEN 2
    ELSE IF c \div 16 = 14 THEN 3
    ELSE IF c \div 8 = 30 THEN 4
    ELSE 0

\* Mutant: the end is not looked for, only the byte.
NextIsContinuation_PastEnd(i) == i < Len(bytes) /\ IsContinuation(ByteAt(i))

\* Not a premature end, and a continuation byte.
NextIsContinuation(i) == i < len /\ IsContinuation(ByteAt(i))

TwoBytes(i) ==
    /\ (ByteAt(i) % 32) \div 2 # 0                        \* not overlong
    /\ NextIsContinuation(i + 1)

\* Mutant: surrogates are characters.
ThreeBytes_Surrogates(i) ==
    /\ NextIsContinuation(i + 1)
    /\ ByteAt(i) % 16 # 0 \/ (ByteAt(i + 1) % 64) \div 32 # 0
    /\ NextIsContinuation(i + 2)

ThreeBytes(i) ==
    /\ NextIsContinuation(i + 1)
    /\ LET c == ByteAt(i)
           c2 == ByteAt(i + 1) IN
       /\ c % 16 # 0 \/ (c2 % 64) \div 16 # 0           \* not overlong
       /\ c = 224 => (c2 % 64) \div 32 # 0              \* not overlong
       /\ c = 237 => (c2 % 64) \div 32 = 0              \* not a surrogate
    /\ NextIsContinuation(i + 2)

FourBytes(i) ==
    /\ NextIsContinuation(i + 1)
    /\ LET c == ByteAt(i)
           c2 == ByteAt(i + 1) IN
       /\ c % 8 # 0 \/ (c2 % 64) \div 16 # 0            \* not overlong
       /\ IF c = 244 THEN (c2 % 64) \div 16 = 0         \* inside Unicode
                     ELSE (c % 16) \div 4 = 0
    /\ NextIsContinuation(i + 2)
    /\ NextIsContinuation(i + 3)

\* What the check accepts as a character of n bytes at i.
Accepts(i, n) ==
    /\ n = Class(ByteAt(i))
    /\ \/ n = 1
       \/ n = 2 /\ TwoBytes(i)
       \/ n = 3 /\ ThreeBytes(i)
       \/ n = 4 /\ FourBytes(i)

-----------------------------------------------------------------------------
(***************************************************************************)
(* The loop: one action is a round.                                        *)
(***************************************************************************)

Character ==
    /\ verdict = "none" /\ s # len
    /\ \E n \in 1..4 : Accepts(s, n) /\ s' = s + n
    /\ UNCHANGED <<bytes, len, verdict>>

Invalid ==
    /\ verdict = "none" /\ s # len
    /\ ~ \E n \in 1..4 : Accepts(s, n)
    /\ verdict' = "invalid_utf8"
    /\ UNCHANGED <<bytes, len, s>>

End ==
    /\ verdict = "none" /\ s = len
    /\ verdict' = "ok"
    /\ UNCHANGED <<bytes, len, s>>

CheckNext == Character \/ Invalid \/ End

CheckSpec == CheckInit /\ [][CheckNext]_check_vars

FairCheckSpec == CheckSpec /\ WF_check_vars(CheckNext)

-----------------------------------------------------------------------------
(***************************************************************************)
(* The definition of UTF-8, as bin/unit-test.c has it: a table of ranges.  *)
(***************************************************************************)

\* The ranges of the bytes of the characters of n bytes, first byte first.
Table(n) ==
    LET any == 128..191 IN
    CASE n = 1 -> {<<0..127>>}
      [] n = 2 -> {<<194..223, any>>}
      [] n = 3 -> {<<{224}, 160..191, any>>, <<225..236, any, any>>,
                   <<{237}, 128..159, any>>, <<238..239, any, any>>}
      [] n = 4 -> {<<{240}, 144..191, any, any>>, <<241..243, any, any, any>>,
                   <<{244}, 128..143, any, any>>}

\* The n bytes from i are a character.
CharacterAt(i, n) ==
    \E row \in Table(n) : \A k \in 1..n : ByteAt(i + k - 1) \in row[k]

(***************************************************************************)
(* The places in cuts divide the first m bytes into characters.            *)
(***************************************************************************)
Divides(cuts, m) ==
    /\ cuts \subseteq 0..m
    /\ 0 \in cuts /\ m \in cuts
    /\ \A i \in cuts \ {m} : \E n \in 1..4 : i + n \in cuts /\ CharacterAt(i, n)

IsUtf8 == \E cuts \in SUBSET (0..len) : Divides(cuts, len)

-----------------------------------------------------------------------------
(***************************************************************************)
(* Properties                                                              *)
(***************************************************************************)

(***************************************************************************)
(* The check accepts exactly the strings that can be divided into          *)
(* characters of UTF-8: nothing overlong, no surrogates, nothing behind    *)
(* U+10FFFF, no character that the end of the string cuts, and no byte     *)
(* behind the end taken for one of it.  The code asks bits, the definition *)
(* is a table of ranges.                                                   *)
(***************************************************************************)
AcceptsUtf8 ==
    /\ verdict = "ok" => IsUtf8
    /\ verdict = "invalid_utf8" => ~IsUtf8

(***************************************************************************)
(* The place where the check is lies between two characters: whatever way  *)
(* the string can be divided, it is cut there.  So what the check has      *)
(* passed over can never turn out to be a part of a longer character.      *)
(***************************************************************************)
BetweenCharacters ==
    /\ s \in 0..len
    /\ \A cuts \in SUBSET (0..len) : Divides(cuts, len) => s \in cuts
=============================================================================
