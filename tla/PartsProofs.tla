----------------------------- MODULE PartsProofs -----------------------------
(***************************************************************************)
(* Theorems about four of the parts that work by themselves: the UTF-8     *)
(* check, for strings of any bytes and length; the reader of decimals,     *)
(* which stays inside the value for values of any length, damaged ones     *)
(* included; the growable buffer, for sizes and data of any length; and    *)
(* the JSON parser, for texts of any length and containers of any depth.   *)
(***************************************************************************)
EXTENDS Utf8, Decimals, Buffer, JsonParser, SequenceTheorems, TLAPS

Types ==
    /\ bytes \in Seq(0..255)
    /\ len \in 0..Len(bytes)
    /\ s \in 0..len
    /\ verdict \in {"none", "ok", "invalid_utf8"}

\* What has been passed over is divided into characters.
Passed == \E cuts \in SUBSET (0..s) : Divides(cuts, s)

\* Every way to divide the bytes cuts it at s.
Cut == \A cuts \in SUBSET (0..len) : Divides(cuts, len) => s \in cuts

UInv ==
    /\ Types
    /\ verdict # "invalid_utf8" => Passed
    /\ Cut
    /\ AcceptsUtf8

-----------------------------------------------------------------------------
(***************************************************************************)
(* The branches of the loop and the rows of the table.                     *)
(***************************************************************************)

LEMMA Bytes ==
    ASSUME Types, NEW i \in Nat, i < len
    PROVE  ByteAt(i) \in 0..255
  <1>1. i + 1 \in 1..Len(bytes) /\ bytes \in Seq(0..255)
    BY DEF Types
  <1>2. bytes[i + 1] \in 0..255
    BY <1>1, ElementOfSeq
  <1>3. QED  BY <1>1, <1>2 DEF ByteAt

\* As long as the bytes stay, so do the characters.
LEMMA SameCharacters ==
    ASSUME bytes' = bytes
    PROVE  \A i, n : CharacterAt(i, n)' <=> CharacterAt(i, n)
  <1>1. \A i : ByteAt(i)' = ByteAt(i)
    BY DEF ByteAt
  <1>2. QED  BY <1>1 DEF CharacterAt

LEMMA SameMemory ==
    ASSUME bytes' = bytes
    PROVE  \A cuts, m : Divides(cuts, m)' <=> Divides(cuts, m)
  BY SameCharacters DEF Divides

\* The table, row by row.
LEMMA CharacterOfOne ==
    ASSUME NEW i \in Nat
    PROVE  CharacterAt(i, 1) <=> ByteAt(i) \in 0..127
  <1> DEFINE row == <<0..127>>
  <1>1. CharacterAt(i, 1) <=> \A k \in 1..1 : ByteAt(i + k - 1) \in row[k]
    <2>1. Table(1) = {row}
      BY DEF Table
    <2> HIDE DEF row
    <2>2. QED  BY <2>1 DEF CharacterAt
  <1>2. row[1] = 0..127 /\ i + 1 - 1 = i
    OBVIOUS
  <1> HIDE DEF row
  <1>3. QED  BY <1>1, <1>2

LEMMA CharacterOfTwo ==
    ASSUME NEW i \in Nat
    PROVE  CharacterAt(i, 2) <=> ByteAt(i) \in 194..223 /\ ByteAt(i + 1) \in 128..191
  <1> DEFINE row == <<194..223, 128..191>>
  <1>1. CharacterAt(i, 2) <=> \A k \in 1..2 : ByteAt(i + k - 1) \in row[k]
    <2>1. Table(2) = {row}
      BY DEF Table
    <2> HIDE DEF row
    <2>2. QED  BY <2>1 DEF CharacterAt
  <1>2. /\ row[1] = 194..223 /\ i + 1 - 1 = i
        /\ row[2] = 128..191 /\ i + 2 - 1 = i + 1
    OBVIOUS
  <1> HIDE DEF row
  <1>3. 1..2 = {1, 2}
    OBVIOUS
  <1>4. QED  BY <1>1, <1>2, <1>3

\* A row of three ranges, and one of four.
LEMMA RowOfThree ==
    ASSUME NEW i \in Nat, NEW A, NEW B, NEW C, NEW row, row = <<A, B, C>>
    PROVE  (\A k \in 1..3 : ByteAt(i + k - 1) \in row[k])
           <=> ByteAt(i) \in A /\ ByteAt(i + 1) \in B /\ ByteAt(i + 2) \in C
  <1>1. /\ row[1] = A /\ i + 1 - 1 = i
        /\ row[2] = B /\ i + 2 - 1 = i + 1
        /\ row[3] = C /\ i + 3 - 1 = i + 2
    OBVIOUS
  <1>2. 1..3 = {1, 2, 3}
    OBVIOUS
  <1>3. QED  BY <1>1, <1>2

LEMMA RowOfFour ==
    ASSUME NEW i \in Nat, NEW A, NEW B, NEW C, NEW D, NEW row, row = <<A, B, C, D>>
    PROVE  (\A k \in 1..4 : ByteAt(i + k - 1) \in row[k])
           <=> /\ ByteAt(i) \in A /\ ByteAt(i + 1) \in B
               /\ ByteAt(i + 2) \in C /\ ByteAt(i + 3) \in D
  <1>1. /\ row[1] = A /\ i + 1 - 1 = i
        /\ row[2] = B /\ i + 2 - 1 = i + 1
        /\ row[3] = C /\ i + 3 - 1 = i + 2
        /\ row[4] = D /\ i + 4 - 1 = i + 3
    OBVIOUS
  <1>2. 1..4 = {1, 2, 3, 4}
    OBVIOUS
  <1>3. QED  BY <1>1, <1>2

LEMMA CharacterOfThree ==
    ASSUME NEW i \in Nat
    PROVE  CharacterAt(i, 3) <=>
             \/ ByteAt(i) \in {224} /\ ByteAt(i + 1) \in 160..191 /\ ByteAt(i + 2) \in 128..191
             \/ ByteAt(i) \in 225..236 /\ ByteAt(i + 1) \in 128..191 /\ ByteAt(i + 2) \in 128..191
             \/ ByteAt(i) \in {237} /\ ByteAt(i + 1) \in 128..159 /\ ByteAt(i + 2) \in 128..191
             \/ ByteAt(i) \in 238..239 /\ ByteAt(i + 1) \in 128..191 /\ ByteAt(i + 2) \in 128..191
  <1> DEFINE Fits(row) == \A k \in 1..3 : ByteAt(i + k - 1) \in row[k]
             a == <<{224}, 160..191, 128..191>>
             b == <<225..236, 128..191, 128..191>>
             c == <<{237}, 128..159, 128..191>>
             d == <<238..239, 128..191, 128..191>>
  <1>1. Table(3) = {a, b, c, d}
    BY DEF Table
  <1>2. CharacterAt(i, 3) <=> \E row \in {a, b, c, d} : Fits(row)
    <2> HIDE DEF a, b, c, d
    <2> QED  BY <1>1 DEF CharacterAt
  <1>3. CharacterAt(i, 3) <=> Fits(a) \/ Fits(b) \/ Fits(c) \/ Fits(d)
    <2> HIDE DEF a, b, c, d, Fits
    <2> QED  BY <1>2
  <1>4. /\ Fits(a) <=> ByteAt(i) \in {224} /\ ByteAt(i + 1) \in 160..191 /\ ByteAt(i + 2) \in 128..191
        /\ Fits(b) <=> ByteAt(i) \in 225..236 /\ ByteAt(i + 1) \in 128..191 /\ ByteAt(i + 2) \in 128..191
        /\ Fits(c) <=> ByteAt(i) \in {237} /\ ByteAt(i + 1) \in 128..159 /\ ByteAt(i + 2) \in 128..191
        /\ Fits(d) <=> ByteAt(i) \in 238..239 /\ ByteAt(i + 1) \in 128..191 /\ ByteAt(i + 2) \in 128..191
    BY RowOfThree
  <1> HIDE DEF a, b, c, d, Fits
  <1>5. QED  BY <1>3, <1>4

LEMMA CharacterOfFour ==
    ASSUME NEW i \in Nat
    PROVE  CharacterAt(i, 4) <=>
             \/ /\ ByteAt(i) \in {240} /\ ByteAt(i + 1) \in 144..191
                /\ ByteAt(i + 2) \in 128..191 /\ ByteAt(i + 3) \in 128..191
             \/ /\ ByteAt(i) \in 241..243 /\ ByteAt(i + 1) \in 128..191
                /\ ByteAt(i + 2) \in 128..191 /\ ByteAt(i + 3) \in 128..191
             \/ /\ ByteAt(i) \in {244} /\ ByteAt(i + 1) \in 128..143
                /\ ByteAt(i + 2) \in 128..191 /\ ByteAt(i + 3) \in 128..191
  <1> DEFINE Fits(row) == \A k \in 1..4 : ByteAt(i + k - 1) \in row[k]
             any == 128..191
             a == <<{240}, 144..191, any, any>>
             b == <<241..243, any, any, any>>
             c == <<{244}, 128..143, any, any>>
  <1>1. Table(4) = {a, b, c}
    BY DEF Table
  <1>2. CharacterAt(i, 4) <=> \E row \in {a, b, c} : Fits(row)
    <2> HIDE DEF a, b, c
    <2> QED  BY <1>1 DEF CharacterAt
  <1>3. CharacterAt(i, 4) <=> Fits(a) \/ Fits(b) \/ Fits(c)
    <2> HIDE DEF a, b, c, Fits
    <2> QED  BY <1>2
  <1>4. /\ Fits(a) <=> /\ ByteAt(i) \in {240} /\ ByteAt(i + 1) \in 144..191
                       /\ ByteAt(i + 2) \in any /\ ByteAt(i + 3) \in any
        /\ Fits(b) <=> /\ ByteAt(i) \in 241..243 /\ ByteAt(i + 1) \in any
                       /\ ByteAt(i + 2) \in any /\ ByteAt(i + 3) \in any
        /\ Fits(c) <=> /\ ByteAt(i) \in {244} /\ ByteAt(i + 1) \in 128..143
                       /\ ByteAt(i + 2) \in any /\ ByteAt(i + 3) \in any
    BY RowOfFour
  <1> HIDE DEF a, b, c, Fits
  <1>5. QED  BY <1>3, <1>4

(***************************************************************************)
(* What the check accepts as a character of n bytes is one, and lies       *)
(* inside the string; and every character that lies inside is accepted.    *)
(***************************************************************************)
LEMMA AcceptsInside ==
    ASSUME Types, NEW i \in Nat, i < len, NEW n \in 1..4, Accepts(i, n)
    PROVE  i + n <= len
  BY DEF Types, Accepts, TwoBytes, ThreeBytes, FourBytes, NextIsContinuation

LEMMA AcceptsCharacters ==
    ASSUME Types, NEW i \in Nat, i < len, NEW n \in 1..4, i + n <= len
    PROVE  Accepts(i, n) <=> CharacterAt(i, n)
  <1> i + 1 \in Nat /\ i + 2 \in Nat /\ i + 3 \in Nat /\ len \in Nat
    BY DEF Types
  <1> DEFINE b == ByteAt(i)
             b1 == ByteAt(i + 1)
             b2 == ByteAt(i + 2)
             b3 == ByteAt(i + 3)
  <1>b. b \in 0..255
    BY Bytes
  <1>1. CASE n = 1
    <2>1. Accepts(i, 1) <=> b < 128
      BY <1>b DEF Accepts, Class
    <2>2. CharacterAt(i, 1) <=> b \in 0..127
      BY CharacterOfOne
    <2>3. QED  BY <1>1, <1>b, <2>1, <2>2
  <1>2. CASE n = 2
    <2>b. b1 \in 0..255
      BY <1>2, Bytes
    <2>1. Accepts(i, 2) <=> ~(b < 128) /\ b \div 32 = 6 /\ (b % 32) \div 2 # 0 /\ b1 \div 64 = 2
      BY <1>2, <1>b DEF Accepts, Class, TwoBytes, NextIsContinuation, IsContinuation
    <2>2. CharacterAt(i, 2) <=> b \in 194..223 /\ b1 \in 128..191
      BY CharacterOfTwo
    <2> HIDE DEF b, b1
    <2>3. QED  BY <1>2, <1>b, <2>b, <2>1, <2>2
  <1>3. CASE n = 3
    <2>b. b1 \in 0..255 /\ b2 \in 0..255
      BY <1>3, Bytes
    <2>1. Accepts(i, 3) <=>
            /\ ~(b < 128) /\ b \div 32 # 6 /\ b \div 16 = 14
            /\ b1 \div 64 = 2 /\ b2 \div 64 = 2
            /\ b % 16 # 0 \/ (b1 % 64) \div 16 # 0
            /\ b = 224 => (b1 % 64) \div 32 # 0
            /\ b = 237 => (b1 % 64) \div 32 = 0
      BY <1>3, <1>b DEF Accepts, Class, ThreeBytes, NextIsContinuation, IsContinuation
    <2>2. CharacterAt(i, 3) <=>
            \/ b \in {224} /\ b1 \in 160..191 /\ b2 \in 128..191
            \/ b \in 225..236 /\ b1 \in 128..191 /\ b2 \in 128..191
            \/ b \in {237} /\ b1 \in 128..159 /\ b2 \in 128..191
            \/ b \in 238..239 /\ b1 \in 128..191 /\ b2 \in 128..191
      BY CharacterOfThree
    <2> HIDE DEF b, b1, b2
    <2>3. QED  BY <1>3, <1>b, <2>b, <2>1, <2>2
  <1>4. CASE n = 4
    <2>b. b1 \in 0..255 /\ b2 \in 0..255 /\ b3 \in 0..255
      BY <1>4, Bytes
    <2>1. Accepts(i, 4) <=>
            /\ ~(b < 128) /\ b \div 32 # 6 /\ b \div 16 # 14 /\ b \div 8 = 30
            /\ b1 \div 64 = 2 /\ b2 \div 64 = 2 /\ b3 \div 64 = 2
            /\ b % 8 # 0 \/ (b1 % 64) \div 16 # 0
            /\ IF b = 244 THEN (b1 % 64) \div 16 = 0 ELSE (b % 16) \div 4 = 0
      BY <1>4, <1>b DEF Accepts, Class, FourBytes, NextIsContinuation, IsContinuation
    <2>2. CharacterAt(i, 4) <=>
            \/ b \in {240} /\ b1 \in 144..191 /\ b2 \in 128..191 /\ b3 \in 128..191
            \/ b \in 241..243 /\ b1 \in 128..191 /\ b2 \in 128..191 /\ b3 \in 128..191
            \/ b \in {244} /\ b1 \in 128..143 /\ b2 \in 128..191 /\ b3 \in 128..191
      BY CharacterOfFour
    <2> HIDE DEF b, b1, b2, b3
    <2>3. QED  BY <1>4, <1>b, <2>b, <2>1, <2>2
  <1>5. QED  BY <1>1, <1>2, <1>3, <1>4

-----------------------------------------------------------------------------
(***************************************************************************)
(* The invariant.                                                          *)
(***************************************************************************)

LEMMA InitUInv == CheckInit => UInv
  <1> SUFFICES ASSUME CheckInit PROVE UInv
    OBVIOUS
  <1>1. Types
    BY MemoriesAssumption DEF CheckInit, Types
  <1>2. Divides({0}, 0) /\ s = 0
    BY DEF CheckInit, Divides
  <1>3. Passed
    BY <1>2 DEF Passed
  <1>4. Cut
    BY <1>2 DEF Cut, Divides
  <1>5. AcceptsUtf8
    BY DEF CheckInit, AcceptsUtf8
  <1>6. QED  BY <1>1, <1>3, <1>4, <1>5 DEF UInv

\* Where a way to divide the bytes has its next cut.
LEMMA NextCut ==
    ASSUME Types, Cut, s # len, NEW cuts \in SUBSET (0..len), Divides(cuts, len)
    PROVE  \E n \in 1..4 : s + n \in cuts /\ Accepts(s, n)
  <1>1. s \in cuts \ {len}
    BY DEF Cut
  <1>2. PICK n \in 1..4 : s + n \in cuts /\ CharacterAt(s, n)
    BY <1>1 DEF Divides
  <1>3. s \in Nat /\ s < len /\ s + n <= len
    BY <1>2 DEF Types
  <1>4. Accepts(s, n)
    BY <1>2, <1>3, AcceptsCharacters
  <1>5. QED  BY <1>2, <1>4

LEMMA CharacterStep ==
    ASSUME UInv, Character
    PROVE  UInv'
  <1>1. PICK n \in 1..4 : Accepts(s, n) /\ s' = s + n
    BY DEF Character
  <1>2. s \in Nat /\ len \in Nat /\ s < len /\ UNCHANGED <<bytes, len, verdict>> /\ verdict = "none"
    BY DEF UInv, Types, Character
  <1>3. s + n <= len
    BY <1>1, <1>2, AcceptsInside DEF UInv
  <1>4. Types'
    BY <1>1, <1>2, <1>3 DEF UInv, Types
  <1>5. Passed'
    <2>1. PICK cuts \in SUBSET (0..s) : Divides(cuts, s)
      BY <1>2 DEF UInv, Passed
    <2> DEFINE more == cuts \cup {s + n}
    <2>2. CharacterAt(s, n)
      BY <1>1, <1>2, <1>3, AcceptsCharacters DEF UInv
    <2>3. more \in SUBSET (0..s + n) /\ 0 \in more /\ s + n \in more
      BY <1>2, <2>1 DEF Divides
    <2>4. \A i \in more \ {s + n} : \E m \in 1..4 : i + m \in more /\ CharacterAt(i, m)
      <3>1. TAKE i \in more \ {s + n}
      <3>2. CASE i = s
        BY <2>2, <3>2
      <3>3. CASE i # s
        BY <2>1, <3>1, <3>3 DEF Divides
      <3>4. QED  BY <3>2, <3>3
    <2>5. QED  BY <1>1, <1>2, <2>3, <2>4, SameCharacters DEF Passed, Divides
  <1>6. Cut'
    <2>1. SUFFICES ASSUME NEW cuts \in SUBSET (0..len), Divides(cuts, len)
                   PROVE  s + n \in cuts
      BY <1>1, <1>2 DEF Cut, Divides, CharacterAt, ByteAt
    <2>2. PICK m \in 1..4 : s + m \in cuts /\ Accepts(s, m)
      BY <1>2, <2>1, NextCut DEF UInv
    <2>3. m = n
      BY <1>1, <2>2 DEF Accepts
    <2>4. QED  BY <2>2, <2>3
  <1>7. AcceptsUtf8'
    BY <1>2 DEF AcceptsUtf8
  <1>8. QED  BY <1>4, <1>5, <1>6, <1>7 DEF UInv

LEMMA InvalidStep ==
    ASSUME UInv, Invalid
    PROVE  UInv'
  <1>1. Types'
    BY DEF UInv, Types, Invalid
  <1>2. Cut'
    BY DEF UInv, Cut, Divides, CharacterAt, ByteAt, Invalid
  <1>3. ~ IsUtf8
    BY NextCut DEF UInv, Invalid, IsUtf8
  <1>4. AcceptsUtf8'
    BY <1>3 DEF AcceptsUtf8, IsUtf8, Divides, CharacterAt, ByteAt, Invalid
  <1>5. QED  BY <1>1, <1>2, <1>4 DEF UInv, Invalid

LEMMA EndStep ==
    ASSUME UInv, End
    PROVE  UInv'
  <1>1. Types'
    BY DEF UInv, Types, End
  <1>2. Cut'
    BY DEF UInv, Cut, Divides, CharacterAt, ByteAt, End
  <1>3. Passed /\ s = len
    BY DEF UInv, End
  <1>4. IsUtf8
    BY <1>3 DEF Passed, IsUtf8
  <1>5. Passed' /\ AcceptsUtf8'
    BY <1>3, <1>4 DEF Passed, AcceptsUtf8, IsUtf8, Divides, CharacterAt, ByteAt, End
  <1>6. QED  BY <1>1, <1>2, <1>5 DEF UInv

LEMMA NextUInv == UInv /\ [CheckNext]_check_vars => UInv'
  <1> SUFFICES ASSUME UInv, [CheckNext]_check_vars PROVE UInv'
    OBVIOUS
  <1>1. CASE Character
    BY <1>1, CharacterStep
  <1>2. CASE Invalid
    BY <1>2, InvalidStep
  <1>3. CASE End
    BY <1>3, EndStep
  <1>4. CASE UNCHANGED check_vars
    BY <1>4, SameMemory DEF check_vars, UInv, Types, Passed, Cut, AcceptsUtf8, IsUtf8
  <1>5. QED  BY <1>1, <1>2, <1>3, <1>4 DEF CheckNext

LEMMA InductiveUInv == CheckSpec => []UInv
  BY InitUInv, NextUInv, PTL DEF CheckSpec

(***************************************************************************)
(* For strings of any bytes and any length, with anything behind them, the *)
(* check accepts exactly those that can be divided into characters of      *)
(* UTF-8.                                                                  *)
(***************************************************************************)
THEOREM AcceptsExactlyUtf8 == CheckSpec => []AcceptsUtf8
  <1>1. UInv => AcceptsUtf8
    BY DEF UInv
  <1>2. QED  BY <1>1, InductiveUInv, PTL

(***************************************************************************)
(* The check never stands inside a character, whatever way the string can  *)
(* be divided.                                                             *)
(***************************************************************************)
THEOREM NeverInsideCharacter == CheckSpec => []BetweenCharacters
  <1>1. UInv => BetweenCharacters
    BY DEF UInv, Types, Cut, BetweenCharacters
  <1>2. QED  BY <1>1, InductiveUInv, PTL

-----------------------------------------------------------------------------
(***************************************************************************)
(* The reader of decimals                                                  *)
(***************************************************************************)

InMantissa == {"sign", "mantissa", "mantissa_words"}
InExponent == {"e", "exponent_sign", "exponent", "exponent_words"}

\* A part of the value that has at least one byte.
IsPart(part) == part.start \in Nat /\ part.end \in Nat /\ part.start < part.end

Placed ==
    /\ mantissa.end = ValueEnd /\ mantissa.start \in Nat
    /\ value.integer => mantissa.start = 1
    /\ ~value.integer => /\ IsPart(mantissa) /\ IsPart(exponent)
                         /\ LengthSize < exponent.start /\ exponent.end = mantissa.start

\* A whole number of words is left of the part.
WordsLeft ==
    /\ word_start \in Int /\ CurrentPart.start \in Nat
    /\ CurrentPart.start <= word_start
    /\ (word_start - CurrentPart.start) % WordBytes = 0

(***************************************************************************)
(* The inductive invariant.                                                *)
(***************************************************************************)
ReaderInv ==
    /\ value \in DecimalValues
    /\ reader_pc \in {"start", "done", "failed"} \cup InMantissa \cup InExponent
    /\ reader_pc \notin {"start", "failed"} => Placed
    /\ reader_pc \in InExponent => ~value.integer
    /\ reader_pc \in {"mantissa_words", "exponent_words"} => WordsLeft

\* A length of 1, 2, 4 or 8 bytes.
LEMMA LengthSizes == ASSUME value \in DecimalValues PROVE LengthSize \in {1, 2, 4, 8}
  <1>1. value.width \in {0, 1, 2, 3}
    BY DecimalValuesAssumption DEF Width
  <1>2. 2 ^ 0 = 1 /\ 2 ^ 1 = 2 /\ 2 ^ 2 = 4 /\ 2 ^ 3 = 8
    OBVIOUS
  <1>3. QED  BY <1>1, <1>2 DEF LengthSize

LEMMA ValueIsPart == ASSUME value \in DecimalValues PROVE ValueEnd \in Nat /\ ValueEnd >= 1
  <1>1. Len(ValueBytes) \in Nat
    BY DecimalValuesAssumption DEF ValueBytes
  <1>2. QED  BY <1>1 DEF ValueEnd

\* In front of a last word of up to eight bytes whole words are left.
LEMMA LastWordLeaves ==
    ASSUME NEW part, IsPart(part)
    PROVE  LET word == part.end - LastWordSize(part)
           IN  word \in Int /\ part.start <= word /\ (word - part.start) % WordBytes = 0
  <1> DEFINE n == part.end - part.start - 1
  <1>1. n \in Nat
    BY DEF IsPart
  <1>2. n - (n % 8) >= 0 /\ (n - (n % 8)) % 8 = 0 /\ n % 8 \in Nat
    <2> HIDE DEF n
    <2>1. QED  BY <1>1
  <1>3. part.end - LastWordSize(part) = part.start + (n - (n % 8))
    BY <1>2 DEF LastWordSize, WordBytes, IsPart
  <1>4. (part.end - LastWordSize(part)) - part.start = n - (n % 8)
    BY <1>2, <1>3 DEF IsPart
  <1> HIDE DEF n
  <1>5. QED  BY <1>1, <1>2, <1>3, <1>4 DEF IsPart, WordBytes

\* Whole words, and one of them is printed.
LEMMA WordLeaves ==
    ASSUME NEW n \in Int, NEW start \in Nat, n > start, (n - start) % WordBytes = 0
    PROVE  start <= n - WordBytes /\ ((n - WordBytes) - start) % WordBytes = 0
  BY DEF WordBytes

\* Only the integer without bytes has a part without a word.
LEMMA PartHasWord ==
    ASSUME ReaderInv, AtLastWord
    PROVE  IsPart(CurrentPart)
  <1>1. value \in DecimalValues /\ Placed
    BY DEF ReaderInv, AtLastWord
  <1>2. CASE reader_pc = "exponent"
    BY <1>1, <1>2 DEF ReaderInv, InExponent, Placed, CurrentPart
  <1>3. CASE reader_pc = "mantissa" /\ ~value.integer
    BY <1>1, <1>3 DEF Placed, CurrentPart
  <1>4. CASE reader_pc = "mantissa" /\ value.integer
    <2>1. ValueBytes \in Seq(Nat) /\ ValueBytes # <<>>
      BY <1>1, <1>4, DecimalValuesAssumption DEF AtLastWord, ValueBytes
    <2>2. ValueEnd \in Nat /\ 1 < ValueEnd
      BY <2>1 DEF ValueEnd
    <2>3. QED  BY <1>1, <1>4, <2>2 DEF Placed, CurrentPart, IsPart
  <1>5. QED  BY <1>2, <1>3, <1>4 DEF AtLastWord

LEMMA AnalyzeInv == ReaderInv /\ Analyze => ReaderInv'
  <1> SUFFICES ASSUME ReaderInv, Analyze
               PROVE  ReaderInv'
    OBVIOUS
  <1>1. value \in DecimalValues /\ value' = value /\ reader_pc' = "sign" /\ ~value.integer
    BY DEF ReaderInv, Analyze
  <1>2. LengthSize \in {1, 2, 4, 8} /\ ValueEnd \in Nat
    BY <1>1, LengthSizes, ValueIsPart
  <1>3. /\ RawLength \in Nat /\ Len(ValueBytes) \in Nat
        /\ RawLength + 1 <= Len(ValueBytes) - LengthSize - 1
    BY <1>1, SizeMaxAssumption, DecimalValuesAssumption DEF Analyze, LengthFits, ValueBytes
  <1>4. /\ exponent'.start = LengthSize + 1 /\ exponent'.end = LengthSize + 1 + RawLength + 1
        /\ mantissa'.start = exponent'.end /\ mantissa'.end = ValueEnd
    BY DEF Analyze, PartAt
  <1>5. mantissa'.start < ValueEnd
    BY <1>2, <1>3, <1>4 DEF ValueEnd
  <1>6. IsPart(exponent') /\ IsPart(mantissa') /\ LengthSize < exponent'.start
    BY <1>2, <1>3, <1>4, <1>5 DEF IsPart
  <1>7. Placed'
    BY <1>1, <1>2, <1>4, <1>6 DEF Placed, ValueEnd, ValueBytes, LengthSize, IsPart
  <1>8. QED  BY <1>1, <1>7 DEF ReaderInv, InMantissa, InExponent

LEMMA AnalyzeIntegerInv == ReaderInv /\ AnalyzeInteger => ReaderInv'
  <1> SUFFICES ASSUME ReaderInv, AnalyzeInteger
               PROVE  ReaderInv'
    OBVIOUS
  <1>1. value \in DecimalValues /\ value' = value /\ reader_pc' = "sign" /\ value.integer
        /\ mantissa'.start = 1 /\ mantissa'.end = ValueEnd
    BY DEF ReaderInv, AnalyzeInteger, PartAt
  <1>2. Placed'
    BY <1>1 DEF Placed, ValueEnd, ValueBytes
  <1>3. QED  BY <1>1, <1>2 DEF ReaderInv, InMantissa, InExponent

LEMMA LastWordInv == ReaderInv /\ PrintLastWord => ReaderInv'
  <1> SUFFICES ASSUME ReaderInv, PrintLastWord
               PROVE  ReaderInv'
    OBVIOUS
  <1> DEFINE part == CurrentPart
  <1>1. IsPart(part) /\ word_start' = part.end - LastWordSize(part)
    BY PartHasWord DEF PrintLastWord
  <1>2. /\ word_start' \in Int /\ part.start <= word_start'
        /\ (word_start' - part.start) % WordBytes = 0 /\ part.start \in Nat
    <2> HIDE DEF part
    <2>1. QED  BY <1>1, LastWordLeaves DEF IsPart
  <1>3. UNCHANGED <<value, mantissa, exponent>> /\ reader_pc' = WordsOfPart
    BY DEF PrintLastWord, Callback
  <1>4. CurrentPart' = part
    BY <1>3 DEF CurrentPart, WordsOfPart, PrintLastWord, AtLastWord
  <1>5. WordsLeft'
    BY <1>2, <1>4 DEF WordsLeft
  <1>6. Placed'
    BY <1>3 DEF ReaderInv, PrintLastWord, AtLastWord, Placed, ValueEnd, ValueBytes, LengthSize
  <1>7. reader_pc' = "mantissa_words" \/ (reader_pc' = "exponent_words" /\ ~value.integer)
    BY <1>3 DEF WordsOfPart, ReaderInv, PrintLastWord, AtLastWord, InExponent
  <1>8. QED  BY <1>3, <1>5, <1>6, <1>7 DEF ReaderInv, InMantissa, InExponent

LEMMA WordInv == ReaderInv /\ PrintWord => ReaderInv'
  <1> SUFFICES ASSUME ReaderInv, PrintWord
               PROVE  ReaderInv'
    OBVIOUS
  <1>1. /\ UNCHANGED <<value, mantissa, exponent, reader_pc>>
        /\ word_start' = word_start - WordBytes /\ word_start > CurrentPart.start /\ WordsLeft
    BY DEF PrintWord, AtWord, Callback, ReaderInv
  <1>2. CurrentPart' = CurrentPart
    BY <1>1 DEF CurrentPart
  <1> DEFINE start == CurrentPart.start
  <1>3. word_start \in Int /\ start \in Nat /\ word_start > start
        /\ (word_start - start) % WordBytes = 0
    BY <1>1 DEF WordsLeft
  <1>4. CurrentPart'.start = start
    BY <1>2
  <1> HIDE DEF start
  <1>5. start <= word_start' /\ (word_start' - start) % WordBytes = 0 /\ word_start' \in Int
    BY <1>1, <1>3, WordLeaves DEF WordBytes
  <1>6. WordsLeft'
    BY <1>3, <1>4, <1>5 DEF WordsLeft
  <1>7. Placed' <=> Placed
    BY <1>1 DEF Placed, ValueEnd, ValueBytes, LengthSize
  <1>8. QED  BY <1>1, <1>6, <1>7 DEF ReaderInv

\* What is printed between the words.
LEMMA OtherInv ==
    ASSUME ReaderInv, UNCHANGED <<value, mantissa, exponent>>,
           \/ reader_pc = "start" /\ reader_pc' = "failed"
           \/ /\ reader_pc # "start"
              /\ \/ reader_pc' \in {"mantissa", "done", "failed"}
                 \/ reader_pc' \in {"e", "exponent_sign", "exponent"} /\ ~value.integer,
           reader_pc # "failed"
    PROVE  ReaderInv'
  <1>1. Placed' <=> Placed
    BY DEF Placed, ValueEnd, ValueBytes, LengthSize
  <1>2. QED  BY <1>1 DEF ReaderInv, InMantissa, InExponent

LEMMA ReaderNextInv == ReaderInv /\ [ReaderNext]_reader_vars => ReaderInv'
  <1> SUFFICES ASSUME ReaderInv, [ReaderNext]_reader_vars
               PROVE  ReaderInv'
    OBVIOUS
  <1>1. CASE UNCHANGED reader_vars
    BY <1>1 DEF reader_vars, ReaderInv, Placed, WordsLeft, CurrentPart, ValueEnd, ValueBytes, LengthSize
  <1>2. CASE AnalyzeFails \/ LastWordFails \/ WordFails \/ CallbackFails
    <2>1. reader_pc' = "failed" /\ UNCHANGED <<value, mantissa, exponent>> /\ reader_pc # "failed"
      BY <1>2 DEF AnalyzeFails, LastWordFails, WordFails, CallbackFails, Fail, AtLastWord, AtWord
    <2>2. QED  BY <2>1, OtherInv
  <1>3. CASE PrintSign \/ PrintZero
    <2>1. /\ UNCHANGED <<value, mantissa, exponent>> /\ reader_pc \in {"sign", "mantissa"}
          /\ reader_pc' \in {"mantissa", "done"}
      BY <1>3 DEF PrintSign, PrintZero, Callback
    <2>2. QED  BY <2>1, OtherInv
  <1>4. CASE PartPrinted
    <2>1. /\ UNCHANGED <<value, mantissa, exponent>>
          /\ reader_pc \in {"mantissa_words", "exponent_words"}
          /\ reader_pc' = "done" \/ (reader_pc' = "e" /\ ~value.integer)
      BY <1>4 DEF PartPrinted
    <2>2. QED  BY <2>1, OtherInv
  <1>5. CASE PrintExp \/ PrintExponentSign
    <2>1. /\ UNCHANGED <<value, mantissa, exponent>> /\ reader_pc \in {"e", "exponent_sign"}
          /\ reader_pc' \in {"exponent_sign", "exponent"}
      BY <1>5 DEF PrintExp, PrintExponentSign, Callback
    <2>2. ~value.integer
      BY <2>1 DEF ReaderInv, InExponent
    <2>3. QED  BY <2>1, <2>2, OtherInv
  <1>6. QED
    BY <1>1, <1>2, <1>3, <1>4, <1>5, AnalyzeInv, AnalyzeIntegerInv, LastWordInv, WordInv
    DEF ReaderNext

(***************************************************************************)
(* Whatever the bytes of a decimal are, every word that is read for it     *)
(* lies in the part to which it belongs, and the parts are inside the      *)
(* value and fill it: a length that does not fit is refused before it is   *)
(* used (lib/reader/decimal.c).                                            *)
(***************************************************************************)
THEOREM EveryPartInside == ReaderSpec => []PartsInside
  <1>1. ReaderInit => ReaderInv
    BY DEF ReaderInit, ReaderInv, InMantissa, InExponent
  <1>2. ReaderInv /\ [ReaderNext]_reader_vars => ReaderInv'
    BY ReaderNextInv
  <1>3. ReaderInv => PartsInside
    <2> SUFFICES ASSUME ReaderInv
                 PROVE  PartsInside
      OBVIOUS
    <2>1. ValueEnd \in Nat /\ ValueEnd >= 1
      BY ValueIsPart DEF ReaderInv
    <2>2. QED
      BY <2>1 DEF ReaderInv, PartsInside, Placed, WordsLeft, IsPart, InMantissa, InExponent
  <1>4. QED  BY <1>1, <1>2, <1>3, PTL DEF ReaderSpec

-----------------------------------------------------------------------------
(***************************************************************************)
(* The growable buffer                                                     *)
(***************************************************************************)

Growing == {"check", "open", "fallocate", "map"}
Running == Growing \cup {"store", "malloc", "double"}

\* What is asked for fits in the size that was chosen.
Room ==
    /\ pc = "malloc" => place # "file" /\ Required <= new_size
    /\ pc \in Growing => new_size = 0 \/ Required <= new_size
    /\ pc \in Growing \cup {"malloc", "double"} => size < Required
    /\ pc = "open" => place # "file"

\* What the process holds, also in the middle of a push.
Held ==
    pc \notin {"killed", "wiped"} =>
        /\ blocks = IF place = "heap" THEN 1 ELSE 0
        /\ mappings = IF place = "file" THEN 1 ELSE 0
        /\ files = IF place = "file" \/ pc \in {"fallocate", "map"} THEN 1 ELSE 0

\* The pages are there, unless the disk was full.
Disk ==
    \/ full
    \/ /\ place = "file" => size <= allocated
       /\ pc = "map" => new_size <= allocated

BInv ==
    /\ TypeOK
    /\ pc \in Running => data \in Pieces
    /\ Room
    /\ Held
    /\ pc = "wiped" => blocks = 0 /\ files = 0 /\ mappings = 0
    /\ Disk
    /\ KilledOnlyByFullDisk

-----------------------------------------------------------------------------
(***************************************************************************)
(* The size of a file.                                                     *)
(***************************************************************************)

LEMMA Division ==
    ASSUME NEW x \in Nat, NEW d \in Nat \ {0}
    PROVE  /\ x \div d \in Nat /\ x % d \in 0 .. d - 1
           /\ x = (x \div d) * d + (x % d)
  OBVIOUS

\* Rounding up to a multiple is at least what was asked for, or wraps to 0.
LEMMA RoundedUp ==
    ASSUME NEW required \in 1 .. MaxSize
    PROVE  Rounded(required) \in Nat
           /\ (Rounded(required) = 0 \/ required <= Rounded(required))
  <1> DEFINE M == MaxSize + 1
             x == required - 1 + Extension
             q == (x % M) \div Extension
  <1>1. /\ M \in Nat \ {0} /\ Extension \in Nat \ {0} /\ x \in Nat
        /\ 2 * Extension <= M /\ required <= MaxSize /\ required \in Nat
    BY SizesAssumption
  <1>2. Rounded(required) = q * Extension
    BY DEF Rounded
  <1> HIDE DEF M, x
  <1>3. x % M \in Nat
    BY <1>1, Division
  <1>4. q \in Nat /\ x % M = q * Extension + ((x % M) % Extension)
        /\ (x % M) % Extension \in 0 .. Extension - 1
    BY <1>1, <1>3, Division
  <1>5. q * Extension \in Nat
    BY <1>1, <1>4
  <1>6. CASE x < M
    <2>1. x % M = x
      BY <1>1, <1>6
    <2>2. QED  BY <1>1, <1>2, <1>4, <1>5, <2>1 DEF x
  <1>7. CASE x >= M
    <2>1. M = MaxSize + 1 /\ x = required - 1 + Extension /\ MaxSize \in Nat
      BY SizesAssumption DEF x, M
    <2>2. x - M \in 0 .. M - 1 /\ x - M < Extension
      BY <1>1, <1>7, <2>1
    <2>3. x % M = x - M
      BY <1>1, <2>2
    <2>4. x % M < Extension
      BY <2>2, <2>3
    <2>5. q = 0
      BY <1>1, <1>3, <2>4
    <2>6. QED  BY <1>1, <1>2, <2>5
  <1>8. QED  BY <1>1, <1>6, <1>7

-----------------------------------------------------------------------------
(***************************************************************************)
(* The invariant.                                                          *)
(***************************************************************************)

LEMMA InitBInv == Init => BInv
  <1> SUFFICES ASSUME Init PROVE BInv
    OBVIOUS
  <1>1. TypeOK
    <2>1. Mini \in Nat /\ memory \in [0 .. size - 1 -> Byte \cup {Junk}]
      BY SizesAssumption DEF Init
    <2>2. full \in BOOLEAN
      BY Zenon DEF Init
    <2>3. QED  BY <2>1, <2>2 DEF Init, TypeOK
  <1>2. QED
    BY <1>1 DEF Init, BInv, Room, Held, Disk, KilledOnlyByFullDisk, Growing, Running

LEMMA Data ==
    ASSUME BInv
    PROVE  /\ data \in Seq(Byte) /\ Len(data) \in Nat /\ Required \in Nat /\ used \in Nat
           /\ \A i \in 1..Len(data) : data[i] \in Byte
  <1>1. data \in Seq(Byte)
    <2>1. data \in Pieces \/ data = <<>>
      BY DEF BInv, TypeOK
    <2>2. <<>> \in Seq(Byte)
      OBVIOUS
    <2>3. QED  BY <2>1, <2>2, PiecesAssumption
  <1>2. used \in Nat
    BY DEF BInv, TypeOK
  <1>3. \A i \in 1..Len(data) : data[i] \in Byte
    BY <1>1
  <1>4. QED  BY <1>1, <1>2, <1>3 DEF Required

LEMMA Numbers ==
    ASSUME BInv
    PROVE  /\ size \in Nat /\ used \in Nat /\ new_size \in Nat /\ Required \in Nat
           /\ used <= size /\ used <= Required
  BY Data DEF BInv, TypeOK, Required

LEMMA PushStep ==
    ASSUME BInv, NEW piece \in Pieces, Push(piece)
    PROVE  BInv'
  <1>1. Len(piece) \in Nat /\ used \in Nat /\ size \in Nat /\ MaxSize \in Nat
    BY PiecesAssumption, SizesAssumption DEF BInv, TypeOK
  <1> DEFINE required == used + Len(piece)
  <1>2. required \in Nat
    BY <1>1
  <1>3. CASE Return("out_of_virtual_memory")
    BY <1>3 DEF Push, Return, BInv, TypeOK, Room, Held, Disk, KilledOnlyByFullDisk, Required,
                Growing, Running, buffer, system
  <1>4. CASE required <= MaxSize /\ data' = piece /\ UNCHANGED ret /\ pc' \in Running
    <2>1. Required' = required
      BY <1>4 DEF Push, Required, buffer
    <2>2. CASE pc' = "store"
      BY <1>2, <1>4, <2>1, <2>2 DEF Push, BInv, TypeOK, Room, Held, Disk, Required,
         KilledOnlyByFullDisk, Growing, Running, buffer, system, Return
    <2>3. CASE pc' = "malloc"
      <3>1. new_size' \in Nat /\ required <= new_size' /\ place # "file" /\ size < required
        BY <1>1, <1>2, <2>3, SizesAssumption DEF Push, Return, NewHeapSize
      <3>2. QED
        BY <1>2, <1>4, <2>1, <2>3, <3>1 DEF Push, BInv, TypeOK, Room, Held, Disk, Required,
         KilledOnlyByFullDisk, Growing, Running, buffer, system
    <2>4. CASE pc' = "check"
      <3>1. new_size' = Rounded(required) /\ size < required
        BY <1>1, <1>2, <2>4 DEF Push, Return
      <3>2. new_size' \in Nat /\ (new_size' = 0 \/ required <= new_size')
        BY <1>1, <1>2, <1>4, <3>1, RoundedUp
      <3>3. QED
        BY <1>2, <1>4, <2>1, <2>4, <3>1, <3>2 DEF Push, BInv, TypeOK, Room, Held, Disk, Required,
         KilledOnlyByFullDisk, Growing, Running, buffer, system
    <2>5. CASE pc' = "double"
      <3>1. new_size' = 2 * size /\ size < required
        BY <1>1, <1>2, <2>5 DEF Push, Return
      <3>2. QED
        BY <1>1, <1>2, <1>4, <2>1, <2>5, <3>1 DEF Push, BInv, TypeOK, Room, Held, Disk, Required,
         KilledOnlyByFullDisk, Growing, Running, buffer, system
    <2>6. pc' \in {"store", "malloc", "check", "double"} \/ pc' = "idle"
      BY DEF Push, Return
    <2>7. QED  BY <1>4, <2>2, <2>3, <2>4, <2>5, <2>6 DEF Running, Growing
  <1>5. QED  BY <1>3, <1>4 DEF Push, Running, Growing

LEMMA StoreStep ==
    ASSUME BInv, Store
    PROVE  BInv'
  <1>1. memory' \in [0 .. size - 1 -> Byte \cup {Junk}]
    <2>1. ASSUME NEW i \in 0 .. size - 1, i \in used .. Required - 1
          PROVE  data[i - used + 1] \in Byte
      BY <2>1, Data DEF Required
    <2>2. QED  BY <2>1 DEF Store, BInv, TypeOK
  <1>2. Required \in 0..size
    BY Data DEF Store, BInv, TypeOK
  <1>3. QED
    BY <1>1, <1>2, Data DEF Store, Return, BInv, TypeOK, Room, Held, Disk, Required,
       KilledOnlyByFullDisk, Growing, Running, system

LEMMA StoreKillsStep ==
    ASSUME BInv, StoreKills
    PROVE  BInv'
  <1>1. TypeOK'
    BY Data, SizesAssumption DEF StoreKills, Killed, BInv, TypeOK, Room, Required, Growing,
         buffer, system
  <1>2. (pc \in Running => data \in Pieces)' /\ Room'
    BY Data DEF StoreKills, Killed, BInv, TypeOK, Room, Required, Growing, Running, buffer,
         system
  <1>3. Held' /\ (pc = "wiped" => blocks = 0 /\ files = 0 /\ mappings = 0)'
    BY DEF StoreKills, Killed, BInv, TypeOK, Room, Held, Growing, buffer, system
  <1>4. Disk' /\ KilledOnlyByFullDisk'
    BY Data DEF StoreKills, Killed, BInv, TypeOK, Room, Disk, KilledOnlyByFullDisk, Required,
         Touches, buffer, system
  <1>5. QED  BY <1>1, <1>2, <1>3, <1>4 DEF BInv

LEMMA MallocStep ==
    ASSUME BInv, Malloc
    PROVE  BInv'
  <1>1. TypeOK'
    <2>1. memory' \in [0 .. new_size - 1 -> Byte \cup {Junk}]
      <3>1. ASSUME NEW i \in 0 .. new_size - 1, i < size PROVE memory[i] \in Byte \cup {Junk}
        BY <3>1, Numbers DEF BInv, TypeOK
      <3>2. QED  BY <3>1 DEF Malloc, Copied
    <2>2. Required' = Required /\ Required <= new_size
      BY DEF Malloc, BInv, Room, Required, Growing
    <2>3. used' \in 0 .. size' /\ size' \in Nat
      BY <2>2, Numbers DEF Malloc
    <2>4. blocks' \in Nat
      BY DEF Malloc, BInv, TypeOK, Held
    <2>5. QED
      BY <2>1, <2>2, <2>3, <2>4 DEF Malloc, BInv, TypeOK, system
  <1>2. (pc \in Running => data \in Pieces)' /\ Room'
    BY Data DEF Malloc, Copied, BInv, TypeOK, Room, Required, Growing, Running, buffer, system
  <1>3. Held' /\ (pc = "wiped" => blocks = 0 /\ files = 0 /\ mappings = 0)'
    BY DEF Malloc, Copied, BInv, TypeOK, Room, Held, Growing, buffer, system
  <1>4. Disk' /\ KilledOnlyByFullDisk'
    BY Data DEF Malloc, Copied, BInv, TypeOK, Room, Disk, KilledOnlyByFullDisk, Required,
         Touches, buffer, system
  <1>5. QED  BY <1>1, <1>2, <1>3, <1>4 DEF BInv

LEMMA MallocFailsStep ==
    ASSUME BInv, MallocFails
    PROVE  BInv'
  <1>1. TypeOK'
    BY Data, SizesAssumption DEF MallocFails, Return, BInv, TypeOK, Room, Required, Growing,
         buffer, system
  <1>2. (pc \in Running => data \in Pieces)' /\ Room'
    BY Data DEF MallocFails, Return, BInv, TypeOK, Room, Required, Growing, Running, buffer,
         system
  <1>3. Held' /\ (pc = "wiped" => blocks = 0 /\ files = 0 /\ mappings = 0)'
    BY DEF MallocFails, Return, BInv, TypeOK, Room, Held, Growing, buffer, system
  <1>4. Disk' /\ KilledOnlyByFullDisk'
    BY Data DEF MallocFails, Return, BInv, TypeOK, Room, Disk, KilledOnlyByFullDisk, Required,
         Touches, buffer, system
  <1>5. QED  BY <1>1, <1>2, <1>3, <1>4 DEF BInv

LEMMA DoubleStep ==
    ASSUME BInv, Double
    PROVE  BInv'
  <1>1. TypeOK'
    <2>1. new_size' \in Nat
      BY Numbers DEF Double
    <2>2. (pc = "store" => Required <= size)'
      BY DEF Double
    <2>3. QED  BY <2>1, <2>2 DEF Double, BInv, TypeOK, buffer, system
  <1>2. (pc \in Running => data \in Pieces)' /\ Room'
    BY Data DEF Double, BInv, TypeOK, Room, Required, Growing, Running, buffer, system
  <1>3. Held' /\ (pc = "wiped" => blocks = 0 /\ files = 0 /\ mappings = 0)'
    BY DEF Double, BInv, TypeOK, Room, Held, Growing, buffer, system
  <1>4. Disk' /\ KilledOnlyByFullDisk'
    BY Data DEF Double, BInv, TypeOK, Room, Disk, KilledOnlyByFullDisk, Required, Touches,
         buffer, system
  <1>5. QED  BY <1>1, <1>2, <1>3, <1>4 DEF BInv

LEMMA CheckSizeStep ==
    ASSUME BInv, CheckSize
    PROVE  BInv'
  <1>1. TypeOK'
    <2>1. new_size' \in Nat
      BY Numbers DEF CheckSize, Return
    <2>2. (pc = "store" => Required <= size)'
      BY DEF CheckSize, Return
    <2>3. QED  BY <2>1, <2>2 DEF CheckSize, Return, BInv, TypeOK, buffer, system
  <1>2. (pc \in Running => data \in Pieces)' /\ Room'
    BY Data DEF CheckSize, Return, BInv, TypeOK, Room, Required, Growing, Running, buffer,
         system
  <1>3. Held' /\ (pc = "wiped" => blocks = 0 /\ files = 0 /\ mappings = 0)'
    BY DEF CheckSize, Return, BInv, TypeOK, Room, Held, Growing, buffer, system
  <1>4. Disk' /\ KilledOnlyByFullDisk'
    BY Data DEF CheckSize, Return, BInv, TypeOK, Room, Disk, KilledOnlyByFullDisk, Required,
         Touches, buffer, system
  <1>5. QED  BY <1>1, <1>2, <1>3, <1>4 DEF BInv

LEMMA OpenStep ==
    ASSUME BInv, Open
    PROVE  BInv'
  <1>1. TypeOK'
    BY Data, SizesAssumption DEF Open, BInv, TypeOK, Room, Required, Growing, buffer, system
  <1>2. (pc \in Running => data \in Pieces)' /\ Room'
    BY Data DEF Open, BInv, TypeOK, Room, Required, Growing, Running, buffer, system
  <1>3. Held' /\ (pc = "wiped" => blocks = 0 /\ files = 0 /\ mappings = 0)'
    BY DEF Open, BInv, TypeOK, Room, Held, Growing, buffer, system
  <1>4. Disk' /\ KilledOnlyByFullDisk'
    BY Data DEF Open, BInv, TypeOK, Room, Disk, KilledOnlyByFullDisk, Required, Touches,
         buffer, system
  <1>5. QED  BY <1>1, <1>2, <1>3, <1>4 DEF BInv

LEMMA OpenFailsStep ==
    ASSUME BInv, OpenFails
    PROVE  BInv'
  <1>1. TypeOK'
    BY Data, SizesAssumption DEF OpenFails, Return, BInv, TypeOK, Room, Required, Growing,
         buffer, system
  <1>2. (pc \in Running => data \in Pieces)' /\ Room'
    BY Data DEF OpenFails, Return, BInv, TypeOK, Room, Required, Growing, Running, buffer,
         system
  <1>3. Held' /\ (pc = "wiped" => blocks = 0 /\ files = 0 /\ mappings = 0)'
    BY DEF OpenFails, Return, BInv, TypeOK, Room, Held, Growing, buffer, system
  <1>4. Disk' /\ KilledOnlyByFullDisk'
    BY Data DEF OpenFails, Return, BInv, TypeOK, Room, Disk, KilledOnlyByFullDisk, Required,
         Touches, buffer, system
  <1>5. QED  BY <1>1, <1>2, <1>3, <1>4 DEF BInv

LEMMA FallocateStep ==
    ASSUME BInv, Fallocate
    PROVE  BInv'
  <1>1. TypeOK'
    BY Data, SizesAssumption DEF Fallocate, BInv, TypeOK, Room, Required, Growing, buffer,
         system
  <1>2. (pc \in Running => data \in Pieces)' /\ Room'
    BY Data DEF Fallocate, BInv, TypeOK, Room, Required, Growing, Running, buffer, system
  <1>3. Held' /\ (pc = "wiped" => blocks = 0 /\ files = 0 /\ mappings = 0)'
    BY DEF Fallocate, BInv, TypeOK, Room, Held, Growing, buffer, system
  <1>4. Disk' /\ KilledOnlyByFullDisk'
    BY Data DEF Fallocate, BInv, TypeOK, Room, Disk, KilledOnlyByFullDisk, Required, Touches,
         buffer, system
  <1>5. QED  BY <1>1, <1>2, <1>3, <1>4 DEF BInv

LEMMA FallocateFailsStep ==
    ASSUME BInv, FallocateFails
    PROVE  BInv'
  <1>1. full' \in BOOLEAN /\ (full' \/ UNCHANGED <<full, allocated>>)
    BY Zenon DEF FallocateFails, BInv, TypeOK
  <1>3. allocated' \in Nat
    BY DEF FallocateFails, BInv, TypeOK
  <1>2. new_size = 0 \/ full'
    BY DEF FallocateFails
  <1>4. QED
    BY <1>1, <1>2, <1>3 DEF FallocateFails, BInv, TypeOK, Room, Held, Disk, Required,
       KilledOnlyByFullDisk, Growing, Running, buffer

LEMMA MapStep ==
    ASSUME BInv, Map
    PROVE  BInv'
  <1>1. TypeOK'
    <2>1. memory' \in [0 .. new_size - 1 -> Byte \cup {Junk}]
      <3>1. ASSUME NEW i \in 0 .. new_size - 1, i < used PROVE memory[i] \in Byte \cup {Junk}
        BY <3>1, Numbers DEF BInv, TypeOK
      <3>2. QED  BY <3>1 DEF Map, Copied
    <2>2. Required' = Required /\ Required <= new_size
      BY DEF Map, BInv, Room, Required, Growing
    <2>3. used' \in 0 .. size' /\ size' \in Nat
      BY <2>2, Numbers DEF Map
    <2>4. blocks' \in Nat /\ mappings' \in Nat
      BY DEF Map, BInv, TypeOK, Held
    <2>5. QED
      BY <2>1, <2>2, <2>3, <2>4 DEF Map, BInv, TypeOK, system
  <1>2. (pc \in Running => data \in Pieces)' /\ Room'
    BY Data DEF Map, Copied, BInv, TypeOK, Room, Required, Growing, Running, buffer, system
  <1>3. Held' /\ (pc = "wiped" => blocks = 0 /\ files = 0 /\ mappings = 0)'
    BY DEF Map, Copied, BInv, TypeOK, Room, Held, Growing, buffer, system
  <1>4. Disk' /\ KilledOnlyByFullDisk'
    BY Data DEF Map, Copied, BInv, TypeOK, Room, Disk, KilledOnlyByFullDisk, Required, Touches,
         buffer, system
  <1>5. QED  BY <1>1, <1>2, <1>3, <1>4 DEF BInv

LEMMA MapKillsStep ==
    ASSUME BInv, MapKills
    PROVE  BInv'
  <1>1. TypeOK'
    BY Data, SizesAssumption DEF MapKills, Killed, BInv, TypeOK, Room, Required, Growing,
         buffer, system
  <1>2. (pc \in Running => data \in Pieces)' /\ Room'
    BY Data DEF MapKills, Killed, BInv, TypeOK, Room, Required, Growing, Running, buffer,
         system
  <1>3. Held' /\ (pc = "wiped" => blocks = 0 /\ files = 0 /\ mappings = 0)'
    BY DEF MapKills, Killed, BInv, TypeOK, Room, Held, Growing, buffer, system
  <1>4. Disk' /\ KilledOnlyByFullDisk'
    <2>1. full
      BY Numbers DEF MapKills, BInv, TypeOK, Room, Disk, Growing
    <2>2. QED  BY <2>1 DEF MapKills, Disk, KilledOnlyByFullDisk
  <1>5. QED  BY <1>1, <1>2, <1>3, <1>4 DEF BInv

LEMMA RemapStep ==
    ASSUME BInv, Remap
    PROVE  BInv'
  <1>1. TypeOK'
    <2>1. memory' \in [0 .. new_size - 1 -> Byte \cup {Junk}]
      <3>1. ASSUME NEW i \in 0 .. new_size - 1, i < size PROVE memory[i] \in Byte \cup {Junk}
        BY <3>1, Numbers DEF BInv, TypeOK
      <3>2. QED  BY <3>1 DEF Remap, Copied
    <2>2. Required' = Required /\ Required <= new_size
      BY DEF Remap, BInv, Room, Required, Growing
    <2>3. used' \in 0 .. size' /\ size' \in Nat
      BY <2>2, Numbers DEF Remap
    <2>4. UNCHANGED system
      BY DEF Remap, BInv, TypeOK, Held
    <2>5. QED
      BY <2>1, <2>2, <2>3, <2>4 DEF Remap, BInv, TypeOK, system
  <1>2. (pc \in Running => data \in Pieces)' /\ Room'
    BY Data DEF Remap, Copied, BInv, TypeOK, Room, Required, Growing, Running, buffer, system
  <1>3. Held' /\ (pc = "wiped" => blocks = 0 /\ files = 0 /\ mappings = 0)'
    BY DEF Remap, Copied, BInv, TypeOK, Room, Held, Growing, buffer, system
  <1>4. Disk' /\ KilledOnlyByFullDisk'
    BY Data DEF Remap, Copied, BInv, TypeOK, Room, Disk, KilledOnlyByFullDisk, Required,
         Touches, buffer, system
  <1>5. QED  BY <1>1, <1>2, <1>3, <1>4 DEF BInv

LEMMA MapFailsStep ==
    ASSUME BInv, MapFails
    PROVE  BInv'
  <1>1. TypeOK'
    <2>1. files' \in Nat
      BY DEF MapFails, BInv, TypeOK, Held
    <2>2. QED  BY <2>1 DEF MapFails, Return, BInv, TypeOK, buffer
  <1>2. (pc \in Running => data \in Pieces)' /\ Room'
    BY Data DEF MapFails, Return, BInv, TypeOK, Room, Required, Growing, Running, buffer,
         system
  <1>3. Held' /\ (pc = "wiped" => blocks = 0 /\ files = 0 /\ mappings = 0)'
    BY DEF MapFails, Return, BInv, TypeOK, Room, Held, Growing, buffer, system
  <1>4. Disk' /\ KilledOnlyByFullDisk'
    BY Data DEF MapFails, Return, BInv, TypeOK, Room, Disk, KilledOnlyByFullDisk, Required,
         Touches, buffer, system
  <1>5. QED  BY <1>1, <1>2, <1>3, <1>4 DEF BInv

LEMMA PopStep ==
    ASSUME BInv, NEW n \in 1..used, Pop(n)
    PROVE  BInv'
  BY Data DEF Pop, BInv, TypeOK, Room, Held, Disk, Required, KilledOnlyByFullDisk,
     Growing, Running, system

LEMMA WriteStep ==
    ASSUME BInv, NEW offset \in Patches, NEW piece \in Pieces, Write(offset, piece)
    PROVE  BInv'
  <1>1. memory' \in [0 .. size - 1 -> Byte \cup {Junk}]
    <2>1. piece \in Seq(Byte) /\ offset \in Nat /\ Len(piece) \in Nat
      BY PiecesAssumption, SizesAssumption
    <2>2. ASSUME NEW i \in 0 .. size - 1, i \in offset .. offset + Len(piece) - 1
          PROVE  piece[i - offset + 1] \in Byte
      BY <2>1, <2>2
    <2>3. QED  BY <2>2 DEF Write, BInv, TypeOK
  <1>2. QED
    BY <1>1 DEF Write, BInv, TypeOK, Room, Held, Disk, Required, KilledOnlyByFullDisk,
       Growing, Running, system

LEMMA WipeStep ==
    ASSUME BInv, Wipe
    PROVE  BInv'
  BY Data DEF Wipe, BInv, TypeOK, Room, Held, Disk, Required, KilledOnlyByFullDisk,
     Growing, Running, system

LEMMA NextBInv == BInv /\ [Next]_vars => BInv'
  <1> SUFFICES ASSUME BInv, [Next]_vars PROVE BInv'
    OBVIOUS
  <1>1. ASSUME NEW piece \in Pieces, Push(piece) PROVE BInv'
    BY <1>1, PushStep
  <1>2. CASE Continue
    BY <1>2, StoreStep, StoreKillsStep, MallocStep, MallocFailsStep, DoubleStep, CheckSizeStep, OpenStep,
       OpenFailsStep, FallocateStep, FallocateFailsStep, MapStep, MapKillsStep, RemapStep, MapFailsStep
       DEF Continue
  <1>3. ASSUME NEW n \in 1..used, Pop(n) PROVE BInv'
    BY <1>3, PopStep
  <1>4. ASSUME NEW offset \in Patches, NEW piece \in Pieces, Write(offset, piece)
        PROVE  BInv'
    BY <1>4, WriteStep
  <1>5. CASE Wipe
    BY <1>5, WipeStep
  <1>6. CASE UNCHANGED vars
    BY <1>6 DEF vars, buffer, system, BInv, TypeOK, Room, Held, Disk, Required,
                KilledOnlyByFullDisk, Growing, Running
  <1>7. QED  BY <1>1, <1>2, <1>3, <1>4, <1>5, <1>6 DEF Next

LEMMA InductiveBInv == Spec => []BInv
  BY InitBInv, NextBInv, PTL DEF Spec

(***************************************************************************)
(* For sizes of any kind and data of any length, the buffer has the room   *)
(* that it says it has, and its contents fit.                              *)
(***************************************************************************)
THEOREM RoomForContents == Spec => []TypeOK
  <1>1. BInv => TypeOK
    BY DEF BInv
  <1>2. QED  BY <1>1, InductiveBInv, PTL

(***************************************************************************)
(* Whatever fails, between calls the process holds just what the contents  *)
(* are in, and after the buffer was wiped nothing.                         *)
(***************************************************************************)
THEOREM NothingIsLeaked == Spec => []NothingLeaked
  <1>1. BInv => NothingLeaked
    BY DEF BInv, Held, NothingLeaked, Running, Growing
  <1>2. QED  BY <1>1, InductiveBInv, PTL

(***************************************************************************)
(* As long as the disk has room, no page is touched that is not there.     *)
(***************************************************************************)
THEOREM OnlyFullDiskKills == Spec => []KilledOnlyByFullDisk
  <1>1. BInv => KilledOnlyByFullDisk
    BY DEF BInv
  <1>2. QED  BY <1>1, InductiveBInv, PTL

-----------------------------------------------------------------------------
(***************************************************************************)
(* The refinement.                                                         *)
(***************************************************************************)

LEMMA ContentsOfBuffer ==
    ASSUME BInv
    PROVE  /\ Contents \in Seq(Byte \cup {Junk})
           /\ Len(Contents) = used /\ DOMAIN Contents = 1..used
           /\ used \in Nat /\ used <= size /\ size \in Nat
  <1>1. used \in Nat /\ used <= size /\ size \in Nat
        /\ memory \in [0 .. size - 1 -> Byte \cup {Junk}]
    BY DEF BInv, TypeOK
  <1>2. \A k \in 1..used : memory[k - 1] \in Byte \cup {Junk}
    BY <1>1
  <1>3. QED  BY <1>1, <1>2 DEF Contents

\* The contents do not change while the bytes in use stay.
LEMMA SameContents ==
    ASSUME BInv, used' = used, \A i \in 0 .. used - 1 : memory'[i] = memory[i]
    PROVE  Contents' = Contents
  <1>1. \A k \in 1..used : k - 1 \in 0 .. used - 1
    BY ContentsOfBuffer
  <1>2. QED  BY <1>1 DEF Contents

LEMMA StorePushes ==
    ASSUME BInv, Store
    PROVE  Abstract!SPush(data) /\ data \in Pieces
  <1>1. /\ data \in Pieces /\ used' = used + Len(data) /\ ret' = "ok"
        /\ used + Len(data) <= size
    BY DEF Store, Return, BInv, TypeOK, Running, Required
  <1>2. data \in Seq(Byte \cup {Junk}) /\ Len(data) \in Nat
    BY Data
  <1>3. /\ Contents \in Seq(Byte \cup {Junk}) /\ Len(Contents) = used
        /\ used \in Nat /\ size \in Nat
    BY ContentsOfBuffer
  <1> DEFINE joined == Contents \o data
  <1>4. joined \in Seq(Byte \cup {Junk}) /\ Len(joined) = used'
    BY <1>1, <1>2, <1>3
  <1>5. \A k \in 1..used' : joined[k] = memory'[k - 1]
    <2>1. TAKE k \in 1..used'
    <2>2. k - 1 \in DOMAIN memory /\ k \in Nat
      BY <1>1, <1>2, <1>3 DEF BInv, TypeOK
    <2>3. CASE k <= used
      <3>1. joined[k] = Contents[k]
        BY <1>2, <1>3, <2>2, <2>3
      <3>2. k - 1 \notin used .. Required - 1
        BY <1>2, <1>3, <2>2, <2>3 DEF Required
      <3>3. memory'[k - 1] = memory[k - 1]
        BY <2>2, <3>2 DEF Store
      <3>4. QED  BY <1>3, <2>2, <2>3, <3>1, <3>3 DEF Contents
    <2>4. CASE k > used
      <3>1. joined[k] = data[k - used]
        BY <1>1, <1>2, <1>3, <2>2, <2>4
      <3>2. k - 1 \in used .. Required - 1 /\ (k - 1) - used + 1 = k - used
        BY <1>1, <1>2, <1>3, <2>2, <2>4 DEF Required
      <3>3. memory'[k - 1] = data[k - used]
        BY <2>2, <3>2 DEF Store
      <3>4. QED  BY <3>1, <3>3
    <2>5. k <= used \/ k > used
      BY <1>3, <2>2
    <2>6. QED  BY <2>3, <2>4, <2>5
  <1> HIDE DEF joined
  <1>6. joined = [k \in 1..used' |-> joined[k]]
    BY <1>4
  <1>7. Contents' = joined
    BY <1>5, <1>6 DEF Contents
  <1>8. QED  BY <1>1, <1>7 DEF joined, Abstract!SPush

LEMMA ContinueRefines ==
    ASSUME BInv, Continue
    PROVE  [Abstract!SNext]_(Abstract!svars)
  <1>0. used \in Nat /\ used <= size /\ size \in Nat
    BY ContentsOfBuffer
  <1>1. CASE Store
    BY <1>1, StorePushes DEF Abstract!SNext
  <1>2. CASE Malloc \/ Map \/ Remap
    <2>1. /\ used' = used /\ ret' = ret
          /\ \A i \in 0 .. used - 1 : memory'[i] = memory[i]
      <3>1. CASE Malloc
        <4>1. used <= new_size /\ new_size \in Nat
          BY <1>0, <3>1, Data DEF Malloc, BInv, TypeOK, Room
        <4>2. QED  BY <1>0, <3>1, <4>1 DEF Malloc, Copied
      <3>2. CASE Map
        <4>1. used <= new_size /\ new_size \in Nat
          BY <1>0, <3>2, Data DEF Map, BInv, TypeOK, Room, Growing
        <4>2. QED  BY <1>0, <3>2, <4>1 DEF Map, Copied
      <3>3. CASE Remap
        <4>1. used <= new_size /\ new_size \in Nat
          BY <1>0, <3>3, Data DEF Remap, BInv, TypeOK, Room, Growing
        <4>2. QED  BY <1>0, <3>3, <4>1 DEF Remap, Copied
      <3>4. QED  BY <1>2, <3>1, <3>2, <3>3
    <2>2. QED  BY <2>1, SameContents DEF Abstract!svars
  <1>3. CASE MallocFails \/ OpenFails \/ MapFails \/ CheckSize
    <2>1. Contents' = Contents
      BY <1>3 DEF MallocFails, OpenFails, MapFails, CheckSize, buffer, Contents
    <2>2. ret' \in {"system", "out_of_virtual_memory"} \/ ret' = ret
      BY <1>3 DEF MallocFails, OpenFails, MapFails, CheckSize, Return
    <2>3. QED
      BY <2>1, <2>2 DEF Abstract!SNext, Abstract!SPushFails, Abstract!Errors, Abstract!svars
  <1>4. CASE StoreKills \/ Double \/ Open \/ Fallocate \/ FallocateFails \/ MapKills
    BY <1>4 DEF StoreKills, Double, Open, Fallocate, FallocateFails, MapKills, Killed,
                buffer, Contents, Abstract!svars
  <1>5. QED  BY <1>1, <1>2, <1>3, <1>4 DEF Continue

LEMMA PushRefines ==
    ASSUME BInv, NEW piece \in Pieces, Push(piece)
    PROVE  [Abstract!SNext]_(Abstract!svars)
  <1>1. Contents' = Contents
    BY DEF Push, buffer, Contents
  <1>2. ret' = "out_of_virtual_memory" \/ ret' = ret
    BY DEF Push, Return
  <1>3. QED
    BY <1>1, <1>2 DEF Abstract!SNext, Abstract!SPushFails, Abstract!Errors, Abstract!svars

LEMMA PopRefines ==
    ASSUME BInv, NEW n \in 1..used, Pop(n)
    PROVE  Abstract!SPop(n) /\ n \in 1..Len(Contents)
  <1>1. used' = used - n /\ memory' = memory /\ ret' = ret /\ used \in Nat /\ used' \in Nat
    BY ContentsOfBuffer DEF Pop
  <1>2. Len(Contents) = used /\ Contents \in Seq(Byte \cup {Junk})
    BY ContentsOfBuffer
  <1>3. SubSeq(Contents, 1, used') = [k \in 1..used' |-> Contents[k]]
    BY <1>1, <1>2
  <1>4. Contents' = [k \in 1..used' |-> memory[k - 1]]
    BY <1>1 DEF Contents
  <1>5. \A k \in 1..used' : Contents[k] = memory[k - 1]
    BY <1>1 DEF Contents
  <1>6. Contents' = SubSeq(Contents, 1, Len(Contents) - n)
    BY <1>1, <1>2, <1>3, <1>4, <1>5
  <1>7. QED  BY <1>1, <1>2, <1>6 DEF Abstract!SPop

LEMMA WriteRefines ==
    ASSUME BInv, NEW offset \in Patches, NEW piece \in Pieces, Write(offset, piece)
    PROVE  Abstract!SWrite(offset, piece)
  <1>1. used' = used /\ ret' = ret /\ used \in Nat /\ offset + Len(piece) <= used
    BY ContentsOfBuffer DEF Write
  <1>2. piece \in Seq(Byte) /\ Len(piece) \in Nat /\ offset \in Nat
    BY PiecesAssumption, SizesAssumption
  <1>3. Len(Contents) = used /\ DOMAIN Contents = 1..used
    BY ContentsOfBuffer
  <1> DEFINE patched == [k \in 1..used |->
                           IF k \in offset + 1 .. offset + Len(piece)
                           THEN piece[k - offset] ELSE Contents[k]]
  <1>4. ASSUME NEW k \in 1..used
        PROVE  memory'[k - 1] = patched[k]
    <2>1. k - 1 \in DOMAIN memory /\ (k - 1) - offset + 1 = k - offset
      BY <1>1, <1>2, ContentsOfBuffer DEF BInv, TypeOK
    <2>2. k - 1 \in offset .. offset + Len(piece) - 1 <=> k \in offset + 1 .. offset + Len(piece)
      BY <1>1, <1>2
    <2>3. Contents[k] = memory[k - 1]
      BY DEF Contents
    <2>4. QED  BY <2>1, <2>2, <2>3 DEF Write
  <1>5. Contents' = patched
    BY <1>1, <1>4 DEF Contents
  <1>6. QED  BY <1>1, <1>3, <1>5 DEF Abstract!SWrite

LEMMA WipeRefines ==
    ASSUME BInv, Wipe
    PROVE  Abstract!SWipe
  BY DEF Wipe, Contents, Abstract!SWipe

LEMMA StepRefines == BInv /\ [Next]_vars => [Abstract!SNext]_(Abstract!svars)
  <1> SUFFICES ASSUME BInv, [Next]_vars PROVE [Abstract!SNext]_(Abstract!svars)
    OBVIOUS
  <1>1. ASSUME NEW piece \in Pieces, Push(piece) PROVE [Abstract!SNext]_(Abstract!svars)
    BY <1>1, PushRefines
  <1>2. CASE Continue
    BY <1>2, ContinueRefines
  <1>3. ASSUME NEW n \in 1..used, Pop(n) PROVE Abstract!SNext
    BY <1>3, PopRefines DEF Abstract!SNext
  <1>4. ASSUME NEW offset \in Patches, NEW piece \in Pieces, Write(offset, piece)
        PROVE  Abstract!SNext
    BY <1>4, WriteRefines DEF Abstract!SNext
  <1>5. CASE Wipe
    BY <1>5, WipeRefines DEF Abstract!SNext
  <1>6. CASE UNCHANGED vars
    BY <1>6 DEF vars, buffer, Contents, Abstract!svars
  <1>7. QED  BY <1>1, <1>2, <1>3, <1>4, <1>5, <1>6 DEF Next

(***************************************************************************)
(* The buffer implements the stack of bytes: for sizes of any kind and     *)
(* data of any length, through every move and every failure, it holds what *)
(* was pushed and not popped.                                              *)
(***************************************************************************)
THEOREM BufferIsAStack == Spec => IsAStack
  <1>1. Init => Abstract!SInit
    BY DEF Init, Contents, Abstract!SInit
  <1>2. QED
    BY <1>1, InductiveBInv, StepRefines, PTL DEF Spec, IsAStack, Abstract!SSpec

-----------------------------------------------------------------------------
(***************************************************************************)
(* The JSON parser keeps to what it has opened itself, for texts of any    *)
(* length and containers of any depth.                                     *)
(***************************************************************************)

IsSequence(q) == \E S : q \in Seq(S)

\* Sequences of containers.
AreFrames(o) == IsSequence(o) /\ \A k \in 1..Len(o) : IsFrame(o[k])

(***************************************************************************)
(* What has become of the containers b that were open before the call,     *)
(* when o is open and r is the root: before and after the value of the     *)
(* call has been added.                                                    *)
(***************************************************************************)
Untouched(b, o, r) ==
    /\ Len(b) <= Len(o)
    /\ \A k \in 1..Len(b) : o[k] = b[k]
    /\ r = <<>>

HasValue(b, o, r) ==
    LET n == Len(b) IN
    /\ Len(o) = n
    /\ \A k \in 1..n-1 : o[k] = b[k]
    /\ IF n = 0 THEN Len(r) = 1 ELSE r = <<>> /\ Front(o[n].items) = b[n].items

-----------------------------------------------------------------------------
(***************************************************************************)
(* Sequences                                                               *)
(***************************************************************************)

LEMMA SequenceLen ==
    ASSUME NEW q, IsSequence(q)
    PROVE  /\ Len(q) \in Nat /\ DOMAIN q = 1..Len(q)
           /\ q = <<>> <=> Len(q) = 0
  <1>1. PICK S : q \in Seq(S)
    BY DEF IsSequence
  <1>2. QED  BY <1>1

LEMMA AppendSequence ==
    ASSUME NEW q, IsSequence(q), NEW e
    PROVE  /\ IsSequence(Append(q, e))
           /\ Len(Append(q, e)) = Len(q) + 1
           /\ Append(q, e)[Len(q) + 1] = e
           /\ \A k \in 1..Len(q) : Append(q, e)[k] = q[k]
           /\ Front(Append(q, e)) = q
  <1>1. PICK S : q \in Seq(S)
    BY DEF IsSequence
  <1>2. q \in Seq(S \cup {e})
    BY <1>1, SeqMonotonic
  <1>3. /\ Append(q, e) \in Seq(S \cup {e})
        /\ Len(q) \in Nat
        /\ Len(Append(q, e)) = Len(q) + 1
        /\ Append(q, e)[Len(q) + 1] = e
        /\ \A k \in 1..Len(q) : Append(q, e)[k] = q[k]
    BY <1>2
  <1>4. Front(Append(q, e)) = q
    <2> DEFINE t == SubSeq(Append(q, e), 1, Len(q))
    <2>1. \A k \in 1..Len(q) : Append(q, e)[k] \in S \cup {e}
      BY <1>2, <1>3, ElementOfSeq
    <2>2. /\ t \in Seq(S \cup {e})
          /\ Len(t) = IF 1 <= Len(q) THEN Len(q) - 1 + 1 ELSE 0
          /\ \A i \in 1..(Len(q) - 1 + 1) : t[i] = Append(q, e)[1 + i - 1]
      BY <1>3, <2>1, SubSeqProperties
    <2> HIDE DEF t
    <2>3. Len(t) = Len(q)
      BY <1>3, <2>2
    <2>4. \A i \in 1..Len(q) : t[i] = q[i]
      BY <1>3, <2>2
    <2>5. t = q
      BY <1>2, <2>2, <2>3, <2>4, SeqEqual
    <2>6. Len(Append(q, e)) - 1 = Len(q)
      BY <1>3
    <2>7. QED  BY <2>5, <2>6 DEF Front, t
  <1>5. QED  BY <1>3, <1>4 DEF IsSequence

LEMMA FrontSequence ==
    ASSUME NEW q, IsSequence(q), q # <<>>
    PROVE  /\ IsSequence(Front(q))
           /\ Len(Front(q)) = Len(q) - 1
           /\ \A k \in 1..(Len(q) - 1) : Front(q)[k] = q[k]
  <1>1. PICK S : q \in Seq(S)
    BY DEF IsSequence
  <1> DEFINE n == Len(q) - 1
             t == SubSeq(q, 1, n)
  <1>2. n \in Nat /\ 1..n \subseteq 1..Len(q)
    BY <1>1
  <1> HIDE DEF n
  <1>3. \A k \in 1..n : q[k] \in S
    BY <1>1, <1>2, ElementOfSeq
  <1>4. /\ t \in Seq(S)
        /\ Len(t) = IF 1 <= n THEN n - 1 + 1 ELSE 0
        /\ \A i \in 1..(n - 1 + 1) : t[i] = q[1 + i - 1]
    BY <1>2, <1>3, SubSeqProperties
  <1> HIDE DEF t
  <1>5. Len(t) = n
    BY <1>2, <1>4
  <1>6. \A k \in 1..n : t[k] = q[k]
    BY <1>2, <1>4
  <1>7. QED  BY <1>4, <1>5, <1>6 DEF IsSequence, Front, t, n

-----------------------------------------------------------------------------
(***************************************************************************)
(* What the calls of the writer do to the containers                       *)
(***************************************************************************)

\* A container is opened.
LEMMA BeginKeeps ==
    ASSUME NEW b, AreFrames(b), NEW o, AreFrames(o), NEW r, Untouched(b, o, r), NEW kind
    PROVE  LET after == Append(o, Doc!Frame(kind))
           IN  AreFrames(after) /\ Untouched(b, after, r) /\ Len(after) = Len(o) + 1
  <1> DEFINE frame == Doc!Frame(kind)
             after == Append(o, frame)
  <1>1. Len(b) \in Nat /\ Len(o) \in Nat
    BY SequenceLen DEF AreFrames
  <1>2. /\ IsSequence(after) /\ Len(after) = Len(o) + 1
        /\ after[Len(o) + 1] = frame /\ \A k \in 1..Len(o) : after[k] = o[k]
    BY AppendSequence DEF AreFrames
  <1>3. IsFrame(frame)
    <2>1. frame = [kind |-> kind, items |-> <<>>, key |-> <<>>]
      BY DEF Doc!Frame
    <2>2. frame.items \in Seq(Range(frame.items))
      BY <2>1
    <2>3. QED  BY <2>1, <2>2 DEF IsFrame
  <1> HIDE DEF after, frame
  <1>4. ASSUME NEW k \in 1..Len(after) PROVE IsFrame(after[k])
    BY <1>1, <1>2, <1>3 DEF AreFrames
  <1>5. AreFrames(after)
    BY <1>2, <1>4 DEF AreFrames
  <1>6. Len(b) <= Len(after)
    BY <1>1, <1>2 DEF Untouched
  <1>7. ASSUME NEW k \in 1..Len(b) PROVE after[k] = o[k]
    BY <1>1, <1>2 DEF Untouched
  <1>8. Untouched(b, after, r)
    BY <1>6, <1>7 DEF Untouched
  <1>9. QED  BY <1>2, <1>5, <1>8 DEF after, frame

\* A container that the call has opened is closed.
LEMMA FrontKeeps ==
    ASSUME NEW b, AreFrames(b), NEW o, AreFrames(o), NEW r, Untouched(b, o, r),
           Len(o) > Len(b)
    PROVE  /\ o # <<>> /\ AreFrames(Front(o))
           /\ Untouched(b, Front(o), r)
           /\ Len(Front(o)) = Len(o) - 1
  <1>1. Len(b) \in Nat /\ Len(o) \in Nat /\ o # <<>>
    BY SequenceLen DEF AreFrames
  <1> DEFINE after == Front(o)
  <1>2. /\ IsSequence(after) /\ Len(after) = Len(o) - 1
        /\ \A k \in 1..(Len(o) - 1) : after[k] = o[k]
    BY <1>1, FrontSequence DEF AreFrames
  <1> HIDE DEF after
  <1>3. AreFrames(after)
    BY <1>1, <1>2 DEF AreFrames
  <1>4. Len(b) <= Len(after)
    BY <1>1, <1>2
  <1>5. ASSUME NEW k \in 1..Len(b) PROVE after[k] = o[k]
    BY <1>1, <1>2
  <1>6. Untouched(b, after, r)
    BY <1>4, <1>5 DEF Untouched
  <1>7. QED  BY <1>1, <1>2, <1>3, <1>6 DEF after

\* The innermost container, which is one that the call has opened, is changed.
LEMMA InnermostKeeps ==
    ASSUME NEW b, AreFrames(b), NEW o, AreFrames(o), NEW r, Untouched(b, o, r),
           Len(o) > Len(b), NEW frame, IsFrame(frame),
           NEW after, IsSequence(after), Len(after) = Len(o), after[Len(o)] = frame,
           \A k \in 1..Len(o)-1 : after[k] = o[k]
    PROVE  AreFrames(after) /\ Untouched(b, after, r)
  <1>1. Len(b) \in Nat /\ Len(o) \in Nat /\ o # <<>>
    BY SequenceLen DEF AreFrames
  <1>2. /\ IsSequence(after) /\ Len(after) = Len(o) /\ after[Len(o)] = frame
        /\ \A k \in 1..(Len(o) - 1) : after[k] = o[k]
    OBVIOUS
  <1>3. ASSUME NEW k \in 1..Len(after) PROVE IsFrame(after[k])
    <2>1. k = Len(o) \/ k \in 1..(Len(o) - 1)
      BY <1>1, <1>2
    <2>2. QED  BY <1>1, <1>2, <2>1 DEF AreFrames
  <1>4. AreFrames(after)
    BY <1>2, <1>3 DEF AreFrames
  <1>5. Len(b) <= Len(after)
    BY <1>1, <1>2
  <1>6. ASSUME NEW k \in 1..Len(b) PROVE after[k] = o[k]
    BY <1>1, <1>2
  <1>7. Untouched(b, after, r)
    BY <1>5, <1>6 DEF Untouched
  <1>8. QED  BY <1>2, <1>4, <1>7

LEMMA AppendItems ==
    ASSUME NEW q, q \in Seq(Range(q)), NEW e
    PROVE  Append(q, e) \in Seq(Range(Append(q, e))) /\ Front(Append(q, e)) = q
  <1> DEFINE t == Append(q, e)
  <1>1. IsSequence(q)
    BY DEF IsSequence
  <1>2. Front(t) = q /\ IsSequence(t)
    BY <1>1, AppendSequence
  <1> HIDE DEF t
  <1>3. PICK T : t \in Seq(T)
    BY <1>2 DEF IsSequence
  <1>4. Len(t) \in Nat /\ t \in [1..Len(t) -> T] /\ DOMAIN t = 1..Len(t)
    BY <1>3, LenProperties
  <1>5. t \in [1..Len(t) -> Range(t)]
    BY <1>4 DEF Range
  <1>6. t \in Seq(Range(t))
    BY <1>4, <1>5
  <1>7. QED  BY <1>2, <1>6 DEF t

LEMMA ItemFrame ==
    ASSUME NEW frame, IsFrame(frame), NEW tree
    PROVE  LET after == Doc!WithItem(frame, tree)
           IN  IsFrame(after) /\ Front(after.items) = frame.items
  <1> DEFINE item  == IF frame.kind = "array" THEN tree
                      ELSE [key |-> frame.key[1], value |-> tree]
             items == Append(frame.items, item)
             after == Doc!WithItem(frame, tree)
  <1>1. frame = [kind |-> frame.kind, items |-> frame.items, key |-> frame.key]
    BY DEF IsFrame
  <1>2. items \in Seq(Range(items)) /\ Front(items) = frame.items
    BY AppendItems DEF IsFrame
  <1>3. after = [kind |-> frame.kind, items |-> items, key |-> <<>>]
    BY DEF Doc!WithItem
  <1> HIDE DEF items, after
  <1>4. QED  BY <1>1, <1>2, <1>3 DEF IsFrame, after

\* A value is added to the innermost of the containers o: the value of the call
\* when these are those from before.
LEMMA PlaceKeeps ==
    ASSUME NEW b, AreFrames(b), NEW o, AreFrames(o), NEW r, Untouched(b, o, r),
           NEW tree, NEW r2, NEW o2,
           IF o = <<>> THEN r2 = <<tree>> /\ o2 = <<>>
           ELSE r2 = r /\ o2 = Append(Front(o), Doc!WithItem(Last(o), tree))
    PROVE  /\ AreFrames(o2) /\ Len(o2) = Len(o)
           /\ IF Len(o) = Len(b) THEN HasValue(b, o2, r2) ELSE Untouched(b, o2, r2)
  <1>1. Len(b) \in Nat /\ Len(o) \in Nat /\ (o = <<>> <=> Len(o) = 0) /\ Len(b) <= Len(o)
    BY SequenceLen DEF AreFrames, Untouched
  <1>2. CASE o = <<>>
    <2>1. Len(b) = 0 /\ Len(o2) = 0 /\ Len(r2) = 1 /\ o2 = o /\ Len(o) = Len(b)
      BY <1>1, <1>2
    <2>2. HasValue(b, o2, r2)
      BY <1>1, <2>1 DEF HasValue
    <2>3. QED  BY <2>1, <2>2
  <1>3. CASE o # <<>>
    <2> DEFINE frame == Doc!WithItem(Last(o), tree)
               front == Front(o)
    <2>1. Len(o) \in 1..Len(o) /\ Last(o) = o[Len(o)]
      BY <1>1, <1>3 DEF Last
    <2>2. IsFrame(frame) /\ Front(frame.items) = o[Len(o)].items
      BY <2>1, ItemFrame DEF AreFrames
    <2>3. /\ IsSequence(front) /\ Len(front) = Len(o) - 1
          /\ \A k \in 1..(Len(o) - 1) : front[k] = o[k]
      BY <1>3, FrontSequence DEF AreFrames
    <2>4. r2 = r /\ o2 = Append(front, frame)
      BY <1>3
    <2> HIDE DEF frame, front
    <2>5. /\ IsSequence(o2) /\ Len(o2) = Len(front) + 1 /\ o2[Len(front) + 1] = frame
          /\ \A k \in 1..Len(front) : o2[k] = front[k]
      BY <2>3, <2>4, AppendSequence
    <2>6. /\ Len(o2) = Len(o) /\ o2[Len(o)] = frame
          /\ \A k \in 1..(Len(o) - 1) : o2[k] = o[k]
      BY <1>1, <2>3, <2>5
    <2>7. ASSUME NEW k \in 1..Len(o2) PROVE IsFrame(o2[k])
      <3>1. k = Len(o) \/ k \in 1..(Len(o) - 1)
        BY <1>1, <2>6
      <3>2. QED  BY <1>1, <2>2, <2>6, <3>1 DEF AreFrames
    <2>8. AreFrames(o2)
      BY <2>5, <2>7 DEF AreFrames
    <2>9. CASE Len(o) = Len(b)
      <3>1. Len(b) > 0 /\ r2 = <<>> /\ o[Len(b)] = b[Len(b)]
        BY <1>1, <1>3, <2>4, <2>9 DEF Untouched
      <3>2. Front(o2[Len(b)].items) = b[Len(b)].items
        BY <2>2, <2>6, <2>9, <3>1
      <3>3. \A k \in 1..(Len(b) - 1) : o2[k] = b[k]
        BY <1>1, <2>6, <2>9 DEF Untouched
      <3>4. HasValue(b, o2, r2)
        BY <1>1, <2>6, <2>9, <3>1, <3>2, <3>3 DEF HasValue
      <3>5. QED  BY <2>6, <2>8, <2>9, <3>4
    <2>10. CASE Len(o) # Len(b)
      <3>1. \A k \in 1..Len(b) : o2[k] = b[k]
        BY <1>1, <2>6, <2>10 DEF Untouched
      <3>2. Untouched(b, o2, r2)
        BY <1>1, <2>4, <2>6, <3>1 DEF Untouched
      <3>3. QED  BY <2>6, <2>8, <2>10, <3>2
    <2>11. QED  BY <2>9, <2>10
  <1>4. QED  BY <1>2, <1>3

-----------------------------------------------------------------------------
(***************************************************************************)
(* The invariant: the containers are kept, and the parser counts those     *)
(* that it has opened, one less when it has not seen an item of the last.  *)
(* A key is set in a container that the parser has opened.                 *)
(***************************************************************************)
Parsing == parser_pc # "done"

Uncounted == IF parser_pc \in {"array", "object"} THEN 1 ELSE 0

AddedIt == parsed = "ok" \/ (parser_pc = "after" /\ nesting = 0)

Kept ==
    IF AddedIt THEN HasValue(before, open, root) /\ added = <<>>
               ELSE Untouched(before, open, root)

\* The containers of the parser; when it has returned it may not have counted the last one.
Counted ==
    IF Parsing THEN Len(open) = Len(before) + nesting + Uncounted
    ELSE \E more \in {0, 1} : Len(open) = Len(before) + nesting + more

KeyInside ==
    /\ parser_pc \in {"key", "colon"} => nesting > 0
    /\ parser_pc \in {"string", "escape", "string_end"} /\ added[1].use = "key" => nesting > 0

ParserInv ==
    /\ AreFrames(before) /\ nesting \in Nat
    /\ parsed = "running" <=> Parsing
    /\ Parsing => ~broken
    /\ ~broken => /\ AreFrames(open)
                  /\ Kept /\ Counted /\ KeyInside

LEMMA ParserInitInv == ParserInit => ParserInv
  <1> SUFFICES ASSUME ParserInit
               PROVE  ParserInv
    OBVIOUS
  <1>1. PICK call \in JsonCalls : before = call.open
    BY DEF ParserInit
  <1>2. AreFrames(before)
    BY <1>1, JsonCallsAssumption DEF AreFrames, IsSequence
  <1>3. /\ nesting = 0 /\ parser_pc = "value" /\ parsed = "running"
        /\ root = <<>> /\ open = before
    BY DEF ParserInit
  <1>4. Len(before) \in Nat
    BY <1>2, SequenceLen DEF AreFrames
  <1>5. Untouched(before, open, root)
    BY <1>3, <1>4 DEF Untouched
  <1>6. ~AddedIt
    BY <1>3 DEF AddedIt
  <1>7. Kept
    BY <1>5, <1>6 DEF Kept
  <1>8. Counted
    BY <1>3, <1>4 DEF Counted, Parsing, Uncounted
  <1>9. KeyInside
    BY <1>3 DEF KeyInside
  <1>10. ~broken
    BY DEF ParserInit
  <1>11. QED  BY <1>2, <1>3, <1>7, <1>8, <1>9, <1>10 DEF ParserInv, Parsing

LEMMA Regroup ==
    ASSUME NEW l \in Nat, NEW m \in Nat, NEW n \in Nat
    PROVE  l + m + n = l + (m + n)
  OBVIOUS

\* The parser goes on, or returns, without another value or container.
LEMMA GoesInv ==
    ASSUME ParserInv, Parsing, ~AddedIt, UNCHANGED <<before, root, open, broken>>,
           nesting' \in Nat,
           \/ parsed' \in {"refused", "failed"} /\ ~Parsing' /\ nesting' = nesting
           \/ /\ parsed' = parsed /\ Parsing' /\ ~AddedIt' /\ KeyInside'
              /\ nesting' + Uncounted' = nesting + Uncounted
    PROVE  ParserInv'
  <1>1. parsed = "running" /\ AreFrames(before') /\ ~broken'
    BY DEF ParserInv
  <1>2. parsed' = "running" <=> Parsing'
    BY <1>1
  <1>3. ASSUME ~broken'
        PROVE  AreFrames(open') /\ Kept' /\ Counted' /\ KeyInside'
    <2>1. AreFrames(open) /\ Untouched(before, open, root)
          /\ Len(open) = Len(before) + nesting + Uncounted
      BY <1>3 DEF ParserInv, Kept, Counted
    <2>2. ~AddedIt'
      BY DEF AddedIt, Parsing
    <2>3. Kept'
      BY <2>1, <2>2 DEF Kept
    <2>4. ~Parsing' => KeyInside'
      BY DEF Parsing, KeyInside
    <2>5. Len(before) \in Nat /\ nesting \in Nat /\ Uncounted \in Nat /\ Uncounted' \in Nat
      BY SequenceLen DEF ParserInv, AreFrames, Uncounted
    <2>6. Parsing' => Len(open') = Len(before') + nesting' + Uncounted'
      <3>1. Parsing' => nesting' + Uncounted' = nesting + Uncounted
        BY DEF Parsing
      <3>2. Len(before') + nesting' + Uncounted' = Len(before) + (nesting' + Uncounted')
        BY <2>5, Regroup
      <3>3. Len(before) + nesting + Uncounted = Len(before) + (nesting + Uncounted)
        BY <2>5, Regroup
      <3>4. Len(open') = Len(open)
        OBVIOUS
      <3>5. QED  BY <2>1, <3>1, <3>2, <3>3, <3>4
    <2>7. ~Parsing' => Len(open') = Len(before') + nesting' + Uncounted
      BY <2>1 DEF Parsing
    <2>8. Counted'
      BY <2>6, <2>7 DEF Counted, Uncounted
    <2>9. QED  BY <2>1, <2>3, <2>4, <2>8
  <1>4. QED  BY <1>1, <1>2, <1>3 DEF ParserInv

\* The writer has failed.
LEMMA BrokenInv ==
    ASSUME ParserInv, before' = before, nesting' = nesting, broken' = TRUE,
           ~Parsing', parsed' # "running"
    PROVE  ParserInv'
  BY DEF ParserInv

LEMMA BeginInv ==
    ASSUME ParserInv, parser_pc = "value", NEW kind, Doc!Begin(kind),
           parser_pc' \in {"array", "object"}, parsed' = parsed,
           nesting' = nesting, before' = before
    PROVE  ParserInv'
  <1>1. /\ ~broken /\ broken' = broken /\ root' = root
        /\ open' = Append(open, Doc!Frame(kind))
    BY DEF Doc!Begin, Doc!ValueExpected
  <1>2. /\ AreFrames(before) /\ nesting \in Nat /\ parsed = "running"
        /\ ~AddedIt /\ ~AddedIt' /\ Parsing' /\ KeyInside'
        /\ Uncounted = 0 /\ Uncounted' = 1
    BY DEF ParserInv, Parsing, AddedIt, KeyInside, Uncounted
  <1>3. AreFrames(open) /\ Untouched(before, open, root) /\ Len(open) = Len(before) + nesting + 0
    BY <1>1, <1>2 DEF ParserInv, Parsing, Kept, Counted
  <1>4. AreFrames(open') /\ Untouched(before, open', root) /\ Len(open') = Len(open) + 1
    BY <1>1, <1>2, <1>3, BeginKeeps
  <1>5. Len(before) \in Nat
    BY <1>2, SequenceLen DEF AreFrames
  <1>6. Counted'
    BY <1>2, <1>3, <1>4, <1>5 DEF Counted
  <1>7. Kept'
    BY <1>1, <1>2, <1>4 DEF Kept
  <1>8. ~broken'
    BY <1>1
  <1>9. QED  BY <1>2, <1>4, <1>6, <1>7, <1>8 DEF ParserInv

\* A value is complete: a scalar, or a container around which are those in o.
LEMMA PlaceInv ==
    ASSUME ParserInv, Parsing, NEW o, AreFrames(o), Untouched(before, o, root),
           NEW tree, Doc!Place(tree, o), added' = <<>>, broken' = broken,
           parser_pc' = "after", parsed' = parsed,
           nesting' \in Nat, Len(o) = Len(before) + nesting', before' = before
    PROVE  ParserInv'
  <1>1. /\ AreFrames(before) /\ parsed' = "running" /\ Parsing' /\ KeyInside' /\ Uncounted' = 0
        /\ ~broken'
    BY DEF ParserInv, Parsing, KeyInside, Uncounted
  <1>2. IF o = <<>> THEN root' = <<tree>> /\ open' = <<>>
        ELSE root' = root /\ open' = Append(Front(o), Doc!WithItem(Last(o), tree))
    BY DEF Doc!Place, Doc!Front, Doc!Last, Front, Last
  <1>3. /\ AreFrames(open') /\ Len(open') = Len(o)
        /\ IF Len(o) = Len(before) THEN HasValue(before, open', root')
           ELSE Untouched(before, open', root')
    BY <1>1, <1>2, PlaceKeeps
  <1>4. Len(before) \in Nat
    BY <1>1, SequenceLen DEF AreFrames
  <1>5. AddedIt' <=> Len(o) = Len(before)
    BY <1>1, <1>4 DEF AddedIt
  <1>6. Kept'
    BY <1>3, <1>5 DEF Kept
  <1>7. Counted'
    BY <1>1, <1>3, <1>4 DEF Counted
  <1>8. QED  BY <1>1, <1>3, <1>6, <1>7 DEF ParserInv

LEMMA KeyInv ==
    ASSUME ParserInv, Parsing, Uncounted = 0, nesting > 0, ~AddedIt,
           NEW key, open' = Append(Front(open), Doc!WithKey(Last(open), key)),
           root' = root, broken' = broken, parser_pc' = "colon", parsed' = parsed,
           nesting' = nesting, before' = before
    PROVE  ParserInv'
  <1>1. /\ AreFrames(before) /\ nesting \in Nat /\ parsed' = "running" /\ ~broken'
        /\ Parsing' /\ KeyInside' /\ Uncounted' = 0 /\ ~AddedIt'
    BY DEF ParserInv, Parsing, KeyInside, Uncounted, AddedIt
  <1>2. ASSUME ~broken
        PROVE  /\ AreFrames(open') /\ Untouched(before, open', root')
               /\ Len(open') = Len(before) + nesting
    <2>1. AreFrames(open) /\ Untouched(before, open, root) /\ Len(open) = Len(before) + nesting + 0
      BY <1>2 DEF ParserInv, Kept, Counted
    <2>2. Len(before) \in Nat /\ Len(open) \in Nat /\ Len(open) > Len(before)
          /\ Len(open) = Len(before) + nesting
      BY <1>1, <2>1, SequenceLen DEF AreFrames
    <2> DEFINE frame == Doc!WithKey(Last(open), key)
               front == Front(open)
    <2>3. IsFrame(Last(open)) /\ Len(open) \in 1..Len(open) /\ open # <<>>
      BY <2>1, <2>2 DEF AreFrames, Last
    <2>4. frame = [kind |-> Last(open).kind, items |-> Last(open).items, key |-> <<key>>]
      BY DEF Doc!WithKey
    <2>5. IsFrame(frame)
      BY <2>3, <2>4 DEF IsFrame
    <2>6. open' = Append(front, frame)
      OBVIOUS
    <2>7. /\ IsSequence(front) /\ Len(front) = Len(open) - 1
          /\ \A k \in 1..(Len(open) - 1) : front[k] = open[k]
      BY <2>1, <2>3, FrontSequence DEF AreFrames
    <2> HIDE DEF frame, front
    <2>8. /\ IsSequence(open') /\ Len(open') = Len(front) + 1 /\ open'[Len(front) + 1] = frame
          /\ \A k \in 1..Len(front) : open'[k] = front[k]
      BY <2>6, <2>7, AppendSequence
    <2>9. Len(open') = Len(open)
      BY <2>2, <2>7, <2>8
    <2>10. /\ IsSequence(open') /\ open'[Len(open)] = frame
           /\ \A k \in 1..Len(open)-1 : open'[k] = open[k]
      BY <2>2, <2>7, <2>8
    <2>11. AreFrames(open') /\ Untouched(before, open', root)
      BY <1>1, <2>1, <2>2, <2>5, <2>9, <2>10, InnermostKeeps
    <2>12. QED  BY <2>2, <2>9, <2>11
  <1>3. Len(before) \in Nat
    BY <1>1, SequenceLen DEF AreFrames
  <1>4. ~broken' => Counted'
    BY <1>1, <1>2, <1>3 DEF Counted
  <1>5. ~broken' => Kept'
    BY <1>1, <1>2 DEF Kept
  <1>6. QED  BY <1>1, <1>2, <1>4, <1>5 DEF ParserInv

-----------------------------------------------------------------------------
(***************************************************************************)
(* The actions                                                             *)
(***************************************************************************)

LEMMA RefuseInv ==
    ASSUME ParserInv, Parsing, ~AddedIt, before' = before, NEW where, Refuse(where)
    PROVE  ParserInv'
  <1>1. /\ UNCHANGED <<before, root, open, broken>> /\ nesting' = nesting
        /\ parsed' = "refused" /\ ~Parsing'
    BY DEF Refuse, Stop, writer_vars, Parsing
  <1>2. nesting' \in Nat
    BY <1>1 DEF ParserInv
  <1>3. QED  BY <1>1, <1>2, GoesInv

LEMMA AppendFailsInv ==
    ASSUME ParserInv, Parsing, ~AddedIt, before' = before, NEW chars, AppendFails(chars)
    PROVE  ParserInv'
  <1>1. /\ UNCHANGED <<before, root, open, broken>> /\ nesting' = nesting
        /\ parsed' = "failed" /\ ~Parsing'
    BY DEF AppendFails, Doc!Refuse, Stop, Parsing
  <1>2. nesting' \in Nat
    BY <1>1 DEF ParserInv
  <1>3. QED  BY <1>1, <1>2, GoesInv

LEMMA FailsInv ==
    ASSUME ParserInv, before' = before, WriterFails
    PROVE  ParserInv'
  <1>1. broken' = TRUE /\ nesting' = nesting /\ ~Parsing' /\ parsed' # "running"
    BY DEF WriterFails, Doc!Break, Stop, Parsing
  <1>2. QED  BY <1>1, BrokenInv

\* A value is expected.
LEMMA AtValue ==
    ASSUME ParserInv, parser_pc = "value"
    PROVE  /\ Parsing /\ ~AddedIt /\ Uncounted = 0 /\ nesting \in Nat /\ ~broken
           /\ AreFrames(open) /\ Untouched(before, open, root)
           /\ Len(before) \in Nat /\ Len(open) = Len(before) + nesting
  <1>1. Parsing /\ parsed = "running" /\ ~AddedIt /\ Uncounted = 0 /\ nesting \in Nat /\ ~broken
    BY DEF Parsing, AddedIt, Uncounted, ParserInv
  <1>2. /\ AreFrames(open) /\ Untouched(before, open, root)
        /\ Len(open) = Len(before) + nesting + 0
    BY <1>1 DEF ParserInv, Kept, Counted
  <1>3. Len(before) \in Nat
    BY SequenceLen DEF ParserInv, AreFrames
  <1>4. QED  BY <1>1, <1>2, <1>3

LEMMA ScalarInv ==
    ASSUME ParserInv, parser_pc = "value", before' = before, NEW payload,
           Doc!AddScalar(payload), parser_pc' = "after", parsed' = parsed, nesting' = nesting
    PROVE  ParserInv'
  <1> DEFINE tree == [scalar |-> payload]
  <1>1. Doc!Place(tree, open) /\ added' = <<>> /\ broken' = broken
    BY DEF Doc!AddScalar, Doc!ValueExpected
  <1> HIDE DEF tree
  <1>2. QED  BY <1>1, AtValue, PlaceInv

\* The innermost container is complete, and its opening is no longer counted.
LEMMA CloseInv ==
    ASSUME ParserInv, Parsing, ~AddedIt, before' = before, NEW tree,
           Doc!Place(tree, Doc!Front(open)), added' = <<>>, broken' = broken,
           parser_pc' = "after", parsed' = parsed,
           nesting' \in Nat, nesting' + 1 = nesting + Uncounted
    PROVE  ParserInv'
  <1>1. /\ AreFrames(before) /\ nesting \in Nat /\ AreFrames(open)
        /\ Untouched(before, open, root)
        /\ Len(open) = Len(before) + nesting + Uncounted
    BY DEF ParserInv, Kept, Counted
  <1>2. Len(before) \in Nat /\ Uncounted \in Nat
    BY <1>1, SequenceLen DEF AreFrames, Uncounted
  <1>3. Len(open) = Len(before) + (nesting' + 1)
    <2>1. Len(before) + nesting + Uncounted = Len(before) + (nesting + Uncounted)
      BY <1>1, <1>2, Regroup
    <2>2. QED  BY <1>1, <2>1
  <1>4. Len(open) > Len(before) /\ Len(open) - 1 = Len(before) + nesting'
    BY <1>2, <1>3
  <1> DEFINE o == Front(open)
  <1>5. /\ AreFrames(o) /\ Untouched(before, o, root)
        /\ Len(o) = Len(before) + nesting'
    BY <1>1, <1>4, FrontKeeps
  <1>6. Doc!Place(tree, o)
    BY DEF Doc!Front, Front
  <1> HIDE DEF o
  <1>7. QED  BY <1>5, <1>6, PlaceInv

LEMMA EmptyInv ==
    ASSUME ParserInv, parser_pc \in {"array", "object"}, before' = before,
           Doc!EndArray \/ Doc!EndObject, parser_pc' = "after", parsed' = parsed,
           nesting' = nesting
    PROVE  ParserInv'
  <1>1. Parsing /\ ~AddedIt /\ Uncounted = 1 /\ nesting' \in Nat
        /\ nesting' + 1 = nesting + Uncounted
    BY DEF ParserInv, Parsing, AddedIt, Uncounted
  <1>2. PICK tree : Doc!Place(tree, Doc!Front(open)) /\ added' = <<>> /\ broken' = broken
    BY DEF Doc!EndArray, Doc!EndObject, Doc!EndExpected
  <1>3. QED  BY <1>1, <1>2, CloseInv

\* The parser goes on behind a bracket, a comma or a colon.
LEMMA SkipInv ==
    ASSUME ParserInv, Parsing, ~AddedIt, before' = before, UNCHANGED writer_vars,
           parsed' = parsed, nesting' \in Nat, nesting' + Uncounted' = nesting + Uncounted,
           parser_pc' \in {"value", "key"}, parser_pc' = "key" => nesting' > 0
    PROVE  ParserInv'
  <1>1. Parsing' /\ ~AddedIt' /\ KeyInside'
    BY DEF ParserInv, Parsing, AddedIt, KeyInside
  <1>2. UNCHANGED <<before, root, open, broken>>
    BY DEF writer_vars
  <1>3. QED  BY <1>1, <1>2, GoesInv

\* A string or a key.
LEMMA StringInv ==
    ASSUME ParserInv, before' = before, NEW use, String(use),
           \/ parser_pc = "value" /\ use = "scalar"
           \/ parser_pc = "key" /\ use = "key"
    PROVE  ParserInv'
  <1>1. /\ Parsing /\ ~AddedIt /\ Uncounted = 0 /\ nesting \in Nat
        /\ use = "key" => nesting > 0
    BY DEF ParserInv, Parsing, AddedIt, Uncounted, KeyInside
  <1> DEFINE start  == NextPlace + 1
             end    == NextQuote(start)
             escape == Find(Backslash, start, end)
  <1>2. CASE Refuse(NextPlace)
    BY <1>1, <1>2, RefuseInv
  <1>3. CASE AddString(use, SubSeq(json, start, end - 1), end + 1)
    <2> DEFINE chars == SubSeq(json, start, end - 1)
    <2>1. CASE Refuse(end + 1)
      BY <1>1, <2>1, RefuseInv
    <2>2. CASE WriterFails
      BY <2>2, FailsInv
    <2>3. CASE /\ IF use = "key" THEN Doc!SetKey(chars) ELSE Doc!AddScalar(<<StringType>> \o chars)
               /\ Go(IF use = "key" THEN "colon" ELSE "after", end + 1)
               /\ UNCHANGED <<nesting, quote>>
      <3> HIDE DEF chars, end
      <3>1. parser_pc' = (IF use = "key" THEN "colon" ELSE "after")
            /\ parsed' = parsed /\ nesting' = nesting
        BY <2>3 DEF Go
      <3>2. CASE use = "key"
        <4>1. /\ open' = Append(Front(open), Doc!WithKey(Last(open), chars))
              /\ root' = root /\ broken' = broken
          BY <2>3, <3>2 DEF Doc!SetKey, Doc!Front, Doc!Last, Front, Last
        <4>2. parser_pc' = "colon"
          BY <3>1, <3>2
        <4>3. QED  BY <1>1, <3>1, <3>2, <4>1, <4>2, KeyInv
      <3>3. CASE use # "key"
        <4>1. Doc!AddScalar(<<StringType>> \o chars)
          BY <2>3, <3>3
        <4>2. parser_pc = "value" /\ parser_pc' = "after"
          BY <3>1, <3>3
        <4>3. QED  BY <3>1, <4>1, <4>2, ScalarInv
      <3>4. QED  BY <3>2, <3>3
    <2>4. QED  BY <1>3, <2>1, <2>2, <2>3 DEF AddString
  <1>4. CASE WriterFails
    BY <1>4, FailsInv
  <1>5. CASE /\ Doc!BeginText(use, IF use = "key" THEN <<>> ELSE <<StringType>>)
             /\ quote' = end
             /\ Go("string", start)
             /\ UNCHANGED nesting
    <2> HIDE DEF end, start
    <2>1. UNCHANGED <<before, root, open, broken>>
      BY <1>5 DEF Doc!BeginText
    <2>2. parser_pc' = "string" /\ parsed' = parsed /\ nesting' = nesting
      BY <1>5 DEF Go
    <2>3. added'[1].use = use
      BY <1>5 DEF Doc!BeginText
    <2>4. Parsing' /\ ~AddedIt' /\ KeyInside' /\ Uncounted' = 0
      BY <1>1, <2>2, <2>3 DEF ParserInv, Parsing, AddedIt, KeyInside, Uncounted
    <2>5. QED  BY <1>1, <2>1, <2>2, <2>4, GoesInv
  <1>6. QED  BY <1>2, <1>3, <1>4, <1>5 DEF String

\* More of a string or a key.
LEMMA CollectInv ==
    ASSUME ParserInv, parser_pc \in {"string", "escape"}, before' = before,
           NEW chars, Collect(chars),
           \/ parsed' = "refused" /\ ~Parsing'
           \/ parsed' = parsed /\ parser_pc' \in {"string", "escape", "string_end"}
    PROVE  ParserInv'
  <1>1. /\ Parsing /\ ~AddedIt /\ Uncounted = 0 /\ ~broken
        /\ added[1].use = "key" => nesting > 0
    BY DEF ParserInv, Parsing, AddedIt, Uncounted, KeyInside
  <1>2. UNCHANGED <<before, root, open, broken>> /\ nesting' = nesting
        /\ added'[1].use = added[1].use
    BY DEF Collect, Doc!AppendText
  <1>3. nesting' \in Nat
    BY <1>2 DEF ParserInv
  <1>4. CASE parsed' = "refused" /\ ~Parsing'
    BY <1>1, <1>2, <1>3, <1>4, GoesInv
  <1>5. CASE parsed' = parsed /\ parser_pc' \in {"string", "escape", "string_end"}
    <2>1. Parsing' /\ ~AddedIt' /\ KeyInside' /\ Uncounted' = 0
      BY <1>1, <1>2, <1>5 DEF ParserInv, Parsing, AddedIt, KeyInside, Uncounted
    <2>2. QED  BY <1>1, <1>2, <1>3, <1>5, <2>1, GoesInv
  <1>6. QED  BY <1>4, <1>5

LEMMA EndStringInv ==
    ASSUME ParserInv, EndString, before' = before
    PROVE  ParserInv'
  <1>1. /\ Parsing /\ ~AddedIt /\ Uncounted = 0 /\ ~broken /\ nesting \in Nat
        /\ added[1].use = "key" => nesting > 0
    BY DEF EndString, At, ParserInv, Parsing, AddedIt, Uncounted, KeyInside
  <1>2. CASE added[1].use = "key"
    <2>1. /\ open' = Append(Front(open), Doc!WithKey(Last(open), added[1].chars))
          /\ root' = root /\ broken' = broken
      BY <1>2 DEF EndString, Doc!EndKey, Doc!Front, Doc!Last, Front, Last
    <2>2. parser_pc' = "colon" /\ parsed' = parsed /\ nesting' = nesting
      BY <1>2 DEF EndString, Go
    <2> DEFINE key == added[1].chars
    <2> HIDE DEF key
    <2>3. open' = Append(Front(open), Doc!WithKey(Last(open), key))
      BY <2>1 DEF key
    <2>4. QED  BY <1>1, <1>2, <2>1, <2>2, <2>3, KeyInv
  <1>3. CASE added[1].use # "key"
    <2> DEFINE tree == [scalar |-> added[1].chars]
    <2>1. Doc!Place(tree, open) /\ added' = <<>> /\ broken' = broken
      BY <1>3 DEF EndString, Doc!EndScalar
    <2>2. parser_pc' = "after" /\ parsed' = parsed /\ nesting' = nesting
      BY <1>3 DEF EndString, Go
    <2>3. /\ AreFrames(open) /\ Untouched(before, open, root)
          /\ Len(open) = Len(before) + nesting + 0
      BY <1>1 DEF ParserInv, Kept, Counted
    <2>4. Len(before) \in Nat
      BY SequenceLen DEF ParserInv, AreFrames
    <2>5. Len(open) = Len(before) + nesting'
      BY <1>1, <2>2, <2>3, <2>4
    <2> HIDE DEF tree
    <2>6. QED  BY <1>1, <2>1, <2>2, <2>3, <2>5, PlaceInv
  <1>4. QED  BY <1>2, <1>3

\* A container is closed behind a value, or another item follows.
LEMMA CloseContainerInv ==
    ASSUME ParserInv, At("after"), nesting # 0, before' = before,
           Doc!EndArray \/ Doc!EndObject, parser_pc' = "after", parsed' = parsed,
           nesting' = nesting - 1
    PROVE  ParserInv'
  <1>1. Parsing /\ ~AddedIt /\ Uncounted = 0 /\ nesting \in Nat
    BY DEF At, ParserInv, Parsing, AddedIt, Uncounted
  <1>2. nesting' \in Nat /\ nesting' + 1 = nesting + Uncounted
    BY <1>1
  <1>3. PICK tree : Doc!Place(tree, Doc!Front(open)) /\ added' = <<>> /\ broken' = broken
    BY DEF Doc!EndArray, Doc!EndObject, Doc!EndExpected
  <1>4. QED  BY <1>1, <1>2, <1>3, CloseInv

LEMMA SeparatedInv ==
    ASSUME ParserInv, before' = before, NEW kind, NEW next, NEW bracket,
           Separated(kind, next, bracket), next \in {"value", "key"}
    PROVE  ParserInv'
  <1>1. /\ parser_pc = "after" /\ nesting # 0 /\ nesting \in Nat
        /\ Parsing /\ ~AddedIt /\ Uncounted = 0
    BY DEF Separated, Inside, At, ParserInv, Parsing, AddedIt, Uncounted
  <1>2. CASE Refuse(NextPlace + 1)
    BY <1>1, <1>2, RefuseInv
  <1>3. CASE Go(next, NextPlace + 1) /\ UNCHANGED <<nesting, quote, writer_vars>>
    <2>1. parser_pc' = next /\ parsed' = parsed /\ UNCHANGED writer_vars /\ nesting' = nesting
      BY <1>3 DEF Go
    <2>2. Uncounted' = 0
      BY <2>1 DEF Uncounted
    <2>3. nesting' \in Nat /\ nesting' > 0 /\ nesting' + Uncounted' = nesting + Uncounted
      BY <1>1, <2>1, <2>2
    <2>4. QED  BY <1>1, <2>1, <2>3, SkipInv
  <1>4. QED  BY <1>2, <1>3 DEF Separated

LEMMA CompleteInv ==
    ASSUME ParserInv, ValueComplete, before' = before
    PROVE  ParserInv'
  <1>1. /\ AddedIt /\ AddedIt' /\ ~Parsing' /\ parsed' # "running" /\ KeyInside'
        /\ UNCHANGED <<nesting, root, open, added, broken>>
        /\ Parsing /\ Uncounted = 0
    BY DEF ValueComplete, At, Stop, writer_vars, Parsing, AddedIt, KeyInside, Uncounted
  <1>2. ~broken => /\ HasValue(before, open, root) /\ added = <<>>
                   /\ Len(open) = Len(before) + nesting + 0
    BY <1>1 DEF ParserInv, Kept, Counted
  <1>3. ~broken' => Kept' /\ Counted'
    BY <1>1, <1>2 DEF Kept, Counted
  <1>4. QED  BY <1>1, <1>3 DEF ParserInv

LEMMA ParserNextInv == ParserInv /\ [ParserNext]_parser_vars => ParserInv'
  <1> SUFFICES ASSUME ParserInv, [ParserNext]_parser_vars
               PROVE  ParserInv'
    OBVIOUS
  <1>1. CASE UNCHANGED parser_vars
    BY <1>1 DEF parser_vars, writer_vars, ParserInv, Parsing, Uncounted, AddedIt, Kept, Counted,
                KeyInside
  <1>2. CASE Parse /\ before' = before
    <2> USE <1>2
    <2>1. ASSUME parser_pc # "done", ~(parser_pc = "after" /\ nesting = 0)
          PROVE  Parsing /\ ~AddedIt
      BY <2>1 DEF ParserInv, Parsing, AddedIt
    <2>2. CASE TextEnds
      <3>1. /\ parser_pc # "done" /\ ~(parser_pc = "after" /\ nesting = 0) /\ Refuse(pos)
        BY <2>2 DEF TextEnds, At
      <3>2. QED  BY <2>1, <3>1, RefuseInv
    <2>3. CASE BeginArray
      <3>1. CASE Doc!Begin("array") /\ Go("array", NextPlace + 1) /\ UNCHANGED <<nesting, quote>>
        BY <2>3, <3>1, BeginInv DEF BeginArray, At, Go
      <3>2. QED  BY <2>3, <3>1, FailsInv DEF BeginArray
    <2>4. CASE BeginObject
      <3>1. CASE Doc!Begin("object") /\ Go("object", NextPlace + 1) /\ UNCHANGED <<nesting, quote>>
        BY <2>4, <3>1, BeginInv DEF BeginObject, At, Go
      <3>2. QED  BY <2>4, <3>1, FailsInv DEF BeginObject
    <2>5. CASE EmptyArray
      BY <2>5, EmptyInv DEF EmptyArray, At, Go
    <2>6. CASE EmptyObject
      BY <2>6, EmptyInv DEF EmptyObject, At, Go
    <2>7. CASE FirstItem
      <3>1. /\ parser_pc = "array" /\ nesting' = nesting + 1 /\ parser_pc' = "value"
            /\ parsed' = parsed /\ UNCHANGED writer_vars
        BY <2>7 DEF FirstItem, At, Go
      <3>2. nesting' \in Nat /\ nesting' + Uncounted' = nesting + Uncounted
        BY <3>1 DEF ParserInv, Uncounted
      <3>3. QED  BY <2>1, <3>1, <3>2, SkipInv
    <2>8. CASE FirstMember
      <3>1. /\ parser_pc = "object" /\ nesting' = nesting + 1 /\ parser_pc' = "key"
            /\ parsed' = parsed /\ UNCHANGED writer_vars
        BY <2>8 DEF FirstMember, At, Go
      <3>2. nesting' \in Nat /\ nesting' > 0 /\ nesting' + Uncounted' = nesting + Uncounted
        BY <3>1 DEF ParserInv, Uncounted
      <3>3. QED  BY <2>1, <3>1, <3>2, SkipInv
    <2>9. CASE AddLiteral
      <3>1. PICK literal \in Literals :
              /\ At("value")
              /\ \/ /\ Doc!AddScalar(<<literal.type>>)
                    /\ Go("after", NextPlace + Len(literal.word))
                    /\ UNCHANGED <<nesting, quote>>
                 \/ WriterFails
                 \/ Refuse(NextPlace)
        BY <2>9 DEF AddLiteral
      <3>2. CASE Doc!AddScalar(<<literal.type>>) /\ Go("after", NextPlace + Len(literal.word))
                 /\ UNCHANGED <<nesting, quote>>
        BY <3>1, <3>2, ScalarInv DEF At, Go
      <3>3. CASE Refuse(NextPlace)
        BY <2>1, <3>1, <3>3, RefuseInv DEF At
      <3>4. QED  BY <3>1, <3>2, <3>3, FailsInv
    <2>10. CASE AddNumber
      <3> DEFINE end == NumberEnd(NextPlace)
                 payload == <<DecimalType>> \o SubSeq(json, NextPlace, end - 1)
      <3>1. /\ At("value")
            /\ \/ Refuse(NextPlace)
               \/ Doc!Break /\ Stop("refused", end) /\ UNCHANGED <<nesting, quote>>
               \/ Doc!AddScalar(payload) /\ Go("after", end) /\ UNCHANGED <<nesting, quote>>
               \/ WriterFails
        BY <2>10 DEF AddNumber
      <3> HIDE DEF payload, end
      <3>2. CASE Doc!AddScalar(payload) /\ Go("after", end) /\ UNCHANGED <<nesting, quote>>
        BY <3>1, <3>2, ScalarInv DEF At, Go
      <3>3. CASE Refuse(NextPlace)
        BY <2>1, <3>1, <3>3, RefuseInv DEF At
      <3>4. CASE Doc!Break /\ Stop("refused", end) /\ UNCHANGED <<nesting, quote>>
        BY <3>4, BrokenInv DEF Doc!Break, Stop, Parsing
      <3>5. QED  BY <3>1, <3>2, <3>3, <3>4, FailsInv
    <2>11. CASE StringValue
      BY <2>11, StringInv DEF StringValue, At
    <2>12. CASE NoValue
      BY <2>1, <2>12, RefuseInv DEF NoValue, At
    <2>13. CASE Key
      BY <2>13, StringInv DEF Key, At
    <2>14. CASE NoKey
      BY <2>1, <2>14, RefuseInv DEF NoKey, At
    <2>15. CASE AppendChunk
      <3> DEFINE escape == Find(Backslash, pos, quote)
                 chunk  == SubSeq(json, pos, escape - 1)
      <3>1. /\ parser_pc = "string"
            /\ \/ Refuse(pos) \/ AppendFails(chunk)
               \/ Collect(chunk) /\ Go("escape", escape)
        BY <2>15 DEF AppendChunk, At
      <3> HIDE DEF escape, chunk
      <3>2. CASE Refuse(pos)
        BY <2>1, <3>1, <3>2, RefuseInv
      <3>3. CASE AppendFails(chunk)
        BY <2>1, <3>1, <3>3, AppendFailsInv
      <3>4. CASE Collect(chunk) /\ Go("escape", escape)
        BY <3>1, <3>4, CollectInv DEF Go
      <3>5. QED  BY <3>1, <3>2, <3>3, <3>4
    <2>16. CASE AppendEscape
      <3> DEFINE chars == EscapeAt(pos)[1].bytes
                 next  == EscapeAt(pos)[1].end
      <3>1. /\ parser_pc = "escape"
            /\ \/ Refuse(pos) \/ AppendFails(chars)
               \/ Collect(chars) /\ (Stop("refused", next) \/ Go("string", next))
        BY <2>16 DEF AppendEscape, At
      <3> HIDE DEF chars, next
      <3>2. CASE Refuse(pos)
        BY <2>1, <3>1, <3>2, RefuseInv
      <3>3. CASE AppendFails(chars)
        BY <2>1, <3>1, <3>3, AppendFailsInv
      <3>4. CASE Collect(chars) /\ Stop("refused", next)
        BY <3>1, <3>4, CollectInv DEF Stop, Parsing
      <3>5. CASE Collect(chars) /\ Go("string", next)
        BY <3>1, <3>5, CollectInv DEF Go
      <3>6. QED  BY <3>1, <3>2, <3>3, <3>4, <3>5
    <2>17. CASE AppendRest
      <3> DEFINE rest == SubSeq(json, pos, quote - 1)
      <3>1. /\ parser_pc = "string"
            /\ \/ Refuse(quote + 1) \/ AppendFails(rest)
               \/ Collect(rest) /\ Go("string_end", quote + 1)
        BY <2>17 DEF AppendRest, At
      <3> HIDE DEF rest
      <3>2. CASE Refuse(quote + 1)
        BY <2>1, <3>1, <3>2, RefuseInv
      <3>3. CASE AppendFails(rest)
        BY <2>1, <3>1, <3>3, AppendFailsInv
      <3>4. CASE Collect(rest) /\ Go("string_end", quote + 1)
        BY <3>1, <3>4, CollectInv DEF Go
      <3>5. QED  BY <3>1, <3>2, <3>3, <3>4
    <2>18. CASE EndString
      BY <2>18, EndStringInv
    <2>19. CASE StringInvalid
      <3>1. broken' = TRUE /\ nesting' = nesting /\ ~Parsing' /\ parsed' # "running"
        BY <2>19 DEF StringInvalid, Doc!Break, Stop, Parsing
      <3>2. QED  BY <3>1, BrokenInv
    <2>20. CASE SkipColon
      <3>1. parser_pc = "colon"
        BY <2>20 DEF SkipColon, At
      <3>2. CASE Refuse(NextPlace + 1)
        BY <2>1, <3>1, <3>2, RefuseInv
      <3>3. CASE Go("value", NextPlace + 1) /\ UNCHANGED <<nesting, quote, writer_vars>>
        <4>1. parser_pc' = "value" /\ parsed' = parsed /\ UNCHANGED writer_vars /\ nesting' = nesting
          BY <3>3 DEF Go
        <4>2. nesting' \in Nat /\ nesting' + Uncounted' = nesting + Uncounted
          BY <3>1, <4>1 DEF ParserInv, Uncounted
        <4>3. QED  BY <2>1, <3>1, <4>1, <4>2, SkipInv
      <3>4. QED  BY <2>20, <3>2, <3>3 DEF SkipColon
    <2>21. CASE CloseArray
      <3>1. /\ At("after") /\ nesting # 0
            /\ Doc!EndArray /\ parser_pc' = "after" /\ parsed' = parsed
            /\ nesting' = nesting - 1
        BY <2>21 DEF CloseArray, CloseContainer, Inside, Go
      <3>2. QED  BY <3>1, CloseContainerInv
    <2>22. CASE CloseObject
      <3>1. /\ At("after") /\ nesting # 0
            /\ Doc!EndObject /\ parser_pc' = "after" /\ parsed' = parsed
            /\ nesting' = nesting - 1
        BY <2>22 DEF CloseObject, CloseContainer, Inside, Go
      <3>2. QED  BY <3>1, CloseContainerInv
    <2>23. CASE NextItem
      BY <2>23, SeparatedInv DEF NextItem
    <2>24. CASE NextMember
      BY <2>24, SeparatedInv DEF NextMember
    <2>25. CASE ValueComplete
      BY <2>25, CompleteInv
    <2>26. QED
      BY <2>2, <2>3, <2>4, <2>5, <2>6, <2>7, <2>8, <2>9, <2>10, <2>11, <2>12, <2>13, <2>14,
         <2>15, <2>16, <2>17, <2>18, <2>19, <2>20, <2>21, <2>22, <2>23, <2>24, <2>25 DEF Parse
  <1>3. QED  BY <1>1, <1>2 DEF ParserNext

LEMMA ParserInvKeeps == ParserInv => OnlyAddsItsValue
  <1> SUFFICES ASSUME ParserInv, ~broken
               PROVE  OnlyAddsItsValue
    BY DEF OnlyAddsItsValue
  <1>1. Len(before) \in Nat /\ nesting \in Nat
    BY SequenceLen DEF ParserInv, AreFrames
  <1>2. /\ parsed = "running" => Len(open) = Len(before) + nesting + Uncounted
        /\ parsed # "running" => \E more \in {0, 1} : Len(open) = Len(before) + nesting + more
    BY DEF ParserInv, Counted
  <1>3. parsed # "running" => Len(open) - Len(before) - nesting \in {0, 1}
    BY <1>1, <1>2
  <1>4. CASE AddedIt
    <2>1. HasValue(before, open, root) /\ added = <<>>
      BY <1>4 DEF ParserInv, Kept
    <2>2. QED  BY <1>1, <1>2, <1>3, <1>4, <2>1 DEF HasValue, OnlyAddsItsValue, AddedIt, At, Uncounted
  <1>5. CASE ~AddedIt
    <2>1. Untouched(before, open, root)
      BY <1>5 DEF ParserInv, Kept
    <2>2. /\ \A k \in 1..Len(before)-1 : open[k] = before[k]
          /\ Len(before) > 0 => open[Len(before)] = before[Len(before)]
      BY <1>1, <2>1 DEF Untouched
    <2>3. QED
      BY <1>1, <1>2, <1>3, <1>5, <2>1, <2>2 DEF Untouched, OnlyAddsItsValue, AddedIt, At, Uncounted
  <1>6. QED  BY <1>4, <1>5

(***************************************************************************)
(* Whatever the text and however deep its containers, the parser leaves    *)
(* the containers that were open before the call as they were, adds one    *)
(* value to the innermost of them if it takes the text and none if not,    *)
(* and counts just the containers that it has opened: when it asks the     *)
(* writer for the innermost one there is one (bijson_parse_json).  A       *)
(* writer that can still be used, after a text that was refused or an      *)
(* append that failed, has at most one container more than were counted.   *)
(***************************************************************************)
THEOREM ParserOnlyAddsItsValue == ParserSpec => []OnlyAddsItsValue
  <1>1. ParserInit => ParserInv
    BY ParserInitInv
  <1>2. ParserInv /\ [ParserNext]_parser_vars => ParserInv'
    BY ParserNextInv
  <1>3. ParserInv => OnlyAddsItsValue
    BY ParserInvKeeps
  <1>4. QED  BY <1>1, <1>2, <1>3, PTL DEF ParserSpec
=============================================================================
