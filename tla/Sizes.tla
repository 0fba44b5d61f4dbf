------------------------------- MODULE Sizes -------------------------------
(***************************************************************************)
(* The integer widths of the bijson format (lib/writer.h).  A container    *)
(* stores its element count and its offsets as little-endian integers of   *)
(* 1, 2, 4 or 8 bytes, the smallest of these that fits the largest value   *)
(* stored; the exponent w of the width 2^w goes into the type byte.        *)
(*                                                                         *)
(* Base is the number of values of one byte: 256 in the code, smaller when *)
(* TLC checks instances, so that the steps from one width to the next      *)
(* happen at sizes TLC can reach.                                          *)
(***************************************************************************)
EXTENDS Integers

CONSTANTS
    Base,
    SizeMax     \* SIZE_MAX, the largest size_t

ASSUME BaseAssumption == Base \in Nat \ {0, 1}
ASSUME SizeMaxAssumption == SizeMax \in Nat

Width == 0..3

\* The smallest width whose integers can hold len.
OptimalStorageSize(len) ==
    IF len > Base * Base - 1
    THEN IF len > Base * Base * Base * Base - 1 THEN 3 ELSE 2
    ELSE IF len > Base - 1 THEN 1 ELSE 0

\* The smallest width whose integers can hold len - 1.
OptimalStorageSize1(len) ==
    IF len > Base * Base
    THEN IF len > Base * Base * Base * Base THEN 3 ELSE 2
    ELSE IF len > Base THEN 1 ELSE 0

OptimalStorageSizeBytes(width) == 2 ^ width

\* The bytes of u as an integer of 2^width bytes, least significant first;
\* what does not fit is cut off.
CompactInt(u, width) ==
    [i \in 1..OptimalStorageSizeBytes(width) |-> (u \div Base ^ (i - 1)) % Base]
=============================================================================
