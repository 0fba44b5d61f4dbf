----------------------------- MODULE KeyLookup -----------------------------
(***************************************************************************)
(* Looking up a key in an object (lib/reader/object/key.c).                *)
(*                                                                         *)
(* The items of an object are sorted by the hash of their keys.  The       *)
(* lookup keeps a bracket of items that may hold the key, and guesses      *)
(* where in it the key is from the hashes at its ends; when that does not  *)
(* find it in as many steps as bisection would take, it bisects.           *)
(*                                                                         *)
(* A key is [hash, len, content]; content orders the keys of one length as *)
(* memcmp does.  The hash is that of the whole key, so it depends on the   *)
(* other two.  The items are those that write_object has sorted            *)
(* (lib/writer/object.c), and the table a function from 0.                 *)
(***************************************************************************)
EXTENDS Integers

CONSTANTS
    Keys,               \* the keys of items, and those looked up
    MaxHash,            \* UINT64_MAX
    Mantissa,           \* the mantissas of a long double: 2^64 on x86-64
    Powers,             \* the powers of two, as far as a long double needs them
    HaveBuiltinClzll,   \* whether the build counts leading zeros in one go
    MaxCount            \* bound: items in the object

\* Long doubles of the size of x are multiples of unit.
Spacing(x, unit) ==
    /\ x < unit * Mantissa
    /\ unit = 1 \/ unit * Mantissa <= 2 * x

ASSUME KeysAssumption ==
    /\ MaxHash \in Nat
    /\ \A k \in Keys : k.hash \in 0..MaxHash /\ k.len \in Nat /\ k.content \in Nat
    /\ \A k, l \in Keys : k.len = l.len /\ k.content = l.content => k = l

\* The count of a size_t.
ASSUME CountAssumption ==
    /\ MaxCount \in Nat /\ HaveBuiltinClzll \in BOOLEAN
    /\ \E b \in 0..64 : MaxCount < 2^b

ASSUME LongDoubleAssumption ==
    /\ Mantissa \in Nat \ {0}
    /\ Powers \subseteq Nat \ {0}
    /\ \A n \in 0..MaxCount, h \in 0..MaxHash : \E unit \in Powers : Spacing(n * h, unit)

\* Hashes are exact as long doubles, counts with a bit to spare.
ASSUME MantissaAssumption ==
    /\ MaxHash < Mantissa /\ 2 * MaxCount < Mantissa
    /\ \A n \in 0..MaxCount : \E p \in Powers : n < p /\ (p = 1 \/ p <= 2 * n)

VARIABLES
    table,      \* the keys of the object's items
    count,
    wanted,     \* the key that is looked up
    lookup,     \* start, search, or how the lookup ended
    lower,      \* the bracket: the hash before its first item and its index,
    upper,      \* the hash of the item behind its last one and its index
    attempt,
    found       \* the index of the item that was found

lookup_vars == <<table, count, wanted, lookup, lower, upper, attempt, found>>
call == <<table, count, wanted>>

\* How a lookup ends.
Answers == {"found", "key_not_found", "index_out_of_range"}

-----------------------------------------------------------------------------
(***************************************************************************)
(* The order of keys: negative, zero or positive.                          *)
(***************************************************************************)

\* Mutant: of two keys with one hash the longer one comes first.
GetKeyEntryCmp_LongerFirst(a, b) ==
    IF a.hash = b.hash
    THEN IF a.len = b.len THEN a.content - b.content
         ELSE IF a.len > b.len THEN -1 ELSE 1
    ELSE IF a.hash < b.hash THEN -1 ELSE 1

GetKeyEntryCmp(a, b) ==
    IF a.hash = b.hash
    THEN IF a.len = b.len THEN a.content - b.content
         ELSE IF a.len < b.len THEN -1 ELSE 1
    ELSE IF a.hash < b.hash THEN -1 ELSE 1

\* The order in which write_object has put the items.
Before(a, b) ==
    \/ a.hash < b.hash
    \/ a.hash = b.hash /\ a.len < b.len
    \/ a.hash = b.hash /\ a.len = b.len /\ a.content < b.content

Sorted(t, n) == \A i, j \in 0..(n - 1) : i < j => ~Before(t[j], t[i])

-----------------------------------------------------------------------------
(***************************************************************************)
(* Guessing the index of a key                                             *)
(***************************************************************************)

\* The number of binary digits of x.
BitLength(x) == CHOOSE b \in 0..64 : x < 2^b /\ (b > 0 => x >= 2^(b - 1))

\* The steps a guess has before bisection takes over; x is at least 2.
\* The two branches of _bijson_2log64 differ by one.
Log2(x) == IF HaveBuiltinClzll THEN BitLength(x - 1) - 1 ELSE BitLength(x - 1)

\* A whole number as a long double: the nearest one, or the even one of two.
LongDouble(x) ==
    LET unit  == CHOOSE u \in Powers : Spacing(x, u)
        above == x % unit
        even  == (x \div unit) % 2 = 0
    IN  IF 2 * above < unit \/ (2 * above = unit /\ even)
        THEN x - above ELSE x - above + unit

\* floorl(x / y): the division, too, rounds to the nearest long double, and
\* from a quotient just below a whole number that is the whole number.
FloorQuotient(x, y) ==
    LET whole == x \div y
        short == (whole + 1) * y - x
        power == CHOOSE p \in Powers : whole < p /\ (p = 1 \/ p <= 2 * whole)
    IN  IF 2 * short * Mantissa <= y * power THEN whole + 1 ELSE whole

Middle(lo, up) == lo.index + (up.index - lo.index) \div 2

GetKeyGuess(lo, up, hash) ==
    IF lo.hash >= up.hash
    THEN Middle(lo, up)
    ELSE lo.index
           + FloorQuotient(LongDouble((up.index - lo.index) * (hash - lo.hash)),
                           up.hash - lo.hash)

\* Mutant: bisection never takes over.
Guess_NeverMiddle == GetKeyGuess(lower, upper, wanted.hash)

Guess ==
    IF attempt < Log2(count)
    THEN GetKeyGuess(lower, upper, wanted.hash)
    ELSE Middle(lower, upper)

-----------------------------------------------------------------------------
LookupInit ==
    /\ count \in 0..MaxCount
    /\ table \in [0..(count - 1) -> Keys]
    /\ Sorted(table, count)
    /\ wanted \in Keys
    /\ lookup = "start"
    /\ lower = [index |-> 0, hash |-> 0]
    /\ upper = [index |-> count, hash |-> MaxHash]
    /\ attempt = 0
    /\ found = 0

Answer(result) == lookup' = result /\ UNCHANGED <<call, lower, upper, attempt>>

\* An object of at most one item is answered without hashing the key.
GetKeyOfNone ==
    /\ lookup = "start"
    /\ count = 0
    /\ Answer("key_not_found")
    /\ UNCHANGED found

GetKeyOfOne ==
    /\ lookup = "start"
    /\ count = 1
    /\ Answer(IF table[0] = wanted THEN "found" ELSE "key_not_found")
    /\ UNCHANGED found

StartSearch ==
    /\ lookup = "start"
    /\ count > 1
    /\ lookup' = "search"
    /\ UNCHANGED <<call, lower, upper, attempt, found>>

\* One round of the loop: read the item at index, and compare.
ProbeOutOfRange ==
    /\ Guess >= count
    /\ Answer("index_out_of_range")
    /\ UNCHANGED found

ProbeFinds ==
    /\ Guess < count
    /\ GetKeyEntryCmp(table[Guess], wanted) = 0
    /\ Answer("found")
    /\ found' = Guess

ProbeTooLow ==
    /\ Guess < count
    /\ GetKeyEntryCmp(table[Guess], wanted) < 0
    /\ lower' = [index |-> Guess + 1, hash |-> table[Guess].hash]
    /\ attempt' = attempt + 1
    /\ UNCHANGED <<call, lookup, upper, found>>

\* Mutant: the item before the one that was too high leaves the bracket, too.
ProbeTooHigh_SkipsOne ==
    /\ Guess < count
    /\ GetKeyEntryCmp(table[Guess], wanted) > 0
    /\ upper' = [index |-> Guess - 1, hash |-> table[Guess].hash]
    /\ attempt' = attempt + 1
    /\ UNCHANGED <<call, lookup, lower, found>>

ProbeTooHigh ==
    /\ Guess < count
    /\ GetKeyEntryCmp(table[Guess], wanted) > 0
    /\ upper' = [index |-> Guess, hash |-> table[Guess].hash]
    /\ attempt' = attempt + 1
    /\ UNCHANGED <<call, lookup, lower, found>>

Probe ==
    /\ lookup = "search"
    /\ lower.index # upper.index
    /\ ProbeOutOfRange \/ ProbeFinds \/ ProbeTooLow \/ ProbeTooHigh

BracketEmpty ==
    /\ lookup = "search"
    /\ lower.index = upper.index
    /\ Answer("key_not_found")
    /\ UNCHANGED found

LookupNext == GetKeyOfNone \/ GetKeyOfOne \/ StartSearch \/ Probe \/ BracketEmpty

LookupSpec == LookupInit /\ [][LookupNext]_lookup_vars

-----------------------------------------------------------------------------
LookupTypeOK ==
    /\ count \in Nat
    /\ table \in [0..(count - 1) -> Keys]
    /\ wanted \in Keys
    /\ lookup \in {"start", "search"} \union Answers
    /\ lower.index \in Nat /\ lower.hash \in Nat
    /\ upper.index \in Nat /\ upper.hash \in Nat
    /\ attempt \in Nat
    /\ found \in Nat

\* What is left out of the bracket is not the key.
Bracket ==
    /\ \A i \in 0..(count - 1) : i < lower.index => Before(table[i], wanted)
    /\ \A i \in 0..(count - 1) : i >= upper.index => Before(wanted, table[i])

(***************************************************************************)
(* The answer is right whatever the hashes look like: an item that was     *)
(* found has the key, and a key that was not found is not in the object.   *)
(* The bracket moves by guesses made in floating point.                    *)
(***************************************************************************)
AnswerCorrect ==
    /\ lookup = "found" => found < count /\ table[found] = wanted
    /\ lookup = "key_not_found" => \A i \in 0..(count - 1) : table[i] # wanted

(***************************************************************************)
(* No hash, however unevenly the hashes are spread, makes the lookup read  *)
(* more items than the guesses it is allowed and one bisection; and it     *)
(* takes one of the two largest hashes to make it guess behind the last    *)
(* item, where it ends with neither answer.                                *)
(***************************************************************************)
GuessesBounded ==
    /\ count > 1 => attempt <= Log2(count) + BitLength(count)
    /\ lookup = "index_out_of_range" => wanted.hash >= MaxHash - 1

(***************************************************************************)
(* tests/bijson.c:214-228 and 238-243: a lookup finds a key that is in the *)
(* object, and answers key_not_found for one that is not; there is no      *)
(* third answer.                                                           *)
(***************************************************************************)
FoundOrNotFound == lookup # "index_out_of_range"
=============================================================================
