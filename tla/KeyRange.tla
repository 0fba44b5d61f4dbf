------------------------------ MODULE KeyRange ------------------------------
(***************************************************************************)
(* Looking up all items of an object that have a key                       *)
(* (lib/reader/object/key_range.c).                                        *)
(*                                                                         *)
(* The first item is found as in KeyLookup.  The ends of the range are     *)
(* then looked for on both sides of it: by steps that double until they    *)
(* meet another key, or the end of the bracket that the search has left,   *)
(* and by bisection from there.                                            *)
(***************************************************************************)
EXTENDS KeyLookup

CONSTANT MaxSize    \* SIZE_MAX

\* An item takes at least three bytes: its key's entry in the index, its
\* value's, and the value's type byte (the first item does without the second).
ASSUME MaxSizeAssumption == MaxSize \in Nat /\ 3 * MaxCount <= MaxSize

VARIABLES
    phase,          \* which end is looked for, and how
    jump,
    lower_bound,
    upper_bound

range_vars == <<phase, jump, lower_bound, upper_bound>>
search_vars == <<lookup, attempt, found>>

RangeInit ==
    /\ LookupInit
    /\ phase = "search"
    /\ jump = 0 /\ lower_bound = 0 /\ upper_bound = 0

HasKey(i) == table[i] = wanted

\* The lookup that key_range.c repeats.
Search ==
    /\ phase = "search"
    /\ LookupNext
    /\ UNCHANGED range_vars

\* An object's only item is the whole range.
FindOnly ==
    /\ phase = "search" /\ lookup = "found"
    /\ count = 1
    /\ phase' = "done"
    /\ UNCHANGED <<call, search_vars, lower, upper, jump, lower_bound, upper_bound>>

-----------------------------------------------------------------------------
(***************************************************************************)
(* The lower end                                                           *)
(***************************************************************************)
StartDown ==
    /\ phase = "search" /\ lookup = "found"
    /\ count > 1
    /\ \/ /\ found = lower.index
          /\ phase' = "found_lower"
          /\ UNCHANGED <<jump, lower_bound, upper_bound>>
       \/ /\ found # lower.index
          /\ phase' = "gallop_down"
          /\ jump' = 1
          /\ upper_bound' = found
          /\ UNCHANGED lower_bound
    /\ UNCHANGED <<call, search_vars, lower, upper>>

GallopDown ==
    LET jumped == IF jump > found THEN 0 ELSE found - jump
        bound  == IF jumped < lower.index THEN lower.index ELSE jumped
    IN  /\ phase = "gallop_down"
        /\ lower_bound' = bound
        /\ \/ /\ ~HasKey(bound)
              /\ phase' = "bisect_down"
              /\ UNCHANGED <<jump, upper_bound>>
           \/ /\ HasKey(bound) /\ bound = lower.index
              /\ phase' = "found_lower"
              /\ UNCHANGED <<jump, upper_bound>>
           \/ /\ HasKey(bound) /\ bound # lower.index
              /\ upper_bound' = bound
              /\ jump' = (2 * jump) % (MaxSize + 1)
              /\ UNCHANGED phase
        /\ UNCHANGED <<call, search_vars, lower, upper>>

\* Mutant: the last item known to be too low is taken for the first of the range.
BisectDown_TakesLower ==
    LET guess == lower_bound + (upper_bound - lower_bound) \div 2
    IN  /\ phase = "bisect_down"
        /\ \/ /\ lower_bound # upper_bound - 1
              /\ \/ HasKey(guess) /\ upper_bound' = guess /\ UNCHANGED lower_bound
                 \/ ~HasKey(guess) /\ lower_bound' = guess /\ UNCHANGED upper_bound
              /\ UNCHANGED <<lower, phase>>
           \/ /\ lower_bound = upper_bound - 1
              /\ lower' = [lower EXCEPT !.index = lower_bound]
              /\ phase' = "found_lower"
              /\ UNCHANGED <<lower_bound, upper_bound>>
        /\ UNCHANGED <<call, search_vars, upper, jump>>

BisectDown ==
    LET guess == lower_bound + (upper_bound - lower_bound) \div 2
    IN  /\ phase = "bisect_down"
        /\ \/ /\ lower_bound # upper_bound - 1
              /\ \/ HasKey(guess) /\ upper_bound' = guess /\ UNCHANGED lower_bound
                 \/ ~HasKey(guess) /\ lower_bound' = guess /\ UNCHANGED upper_bound
              /\ UNCHANGED <<lower, phase>>
           \/ /\ lower_bound = upper_bound - 1
              /\ lower' = [lower EXCEPT !.index = upper_bound]
              /\ phase' = "found_lower"
              /\ UNCHANGED <<lower_bound, upper_bound>>
        /\ UNCHANGED <<call, search_vars, upper, jump>>

-----------------------------------------------------------------------------
(***************************************************************************)
(* The upper end                                                           *)
(***************************************************************************)
StartUp ==
    /\ phase = "found_lower"
    /\ \/ /\ found = upper.index - 1
          /\ phase' = "done"
          /\ UNCHANGED <<jump, lower_bound, upper_bound>>
       \/ /\ found # upper.index - 1
          /\ phase' = "gallop_up"
          /\ jump' = 1
          /\ lower_bound' = found
          /\ UNCHANGED upper_bound
    /\ UNCHANGED <<call, search_vars, lower, upper>>

\* Mutant: the steps do not double, they stay where they are.
GallopUp_Stays ==
    LET jumped == IF jump > MaxSize - found THEN MaxSize ELSE found + jump
        last   == upper.index - 1
        bound  == IF jumped > last THEN last ELSE jumped
    IN  /\ phase = "gallop_up"
        /\ upper_bound' = bound
        /\ \/ /\ ~HasKey(bound)
              /\ phase' = "bisect_up"
              /\ UNCHANGED <<jump, lower_bound>>
           \/ /\ HasKey(bound) /\ bound = last
              /\ phase' = "done"
              /\ UNCHANGED <<jump, lower_bound>>
           \/ /\ HasKey(bound) /\ bound # last
              /\ lower_bound' = bound
              /\ UNCHANGED <<jump, phase>>
        /\ UNCHANGED <<call, search_vars, lower, upper>>

GallopUp ==
    LET jumped == IF jump > MaxSize - found THEN MaxSize ELSE found + jump
        last   == upper.index - 1
        bound  == IF jumped > last THEN last ELSE jumped
    IN  /\ phase = "gallop_up"
        /\ upper_bound' = bound
        /\ \/ /\ ~HasKey(bound)
              /\ phase' = "bisect_up"
              /\ UNCHANGED <<jump, lower_bound>>
           \/ /\ HasKey(bound) /\ bound = last
              /\ phase' = "done"
              /\ UNCHANGED <<jump, lower_bound>>
           \/ /\ HasKey(bound) /\ bound # last
              /\ lower_bound' = bound
              /\ jump' = (2 * jump) % (MaxSize + 1)
              /\ UNCHANGED phase
        /\ UNCHANGED <<call, search_vars, lower, upper>>

BisectUp ==
    LET guess == lower_bound + (upper_bound - lower_bound) \div 2
    IN  /\ phase = "bisect_up"
        /\ \/ /\ lower_bound # upper_bound - 1
              /\ \/ HasKey(guess) /\ lower_bound' = guess /\ UNCHANGED upper_bound
                 \/ ~HasKey(guess) /\ upper_bound' = guess /\ UNCHANGED lower_bound
              /\ UNCHANGED <<upper, phase>>
           \/ /\ lower_bound = upper_bound - 1
              /\ upper' = [upper EXCEPT !.index = upper_bound]
              /\ phase' = "done"
              /\ UNCHANGED <<lower_bound, upper_bound>>
        /\ UNCHANGED <<call, search_vars, lower, jump>>

-----------------------------------------------------------------------------
RangeNext ==
    \/ Search \/ FindOnly
    \/ StartDown \/ GallopDown \/ BisectDown
    \/ StartUp \/ GallopUp \/ BisectUp

RangeSpec == RangeInit /\ [][RangeNext]_<<lookup_vars, range_vars>>

-----------------------------------------------------------------------------
(***************************************************************************)
(* The range holds every item with the key and no other, and a key that is *)
(* not found is in no item.  As the comments at                            *)
(* lib/reader/object/key_range.c:49-52 and 104-107 say, a bisection has    *)
(* one bound at an item with the key and the other beyond the end of the   *)
(* range.                                                                  *)
(***************************************************************************)
RangeCorrect ==
    /\ phase = "bisect_down" =>
         /\ lower_bound < upper_bound
         /\ HasKey(upper_bound) /\ Before(table[lower_bound], wanted)
    /\ phase = "bisect_up" =>
         /\ lower_bound < upper_bound
         /\ HasKey(lower_bound) /\ Before(wanted, table[upper_bound])
    /\ phase = "done" =>
         lower.index..(upper.index - 1) = {i \in 0..(count - 1) : HasKey(i)}
    /\ lookup = "key_not_found" => \A i \in 0..(count - 1) : ~HasKey(i)

(***************************************************************************)
(* Every lookup of a range is answered: the doubled steps and both         *)
(* bisections come to an end.                                              *)
(***************************************************************************)
RangeAnswered == <>(phase = "done" \/ lookup \in {"key_not_found", "index_out_of_range"})
=============================================================================
