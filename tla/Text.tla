-------------------------------- MODULE Text --------------------------------
(***************************************************************************)
(* The check that strings and keys are UTF-8 (_bijson_check_valid_utf8 of  *)
(* lib/common.c), on an alphabet with one character of two bytes: enough   *)
(* for a character to be cut in half by the calls that add text in parts.  *)
(***************************************************************************)
EXTENDS Naturals, Sequences

CONSTANTS
    Lead, Cont  \* the bytes of that character; any other byte is ASCII

\* Every lead byte is followed by a continuation byte and conversely.
ValidUtf8(text) ==
    /\ \A i \in DOMAIN text : text[i] = Lead => i < Len(text) /\ text[i + 1] = Cont
    /\ \A i \in DOMAIN text : text[i] = Cont => i > 1 /\ text[i - 1] = Lead
=============================================================================
