---------------------------- MODULE StringToJson ----------------------------
(***************************************************************************)
(* Printing a string or a key as JSON (lib/reader/string.c).               *)
(*                                                                         *)
(* The string is searched for bytes that need an escape.  What lies        *)
(* between two of them goes to the output callback as it is, in one piece, *)
(* which may fail at each of its calls.  The string is UTF-8: its callers  *)
(* have checked it.                                                        *)
(*                                                                         *)
(* What is printed can be given to the parser.                             *)
(***************************************************************************)
EXTENDS JsonParser

CONSTANT JsonStrings    \* the strings: sequences of bytes

VARIABLES
    string,
    scanned,            \* how many bytes have been looked at
    previously_written, \* how many of them have been printed
    printed,            \* the bytes that the callback has taken
    string_pc           \* open (the quote is next), scan, ok or failed

string_vars == <<string, scanned, previously_written, printed, string_pc>>

StringInit ==
    /\ string \in JsonStrings
    /\ scanned = 0 /\ previously_written = 0
    /\ printed = <<>>
    /\ string_pc = "open"

\* The pieces that are passed to the callback, of which it may refuse any: then
\* those before it have been printed.
Pass(pieces) ==
    /\ printed' = printed \o FlattenSeq(pieces)
    /\ UNCHANGED string

PassFails(pieces) ==
    /\ \E n \in 0..Len(pieces) - 1 : printed' = printed \o FlattenSeq(SubSeq(pieces, 1, n))
    /\ string_pc' = "failed"
    /\ UNCHANGED <<string, scanned, previously_written>>

PrintOpening ==
    /\ string_pc = "open"
    /\ \/ Pass(<< <<Quote>> >>) /\ string_pc' = "scan" /\ UNCHANGED <<scanned, previously_written>>
       \/ PassFails(<< <<Quote>> >>)

Hex(digit) == IF digit < 10 THEN Zero + digit ELSE 65 + digit - 10

\* The escape of a byte, or nothing.
Escaped(c) ==
    CASE c = Quote     -> <<Backslash, Quote>>
      [] c = Backslash -> <<Backslash, Backslash>>
      [] c = 8         -> <<Backslash, 98>>
      [] c = 12        -> <<Backslash, 102>>
      [] c = 10        -> <<Backslash, 110>>
      [] c = 13        -> <<Backslash, 114>>
      [] c = 9         -> <<Backslash, 116>>
      [] OTHER -> IF c >= Space THEN <<>>
                  ELSE <<Backslash, 117, Zero, Zero, Hex(c \div 16), Hex(c % 16)>>

\* Nothing is passed when there is nothing between two escapes.
Piece(from, to) == IF to > from THEN <<SubSeq(string, from + 1, to)>> ELSE <<>>

Scanning == string_pc = "scan" /\ scanned < Len(string)

LeaveAsIs ==
    /\ Scanning
    /\ Escaped(string[scanned + 1]) = <<>>
    /\ scanned' = scanned + 1
    /\ UNCHANGED <<string, previously_written, printed, string_pc>>

\* Mutant: what was printed ends in front of the byte that was escaped.
PrintEscape_Twice ==
    LET escape == Escaped(string[scanned + 1]) IN
    /\ Scanning
    /\ escape # <<>>
    /\ Pass(Piece(previously_written, scanned) \o <<escape>>)
    /\ scanned' = scanned + 1 /\ previously_written' = scanned
    /\ UNCHANGED string_pc

PrintEscape ==
    LET escape == Escaped(string[scanned + 1])
        pieces == Piece(previously_written, scanned) \o <<escape>> IN
    /\ Scanning
    /\ escape # <<>>
    /\ \/ /\ Pass(pieces)
          /\ scanned' = scanned + 1 /\ previously_written' = scanned + 1
          /\ UNCHANGED string_pc
       \/ PassFails(pieces)

PrintRest ==
    LET pieces == Piece(previously_written, scanned) \o << <<Quote>> >> IN
    /\ string_pc = "scan" /\ scanned = Len(string)
    /\ \/ /\ Pass(pieces)
          /\ string_pc' = "ok"
          /\ UNCHANGED <<scanned, previously_written>>
       \/ PassFails(pieces)

StringNext == PrintOpening \/ LeaveAsIs \/ PrintEscape \/ PrintRest

\* The parser is called with what was printed.
ParsePrinted ==
    /\ string_pc = "ok" /\ parser_pc = "none"
    /\ json' = printed /\ before' = <<>> /\ open' = <<>>
    /\ pos' = 1
    /\ parser_pc' = "value" /\ parsed' = "running"
    /\ UNCHANGED <<nesting, quote, root, added, broken, answer, string_vars>>

-----------------------------------------------------------------------------
(***************************************************************************)
(* A string comes back: what is printed of a string or a key is taken by   *)
(* the parser, all of it, and what the parser adds is the same string, no  *)
(* matter which of its bytes are escaped and in how many pieces the output *)
(* and the parser handle it.  Until then, what is printed and what still   *)
(* has to be printed as it is read as the bytes that have been looked at.  *)
(***************************************************************************)
StringComesBack ==
    /\ string_pc = "scan" =>
         LET text == printed \o SubSeq(string, previously_written + 1, scanned) IN
         StringBytes(text, 1, Len(text) + 1) = SubSeq(string, 1, scanned)
    /\ string_pc = "ok" /\ parsed \notin {"none", "running", "failed"} =>
         /\ parsed = "ok" /\ pos = Len(printed) + 1
         /\ root = <<[scalar |-> <<StringType>> \o string]>>
=============================================================================
