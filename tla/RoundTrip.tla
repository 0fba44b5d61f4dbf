----------------------------- MODULE RoundTrip -----------------------------
(***************************************************************************)
(* What the writer sends, the reader reads: the document on the spool is   *)
(* written, and the bytes are handed to the reader.                        *)
(***************************************************************************)
EXTENDS WriterDocument

R == INSTANCE Reader

\* The values on a spool with the members of every object sorted.
SortedValues(s) ==
    LET value[o \in ValueOffsets(s)] ==
          ValueTree(s, value, o, WrittenItems(s, o))
    IN  value

(***************************************************************************)
(* A program that asks the reader for every item of what was written gets  *)
(* the tree that was built, the members of every object in the order of    *)
(* their keys' hashes: the widths, counts and offsets that the writer puts *)
(* in its headers are those that the reader takes from them.               *)
(***************************************************************************)
ReadsBack ==
    Accepts(CheckWrite) =>
        R!Value(Emit(spool, 0)) = SortedValues(spool)[0]
=============================================================================
