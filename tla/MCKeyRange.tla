----------------------------- MODULE MCKeyRange -----------------------------
(***************************************************************************)
(* Instances of the lookups for TLC: hashes of four bits, and long doubles *)
(* with a mantissa of four bits.                                           *)
(***************************************************************************)
EXTENDS KeyRange

Key(hash, len, content) == [hash |-> hash, len |-> len, content |-> content]

\* Keys at both ends of the hashes and in between, and three that share a
\* hash: two of one length, one that is longer.
MCKeys == {Key(0, 0, 0), Key(6, 1, 1), Key(6, 1, 2), Key(6, 2, 0),
           Key(13, 1, 4), Key(14, 1, 5), Key(15, 2, 1)}

MCPowers == {2^b : b \in 0..8}
=============================================================================
