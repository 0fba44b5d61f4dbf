------------------------------- MODULE Stack --------------------------------
(***************************************************************************)
(* What a growable buffer promises (lib/writer/buffer.h): a sequence of    *)
(* bytes.  A push appends all of its data or nothing, and says which;      *)
(* what was pushed before stays until it is popped or written over.        *)
(***************************************************************************)
EXTENDS Naturals, Sequences

CONSTANTS
    Pieces,     \* what is pushed or written
    Patches     \* the offsets at which something is written over

VARIABLES
    contents,
    ret

svars == <<contents, ret>>

Errors == {"system", "out_of_virtual_memory"}

SInit == contents = <<>> /\ ret = "ok"

SPush(piece) == contents' = contents \o piece /\ ret' = "ok"

SPushFails == ret' \in Errors /\ UNCHANGED contents

SPop(n) ==
    /\ n <= Len(contents)
    /\ contents' = SubSeq(contents, 1, Len(contents) - n)
    /\ UNCHANGED ret

SWrite(offset, piece) ==
    /\ offset + Len(piece) <= Len(contents)
    /\ contents' = [k \in DOMAIN contents |->
                      IF k \in offset + 1 .. offset + Len(piece)
                      THEN piece[k - offset] ELSE contents[k]]
    /\ UNCHANGED ret

SWipe == contents' = <<>> /\ UNCHANGED ret

SNext ==
    \/ \E piece \in Pieces : SPush(piece)
    \/ SPushFails
    \/ \E n \in 1..Len(contents) : SPop(n)
    \/ \E offset \in Patches, piece \in Pieces : SWrite(offset, piece)
    \/ SWipe

SSpec == SInit /\ [][SNext]_svars
=============================================================================
