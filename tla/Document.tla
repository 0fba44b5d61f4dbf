------------------------------ MODULE Document ------------------------------
(***************************************************************************)
(* What the writer promises, without its buffers: a document is built as a *)
(* tree, from the root inwards and in the order of the calls.              *)
(*                                                                         *)
(* A value is [scalar |-> its payload], [array |-> a sequence of values]   *)
(* or [object |-> a sequence of [key, value] records]; equal keys are      *)
(* kept, in the order in which they were added.                            *)
(***************************************************************************)
EXTENDS Naturals, Sequences, SequencesExt

CONSTANTS
    Payloads,   \* the payloads that scalars may have
    Keys,       \* the keys that members may have
    TextTypes   \* the type bytes of the scalars that may be added in parts

VARIABLES
    root,       \* <<>>, or the finished document in a sequence of its own
    open,       \* the open containers, the root first
    text,       \* <<>>, or what is being added in parts
    broken,     \* whether the writer has failed
    answer      \* whether the last call was carried out

vars == <<root, open, text, broken, answer>>

Frame(kind) == [kind |-> kind, items |-> <<>>, key |-> <<>>]

Init ==
    /\ root = <<>>
    /\ open = <<>>
    /\ text = <<>>
    /\ broken = FALSE
    /\ answer = "ok"

-----------------------------------------------------------------------------
\* What the document can take next.
ValueExpected ==
    /\ ~broken
    /\ text = <<>>
    /\ IF open = <<>> THEN root = <<>>
       ELSE Last(open).kind = "array" \/ Last(open).key # <<>>

KeyExpected ==
    /\ ~broken
    /\ text = <<>>
    /\ open # <<>>
    /\ Last(open).kind = "object" /\ Last(open).key = <<>>

EndExpected(kind) ==
    /\ ~broken
    /\ text = <<>>
    /\ open # <<>>
    /\ Last(open).kind = kind /\ Last(open).key = <<>>

Complete == ~broken /\ root # <<>>

-----------------------------------------------------------------------------
\* The frame with a value added to it, in an object under the pending key,
\* and with a pending key.
WithItem(frame, value) ==
    [kind  |-> frame.kind,
     items |-> Append(frame.items, IF frame.kind = "array" THEN value
                                   ELSE [key |-> frame.key[1], value |-> value]),
     key   |-> <<>>]
WithKey(frame, key) == [kind |-> frame.kind, items |-> frame.items, key |-> <<key>>]

\* Put a finished value where it belongs: in the innermost of the containers
\* that are open around it, or at the root.
Place(value, around) ==
    IF around = <<>>
    THEN root' = <<value>> /\ open' = <<>>
    ELSE root' = root /\ open' = Append(Front(around), WithItem(Last(around), value))

AddScalar(payload) ==
    /\ ValueExpected
    /\ Place([scalar |-> payload], open)
    /\ answer' = "ok"
    /\ UNCHANGED <<text, broken>>

Begin(kind) ==
    /\ ValueExpected
    /\ open' = Append(open, Frame(kind))
    /\ answer' = "ok"
    /\ UNCHANGED <<root, text, broken>>

EndArray ==
    /\ EndExpected("array")
    /\ Place([array |-> Last(open).items], Front(open))
    /\ answer' = "ok"
    /\ UNCHANGED <<text, broken>>

EndObject ==
    /\ EndExpected("object")
    /\ Place([object |-> Last(open).items], Front(open))
    /\ answer' = "ok"
    /\ UNCHANGED <<text, broken>>

SetKey(key) ==
    /\ KeyExpected
    /\ open' = Append(Front(open), WithKey(Last(open), key))
    /\ answer' = "ok"
    /\ UNCHANGED <<root, text, broken>>

\* A scalar or a key in parts; a scalar starts with its type byte.
BeginText(use, chars) ==
    /\ IF use = "key" THEN KeyExpected ELSE ValueExpected
    /\ text' = <<[use |-> use, chars |-> chars]>>
    /\ answer' = "ok"
    /\ UNCHANGED <<root, open, broken>>

AppendText ==
    /\ text # <<>> /\ text' # <<>>
    /\ text'[1].use = text[1].use
    /\ IsPrefix(text[1].chars, text'[1].chars)
    /\ answer' = "ok"
    /\ UNCHANGED <<root, open, broken>>

EndKey ==
    /\ text # <<>> /\ text[1].use = "key"
    /\ open' = Append(Front(open), WithKey(Last(open), text[1].chars))
    /\ text' = <<>>
    /\ answer' = "ok"
    /\ UNCHANGED <<root, broken>>

EndScalar ==
    /\ text # <<>> /\ text[1].use = "scalar"
    /\ Place([scalar |-> text[1].chars], open)
    /\ text' = <<>>
    /\ answer' = "ok"
    /\ UNCHANGED broken

\* Write the document out.
Write ==
    /\ Complete
    /\ answer' = "ok"
    /\ UNCHANGED <<root, open, text, broken>>

\* A call that is not carried out leaves the document alone ...
Refuse ==
    /\ answer' = "error"
    /\ UNCHANGED <<root, open, text, broken>>

\* ... or costs it.
Break ==
    /\ ~broken
    /\ broken' = TRUE
    /\ root' = <<>> /\ open' = <<>> /\ text' = <<>>
    /\ answer' = "error"

Next ==
    \/ \E payload \in Payloads : AddScalar(payload)
    \/ \E kind \in {"array", "object"} : Begin(kind)
    \/ EndArray \/ EndObject
    \/ \E key \in Keys : SetKey(key)
    \/ BeginText("key", <<>>) \/ BeginText("decimal", <<>>)
    \/ \E type \in TextTypes : BeginText("scalar", <<type>>)
    \/ AppendText
    \/ EndKey \/ EndScalar
    \/ Write
    \/ Refuse \/ Break

Spec == Init /\ [][Next]_vars
=============================================================================
