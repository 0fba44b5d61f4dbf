------------------------------ MODULE MCWriter ------------------------------
(***************************************************************************)
(* Instances of the writer for TLC.                                        *)
(***************************************************************************)
EXTENDS RoundTrip

MCLead == 2
MCCont == 3

\* The keys "" and "\1" share a hash, so do "\0" and "\1\1".
MCHash(key) == IF key = <<>> THEN 1 ELSE key[1] % 2

\* 0 and a decimal of two bytes, each with the size that is pushed.
MCDecimals == {[size |-> 1, payload |-> <<26>>], [size |-> 2, payload |-> <<26, 1>>]}

\* Halves of a character, which are text only when put together.
HalfTexts == {<<>>, <<MCLead>>, <<MCCont>>}

\* Texts that make values and keys of different lengths.
WholeTexts == {<<>>, <<0>>, <<1, 1, 1>>}

\* Only the calls that add something in one go and that memory suffices for:
\* longer documents than the whole interface leaves room for.
BuildNext ==
    \/ /\ \/ BeginArray \/ EndArray
          \/ BeginObject \/ EndObject
          \/ \E type \in Constants : AddConstant(type)
          \/ \E text \in Texts : AddString(text) \/ AddKey(text)
       /\ ret' = OK
    \/ Write /\ ret' \notin {"system", "output"}

BuildSpec == Init /\ [][BuildNext]_vars
=============================================================================
