------------------------------ MODULE MCOutput ------------------------------
(***************************************************************************)
(* Instances for TLC of what is done with a document: its conversion to    *)
(* JSON, of every short sequence of bytes, most of them damaged, and of    *)
(* longer ones that start like a container; the outputs that such a        *)
(* conversion is given; and the lookups of keys.  A behaviour is one of    *)
(* one part.                                                               *)
(***************************************************************************)
EXTENDS ToJson, Outputs, MCKeyRange

VARIABLE part

write_vars == <<output_vars, vars>>
look_vars  == <<lookup_vars, range_vars>>
all_vars   == <<part, convert_vars, write_vars, look_vars>>

MCLead == 2
MCCont == 3

Short == UNION {[1..n -> {0, 1, 2, 8, 48, 64}] : n \in 0..4}

Starting(head, n, bytes) == {head \o tail : tail \in [1..n -> bytes]}

\* Arrays and objects of one, two and three items, with offsets and counts
\* of one byte and of two.
Containers ==
    Starting(<<48>>, 5, {0, 1, 2, 48}) \union Starting(<<64>>, 5, {0, 1, 2, 64})
      \union Starting(<<48, 2>>, 6, {0, 1, 2, 48})
      \union Starting(<<64, 1>>, 6, {0, 1, 2, 3, 8})
      \union Starting(<<49, 1, 0>>, 3, {0, 1, 2, 48})
      \union Starting(<<52, 1>>, 4, {0, 1, 2, 48})
      \union Starting(<<80, 1>>, 6, {0, 1, 3})
      \union Starting(<<68, 0>>, 4, {0, 1, 2, 3})

\* A nested document: {"": [null, [], "\2\3"], "\0": {}}.
Nested == {<<64, 1, 0, 1, 8, 0, 48, 2, 0, 0, 1, 48, 8, 2, 3, 64>>,
           <<48, 1, 2, 48, 0, 1, 64, 0, 1, 3, 1>>}

MCDocuments == Short \union Containers \union Nested

-----------------------------------------------------------------------------
ConvertIdle ==
    /\ doc = <<>> /\ frames = <<>> /\ pending = <<>> /\ output = <<>>
    /\ outcome = "none"

OutputIdle == OutputInit /\ target = "fd" /\ o_nonblock = FALSE /\ room = Pipe

\* A key that is not in an object without items.
LookupIdle ==
    /\ count = 0 /\ table = [i \in {} |-> 0] /\ wanted = CHOOSE key \in Keys : TRUE
    /\ lookup = "key_not_found"
    /\ lower = [index |-> 0, hash |-> 0] /\ upper = [index |-> 0, hash |-> MaxHash]
    /\ attempt = 0 /\ found = 0
    /\ phase = "search" /\ jump = 0 /\ lower_bound = 0 /\ upper_bound = 0

MCInit ==
    \/ part = "convert" /\ ConvertInit /\ OutputIdle /\ LookupIdle
    \/ part = "output" /\ ConvertIdle /\ OutputInit /\ LookupIdle
    \/ part = "lookup" /\ ConvertIdle /\ OutputIdle /\ RangeInit

Converts == part = "convert" /\ ConvertNext /\ UNCHANGED <<part, write_vars, look_vars>>

Looks == part = "lookup" /\ RangeNext /\ UNCHANGED <<part, convert_vars, write_vars>>

Puts == part = "output" /\ UNCHANGED <<part, convert_vars, look_vars>>

MCNext ==
    \/ Converts
    \/ Looks
    \/ OutputNext /\ Puts
    \/ FdRuns /\ Puts
    \/ PipeMoves /\ Puts

(***************************************************************************)
(* The fairness of WriteToFd, with the steps around it.  A conversion, a   *)
(* lookup and an output that is not to a file descriptor go on: the        *)
(* callbacks return.                                                       *)
(***************************************************************************)
FdSteps(Step) == Puts /\ step = "fd" /\ Step /\ UNCHANGED output_vars

MCSpec ==
    /\ MCInit /\ [][MCNext]_all_vars
    /\ WF_all_vars(Converts \/ Looks \/ (Puts /\ OutputNext))
    /\ WF_all_vars(FdSteps(Start \/ ActionFails \/ ActionEnds \/ PollWritable \/ Finish))
    /\ SF_all_vars(FdSteps(WriteTakes))
    /\ WF_all_vars(FdSteps(gone /\ PollBroken))
    /\ SF_all_vars(FdSteps(gone /\ WriteFails))
    /\ WF_all_vars(Puts /\ MakeRoom /\ UNCHANGED output_vars)

(***************************************************************************)
(* Every conversion comes to an end, and so does every output: however     *)
(* small the parts that a file descriptor takes, and however often it      *)
(* takes none or is interrupted.                                           *)
(***************************************************************************)
EveryOutputEnds ==
    <>CASE part = "convert" -> outcome # "running"
        [] part = "output"  -> answer # "running"
        [] part = "lookup"  -> TRUE
=============================================================================
