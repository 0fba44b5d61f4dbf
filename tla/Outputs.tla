------------------------------ MODULE Outputs ------------------------------
(***************************************************************************)
(* Where documents and JSON go to and come from (the rest of lib/io.c).    *)
(*                                                                         *)
(* An action, such as writing a document, can be run with the output going *)
(* to a file descriptor (WriteToFd), to a named or a temporary file by way *)
(* of one, to a FILE, to memory from malloc, or only be counted.  For      *)
(* memory it is run again when the first block was too small for what it   *)
(* has passed: the second time it passes the same, or fails.  Documents    *)
(* are read from a mapping of their file.                                  *)
(*                                                                         *)
(* Every step that asks the system for something may fail.                 *)
(***************************************************************************)
EXTENDS WriteToFd

Targets == {"fd", "filename", "tempfile", "FILE", "malloc", "bytecounter", "read"}

VARIABLES
    target,     \* the function that is called
    step,       \* call, fd (in write_to_fd), sync, map, first and second (run of
                \* the action), read, returned
    held,       \* what is not released: "descriptor", "block" (of memory), "mapping"
    memory,     \* the bytes in the block or that the FILE has taken
    block_size, \* the size of the block
    counted,    \* how many bytes the action has passed in this run
    total,      \* how many it has passed in the first run
    given,      \* <<>>, or what the caller has been given
    answer      \* "running", or what the call has returned

output_vars == <<target, step, held, memory, block_size, counted, total, given, answer>>
run_vars    == <<memory, block_size, counted, total>>

OutputInit ==
    /\ target \in Targets
    /\ step = (IF target = "fd" THEN "fd" ELSE "call")
    /\ held = {} /\ memory = <<>> /\ block_size = 0 /\ counted = 0 /\ total = 0
    /\ given = <<>> /\ answer = "running"
    /\ Init
    /\ target # "fd" => o_nonblock = FALSE /\ room = Pipe

\* The call returns; what it still holds is what it has given to the caller.
Returns(error, holds) ==
    /\ step' = "returned" /\ answer' = error
    /\ held' = holds
    /\ UNCHANGED <<target, run_vars>>

Fails(error) == Returns(error, {}) /\ UNCHANGED given

Gives(bytes, count, resource) ==
    /\ given' = <<[bytes |-> bytes, size |-> count]>>
    /\ Returns("ok", {resource})

At(target_now, step_now) == target = target_now /\ step = step_now

\* A parameter that the caller has to supply is NULL.
NullParameter ==
    /\ step = "call" /\ target \in {"tempfile", "FILE", "read"}
    /\ Fails("parameter_is_null")
    /\ UNCHANGED vars

-----------------------------------------------------------------------------
(***************************************************************************)
(* To files, by way of a file descriptor.                                  *)
(***************************************************************************)

\* A named file is emptied by this.
OpenFile ==
    /\ step = "call" /\ target \in {"filename", "tempfile", "read"}
    /\ \/ /\ held' = {"descriptor"}
          /\ step' = (IF target = "read" THEN "read" ELSE "fd")
          /\ UNCHANGED <<target, run_vars, given, answer>>
       \/ Fails("system")
    /\ UNCHANGED vars

FdRuns == step = "fd" /\ CallNext /\ UNCHANGED output_vars

\* Mutant: an error of write_to_fd is returned at once.
FdEnds_StaysOpen ==
    /\ step = "fd" /\ pc = "done"
    /\ IF ret = "ok" /\ target # "fd"
       THEN /\ step' = (IF target = "filename" THEN "sync" ELSE "map")
            /\ UNCHANGED <<target, held, run_vars, given, answer>>
       ELSE Returns(ret, held) /\ UNCHANGED given
    /\ UNCHANGED vars

FdEnds ==
    /\ step = "fd" /\ pc = "done"
    /\ IF ret = "ok" /\ target # "fd"
       THEN /\ step' = (IF target = "filename" THEN "sync" ELSE "map")
            /\ UNCHANGED <<target, held, run_vars, given, answer>>
       ELSE Fails(ret)
    /\ UNCHANGED vars

Sync ==
    /\ At("filename", "sync")
    /\ Fails("ok") \/ Fails("system")
    /\ UNCHANGED vars

\* mmap may also map the file at the address NULL.
Map ==
    /\ At("tempfile", "map")
    /\ Gives(file, written, "mapping") \/ Fails("system") \/ Fails("unsupported_feature")
    /\ UNCHANGED vars

-----------------------------------------------------------------------------
(***************************************************************************)
(* To a FILE, to memory, or to nowhere.                                    *)
(***************************************************************************)

StartRun ==
    /\ step = "call" /\ target \in {"FILE", "malloc", "bytecounter"}
    /\ \/ /\ step' = "first"
          /\ IF target = "malloc" THEN held' = {"block"} /\ block_size' = InitialSize
                                  ELSE UNCHANGED <<held, block_size>>
          /\ UNCHANGED <<target, memory, counted, total, given, answer>>
       \/ target = "malloc" /\ Fails("system")
    /\ UNCHANGED vars

\* The action passes len bytes; in the second run it stops where the first did.
Passes(len) ==
    /\ step \in {"first", "second"}
    /\ counted + len <= (IF step = "first" THEN MaxInput ELSE total)
    /\ counted' = counted + len
    /\ UNCHANGED <<target, step, held, block_size, total, given, answer>>

Numbered(len) == [i \in 1..len |-> counted + i]

\* Mutant: fits only when all of it does.
PassToBlock_WholeOnly(len) ==
    /\ target = "malloc" /\ Passes(len)
    /\ memory' = IF counted + len < block_size THEN memory \o Numbered(len) ELSE memory
    /\ UNCHANGED vars

\* What does not fit in the block is only counted.
PassToBlock(len) ==
    /\ target = "malloc" /\ Passes(len)
    /\ memory' = memory \o Numbered(Min({len, block_size - counted}))
    /\ UNCHANGED vars

PassToFILE(len) ==
    /\ target = "FILE" /\ Passes(len)
    /\ memory' = memory \o Numbered(len)
    /\ UNCHANGED vars

Count(len) ==
    /\ target = "bytecounter" /\ Passes(len)
    /\ UNCHANGED <<memory, vars>>

\* fwrite takes a part.
FILEFails(len) ==
    /\ At("FILE", "first") /\ counted + len <= MaxInput
    /\ \E n \in 0..len - 1 : memory' = memory \o Numbered(n)
    /\ counted' = counted + len
    /\ step' = "returned" /\ answer' = "system"
    /\ UNCHANGED <<target, held, block_size, total, given, vars>>

RunFails ==
    /\ step \in {"first", "second"}
    /\ Fails("action")
    /\ UNCHANGED vars

\* Every action passes something.
RunEnds(run) == step = run /\ counted > 0 /\ UNCHANGED vars

\* realloc may fail to make the block smaller.
BlockFits ==
    /\ target = "malloc" /\ RunEnds("first")
    /\ counted <= block_size
    /\ Gives(memory, counted, "block")

\* Mutant: the second run goes on counting.
RunAgain_GoesOn ==
    /\ target = "malloc" /\ RunEnds("first")
    /\ counted > block_size
    /\ step' = "second"
    /\ block_size' = counted /\ total' = counted
    /\ UNCHANGED <<memory, counted, target, held, given, answer>>

RunAgain ==
    /\ target = "malloc" /\ RunEnds("first")
    /\ counted > block_size
    /\ \/ /\ step' = "second"
          /\ memory' = <<>> /\ block_size' = counted
          /\ counted' = 0 /\ total' = counted
          /\ UNCHANGED <<target, held, given, answer>>
       \/ Fails("system")

SecondRunEnds ==
    /\ RunEnds("second") /\ counted = total
    /\ Gives(memory, counted, "block")

OtherRunEnds ==
    /\ target \in {"FILE", "bytecounter"} /\ RunEnds("first")
    /\ Fails("ok")

-----------------------------------------------------------------------------
(***************************************************************************)
(* Reading a file, with an action or to open it; and what the caller does  *)
(* with what it has been given.                                            *)
(***************************************************************************)

\* fstat or mmap fails, or the file is empty or too large.
NotMapped ==
    /\ At("read", "read") /\ held = {"descriptor"}
    /\ \E error \in {"system", "file_format_error", "out_of_virtual_memory"} : Fails(error)
    /\ UNCHANGED vars

MapDocument ==
    /\ At("read", "read") /\ held = {"descriptor"}
    /\ held' = {"mapping"}
    /\ UNCHANGED <<target, step, run_vars, given, answer, vars>>

\* The action returns; or there is none and no place for the result; or mmap has
\* mapped the file at the address NULL.
DocumentRead ==
    /\ At("read", "read") /\ held = {"mapping"}
    /\ \E error \in {"ok", "action", "parameter_is_null", "unsupported_feature"} : Fails(error)
    /\ UNCHANGED vars

DocumentOpened ==
    /\ At("read", "read") /\ held = {"mapping"}
    /\ Gives(<<>>, 0, "mapping")
    /\ UNCHANGED vars

\* bijson_free for a block, bijson_close for a mapping.
CallerReleases ==
    /\ given # <<>>
    /\ held' = {} /\ given' = <<>>
    /\ UNCHANGED <<target, step, run_vars, answer, vars>>

OutputNext ==
    \/ NullParameter \/ OpenFile \/ FdEnds \/ Sync \/ Map
    \/ StartRun \/ RunFails \/ BlockFits \/ RunAgain \/ SecondRunEnds \/ OtherRunEnds
    \/ \E len \in 0..MaxInput : PassToBlock(len) \/ PassToFILE(len) \/ Count(len) \/ FILEFails(len)
    \/ NotMapped \/ MapDocument \/ DocumentRead \/ DocumentOpened
    \/ CallerReleases

\* The other end of a file descriptor that is not a file's may go away.
PipeMoves ==
    /\ MakeRoom \/ (target = "fd" /\ GoAway)
    /\ UNCHANGED output_vars

OutputSpec == OutputInit /\ [][OutputNext \/ FdRuns \/ PipeMoves]_<<output_vars, vars>>

-----------------------------------------------------------------------------
ByDescriptor == target \in {"fd", "filename", "tempfile"}

\* What the action has passed, and where it should be.
Produced == IF ByDescriptor THEN Input ELSE [i \in 1..counted |-> i]

Stored == CASE ByDescriptor -> file
            [] target \in {"malloc", "FILE"} -> memory
            [] OTHER -> Produced

(***************************************************************************)
(* Whatever fails, a call that has returned holds nothing but what the     *)
(* caller has been given.  When it succeeds, everything the action has     *)
(* passed is where it should be, and the caller gets it in one piece and   *)
(* with its size: also where the action has been run twice because the     *)
(* first block was full.  Nothing is stored behind the end of a block.     *)
(***************************************************************************)
OutputsComplete ==
    /\ step = "returned" => Cardinality(held) = Len(given)
    /\ answer = "ok" => Stored = Produced
    /\ \A k \in DOMAIN given :
         target # "read" => given[k].bytes = Produced /\ given[k].size = Len(Produced)
    /\ target = "malloc" => Len(memory) <= block_size
=============================================================================
