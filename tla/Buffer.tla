------------------------------- MODULE Buffer -------------------------------
(***************************************************************************)
(* The growable buffer of the writer (lib/writer/buffer.c, buffer.h).      *)
(*                                                                         *)
(* A buffer starts in a few bytes of its own, moves to the heap, where it  *)
(* grows in three sizes, and when these do not suffice to a file without   *)
(* a name that is mapped into memory.  A step of the model is a step of    *)
(* push and ensure_space around one call of the system, each of which may  *)
(* fail.  The build is one with NDEBUG: a buffer may be used again after   *)
(* a push has failed, as the writer's append calls allow.                  *)
(*                                                                         *)
(* Sizes are counted in pages: touching a page of a mapping that lies      *)
(* behind the end of its file kills the process.                           *)
(***************************************************************************)
EXTENDS Integers, Sequences

CONSTANTS
    Mini,               \* sizeof _minibuffer
    Small, Medium, Large,
    Extension,          \* _BIJSON_MAX_BUFFER_EXTENSION
    OffMax, MaxSize,    \* OFF_MAX and SIZE_MAX
    Byte,               \* the bytes,
    Pieces,             \* and what is pushed or written of them
    Patches,            \* the offsets at which something is written over
    Junk                \* what a byte is before anything is stored there

ASSUME SizesAssumption ==
    /\ {Mini, Small, Medium, Large, Extension} \subseteq Nat \ {0}
    /\ OffMax \in Nat /\ MaxSize \in Nat
    /\ 2 * Extension <= MaxSize + 1     \* doubling does not wrap around
    /\ Patches \subseteq Nat

ASSUME PiecesAssumption == Pieces \subseteq Seq(Byte)

VARIABLES
    place,      \* of the contents: mini, heap or file
    memory,     \* the bytes from _buffer on
    size,       \* _size
    used,
    pc,         \* idle between calls, or the step ensure_space has come to
    data,       \* the argument of the push that runs,
    new_size,   \* and a local variable of ensure_space
    ret,        \* of the last push
    blocks,     \* what the process holds of the system: heap blocks,
    files,      \* open files,
    mappings,   \* mappings of files,
    allocated,  \* and how much of the file there is on the disk
    full        \* whether the disk was full at any time

buffer == <<place, memory, size, used>>
system == <<blocks, files, mappings, allocated, full>>
vars == <<buffer, pc, data, new_size, ret, system>>

Init ==
    /\ place = "mini"
    /\ size = Mini
    /\ memory = [i \in 0 .. Mini - 1 |-> Junk]
    /\ used = 0
    /\ pc = "idle" /\ data = <<>> /\ new_size = 0 /\ ret = "ok"
    /\ blocks = 0 /\ files = 0 /\ mappings = 0 /\ allocated = 0
    /\ full = FALSE

Required == used + Len(data)

Return(answer) ==
    /\ pc' = "idle"
    /\ ret' = answer
    /\ data' = <<>> /\ new_size' = 0

\* The bytes of new memory into which the first n of the old ones were copied.
Copied(n, length) == [i \in 0 .. length - 1 |-> IF i < n THEN memory[i] ELSE Junk]

-----------------------------------------------------------------------------
(***************************************************************************)
(* A push, and the choice of how to make room for it.                      *)
(***************************************************************************)

NewHeapSize(required) ==
    IF required <= Small THEN Small
    ELSE IF required <= Medium THEN Medium
    ELSE Large

\* The next multiple of Extension; the sum wraps around.
Rounded(required) ==
    (((required - 1 + Extension) % (MaxSize + 1)) \div Extension) * Extension

Push(piece) ==
    /\ pc = "idle"
    /\ LET required == used + Len(piece) IN
       \/ /\ MaxSize - Len(piece) < used
          /\ Return("out_of_virtual_memory")
       \/ /\ required <= MaxSize
          /\ data' = piece
          /\ UNCHANGED ret
          /\ \/ required <= size /\ pc' = "store" /\ new_size' = 0
             \/ /\ required > size /\ place # "file" /\ required <= Large
                /\ pc' = "malloc"
                /\ new_size' = NewHeapSize(required)
             \/ /\ required > size /\ (place = "file" \/ required > Large)
                /\ required > Extension
                /\ pc' = "check"
                /\ new_size' = Rounded(required)
             \/ /\ required > size /\ (place = "file" \/ required > Large)
                /\ required <= Extension
                /\ pc' = "double"
                /\ new_size' = 2 * size
    /\ UNCHANGED <<buffer, system>>

\* The end of a push: memcpy and the new used.
\* In a file it needs the pages to be there.
Touches(n) == place = "file" => n <= allocated

Store ==
    /\ pc = "store"
    /\ data # <<>> => Touches(Required)
    /\ memory' = [i \in DOMAIN memory |->
                    IF i \in used .. Required - 1 THEN data[i - used + 1] ELSE memory[i]]
    /\ used' = Required
    /\ Return("ok")
    /\ UNCHANGED <<place, size, system>>

\* A page that is not there: SIGBUS.
Killed ==
    /\ pc' = "killed"
    /\ UNCHANGED <<buffer, data, new_size, ret>>

StoreKills ==
    /\ pc = "store"
    /\ data # <<>> /\ ~Touches(Required)
    /\ Killed
    /\ UNCHANGED system

-----------------------------------------------------------------------------
(***************************************************************************)
(* Memory on the heap.                                                     *)
(***************************************************************************)

\* Mutant: what is in the buffer's own memory is not copied.
Malloc_NoCopy ==
    /\ pc = "malloc"
    /\ memory' = Copied(IF place = "mini" THEN 0 ELSE size, new_size)
    /\ place' = "heap"
    /\ size' = new_size
    /\ blocks' = IF place = "mini" THEN blocks + 1 ELSE blocks
    /\ pc' = "store"
    /\ UNCHANGED <<used, data, new_size, ret, files, mappings, allocated, full>>

\* malloc and memcpy from the buffer's own memory, or realloc.
Malloc ==
    /\ pc = "malloc"
    /\ memory' = Copied(size, new_size)
    /\ place' = "heap"
    /\ size' = new_size
    /\ blocks' = IF place = "mini" THEN blocks + 1 ELSE blocks
    /\ pc' = "store"
    /\ UNCHANGED <<used, data, new_size, ret, files, mappings, allocated, full>>

MallocFails ==
    /\ pc = "malloc"
    /\ Return("system")
    /\ UNCHANGED <<buffer, system>>

-----------------------------------------------------------------------------
(***************************************************************************)
(* A file that is mapped.                                                  *)
(***************************************************************************)

\* Mutant: doubles as long as what is there already does not fit.
Double_UpToUsed ==
    /\ pc = "double"
    /\ IF new_size < used
       THEN new_size' = 2 * new_size /\ UNCHANGED pc
       ELSE pc' = "check" /\ UNCHANGED new_size
    /\ UNCHANGED <<buffer, data, ret, system>>

\* Mutant: it is the old size that is doubled in every round.
Double_OldSize ==
    /\ pc = "double"
    /\ IF new_size < Required
       THEN new_size' = 2 * size /\ UNCHANGED pc
       ELSE pc' = "check" /\ UNCHANGED new_size
    /\ UNCHANGED <<buffer, data, ret, system>>

Double ==
    /\ pc = "double"
    /\ IF new_size < Required
       THEN new_size' = 2 * new_size /\ UNCHANGED pc
       ELSE pc' = "check" /\ UNCHANGED new_size
    /\ UNCHANGED <<buffer, data, ret, system>>

CheckSize ==
    /\ pc = "check"
    /\ \/ new_size > OffMax /\ Return("out_of_virtual_memory")
       \/ /\ new_size <= OffMax
          /\ pc' = IF place = "file" THEN "fallocate" ELSE "open"
          /\ UNCHANGED <<data, new_size, ret>>
    /\ UNCHANGED <<buffer, system>>

Open ==
    /\ pc = "open"
    /\ files' = files + 1
    /\ allocated' = 0
    /\ pc' = "fallocate"
    /\ UNCHANGED <<buffer, data, new_size, ret, blocks, mappings, full>>

OpenFails ==
    /\ pc = "open"
    /\ Return("system")
    /\ UNCHANGED <<buffer, system>>

\* Mutant: of a file that grows, the room is allocated from the beginning on.
Fallocate_FromStart ==
    /\ pc = "fallocate"
    /\ new_size # 0
    /\ pc' = "map"
    /\ allocated' = IF place = "file" THEN allocated ELSE new_size
    /\ UNCHANGED <<buffer, data, new_size, ret, blocks, files, mappings, full>>

Fallocate ==
    /\ pc = "fallocate"
    /\ new_size # 0
    /\ pc' = "map"
    /\ allocated' = IF new_size > allocated THEN new_size ELSE allocated
    /\ UNCHANGED <<buffer, data, new_size, ret, blocks, files, mappings, full>>

(***************************************************************************)
(* posix_fallocate answers with the number of an error, and never with -1, *)
(* which is what the code compares with: it goes on.  A size that has      *)
(* wrapped around to 0 is an error too.                                    *)
(***************************************************************************)
FallocateFails ==
    /\ pc = "fallocate"
    /\ pc' = "map"
    /\ \/ /\ new_size > allocated
          /\ full' = TRUE
          /\ allocated' \in allocated .. new_size - 1
       \/ new_size = 0 /\ UNCHANGED <<full, allocated>>
    /\ UNCHANGED <<buffer, data, new_size, ret, blocks, files, mappings>>

\* The memcpy to the new mapping succeeds.
Map ==
    /\ pc = "map" /\ place # "file"
    /\ new_size # 0
    /\ used <= allocated
    /\ memory' = Copied(used, new_size)
    /\ blocks' = IF place = "heap" THEN blocks - 1 ELSE blocks
    /\ mappings' = mappings + 1
    /\ place' = "file"
    /\ size' = new_size
    /\ pc' = "store"
    /\ UNCHANGED <<used, data, new_size, ret, files, allocated, full>>

MapKills ==
    /\ pc = "map" /\ place # "file"
    /\ new_size # 0
    /\ used > allocated
    /\ Killed
    /\ mappings' = mappings + 1
    /\ UNCHANGED <<blocks, files, allocated, full>>

\* mremap, which moves the mapping where it has to.
Remap ==
    /\ pc = "map" /\ place = "file"
    /\ new_size # 0
    /\ memory' = Copied(size, new_size)
    /\ size' = new_size
    /\ pc' = "store"
    /\ UNCHANGED <<place, used, data, new_size, ret, system>>

\* Mutant: the file stays open.
MapFails_KeepsFile ==
    /\ pc = "map"
    /\ Return("system")
    /\ UNCHANGED <<buffer, system>>

\* mmap or mremap fails, always for a size of 0.
MapFails ==
    /\ pc = "map"
    /\ files' = IF place = "file" THEN files ELSE files - 1
    /\ Return("system")
    /\ UNCHANGED <<buffer, blocks, mappings, allocated, full>>

-----------------------------------------------------------------------------
(***************************************************************************)
(* The other operations, which call nothing.                               *)
(***************************************************************************)

Pop(n) ==
    /\ pc = "idle"
    /\ n <= used
    /\ used' = used - n
    /\ UNCHANGED <<place, memory, size, pc, data, new_size, ret, system>>

Write(offset, piece) ==
    /\ pc = "idle"
    /\ offset + Len(piece) <= used
    /\ memory' = [i \in DOMAIN memory |->
                    IF i \in offset .. offset + Len(piece) - 1
                    THEN piece[i - offset + 1] ELSE memory[i]]
    /\ UNCHANGED <<place, size, used, pc, data, new_size, ret, system>>

Wipe ==
    /\ pc = "idle"
    /\ pc' = "wiped"
    /\ blocks' = IF place = "heap" THEN blocks - 1 ELSE blocks
    /\ files' = IF place = "file" THEN files - 1 ELSE files
    /\ mappings' = IF place = "file" THEN mappings - 1 ELSE mappings
    /\ used' = 0
    /\ UNCHANGED <<place, memory, size, data, new_size, ret, allocated, full>>

\* The steps of a push that has begun.
Continue ==
    \/ Store \/ StoreKills
    \/ Malloc \/ MallocFails
    \/ Double \/ CheckSize
    \/ Open \/ OpenFails
    \/ Fallocate \/ FallocateFails
    \/ Map \/ MapKills \/ Remap \/ MapFails

Next ==
    \/ \E piece \in Pieces : Push(piece)
    \/ Continue
    \/ \E n \in 1..used : Pop(n)
    \/ \E offset \in Patches, piece \in Pieces : Write(offset, piece)
    \/ Wipe

Spec == Init /\ [][Next]_vars

\* A call that has begun runs until it returns.
FairSpec == Spec /\ WF_vars(Continue)

-----------------------------------------------------------------------------
(***************************************************************************)
(* Properties                                                              *)
(***************************************************************************)

(***************************************************************************)
(* The buffer always has the room that it says it has, and its contents    *)
(* fit in it, whatever way it took to its present size.                    *)
(***************************************************************************)
TypeOK ==
    /\ place \in {"mini", "heap", "file"}
    /\ size \in Nat /\ used \in 0..size
    /\ memory \in [0 .. size - 1 -> Byte \cup {Junk}]
    /\ pc \in {"idle", "store", "malloc", "double", "check", "open", "fallocate",
               "map", "killed", "wiped"}
    /\ pc = "store" => Required <= size
    /\ data \in Pieces \cup {<<>>} /\ new_size \in Nat
    /\ ret \in {"ok", "system", "out_of_virtual_memory"}
    /\ blocks \in Nat /\ files \in Nat /\ mappings \in Nat /\ allocated \in Nat
    /\ full \in BOOLEAN

(***************************************************************************)
(* A push appends all of its data and changes nothing else, or fails and   *)
(* changes nothing, through all the moves from the buffer's own memory to  *)
(* the heap and to a file; and pop and write do what they say.             *)
(***************************************************************************)
Contents == [k \in 1..used |-> memory[k - 1]]

Abstract == INSTANCE Stack WITH contents <- Contents

IsAStack == Abstract!SSpec

(***************************************************************************)
(* Between calls the process holds exactly the resource that the contents  *)
(* are in, also after any step of a push has failed; after the buffer was  *)
(* wiped it holds none.                                                    *)
(***************************************************************************)
NothingLeaked ==
    /\ pc = "idle" =>
         /\ blocks = IF place = "heap" THEN 1 ELSE 0
         /\ files = IF place = "file" THEN 1 ELSE 0
         /\ mappings = files
    /\ pc = "wiped" => blocks = 0 /\ files = 0 /\ mappings = 0

(***************************************************************************)
(* As long as the disk has room, every page of the buffer that is touched  *)
(* is in the file: what is allocated, what is mapped and what the buffer   *)
(* takes for its size agree.                                               *)
(***************************************************************************)
KilledOnlyByFullDisk == pc = "killed" => full

\* Every push returns, or the process is killed.
PushRuns == pc \notin {"idle", "wiped", "killed"}
=============================================================================
