----------------------------- MODULE WriteToFd -----------------------------
(***************************************************************************)
(* Output to a file descriptor (_bijson_io_write_to_fd of lib/io.c).       *)
(*                                                                         *)
(* An action, such as writing a document, calls the output callback again  *)
(* and again; the callback collects what it is given in a buffer that      *)
(* grows, and once that does not suffice sends buffer and data to the file *)
(* descriptor, which may take part of them, nothing for the moment, or     *)
(* fail.  When the action is done the rest of the buffer is sent.          *)
(*                                                                         *)
(* The bytes are numbered in the order in which the action passes them.    *)
(* The file descriptor is a pipe with room for a few bytes whose reader    *)
(* makes room or goes away; a file is a pipe that always has room.  poll   *)
(* waits as long as there is none: being interrupted there changes nothing *)
(* and is left out.                                                        *)
(***************************************************************************)
EXTENDS Integers, Sequences, SequencesExt

CONSTANTS
    InitialSize,    \* the size of the buffer at the start: 4096 in the code
    MaxBuffer,      \* the size up to which it grows: 1048576 in the code
    Pipe,           \* the bytes the file descriptor has room for
    MaxInput        \* bound: the bytes that the action passes in all

ASSUME WriteToFdAssumption ==
    /\ InitialSize \in Nat \ {0}
    /\ \E k \in 0..MaxBuffer : MaxBuffer = InitialSize * 2 ^ k
    /\ Pipe \in Nat \ {0}
    /\ MaxInput \in Nat

VARIABLES
    taken,          \* how many bytes the action has passed to the callback
    buffer,         \* the bytes in the buffer, fill of them
    size,           \* how many it can hold
    nonblocking,    \* whether the file descriptor has been seen not to block
    written,        \* the bytes counted as written
    pc,             \* "start", "action", "send" (in the callback), "flush" or
                    \* "done"
    vec, data,      \* in the callback: what of buffer and data is to be sent
    polled,         \* whether poll has said that there is room
    ret,            \* "running", or what the call has returned
    file,           \* the bytes that the file descriptor has taken
    room,           \* how many more it could take
    o_nonblock,     \* whether it has the flag O_NONBLOCK
    gone,           \* whether its reader has gone
    refused         \* how often it has answered EAGAIN

state  == <<taken, buffer, size, nonblocking, written>>
locals == <<pc, vec, data, polled, ret>>
fd     == <<file, room, o_nonblock, gone, refused>>
vars   == <<state, locals, fd>>

Dropped(bytes, n) == SubSeq(bytes, n + 1, Len(bytes))
Unsent == IF pc = "send" THEN vec \o data ELSE buffer

Init ==
    /\ taken = 0 /\ buffer = <<>> /\ size = InitialSize
    /\ nonblocking = FALSE /\ written = 0
    /\ pc = "start" /\ vec = <<>> /\ data = <<>> /\ polled = FALSE
    /\ ret = "running"
    /\ file = <<>> /\ room \in 0..Pipe /\ o_nonblock \in BOOLEAN
    /\ gone = FALSE /\ refused = 0

-----------------------------------------------------------------------------
\* There may be no memory for the buffer.
Start ==
    /\ pc = "start"
    /\ \/ pc' = "action" /\ ret' = ret
       \/ pc' = "done" /\ ret' = "system"
    /\ UNCHANGED <<state, vec, data, polled, fd>>

\* The action passes len bytes to the callback.
Passed(len) == [i \in 1..len |-> taken + i]

Call(len) ==
    /\ pc = "action"
    /\ taken + len <= MaxInput
    /\ taken' = taken + len
    /\ UNCHANGED <<nonblocking, ret, fd>>

CallStores(len) ==
    /\ Call(len)
    /\ Len(buffer) + len <= size
    /\ buffer' = buffer \o Passed(len)
    /\ UNCHANGED <<size, written, pc, vec, data, polled>>

\* Mutant: grows without bound.
CallGrows_NoMax(len) ==
    LET required == Len(buffer) + len
    IN  /\ Call(len)
        /\ required > size
        /\ \E k \in 1..MaxBuffer :
             /\ size' = size * 2 ^ k
             /\ size' >= required /\ size * 2 ^ (k - 1) < required
        /\ buffer' = buffer \o Passed(len)
        /\ UNCHANGED <<written, pc, vec, data, polled>>

CallGrows(len) ==
    LET required == Len(buffer) + len
    IN  /\ Call(len)
        /\ required > size /\ required <= MaxBuffer
        /\ \E k \in 1..MaxBuffer :
             /\ size' = size * 2 ^ k
             /\ size' >= required /\ size * 2 ^ (k - 1) < required
        /\ buffer' = buffer \o Passed(len)
        /\ UNCHANGED <<written, pc, vec, data, polled>>

\* Mutant: leaves what is in the buffer out of the count.
CallSends_CountsData(len) ==
    /\ Call(len)
    /\ Len(buffer) + len > size
    /\ written' = written + len
    /\ pc' = "send"
    /\ vec' = buffer
    /\ data' = Passed(len)
    /\ polled' = FALSE
    /\ UNCHANGED <<buffer, size>>

\* There is too much, or no memory for a larger buffer.
CallSends(len) ==
    /\ Call(len)
    /\ Len(buffer) + len > size
    /\ written' = written + Len(buffer) + len
    /\ pc' = "send"
    /\ vec' = buffer
    /\ data' = Passed(len)
    /\ polled' = FALSE
    /\ UNCHANGED <<buffer, size>>

Return(error) ==
    /\ pc' = "done"
    /\ ret' = error
    /\ UNCHANGED <<taken, size, nonblocking, vec, data, polled>>

ActionFails ==
    /\ pc = "action"
    /\ Return("action")
    /\ UNCHANGED <<buffer, written, fd>>

ActionEnds ==
    /\ pc = "action"
    /\ written' = written + Len(buffer)
    /\ pc' = "flush"
    /\ polled' = FALSE
    /\ UNCHANGED <<taken, buffer, size, nonblocking, vec, data, ret, fd>>

-----------------------------------------------------------------------------
\* The loops that send to the file descriptor, in the callback and at the end.
Sending == pc \in {"send", "flush"} /\ Unsent # <<>>

MustPoll == Sending /\ nonblocking /\ ~polled

PollWritable ==
    /\ MustPoll
    /\ room > 0 /\ ~gone
    /\ polled' = TRUE
    /\ UNCHANGED <<state, fd, pc, vec, data, ret>>

\* Mutant: anything but POLLOUT is waited for again.
PollBroken_PollsAgain ==
    /\ MustPoll
    /\ UNCHANGED vars

\* poll fails, or says that nobody reads.
PollBroken ==
    /\ MustPoll
    /\ Return("system")
    /\ UNCHANGED <<buffer, written, fd>>

TryWrite == Sending /\ (nonblocking => polled)

\* The answers to write and writev.
Take(n) ==
    /\ TryWrite
    /\ ~gone
    /\ n <= room /\ n <= Len(Unsent)
    /\ file' = file \o SubSeq(Unsent, 1, n)
    /\ room' = room - n
    /\ polled' = FALSE
    /\ UNCHANGED <<taken, size, nonblocking, written, ret, o_nonblock, gone, refused>>

\* Mutant: when the buffer is sent, data is sent from its start.
TakeFromBoth_KeepsData(n) ==
    /\ pc = "send" /\ vec # <<>>
    /\ Take(n)
    /\ IF n >= Len(vec)
       THEN buffer' = <<>> /\ vec' = <<>> /\ UNCHANGED data
       ELSE vec' = Dropped(vec, n) /\ UNCHANGED <<buffer, data>>
    /\ pc' = IF n = Len(Unsent) THEN "action" ELSE "send"

\* writev: when all of the buffer is sent, what is left is left of data.
TakeFromBoth(n) ==
    /\ pc = "send" /\ vec # <<>>
    /\ Take(n)
    /\ IF n >= Len(vec)
       THEN buffer' = <<>> /\ vec' = <<>> /\ data' = Dropped(data, n - Len(vec))
       ELSE vec' = Dropped(vec, n) /\ UNCHANGED <<buffer, data>>
    /\ pc' = IF n = Len(Unsent) THEN "action" ELSE "send"

TakeFromData(n) ==
    /\ pc = "send" /\ vec = <<>>
    /\ Take(n)
    /\ data' = Dropped(data, n)
    /\ pc' = IF n = Len(Unsent) THEN "action" ELSE "send"
    /\ UNCHANGED <<buffer, vec>>

TakeFromBuffer(n) ==
    /\ pc = "flush"
    /\ Take(n)
    /\ buffer' = Dropped(buffer, n)
    /\ UNCHANGED <<pc, vec, data>>

WriteTakes == \E n \in 1..Pipe : TakeFromBoth(n) \/ TakeFromData(n) \/ TakeFromBuffer(n)

\* Mutant: sets nonblocking in the local copy of the state only.
WriteWouldBlock_Forgets ==
    /\ TryWrite
    /\ o_nonblock /\ room = 0 /\ ~gone
    /\ refused' = refused + 1
    /\ polled' = FALSE
    /\ UNCHANGED <<state, pc, vec, data, ret, file, room, o_nonblock, gone>>

WriteWouldBlock ==
    /\ TryWrite
    /\ o_nonblock /\ room = 0 /\ ~gone
    /\ nonblocking' = TRUE
    /\ polled' = FALSE
    /\ refused' = refused + 1
    /\ UNCHANGED <<taken, buffer, size, written, pc, vec, data, ret,
                   file, room, o_nonblock, gone>>

\* EINTR, which ends the wait of a write that blocks, too.
WriteInterrupted ==
    /\ TryWrite
    /\ polled' = FALSE
    /\ UNCHANGED <<state, pc, vec, data, ret, fd>>

WriteFails ==
    /\ TryWrite
    /\ Return("system")
    /\ UNCHANGED <<buffer, written, fd>>

Finish ==
    /\ pc = "flush" /\ buffer = <<>>
    /\ Return("ok")
    /\ UNCHANGED <<buffer, written, fd>>

-----------------------------------------------------------------------------
\* The reader of the pipe.
MakeRoom ==
    /\ ~gone
    /\ room < Pipe
    /\ room' \in (room + 1)..Pipe
    /\ UNCHANGED <<state, locals, file, o_nonblock, gone, refused>>

GoAway ==
    /\ ~gone
    /\ gone' = TRUE
    /\ UNCHANGED <<state, locals, file, room, o_nonblock, refused>>

CallNext ==
    \/ Start
    \/ \E len \in 0..MaxInput : CallStores(len) \/ CallGrows(len) \/ CallSends(len)
    \/ ActionFails \/ ActionEnds
    \/ PollWritable \/ PollBroken
    \/ WriteTakes \/ WriteWouldBlock \/ WriteInterrupted \/ WriteFails
    \/ Finish

Next == CallNext \/ MakeRoom \/ GoAway

Spec == Init /\ [][Next]_vars

(***************************************************************************)
(* The call is made and runs to its end; a reader that has not gone reads; *)
(* and a write that could go through again and again is not interrupted    *)
(* every time.  A write to a pipe without a reader fails.                  *)
(***************************************************************************)
FairSpec ==
    /\ Spec
    /\ WF_vars(Start \/ ActionFails \/ ActionEnds \/ PollWritable \/ Finish)
    /\ SF_vars(WriteTakes)
    /\ WF_vars(gone /\ PollBroken)
    /\ SF_vars(gone /\ WriteFails)
    /\ WF_vars(MakeRoom)

-----------------------------------------------------------------------------
TypeOK ==
    /\ taken \in 0..MaxInput
    /\ Len(buffer) <= size /\ size <= MaxBuffer
    /\ written \in 0..MaxInput
    /\ pc \in {"start", "action", "send", "flush", "done"}
    /\ nonblocking \in BOOLEAN /\ polled \in BOOLEAN /\ gone \in BOOLEAN
    /\ ret \in {"running", "ok", "system", "action"}
    /\ room \in 0..Pipe

(***************************************************************************)
(* At every moment what has been written, followed by what has yet to be   *)
(* sent, is what the action has passed: nothing is lost, written twice or  *)
(* out of order when the file descriptor takes the buffer and half of the  *)
(* data, or when the loop starts over.  On an error the beginning of it    *)
(* has been written.                                                       *)
(***************************************************************************)
Input == [i \in 1..taken |-> i]

NothingLost ==
    /\ ret = "running" => file \o Unsent = Input
    /\ IsPrefix(file, Input)

(***************************************************************************)
(* When the call succeeds, everything is in the file, and result_size says *)
(* how much that is.                                                       *)
(***************************************************************************)
SuccessIsComplete ==
    ret = "ok" => file = Input /\ written = Len(file)

(***************************************************************************)
(* A file descriptor that does not block is polled from its first EAGAIN   *)
(* on, in this callback, the next ones and the final loop: it never has to *)
(* refuse a second write.                                                  *)
(***************************************************************************)
RefusedOnce == refused <= 1

(***************************************************************************)
(* However small the parts that the file descriptor takes, the call comes  *)
(* to an end.                                                              *)
(***************************************************************************)
Ends == <>(ret # "running")
=============================================================================
