--------------------------- MODULE OutputsProofs ----------------------------
(***************************************************************************)
(* Proofs about what an output leaves behind, for blocks, buffers, pipes and *)
(* inputs of any size: first the output to a file descriptor, which loses  *)
(* nothing, then every kind of output, which is complete when it succeeds and *)
(* leaves nothing behind when it does not.                                 *)
(***************************************************************************)
EXTENDS Outputs, NumberLemmas, SequenceTheorems

Bytes == Seq(Nat)

Types ==
    /\ taken \in Nat /\ written \in Nat
    /\ buffer \in Bytes /\ vec \in Bytes /\ data \in Bytes /\ file \in Bytes
    /\ pc \in {"start", "action", "send", "flush", "done"}
    /\ ret \in {"running", "ok", "system", "action"}

\* What is counted as written: while the action goes on what has been sent,
\* in the loops that send also what they have yet to send.
Counted ==
    /\ pc \in {"start", "action"} => written = Len(file)
    /\ pc \in {"send", "flush"} => written = taken

Complete == file = Input /\ written = taken

(***************************************************************************)
(* The inductive invariant.                                                *)
(***************************************************************************)
IInv ==
    /\ Types
    /\ pc = "done" <=> ret # "running"
    /\ pc = "send" /\ vec = <<>> => buffer = <<>>
    /\ pc # "done" => file \o Unsent = Input
    /\ IsPrefix(file, Input)
    /\ Counted
    /\ ret = "ok" => Complete

-----------------------------------------------------------------------------
(***************************************************************************)
(* Sequences of bytes                                                      *)
(***************************************************************************)
LEMMA Associative ==
    ASSUME NEW s \in Bytes, NEW t \in Bytes, NEW u \in Bytes
    PROVE  (s \o t) \o u = s \o (t \o u)
<1>1. \A a, b, c \in Seq(Nat) : (a \o b) \o c = a \o (b \o c)
  BY ConcatAssociative, SMTT(30)
<1> QED BY <1>1 DEF Bytes

LEMMA Cut ==
    ASSUME NEW s \in Bytes, NEW n \in 0..Len(s)
    PROVE  /\ SubSeq(s, 1, n) \in Bytes
           /\ Dropped(s, n) \in Bytes
           /\ Len(SubSeq(s, 1, n)) = n
           /\ Len(Dropped(s, n)) = Len(s) - n
           /\ SubSeq(s, 1, n) \o Dropped(s, n) = s
<1>1. Len(s) \in Nat /\ \A i \in 1..Len(s) : s[i] \in Nat
  BY LenProperties, ElementOfSeq DEF Bytes
<1>2. SubSeq(s, 1, n) \in Bytes /\ Len(SubSeq(s, 1, n)) = n
  <2>1. \A i \in 1..n : s[i] \in Nat
    BY <1>1
  <2> QED BY <1>1, <2>1, SubSeqProperties, Z3 DEF Bytes
<1>3. Dropped(s, n) \in Bytes /\ Len(Dropped(s, n)) = Len(s) - n
  <2>1. \A i \in (n + 1)..Len(s) : s[i] \in Nat
    BY <1>1
  <2> QED BY <1>1, <2>1, SubSeqProperties, Z3 DEF Bytes, Dropped
<1>4. SubSeq(s, 1, n) \o Dropped(s, n) = SubSeq(s, 1, Len(s))
  <2>1. 1 \in 1..(Len(s) + 1) /\ n \in (1 - 1)..Len(s) /\ Len(s) \in n..Len(s)
    BY <1>1
  <2> QED BY <2>1, ConcatAdjacentSubSeq DEF Bytes, Dropped
<1> QED
  BY <1>2, <1>3, <1>4, SubSeqFull DEF Bytes

\* A sequence is cut in one way only.
LEMMA CutUnique ==
    ASSUME NEW s \in Bytes, NEW t \in Bytes, NEW u \in Bytes, NEW n \in 0..Len(s),
           s = t \o u, Len(t) = n
    PROVE  Dropped(s, n) = u
<1>1. /\ SubSeq(s, 1, n) \in Bytes /\ Dropped(s, n) \in Bytes
      /\ Len(SubSeq(s, 1, n)) = n /\ Len(Dropped(s, n)) = Len(s) - n
      /\ SubSeq(s, 1, n) \o Dropped(s, n) = s
  BY Cut
<1>2. /\ Len(s) \in Nat /\ Len(u) \in Nat
      /\ Len(s) = Len(t) + Len(u)
      /\ \A i \in 1..(Len(t) + Len(u)) :
           s[i] = IF i <= Len(t) THEN t[i] ELSE u[i - Len(t)]
  BY ConcatProperties, LenProperties DEF Bytes
<1>3. \A i \in 1..Len(u) : Dropped(s, n)[i] = u[i]
  <2> SUFFICES ASSUME NEW i \in 1..Len(u)
               PROVE  Dropped(s, n)[i] = u[i]
    OBVIOUS
  <2>1. Dropped(s, n)[i] = s[n + i]
    <3>1. \A j \in (n + 1)..Len(s) : s[j] \in Nat
      <4>1. s \in Seq(Nat)
        BY DEF Bytes
      <4>2. \A j \in 1..Len(s) : s[j] \in Nat
        BY <4>1, ElementOfSeq, Zenon
      <4>3. \A j \in (n + 1)..Len(s) : j \in 1..Len(s)
        BY <1>2
      <4> QED  BY <4>2, <4>3, Zenon
    <3>2. \A j \in 1..(Len(s) - (n + 1) + 1) : Dropped(s, n)[j] = s[(n + 1) + j - 1]
      BY <3>1, <1>2, SubSeqProperties, Z3 DEF Dropped
    <3>3. i \in 1..(Len(s) - (n + 1) + 1) /\ (n + 1) + i - 1 = n + i
      BY <1>2
    <3> QED BY <3>2, <3>3
  <2>2. n + i \in 1..(Len(t) + Len(u)) /\ ~(n + i <= Len(t)) /\ (n + i) - Len(t) = i
    BY <1>2
  <2> QED BY <2>1, <2>2, <1>2
<1>4. Len(Dropped(s, n)) = Len(u)
  BY <1>1, <1>2
<1> QED
  BY <1>1, <1>3, <1>4, SeqEqual, Z3 DEF Bytes

\* What is left of v and d when part of v, or v and part of d, is sent.
LEMMA CutFirst ==
    ASSUME NEW t \in Bytes, NEW u \in Bytes, NEW d \in Bytes
    PROVE  Dropped((t \o u) \o d, Len(t)) = u \o d
<1>1. (t \o u) \o d = t \o (u \o d)
  BY Associative, Zenon
<1>2. /\ u \o d \in Bytes /\ (t \o u) \o d \in Bytes
      /\ Len((t \o u) \o d) = Len(t) + Len(u \o d)
      /\ Len(t) \in Nat /\ Len(u \o d) \in Nat
  BY <1>1, ConcatProperties, LenProperties DEF Bytes
<1>3. Len(t) \in 0..Len((t \o u) \o d)
  BY <1>2
<1> QED BY <1>1, <1>2, <1>3, CutUnique

LEMMA CutSecond ==
    ASSUME NEW v \in Bytes, NEW t \in Bytes, NEW u \in Bytes
    PROVE  Dropped(v \o (t \o u), Len(v) + Len(t)) = u
<1>1. (v \o t) \o u = v \o (t \o u)
  BY Associative, Zenon
<1>2. /\ v \o t \in Bytes /\ Len(v \o t) = Len(v) + Len(t)
      /\ (v \o t) \o u \in Bytes
      /\ Len((v \o t) \o u) = Len(v \o t) + Len(u)
      /\ Len(v) \in Nat /\ Len(t) \in Nat /\ Len(u) \in Nat
  BY ConcatProperties, LenProperties DEF Bytes
<1>3. Len(v) + Len(t) \in 0..Len((v \o t) \o u)
  BY <1>2
<1> QED BY <1>1, <1>2, <1>3, CutUnique

LEMMA CutJoined ==
    ASSUME NEW v \in Bytes, NEW d \in Bytes, NEW n \in 0..Len(v \o d)
    PROVE  /\ n >= Len(v) => /\ n - Len(v) \in 0..Len(d)
                             /\ Dropped(v \o d, n) = Dropped(d, n - Len(v))
           /\ n < Len(v)  => /\ n \in 0..Len(v)
                             /\ Dropped(v \o d, n) = Dropped(v, n) \o d
<1>1. /\ v \o d \in Bytes /\ Len(v) \in Nat /\ Len(d) \in Nat
      /\ Len(v \o d) = Len(v) + Len(d)
  BY ConcatProperties, LenProperties DEF Bytes
<1>2. CASE n >= Len(v)
  <2>1. n - Len(v) \in 0..Len(d) /\ Len(v) + (n - Len(v)) = n
    BY <1>1, <1>2
  <2>2. PICK m \in 0..Len(d) : m = n - Len(v) /\ Len(v) + m = n
    BY <2>1
  <2>3. /\ SubSeq(d, 1, m) \in Bytes /\ Dropped(d, m) \in Bytes
        /\ Len(SubSeq(d, 1, m)) = m
        /\ SubSeq(d, 1, m) \o Dropped(d, m) = d
    BY Cut
  <2>4. Dropped(v \o (SubSeq(d, 1, m) \o Dropped(d, m)), Len(v) + Len(SubSeq(d, 1, m)))
          = Dropped(d, m)
    <3>1. SubSeq(d, 1, m) \in Bytes /\ Dropped(d, m) \in Bytes
      BY <2>3
    <3> QED BY <3>1, CutSecond, Zenon
  <2>5. Dropped(v \o d, n) = Dropped(d, m)
    BY <2>2, <2>3, <2>4, Zenon
  <2> QED BY <2>1, <2>2, <2>5, <1>1, <1>2
<1>3. CASE n < Len(v)
  <2>1. n \in 0..Len(v)
    BY <1>1, <1>3
  <2>2. /\ SubSeq(v, 1, n) \in Bytes /\ Dropped(v, n) \in Bytes
        /\ Len(SubSeq(v, 1, n)) = n
        /\ SubSeq(v, 1, n) \o Dropped(v, n) = v
    BY <2>1, Cut
  <2>3. Dropped((SubSeq(v, 1, n) \o Dropped(v, n)) \o d, Len(SubSeq(v, 1, n)))
          = Dropped(v, n) \o d
    <3>1. SubSeq(v, 1, n) \in Bytes /\ Dropped(v, n) \in Bytes
      BY <2>2
    <3>2. PICK t \in Bytes : t = SubSeq(v, 1, n)
      BY <3>1
    <3>3. PICK u \in Bytes : u = Dropped(v, n)
      BY <3>1
    <3>4. Dropped((t \o u) \o d, Len(t)) = u \o d
      BY CutFirst, Zenon
    <3> QED BY <3>2, <3>3, <3>4, Zenon
  <2>4. Dropped(v \o d, n) = Dropped(v, n) \o d
    BY <2>2, <2>3, Zenon
  <2> QED BY <2>1, <2>4, <1>1, <1>3
<1> QED BY <1>1, <1>2, <1>3

LEMMA PrefixOfJoined ==
    ASSUME NEW f \in Bytes, NEW u \in Bytes
    PROVE  IsPrefix(f, f \o u)
<1>1. /\ f \o u \in Bytes /\ Len(f) \in Nat /\ Len(u) \in Nat
      /\ Len(f \o u) = Len(f) + Len(u)
      /\ \A i \in 1..(Len(f) + Len(u)) :
           (f \o u)[i] = IF i <= Len(f) THEN f[i] ELSE u[i - Len(f)]
  BY ConcatProperties, LenProperties DEF Bytes
<1>2. /\ SubSeq(f \o u, 1, Len(f)) \in Bytes
      /\ Len(SubSeq(f \o u, 1, Len(f))) = Len(f)
  <2>1. Len(f) \in 0..Len(f \o u)
    BY <1>1
  <2> QED BY <1>1, <2>1, Cut, Zenon
<1>3. \A i \in 1..Len(f) : SubSeq(f \o u, 1, Len(f))[i] = f[i]
  <2>1. \A i \in 1..Len(f) : (f \o u)[i] = f[i] /\ f[i] \in Nat
    BY <1>1, ElementOfSeq DEF Bytes
  <2>2. \A i \in 1..(Len(f) - 1 + 1) : SubSeq(f \o u, 1, Len(f))[i] = (f \o u)[1 + i - 1]
    BY <1>1, <2>1, SubSeqProperties, Z3
  <2> QED BY <1>1, <2>1, <2>2
<1>4. SubSeq(f \o u, 1, Len(f)) = f
  BY <1>1, <1>2, <1>3, SeqEqual, Z3 DEF Bytes
<1> QED BY <1>1, <1>4, SubSeqFull DEF IsPrefix, Bytes

-----------------------------------------------------------------------------
(***************************************************************************)
(* The input                                                               *)
(***************************************************************************)
InputOf(n) == [i \in 1..n |-> i]

LEMMA InputOfGrows ==
    ASSUME NEW n \in Nat, NEW len \in Nat, NEW passed,
           passed = [i \in 1..len |-> n + i]
    PROVE  passed \in Bytes /\ InputOf(n + len) = InputOf(n) \o passed
<1>1. /\ passed \in Bytes /\ Len(passed) = len
      /\ \A i \in 1..len : passed[i] = n + i
  BY DEF Bytes
<1>2. /\ InputOf(n) \in Bytes /\ Len(InputOf(n)) = n
      /\ \A i \in 1..n : InputOf(n)[i] = i
  BY DEF InputOf, Bytes
<1>3. n + len \in Nat
  OBVIOUS
<1>4. /\ InputOf(n + len) \in Bytes /\ Len(InputOf(n + len)) = n + len
      /\ \A i \in 1..(n + len) : InputOf(n + len)[i] = i
  BY <1>3 DEF InputOf, Bytes
<1>5. /\ InputOf(n) \o passed \in Bytes
      /\ Len(InputOf(n) \o passed) = n + len
      /\ \A i \in 1..(n + len) :
           (InputOf(n) \o passed)[i] = IF i <= n THEN InputOf(n)[i] ELSE passed[i - n]
  <2>1. /\ InputOf(n) \o passed \in Seq(Nat)
        /\ Len(InputOf(n) \o passed) = Len(InputOf(n)) + Len(passed)
        /\ \A i \in 1..(Len(InputOf(n)) + Len(passed)) : (InputOf(n) \o passed)[i] =
              IF i <= Len(InputOf(n)) THEN InputOf(n)[i] ELSE passed[i - Len(InputOf(n))]
    <3>1. InputOf(n) \in Seq(Nat) /\ passed \in Seq(Nat)
      BY <1>1, <1>2, Zenon DEF Bytes
    <3> QED BY <3>1, ConcatProperties, Zenon
  <2> QED BY <2>1, <1>1, <1>2, Zenon DEF Bytes
<1>6. \A i \in 1..(n + len) : (InputOf(n) \o passed)[i] = InputOf(n + len)[i]
  <2> SUFFICES ASSUME NEW i \in 1..(n + len)
               PROVE  (InputOf(n) \o passed)[i] = i
    BY <1>4
  <2>1. CASE i <= n
    BY <2>1, <1>2, <1>5
  <2>2. CASE ~(i <= n)
    <3>1. i - n \in 1..len /\ n + (i - n) = i
      BY <2>2
    <3> QED BY <3>1, <2>2, <1>1, <1>5
  <2> QED BY <2>1, <2>2
<1> QED
  BY <1>1, <1>4, <1>5, <1>6, SeqEqual DEF Bytes

LEMMA InputProperties ==
    ASSUME taken \in Nat
    PROVE  Input \in Bytes /\ Len(Input) = taken
BY DEF Input, Bytes

LEMMA InputGrows ==
    ASSUME taken \in Nat, NEW len \in Nat, taken' = taken + len
    PROVE  Passed(len) \in Bytes /\ Input' = Input \o Passed(len)
<1>1. Input = InputOf(taken) /\ Input' = InputOf(taken + len)
  BY DEF Input, InputOf
<1> QED BY <1>1, InputOfGrows DEF Passed

-----------------------------------------------------------------------------
(***************************************************************************)
(* The steps                                                               *)
(***************************************************************************)
LEMMA InitInvariant == Init => IInv
<1> SUFFICES ASSUME Init PROVE IInv
  OBVIOUS
<1>1. Types
  BY DEF Init, Types, Bytes
<1>2. Input = <<>> /\ Unsent = <<>> /\ file = <<>>
  BY DEF Init, Input, Unsent
<1>3. file \o Unsent = Input /\ IsPrefix(file, Input)
  <2>1. <<>> \in Bytes
    BY EmptySeq DEF Bytes
  <2>2. <<>> \o <<>> = <<>> /\ IsPrefix(<<>>, <<>> \o <<>>)
    BY <2>1, PrefixOfJoined, ConcatEmptySeq DEF Bytes
  <2> QED BY <1>2, <2>2
<1> QED BY <1>1, <1>2, <1>3 DEF Init, IInv, Counted

\* What all the steps of the action have in common.
LEMMA CallInvariant ==
    ASSUME IInv, NEW len \in Nat, Call(len),
           Types', ret' = ret, pc' # "done",
           pc' = "send" /\ vec' = <<>> => buffer' = <<>>,
           Unsent' = Unsent \o Passed(len),
           Counted'
    PROVE  IInv'
<1>1. /\ taken \in Nat /\ taken' = taken + len /\ file' = file
      /\ pc = "action"
  BY DEF IInv, Types, Call, fd
<1>2. Passed(len) \in Bytes /\ Input' = Input \o Passed(len)
  BY <1>1, InputGrows
<1>3. file \in Bytes /\ Unsent \in Bytes /\ Unsent' \in Bytes
  BY <1>1, <1>2, ConcatProperties DEF IInv, Types, Unsent, Bytes
<1>4. (file \o Unsent) \o Passed(len) = file \o (Unsent \o Passed(len))
  <2> HIDE <1>1
  <2>1. \A t, u \in Bytes : (file \o t) \o u = file \o (t \o u)
    BY <1>3, Associative
  <2> QED  BY <1>2, <1>3, <2>1, Zenon
<1>5. file' \o Unsent' = Input'
  BY <1>1, <1>2, <1>4 DEF IInv
<1>6. IsPrefix(file, file \o Unsent')
  BY <1>3, PrefixOfJoined
<1>7. IsPrefix(file', Input')
  BY <1>1, <1>5, <1>6
<1>8. ret = "running"
  BY <1>1 DEF IInv
<1> QED BY <1>1, <1>5, <1>7, <1>8 DEF IInv

LEMMA CallStoresInvariant ==
    ASSUME IInv, NEW len \in Nat, CallStores(len)
    PROVE  IInv'
<1>1. Call(len) /\ pc = "action" /\ taken \in Nat /\ taken' = taken + len
  BY DEF CallStores, Call, IInv, Types
<1>2. Passed(len) \in Bytes
  BY <1>1, InputGrows
<1>3. buffer' \in Bytes
  BY <1>2, ConcatProperties DEF CallStores, IInv, Types, Bytes
<1>4. Types'
  BY <1>1, <1>3 DEF CallStores, Call, IInv, Types, fd
<1>5. Unsent' = Unsent \o Passed(len)
  BY <1>1 DEF CallStores, Unsent
<1>6. Counted'
  BY <1>1 DEF CallStores, Call, Counted, IInv, fd
<1> QED
  BY <1>1, <1>4, <1>5, <1>6, CallInvariant DEF CallStores, Call

LEMMA CallGrowsInvariant ==
    ASSUME IInv, NEW len \in Nat, CallGrows(len)
    PROVE  IInv'
<1>1. Call(len) /\ pc = "action" /\ taken \in Nat /\ taken' = taken + len
  BY DEF CallGrows, Call, IInv, Types
<1>2. Passed(len) \in Bytes
  BY <1>1, InputGrows
<1>3. buffer' \in Bytes
  BY <1>2, ConcatProperties DEF CallGrows, IInv, Types, Bytes
<1>4. Types'
  BY <1>1, <1>3 DEF CallGrows, Call, IInv, Types, fd
<1>5. Unsent' = Unsent \o Passed(len)
  BY <1>1 DEF CallGrows, Unsent
<1>6. Counted'
  BY <1>1 DEF CallGrows, Call, Counted, IInv, fd
<1> QED
  BY <1>1, <1>4, <1>5, <1>6, CallInvariant DEF CallGrows, Call

LEMMA CallSendsInvariant ==
    ASSUME IInv, NEW len \in Nat, CallSends(len)
    PROVE  IInv'
<1>1. Call(len) /\ pc = "action" /\ taken \in Nat /\ taken' = taken + len
  BY DEF CallSends, Call, IInv, Types
<1>2. Passed(len) \in Bytes
  BY <1>1, InputGrows
<1>3. written + Len(buffer) = taken
  <2>1. Len(file \o buffer) = Len(file) + Len(buffer)
    BY ConcatProperties DEF IInv, Types, Bytes
  <2>2. file \o buffer = Input /\ Len(Input) = taken
    BY <1>1, InputProperties DEF IInv, Unsent
  <2> QED BY <1>1, <2>1, <2>2 DEF IInv, Counted
<1>4. written' = taken'
  BY <1>1, <1>3 DEF CallSends
<1>5. Types'
  BY <1>1, <1>2, <1>4 DEF CallSends, Call, IInv, Types, fd
<1>6. Unsent' = Unsent \o Passed(len)
  BY <1>1 DEF CallSends, Unsent
<1>7. Counted'
  BY <1>4 DEF CallSends, Counted
<1>8. pc' = "send" /\ vec' = <<>> => buffer' = <<>>
  BY DEF CallSends
<1> QED
  BY <1>1, <1>5, <1>6, <1>7, <1>8, CallInvariant DEF CallSends, Call

\* A write that takes n bytes.
LEMMA TakeInvariant ==
    ASSUME IInv, NEW n \in Nat, Take(n),
           Types', pc' \in {"action", "send", "flush"},
           pc' = "action" => Unsent' = <<>>,
           pc = "flush" <=> pc' = "flush",
           pc' = "send" /\ vec' = <<>> => buffer' = <<>>,
           Unsent' = Dropped(Unsent, n)
    PROVE  IInv'
<1>1. /\ taken' = taken /\ taken \in Nat /\ written' = written /\ ret' = ret
      /\ pc \in {"send", "flush"} /\ ret = "running" /\ Input' = Input
      /\ file' = file \o SubSeq(Unsent, 1, n)
  BY DEF Take, TryWrite, Sending, IInv, Types, Input
<1>2. file \in Bytes /\ Unsent \in Bytes /\ n \in 0..Len(Unsent)
  <2>1. file \in Bytes /\ Unsent \in Bytes
    BY ConcatProperties DEF IInv, Types, Unsent, Bytes
  <2>2. Len(Unsent) \in Nat /\ n <= Len(Unsent)
    BY <2>1, LenProperties DEF Take, Bytes
  <2> QED BY <2>1, <2>2
<1>3. /\ SubSeq(Unsent, 1, n) \in Bytes /\ Dropped(Unsent, n) \in Bytes
      /\ SubSeq(Unsent, 1, n) \o Dropped(Unsent, n) = Unsent
  BY <1>2, Cut
<1>4. (file \o SubSeq(Unsent, 1, n)) \o Dropped(Unsent, n)
        = file \o (SubSeq(Unsent, 1, n) \o Dropped(Unsent, n))
  BY <1>2, <1>3, Associative, Zenon
<1>5. file' \o Unsent' = Input'
  BY <1>1, <1>3, <1>4 DEF IInv
<1>6. file' \in Bytes /\ Unsent' \in Bytes
  BY <1>3 DEF Types
<1>7. IsPrefix(file', Input')
  <2>1. IsPrefix(file', file' \o Unsent')
    BY <1>6, PrefixOfJoined
  <2> QED BY <2>1, <1>5
<1>8. Counted'
  <2>1. written = taken
    BY <1>1 DEF IInv, Counted
  <2>2. ASSUME pc' = "action" PROVE Len(file') = taken
    <3>1. file' = Input'
      BY <2>2, <1>5, <1>6, ConcatEmptySeq DEF Bytes
    <3> QED BY <3>1, <1>1, InputProperties
  <2> QED BY <1>1, <2>1, <2>2 DEF Counted
<1> QED BY <1>1, <1>5, <1>7, <1>8 DEF IInv

\* Nothing is left when all is taken.
LEMMA DroppedAll ==
    ASSUME NEW s \in Bytes
    PROVE  Dropped(s, Len(s)) = <<>>
<1>1. Len(s) \in Nat /\ Len(s) < Len(s) + 1 /\ Len(s) + 1 \in Int
  BY LenProperties DEF Bytes
<1> QED BY <1>1, SubSeqEmpty DEF Dropped

LEMMA TakeFromBothInvariant ==
    ASSUME IInv, NEW n \in Nat, TakeFromBoth(n)
    PROVE  IInv'
<1>1. /\ pc = "send" /\ vec # <<>> /\ Take(n) /\ Unsent = vec \o data
      /\ vec \in Bytes /\ data \in Bytes /\ buffer \in Bytes
  BY DEF TakeFromBoth, Unsent, IInv, Types
<1>2. /\ Unsent \in Bytes /\ Len(Unsent) \in Nat /\ n \in 0..Len(Unsent)
      /\ Len(vec) \in Nat /\ Len(data) \in Nat /\ Len(Unsent) = Len(vec) + Len(data)
  <2>1. /\ Unsent \in Bytes /\ Len(Unsent) \in Nat
        /\ Len(vec) \in Nat /\ Len(data) \in Nat /\ Len(Unsent) = Len(vec) + Len(data)
    BY <1>1, ConcatProperties, LenProperties DEF Bytes
  <2> QED BY <2>1, <1>1 DEF Take
<1>3. /\ n >= Len(vec) => /\ n - Len(vec) \in 0..Len(data)
                          /\ Dropped(Unsent, n) = Dropped(data, n - Len(vec))
      /\ n < Len(vec)  => /\ n \in 0..Len(vec)
                          /\ Dropped(Unsent, n) = Dropped(vec, n) \o data
  BY <1>1, <1>2, CutJoined
<1>4. /\ vec' \in Bytes /\ data' \in Bytes /\ buffer' \in Bytes
      /\ vec' \o data' = Dropped(Unsent, n)
      /\ vec' = <<>> => buffer' = <<>>
  <2>1. CASE n >= Len(vec)
    <3>1. /\ buffer' = <<>> /\ vec' = <<>> /\ data' = Dropped(data, n - Len(vec))
          /\ data' \in Bytes
      BY <2>1, <1>1, <1>3, Cut DEF TakeFromBoth
    <3> QED BY <3>1, <2>1, <1>3, ConcatEmptySeq, EmptySeq DEF Bytes
  <2>2. CASE n < Len(vec)
    <3>1. /\ ~(n >= Len(vec))
          /\ Dropped(vec, n) \in Bytes /\ Len(Dropped(vec, n)) = Len(vec) - n
      BY <2>2, <1>1, <1>2, <1>3, Cut
    <3>2. vec' = Dropped(vec, n) /\ buffer' = buffer /\ data' = data
      BY <3>1 DEF TakeFromBoth
    <3>3. vec' # <<>>
      BY <3>1, <3>2, <2>2, <1>2, EmptySeq
    <3> QED BY <3>1, <3>2, <3>3, <2>2, <1>1, <1>3
  <2> QED BY <2>1, <2>2, <1>2
<1>5. Types'
  <2>1. file' \in Bytes
    BY <1>1, <1>2, Cut, ConcatProperties DEF Take, Bytes, IInv, Types
  <2>2. pc' \in {"action", "send"}
    BY DEF TakeFromBoth
  <2> QED BY <2>1, <2>2, <1>1, <1>4 DEF Take, Types, IInv
<1>6. pc' = "action" => n = Len(Unsent)
  BY DEF TakeFromBoth
<1>7. pc' = "action" => buffer' = <<>> /\ Dropped(Unsent, n) = <<>>
  <2> SUFFICES ASSUME pc' = "action"
               PROVE  buffer' = <<>> /\ Dropped(Unsent, n) = <<>>
    OBVIOUS
  <2>1. n = Len(Unsent) /\ n >= Len(vec)
    BY <1>2, <1>6
  <2>2. buffer' = <<>>
    BY <2>1 DEF TakeFromBoth
  <2>3. Dropped(Unsent, n) = <<>>
    BY <2>1, <1>2, DroppedAll
  <2> QED BY <2>2, <2>3
<1>8. pc' \in {"action", "send"}
  BY DEF TakeFromBoth
<1>9. Unsent' = Dropped(Unsent, n)
  BY <1>4, <1>7, <1>8 DEF Unsent
<1> QED
  BY <1>1, <1>4, <1>5, <1>7, <1>8, <1>9, TakeInvariant

LEMMA TakeFromDataInvariant ==
    ASSUME IInv, NEW n \in Nat, TakeFromData(n)
    PROVE  IInv'
<1>1. /\ pc = "send" /\ vec = <<>> /\ buffer = <<>> /\ Take(n)
      /\ data \in Bytes /\ file \in Bytes /\ data' = Dropped(data, n)
      /\ vec' = <<>> /\ buffer' = <<>> /\ pc' \in {"action", "send"}
  BY DEF TakeFromData, IInv, Types
<1>2. Unsent = data
  BY <1>1, ConcatEmptySeq DEF Unsent, Bytes
<1>3. n \in 0..Len(data)
  BY <1>1, <1>2, LenProperties DEF Take, Bytes
<1>4. data' \in Bytes
  BY <1>1, <1>3, Cut
<1>5. Types'
  <2>1. file' \in Bytes
    BY <1>1, <1>2, <1>3, Cut, ConcatProperties DEF Take, Bytes
  <2> QED BY <2>1, <1>1, <1>4 DEF Take, Types, IInv
<1>6. pc' = "action" => data' = <<>>
  BY <1>1, <1>2, DroppedAll DEF TakeFromData
<1>7. vec' \o data' = data'
  BY <1>1, <1>4, ConcatEmptySeq DEF Bytes
<1>8. Unsent' = Dropped(Unsent, n)
  BY <1>1, <1>2, <1>6, <1>7 DEF Unsent
<1> QED
  BY <1>1, <1>2, <1>5, <1>6, <1>8, TakeInvariant

LEMMA TakeFromBufferInvariant ==
    ASSUME IInv, NEW n \in Nat, TakeFromBuffer(n)
    PROVE  IInv'
<1>1. /\ pc = "flush" /\ pc' = "flush" /\ Take(n) /\ Unsent = buffer
      /\ buffer \in Bytes /\ file \in Bytes /\ buffer' = Dropped(buffer, n)
  BY DEF TakeFromBuffer, IInv, Types, Unsent
<1>2. n \in 0..Len(buffer)
  BY <1>1, LenProperties DEF Take, Bytes
<1>3. buffer' \in Bytes
  BY <1>1, <1>2, Cut
<1>4. Types'
  <2>1. file' \in Bytes
    BY <1>1, <1>2, Cut, ConcatProperties DEF Take, Bytes
  <2> QED BY <2>1, <1>1, <1>3 DEF TakeFromBuffer, Take, Types, IInv
<1>5. Unsent' = Dropped(Unsent, n)
  BY <1>1 DEF Unsent
<1> QED
  BY <1>1, <1>4, <1>5, TakeInvariant

\* Steps that leave the bytes where they are.
LEMMA OtherInvariant ==
    ASSUME IInv,
           UNCHANGED <<taken, buffer, vec, data, file, written>>,
           \/ UNCHANGED <<pc, ret>>
           \/ pc = "start" /\ pc' = "action" /\ ret' = ret
           \/ pc' = "done" /\ ret' \in {"system", "action"}
    PROVE  IInv'
<1>1. Types'
  BY DEF IInv, Types
<1>2. Input' = Input
  BY DEF Input
<1>3. pc' # "done" => pc # "done" /\ Unsent' = Unsent
  BY DEF Unsent, IInv
<1>4. Counted'
  BY DEF IInv, Counted
<1>5. pc' = "done" <=> ret' # "running"
  BY DEF IInv
<1>6. ret' = "ok" => ret = "ok"
  OBVIOUS
<1> QED
  BY <1>1, <1>2, <1>3, <1>4, <1>5, <1>6 DEF IInv, Complete

LEMMA ActionEndsInvariant ==
    ASSUME IInv, ActionEnds
    PROVE  IInv'
<1>1. /\ pc = "action" /\ pc' = "flush" /\ written' = written + Len(buffer)
      /\ UNCHANGED <<taken, buffer, vec, data, file, ret>>
  BY DEF ActionEnds, fd
<1>2. written' = taken
  <2>1. Len(file \o buffer) = Len(file) + Len(buffer)
    BY ConcatProperties DEF IInv, Types, Bytes
  <2>2. file \o buffer = Input /\ Len(Input) = taken
    BY <1>1, InputProperties DEF IInv, Unsent, Types
  <2> QED BY <1>1, <2>1, <2>2 DEF IInv, Counted
<1>3. Types'
  BY <1>1, <1>2 DEF IInv, Types
<1>4. Unsent' = Unsent /\ Input' = Input
  BY <1>1 DEF Unsent, Input
<1> QED
  BY <1>1, <1>2, <1>3, <1>4 DEF IInv, Counted

LEMMA FinishInvariant ==
    ASSUME IInv, Finish
    PROVE  IInv'
<1>1. /\ pc = "flush" /\ buffer = <<>> /\ pc' = "done" /\ ret' = "ok"
      /\ UNCHANGED <<taken, buffer, vec, data, file, written>>
  BY DEF Finish, Return, fd
<1>2. file = Input
  BY <1>1, ConcatEmptySeq DEF IInv, Unsent, Types, Bytes
<1>3. Types' /\ Input' = Input
  BY <1>1 DEF IInv, Types, Input
<1> QED
  BY <1>1, <1>2, <1>3 DEF IInv, Counted, Complete

LEMMA NextInvariant == IInv /\ [Next]_vars => IInv'
<1> SUFFICES ASSUME IInv, [Next]_vars
             PROVE  IInv'
  OBVIOUS
<1>1. CASE Start
  BY <1>1, OtherInvariant DEF Start, state, fd
<1>2. ASSUME NEW len \in 0..MaxInput, CallStores(len) \/ CallGrows(len) \/ CallSends(len)
      PROVE  IInv'
  <2>1. len \in Nat
    BY WriteToFdAssumption
  <2> QED
    BY <2>1, <1>2, CallStoresInvariant, CallGrowsInvariant, CallSendsInvariant
<1>3. CASE ActionFails
  BY <1>3, OtherInvariant DEF ActionFails, Return, fd
<1>4. CASE ActionEnds
  BY <1>4, ActionEndsInvariant
<1>5. CASE PollWritable
  BY <1>5, OtherInvariant DEF PollWritable, state, fd
<1>6. CASE PollBroken
  BY <1>6, OtherInvariant DEF PollBroken, Return, fd
<1>7. CASE WriteTakes
  <2>1. PICK n \in 1..Pipe : TakeFromBoth(n) \/ TakeFromData(n) \/ TakeFromBuffer(n)
    BY <1>7 DEF WriteTakes
  <2>2. n \in Nat
    BY WriteToFdAssumption
  <2> QED
    BY <2>1, <2>2, TakeFromBothInvariant, TakeFromDataInvariant, TakeFromBufferInvariant
<1>8. CASE WriteWouldBlock
  BY <1>8, OtherInvariant DEF WriteWouldBlock
<1>9. CASE WriteInterrupted
  BY <1>9, OtherInvariant DEF WriteInterrupted, state, fd
<1>10. CASE WriteFails
  BY <1>10, OtherInvariant DEF WriteFails, Return, fd
<1>11. CASE Finish
  BY <1>11, FinishInvariant
<1>12. CASE MakeRoom
  BY <1>12, OtherInvariant DEF MakeRoom, state, locals
<1>13. CASE GoAway
  BY <1>13, OtherInvariant DEF GoAway, state, locals
<1>14. CASE UNCHANGED vars
  BY <1>14, OtherInvariant DEF vars, state, locals, fd
<1> QED
  BY <1>1, <1>2, <1>3, <1>4, <1>5, <1>6, <1>7, <1>8, <1>9, <1>10, <1>11, <1>12,
     <1>13, <1>14 DEF Next, CallNext

(***************************************************************************)
(* The invariant holds in every state.                                     *)
(***************************************************************************)
THEOREM Invariance == Spec => []IInv
BY InitInvariant, NextInvariant, PTL DEF Spec

(***************************************************************************)
(* What has been written and what has yet to be sent is what the action    *)
(* has passed, in its order: _bijson_io_write_to_fd neither loses nor      *)
(* repeats a byte, however the file descriptor takes them.                 *)
(***************************************************************************)
THEOREM NothingIsLost == Spec => []NothingLost
<1>1. IInv => NothingLost
  BY DEF IInv, NothingLost
<1> QED BY <1>1, Invariance, PTL

(***************************************************************************)
(* When the call succeeds the file holds everything that the action has    *)
(* passed, and result_size is its size.                                    *)
(***************************************************************************)
THEOREM SuccessMeansComplete == Spec => []SuccessIsComplete
<1>1. IInv => SuccessIsComplete
  BY InputProperties DEF IInv, Types, Complete, SuccessIsComplete
<1> QED BY <1>1, Invariance, PTL

-----------------------------------------------------------------------------
(***************************************************************************)
(* What is polled for is there when it is written to: room that poll has   *)
(* seen is only taken by the write that follows.                           *)
(***************************************************************************)
PollInv ==
    /\ room \in Nat
    /\ refused \in {0, 1}
    /\ refused = 1 => nonblocking
    /\ polled => room > 0

LEMMA TakeKeepsPollInv ==
    ASSUME PollInv, NEW n \in Nat, Take(n)
    PROVE  PollInv'
BY DEF PollInv, Take

LEMMA PollInvariant == PollInv /\ [Next]_vars => PollInv'
<1> SUFFICES ASSUME PollInv, [Next]_vars
             PROVE  PollInv'
  OBVIOUS
<1>1. CASE Start \/ PollBroken \/ WriteFails \/ ActionFails \/ Finish
  BY <1>1 DEF PollInv, Start, PollBroken, WriteFails, ActionFails, Finish, Return, state, fd
<1>2. ASSUME NEW len \in 0..MaxInput, CallStores(len) \/ CallGrows(len) \/ CallSends(len)
      PROVE  PollInv'
  BY <1>2 DEF PollInv, CallStores, CallGrows, CallSends, Call, fd
<1>3. CASE ActionEnds \/ WriteInterrupted
  BY <1>3 DEF PollInv, ActionEnds, WriteInterrupted, state, fd
<1>4. CASE PollWritable
  <2>1. room > 0 /\ UNCHANGED <<room, refused, nonblocking>>
    BY <1>4 DEF PollWritable, state, fd
  <2> QED BY <2>1 DEF PollInv
<1>5. CASE WriteTakes
  <2>1. PICK n \in 1..Pipe : Take(n)
    BY <1>5 DEF WriteTakes, TakeFromBoth, TakeFromData, TakeFromBuffer
  <2>2. n \in Nat
    BY WriteToFdAssumption
  <2> QED BY <2>1, <2>2, TakeKeepsPollInv
<1>6. CASE WriteWouldBlock
  <2>1. room = 0 /\ (nonblocking => polled) /\ nonblocking' /\ ~polled'
        /\ refused' = refused + 1 /\ room' = room
    BY <1>6 DEF WriteWouldBlock, TryWrite
  <2>2. ~nonblocking
    BY <2>1 DEF PollInv
  <2> QED BY <2>1, <2>2 DEF PollInv
<1>7. CASE MakeRoom
  BY <1>7, WriteToFdAssumption DEF PollInv, MakeRoom, state, locals
<1>8. CASE GoAway
  BY <1>8 DEF PollInv, GoAway, state, locals
<1>9. CASE UNCHANGED vars
  BY <1>9 DEF PollInv, vars, state, locals, fd
<1> QED
  BY <1>1, <1>2, <1>3, <1>4, <1>5, <1>6, <1>7, <1>8, <1>9 DEF Next, CallNext

(***************************************************************************)
(* A file descriptor that does not block refuses one write at most: after  *)
(* its first EAGAIN, in whichever callback that was, it is polled.         *)
(***************************************************************************)
THEOREM OnlyOneRefusal == Spec => []RefusedOnce
<1>1. Init => PollInv
  BY WriteToFdAssumption DEF Init, PollInv
<1>2. PollInv => RefusedOnce
  BY DEF PollInv, RefusedOnce
<1> QED BY <1>1, <1>2, PollInvariant, PTL DEF Spec

-----------------------------------------------------------------------------
(***************************************************************************)
(* The buffer is twice as large each time it grows, and the limit is such  *)
(* a size, too, so that it never grows past it.                            *)
(***************************************************************************)
DoubledSizes == {InitialSize * 2 ^ j : j \in Nat}

Flags == nonblocking \in BOOLEAN /\ polled \in BOOLEAN /\ gone \in BOOLEAN

RoomInv ==
    /\ taken <= MaxInput /\ written <= taken
    /\ size \in DoubledSizes /\ size <= MaxBuffer
    /\ Len(buffer) <= size
    /\ room \in 0..Pipe
    /\ Flags

LEMMA SizesAreNumbers ==
    /\ DoubledSizes \subseteq Nat
    /\ InitialSize \in DoubledSizes
    /\ \E k \in Nat : MaxBuffer = InitialSize * 2 ^ k
    /\ MaxBuffer \in Nat /\ InitialSize <= MaxBuffer
<1>1. InitialSize \in Nat \ {0}
  BY WriteToFdAssumption
<1>2. ASSUME NEW j \in Nat
      PROVE  InitialSize * 2 ^ j \in Nat /\ InitialSize <= InitialSize * 2 ^ j
  <2>1. PICK p \in Nat \ {0} : p = 2 ^ j
    BY PowerType
  <2>2. InitialSize * p \in Nat /\ InitialSize <= InitialSize * p
    BY <1>1, <2>1
  <2> QED BY <2>1, <2>2
<1>3. InitialSize \in DoubledSizes
  <2>1. InitialSize * 2 ^ 0 = InitialSize
    BY <1>1, PowerOfZero
  <2> QED BY <2>1, Zenon DEF DoubledSizes
<1>4. PICK k \in 0..MaxBuffer : MaxBuffer = InitialSize * 2 ^ k
  BY WriteToFdAssumption
<1>5. k \in Nat
  BY <1>4
<1> QED BY <1>2, <1>3, <1>4, <1>5 DEF DoubledSizes

LEMMA GrownSize ==
    ASSUME NEW n \in DoubledSizes, NEW k \in Nat \ {0}, n * 2 ^ (k - 1) < MaxBuffer
    PROVE  n * 2 ^ k \in DoubledSizes /\ n * 2 ^ k <= MaxBuffer
<1>1. PICK j \in Nat : n = InitialSize * 2 ^ j
  BY DEF DoubledSizes
<1>2. PICK m \in Nat : MaxBuffer = InitialSize * 2 ^ m
  BY SizesAreNumbers
<1>3. PICK i \in Nat \ {0} : i = InitialSize
  BY WriteToFdAssumption
<1>4. ASSUME NEW e \in Nat PROVE n * 2 ^ e = i * 2 ^ (j + e)
  <2>1. PICK p \in Nat : p = 2 ^ j
    BY PowerType
  <2>2. PICK q \in Nat : q = 2 ^ e
    BY PowerType
  <2>3. 2 ^ (j + e) = p * q
    BY <2>1, <2>2, PowerOfSum
  <2>4. (i * p) * q = i * (p * q)
    BY <1>3, <2>1, <2>2
  <2> QED BY <1>1, <1>3, <2>1, <2>2, <2>3, <2>4, Zenon
<1>5. k - 1 \in Nat /\ j + (k - 1) \in Nat /\ j + k \in Nat /\ j + k = (j + (k - 1)) + 1
  OBVIOUS
<1>6. i * 2 ^ (j + (k - 1)) < i * 2 ^ m
  <2>1. n * 2 ^ (k - 1) = i * 2 ^ (j + (k - 1))
    BY <1>4, <1>5
  <2> QED BY <1>2, <1>3, <2>1
<1>7. ~(m <= j + (k - 1))
  <2>1. PICK p \in Nat : p = 2 ^ (j + (k - 1))
    BY <1>5, PowerType
  <2>2. PICK q \in Nat : q = 2 ^ m
    BY PowerType
  <2>3. p < q
    BY <1>3, <1>6, <2>1, <2>2
  <2>4. m <= j + (k - 1) <=> q <= p
    BY <1>5, <2>1, <2>2, PowerMonotone
  <2> QED BY <2>1, <2>2, <2>3, <2>4
<1>8. j + k <= m
  BY <1>5, <1>7
<1>9. n * 2 ^ k <= MaxBuffer
  <2>1. PICK p \in Nat : p = 2 ^ (j + k)
    BY <1>5, PowerType
  <2>2. PICK q \in Nat : q = 2 ^ m
    BY PowerType
  <2>3. p <= q
    BY <1>5, <1>8, <2>1, <2>2, PowerMonotone
  <2>4. i * p <= i * q
    BY <1>3, <2>1, <2>2, <2>3
  <2>5. n * 2 ^ k = i * p
    BY <1>4, <2>1
  <2> QED BY <1>2, <1>3, <2>2, <2>4, <2>5
<1>10. n * 2 ^ k \in DoubledSizes
  <2>1. n * 2 ^ k = InitialSize * 2 ^ (j + k)
    BY <1>3, <1>4
  <2> QED BY <1>5, <2>1, Zenon DEF DoubledSizes
<1> QED BY <1>9, <1>10

LEMMA InitRoom == Init => RoomInv
<1> SUFFICES ASSUME Init PROVE RoomInv
  OBVIOUS
<1>1. Len(buffer) = 0 /\ size = InitialSize
  BY EmptySeq DEF Init
<1>2. InitialSize >= 0 /\ 0 <= MaxInput
  BY WriteToFdAssumption
<1>3. Flags
  BY Zenon DEF Init, Flags
<1> QED BY <1>1, <1>2, <1>3, SizesAreNumbers DEF Init, RoomInv

\* What the action passes is in the buffer, or counted as written.
LEMMA CallKeepsRoom ==
    ASSUME IInv, RoomInv, NEW len \in Nat,
           CallStores(len) \/ CallGrows(len) \/ CallSends(len)
    PROVE  RoomInv'
<1>1. /\ Call(len) /\ Passed(len) \in Bytes /\ buffer \in Bytes
      /\ taken \in Nat /\ taken' = taken + len /\ taken' <= MaxInput
      /\ UNCHANGED <<nonblocking, gone, room>>
  <2>1. Call(len)
    BY DEF CallStores, CallGrows, CallSends
  <2>2. taken \in Nat /\ taken' = taken + len
    BY <2>1 DEF Call, IInv, Types
  <2>3. Passed(len) \in Bytes
    BY <2>2, InputGrows
  <2> QED BY <2>1, <2>2, <2>3 DEF Call, IInv, Types, fd
<1>2. Len(buffer \o Passed(len)) = Len(buffer) + len
  <2>1. Len(Passed(len)) = len
    BY DEF Passed
  <2>2. Len(buffer \o Passed(len)) = Len(buffer) + Len(Passed(len))
    BY <1>1, ConcatProperties DEF Bytes
  <2> QED BY <2>1, <2>2
<1>3. Len(buffer) \in Nat /\ size \in Nat
  BY <1>1, LenProperties, SizesAreNumbers DEF Bytes, RoomInv
<1>4. CASE CallStores(len)
  <2>1. UNCHANGED <<size, written, polled>> /\ Len(buffer') <= size
    BY <1>2, <1>4 DEF CallStores
  <2>2. written \in Nat /\ written <= taken'
    BY <1>1 DEF RoomInv, IInv, Types
  <2>3. Flags'
    BY <1>1, <2>1, Zenon DEF RoomInv, Flags
  <2> QED BY <1>1, <2>1, <2>2, <2>3 DEF RoomInv
<1>5. CASE CallGrows(len)
  <2>1. PICK k \in 1..MaxBuffer :
          /\ size' = size * 2 ^ k /\ size' >= Len(buffer) + len
          /\ size * 2 ^ (k - 1) < Len(buffer) + len
    BY <1>5, Zenon DEF CallGrows
  <2>2. Len(buffer) + len <= MaxBuffer /\ k \in Nat \ {0} /\ MaxBuffer \in Nat
    BY <1>5, <2>1, SizesAreNumbers DEF CallGrows
  <2>3. size * 2 ^ (k - 1) < MaxBuffer
    <3>1. PICK p \in Nat : p = 2 ^ (k - 1)
      BY <2>2, PowerType
    <3> QED BY <1>3, <2>1, <2>2, <3>1
  <2>4. size' \in DoubledSizes /\ size' <= MaxBuffer
    <3>1. size \in DoubledSizes
      BY DEF RoomInv
    <3> QED BY <2>1, <2>2, <2>3, <3>1, GrownSize
  <2>5. UNCHANGED <<written, polled>> /\ Len(buffer') <= size'
    BY <1>2, <1>5, <2>1 DEF CallGrows
  <2>6. written \in Nat /\ written <= taken'
    BY <1>1 DEF RoomInv, IInv, Types
  <2>7. Flags'
    BY <1>1, <2>5, Zenon DEF RoomInv, Flags
  <2> QED BY <1>1, <2>4, <2>5, <2>6, <2>7 DEF RoomInv
<1>6. CASE CallSends(len)
  <2>1. UNCHANGED <<buffer, size>> /\ polled' = FALSE /\ pc' = "send"
    BY <1>6 DEF CallSends
  <2>2. IInv'
    BY <1>6, CallSendsInvariant
  <2>3. written' = taken'
    BY <2>1, <2>2 DEF IInv, Counted
  <2>4. Flags'
    BY <1>1, <2>1, Zenon DEF RoomInv, Flags
  <2> QED BY <1>1, <2>1, <2>3, <2>4 DEF RoomInv
<1> QED BY <1>4, <1>5, <1>6

LEMMA TakeKeepsRoom ==
    ASSUME IInv, RoomInv, NEW n \in Nat,
           TakeFromBoth(n) \/ TakeFromData(n) \/ TakeFromBuffer(n)
    PROVE  RoomInv'
<1>1. /\ Take(n) /\ UNCHANGED <<taken, size, nonblocking, written, gone>>
      /\ polled' = FALSE /\ n <= room /\ room' = room - n
  BY DEF TakeFromBoth, TakeFromData, TakeFromBuffer, Take
<1>2. room' \in 0..Pipe
  BY <1>1, WriteToFdAssumption DEF RoomInv
<1>3. Len(buffer') <= Len(buffer) /\ Len(buffer) \in Nat
  <2>1. buffer \in Bytes /\ Len(buffer) \in Nat
    BY LenProperties DEF IInv, Types, Bytes
  <2>2. CASE buffer' = <<>>
    <3>1. Len(buffer') = 0
      BY <2>2, EmptySeq
    <3> QED BY <2>1, <3>1
  <2>3. CASE buffer' = buffer
    BY <2>1, <2>3
  <2>4. CASE pc = "flush" /\ buffer' = Dropped(buffer, n)
    <3>1. n \in 0..Len(buffer)
      BY <1>1, <2>1, <2>4 DEF Take, Unsent
    <3>2. Len(buffer') = Len(buffer) - n
      BY <2>1, <2>4, <3>1, Cut
    <3> QED BY <2>1, <3>1, <3>2
  <2> QED BY <2>1, <2>2, <2>3, <2>4 DEF TakeFromBoth, TakeFromData, TakeFromBuffer
<1>4. size \in Nat /\ Len(buffer') \in Nat
  <2>1. buffer' \in Bytes
    <3>1. IInv'
      BY TakeFromBothInvariant, TakeFromDataInvariant, TakeFromBufferInvariant
    <3> QED BY <3>1 DEF IInv, Types
  <2> QED BY <2>1, LenProperties, SizesAreNumbers DEF RoomInv, Bytes
<1>5. Len(buffer') <= size
  BY <1>3, <1>4 DEF RoomInv
<1>6. Flags'
  BY <1>1, Zenon DEF RoomInv, Flags
<1> QED BY <1>1, <1>2, <1>5, <1>6 DEF RoomInv

LEMMA NextRoom == IInv /\ RoomInv /\ [Next]_vars => RoomInv'
<1> SUFFICES ASSUME IInv, RoomInv, [Next]_vars PROVE RoomInv'
  OBVIOUS
<1>1. CASE Start \/ ActionFails \/ PollBroken \/ WriteFails \/ Finish
  BY <1>1 DEF Start, ActionFails, PollBroken, WriteFails, Finish, Return, RoomInv, Flags, state, fd
<1>2. ASSUME NEW len \in 0..MaxInput, CallStores(len) \/ CallGrows(len) \/ CallSends(len)
      PROVE  RoomInv'
  BY <1>2, CallKeepsRoom, WriteToFdAssumption
<1>3. CASE ActionEnds
  <2>1. /\ UNCHANGED <<taken, buffer, size, nonblocking, room, gone>>
        /\ polled' = FALSE /\ pc' = "flush"
    BY <1>3 DEF ActionEnds, fd
  <2>2. IInv'
    BY <1>3, ActionEndsInvariant
  <2>3. written' = taken' /\ taken \in Nat
    BY <2>1, <2>2 DEF IInv, Counted, Types
  <2>4. Flags'
    BY <2>1, Zenon DEF RoomInv, Flags
  <2> QED BY <2>1, <2>3, <2>4 DEF RoomInv
<1>4. CASE PollWritable \/ WriteInterrupted \/ WriteWouldBlock
  BY <1>4 DEF PollWritable, WriteInterrupted, WriteWouldBlock, RoomInv, Flags, state, fd
<1>5. ASSUME NEW n \in 1..Pipe, TakeFromBoth(n) \/ TakeFromData(n) \/ TakeFromBuffer(n)
      PROVE  RoomInv'
  <2>1. n \in Nat
    BY WriteToFdAssumption
  <2> QED BY <1>5, <2>1, TakeKeepsRoom
<1>6. CASE MakeRoom
  <2>1. room' \in 0..Pipe
    BY <1>6, WriteToFdAssumption DEF MakeRoom, RoomInv
  <2> QED BY <1>6, <2>1 DEF MakeRoom, RoomInv, Flags, state, locals
<1>7. CASE GoAway
  BY <1>7 DEF GoAway, RoomInv, Flags, state, locals
<1>8. CASE UNCHANGED vars
  BY <1>8 DEF vars, RoomInv, Flags, state, locals, fd
<1> QED BY <1>1, <1>2, <1>3, <1>4, <1>5, <1>6, <1>7, <1>8 DEF Next, CallNext, WriteTakes

(***************************************************************************)
(* However much is passed at a time, the buffer has room for what is in it *)
(* and never grows past its limit, and no more is counted as written than  *)
(* was passed.                                                             *)
(***************************************************************************)
THEOREM BufferHasRoom == Spec => []TypeOK
<1>1. IInv /\ RoomInv => TypeOK
  <2> SUFFICES ASSUME IInv, RoomInv PROVE TypeOK
    OBVIOUS
  <2>1. taken \in Nat /\ written \in Nat /\ MaxInput \in Nat
    BY WriteToFdAssumption DEF IInv, Types
  <2>2. taken \in 0..MaxInput /\ written \in 0..MaxInput
    BY <2>1 DEF RoomInv
  <2> QED BY <2>2 DEF TypeOK, IInv, Types, RoomInv, Flags
<1> QED BY <1>1, InitInvariant, NextInvariant, InitRoom, NextRoom, PTL DEF Spec

-----------------------------------------------------------------------------
(***************************************************************************)
(* Every kind of output                                                    *)
(***************************************************************************)

Steps == {"call", "fd", "sync", "map", "first", "second", "read", "returned"}

OutputTypes ==
    /\ target \in Targets /\ step \in Steps
    /\ counted \in Nat /\ total \in Nat /\ block_size \in Nat

\* Which steps there are for which target.
StepsOfTarget ==
    /\ step \in {"fd", "sync", "map"} => ByDescriptor
    /\ step \in {"first", "second"} => target \in {"malloc", "FILE", "bytecounter"}
    /\ step = "second" => target = "malloc" /\ block_size = total
    /\ target = "FILE" /\ step # "returned" => held = {}
    /\ step = "call" => counted = 0

\* As much of what the action has passed in this run as there is room for.
Fitting == IF counted <= block_size THEN counted ELSE block_size

MemoryHolds ==
    /\ target = "malloc" => memory = InputOf(Fitting)
    /\ target = "FILE" /\ answer \in {"running", "ok"} => memory = InputOf(counted)

\* What the caller has been given, and nothing else, is held.
GivenIsHeld ==
    \/ given = <<>> /\ held = {}
    \/ \E bytes, count, resource :
         /\ given = <<[bytes |-> bytes, size |-> count]>> /\ held = {resource}
         /\ target # "read" => bytes = Produced /\ count = Len(Produced)

(***************************************************************************)
(* The inductive invariant, beside that of WriteToFd.                      *)
(***************************************************************************)
OutputInv ==
    /\ OutputTypes
    /\ StepsOfTarget
    /\ step # "returned" => answer = "running" /\ given = <<>>
    /\ step \in {"sync", "map"} => file = Input /\ written = Len(Input)
    /\ MemoryHolds
    /\ answer = "ok" => Stored = Produced
    /\ step = "returned" => GivenIsHeld

-----------------------------------------------------------------------------
(***************************************************************************)
(* Memory                                                                  *)
(***************************************************************************)
LEMMA MinOfTwo ==
    ASSUME NEW a \in Int, NEW b \in Int
    PROVE  Min({a, b}) = IF a <= b THEN a ELSE b
<1> DEFINE Least(x) == x \in {a, b} /\ \A y \in {a, b} : x =< y
<1>1. Least(IF a <= b THEN a ELSE b)
  OBVIOUS
<1>2. \A x, y : Least(x) /\ Least(y) => x = y
  OBVIOUS
<1>3. Least(Min({a, b}))
  BY <1>1 DEF Min
<1> QED BY <1>1, <1>2, <1>3

LEMMA InputOfIsSequence ==
    ASSUME NEW n \in Nat
    PROVE  InputOf(n) \in Bytes /\ Len(InputOf(n)) = n
BY DEF InputOf, Bytes

\* What the callback adds to the block is what fits of what it is given.
LEMMA BlockFilled ==
    ASSUME OutputTypes, NEW len \in Nat, memory = InputOf(Fitting),
           memory' = memory \o Numbered(Min({len, block_size - counted})),
           counted' = counted + len, block_size' = block_size
    PROVE  memory' = InputOf(Fitting')
<1> USE DEF OutputTypes
<1>1. Min({len, block_size - counted})
        = IF len <= block_size - counted THEN len ELSE block_size - counted
  BY MinOfTwo
<1>2. CASE counted <= block_size
  <2>1. PICK k \in Nat : /\ k = Min({len, block_size - counted})
                         /\ Fitting' = counted + k
    BY <1>1, <1>2 DEF Fitting
  <2>2. Fitting = counted
    BY <1>2 DEF Fitting
  <2>3. Numbered(k) = [i \in 1..k |-> counted + i]
    BY DEF Numbered
  <2>4. InputOf(counted + k) = InputOf(counted) \o Numbered(k)
    BY <2>3, InputOfGrows
  <2> QED BY <2>1, <2>2, <2>4
<1>3. CASE counted > block_size
  <2>1. Fitting = block_size /\ Fitting' = block_size
    BY <1>3 DEF Fitting
  <2>2. Min({len, block_size - counted}) = block_size - counted
    BY <1>1, <1>3
  <2>3. 1..(block_size - counted) = {}
    BY <1>3
  <2>4. Numbered(block_size - counted) = [i \in 1..0 |-> block_size + i]
    <3>1. 1..0 = {}
      OBVIOUS
    <3>2. [i \in {} |-> counted + i] = [i \in {} |-> block_size + i]
      OBVIOUS
    <3> QED BY <2>3, <3>1, <3>2, Zenon DEF Numbered
  <2>5. InputOf(block_size + 0) = InputOf(block_size) \o Numbered(block_size - counted)
    BY <2>4, InputOfGrows
  <2>6. block_size + 0 = block_size
    OBVIOUS
  <2>7. memory' = InputOf(block_size) \o Numbered(block_size - counted)
    BY <2>1, <2>2
  <2>8. memory' = InputOf(block_size)
    BY <2>5, <2>6, <2>7
  <2> QED BY <2>1, <2>8
<1>4. counted <= block_size \/ counted > block_size
  OBVIOUS
<1> QED BY <1>2, <1>3, <1>4, Zenon

-----------------------------------------------------------------------------
(***************************************************************************)
(* The steps                                                               *)
(***************************************************************************)
LEMMA OutputInitInvariant == OutputInit => OutputInv
<1> SUFFICES ASSUME OutputInit PROVE OutputInv
  OBVIOUS
<1>1. InputOf(0) = <<>>
  BY InputOfIsSequence, EmptySeq DEF Bytes
<1>2. OutputTypes /\ StepsOfTarget
  BY DEF OutputInit, OutputTypes, StepsOfTarget, Targets, Steps, ByDescriptor
<1>3. MemoryHolds
  BY <1>1 DEF OutputInit, MemoryHolds, Fitting
<1> QED BY <1>2, <1>3 DEF OutputInit, OutputInv

\* A call that returns and gives nothing to the caller.
LEMMA FailsInvariant ==
    ASSUME OutputInv, NEW error, Fails(error), step # "returned",
           UNCHANGED <<file, taken>>,
           error = "ok" => Stored = Produced
    PROVE  OutputInv'
<1>1. /\ UNCHANGED <<target, memory, block_size, counted, total>>
      /\ step' = "returned" /\ answer' = error /\ held' = {} /\ given' = <<>>
      /\ answer = "running"
  BY DEF Fails, Returns, run_vars, OutputInv
<1>2. OutputTypes' /\ StepsOfTarget'
  BY <1>1 DEF OutputInv, OutputTypes, StepsOfTarget, Steps
<1>3. MemoryHolds'
  BY <1>1 DEF OutputInv, MemoryHolds, Fitting
<1>4. Stored' = Stored /\ Produced' = Produced
  BY <1>1 DEF Stored, Produced, ByDescriptor, Input
<1>5. GivenIsHeld'
  BY <1>1 DEF GivenIsHeld
<1> QED BY <1>1, <1>2, <1>3, <1>4, <1>5 DEF OutputInv

\* A call that gives something to the caller.
LEMMA GivesInvariant ==
    ASSUME OutputInv, NEW bytes, NEW count, NEW resource,
           Gives(bytes, count, resource), step # "returned",
           UNCHANGED <<file, taken>>,
           Stored = Produced,
           target # "read" => bytes = Produced /\ count = Len(Produced)
    PROVE  OutputInv'
<1>1. /\ UNCHANGED <<target, memory, block_size, counted, total>>
      /\ step' = "returned" /\ answer' = "ok" /\ held' = {resource}
      /\ given' = <<[bytes |-> bytes, size |-> count]>>
      /\ answer = "running"
  BY DEF Gives, Returns, run_vars, OutputInv
<1>2. OutputTypes' /\ StepsOfTarget'
  BY <1>1 DEF OutputInv, OutputTypes, StepsOfTarget, Steps
<1>3. MemoryHolds'
  BY <1>1 DEF OutputInv, MemoryHolds, Fitting
<1>4. Stored' = Stored /\ Produced' = Produced
  BY <1>1 DEF Stored, Produced, ByDescriptor, Input
<1>5. GivenIsHeld'
  BY <1>1, <1>4 DEF GivenIsHeld
<1> QED BY <1>1, <1>2, <1>3, <1>4, <1>5 DEF OutputInv

\* Steps that neither return nor touch the run of the action.
LEMMA GoesOnInvariant ==
    ASSUME OutputInv, step # "returned", step' \in Steps \ {"returned"},
           UNCHANGED <<target, memory, block_size, counted, total, given, answer>>,
           StepsOfTarget',
           step' \in {"sync", "map"} => file' = Input' /\ written' = Len(Input')
    PROVE  OutputInv'
<1>1. OutputTypes'
  BY DEF OutputInv, OutputTypes
<1>2. MemoryHolds'
  BY DEF OutputInv, MemoryHolds, Fitting
<1> QED BY <1>1, <1>2 DEF OutputInv

LEMMA PassInvariant ==
    ASSUME OutputInv, NEW len \in Nat, Passes(len),
           MemoryHolds'
    PROVE  OutputInv'
<1>1. /\ step \in {"first", "second"} /\ counted' = counted + len
      /\ UNCHANGED <<target, step, held, block_size, total, given, answer>>
  BY DEF Passes
<1>2. OutputTypes' /\ StepsOfTarget'
  BY <1>1 DEF OutputInv, OutputTypes, StepsOfTarget, ByDescriptor
<1>3. answer = "running"
  BY <1>1 DEF OutputInv
<1> QED BY <1>1, <1>2, <1>3 DEF OutputInv

LEMMA ActionPassesInvariant ==
    ASSUME OutputInv, NEW len \in Nat,
           PassToBlock(len) \/ PassToFILE(len) \/ Count(len)
    PROVE  OutputInv'
<1>1. CASE PassToBlock(len)
  <2>1. Passes(len) /\ target = "malloc" /\ target' = target
    BY <1>1 DEF PassToBlock, Passes
  <2>2. memory' = InputOf(Fitting')
    BY <1>1, BlockFilled DEF PassToBlock, Passes, OutputInv, MemoryHolds
  <2>3. MemoryHolds'
    BY <2>1, <2>2 DEF MemoryHolds
  <2> QED BY <2>1, <2>3, PassInvariant
<1>2. CASE PassToFILE(len)
  <2>1. /\ Passes(len) /\ target = "FILE" /\ target' = target
        /\ answer' = "running" /\ answer = "running" /\ counted \in Nat
        /\ counted' = counted + len /\ memory' = memory \o Numbered(len)
    BY <1>2 DEF PassToFILE, Passes, OutputInv, OutputTypes
  <2>2. memory = InputOf(counted)
    BY <2>1 DEF OutputInv, MemoryHolds
  <2>3. Numbered(len) = [i \in 1..len |-> counted + i]
    BY DEF Numbered
  <2>4. InputOf(counted + len) = InputOf(counted) \o Numbered(len)
    BY <2>1, <2>3, InputOfGrows
  <2>5. MemoryHolds'
    BY <2>1, <2>2, <2>4 DEF MemoryHolds
  <2> QED BY <2>1, <2>5, PassInvariant
<1>3. CASE Count(len)
  <2>1. Passes(len) /\ target = "bytecounter" /\ target' = target
    BY <1>3 DEF Count, Passes
  <2>2. MemoryHolds'
    BY <2>1 DEF MemoryHolds
  <2> QED BY <2>1, <2>2, PassInvariant
<1> QED BY <1>1, <1>2, <1>3

LEMMA FILEFailsInvariant ==
    ASSUME OutputInv, NEW len \in Nat, FILEFails(len)
    PROVE  OutputInv'
<1>1. /\ target = "FILE" /\ step = "first" /\ step' = "returned" /\ answer' = "system"
      /\ counted' = counted + len /\ held = {} /\ given = <<>>
      /\ UNCHANGED <<target, held, block_size, total, given>>
  BY DEF FILEFails, At, OutputInv, StepsOfTarget
<1>2. OutputTypes' /\ StepsOfTarget'
  BY <1>1 DEF OutputInv, OutputTypes, StepsOfTarget, Steps
<1>3. MemoryHolds' /\ GivenIsHeld'
  BY <1>1 DEF MemoryHolds, GivenIsHeld
<1> QED BY <1>1, <1>2, <1>3 DEF OutputInv

\* The second run starts with an empty block.
LEMMA RunAgainInvariant ==
    ASSUME OutputInv, RunAgain
    PROVE  OutputInv'
<1>1. /\ target = "malloc" /\ step = "first" /\ answer = "running" /\ given = <<>>
      /\ UNCHANGED vars
  BY DEF RunAgain, RunEnds, OutputInv
<1>2. CASE Fails("system")
  BY <1>1, <1>2, FailsInvariant DEF vars, state, fd
<1>3. CASE ~Fails("system")
  <2>1. /\ step' = "second" /\ memory' = <<>> /\ block_size' = counted
        /\ counted' = 0 /\ total' = counted
        /\ UNCHANGED <<target, held, given, answer>>
    BY <1>3 DEF RunAgain
  <2>2. OutputTypes' /\ StepsOfTarget'
    BY <1>1, <2>1 DEF OutputInv, OutputTypes, StepsOfTarget, Steps
  <2>3. InputOf(0) = <<>>
    BY InputOfIsSequence, EmptySeq DEF Bytes
  <2>4. Fitting' = 0
    BY <2>1 DEF Fitting, OutputInv, OutputTypes
  <2>5. MemoryHolds'
    BY <1>1, <2>1, <2>3, <2>4 DEF MemoryHolds
  <2> QED BY <1>1, <2>1, <2>2, <2>5 DEF OutputInv
<1> QED BY <1>2, <1>3

\* All that the action has passed fits: in the first run by what is asked, in
\* the second because the block is as large as the first run has been.
LEMMA BlockGiven ==
    ASSUME OutputInv, target = "malloc", counted <= block_size
    PROVE  Stored = Produced /\ memory = Produced /\ counted = Len(Produced)
<1>1. memory = InputOf(counted)
  BY DEF OutputInv, MemoryHolds, Fitting
<1>2. Produced = InputOf(counted)
  BY DEF Produced, ByDescriptor, InputOf
<1>3. Stored = memory
  BY DEF Stored, ByDescriptor
<1>4. Len(InputOf(counted)) = counted
  BY InputOfIsSequence DEF OutputInv, OutputTypes
<1> QED BY <1>1, <1>2, <1>3, <1>4

LEMMA FdEndsInvariant ==
    ASSUME IInv, OutputInv, FdEnds
    PROVE  OutputInv'
<1>1. step = "fd" /\ ByDescriptor /\ answer = "running" /\ UNCHANGED vars
  BY DEF FdEnds, OutputInv, StepsOfTarget
<1>2. UNCHANGED <<taken, written, file>>
  BY <1>1 DEF vars, state, fd
<1>3. ret = "ok" => file = Input /\ written = Len(Input)
  BY InputProperties DEF IInv, Types, Complete
<1>4. CASE ret = "ok" /\ target # "fd"
  <2>1. /\ step' = (IF target = "filename" THEN "sync" ELSE "map")
        /\ UNCHANGED <<target, held, memory, block_size, counted, total, given, answer>>
    BY <1>4 DEF FdEnds, run_vars
  <2>2. step' \in {"sync", "map"}
    BY <2>1
  <2>3. ByDescriptor' /\ target # "FILE"
    BY <1>1, <2>1 DEF ByDescriptor
  <2>4. StepsOfTarget'
    BY <2>1, <2>2, <2>3 DEF StepsOfTarget
  <2>5. Input' = Input
    BY <1>2 DEF Input
  <2>6. file' = Input' /\ written' = Len(Input')
    BY <1>2, <1>3, <1>4, <2>5
  <2>7. step' \in Steps \ {"returned"} /\ step # "returned"
    BY <1>1, <2>2 DEF Steps
  <2> QED BY <2>1, <2>4, <2>6, <2>7, GoesOnInvariant
<1>5. CASE ~(ret = "ok" /\ target # "fd")
  <2>1. Fails(ret)
    BY <1>5 DEF FdEnds
  <2>2. ret = "ok" => Stored = Produced
    BY <1>1, <1>3 DEF Stored, Produced, ByDescriptor
  <2> QED BY <1>1, <1>2, <2>1, <2>2, FailsInvariant
<1> QED BY <1>4, <1>5

\* What the caller has been given does not change while it has it, and it may
\* release it.
LEMMA ReleaseInvariant ==
    ASSUME OutputInv, CallerReleases
    PROVE  OutputInv'
<1>1. /\ given # <<>> /\ held' = {} /\ given' = <<>>
      /\ UNCHANGED <<target, step, memory, block_size, counted, total, answer, file, taken, written>>
  BY DEF CallerReleases, run_vars, vars, state, fd
<1>2. step = "returned"
  BY <1>1 DEF OutputInv
<1>3. OutputTypes' /\ StepsOfTarget' /\ MemoryHolds' /\ GivenIsHeld'
  BY <1>1, <1>2 DEF OutputInv, OutputTypes, StepsOfTarget, MemoryHolds, Fitting, GivenIsHeld, ByDescriptor
<1>4. Stored' = Stored /\ Produced' = Produced
  BY <1>1 DEF Stored, Produced, ByDescriptor, Input
<1> QED BY <1>1, <1>2, <1>3, <1>4 DEF OutputInv

\* Steps of the file descriptor and of its reader.
LEMMA DescriptorInvariant ==
    ASSUME OutputInv, UNCHANGED output_vars,
           step = "fd" \/ UNCHANGED <<file, taken, written>>
    PROVE  OutputInv'
<1>1. UNCHANGED <<target, step, held, memory, block_size, counted, total, given, answer>>
  BY DEF output_vars
<1>2. OutputTypes' /\ StepsOfTarget' /\ MemoryHolds'
  BY <1>1 DEF OutputInv, OutputTypes, StepsOfTarget, MemoryHolds, Fitting, ByDescriptor
<1>3. CASE step = "fd"
  BY <1>1, <1>2, <1>3 DEF OutputInv
<1>4. CASE UNCHANGED <<file, taken, written>>
  <2>1. Stored' = Stored /\ Produced' = Produced /\ Input' = Input
    BY <1>1, <1>4 DEF Stored, Produced, ByDescriptor, Input
  <2>2. GivenIsHeld => GivenIsHeld'
    BY <1>1, <2>1 DEF GivenIsHeld
  <2> QED BY <1>1, <1>2, <1>4, <2>1, <2>2 DEF OutputInv
<1> QED BY <1>3, <1>4

LEMMA OutputNextInvariant ==
    ASSUME IInv, OutputInv, OutputNext
    PROVE  OutputInv'
<1> USE DEF OutputNext
<1>1. CASE NullParameter
  <2>1. Fails("parameter_is_null") /\ step # "returned" /\ UNCHANGED <<file, taken>>
    BY <1>1 DEF NullParameter, vars, state, fd
  <2> QED BY <2>1, FailsInvariant
<1>2. CASE OpenFile
  <2>1. step # "returned" /\ UNCHANGED <<file, taken>>
    BY <1>2 DEF OpenFile, vars, state, fd
  <2>2. CASE Fails("system")
    BY <2>1, <2>2, FailsInvariant
  <2>3. CASE ~Fails("system")
    <3>1. /\ target \in {"filename", "tempfile", "read"}
          /\ step' = (IF target = "read" THEN "read" ELSE "fd")
          /\ UNCHANGED <<target, memory, block_size, counted, total, given, answer>>
      BY <1>2, <2>3 DEF OpenFile, run_vars
    <3>2. StepsOfTarget'
      BY <3>1 DEF StepsOfTarget, ByDescriptor
    <3>3. step' \in {"read", "fd"}
      BY <3>1
    <3> QED BY <2>1, <3>1, <3>2, <3>3, GoesOnInvariant DEF Steps
  <2> QED BY <2>2, <2>3
<1>3. CASE FdEnds
  BY <1>3, FdEndsInvariant
<1>4. CASE Sync
  <2>1. /\ step = "sync" /\ UNCHANGED <<file, taken>>
        /\ \E error \in {"ok", "system"} : Fails(error)
    BY <1>4 DEF Sync, At, vars, state, fd
  <2>2. Stored = Produced
    BY <2>1 DEF OutputInv, StepsOfTarget, Stored, Produced, ByDescriptor
  <2> QED BY <2>1, <2>2, FailsInvariant
<1>5. CASE Map
  <2>1. /\ step = "map" /\ UNCHANGED <<file, taken>>
        /\ \/ Gives(file, written, "mapping")
           \/ \E error \in {"system", "unsupported_feature"} : Fails(error)
    BY <1>5 DEF Map, At, vars, state, fd
  <2>2. Stored = Produced /\ file = Produced /\ written = Len(Produced)
    BY <2>1 DEF OutputInv, StepsOfTarget, Stored, Produced, ByDescriptor
  <2>3. CASE Gives(file, written, "mapping")
    BY <2>1, <2>2, <2>3, GivesInvariant
  <2>4. CASE \E error \in {"system", "unsupported_feature"} : Fails(error)
    BY <2>1, <2>2, <2>4, FailsInvariant
  <2> QED BY <2>1, <2>3, <2>4
<1>6. CASE StartRun
  <2>1. /\ step = "call" /\ target \in {"FILE", "malloc", "bytecounter"}
        /\ UNCHANGED <<file, taken>> /\ answer = "running"
    BY <1>6 DEF StartRun, vars, state, fd, OutputInv
  <2>2. CASE Fails("system")
    BY <2>1, <2>2, FailsInvariant
  <2>3. CASE ~Fails("system")
    <3>1. /\ step' = "first" /\ UNCHANGED <<target, memory, counted, total, given, answer>>
          /\ IF target = "malloc" THEN block_size' = InitialSize
                                  ELSE UNCHANGED <<held, block_size>>
      BY <1>6, <2>3 DEF StartRun
    <3>2. OutputTypes'
      BY <3>1, WriteToFdAssumption DEF OutputInv, OutputTypes, Steps
    <3>3. StepsOfTarget'
      BY <2>1, <3>1 DEF OutputInv, StepsOfTarget, ByDescriptor
    <3>4. Fitting = 0 /\ Fitting' = 0 /\ counted = 0 /\ counted' = 0
      BY <2>1, <3>1, WriteToFdAssumption DEF OutputInv, OutputTypes, StepsOfTarget, Fitting
    <3>5. MemoryHolds'
      BY <3>1, <3>4 DEF OutputInv, MemoryHolds
    <3> QED BY <2>1, <3>1, <3>2, <3>3, <3>5 DEF OutputInv
  <2> QED BY <2>2, <2>3
<1>7. CASE RunFails
  <2>1. Fails("action") /\ step # "returned" /\ UNCHANGED <<file, taken>>
    BY <1>7 DEF RunFails, vars, state, fd
  <2> QED BY <2>1, FailsInvariant
<1>8. CASE BlockFits
  <2>1. /\ target = "malloc" /\ step = "first" /\ UNCHANGED <<file, taken>>
        /\ counted <= block_size /\ Gives(memory, counted, "block")
    BY <1>8 DEF BlockFits, RunEnds, vars, state, fd
  <2> QED BY <2>1, BlockGiven, GivesInvariant
<1>9. CASE RunAgain
  BY <1>9, RunAgainInvariant
<1>10. CASE SecondRunEnds
  <2>1. /\ target = "malloc" /\ step = "second" /\ UNCHANGED <<file, taken>>
        /\ counted <= block_size /\ Gives(memory, counted, "block")
    BY <1>10 DEF SecondRunEnds, RunEnds, vars, state, fd, OutputInv, OutputTypes, StepsOfTarget
  <2> QED BY <2>1, BlockGiven, GivesInvariant
<1>11. CASE OtherRunEnds
  <2>1. /\ target \in {"FILE", "bytecounter"} /\ step = "first"
        /\ UNCHANGED <<file, taken>> /\ Fails("ok") /\ answer = "running"
    BY <1>11 DEF OtherRunEnds, RunEnds, vars, state, fd, OutputInv
  <2>2. Produced = InputOf(counted)
    BY <2>1 DEF Produced, ByDescriptor, InputOf
  <2>3. Stored = Produced
    BY <2>1, <2>2 DEF Stored, ByDescriptor, OutputInv, MemoryHolds
  <2> QED BY <2>1, <2>3, FailsInvariant
<1>12. CASE \E len \in 0..MaxInput :
              PassToBlock(len) \/ PassToFILE(len) \/ Count(len) \/ FILEFails(len)
  <2>1. PICK len \in Nat :
          PassToBlock(len) \/ PassToFILE(len) \/ Count(len) \/ FILEFails(len)
    BY <1>12, WriteToFdAssumption
  <2> QED BY <2>1, ActionPassesInvariant, FILEFailsInvariant
<1>13. CASE NotMapped
  <2>1. /\ step = "read" /\ UNCHANGED <<file, taken>>
        /\ \E error \in {"system", "file_format_error", "out_of_virtual_memory"} : Fails(error)
    BY <1>13 DEF NotMapped, At, vars, state, fd
  <2> QED BY <2>1, FailsInvariant
<1>14. CASE MapDocument
  <2>1. /\ target = "read" /\ step = "read" /\ step' = step
        /\ UNCHANGED <<target, memory, block_size, counted, total, given, answer>>
    BY <1>14 DEF MapDocument, At, run_vars
  <2>2. StepsOfTarget'
    BY <2>1 DEF StepsOfTarget, ByDescriptor
  <2> QED BY <2>1, <2>2, GoesOnInvariant DEF Steps
<1>15. CASE DocumentRead
  <2>1. /\ target = "read" /\ step = "read" /\ UNCHANGED <<file, taken>>
        /\ \E error \in {"ok", "action", "parameter_is_null", "unsupported_feature"} : Fails(error)
    BY <1>15 DEF DocumentRead, At, vars, state, fd
  <2>2. Stored = Produced
    BY <2>1 DEF Stored, ByDescriptor
  <2> QED BY <2>1, <2>2, FailsInvariant
<1>16. CASE DocumentOpened
  <2>1. /\ target = "read" /\ step = "read" /\ UNCHANGED <<file, taken>>
        /\ Gives(<<>>, 0, "mapping")
    BY <1>16 DEF DocumentOpened, At, vars, state, fd
  <2>2. Stored = Produced
    BY <2>1 DEF Stored, ByDescriptor
  <2> QED BY <2>1, <2>2, GivesInvariant
<1>17. CASE CallerReleases
  BY <1>17, ReleaseInvariant
<1> QED
  BY <1>1, <1>2, <1>3, <1>4, <1>5, <1>6, <1>7, <1>8, <1>9, <1>10, <1>11, <1>12,
     <1>13, <1>14, <1>15, <1>16, <1>17

\* The descriptor's own steps are those of WriteToFd.
LEMMA StepsAreNext ==
    ASSUME [OutputNext \/ FdRuns \/ PipeMoves]_<<output_vars, vars>>
    PROVE  [Next]_vars
<1>1. OutputNext => UNCHANGED vars
  BY DEF OutputNext, NullParameter, OpenFile, FdEnds, Sync, Map, StartRun, RunFails,
         BlockFits, RunAgain, SecondRunEnds, OtherRunEnds, RunEnds, PassToBlock,
         PassToFILE, Count, FILEFails, NotMapped, MapDocument, DocumentRead,
         DocumentOpened, CallerReleases
<1>2. FdRuns \/ PipeMoves => Next
  BY DEF FdRuns, PipeMoves, Next
<1> QED BY <1>1, <1>2

LEMMA OutputStepInvariant ==
    ASSUME IInv, OutputInv, [OutputNext \/ FdRuns \/ PipeMoves]_<<output_vars, vars>>
    PROVE  OutputInv'
<1>1. CASE OutputNext
  BY <1>1, OutputNextInvariant
<1>2. CASE FdRuns
  BY <1>2, DescriptorInvariant DEF FdRuns
<1>3. CASE PipeMoves
  BY <1>3, DescriptorInvariant DEF PipeMoves, MakeRoom, GoAway, state
<1>4. CASE UNCHANGED <<output_vars, vars>>
  BY <1>4, DescriptorInvariant DEF vars, state, fd
<1> QED BY <1>1, <1>2, <1>3, <1>4

-----------------------------------------------------------------------------
(***************************************************************************)
(* Whatever fails, a call that has returned holds only what the caller has *)
(* been given, and what it has been given is everything that the action    *)
(* has passed, with its size, whether the action was run once or twice.    *)
(***************************************************************************)
THEOREM EveryOutputIsComplete == OutputSpec => []OutputsComplete
<1>1. OutputInit => IInv /\ OutputInv
  BY InitInvariant, OutputInitInvariant DEF OutputInit
<1>2. /\ IInv /\ OutputInv
      /\ [OutputNext \/ FdRuns \/ PipeMoves]_<<output_vars, vars>>
      => IInv' /\ OutputInv'
  BY NextInvariant, StepsAreNext, OutputStepInvariant
<1>3. OutputInv => OutputsComplete
  <2> SUFFICES ASSUME OutputInv PROVE OutputsComplete
    OBVIOUS
  <2>1. step = "returned" => Cardinality(held) = Len(given)
    BY FS_EmptySet, FS_Singleton DEF OutputInv, GivenIsHeld
  <2>2. answer = "ok" => Stored = Produced
    BY DEF OutputInv
  <2>3. \A k \in DOMAIN given :
          target # "read" => given[k].bytes = Produced /\ given[k].size = Len(Produced)
    BY DEF OutputInv, GivenIsHeld
  <2>4. target = "malloc" => Len(memory) <= block_size
    BY InputOfIsSequence DEF OutputInv, OutputTypes, MemoryHolds, Fitting
  <2> QED BY <2>1, <2>2, <2>3, <2>4 DEF OutputsComplete
<1> QED BY <1>1, <1>2, <1>3, PTL DEF OutputSpec
=============================================================================
