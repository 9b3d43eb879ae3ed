-------------------------- MODULE RingBufferProofs --------------------------
(* For every ring size, byte set and transfer length: the indices of the     *)
(* ring agree, the early exits of the byte loops never truncate a transfer,  *)
(* and the ring implements the byte queue.                                   *)
EXTENDS RingBuffer, SequenceTheorems, TLAPS

\* What a call in progress has moved so far, and that what it still has to
\* move fits: the fact that makes every early exit coincide with the end.
CallInv ==
  /\ op = "append" => len = Len(src) /\ sz = sz0 + i /\ sz0 + len <= N
                    /\ (i > 0 => sz < N)
  /\ op = "read" => len <= Len(src) /\ sz = sz0 + i /\ sz0 + len <= N
  /\ op \in {"pop", "write"} => sz = sz0 - i /\ len <= sz0

IInv == TypeOK /\ IndicesAgree /\ CallInv

\* Bytes offered by a caller form a finite sequence of bytes.
LEMMA StringsAreSequences == \A s \in Strings : s \in Seq(Byte) /\ Len(s) \in Nat
  BY MaxLenAssumption DEF Strings

\* The initial ring satisfies the invariant.
LEMMA InitIInv == Init => IInv
  <1> SUFFICES ASSUME Init PROVE IInv
    OBVIOUS
  <1>1. TypeOK
    BY NAssumption DEF Init, TypeOK
  <1>2. IndicesAgree
    BY NAssumption DEF Init, IndicesAgree, Wrap
  <1>3. CallInv
    BY DEF Init, CallInv
  <1> QED
    BY <1>1, <1>2, <1>3 DEF IInv

\* Storing one byte in a ring that is not full keeps the fields consistent;
\* the ring is full afterwards exactly when the two indices meet.
LEMMA StoreByteKeeps ==
  ASSUME TypeOK, IndicesAgree, sz < N, NEW b \in Byte, StoreByte(b)
  PROVE  /\ cur' \in 0..N-1 /\ end' \in 0..N-1 /\ sz' \in 0..N
         /\ data' \in [0..N-1 -> Byte] /\ out' \in Byte
         /\ IndicesAgree'
         /\ cur = end' <=> sz' = N
         /\ sz' = sz + 1
  BY NAssumption DEF TypeOK, IndicesAgree, StoreByte, Wrap

\* Taking one byte from a ring that is not empty keeps the fields consistent;
\* the ring is empty afterwards exactly when the two indices meet.
LEMMA TakeByteKeeps ==
  ASSUME TypeOK, IndicesAgree, sz > 0, TakeByte
  PROVE  /\ cur' \in 0..N-1 /\ end' \in 0..N-1 /\ sz' \in 0..N
         /\ data' \in [0..N-1 -> Byte] /\ out' \in Byte
         /\ IndicesAgree'
         /\ cur' = end <=> sz' = 0
         /\ sz' = sz - 1
  BY NAssumption DEF TypeOK, IndicesAgree, TakeByte, Wrap

\* Every step keeps the invariant.
LEMMA NextIInv == IInv /\ [Next]_vars => IInv'
  <1> SUFFICES ASSUME IInv, [Next]_vars PROVE IInv'
    OBVIOUS
  <1> USE DEF IInv
  <1>1. ASSUME NEW s \in Strings, StartAppend(s) PROVE IInv'
    BY <1>1, NAssumption, StringsAreSequences
       DEF StartAppend, Enter, TypeOK, IndicesAgree, CallInv, ring, Wrap
  <1>2. ASSUME NEW s \in Strings, StartRead(s) PROVE IInv'
    BY <1>2, NAssumption, StringsAreSequences
       DEF StartRead, Enter, TypeOK, IndicesAgree, CallInv, ring, Wrap, Smaller
  <1>3. ASSUME NEW n \in 0..MaxLen, StartPop(n) PROVE IInv'
    BY <1>3, NAssumption, MaxLenAssumption
       DEF StartPop, Enter, TypeOK, IndicesAgree, CallInv, ring, Wrap
  <1>4. ASSUME NEW n \in 0..MaxLen, StartWrite(n) PROVE IInv'
    BY <1>4, NAssumption, MaxLenAssumption
       DEF StartWrite, Enter, TypeOK, IndicesAgree, CallInv, ring, Wrap, Smaller
  <1>5. CASE ReadFull
    BY <1>5, NAssumption DEF ReadFull, call, ring, TypeOK, IndicesAgree, CallInv, Wrap
  <1>6. CASE WriteEmpty
    BY <1>6, NAssumption DEF WriteEmpty, call, ring, TypeOK, IndicesAgree, CallInv, Wrap
  <1>7. CASE AppendByte
    <2>1. i + 1 \in 1..Len(src) /\ src[i + 1] \in Byte /\ sz < N
      BY <1>7, NAssumption DEF AppendByte, TypeOK, CallInv
    <2>2. /\ cur' \in 0..N-1 /\ end' \in 0..N-1 /\ sz' \in 0..N
          /\ data' \in [0..N-1 -> Byte] /\ out' \in Byte
          /\ IndicesAgree' /\ sz' = sz + 1 /\ (cur = end' <=> sz' = N)
      BY <1>7, <2>1, StoreByteKeeps DEF AppendByte
    <2>3. i' \in 0..len' /\ src' = src /\ len' = len /\ sz0' = sz0 /\ ret' \in Nat
          /\ op' \in {op, "idle"} /\ (op' = op => i' = i + 1)
      BY <1>7, <2>2 DEF AppendByte, Return, Continue, TypeOK
    <2>4. TypeOK'
      BY <2>2, <2>3 DEF TypeOK
    <2>5. CallInv'
      <3>1. op = "append" /\ sz = sz0 + i /\ len = Len(src) /\ sz0 + len <= N
        BY <1>7 DEF AppendByte, CallInv
      <3>2. CASE op' = "idle"
        BY <3>2 DEF CallInv
      <3>3. CASE op' = op
        <4>1. sz' = sz0 + (i + 1) /\ sz' < N
          BY <1>7, <2>2, <3>1, <3>3, NAssumption DEF TypeOK, AppendByte, Return
        <4>2. len' = Len(src') /\ sz' = sz0' + i' /\ sz0' + len' <= N
          BY <2>3, <3>1, <3>3, <4>1
        <4> QED
          BY <3>1, <3>3, <4>1, <4>2 DEF CallInv
      <3> QED
        BY <2>3, <3>2, <3>3
    <2> QED
      BY <2>2, <2>4, <2>5
  <1>8. CASE ReadByte
    <2>1. i + 1 \in 1..Len(src) /\ src[i + 1] \in Byte /\ sz < N
      BY <1>8, NAssumption DEF ReadByte, TypeOK, CallInv
    <2>2. /\ cur' \in 0..N-1 /\ end' \in 0..N-1 /\ sz' \in 0..N
          /\ data' \in [0..N-1 -> Byte] /\ out' \in Byte
          /\ IndicesAgree' /\ sz' = sz + 1
      BY <1>8, <2>1, StoreByteKeeps DEF ReadByte
    <2>3. i' \in 0..len' /\ src' = src /\ len' = len /\ sz0' = sz0 /\ ret' \in Nat
          /\ op' \in {op, "idle"} /\ (op' = op => i' = i + 1)
      BY <1>8, <2>2 DEF ReadByte, Return, Continue, TypeOK
    <2>4. TypeOK'
      BY <2>2, <2>3 DEF TypeOK
    <2>5. CallInv'
      BY <1>8, <2>2, <2>3 DEF ReadByte, TypeOK, CallInv
    <2> QED
      BY <2>2, <2>4, <2>5
  <1>9. CASE PopByte
    <2>1. sz > 0
      BY <1>9, NAssumption DEF PopByte, TypeOK, CallInv
    <2>2. /\ cur' \in 0..N-1 /\ end' \in 0..N-1 /\ sz' \in 0..N
          /\ data' \in [0..N-1 -> Byte] /\ out' \in Byte
          /\ IndicesAgree' /\ sz' = sz - 1
      BY <1>9, <2>1, TakeByteKeeps DEF PopByte
    <2>3. i' \in 0..len' /\ src' = src /\ len' = len /\ sz0' = sz0 /\ ret' \in Nat
          /\ op' \in {op, "idle"} /\ (op' = op => i' = i + 1)
      BY <1>9, <2>2 DEF PopByte, Return, Continue, TypeOK
    <2>4. TypeOK'
      BY <2>2, <2>3 DEF TypeOK
    <2>5. CallInv'
      BY <1>9, <2>2, <2>3 DEF PopByte, TypeOK, CallInv
    <2> QED
      BY <2>2, <2>4, <2>5
  <1>10. CASE WriteByte
    <2>1. sz > 0
      BY <1>10, NAssumption DEF WriteByte, Count, TypeOK, CallInv
    <2>2. /\ cur' \in 0..N-1 /\ end' \in 0..N-1 /\ sz' \in 0..N
          /\ data' \in [0..N-1 -> Byte] /\ out' \in Byte
          /\ IndicesAgree' /\ sz' = sz - 1
      BY <1>10, <2>1, TakeByteKeeps DEF WriteByte, Count
    <2>3. i' \in 0..len' /\ src' = src /\ len' = len /\ sz0' = sz0 /\ ret' \in Nat
          /\ op' \in {op, "idle"} /\ (op' = op => i' = i + 1)
      BY <1>10, <2>2 DEF WriteByte, Count, Return, Continue, TypeOK
    <2>4. TypeOK'
      BY <2>2, <2>3 DEF TypeOK
    <2>5. CallInv'
      BY <1>10, <2>2, <2>3 DEF WriteByte, Count, TypeOK, CallInv
    <2> QED
      BY <2>2, <2>4, <2>5
  <1>11. CASE AppendDone \/ ReadDone \/ PopDone \/ WriteDone
    BY <1>11, NAssumption
       DEF AppendDone, ReadDone, PopDone, WriteDone, Return, ring, TypeOK,
           IndicesAgree, CallInv, Wrap
  <1>12. CASE UNCHANGED vars
    BY <1>12 DEF vars, ring, call, TypeOK, IndicesAgree, CallInv, Wrap
  <1> QED
    BY <1>1, <1>2, <1>3, <1>4, <1>5, <1>6, <1>7, <1>8, <1>9, <1>10, <1>11, <1>12
       DEF Next

\* The inductive invariant holds in every reachable state.
THEOREM Invariance == Spec => []IInv
  BY InitIInv, NextIInv, PTL DEF Spec

\* Every reachable ring has its indices inside the array and every call its
\* loop inside its bound.
THEOREM TypeCorrect == Spec => []TypeOK
  <1>1. IInv => TypeOK
    BY DEF IInv
  <1> QED
    BY <1>1, Invariance, PTL

\* cur, end and sz of struct ring_buffer never disagree.
THEOREM IndicesAlwaysAgree == Spec => []IndicesAgree
  <1>1. IInv => IndicesAgree
    BY DEF IInv
  <1> QED
    BY <1>1, Invariance, PTL

-----------------------------------------------------------------------------
(* No early exit truncates a transfer.                                       *)

\* One step: a call that returns has moved all it promised.
LEMMA ReturnMovesAll ==
  IInv /\ Next /\ op # "idle" /\ op' = "idle" =>
    /\ len = IF op \in {"append", "read"} THEN sz' - sz0 ELSE sz0 - sz'
    /\ ret' = IF op = "append" /\ sz' = N /\ len > 0 THEN len - 1 ELSE len
  <1> DEFINE Goal == /\ len = IF op \in {"append", "read"} THEN sz' - sz0 ELSE sz0 - sz'
                     /\ ret' = IF op = "append" /\ sz' = N /\ len > 0 THEN len - 1 ELSE len
  <1> SUFFICES ASSUME IInv, Next, op # "idle", op' = "idle" PROVE Goal
    OBVIOUS
  <1> USE DEF IInv
  <1>1. CASE AppendByte
    <2>1. i + 1 \in 1..Len(src) /\ src[i + 1] \in Byte /\ sz < N
      BY <1>1, NAssumption DEF AppendByte, TypeOK, CallInv
    <2>2. (cur = end' <=> sz' = N) /\ sz' = sz + 1
      BY <1>1, <2>1, StoreByteKeeps DEF AppendByte
    <2>3. cur = end' /\ ret' = i
      BY <1>1 DEF AppendByte, Return, Continue
    <2>4. op = "append" /\ sz = sz0 + i /\ sz0 + len <= N /\ i < len
      BY <1>1 DEF AppendByte, CallInv
    <2> QED
      BY <2>2, <2>3, <2>4, NAssumption DEF TypeOK
  <1>2. CASE ReadByte
    <2>1. i + 1 \in 1..Len(src) /\ src[i + 1] \in Byte /\ sz < N
      BY <1>2, NAssumption DEF ReadByte, TypeOK, CallInv
    <2>2. (cur = end' <=> sz' = N) /\ sz' = sz + 1
      BY <1>2, <2>1, StoreByteKeeps DEF ReadByte
    <2>3. cur = end' /\ ret' = len
      BY <1>2 DEF ReadByte, Return, Continue
    <2>4. op = "read" /\ sz = sz0 + i /\ sz0 + len <= N /\ i < len
      BY <1>2 DEF ReadByte, CallInv
    <2> QED
      BY <2>2, <2>3, <2>4, NAssumption DEF TypeOK
  <1>3. CASE WriteByte
    <2>1. sz > 0
      BY <1>3, NAssumption DEF WriteByte, Count, TypeOK, CallInv
    <2>2. (cur' = end <=> sz' = 0) /\ sz' = sz - 1
      BY <1>3, <2>1, TakeByteKeeps DEF WriteByte, Count
    <2>3. cur' = end /\ ret' = i + 1
      BY <1>3 DEF WriteByte, Count, Return, Continue
    <2>4. op = "write" /\ sz = sz0 - i /\ len <= sz0 /\ i < len
      BY <1>3 DEF WriteByte, Count, CallInv
    <2> QED
      BY <2>2, <2>3, <2>4, NAssumption DEF TypeOK
  <1>4. CASE AppendDone
    <2>1. op = "append" /\ sz = sz0 + i /\ i = len /\ ret' = i /\ sz' = sz
      BY <1>4 DEF AppendDone, Return, CallInv, ring
    <2>2. ~ (sz' = N /\ len > 0)
      BY <2>1, NAssumption DEF TypeOK, CallInv
    <2> QED
      BY <2>1, <2>2 DEF TypeOK
  <1>5. CASE ReadDone
    BY <1>5 DEF ReadDone, Return, CallInv, TypeOK, ring
  <1>6. CASE PopDone
    BY <1>6 DEF PopDone, Return, CallInv, TypeOK, ring
  <1>7. CASE WriteDone
    BY <1>7 DEF WriteDone, Return, CallInv, TypeOK, ring
  <1>8. ~ PopByte
    BY DEF PopByte, Continue
  <1>9. ~ (ReadFull \/ WriteEmpty)
    BY DEF ReadFull, WriteEmpty
  <1>10. \A s \in Strings : ~ (StartAppend(s) \/ StartRead(s))
    BY DEF StartAppend, StartRead, Enter
  <1>11. \A n \in 0..MaxLen : ~ (StartPop(n) \/ StartWrite(n))
    BY DEF StartPop, StartWrite, Enter
  <1> QED
    BY <1>1, <1>2, <1>3, <1>4, <1>5, <1>6, <1>7, <1>8, <1>9, <1>10, <1>11 DEF Next

\* In every behaviour, a call of any of the four ring operations that returns
\* has moved exactly the bytes it promised.
THEOREM TransfersComplete == Spec => NoTruncation
  <1> DEFINE Act == (op # "idle" /\ op' = "idle") =>
       /\ len = IF op \in {"append", "read"} THEN sz' - sz0 ELSE sz0 - sz'
       /\ ret' = IF op = "append" /\ sz' = N /\ len > 0 THEN len - 1 ELSE len
  <1>1. IInv /\ [Next]_vars => [Act]_vars
    BY ReturnMovesAll
  <1> QED
    BY <1>1, Invariance, PTL DEF Spec, NoTruncation
-----------------------------------------------------------------------------
(* The ring implements the byte queue.                                       *)

\* The contents form a sequence of sz bytes.
LEMMA ContentsIsSequence ==
  ASSUME TypeOK
  PROVE  /\ Contents \in Seq(Byte) /\ Len(Contents) = sz
         /\ \A k \in 1..sz : Contents[k] = data[Wrap(cur + k - 1)]
  <1>1. \A k \in 1..sz : Wrap(cur + k - 1) \in 0..N-1
    BY NAssumption DEF TypeOK, Wrap
  <1>2. \A k \in 1..sz : data[Wrap(cur + k - 1)] \in Byte
    BY <1>1 DEF TypeOK
  <1>3. Contents \in [1..sz -> Byte]
    BY <1>2, Zenon DEF Contents
  <1>4. sz \in Nat
    BY NAssumption DEF TypeOK
  <1>5. \A k \in 1..sz : Contents[k] = data[Wrap(cur + k - 1)]
    BY Zenon DEF Contents
  <1> QED
    BY <1>3, <1>4, <1>5

\* Storing a byte appends it to the contents.
LEMMA StoreByteAppends ==
  ASSUME IInv, IInv', sz < N, NEW b \in Byte, StoreByte(b)
  PROVE  Contents' = Append(Contents, b)
  <1>1. TypeOK /\ TypeOK' /\ IndicesAgree
    BY DEF IInv
  <1>2. sz' = sz + 1 /\ cur' = cur /\ data' = [data EXCEPT ![end] = b]
    BY DEF StoreByte
  <1>3. Contents' = [k \in 1..sz' |-> data'[Wrap(cur' + k - 1)]]
    BY DEF Contents, Wrap
  <1>4. \A k \in 1..sz : Wrap(cur + k - 1) # end /\ Wrap(cur + k - 1) \in 0..N-1
    BY <1>1, NAssumption DEF TypeOK, IndicesAgree, Wrap
  <1>5. Wrap(cur + (sz + 1) - 1) = end
    BY <1>1, NAssumption DEF TypeOK, IndicesAgree, Wrap
  <1>6. \A k \in 1..sz : data'[Wrap(cur + k - 1)] = data[Wrap(cur + k - 1)]
    BY <1>1, <1>2, <1>4 DEF TypeOK
  <1>7. data'[end] = b
    BY <1>1, <1>2 DEF TypeOK
  <1>8. Contents \in Seq(Byte) /\ Len(Contents) = sz /\ sz \in Nat
        /\ \A k \in 1..sz : Contents[k] = data[Wrap(cur + k - 1)]
    BY <1>1, ContentsIsSequence DEF TypeOK
  <1> DEFINE A == Append(Contents, b)
  <1>9. A \in Seq(Byte) /\ Len(A) = sz + 1 /\ A[sz + 1] = b
        /\ \A k \in 1..sz : A[k] = Contents[k]
    BY <1>8
  <1>10. A = [k \in 1..(sz + 1) |-> A[k]]
    BY <1>9, LenProperties, Zenon
  <1>11. \A k \in 1..(sz + 1) : A[k] = data'[Wrap(cur + k - 1)]
    BY <1>5, <1>6, <1>7, <1>8, <1>9
  <1>12. [k \in 1..(sz + 1) |-> A[k]] = [k \in 1..(sz + 1) |-> data'[Wrap(cur + k - 1)]]
    BY <1>11, Zenon
  <1> QED
    BY <1>2, <1>3, <1>10, <1>12, Zenon

\* Taking a byte removes the head of the contents and hands it over.
LEMMA TakeByteIsGet ==
  ASSUME IInv, IInv', sz > 0, TakeByte
  PROVE  Contents # <<>> /\ out' = Head(Contents) /\ Contents' = Tail(Contents)
  <1>1. TypeOK /\ TypeOK'
    BY DEF IInv
  <1>2. sz' = sz - 1 /\ cur' = Wrap(cur + 1) /\ data' = data /\ out' = data[cur]
    BY DEF TakeByte
  <1>3. Contents' = [k \in 1..sz' |-> data'[Wrap(cur' + k - 1)]]
    BY DEF Contents, Wrap
  <1>4. Contents \in Seq(Byte) /\ Len(Contents) = sz /\ sz \in Nat
        /\ \A k \in 1..sz : Contents[k] = data[Wrap(cur + k - 1)]
    BY <1>1, ContentsIsSequence DEF TypeOK
  <1>5. Contents # <<>> /\ Head(Contents) = Contents[1]
    BY <1>4
  <1>6. Wrap(cur + 1 - 1) = cur
    BY <1>1, NAssumption DEF TypeOK, Wrap
  <1> DEFINE T == Tail(Contents)
  <1>7. T \in Seq(Byte) /\ Len(T) = sz - 1 /\ \A k \in 1..(sz - 1) : T[k] = Contents[k + 1]
    BY <1>4, <1>5
  <1>8. T = [k \in 1..(sz - 1) |-> T[k]]
    BY <1>7, LenProperties, Zenon
  <1>9. \A k \in 1..(sz - 1) : Wrap(cur + (k + 1) - 1) = Wrap(cur' + k - 1)
    BY <1>1, <1>2, NAssumption DEF TypeOK, Wrap
  <1>10. \A k \in 1..(sz - 1) : T[k] = data'[Wrap(cur' + k - 1)]
    BY <1>2, <1>4, <1>7, <1>9
  <1>11. [k \in 1..(sz - 1) |-> T[k]] = [k \in 1..(sz - 1) |-> data'[Wrap(cur' + k - 1)]]
    BY <1>10, Zenon
  <1>12. Contents' = T
    BY <1>2, <1>3, <1>8, <1>11, Zenon
  <1>13. out' = Head(Contents)
    BY <1>2, <1>4, <1>5, <1>6
  <1> QED
    BY <1>5, <1>12, <1>13

\* Every step of the ring is a step of the queue or leaves it alone.
LEMMA StepImplementsQueue ==
  IInv /\ IInv' /\ [Next]_vars => [Queue!Next]_(Queue!qvars)
  <1> SUFFICES ASSUME IInv, IInv', [Next]_vars PROVE [Queue!Next]_(Queue!qvars)
    OBVIOUS
  <1> DEFINE Still == UNCHANGED <<ring, out>>
  <1>1. Still => UNCHANGED Queue!qvars
    BY DEF Queue!qvars, Contents, ring, Wrap
  <1>2. ASSUME NEW b \in Byte, StoreByte(b), sz < N PROVE Queue!Next
    <2>1. Contents' = Append(Contents, b) /\ out' = out
      BY <1>2, StoreByteAppends DEF StoreByte
    <2>2. Len(Contents) < N
      BY <1>2, ContentsIsSequence DEF IInv
    <2> QED
      BY <2>1, <2>2 DEF Queue!Next, Queue!Put
  <1>3. ASSUME TakeByte, sz > 0 PROVE Queue!Next
    BY <1>3, TakeByteIsGet DEF Queue!Next, Queue!Get
  <1>4. CASE AppendByte
    <2>1. src[i + 1] \in Byte /\ sz < N
      BY <1>4, NAssumption, SMTT(20) DEF AppendByte, IInv, TypeOK, CallInv
    <2> QED
      BY <1>2, <1>4, <2>1 DEF AppendByte
  <1>5. CASE ReadByte
    <2>1. src[i + 1] \in Byte /\ sz < N
      BY <1>5, NAssumption, SMTT(20) DEF ReadByte, IInv, TypeOK, CallInv
    <2> QED
      BY <1>2, <1>5, <2>1 DEF ReadByte
  <1>6. CASE PopByte \/ WriteByte
    <2>1. sz > 0
      BY <1>6, NAssumption DEF PopByte, WriteByte, Count, IInv, TypeOK, CallInv
    <2> QED
      BY <1>3, <1>6, <2>1 DEF PopByte, WriteByte, Count
  <1>7. CASE AppendDone \/ ReadDone \/ PopDone \/ WriteDone \/ ReadFull \/ WriteEmpty
    BY <1>1, <1>7 DEF AppendDone, ReadDone, PopDone, WriteDone, ReadFull, WriteEmpty
  <1>8. ASSUME NEW s \in Strings, StartAppend(s) \/ StartRead(s) PROVE Still
    BY <1>8 DEF StartAppend, StartRead, Enter
  <1>9. ASSUME NEW n \in 0..MaxLen, StartPop(n) \/ StartWrite(n) PROVE Still
    BY <1>9 DEF StartPop, StartWrite, Enter
  <1>10. CASE UNCHANGED vars
    BY <1>1, <1>10 DEF vars
  <1> QED
    BY <1>1, <1>4, <1>5, <1>6, <1>7, <1>8, <1>9, <1>10 DEF Next

\* The ring buffer of the code is a bounded FIFO of bytes.
THEOREM RingImplementsQueue == Spec => ImplementsQueue
  <1>1. Init => Queue!Init
    <2> SUFFICES ASSUME Init PROVE Contents = <<>> /\ out \in Byte
      BY DEF Queue!Init
    <2>1. sz = 0 /\ out \in Byte
      BY DEF Init
    <2> QED
      BY <2>1 DEF Contents
  <1> QED
    BY <1>1, Invariance, StepImplementsQueue, PTL DEF Spec, ImplementsQueue, Queue!Spec
=============================================================================
