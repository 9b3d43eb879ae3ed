----------------------------- MODULE RingBuffer -----------------------------
(* struct ring_buffer and its four operations (tcpmux.c 310-327, 502-573),   *)
(* one TLA+ step per iteration of their byte loops. The loops of             *)
(* tx_ring_buffer_append and rx_ring_buffer_read leave early when the ring   *)
(* becomes full, and the one of tx_ring_buffer_write when it becomes empty:  *)
(* whether that ever truncates a transfer is what this module is about.      *)
EXTENDS Integers, Sequences

CONSTANTS N,        \* RBUF_SIZE = WBUF_SIZE (32*1024 in the code)
          Byte,     \* the values a byte may have
          MaxLen    \* the longest transfer a caller asks for

ASSUME NAssumption == N \in Nat \ {0}
ASSUME ByteAssumption == Byte # {}
ASSUME MaxLenAssumption == MaxLen \in Nat

VARIABLES
  cur, end, sz, data,   \* the fields of struct ring_buffer
  op,                   \* the call in progress, or "idle"
  src,                  \* bytes the caller offers (append, read)
  len, i,               \* the parameter len and the loop variable
  out,                  \* the last byte handed to the caller or to the bufferevent
  ret,                  \* the value the last call returned
  sz0                   \* history: the ring's size when the call started

ring == <<cur, end, sz, data>>
call == <<op, src, len, i>>
vars == <<ring, call, out, ret, sz0>>

\* Mutant of Wrap: the comparison is off by one.
WrapLate(x) == IF x > N THEN x - N ELSE x

\* The index wrap of every loop: if (x == RBUF_SIZE) x = 0.
Wrap(x) == IF x >= N THEN x - N ELSE x

Smaller(a, b) == IF a < b THEN a ELSE b

Strings == UNION {[1..n -> Byte] : n \in 0..MaxLen}

Init == /\ cur = 0 /\ end = 0 /\ sz = 0
        /\ data \in [0..N-1 -> Byte]
        /\ op = "idle" /\ src = <<>> /\ len = 0 /\ i = 0
        /\ out \in Byte
        /\ ret = 0 /\ sz0 = 0

\* Entering an operation with s offered and n the loop bound.
Enter(name, s, n) == /\ op = "idle"
                     /\ op' = name /\ src' = s /\ len' = n /\ i' = 0
                     /\ sz0' = sz
                     /\ UNCHANGED <<ring, out, ret>>

Return(v) == op' = "idle" /\ ret' = v /\ UNCHANGED <<src, len, sz0>>

Continue == UNCHANGED <<op, src, len, ret, sz0>>

\* Mutant of StoreByte: ring->sz++ is missing.
StoreByteUncounted(b) == /\ data' = [data EXCEPT ![end] = b]
                         /\ end' = Wrap(end + 1)
                         /\ UNCHANGED <<cur, sz, out>>

\* ring->data[ring->end++] = b, the wrap and ring->sz++
StoreByte(b) == /\ data' = [data EXCEPT ![end] = b]
                /\ end' = Wrap(end + 1)
                /\ sz' = sz + 1
                /\ UNCHANGED <<cur, out>>

\* Mutant of TakeByte: the byte after the one the reader is at.
TakeByteNext == /\ out' = data[Wrap(cur + 1)]
                /\ cur' = Wrap(cur + 1)
                /\ sz' = sz - 1
                /\ UNCHANGED <<end, data>>

\* ... = ring->data[ring->cur++], the wrap and ring->sz--
TakeByte == /\ out' = data[cur]
            /\ cur' = Wrap(cur + 1)
            /\ sz' = sz - 1
            /\ UNCHANGED <<end, data>>

-----------------------------------------------------------------------------
(* tx_ring_buffer_append: assert(left >= len) is the caller's duty.          *)
StartAppend(s) == /\ N - sz >= Len(s)
                  /\ Enter("append", s, Len(s))

\* The loop breaks, without counting the byte in i, when the ring is full.
AppendByte == /\ op = "append" /\ i < len
              /\ StoreByte(src[i + 1])
              /\ IF cur = end' THEN Return(i) /\ UNCHANGED i
                               ELSE Continue /\ i' = i + 1

AppendDone == /\ op = "append" /\ i = len
              /\ Return(i) /\ UNCHANGED <<ring, i, out>>

-----------------------------------------------------------------------------
(* rx_ring_buffer_read: a full ring reads nothing, otherwise the request is  *)
(* clamped to the room left.                                                 *)
ReadFull == /\ op = "idle" /\ sz = N
            /\ ret' = 0 /\ sz0' = sz
            /\ UNCHANGED <<ring, call, out>>

StartRead(s) == /\ sz # N
                /\ Enter("read", s, Smaller(Len(s), N - sz))

ReadByte == /\ op = "read" /\ i < len
            /\ StoreByte(src[i + 1])
            /\ i' = i + 1
            /\ IF cur = end' THEN Return(len) ELSE Continue

ReadDone == /\ op = "read" /\ i = len
            /\ Return(len) /\ UNCHANGED <<ring, i, out>>

-----------------------------------------------------------------------------
(* rx_ring_buffer_pop: assert(ring->sz >= len) is the caller's duty.         *)
StartPop(n) == sz >= n /\ Enter("pop", <<>>, n)

PopByte == /\ op = "pop" /\ i < len
           /\ TakeByte
           /\ i' = i + 1 /\ Continue

PopDone == /\ op = "pop" /\ i = len
           /\ Return(len) /\ UNCHANGED <<ring, i, out>>

-----------------------------------------------------------------------------
(* tx_ring_buffer_write: an empty ring writes nothing, otherwise the request *)
(* is clamped to what the ring holds; i counts the iterations, len the       *)
(* clamped request (nwrite).                                                 *)
WriteEmpty == /\ op = "idle" /\ sz = 0
              /\ ret' = 0 /\ sz0' = sz
              /\ UNCHANGED <<ring, call, out>>

StartWrite(n) == /\ sz # 0
                 /\ Enter("write", <<>>, Smaller(n, sz))

\* nwrite is taken for what was written when the ring is emptied early.
\* Mutant: the last byte is not counted.
CountShort == i
Count == i + 1

WriteByte == /\ op = "write" /\ i < len
             /\ TakeByte
             /\ i' = i + 1
             /\ IF cur' = end THEN Return(Count) ELSE Continue

WriteDone == /\ op = "write" /\ i = len
             /\ Return(i) /\ UNCHANGED <<ring, i, out>>

Next == \/ \E s \in Strings : StartAppend(s) \/ StartRead(s)
        \/ \E n \in 0..MaxLen : StartPop(n) \/ StartWrite(n)
        \/ ReadFull \/ WriteEmpty
        \/ AppendByte \/ AppendDone \/ ReadByte \/ ReadDone
        \/ PopByte \/ PopDone \/ WriteByte \/ WriteDone

Spec == Init /\ [][Next]_vars

-----------------------------------------------------------------------------
(* Properties                                                                *)

\* The ring's indices stay inside data[], and a call's loop inside its bound.
TypeOK == /\ cur \in 0..N-1 /\ end \in 0..N-1 /\ sz \in 0..N
          /\ data \in [0..N-1 -> Byte]
          /\ op \in {"idle", "append", "read", "pop", "write"}
          /\ src \in Seq(Byte) /\ len \in Nat /\ i \in 0..len
          /\ out \in Byte /\ ret \in Nat /\ sz0 \in 0..N

\* The three fields never disagree: `end' is always `sz' bytes after `cur',
\* so that cur = end means full or empty and nothing between.
IndicesAgree == end = Wrap(cur + sz)

\* An early exit from a loop never truncates the transfer: when a call has
\* returned, exactly the bytes it had promised have moved. rx_ring_buffer_read,
\* rx_ring_buffer_pop and tx_ring_buffer_write also report that number;
\* tx_ring_buffer_append reports one less when it fills the ring.
NoTruncation ==
  [][(op # "idle" /\ op' = "idle") =>
       /\ len = IF op \in {"append", "read"} THEN sz' - sz0 ELSE sz0 - sz'
       /\ ret' = IF op = "append" /\ sz' = N /\ len > 0 THEN len - 1 ELSE len]_vars

\* The ring implements the byte queue its callers rely on: bytes leave in the
\* order they entered, each exactly once, whatever the wrapping.
Contents == [k \in 1..sz |-> data[Wrap(cur + k - 1)]]
Queue == INSTANCE ByteQueue WITH q <- Contents
ImplementsQueue == Queue!Spec
=============================================================================
