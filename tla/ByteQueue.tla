----------------------------- MODULE ByteQueue -----------------------------
(* What a struct ring_buffer promises to the code that calls it: a bounded  *)
(* first-in first-out queue of bytes. One byte enters or leaves per step;   *)
(* `out' is the last byte handed to the reader.                             *)
EXTENDS Integers, Sequences

CONSTANTS N,       \* capacity in bytes (RBUF_SIZE and WBUF_SIZE)
          Byte     \* the byte values

VARIABLES q, out

qvars == <<q, out>>

Init == q = <<>> /\ out \in Byte

Put(b) == /\ Len(q) < N
          /\ q' = Append(q, b)
          /\ UNCHANGED out

Get == /\ q # <<>>
       /\ out' = Head(q)
       /\ q' = Tail(q)

Next == (\E b \in Byte : Put(b)) \/ Get

Spec == Init /\ [][Next]_qvars
=============================================================================
