-------------------------- MODULE TmuxStreamProofs --------------------------
(* For every window, ring, read and frame size that satisfies                *)
(* SizesAssumption: the stream's types, that reading from the local service  *)
(* stops only with the window at zero, that no assertion of                  *)
(* tx_ring_buffer_append can fail, that every DATA frame is as long as its   *)
(* header says, that the receive window never closes and that FIN is last;   *)
(* then, with the sums as sizes of disjoint unions, the four laws of flow    *)
(* control and of the bytes in both directions.                              *)
EXTENDS TmuxStream, SequenceTheorems, FiniteSetTheorems, TLAPS

\* What frps sends: credit of at least half a window, or a flag without
\* credit, or data of at most Frame bytes.
PeerFrame(m) ==
  /\ m.flag \in {"ZERO", "ACK", "FIN", "RST"}
  /\ m.type = "WINDOW_UPDATE" => m.len >= Half \/ (m.len = 0 /\ m.flag # "ZERO")
  /\ m.type = "DATA" => m.len = Len(m.bytes) /\ m.len \in 1..Frame /\ m.flag = "ZERO"
  /\ m.type # "GO_AWAY" /\ (m.type # "DATA" => Len(m.bytes) = 0)

PeerFrames == \A k \in 1..Len(toClient) : PeerFrame(toClient[k])

\* Until frps has answered the SYN the stream is untouched, and the answer is
\* the first thing frps says.
Handshake ==
  /\ (Listed /\ state \in {"INIT", "SYN_SEND"}) =>
       /\ bev = "none" /\ ~ read_on /\ tx_ring = <<>>
       /\ recv_window = MaxWindow /\ send_window >= Half
       /\ \/ peer.state = "LISTEN" /\ toClient = <<>>
          \/ /\ state = "SYN_SEND" /\ peer.state # "LISTEN"
             /\ toClient # <<>> /\ toClient[1].flag \in {"ACK", "RST"}
             /\ toClient[1].type = "WINDOW_UPDATE"
  /\ state = "INIT" => send_window = MaxWindow /\ (Listed => toPeer = <<>>)
  /\ Listed => \A k \in 1..Len(toClient) : toClient[k].flag = "ACK" => k = 1 /\ state = "SYN_SEND"

\* The only SYN is the first frame, sent before frps has said anything.
SynFirst ==
  \A k \in 1..Len(toPeer) : toPeer[k].flag = "SYN" =>
    k = 1 /\ Listed /\ state = "SYN_SEND" /\ peer.state = "LISTEN"

\* Why the ring never overflows: bytes enter it only with the window at zero,
\* and reading stops then; credit comes in amounts that cover ring and read.
RingInv ==
  /\ pc # "append assert"
  /\ Len(tx_ring) <= 2 * Chunk
  /\ Listed =>
       /\ state # "REMOTE_CLOSE" => Len(tx_ring) <= Chunk
       /\ bev = "none" => tx_ring = <<>>
       /\ bev = "open" => state \in {"ESTABLISHED", "REMOTE_CLOSE"}
       /\ tx_ring # <<>> => send_window = 0 \/ send_window >= Half
       /\ (bev = "open" /\ read_on /\ send_window = 0 /\ tx_ring # <<>>) =>
            state = "REMOTE_CLOSE" /\ Len(tx_ring) <= Chunk

\* After FIN nothing in the code can send on the stream.
FinInv ==
  /\ FinIsLast
  /\ \A k \in 1..Len(toPeer) : toPeer[k].flag = "FIN" /\ Listed =>
       bev # "open" /\ state \notin {"INIT", "SYN_SEND", "ESTABLISHED"}

\* A frame whose header tells the truth.
Honest(m) == Len(m.bytes) = IF m.type = "DATA" THEN m.len ELSE 0

IInv == /\ TypeOK /\ PeerFrames /\ Handshake /\ SynFirst /\ RingInv /\ FinInv
        /\ NoLostWakeup /\ FramesHonest /\ WindowStaysOpen

-----------------------------------------------------------------------------

\* Half a window covers a full ring and one more read.
LEMMA HalfFacts == /\ Half \in Nat /\ Half >= RingSize + Chunk
                   /\ 2 * Half <= MaxWindow /\ MaxWindow - Half >= Half
                   /\ Half > Frame /\ MaxWindow \in Nat
                   /\ Chunk \in Nat /\ RingSize \in Nat /\ Frame \in Nat
                   /\ Chunk > 0 /\ Frame > 0 /\ Half > 0
  BY SizesAssumption DEF Half

\* Elements and length of a sequence after Append.
LEMMA AppendFacts ==
  ASSUME NEW S, NEW s \in Seq(S), NEW m \in S
  PROVE  /\ Append(s, m) \in Seq(S) /\ Len(Append(s, m)) = Len(s) + 1
         /\ Append(s, m)[Len(s) + 1] = m
         /\ \A k \in 1..Len(s) : Append(s, m)[k] = s[k]
         /\ \A k \in 1..(Len(s) + 1) : k \in 1..Len(s) \/ k = Len(s) + 1
  OBVIOUS

\* Elements and length of a sequence after Tail.
LEMMA TailFacts ==
  ASSUME NEW S, NEW s \in Seq(S), s # <<>>
  PROVE  /\ Head(s) \in S /\ Head(s) = s[1] /\ Len(s) >= 1 /\ 1 \in 1..Len(s)
         /\ Tail(s) \in Seq(S) /\ Len(Tail(s)) = Len(s) - 1 /\ Len(s) \in Nat
         /\ \A k \in 1..(Len(s) - 1) : Tail(s)[k] = s[k + 1] /\ k + 1 \in 1..Len(s)
  OBVIOUS

\* The frames both sides build are frames.
LEMMA FrameTypes ==
  /\ \A f \in {"ZERO", "SYN", "ACK", "FIN", "RST"}, n \in Nat : WinUpdate(f, n) \in FrameSet
  /\ \A n \in Nat, b \in Seq(Nat) : DataFrame(n, b) \in FrameSet
  /\ GoAway \in FrameSet
  BY DEF WinUpdate, DataFrame, GoAway, FrameSet

\* The fields of a frame.
LEMMA FrameFields ==
  \A m \in FrameSet : m.len \in Nat /\ m.bytes \in Seq(Nat) /\ Len(m.bytes) \in Nat
  BY DEF FrameSet

\* What Take and Drop return.
LEMMA TakeDrop ==
  ASSUME NEW s \in Seq(Nat), NEW n \in 0..Len(s)
  PROVE  /\ Take(s, n) \in Seq(Nat) /\ Len(Take(s, n)) = n
         /\ Drop(s, n) \in Seq(Nat) /\ Len(Drop(s, n)) = Len(s) - n
  BY DEF Take, Drop

\* The next n bytes of a direction, u having gone before.
LEMMA Counting ==
  ASSUME NEW u \in Nat, NEW n \in Nat
  PROVE  [k \in 1..n |-> u + k] \in Seq(Nat) /\ Len([k \in 1..n |-> u + k]) = n
  <1>1. [k \in 1..n |-> u + k] \in [1..n -> Nat]
    OBVIOUS
  <1> QED
    BY <1>1

\* Ring and read together.
LEMMA ConcatFacts ==
  ASSUME NEW s \in Seq(Nat), NEW t \in Seq(Nat)
  PROVE  s \o t \in Seq(Nat) /\ Len(s \o t) = Len(s) + Len(t)
  OBVIOUS

\* What tmux_stream_write computes has the right shape.
LEMMA WriteTypes ==
  ASSUME TypeOK, NEW d \in Seq(Nat)
  PROVE  /\ Admitted(d) \in Nat /\ Admitted(d) <= send_window
         /\ Admitted(d) <= Len(tx_ring) + Len(d)
         /\ Payload(d) \in Seq(Nat) /\ Leftover(d) \in Seq(Nat)
  <1>1. tx_ring \in Seq(Nat) /\ Len(tx_ring) \in Nat /\ Len(d) \in Nat /\ send_window \in Nat
    BY DEF TypeOK
  <1>2. /\ Admitted(d) \in Nat /\ Admitted(d) <= send_window
        /\ Admitted(d) <= Len(tx_ring) + Len(d)
    BY <1>1 DEF Admitted, Smaller
  <1>3. Smaller(send_window, Len(d)) \in 0..Len(d)
    BY <1>1 DEF Smaller
  <1>4. tx_ring \o d \in Seq(Nat) /\ Len(tx_ring \o d) = Len(tx_ring) + Len(d)
    BY <1>1, ConcatFacts
  <1>5. /\ Take(d, Smaller(send_window, Len(d))) \in Seq(Nat)
        /\ Drop(d, Smaller(send_window, Len(d))) \in Seq(Nat)
    BY <1>3, TakeDrop
  <1>6. /\ Take(tx_ring \o d, Admitted(d)) \in Seq(Nat)
        /\ Drop(tx_ring \o d, Admitted(d)) \in Seq(Nat)
    <2>1. Admitted(d) \in 0..Len(tx_ring \o d)
      BY <1>1, <1>2, <1>4
    <2> HIDE DEF Admitted
    <2> QED
      BY <1>4, <2>1, TakeDrop
  <1>7. tx_ring \o Take(d, Smaller(send_window, Len(d))) \in Seq(Nat)
    BY <1>1, <1>5, ConcatFacts
  <1> QED
    BY <1>1, <1>2, <1>5, <1>6, <1>7 DEF Payload, Leftover

\* send_window_update after a frame of nret bytes was handled: the window
\* stays within its bounds and never closes.
LEMMA WindowUpdateFacts ==
  ASSUME TypeOK, NEW nret \in 0..Frame, nret <= recv_window,
         send_window_update(nret, recv_window - nret)
  PROVE  /\ recv_window' \in 0..MaxWindow /\ recv_window' > 0
         /\ \/ toPeer' = toPeer
            \/ \E n \in Nat : toPeer' = Append(toPeer, WinUpdate("ZERO", n))
  <1> DEFINE rw == recv_window - nret
             del == Delta(nret, rw)
  <1>1. /\ nret \in Nat /\ nret <= Frame /\ recv_window \in Nat /\ recv_window <= MaxWindow
        /\ rw \in Nat /\ rw <= MaxWindow - nret
    BY HalfFacts DEF TypeOK
  <1>2. del = (MaxWindow - nret) - rw /\ del \in Nat
    BY <1>1, HalfFacts DEF Delta
  <1>3. CASE del < Half
    <2>1. recv_window' = rw /\ toPeer' = toPeer
      BY <1>3 DEF send_window_update, TooLittle, Raised
    <2>2. rw > 0 /\ rw <= MaxWindow
      BY <1>1, <1>2, <1>3, HalfFacts
    <2> QED
      BY <1>1, <2>1, <2>2, HalfFacts
  <1>4. CASE ~ (del < Half)
    <2>1. recv_window' = rw + del /\ toPeer' = Append(toPeer, WinUpdate("ZERO", del))
      BY <1>4 DEF send_window_update, TooLittle, Raised
    <2>2. rw + del = MaxWindow - nret
      BY <1>1, <1>2, HalfFacts
    <2>3. recv_window' \in 0..MaxWindow /\ recv_window' > 0
      BY <1>1, <2>1, <2>2, HalfFacts
    <2> QED
      BY <1>2, <2>1, <2>3
  <1> QED
    BY <1>3, <1>4

-----------------------------------------------------------------------------
(* Types                                                                     *)

\* Every step keeps the types, given the facts about the frames in flight.
LEMMA NextTypeOK == IInv /\ [Next]_vars => TypeOK'
  <1> SUFFICES ASSUME IInv, [Next]_vars PROVE TypeOK'
    OBVIOUS
  <1>0. /\ TypeOK /\ PeerFrames /\ Handshake
        /\ toClient \in Seq(FrameSet) /\ toPeer \in Seq(FrameSet)
    BY DEF IInv, TypeOK
  <1>a. ASSUME toClient # <<>>
        PROVE  /\ Head(toClient) \in FrameSet /\ Tail(toClient) \in Seq(FrameSet)
               /\ Head(toClient).len \in Nat /\ Head(toClient).bytes \in Seq(Nat)
               /\ Head(toClient).type = "DATA" =>
                    Head(toClient).len = Len(Head(toClient).bytes)
    <2>1. Head(toClient) \in FrameSet /\ Tail(toClient) \in Seq(FrameSet)
          /\ Head(toClient) = toClient[1] /\ 1 \in 1..Len(toClient)
      BY <1>0, <1>a, TailFacts
    <2>2. Head(toClient).type = "DATA" => Head(toClient).len = Len(Head(toClient).bytes)
      BY <1>0, <2>1 DEF PeerFrames, PeerFrame
    <2> QED
      BY <2>1, <2>2, FrameFields
  <1>b. ASSUME toPeer # <<>>
        PROVE  /\ Head(toPeer) \in FrameSet /\ Tail(toPeer) \in Seq(FrameSet)
               /\ Head(toPeer).len \in Nat /\ Head(toPeer).bytes \in Seq(Nat)
    <2>1. Head(toPeer) \in FrameSet /\ Tail(toPeer) \in Seq(FrameSet)
      BY <1>0, <1>b, TailFacts
    <2> QED
      BY <2>1, FrameFields
  <1>1. CASE Open
    <2>1. /\ MaxWindow - recv_window \in Nat /\ <<0>> \in Seq(Nat)
          /\ send_window = MaxWindow /\ send_window - 1 \in Nat
      BY <1>0, <1>1, HalfFacts DEF Open, TypeOK, Handshake
    <2>2. /\ WinUpdate("SYN", MaxWindow - recv_window) \in FrameSet
          /\ DataFrame(1, <<0>>) \in FrameSet
      BY <2>1, FrameTypes
    <2>3. toPeer' \in Seq(FrameSet)
      BY <1>1, <2>2 DEF Open
    <2> QED
      BY <1>0, <1>1, <2>1, <2>3 DEF Open, TypeOK, client, States
  <1>2. ASSUME NEW n \in 1..Chunk, LocalRead(n) PROVE TypeOK'
    <2> DEFINE d == [k \in 1..n |-> up + k]
    <2>a. up \in Nat /\ n \in Nat /\ n \in 1..Chunk
      BY <1>0, <1>2, SizesAssumption DEF TypeOK
    <2>1. d \in Seq(Nat) /\ Len(d) = n /\ n \in Nat
      BY <2>a, Counting
    <2>2. tmux_stream_write(d)
      BY <1>2 DEF LocalRead
    <2> HIDE DEF d
    <2>3. /\ Admitted(d) \in Nat /\ Admitted(d) <= send_window
          /\ Payload(d) \in Seq(Nat) /\ Leftover(d) \in Seq(Nat)
      BY <1>0, <2>1, WriteTypes
    <2>4. DataFrame(Admitted(d), Payload(d)) \in FrameSet
      BY <2>3, FrameTypes
    <2>5. toPeer' \in Seq(FrameSet)
      BY <1>0, <2>2, <2>4, AppendFacts DEF tmux_stream_write
    <2>6. /\ send_window' \in Nat /\ tx_ring' \in Seq(Nat)
          /\ pc' \in {"listed", "freed"} \cup Aborts
      <3>1. send_window' = send_window - Admitted(d) /\ tx_ring' = Leftover(d)
            /\ pc' \in {"append assert", pc}
        BY <2>2 DEF tmux_stream_write, Charge
      <3>2. pc' \in {"listed", "freed"} \cup Aborts
        BY <1>0, <3>1 DEF TypeOK, Aborts
      <3>3. send_window \in Nat
        BY <1>0 DEF TypeOK
      <3>4. send_window' \in Nat
        <4>1. \A a \in Nat, b \in Nat : b <= a => a - b \in Nat
          OBVIOUS
        <4>2. send_window - Admitted(d) \in Nat
          BY <2>3, <3>3, <4>1
        <4> QED
          BY <3>1, <4>2
      <3>5. tx_ring' \in Seq(Nat)
        BY <2>3, <3>1
      <3> QED
        BY <3>2, <3>4, <3>5
    <2>7. /\ UNCHANGED <<state, recv_window, rx_ring, bev, local_out, toClient, peer>>
          /\ up' = up + n /\ up + n <= MaxUp /\ read_on' \in BOOLEAN
      BY <1>2 DEF LocalRead, KeepsReading
    <2>8. up' \in 0..MaxUp
      BY <1>0, <2>1, <2>7, SizesAssumption DEF TypeOK
    <2> QED
      BY <1>0, <2>5, <2>6, <2>7, <2>8 DEF TypeOK
  <1>3. ASSUME NEW what \in {"EOF", "ERROR"}, LocalEvent(what) PROVE TypeOK'
    <2>1. toPeer' \in Seq(FrameSet)
      BY <1>0, <1>3, FrameTypes, AppendFacts DEF LocalEvent, tmux_stream_close, FreeBev
    <2> QED
      BY <1>0, <1>3, <2>1 DEF LocalEvent, tmux_stream_close, FreeBev, TypeOK, States
  <1>4. CASE HandleWinUpdate
    <2> DEFINE m == Head(toClient)
    <2>1. /\ toClient # <<>> /\ toClient' = Tail(toClient) /\ state' = AfterFlags(m.flag)
          /\ pc' \in {"null bev", FateOfFlags(m.flag)}
          /\ send_window' \in {send_window + m.len, send_window}
          /\ read_on' \in BOOLEAN /\ bev' \in {bev, "null"}
          /\ UNCHANGED <<recv_window, tx_ring, rx_ring, local_out, up, toPeer, peer>>
      BY <1>4 DEF HandleWinUpdate
    <2>2. AfterFlags(m.flag) \in States /\ FateOfFlags(m.flag) \in {"listed", "freed", "FIN assert"}
      BY <1>0 DEF AfterFlags, FateOfFlags, TypeOK, States
    <2>3. m.len \in Nat /\ Tail(toClient) \in Seq(FrameSet)
      BY <1>a, <2>1
    <2>4. send_window' \in Nat /\ pc' \in {"listed", "freed"} \cup Aborts
      <3>0. send_window \in Nat /\ send_window + m.len \in Nat
        BY <1>0, <2>3 DEF TypeOK
      <3>1. send_window' \in Nat
        BY <2>1, <3>0
      <3>2. pc' \in {"listed", "freed"} \cup Aborts
        BY <2>1, <2>2 DEF Aborts
      <3> QED
        BY <3>1, <3>2
    <2> QED
      BY <1>0, <2>1, <2>2, <2>3, <2>4 DEF TypeOK
  <1>5. CASE HandleDataOverflow
    BY <1>0, <1>5 DEF HandleDataOverflow, TypeOK, stream, Aborts
  <1>6. CASE HandleDataKept
    <2>1. toPeer' \in Seq(FrameSet)
      BY <1>0, <1>6, FrameTypes, AppendFacts DEF HandleDataKept
    <2>2. toClient' \in Seq(FrameSet) /\ rx_ring' \in Seq(Nat)
      BY <1>0, <1>a, <1>6, ConcatFacts DEF HandleDataKept, TypeOK
    <2> QED
      BY <1>0, <1>6, <2>1, <2>2 DEF HandleDataKept, TypeOK, client
  <1>c. ASSUME toClient # <<>>, Head(toClient).type = "DATA"
        PROVE  Head(toClient).len \in 0..Frame
    BY <1>0, <1>c, TailFacts, HalfFacts DEF PeerFrames, PeerFrame
  <1>7. CASE HandleDataTunnel
    <2> DEFINE m == Head(toClient)
               r == rx_ring \o m.bytes
    <2>1. /\ toClient # <<>> /\ m.type = "DATA" /\ ~ Refused(m)
          /\ local_out' = local_out \o Take(r, m.len) /\ rx_ring' = Drop(r, m.len)
          /\ send_window_update(m.len, recv_window - m.len) /\ toClient' = Tail(toClient)
          /\ UNCHANGED <<state, send_window, tx_ring, pc, bev, read_on, up, peer>>
      BY <1>7 DEF HandleDataTunnel, Deliver
    <2>2. m.len \in 0..Frame /\ m.len <= recv_window
      BY <1>0, <1>c, <2>1, HalfFacts DEF Refused, TypeOK
    <2>3. /\ r \in Seq(Nat) /\ m.len \in 0..Len(r)
      BY <1>0, <1>a, <2>1, ConcatFacts DEF TypeOK
    <2>4. Take(r, m.len) \in Seq(Nat) /\ Drop(r, m.len) \in Seq(Nat)
      <3> HIDE DEF r, m
      <3> QED
        BY <2>3, TakeDrop
    <2>5. local_out' \in Seq(Nat)
      <3> HIDE DEF r, m
      <3> QED
        BY <1>0, <2>1, <2>4, ConcatFacts DEF TypeOK
    <2>6. /\ recv_window' \in 0..MaxWindow
          /\ \/ toPeer' = toPeer
             \/ \E n \in Nat : toPeer' = Append(toPeer, WinUpdate("ZERO", n))
      <3> HIDE DEF m
      <3> QED
        BY <1>0, <2>1, <2>2, WindowUpdateFacts
    <2>7. toPeer' \in Seq(FrameSet)
      BY <1>0, <2>6, FrameTypes, AppendFacts
    <2>8. toClient' \in Seq(FrameSet)
      BY <1>a, <2>1
    <2> HIDE DEF r, m
    <2> QED
      BY <1>0, <2>1, <2>4, <2>5, <2>6, <2>7, <2>8 DEF TypeOK
  <1>8. ASSUME NEW b \in BOOLEAN, HandleDataControl(b) PROVE TypeOK'
    <2> DEFINE m == Head(toClient)
               r == rx_ring \o m.bytes
    <2>1. /\ toClient # <<>> /\ m.type = "DATA" /\ ~ Refused(m)
          /\ rx_ring' = Drop(r, m.len) /\ read_on' = b /\ bev' \in {"open", "none"}
          /\ send_window_update(m.len, recv_window - m.len) /\ toClient' = Tail(toClient)
          /\ UNCHANGED <<state, send_window, tx_ring, pc, local_out, up, peer>>
      BY <1>8 DEF HandleDataControl
    <2>2. m.len \in 0..Frame /\ m.len <= recv_window
      BY <1>0, <1>c, <2>1, HalfFacts DEF Refused, TypeOK
    <2>3. /\ r \in Seq(Nat) /\ m.len \in 0..Len(r)
      BY <1>0, <1>a, <2>1, ConcatFacts DEF TypeOK
    <2>4. Drop(r, m.len) \in Seq(Nat)
      <3> HIDE DEF r, m
      <3> QED
        BY <2>3, TakeDrop
    <2>6. /\ recv_window' \in 0..MaxWindow
          /\ \/ toPeer' = toPeer
             \/ \E n \in Nat : toPeer' = Append(toPeer, WinUpdate("ZERO", n))
      <3> HIDE DEF m
      <3> QED
        BY <1>0, <2>1, <2>2, WindowUpdateFacts
    <2>7. toPeer' \in Seq(FrameSet)
      BY <1>0, <2>6, FrameTypes, AppendFacts
    <2>8. toClient' \in Seq(FrameSet)
      BY <1>a, <2>1
    <2> HIDE DEF r, m
    <2> QED
      BY <1>0, <2>1, <2>4, <2>6, <2>7, <2>8 DEF TypeOK
  <1>9. CASE HandleDataTunnelFails
    BY <1>0, <1>a, <1>9 DEF HandleDataTunnelFails, TypeOK, stream, Aborts
  <1>10. CASE HandleAbandoned
    BY <1>0, <1>a, <1>10 DEF HandleAbandoned, TypeOK, stream, client
  <1>11. CASE ConnectionCleared
    <2>1. peer' \in PeerSet
      BY <1>0, <1>11 DEF ConnectionCleared, TypeOK, PeerSet
    <2>2. toPeer' \in Seq(FrameSet) /\ toClient' \in Seq(FrameSet)
      BY <1>11 DEF ConnectionCleared
    <2>3. pc' = "freed" /\ bev' = "null" /\ read_on' = FALSE
      BY <1>11 DEF ConnectionCleared
    <2> QED
      BY <1>0, <1>11, <2>1, <2>2, <2>3 DEF ConnectionCleared, TypeOK, stream
  <1>d. ASSUME NEW x \in FrameSet, PeerSays(x) PROVE toClient' \in Seq(FrameSet)
    BY <1>0, <1>d, AppendFacts DEF PeerSays
  <1>12. CASE PeerAccept
    <2>1. toClient' \in Seq(FrameSet)
      BY <1>d, <1>12, FrameTypes DEF PeerAccept
    <2>2. toPeer' \in Seq(FrameSet)
      BY <1>b, <1>12 DEF PeerAccept
    <2>p. peer' \in PeerSet
      BY <1>0, <1>12 DEF PeerAccept, TypeOK, PeerSet
    <2> QED
      BY <1>0, <1>12, <2>1, <2>p, <2>2 DEF PeerAccept, TypeOK, stream, client
  <1>13. CASE PeerRead
    <2> DEFINE m == Head(toPeer)
               u == peer.unacked + Len(m.bytes)
    <2>1. m.bytes \in Seq(Nat) /\ toPeer' \in Seq(FrameSet)
      BY <1>b, <1>13 DEF PeerRead
    <2>2. u \in Nat /\ peer.got \in Seq(Nat)
      BY <1>0, <2>1, SMTT(20) DEF TypeOK, PeerSet
    <2>3. toClient' \in Seq(FrameSet)
      BY <1>0, <1>d, <1>13, <2>2, FrameTypes DEF PeerRead
    <2>4. peer.got \o m.bytes \in Seq(Nat)
      BY <2>1, <2>2, ConcatFacts
    <2>5. peer' = [peer EXCEPT !.got = peer.got \o m.bytes,
                               !.unacked = IF u >= Half THEN 0 ELSE u]
      BY <1>13 DEF PeerRead
    <2>6. peer' \in PeerSet
      <3> HIDE DEF u, m
      <3> QED
        BY <1>0, <2>2, <2>4, <2>5 DEF TypeOK, PeerSet
    <2> QED
      BY <1>0, <1>13, <2>1, <2>3, <2>6 DEF PeerRead, TypeOK, stream, client
  <1>14. CASE PeerStart
    <2>1. toClient' \in Seq(FrameSet)
      <3>1. <<0>> \in Seq(Nat)
        OBVIOUS
      <3>2. DataFrame(1, <<0>>) \in FrameSet
        BY <3>1, FrameTypes
      <3> QED
        BY <1>d, <1>14, <3>2 DEF PeerStart
    <2>2. peer.window - 1 \in Int /\ peer \in PeerSet
      BY <1>0 DEF TypeOK, PeerSet
    <2>3. peer' = [peer EXCEPT !.started = TRUE, !.window = peer.window - 1]
      BY <1>14 DEF PeerStart
    <2>p. peer' \in PeerSet
      BY <2>2, <2>3 DEF PeerSet
    <2> QED
      BY <1>0, <1>14, <2>1, <2>p DEF PeerStart, TypeOK, stream, client
  <1>15. ASSUME NEW n \in 1..Frame, PeerSend(n) PROVE TypeOK'
    <2> DEFINE d == [k \in 1..n |-> peer.down + k]
    <2>0. n \in Nat /\ peer.down \in Nat
      BY <1>0, HalfFacts, SizesAssumption DEF TypeOK, PeerSet
    <2>1. d \in Seq(Nat) /\ n \in Nat
      BY <2>0, Counting
    <2>2. toClient' \in Seq(FrameSet)
      BY <1>d, <1>15, <2>1, FrameTypes DEF PeerSend
    <2>3. peer.down + n \in 0..MaxDown /\ peer.window - n \in Int
      <3>1. peer.down \in Nat /\ peer.window \in Int /\ MaxDown \in Nat
        BY <1>0, SizesAssumption DEF TypeOK, PeerSet
      <3>2. peer.down + n <= MaxDown
        BY <1>15 DEF PeerSend
      <3> QED
        BY <2>1, <3>1, <3>2
    <2>p. peer' \in PeerSet
      BY <1>0, <1>15, <2>3 DEF PeerSend, TypeOK, PeerSet
    <2> QED
      BY <1>0, <1>15, <2>2, <2>p DEF PeerSend, TypeOK, stream, client
  <1>16. CASE PeerRecv
    <2>1. toPeer' \in Seq(FrameSet) /\ Head(toPeer).len \in Nat
      BY <1>b, <1>16 DEF PeerRecv
    <2> DEFINE st == IF Head(toPeer).flag # "FIN" THEN peer.state
                     ELSE IF peer.state = "OPEN" THEN "REMOTE_CLOSE" ELSE "CLOSED"
               w == peer.window + Head(toPeer).len
    <2>2. peer \in PeerSet /\ w \in Int
          /\ st \in {"LISTEN", "OPEN", "LOCAL_CLOSE", "REMOTE_CLOSE", "CLOSED"}
      BY <1>0, <2>1 DEF TypeOK, PeerSet
    <2>3. peer' = [peer EXCEPT !.window = w, !.state = st]
      BY <1>16 DEF PeerRecv
    <2>p. peer' \in PeerSet
      <3> HIDE DEF st, w
      <3> QED
        BY <2>2, <2>3 DEF PeerSet
    <2> QED
      BY <1>0, <1>16, <2>1, <2>p DEF PeerRecv, TypeOK, stream, client
  <1>17. CASE PeerDiscard
    BY <1>0, <1>b, <1>17 DEF PeerDiscard, TypeOK, stream, client
  <1>18. CASE PeerFin
    <2>1. toClient' \in Seq(FrameSet)
      BY <1>d, <1>18, FrameTypes DEF PeerFin
    <2>p. peer' \in PeerSet
      BY <1>0, <1>18 DEF PeerFin, TypeOK, PeerSet
    <2> QED
      BY <1>0, <1>18, <2>1, <2>p DEF PeerFin, TypeOK, stream, client
  <1>19. CASE PeerReset
    <2>1. toClient' \in Seq(FrameSet)
      BY <1>d, <1>19, FrameTypes DEF PeerReset
    <2>p. peer' \in PeerSet
      BY <1>0, <1>19 DEF PeerReset, TypeOK, PeerSet
    <2> QED
      BY <1>0, <1>19, <2>1, <2>p DEF PeerReset, TypeOK, stream, client
  <1>20. CASE UNCHANGED vars
    BY <1>0, <1>20 DEF vars, TypeOK, stream, client
  <1> QED
    BY <1>1, <1>2, <1>3, <1>4, <1>5, <1>6, <1>7, <1>8, <1>9, <1>10, <1>11, <1>12, <1>13,
       <1>14, <1>15, <1>16, <1>17, <1>18, <1>19, <1>20
       DEF Next, HandleFrame, PeerNext

-----------------------------------------------------------------------------
(* The channels                                                              *)

\* What a step may do to the channel from frps.
LEMMA ToClientStep ==
  IInv /\ [Next]_vars =>
    \/ toClient' = toClient
    \/ toClient # <<>> /\ toClient' = Tail(toClient)
    \/ toClient' = <<>> /\ ~ Listed'
    \/ /\ peer.state # "LISTEN" \/ (toPeer # <<>> /\ Head(toPeer).flag = "SYN")
       /\ \E m \in FrameSet : PeerFrame(m) /\ toClient' = Append(toClient, m)
  <1> DEFINE Said == /\ peer.state # "LISTEN" \/ (toPeer # <<>> /\ Head(toPeer).flag = "SYN")
                     /\ \E m \in FrameSet : PeerFrame(m) /\ toClient' = Append(toClient, m)
             Goal == \/ toClient' = toClient
                     \/ toClient # <<>> /\ toClient' = Tail(toClient)
                     \/ toClient' = <<>> /\ ~ Listed'
                     \/ Said
  <1> SUFFICES ASSUME IInv, [Next]_vars PROVE Goal
    OBVIOUS
  <1>t. TypeOK
    BY DEF IInv
  <1>1. CASE Open \/ (\E n \in 1..Chunk : LocalRead(n)) \/ HandleDataOverflow
             \/ (\E what \in {"EOF", "ERROR"} : LocalEvent(what)) \/ PeerRecv \/ PeerDiscard
             \/ UNCHANGED vars
    BY <1>1 DEF Open, LocalRead, HandleDataOverflow, LocalEvent, PeerRecv, PeerDiscard, vars
  <1>2. CASE HandleWinUpdate \/ HandleDataKept \/ HandleDataTunnel \/ HandleDataTunnelFails
             \/ HandleAbandoned \/ (\E b \in BOOLEAN : HandleDataControl(b))
    BY <1>2 DEF HandleWinUpdate, HandleDataKept, HandleDataTunnel, HandleDataTunnelFails,
                HandleAbandoned, HandleDataControl
  <1>3. CASE ConnectionCleared
    BY <1>3 DEF ConnectionCleared, Listed
  <1>f. \A f \in {"ACK", "FIN", "RST"} : WinUpdate(f, 0) \in FrameSet /\ PeerFrame(WinUpdate(f, 0))
    BY FrameTypes DEF PeerFrame, WinUpdate
  <1>4. CASE PeerAccept
    BY <1>4, <1>f DEF PeerAccept, PeerSays
  <1>5. CASE PeerFin \/ PeerReset
    <2>1. /\ peer.state # "LISTEN"
          /\ \/ toClient' = Append(toClient, WinUpdate("FIN", 0))
             \/ toClient' = Append(toClient, WinUpdate("RST", 0))
      BY <1>5 DEF PeerFin, PeerReset, PeerSays
    <2>2. \E m \in FrameSet : PeerFrame(m) /\ toClient' = Append(toClient, m)
      BY <2>1, <1>f
    <2> QED
      BY <2>1, <2>2
  <1>6. CASE PeerRead
    <2> DEFINE u == peer.unacked + Len(Head(toPeer).bytes)
    <2>1. peer.state # "LISTEN" /\ toPeer # <<>>
          /\ IF u >= Half THEN PeerSays(WinUpdate("ZERO", u)) ELSE UNCHANGED toClient
      BY <1>6 DEF PeerRead
    <2>2. u \in Nat
      BY <1>t, <2>1, TailFacts, FrameFields, SMTT(20) DEF TypeOK, PeerSet
    <2>3. u >= Half => WinUpdate("ZERO", u) \in FrameSet /\ PeerFrame(WinUpdate("ZERO", u))
      BY <2>2, FrameTypes DEF PeerFrame, WinUpdate
    <2> QED
      BY <2>1, <2>3 DEF PeerSays
  <1>7. CASE PeerStart
    <2>1. <<0>> \in Seq(Nat) /\ Len(<<0>>) = 1 /\ 1 \in 1..Frame
      BY HalfFacts
    <2>2. DataFrame(1, <<0>>) \in FrameSet /\ PeerFrame(DataFrame(1, <<0>>))
      BY <2>1, FrameTypes DEF PeerFrame, DataFrame
    <2> QED
      <3>1. peer.state # "LISTEN" /\ toClient' = Append(toClient, DataFrame(1, <<0>>))
        BY <1>7 DEF PeerStart, PeerSays
      <3>2. \E m \in FrameSet : PeerFrame(m) /\ toClient' = Append(toClient, m)
        BY <2>2, <3>1
      <3> QED
        BY <3>1, <3>2
  <1>8. ASSUME NEW n \in 1..Frame, PeerSend(n)
        PROVE Goal
    <2> DEFINE d == [k \in 1..n |-> peer.down + k]
    <2>1. n \in Nat /\ peer.down \in Nat
      BY <1>t, HalfFacts, SizesAssumption DEF TypeOK, PeerSet
    <2>2. d \in Seq(Nat) /\ Len(d) = n
      BY <2>1, Counting
    <2>3. toClient' = Append(toClient, DataFrame(n, d)) /\ peer.state # "LISTEN"
      BY <1>8 DEF PeerSend, PeerSays
    <2> HIDE DEF d
    <2>4. DataFrame(n, d) \in FrameSet /\ PeerFrame(DataFrame(n, d))
      BY <2>1, <2>2, FrameTypes DEF PeerFrame, DataFrame
    <2>5. \E m \in FrameSet : PeerFrame(m) /\ toClient' = Append(toClient, m)
      BY <2>3, <2>4
    <2> QED
      BY <2>3, <2>5
  <1> HIDE DEF Goal
  <1> QED
    BY <1>1, <1>2, <1>3, <1>4, <1>5, <1>6, <1>7, <1>8 DEF Next, HandleFrame, PeerNext

\* frps goes on sending frames of the expected kind.
LEMMA NextPeerFrames == IInv /\ [Next]_vars => PeerFrames'
  <1> SUFFICES ASSUME IInv, [Next]_vars, NEW k \in 1..Len(toClient') PROVE PeerFrame(toClient'[k])
    BY DEF PeerFrames, PeerFrame
  <1>t. TypeOK /\ PeerFrames /\ toClient \in Seq(FrameSet)
    BY DEF IInv, TypeOK
  <1>1. CASE toClient' = toClient
    BY <1>1, <1>t DEF PeerFrames
  <1>2. CASE toClient # <<>> /\ toClient' = Tail(toClient)
    BY <1>2, <1>t, TailFacts DEF PeerFrames
  <1>3. CASE toClient' = <<>>
    BY <1>3
  <1>4. ASSUME NEW m \in FrameSet, PeerFrame(m), toClient' = Append(toClient, m)
        PROVE  PeerFrame(toClient'[k])
    BY <1>4, <1>t, AppendFacts DEF PeerFrames
  <1> QED
    BY <1>1, <1>2, <1>3, <1>4, ToClientStep

-----------------------------------------------------------------------------
(* tmux_stream_write                                                         *)

\* What one call of tmux_stream_write by tcp_proxy_c2s_cb does: it sends what
\* it announces, the ring keeps its bound, and reading goes on only if all
\* was admitted.
LEMMA WriteFacts ==
  ASSUME IInv, Listed, bev = "open", read_on, NEW d \in Seq(Nat), Len(d) \in 1..Chunk
  PROVE  /\ Len(Payload(d)) = Admitted(d) /\ ~ AppendFails(d)
         /\ Len(Leftover(d)) <= 2 * Chunk
         /\ state # "REMOTE_CLOSE" => Len(Leftover(d)) <= Chunk
         /\ Leftover(d) # <<>> => send_window - Admitted(d) = 0
         /\ Admitted(d) >= Len(d) /\ send_window - Admitted(d) = 0 => Leftover(d) = <<>>
         /\ Admitted(d) < Len(d) => send_window - Admitted(d) = 0
  <1> DEFINE n == Len(d)
             z == Len(tx_ring)
             all == tx_ring \o d
  <1>1. /\ n \in Nat /\ n >= 1 /\ n <= Chunk /\ z \in Nat /\ send_window \in Nat
        /\ tx_ring \in Seq(Nat) /\ (z = 0 <=> tx_ring = <<>>)
    BY HalfFacts DEF IInv, TypeOK
  <1>2. all \in Seq(Nat) /\ Len(all) = z + n
    BY <1>1, ConcatFacts
  <1>3. ~ Shut /\ z <= 2 * Chunk
    BY DEF IInv, RingInv, Shut
  <1>4. Admitted(d) = Smaller(send_window, z + n)
    BY <1>3 DEF Admitted
  <1>5. \A t \in Seq(Nat) : Len(t) = 0 => t = <<>>
    OBVIOUS
  <1>6. CASE send_window = 0
    <2>1. Admitted(d) = 0 /\ ~ Splits(d)
      BY <1>1, <1>4, <1>6 DEF Smaller, Splits
    <2>2. Len(Take(all, 0)) = 0 /\ Len(Drop(all, 0)) = z + n
      <3>1. 0 \in 0..Len(all)
        BY <1>1, <1>2
      <3> HIDE DEF all, z, n
      <3>2. /\ Len(Take(all, 0)) = 0 /\ Len(Drop(all, 0)) = Len(all) - (0)
            /\ Drop(all, 0) \in Seq(Nat)
        BY <1>2, <3>1, TakeDrop
      <3> QED
        BY <1>1, <1>2, <3>2
    <2>3. Payload(d) = Take(all, 0) /\ Leftover(d) = Drop(all, 0)
      BY <1>3, <2>1 DEF Payload, Leftover
    <2>4. z = 0 \/ (state = "REMOTE_CLOSE" /\ z <= Chunk)
      BY <1>1, <1>6 DEF IInv, RingInv
    <2>5. z + n <= 2 * Chunk /\ z + n <= RingSize /\ (state # "REMOTE_CLOSE" => z + n <= Chunk)
      BY <1>1, <2>4, HalfFacts, SizesAssumption
    <2>6. ~ AppendFails(d)
      BY <1>1, <2>1, <2>2, <2>3, <2>5, HalfFacts DEF AppendFails
    <2>7. /\ Len(Payload(d)) = 0 /\ Len(Leftover(d)) = z + n
          /\ send_window - Admitted(d) = 0 /\ Admitted(d) < n /\ ~ (Admitted(d) >= n)
      BY <1>1, <1>6, <2>1, <2>2, <2>3
    <2> HIDE DEF z, n
    <2> QED
      BY <2>1, <2>5, <2>6, <2>7 DEF n
  <1>7. CASE send_window >= z + n
    <2>1. Admitted(d) = z + n /\ ~ Splits(d)
      BY <1>1, <1>4, <1>7 DEF Smaller, Splits
    <2>2. Len(Take(all, z + n)) = z + n /\ Len(Drop(all, z + n)) = 0 /\ Drop(all, z + n) \in Seq(Nat)
      <3>1. z + n \in 0..Len(all)
        BY <1>1, <1>2
      <3> HIDE DEF all, z, n
      <3>2. /\ Len(Take(all, z + n)) = z + n /\ Len(Drop(all, z + n)) = Len(all) - (z + n)
            /\ Drop(all, z + n) \in Seq(Nat)
        BY <1>2, <3>1, TakeDrop
      <3> QED
        BY <1>1, <1>2, <3>2
    <2>3. Payload(d) = Take(all, z + n) /\ Leftover(d) = Drop(all, z + n)
      BY <1>3, <2>1 DEF Payload, Leftover
    <2>4. Leftover(d) = <<>> /\ Len(Leftover(d)) = 0
      BY <1>5, <2>2, <2>3
    <2>5. ~ AppendFails(d)
      BY <2>1, <2>4, HalfFacts DEF AppendFails
    <2> QED
      BY <1>1, <2>1, <2>2, <2>3, <2>4, <2>5, HalfFacts
  <1>8. CASE send_window > 0 /\ send_window < z + n
    <2>1. z = 0 /\ tx_ring = <<>> /\ send_window < n
      <3>1. tx_ring # <<>> => send_window >= Half
        <4>1. tx_ring # <<>> => send_window = 0 \/ send_window >= Half
          BY DEF IInv, RingInv
        <4> QED
          BY <1>1, <1>8, <4>1
      <3>2. Half >= z + n
        BY <1>1, <1>3, HalfFacts, SizesAssumption
      <3> QED
        BY <1>1, <1>8, <3>1, <3>2, HalfFacts
    <2>2. Admitted(d) = send_window /\ Splits(d) /\ Smaller(send_window, Len(d)) = send_window
      BY <1>1, <1>4, <1>8, <2>1 DEF Smaller, Splits
    <2>3. /\ Take(d, send_window) \in Seq(Nat) /\ Len(Take(d, send_window)) = send_window
          /\ Len(Drop(d, send_window)) = n - send_window
      <3>1. send_window \in 0..Len(d)
        BY <1>1, <2>1
      <3> QED
        BY <3>1, TakeDrop
    <2>4. Len(Payload(d)) = send_window
      <3>1. Payload(d) = tx_ring \o Take(d, send_window)
        BY <2>2 DEF Payload
      <3> QED
        BY <1>1, <2>1, <2>3, <3>1, ConcatFacts
    <2>5. Leftover(d) = Drop(d, send_window)
      BY <1>3, <2>2 DEF Leftover
    <2>6. ~ AppendFails(d)
      BY <1>1, <1>3, <1>8, <2>1, <2>3, <2>5, HalfFacts, SizesAssumption DEF AppendFails
    <2>7. /\ Len(Leftover(d)) <= Chunk /\ Len(Leftover(d)) <= 2 * Chunk
          /\ send_window - Admitted(d) = 0 /\ ~ (Admitted(d) >= Len(d))
          /\ Len(Payload(d)) = Admitted(d)
      BY <1>1, <1>8, <2>1, <2>2, <2>3, <2>4, <2>5, HalfFacts
    <2> QED
      BY <2>6, <2>7
  <1> QED
    BY <1>1, <1>6, <1>7, <1>8

-----------------------------------------------------------------------------
(* What the client sends                                                     *)

\* What a step may do to the channel to frps.
ClientSays(m) ==
  /\ toPeer' = Append(toPeer, m) /\ Honest(m) /\ m.flag \in {"ZERO", "FIN"}
  /\ Listed /\ (bev = "open" \/ state = "ESTABLISHED")
  /\ state \in {"ESTABLISHED", "REMOTE_CLOSE"}
  /\ m.flag = "FIN" /\ Listed' => bev' # "open" /\ state' = "LOCAL_CLOSE"

LEMMA ToPeerStep ==
  IInv /\ [Next]_vars =>
    \/ toPeer' = toPeer
    \/ toPeer # <<>> /\ toPeer' = Tail(toPeer)
    \/ toPeer' = <<>>
    \/ Open
    \/ \E m \in FrameSet : ClientSays(m)
  <1> DEFINE Goal == \/ toPeer' = toPeer
                     \/ toPeer # <<>> /\ toPeer' = Tail(toPeer)
                     \/ toPeer' = <<>>
                     \/ Open
                     \/ \E m \in FrameSet : ClientSays(m)
  <1> SUFFICES ASSUME IInv, [Next]_vars PROVE Goal
    OBVIOUS
  <1>t. TypeOK /\ RingInv /\ PeerFrames /\ toClient \in Seq(FrameSet)
    BY DEF IInv, TypeOK
  <1>h. /\ \A n \in Nat : WinUpdate("ZERO", n) \in FrameSet /\ Honest(WinUpdate("ZERO", n))
                           /\ WinUpdate("ZERO", n).flag = "ZERO"
        /\ WinUpdate("FIN", 0) \in FrameSet /\ Honest(WinUpdate("FIN", 0))
        /\ WinUpdate("FIN", 0).flag = "FIN"
        /\ GoAway \in FrameSet /\ Honest(GoAway) /\ GoAway.flag = "ZERO"
    BY FrameTypes DEF Honest, WinUpdate, GoAway
  <1>1. CASE HandleDataOverflow \/ HandleWinUpdate \/ HandleDataTunnelFails \/ HandleAbandoned
             \/ PeerStart \/ (\E n \in 1..Frame : PeerSend(n)) \/ PeerFin \/ PeerReset
             \/ UNCHANGED vars
    BY <1>1 DEF HandleDataOverflow, HandleWinUpdate, HandleDataTunnelFails, HandleAbandoned,
                PeerStart, PeerSend, PeerFin, PeerReset, vars
  <1>2. CASE PeerAccept \/ PeerRead \/ PeerRecv \/ PeerDiscard \/ ConnectionCleared
    BY <1>2 DEF PeerAccept, PeerRead, PeerRecv, PeerDiscard, ConnectionCleared
  <1>3. ASSUME NEW n \in 1..Chunk, LocalRead(n) PROVE Goal
    <2> DEFINE d == [k \in 1..n |-> up + k]
    <2>a. up \in Nat /\ n \in Nat /\ n \in 1..Chunk
      BY <1>t, <1>3, SizesAssumption DEF TypeOK
    <2>1. d \in Seq(Nat) /\ Len(d) = n /\ Len(d) \in 1..Chunk
      BY <2>a, Counting
    <2>2. tmux_stream_write(d) /\ Listed /\ bev = "open" /\ read_on
      BY <1>3 DEF LocalRead
    <2> HIDE DEF d
    <2>3. Len(Payload(d)) = Admitted(d)
      BY <2>1, <2>2, WriteFacts
    <2>4. Admitted(d) \in Nat /\ Payload(d) \in Seq(Nat)
      BY <1>t, <2>1, WriteTypes
    <2>5. /\ DataFrame(Admitted(d), Payload(d)) \in FrameSet
          /\ Honest(DataFrame(Admitted(d), Payload(d)))
          /\ DataFrame(Admitted(d), Payload(d)).flag = "ZERO"
      BY <2>3, <2>4, FrameTypes DEF Honest, DataFrame
    <2>6. toPeer' = toPeer \/ toPeer' = Append(toPeer, DataFrame(Admitted(d), Payload(d)))
      BY <2>2 DEF tmux_stream_write
    <2>7. state \in {"ESTABLISHED", "REMOTE_CLOSE"}
      BY <1>t, <2>2 DEF RingInv
    <2> QED
      BY <2>2, <2>5, <2>6, <2>7 DEF ClientSays
  <1>4. ASSUME NEW what \in {"EOF", "ERROR"}, LocalEvent(what) PROVE Goal
    <2>1. /\ toPeer' = Append(toPeer, WinUpdate("FIN", 0)) /\ Listed /\ bev = "open"
          /\ bev' = "null" /\ (Listed' => state' = "LOCAL_CLOSE")
      BY <1>4 DEF LocalEvent, tmux_stream_close, FreeBev, Listed
    <2>2. state \in {"ESTABLISHED", "REMOTE_CLOSE"}
      BY <1>t, <2>1 DEF RingInv
    <2>3. ClientSays(WinUpdate("FIN", 0))
      BY <1>h, <2>1, <2>2 DEF ClientSays
    <2> QED
      BY <1>h, <2>3
  <1>5. CASE HandleDataKept
    <2>1. Listed /\ (toPeer' = toPeer \/ (toPeer' = Append(toPeer, GoAway) /\ state = "ESTABLISHED"))
      BY <1>5 DEF HandleDataKept
    <2> QED
      BY <1>h, <2>1 DEF ClientSays
  <1>6. ASSUME NEW b \in BOOLEAN, HandleDataTunnel \/ HandleDataControl(b) PROVE Goal
    <2> DEFINE m == Head(toClient)
    <2>1. /\ Listed /\ state = "ESTABLISHED" /\ toClient # <<>> /\ m.type = "DATA" /\ ~ Refused(m)
          /\ send_window_update(m.len, recv_window - m.len)
      BY <1>6 DEF HandleDataTunnel, HandleDataControl
    <2>2. m = toClient[1] /\ 1 \in 1..Len(toClient)
      BY <1>t, <2>1, TailFacts
    <2>3. PeerFrame(m)
      BY <1>t, <2>2 DEF PeerFrames
    <2>4. m.len \in 0..Frame /\ m.len <= recv_window
      BY <1>t, <2>1, <2>3, HalfFacts DEF PeerFrame, Refused, TypeOK
    <2> HIDE DEF m
    <2>5. toPeer' = toPeer \/ \E n \in Nat : toPeer' = Append(toPeer, WinUpdate("ZERO", n))
      BY <1>t, <2>1, <2>4, WindowUpdateFacts
    <2>6. ASSUME NEW n \in Nat, toPeer' = Append(toPeer, WinUpdate("ZERO", n)) PROVE Goal
      <3>1. ClientSays(WinUpdate("ZERO", n))
        BY <1>h, <2>1, <2>6 DEF ClientSays
      <3> QED
        BY <1>h, <3>1
    <2> QED
      BY <2>5, <2>6
  <1>7. CASE Open
    BY <1>7
  <1> HIDE DEF Goal
  <1> QED
    BY <1>1, <1>2, <1>3, <1>4, <1>5, <1>6, <1>7 DEF Next, HandleFrame, PeerNext

\* Every DATA frame the client sends is as long as it says.
LEMMA NextFramesHonest == IInv /\ [Next]_vars => FramesHonest'
  <1> SUFFICES ASSUME IInv, [Next]_vars, NEW k \in 1..Len(toPeer') PROVE Honest(toPeer'[k])
    BY DEF FramesHonest, Honest
  <1>t. toPeer \in Seq(FrameSet) /\ \A j \in 1..Len(toPeer) : Honest(toPeer[j])
    BY DEF IInv, TypeOK, FramesHonest, Honest
  <1>1. CASE toPeer' = toPeer \/ toPeer' = <<>>
    BY <1>1, <1>t
  <1>2. CASE toPeer # <<>> /\ toPeer' = Tail(toPeer)
    BY <1>2, <1>t, TailFacts
  <1>3. CASE Open
    <2>1. /\ toPeer' = <<WinUpdate("SYN", MaxWindow - recv_window), DataFrame(1, <<0>>)>>
          /\ k \in {1, 2}
      BY <1>3 DEF Open
    <2>2. /\ toPeer'[1] = WinUpdate("SYN", MaxWindow - recv_window)
          /\ toPeer'[2] = DataFrame(1, <<0>>)
      BY <2>1
    <2>3. Len(<<>>) = 0 /\ Len(<<0>>) = 1
      OBVIOUS
    <2>4. Honest(WinUpdate("SYN", MaxWindow - recv_window)) /\ Honest(DataFrame(1, <<0>>))
      BY <2>3 DEF Honest, WinUpdate, DataFrame
    <2> QED
      BY <2>1, <2>2, <2>4
  <1>4. ASSUME NEW m \in FrameSet, ClientSays(m) PROVE Honest(toPeer'[k])
    BY <1>4, <1>t, AppendFacts DEF ClientSays
  <1> QED
    BY <1>1, <1>2, <1>3, <1>4, ToPeerStep

-----------------------------------------------------------------------------
(* FIN and SYN                                                               *)

\* A freed client is not revived, the tunnel opens once, and a closed stream
\* does not come back to an earlier state.
LEMMA NoRevival ==
  IInv /\ [Next]_vars =>
    /\ Listed' => Listed
    /\ bev' = "open" => bev = "open" \/ state = "ESTABLISHED"
    /\ state' \in {"INIT", "SYN_SEND", "ESTABLISHED"} =>
         state \in {"INIT", "SYN_SEND", "ESTABLISHED"}
    /\ state' = "INIT" => state = "INIT"
  <1> SUFFICES ASSUME IInv, [Next]_vars
               PROVE  /\ Listed' => Listed
                      /\ bev' = "open" => bev = "open" \/ state = "ESTABLISHED"
                      /\ state' \in {"INIT", "SYN_SEND", "ESTABLISHED"} =>
                           state \in {"INIT", "SYN_SEND", "ESTABLISHED"}
                      /\ state' = "INIT" => state = "INIT"
    OBVIOUS
  <1>1. CASE UNCHANGED <<stream, client>>
    BY <1>1 DEF stream, client, Listed
  <1>2. CASE PeerNext \/ HandleAbandoned \/ UNCHANGED vars
    <2>1. UNCHANGED <<stream, client>>
      BY <1>2 DEF PeerNext, PeerAccept, PeerRead, PeerStart, PeerSend, PeerRecv, PeerDiscard,
                  PeerFin, PeerReset, HandleAbandoned, vars
    <2> QED
      BY <1>1, <2>1
  <1>3. CASE Open
    BY <1>3 DEF Open, client, Listed
  <1>4. CASE \E n \in 1..Chunk : LocalRead(n)
    BY <1>4 DEF LocalRead, Listed
  <1>5. CASE \E what \in {"EOF", "ERROR"} : LocalEvent(what)
    BY <1>5 DEF LocalEvent, tmux_stream_close, Listed
  <1>6. CASE HandleWinUpdate
    BY <1>6 DEF HandleWinUpdate, Listed, AfterFlags
  <1>7. CASE HandleDataOverflow \/ HandleDataKept \/ HandleDataTunnel \/ HandleDataTunnelFails
    BY <1>7 DEF HandleDataOverflow, HandleDataKept, HandleDataTunnel, HandleDataTunnelFails,
                stream, client, Listed
  <1>8. CASE \E b \in BOOLEAN : HandleDataControl(b)
    BY <1>8 DEF HandleDataControl, Listed
  <1>9. CASE ConnectionCleared
    BY <1>9 DEF ConnectionCleared, Listed, stream
  <1> QED
    BY <1>2, <1>3, <1>4, <1>5, <1>6, <1>7, <1>8, <1>9 DEF Next, HandleFrame

\* The two frames of Open.
LEMMA OpenFrames ==
  Open => /\ Len(toPeer') = 2
          /\ toPeer'[1].flag = "SYN" /\ toPeer'[2].flag = "ZERO"
  <1> SUFFICES ASSUME Open PROVE /\ Len(toPeer') = 2
                                 /\ toPeer'[1].flag = "SYN" /\ toPeer'[2].flag = "ZERO"
    OBVIOUS
  <1>1. toPeer' = <<WinUpdate("SYN", MaxWindow - recv_window), DataFrame(1, <<0>>)>>
    BY DEF Open
  <1>2. /\ toPeer'[1] = WinUpdate("SYN", MaxWindow - recv_window)
        /\ toPeer'[2] = DataFrame(1, <<0>>) /\ Len(toPeer') = 2
    BY <1>1
  <1> QED
    BY <1>2 DEF WinUpdate, DataFrame

\* FIN stays the last frame of the stream.
LEMMA NextFinInv == IInv /\ [Next]_vars => FinInv'
  <1> SUFFICES ASSUME IInv, [Next]_vars, NEW k \in 1..Len(toPeer'), toPeer'[k].flag = "FIN"
               PROVE  /\ k = Len(toPeer')
                      /\ Listed' => bev' # "open" /\ state' \notin {"INIT", "SYN_SEND", "ESTABLISHED"}
    BY DEF FinInv, FinIsLast
  <1>t. toPeer \in Seq(FrameSet) /\ Len(toPeer) \in Nat
    BY DEF IInv, TypeOK
  <1>i. \A j \in 1..Len(toPeer) : toPeer[j].flag = "FIN" =>
          /\ j = Len(toPeer)
          /\ Listed => bev # "open" /\ state \notin {"INIT", "SYN_SEND", "ESTABLISHED"}
    BY DEF IInv, FinInv, FinIsLast
  <1>n. ASSUME NEW j \in 1..Len(toPeer), toPeer[j].flag = "FIN"
        PROVE  Listed' => bev' # "open" /\ state' \notin {"INIT", "SYN_SEND", "ESTABLISHED"}
    BY <1>i, <1>n, NoRevival
  <1>1. CASE toPeer' = toPeer
    BY <1>1, <1>i, <1>n
  <1>2. CASE toPeer # <<>> /\ toPeer' = Tail(toPeer)
    <2>1. /\ Len(toPeer') = Len(toPeer) - 1 /\ toPeer'[k] = toPeer[k + 1]
          /\ k + 1 \in 1..Len(toPeer)
      BY <1>2, <1>t, TailFacts
    <2>2. k + 1 = Len(toPeer)
      BY <1>i, <2>1
    <2> QED
      BY <1>t, <1>n, <2>1, <2>2
  <1>3. CASE toPeer' = <<>>
    BY <1>3
  <1>4. CASE Open
    <2>1. k = 1 \/ k = 2
      BY <1>4, OpenFrames
    <2> QED
      BY <1>4, <2>1, OpenFrames
  <1>5. ASSUME NEW m \in FrameSet, ClientSays(m)
        PROVE  /\ k = Len(toPeer')
               /\ Listed' => bev' # "open" /\ state' \notin {"INIT", "SYN_SEND", "ESTABLISHED"}
    <2>1. /\ Len(toPeer') = Len(toPeer) + 1 /\ toPeer'[Len(toPeer) + 1] = m
          /\ \A j \in 1..Len(toPeer) : toPeer'[j] = toPeer[j]
          /\ k \in 1..Len(toPeer) \/ k = Len(toPeer) + 1
      BY <1>5, <1>t, AppendFacts DEF ClientSays
    <2>2. Listed /\ (bev = "open" \/ state = "ESTABLISHED")
      BY <1>5 DEF ClientSays
    <2>3. k = Len(toPeer) + 1 /\ m.flag = "FIN"
      BY <1>i, <2>1, <2>2
    <2>4. Listed' => bev' # "open" /\ state' = "LOCAL_CLOSE"
      BY <1>5, <2>3 DEF ClientSays
    <2> QED
      BY <2>1, <2>3, <2>4
  <1> QED
    BY <1>1, <1>2, <1>3, <1>4, <1>5, ToPeerStep

\* While the SYN is under way, only frps can answer it.
LEMMA SynPending ==
  IInv /\ [Next]_vars /\ toPeer # <<>> /\ toPeer[1].flag = "SYN" =>
    UNCHANGED vars \/ ConnectionCleared \/ PeerAccept
  <1> SUFFICES ASSUME IInv, [Next]_vars, toPeer # <<>>, toPeer[1].flag = "SYN"
               PROVE  UNCHANGED vars \/ ConnectionCleared \/ PeerAccept
    OBVIOUS
  <1>1. toPeer \in Seq(FrameSet) /\ 1 \in 1..Len(toPeer) /\ Head(toPeer) = toPeer[1]
    BY TailFacts DEF IInv, TypeOK
  <1>2. Listed /\ state = "SYN_SEND" /\ peer.state = "LISTEN"
    BY <1>1 DEF IInv, SynFirst
  <1>3. bev = "none" /\ toClient = <<>>
    BY <1>2 DEF IInv, Handshake
  <1>4. ~ Open /\ ~ (\E n \in 1..Chunk : LocalRead(n))
        /\ ~ (\E what \in {"EOF", "ERROR"} : LocalEvent(what))
    BY <1>2, <1>3 DEF Open, LocalRead, LocalEvent
  <1>5. ~ HandleFrame
    BY <1>2, <1>3 DEF HandleFrame, HandleWinUpdate, HandleDataOverflow, HandleDataKept,
                      HandleDataTunnel, HandleDataTunnelFails, HandleDataControl, HandleAbandoned
  <1>6. PeerNext => PeerAccept
    BY <1>1, <1>2 DEF PeerNext, PeerRead, PeerStart, PeerSend, PeerRecv, PeerDiscard, PeerFin,
                      PeerReset
  <1> QED
    BY <1>4, <1>5, <1>6 DEF Next

\* The SYN stays first, and pending until frps answers.
LEMMA NextSynFirst == IInv /\ [Next]_vars => SynFirst'
  <1> SUFFICES ASSUME IInv, [Next]_vars, NEW k \in 1..Len(toPeer'), toPeer'[k].flag = "SYN"
               PROVE  k = 1 /\ Listed' /\ state' = "SYN_SEND" /\ peer'.state = "LISTEN"
    BY DEF SynFirst
  <1>t. toPeer \in Seq(FrameSet) /\ Len(toPeer) \in Nat
    BY DEF IInv, TypeOK
  <1>i. \A j \in 1..Len(toPeer) : toPeer[j].flag = "SYN" =>
          j = 1 /\ Listed /\ state = "SYN_SEND" /\ peer.state = "LISTEN"
    BY DEF IInv, SynFirst
  <1>1. CASE toPeer' = toPeer
    <2>1. k = 1 /\ toPeer # <<>> /\ toPeer[1].flag = "SYN"
      BY <1>1, <1>t, <1>i
    <2>2. UNCHANGED vars
      <3>1. ~ ConnectionCleared
        BY <1>1, <2>1 DEF ConnectionCleared
      <3>2. ~ PeerAccept
        BY <1>1, <1>t, <2>1, TailFacts DEF PeerAccept
      <3> QED
        BY <2>1, <3>1, <3>2, SynPending
    <2>3. Listed' = Listed /\ state' = state /\ peer' = peer
      BY <2>2 DEF vars, stream, client, Listed
    <2> QED
      BY <1>1, <1>i, <2>1, <2>3
  <1>2. CASE toPeer # <<>> /\ toPeer' = Tail(toPeer)
    <2>1. toPeer'[k] = toPeer[k + 1] /\ k + 1 \in 1..Len(toPeer) /\ k + 1 # 1
      BY <1>2, <1>t, TailFacts
    <2> QED
      BY <1>i, <2>1
  <1>3. CASE toPeer' = <<>>
    BY <1>3
  <1>4. CASE Open
    <2>1. k = 1
      <3>0. Len(toPeer') = 2
        BY <1>4, OpenFrames
      <3>1. k = 1 \/ k = 2
        BY <3>0
      <3> QED
        BY <1>4, <3>1, OpenFrames
    <2>2. Listed /\ state = "INIT" /\ state' = "SYN_SEND" /\ pc' = pc /\ peer' = peer
      BY <1>4 DEF Open, client
    <2>3. peer.state = "LISTEN"
      BY <2>2 DEF IInv, Handshake
    <2> QED
      BY <2>1, <2>2, <2>3 DEF Listed
  <1>5. ASSUME NEW m \in FrameSet, ClientSays(m) PROVE FALSE
    <2>1. /\ toPeer'[Len(toPeer) + 1] = m /\ Len(toPeer') = Len(toPeer) + 1
          /\ \A j \in 1..Len(toPeer) : toPeer'[j] = toPeer[j]
          /\ k \in 1..Len(toPeer) \/ k = Len(toPeer) + 1
      BY <1>5, <1>t, AppendFacts DEF ClientSays
    <2>2. m.flag # "SYN" /\ state # "SYN_SEND"
      BY <1>5 DEF ClientSays
    <2> QED
      BY <1>i, <2>1, <2>2
  <1> QED
    BY <1>1, <1>2, <1>3, <1>4, <1>5, ToPeerStep

-----------------------------------------------------------------------------
(* The handshake                                                             *)

\* What a step of frps other than the answer to the SYN does to its side of
\* the handshake: nothing is said before the answer, and never another ACK.
NoAnswer ==
  /\ (Listed /\ state \in {"INIT", "SYN_SEND"}) =>
       (peer'.state = "LISTEN" <=> peer.state = "LISTEN")
  /\ \/ toClient' = toClient
     \/ /\ peer.state # "LISTEN"
        /\ \E m \in FrameSet : m.flag # "ACK" /\ toClient' = Append(toClient, m)

\* A step of frps leaves the stream and its client alone.
LEMMA PeerStep ==
  IInv /\ PeerNext => /\ UNCHANGED <<stream, client>>
                      /\ PeerAccept \/ NoAnswer
                      /\ toPeer = <<>> => toPeer' = <<>>
  <1> USE DEF NoAnswer
  <1> SUFFICES ASSUME IInv, PeerNext
               PROVE  /\ UNCHANGED <<stream, client>>
                      /\ PeerAccept \/ NoAnswer
                      /\ toPeer = <<>> => toPeer' = <<>>
    OBVIOUS
  <1>t. toPeer \in Seq(FrameSet) /\ toClient \in Seq(FrameSet) /\ peer \in PeerSet
    BY DEF IInv, TypeOK
  <1>1. UNCHANGED <<stream, client>> /\ (toPeer = <<>> => toPeer' = <<>>)
    BY DEF PeerNext, PeerAccept, PeerRead, PeerStart, PeerSend, PeerRecv, PeerDiscard, PeerFin,
           PeerReset
  <1> DEFINE Said == \E m \in FrameSet : m.flag # "ACK" /\ toClient' = Append(toClient, m)
  <1>2. CASE PeerRead
    <2> DEFINE u == peer.unacked + Len(Head(toPeer).bytes)
    <2>1. /\ peer.state = "OPEN" /\ peer'.state = "OPEN" /\ toPeer # <<>>
          /\ toClient' = toClient \/ toClient' = Append(toClient, WinUpdate("ZERO", u))
      BY <1>2, <1>t DEF PeerRead, PeerSays, PeerSet
    <2>2. u \in Nat
      BY <1>t, <2>1, TailFacts, FrameFields DEF PeerSet
    <2>3. WinUpdate("ZERO", u) \in FrameSet /\ WinUpdate("ZERO", u).flag # "ACK"
      BY <2>2, FrameTypes DEF WinUpdate
    <2>4. toClient' = toClient \/ Said
      BY <2>1, <2>3
    <2> QED
      BY <1>1, <2>1, <2>4
  <1>3. CASE PeerStart
    <2>1. /\ peer.state = "OPEN" /\ peer'.state = "OPEN"
          /\ toClient' = Append(toClient, DataFrame(1, <<0>>))
      BY <1>3, <1>t DEF PeerStart, PeerSays, PeerSet
    <2>0. 1 \in Nat /\ <<0>> \in Seq(Nat)
      OBVIOUS
    <2>2. DataFrame(1, <<0>>) \in FrameSet /\ DataFrame(1, <<0>>).flag # "ACK"
      BY <2>0, FrameTypes DEF DataFrame
    <2>3. Said
      BY <2>1, <2>2
    <2> QED
      BY <1>1, <2>1, <2>3
  <1>4. ASSUME NEW n \in 1..Frame, PeerSend(n)
        PROVE  peer.state # "LISTEN" /\ peer'.state # "LISTEN" /\ Said
    <2> DEFINE d == [k \in 1..n |-> peer.down + k]
    <2>a. peer.down \in Nat /\ n \in Nat /\ n \in 1..Frame
      BY <1>t, HalfFacts, SizesAssumption DEF PeerSet
    <2>1. d \in Seq(Nat) /\ n \in Nat
      BY <2>a, Counting
    <2>2. /\ peer.state # "LISTEN" /\ peer'.state = peer.state
          /\ toClient' = Append(toClient, DataFrame(n, d))
      BY <1>4, <1>t DEF PeerSend, PeerSays, PeerSet
    <2> HIDE DEF d
    <2>3. DataFrame(n, d) \in FrameSet /\ DataFrame(n, d).flag # "ACK"
      BY <2>1, FrameTypes DEF DataFrame
    <2>4. Said
      BY <2>2, <2>3
    <2> QED
      BY <2>2, <2>4
  <1>5. CASE PeerRecv
    <2>1. toClient' = toClient
      BY <1>5 DEF PeerRecv
    <2>2. ASSUME Listed, state \in {"INIT", "SYN_SEND"}
          PROVE  peer'.state = "LISTEN" <=> peer.state = "LISTEN"
      <3>1. Head(toPeer).flag # "FIN"
        <4>1. toPeer # <<>> /\ Head(toPeer) = toPeer[1] /\ 1 \in 1..Len(toPeer)
          BY <1>5, <1>t, TailFacts DEF PeerRecv
        <4> QED
          BY <2>2, <4>1 DEF IInv, FinInv
      <3> QED
        BY <1>5, <1>t, <3>1 DEF PeerRecv, PeerSet
    <2> QED
      BY <1>1, <2>1, <2>2
  <1>6. CASE PeerDiscard
    BY <1>1, <1>6 DEF PeerDiscard
  <1>7. CASE PeerFin \/ PeerReset
    <2>1. /\ peer.state # "LISTEN" /\ peer'.state # "LISTEN"
          /\ \/ toClient' = Append(toClient, WinUpdate("FIN", 0))
             \/ toClient' = Append(toClient, WinUpdate("RST", 0))
      BY <1>7, <1>t DEF PeerFin, PeerReset, PeerSays, PeerSet
    <2>2. \A f \in {"FIN", "RST"} : WinUpdate(f, 0) \in FrameSet /\ WinUpdate(f, 0).flag # "ACK"
      BY FrameTypes DEF WinUpdate
    <2>3. Said
      BY <2>1, <2>2
    <2> QED
      BY <1>1, <2>1, <2>3
  <1>8. CASE PeerAccept
    BY <1>1, <1>8
  <1>9. CASE \E n \in 1..Frame : PeerSend(n)
    <2>1. peer.state # "LISTEN" /\ peer'.state # "LISTEN" /\ Said
      BY <1>4, <1>9
    <2> HIDE DEF Said
    <2> QED
      BY <1>1, <2>1 DEF Said
  <1> QED
    BY <1>2, <1>3, <1>5, <1>6, <1>7, <1>8, <1>9 DEF PeerNext

\* Until the answer of frps the stream is untouched.
LEMMA NextHandshake == IInv /\ [Next]_vars => Handshake'
  <1> DEFINE Young(s) == s \in {"INIT", "SYN_SEND"}
             Untouched == /\ bev = "none" /\ ~ read_on /\ tx_ring = <<>>
                          /\ recv_window = MaxWindow /\ send_window >= Half
             Waiting == peer.state = "LISTEN" /\ toClient = <<>>
             Answered == /\ state = "SYN_SEND" /\ peer.state # "LISTEN"
                         /\ toClient # <<>> /\ toClient[1].flag \in {"ACK", "RST"}
                         /\ toClient[1].type = "WINDOW_UPDATE"
             AckFirst == \A k \in 1..Len(toClient) :
                           toClient[k].flag = "ACK" => k = 1 /\ state = "SYN_SEND"
             IsFresh == send_window = MaxWindow /\ (Listed => toPeer = <<>>)
  <1> SUFFICES ASSUME IInv, [Next]_vars
               PROVE  /\ Listed' /\ Young(state') => Untouched' /\ (Waiting \/ Answered)'
                      /\ state' = "INIT" => IsFresh'
                      /\ Listed' => AckFirst'
    BY DEF Handshake
  <1> DEFINE Goal == /\ Listed' /\ Young(state') => Untouched' /\ (Waiting \/ Answered)'
                     /\ state' = "INIT" => IsFresh'
                     /\ Listed' => AckFirst'
  <1> SUFFICES Goal
    OBVIOUS
  <1>t. TypeOK /\ toClient \in Seq(FrameSet) /\ toPeer \in Seq(FrameSet)
    BY DEF IInv, TypeOK
  <1>i. /\ Listed /\ Young(state) => Untouched /\ (Waiting \/ Answered)
        /\ state = "INIT" => IsFresh
        /\ Listed => AckFirst
    BY DEF IInv, Handshake
  <1>h. ASSUME toClient # <<>>, Listed, Young(state)
        PROVE  /\ state = "SYN_SEND" /\ Head(toClient).flag \in {"ACK", "RST"}
               /\ Head(toClient).type = "WINDOW_UPDATE"
    BY <1>t, <1>i, <1>h, TailFacts
  <1>a. ASSUME Listed', ~ Young(state), state' # "SYN_SEND", state' # "INIT",
               toClient' = toClient \/ (toClient # <<>> /\ toClient' = Tail(toClient))
        PROVE  Goal
    <2>1. Listed
      BY <1>a, NoRevival
    <2>2. \A k \in 1..Len(toClient) : toClient[k].flag # "ACK"
      BY <1>a, <1>i, <2>1
    <2>3. AckFirst'
      BY <1>a, <1>t, <2>2, TailFacts
    <2> QED
      BY <1>a, <2>3
  <1>u. CASE UNCHANGED <<stream, client, toClient, toPeer>> /\ UNCHANGED peer
    BY <1>u, <1>i DEF stream, client, Listed
  <1>1. CASE Open
    <2>1. /\ Listed /\ state = "INIT" /\ state' = "SYN_SEND" /\ send_window' = send_window - 1
          /\ UNCHANGED <<recv_window, tx_ring, pc, bev, read_on, toClient, peer>>
      BY <1>1 DEF Open, client
    <2>2. Untouched /\ Waiting /\ send_window = MaxWindow
      BY <1>i, <2>1
    <2>3. send_window' >= Half
      BY <2>1, <2>2, HalfFacts
    <2>4. Untouched' /\ Waiting'
      BY <2>1, <2>2, <2>3
    <2>5. AckFirst'
      BY <2>4
    <2> QED
      BY <2>1, <2>4, <2>5
  <1>2. CASE (\E n \in 1..Chunk : LocalRead(n)) \/ (\E what \in {"EOF", "ERROR"} : LocalEvent(what))
    <2>1. Listed /\ bev = "open" /\ toClient' = toClient
      BY <1>2 DEF LocalRead, LocalEvent
    <2>2. ~ Young(state)
      BY <1>i, <2>1
    <2>3. state' \in {state, "LOCAL_CLOSE", "CLOSED"}
      BY <1>2 DEF LocalRead, LocalEvent, tmux_stream_close
    <2> QED
      BY <1>a, <2>1, <2>2, <2>3
  <1>3. CASE HandleWinUpdate
    <2> DEFINE m == Head(toClient)
    <2>1. /\ Listed /\ toClient # <<>> /\ toClient' = Tail(toClient)
          /\ state' = AfterFlags(m.flag) /\ pc' \in {"null bev", FateOfFlags(m.flag)}
      BY <1>3 DEF HandleWinUpdate
    <2>2. CASE Young(state)
      <3>1. state = "SYN_SEND" /\ m.flag \in {"ACK", "RST"}
        BY <1>h, <2>1, <2>2
      <3>2. state' \notin {"INIT", "SYN_SEND"}
        BY <2>1, <3>1 DEF AfterFlags
      <3>3. ASSUME NEW k \in 1..Len(toClient') PROVE toClient'[k].flag # "ACK"
        <4>0. toClient # <<>> /\ toClient' = Tail(toClient)
          BY <2>1
        <4>1. toClient'[k] = toClient[k + 1] /\ k + 1 \in 1..Len(toClient) /\ k \in Nat
          BY <1>t, <4>0, TailFacts
        <4>2. k + 1 # 1
          BY <4>1
        <4> QED
          BY <1>i, <2>1, <4>1, <4>2
      <3>4. AckFirst'
        BY <3>3
      <3> QED
        BY <3>2, <3>4
    <2>3. CASE ~ Young(state)
      <3>1. state' \notin {"INIT", "SYN_SEND"}
        BY <2>1, <2>3 DEF AfterFlags
      <3> QED
        BY <1>a, <2>1, <2>3, <3>1
    <2> QED
      BY <2>2, <2>3
  <1>4. CASE HandleDataKept \/ HandleDataTunnel \/ HandleDataOverflow \/ HandleDataTunnelFails
             \/ (\E b \in BOOLEAN : HandleDataControl(b))
    <2>1. /\ Listed /\ toClient # <<>> /\ Head(toClient).type = "DATA"
          /\ (toClient' = toClient \/ toClient' = Tail(toClient)) /\ state' = state
      BY <1>4 DEF HandleDataKept, HandleDataTunnel, HandleDataOverflow, HandleDataTunnelFails,
                  HandleDataControl, stream
    <2>2. ~ Young(state)
      BY <1>h, <2>1
    <2> QED
      BY <1>a, <2>1, <2>2
  <1>5. CASE HandleAbandoned \/ ConnectionCleared
    <2>1. ~ Listed' /\ state' = state /\ send_window' = send_window
      BY <1>5 DEF HandleAbandoned, ConnectionCleared, Listed, stream, client
    <2> QED
      BY <1>i, <2>1
  <1>6. CASE PeerNext
    <2>1. /\ UNCHANGED <<state, send_window, recv_window, tx_ring, pc, bev, read_on>>
          /\ toPeer = <<>> => toPeer' = <<>>
      BY <1>6, PeerStep DEF stream, client
    <2>2. /\ Listed' = Listed /\ (Listed /\ Young(state) => Untouched')
          /\ state' = "INIT" => IsFresh'
      BY <1>i, <2>1 DEF Listed
    <2>3. CASE PeerAccept
      <3>1. toPeer # <<>> /\ toPeer[1].flag = "SYN" /\ 1 \in 1..Len(toPeer)
        BY <1>t, <2>3, TailFacts DEF PeerAccept
      <3>2. Listed /\ state = "SYN_SEND" /\ peer.state = "LISTEN"
        BY <3>1 DEF IInv, SynFirst
      <3>3. toClient = <<>>
        BY <1>i, <3>2
      <3>4. /\ toClient' = Append(toClient, WinUpdate("ACK", 0)) \/ toClient' = Append(toClient, WinUpdate("RST", 0))
            /\ peer'.state # "LISTEN"
        BY <1>t, <2>3 DEF PeerAccept, PeerSays, TypeOK, PeerSet
      <3>5. toClient' = <<WinUpdate("ACK", 0)>> \/ toClient' = <<WinUpdate("RST", 0)>>
        BY <3>3, <3>4
      <3>6. Len(toClient') = 1 /\ toClient' # <<>> /\ toClient'[1] \in {WinUpdate("ACK", 0), WinUpdate("RST", 0)}
        BY <3>5
      <3>7. toClient'[1].flag \in {"ACK", "RST"} /\ toClient'[1].type = "WINDOW_UPDATE"
        BY <3>6 DEF WinUpdate
      <3>8. Answered'
        BY <2>1, <3>2, <3>4, <3>6, <3>7
      <3>9. AckFirst'
        BY <2>1, <3>2, <3>6
      <3> QED
        BY <2>1, <2>2, <3>2, <3>8, <3>9
    <2>4. CASE NoAnswer
      <3>1. CASE toClient' = toClient
        <4>1. Listed' => AckFirst'
          BY <1>i, <2>1, <2>2, <3>1
        <4>2. Listed' /\ Young(state') => (Waiting \/ Answered)'
          BY <1>i, <2>1, <2>2, <2>4, <3>1 DEF NoAnswer
        <4> QED
          BY <2>1, <2>2, <4>1, <4>2
      <3>2. ASSUME NEW m \in FrameSet, peer.state # "LISTEN", m.flag # "ACK", toClient' = Append(toClient, m)
            PROVE  Goal
        <4>1. /\ toClient' # <<>> /\ Len(toClient') = Len(toClient) + 1
              /\ toClient'[Len(toClient) + 1] = m
              /\ \A k \in 1..Len(toClient) : toClient'[k] = toClient[k]
              /\ \A k \in 1..(Len(toClient) + 1) : k \in 1..Len(toClient) \/ k = Len(toClient) + 1
          BY <1>t, <3>2, AppendFacts
        <4>2. Listed' => AckFirst'
          BY <1>i, <2>1, <2>2, <3>2, <4>1
        <4>3. ASSUME Listed', Young(state') PROVE Answered'
          <5>1. Answered
            BY <1>i, <2>1, <2>2, <3>2, <4>3
          <5>2. 1 \in 1..Len(toClient)
            BY <1>t, <5>1, TailFacts
          <5>3. peer'.state # "LISTEN"
            BY <2>1, <2>2, <2>4, <3>2, <4>3 DEF NoAnswer
          <5> QED
            BY <2>1, <4>1, <5>1, <5>2, <5>3
        <4> QED
          BY <2>1, <2>2, <4>2, <4>3
      <3> QED
        BY <2>4, <3>1, <3>2 DEF NoAnswer
    <2> QED
      BY <1>6, <2>3, <2>4, PeerStep
  <1>7. CASE UNCHANGED vars
    BY <1>7, <1>u DEF vars
  <1> HIDE DEF Goal
  <1> QED
    BY <1>1, <1>2, <1>3, <1>4, <1>5, <1>6, <1>7 DEF Next, HandleFrame

-----------------------------------------------------------------------------
(* The ring, the wakeup and the receive window                               *)

\* A WINDOW_UPDATE that leaves the stream listed.
LEMMA WinUpdateFacts ==
  ASSUME IInv, HandleWinUpdate, Listed'
  PROVE  LET m == Head(toClient) IN
         /\ m.len \in Nat /\ send_window' = send_window + m.len
         /\ m.len >= Half \/ (m.len = 0 /\ m.flag \in {"ACK", "FIN"})
         /\ \/ m.flag = "ZERO" /\ state' = state
            \/ m.flag = "ACK" /\ state = "SYN_SEND" /\ state' = "ESTABLISHED"
            \/ /\ m.flag = "FIN" /\ state \in {"SYN_SEND", "ESTABLISHED"}
               /\ state' = "REMOTE_CLOSE"
         /\ bev' = bev /\ (send_window = 0 => bev = "open")
         /\ read_on' = (read_on \/ (send_window = 0 /\ bev = "open"))
         /\ UNCHANGED <<tx_ring, recv_window>>
  <1> DEFINE m == Head(toClient)
  <1>1. toClient # <<>> /\ toClient \in Seq(FrameSet) /\ m.type = "WINDOW_UPDATE" /\ Listed
    BY DEF HandleWinUpdate, IInv, TypeOK
  <1>2. m \in FrameSet /\ m = toClient[1] /\ 1 \in 1..Len(toClient)
    BY <1>1, TailFacts
  <1>3. PeerFrame(m) /\ m.len \in Nat
    BY <1>2, FrameFields DEF IInv, PeerFrames
  <1>4. m.flag = "ACK" => state = "SYN_SEND"
    BY <1>1, <1>2 DEF IInv, Handshake
  <1>5. FateOfFlags(m.flag) = "listed" /\ ~ (send_window = 0 /\ bev # "open")
    BY <1>1 DEF HandleWinUpdate, Wakes, Listed
  <1>6. /\ send_window' = send_window + m.len /\ bev' = bev /\ state' = AfterFlags(m.flag)
        /\ read_on' = (read_on \/ (send_window = 0 /\ bev = "open"))
        /\ UNCHANGED <<tx_ring, recv_window>>
    BY <1>5 DEF HandleWinUpdate, Wakes
  <1>7. m.flag # "RST" /\ (m.flag = "FIN" => state \in {"SYN_SEND", "ESTABLISHED"})
    BY <1>5 DEF FateOfFlags
  <1>8. m.flag \in {"ZERO", "ACK", "FIN"}
    BY <1>3, <1>7 DEF PeerFrame
  <1>9. \/ m.flag = "ZERO" /\ state' = state
        \/ m.flag = "ACK" /\ state = "SYN_SEND" /\ state' = "ESTABLISHED"
        \/ /\ m.flag = "FIN" /\ state \in {"SYN_SEND", "ESTABLISHED"}
           /\ state' = "REMOTE_CLOSE"
    BY <1>4, <1>6, <1>7, <1>8 DEF AfterFlags
  <1>10. m.len >= Half \/ (m.len = 0 /\ m.flag \in {"ACK", "FIN"})
    BY <1>1, <1>3, <1>8 DEF PeerFrame
  <1> HIDE DEF m
  <1> QED
    BY <1>3, <1>5, <1>6, <1>9, <1>10 DEF m

\* The ring keeps its bound, and reading stops only with the window at zero.
LEMMA NextRing == IInv /\ [Next]_vars => RingInv' /\ NoLostWakeup'
  <1> SUFFICES ASSUME IInv, [Next]_vars PROVE RingInv' /\ NoLostWakeup'
    OBVIOUS
  <1>i. TypeOK /\ RingInv /\ NoLostWakeup /\ Handshake
    BY DEF IInv
  <1>u. CASE UNCHANGED <<state, send_window, tx_ring, pc, bev, read_on>>
    BY <1>u, <1>i DEF RingInv, NoLostWakeup, Listed
  <1>g. ASSUME ~ Listed', pc' # "append assert", tx_ring' = tx_ring
        PROVE  RingInv' /\ NoLostWakeup'
    BY <1>g, <1>i DEF RingInv, NoLostWakeup
  <1>1. CASE Open
    <2>1. /\ Listed /\ state = "INIT" /\ state' = "SYN_SEND"
          /\ UNCHANGED <<tx_ring, pc, bev, read_on>>
      BY <1>1 DEF Open, client
    <2>2. bev = "none" /\ tx_ring = <<>>
      BY <1>i, <2>1 DEF Handshake
    <2>3. Len(tx_ring') = 0 /\ pc' # "append assert"
      BY <2>1, <2>2 DEF Listed
    <2>4. 0 <= Chunk /\ 0 <= 2 * Chunk
      BY HalfFacts
    <2>5. bev' = "none" /\ tx_ring' = <<>> /\ Len(tx_ring') <= Chunk /\ Len(tx_ring') <= 2 * Chunk
      BY <2>1, <2>2, <2>3, <2>4
    <2> QED
      BY <2>3, <2>5 DEF RingInv, NoLostWakeup
  <1>2. ASSUME NEW n \in 1..Chunk, LocalRead(n) PROVE RingInv' /\ NoLostWakeup'
    <2> DEFINE d == [k \in 1..n |-> up + k]
    <2>a. up \in Nat /\ n \in Nat /\ n \in 1..Chunk
      BY <1>i, <1>2, SizesAssumption DEF TypeOK
    <2>1. d \in Seq(Nat) /\ Len(d) = n /\ Len(d) \in 1..Chunk
      BY <2>a, Counting
    <2>2. /\ tmux_stream_write(d) /\ Listed /\ bev = "open" /\ read_on
          /\ read_on' = (Admitted(d) >= n) /\ bev' = bev /\ state' = state
      BY <1>2 DEF LocalRead, KeepsReading
    <2> HIDE DEF d
    <2>3. /\ ~ AppendFails(d)
          /\ Len(Leftover(d)) <= 2 * Chunk
          /\ state # "REMOTE_CLOSE" => Len(Leftover(d)) <= Chunk
          /\ Leftover(d) # <<>> => send_window - Admitted(d) = 0
          /\ Admitted(d) >= Len(d) /\ send_window - Admitted(d) = 0 => Leftover(d) = <<>>
          /\ Admitted(d) < Len(d) => send_window - Admitted(d) = 0
      BY <2>1, <2>2, WriteFacts
    <2>4. send_window' = send_window - Admitted(d) /\ tx_ring' = Leftover(d) /\ pc' = pc
      BY <2>2, <2>3 DEF tmux_stream_write, Charge
    <2>5. Admitted(d) \in Nat /\ n \in Nat
      BY <1>i, <2>1, WriteTypes
    <2>6. ~ read_on' => send_window' = 0
      <3>0. Admitted(d) >= n \/ Admitted(d) < Len(d)
        BY <2>1, <2>5
      <3>1. ~ read_on' => Admitted(d) < Len(d)
        BY <2>2, <3>0
      <3> QED
        BY <2>3, <2>4, <3>1
    <2>7. read_on' /\ send_window' = 0 => tx_ring' = <<>>
      <3>1. read_on' => Admitted(d) >= Len(d)
        BY <2>1, <2>2
      <3> QED
        BY <2>3, <2>4, <3>1
    <2>8. /\ Len(tx_ring') <= 2 * Chunk /\ (state' # "REMOTE_CLOSE" => Len(tx_ring') <= Chunk)
          /\ tx_ring' # <<>> => send_window' = 0
      BY <2>2, <2>3, <2>4
    <2>9. state' \in {"ESTABLISHED", "REMOTE_CLOSE"} /\ bev' = "open" /\ pc' # "append assert"
      BY <1>i, <2>2, <2>4 DEF RingInv, Listed
    <2> QED
      BY <2>6, <2>7, <2>8, <2>9 DEF RingInv, NoLostWakeup
  <1>3. ASSUME NEW what \in {"EOF", "ERROR"}, LocalEvent(what) PROVE RingInv' /\ NoLostWakeup'
    <2>1. /\ Listed /\ bev = "open" /\ bev' = "null" /\ UNCHANGED <<tx_ring, send_window>>
          /\ \/ state \in {"SYN_SEND", "ESTABLISHED"} /\ state' = "LOCAL_CLOSE" /\ pc' = pc
             \/ pc' = "freed"
      BY <1>3 DEF LocalEvent, tmux_stream_close, FreeBev
    <2>2. CASE pc' = "freed"
      BY <1>g, <2>1, <2>2 DEF Listed
    <2>3. CASE state \in {"SYN_SEND", "ESTABLISHED"} /\ state' = "LOCAL_CLOSE" /\ pc' = pc
      <3>1. Len(tx_ring) <= Chunk /\ (tx_ring # <<>> => send_window = 0 \/ send_window >= Half)
        BY <1>i, <2>1, <2>3 DEF RingInv
      <3> QED
        BY <1>i, <2>1, <2>3, <3>1 DEF RingInv, NoLostWakeup, Listed
    <2> QED
      BY <2>1, <2>2, <2>3
  <1>4. CASE HandleWinUpdate
    <2>1. CASE ~ Listed'
      <3>1. pc' # "append assert" /\ tx_ring' = tx_ring
        BY <1>4 DEF HandleWinUpdate, FateOfFlags
      <3> QED
        BY <1>g, <2>1, <3>1
    <2>2. CASE Listed'
      <3> DEFINE m == Head(toClient)
      <3>1. /\ m.len \in Nat /\ send_window' = send_window + m.len
            /\ m.len >= Half \/ (m.len = 0 /\ m.flag \in {"ACK", "FIN"})
            /\ \/ m.flag = "ZERO" /\ state' = state
               \/ m.flag = "ACK" /\ state = "SYN_SEND" /\ state' = "ESTABLISHED"
               \/ /\ m.flag = "FIN" /\ state \in {"SYN_SEND", "ESTABLISHED"}
                  /\ state' = "REMOTE_CLOSE"
            /\ bev' = bev /\ (send_window = 0 => bev = "open")
            /\ read_on' = (read_on \/ (send_window = 0 /\ bev = "open"))
            /\ UNCHANGED <<tx_ring, recv_window>>
        BY <1>4, <2>2, WinUpdateFacts
      <3> HIDE DEF m
      <3>2. Listed /\ send_window \in Nat
        BY <1>4, <1>i DEF HandleWinUpdate, TypeOK
      <3>3. pc' # "append assert"
        BY <2>2 DEF Listed
      <3>4. /\ state # "REMOTE_CLOSE" => Len(tx_ring) <= Chunk
            /\ bev = "none" => tx_ring = <<>>
            /\ bev = "open" => state \in {"ESTABLISHED", "REMOTE_CLOSE"}
            /\ tx_ring # <<>> => send_window = 0 \/ send_window >= Half
            /\ Len(tx_ring) <= 2 * Chunk
        BY <1>i, <3>2 DEF RingInv
      <3>5. state' # "REMOTE_CLOSE" => Len(tx_ring') <= Chunk
        BY <3>1, <3>4
      <3>6. bev' = "open" => state' \in {"ESTABLISHED", "REMOTE_CLOSE"}
        BY <3>1, <3>4
      <3>7. tx_ring' # <<>> => send_window' = 0 \/ send_window' >= Half
        <4>1. m.len >= Half \/ m.len = 0
          BY <3>1
        <4>2. tx_ring # <<>> => send_window + m.len = 0 \/ send_window + m.len >= Half
          BY <3>1, <3>2, <3>4, <4>1, HalfFacts
        <4> QED
          BY <3>1, <4>2
      <3>8. ASSUME bev' = "open", send_window' = 0
            PROVE  state' = "REMOTE_CLOSE" /\ Len(tx_ring') <= Chunk
        <4>1. m.len = 0
          BY <3>1, <3>2, <3>8, HalfFacts
        <4>2. ~ (m.len >= Half)
          BY <4>1, HalfFacts
        <4>3. m.flag = "FIN" /\ state' = "REMOTE_CLOSE" /\ state # "REMOTE_CLOSE"
          BY <3>1, <3>4, <3>8, <4>2
        <4> QED
          BY <3>1, <3>4, <4>3
      <3>9. bev' = "open" => read_on'
        BY <1>i, <3>1, <3>2 DEF NoLostWakeup
      <3>10. (bev' = "none" => tx_ring' = <<>>) /\ Len(tx_ring') <= 2 * Chunk
        BY <3>1, <3>4
      <3> QED
        BY <3>3, <3>5, <3>6, <3>7, <3>8, <3>9, <3>10 DEF RingInv, NoLostWakeup
    <2> QED
      BY <2>1, <2>2
  <1>5. CASE HandleDataKept \/ HandleDataTunnel \/ HandleAbandoned
    <2>1. UNCHANGED <<state, send_window, tx_ring, pc, bev, read_on>>
      BY <1>5 DEF HandleDataKept, HandleDataTunnel, HandleAbandoned, stream, client
    <2> QED
      BY <1>u, <2>1
  <1>6. CASE HandleDataOverflow \/ HandleDataTunnelFails \/ ConnectionCleared
    <2>1. ~ Listed' /\ pc' # "append assert" /\ tx_ring' = tx_ring
      BY <1>6 DEF HandleDataOverflow, HandleDataTunnelFails, ConnectionCleared, stream, Listed
    <2> QED
      BY <1>g, <2>1
  <1>7. ASSUME NEW b \in BOOLEAN, HandleDataControl(b) PROVE RingInv' /\ NoLostWakeup'
    <2>1. /\ Listed /\ state = "ESTABLISHED" /\ bev = "none" /\ read_on' = b
          /\ bev' = IF b THEN "open" ELSE "none"
          /\ UNCHANGED <<state, send_window, tx_ring, pc>>
      BY <1>7 DEF HandleDataControl
    <2>2. tx_ring = <<>> /\ Len(tx_ring') = 0
      BY <1>i, <2>1 DEF RingInv
    <2> QED
      BY <1>i, <2>1, <2>2, HalfFacts DEF RingInv, NoLostWakeup, Listed
  <1>8. CASE PeerNext \/ UNCHANGED vars
    <2>1. UNCHANGED <<state, send_window, tx_ring, pc, bev, read_on>>
      BY <1>8, PeerStep DEF vars, stream, client
    <2> QED
      BY <1>u, <2>1
  <1> QED
    BY <1>1, <1>2, <1>3, <1>4, <1>5, <1>6, <1>7, <1>8 DEF Next, HandleFrame

\* The receive window of an ESTABLISHED stream does not close.
LEMMA NextWindow == IInv /\ [Next]_vars => WindowStaysOpen'
  <1> SUFFICES ASSUME IInv, [Next]_vars, Listed', state' = "ESTABLISHED" PROVE recv_window' > 0
    BY DEF WindowStaysOpen
  <1>i. TypeOK /\ WindowStaysOpen /\ Handshake /\ PeerFrames /\ Listed
    BY NoRevival DEF IInv
  <1>u. CASE UNCHANGED <<state, recv_window>>
    BY <1>u, <1>i DEF WindowStaysOpen
  <1>1. CASE HandleWinUpdate
    <2>1. recv_window' = recv_window /\ state \in {"SYN_SEND", "ESTABLISHED"}
      BY <1>1, WinUpdateFacts
    <2> QED
      BY <1>i, <2>1, HalfFacts DEF WindowStaysOpen, Handshake
  <1>2. ASSUME NEW b \in BOOLEAN, HandleDataTunnel \/ HandleDataControl(b) PROVE recv_window' > 0
    <2> DEFINE m == Head(toClient)
    <2>1. /\ toClient # <<>> /\ m.type = "DATA" /\ ~ Refused(m)
          /\ send_window_update(m.len, recv_window - m.len)
      BY <1>2 DEF HandleDataTunnel, HandleDataControl
    <2>2. m = toClient[1] /\ 1 \in 1..Len(toClient)
      BY <1>i, <2>1, TailFacts DEF TypeOK
    <2>3. PeerFrame(m)
      BY <1>i, <2>2 DEF PeerFrames
    <2>4. m.len \in 0..Frame /\ m.len <= recv_window
      BY <1>i, <2>1, <2>3, HalfFacts DEF PeerFrame, Refused, TypeOK
    <2> HIDE DEF m
    <2> QED
      BY <1>i, <2>1, <2>4, WindowUpdateFacts
  <1>3. CASE HandleDataKept \/ HandleAbandoned \/ HandleDataOverflow \/ HandleDataTunnelFails
             \/ ConnectionCleared \/ (\E n \in 1..Chunk : LocalRead(n))
    <2>1. UNCHANGED <<state, recv_window>>
      BY <1>3 DEF HandleDataKept, HandleAbandoned, HandleDataOverflow, HandleDataTunnelFails,
                  ConnectionCleared, LocalRead, stream
    <2> QED
      BY <1>u, <2>1
  <1>4. CASE PeerNext \/ UNCHANGED vars
    BY <1>4, <1>u, PeerStep DEF vars, stream
  <1>5. CASE Open \/ (\E what \in {"EOF", "ERROR"} : LocalEvent(what))
    BY <1>5 DEF Open, LocalEvent, tmux_stream_close
  <1> QED
    BY <1>1, <1>2, <1>3, <1>4, <1>5 DEF Next, HandleFrame

-----------------------------------------------------------------------------
(* The theorems                                                              *)

\* A new stream satisfies the invariant.
LEMMA InitIInv == Init => IInv
  <1> SUFFICES ASSUME Init PROVE IInv
    OBVIOUS
  <1>0. /\ MaxWindow \in Nat /\ MaxWindow \in 0..MaxWindow /\ 0 \in 0..MaxUp /\ 0 \in 0..MaxDown
        /\ MaxWindow \in Int /\ 0 \in Nat /\ <<>> \in Seq(Nat) /\ <<>> \in Seq(FrameSet)
        /\ MaxWindow > 0 /\ MaxWindow >= Half /\ 0 <= Chunk /\ 0 <= 2 * Chunk
        /\ Len(<<>>) = 0 /\ 1..0 = {}
    BY HalfFacts, SizesAssumption
  <1>1. TypeOK
    <2>1. peer \in PeerSet
      BY <1>0 DEF Init, PeerSet
    <2> QED
      BY <1>0, <2>1 DEF Init, TypeOK, States
  <1>2. /\ Listed /\ bev = "none" /\ tx_ring = <<>> /\ toPeer = <<>> /\ toClient = <<>>
        /\ state = "INIT" /\ send_window = MaxWindow /\ recv_window = MaxWindow
        /\ ~ read_on /\ pc # "append assert"
    BY DEF Init, Listed
  <1>3. peer.state = "LISTEN"
    BY DEF Init
  <1>4. PeerFrames /\ SynFirst /\ FramesHonest /\ FinInv
    BY <1>0, <1>2 DEF PeerFrames, SynFirst, FramesHonest, FinInv, FinIsLast
  <1>5. Handshake
    BY <1>0, <1>2, <1>3 DEF Handshake
  <1>6. RingInv /\ NoLostWakeup /\ WindowStaysOpen
    BY <1>0, <1>2 DEF RingInv, NoLostWakeup, WindowStaysOpen
  <1> QED
    BY <1>1, <1>4, <1>5, <1>6 DEF IInv

\* IInv is an inductive invariant of the stream, its client and frps.
THEOREM StreamInvariance == Spec => []IInv
  <1>1. IInv /\ [Next]_vars => IInv'
    BY NextTypeOK, NextPeerFrames, NextHandshake, NextSynFirst, NextRing, NextFinInv,
       NextFramesHonest, NextWindow DEF IInv
  <1> QED
    BY InitIInv, <1>1, PTL DEF Spec

\* Types: among them that recv_window stays within the window frps was granted.
THEOREM StreamTypeCorrect == Spec => []TypeOK
  BY StreamInvariance, PTL DEF IInv

\* tcp_proxy_c2s_cb disables reading only with send_window at zero, the value
\* incr_send_window tests for.
THEOREM NeverLosesWakeup == Spec => []NoLostWakeup
  BY StreamInvariance, PTL DEF IInv

\* assert(left >= len) of tx_ring_buffer_append holds at every call, and
\* tx_ring never needs more than two reads.
THEOREM TxRingAlwaysFits == Spec => []TxRingFits
  <1>1. IInv => TxRingFits
    BY DEF IInv, RingInv, TxRingFits
  <1> QED
    BY <1>1, StreamInvariance, PTL

\* Every DATA frame tmux_stream_write sends is as long as its header says.
THEOREM FramesAlwaysHonest == Spec => []FramesHonest
  BY StreamInvariance, PTL DEF IInv

\* process_data and send_window_update never close the receive window.
THEOREM WindowAlwaysOpen == Spec => []WindowStaysOpen
  BY StreamInvariance, PTL DEF IInv

\* Nothing follows a FIN on the stream.
THEOREM FinAlwaysLast == Spec => []FinIsLast
  <1>1. IInv => FinIsLast
    BY DEF IInv, FinInv
  <1> QED
    BY <1>1, StreamInvariance, PTL

-----------------------------------------------------------------------------
(* Whom a WINDOW_UPDATE wakes                                                *)

\* The window is open until the tunnel is, and a listed stream has lost its
\* bufferevent only by the local close.
WakeInv == /\ (Listed /\ bev = "none") => send_window > 0
           /\ (Listed /\ bev = "null") => state = "LOCAL_CLOSE"
           /\ WakesTooLateOnly

\* Every step keeps it.
LEMMA NextWake == IInv /\ WakeInv /\ [Next]_vars => WakeInv'
  <1> SUFFICES ASSUME IInv, WakeInv, [Next]_vars PROVE WakeInv'
    OBVIOUS
  <1>i. TypeOK /\ Handshake
    BY DEF IInv
  <1>u. CASE UNCHANGED <<state, send_window, pc, bev>>
    BY <1>u DEF WakeInv, WakesTooLateOnly, Listed
  <1>g. ASSUME ~ Listed', pc' # "null bev" PROVE WakeInv'
    BY <1>g DEF WakeInv, WakesTooLateOnly
  <1>1. CASE Open
    <2>1. /\ Listed /\ state = "INIT" /\ state' = "SYN_SEND" /\ pc' = pc /\ bev' = bev
          /\ send_window' = send_window - 1
      BY <1>1 DEF Open, client
    <2>2. bev = "none" /\ send_window = MaxWindow
      BY <1>i, <2>1 DEF Handshake
    <2>3. MaxWindow - 1 > 0
      BY SizesAssumption
    <2>4. send_window' > 0 /\ bev' = "none" /\ pc' = "listed"
      BY <2>1, <2>2, <2>3 DEF Listed
    <2> QED
      BY <2>4 DEF WakeInv, WakesTooLateOnly
  <1>2. ASSUME NEW n \in 1..Chunk, LocalRead(n) PROVE WakeInv'
    <2>1. bev' = "open" /\ pc' \in {"listed", "append assert"}
      BY <1>2 DEF LocalRead, tmux_stream_write, Listed
    <2> QED
      BY <2>1 DEF WakeInv, WakesTooLateOnly
  <1>3. ASSUME NEW what \in {"EOF", "ERROR"}, LocalEvent(what) PROVE WakeInv'
    <2>1. /\ bev' = "null" /\ pc' \in {"listed", "freed"}
          /\ pc' = "listed" => state' = "LOCAL_CLOSE"
      BY <1>3 DEF LocalEvent, tmux_stream_close, FreeBev, Listed
    <2> QED
      BY <2>1 DEF WakeInv, WakesTooLateOnly, Listed
  <1>4. CASE HandleWinUpdate
    <2> DEFINE m == Head(toClient)
    <2>1. Listed /\ toClient # <<>> /\ state' = AfterFlags(m.flag)
      BY <1>4 DEF HandleWinUpdate
    <2>2. m.len \in Nat /\ send_window \in Nat
      BY <1>i, <2>1, TailFacts, FrameFields DEF TypeOK
    <2>3. CASE FateOfFlags(m.flag) # "listed"
      <3>1. pc' = FateOfFlags(m.flag)
        BY <1>4, <2>3 DEF HandleWinUpdate
      <3>2. FateOfFlags(m.flag) \in {"freed", "FIN assert"}
        BY <2>3 DEF FateOfFlags
      <3> QED
        BY <1>g, <3>1, <3>2 DEF Listed
    <2>4. CASE FateOfFlags(m.flag) = "listed"
      <3>1. /\ bev' = bev /\ send_window' = send_window + m.len
            /\ pc' = IF send_window = 0 /\ bev # "open" THEN "null bev" ELSE "listed"
        BY <1>4, <2>4 DEF HandleWinUpdate, Wakes
      <3>2. bev = "none" => send_window > 0
        BY <2>1 DEF WakeInv
      <3>3. bev = "null" => state' = "LOCAL_CLOSE"
        <4>1. bev = "null" => state = "LOCAL_CLOSE"
          BY <2>1 DEF WakeInv
        <4>2. state = "LOCAL_CLOSE" => m.flag # "RST" /\ m.flag # "FIN"
          BY <2>4 DEF FateOfFlags
        <4> QED
          BY <2>1, <4>1, <4>2 DEF AfterFlags
      <3>4. bev \in {"none", "open", "null"}
        BY <1>i DEF TypeOK
      <3> HIDE DEF m
      <3>z. send_window > 0 => send_window # 0 /\ send_window + m.len > 0
        BY <2>2
      <3>5. pc' = "null bev" => state' = "LOCAL_CLOSE"
        <4>1. pc' = "null bev" => send_window = 0 /\ bev # "open"
          BY <3>1
        <4> QED
          BY <3>2, <3>3, <3>4, <3>z, <4>1
      <3>6. bev' = "none" => send_window' > 0
        BY <3>1, <3>2, <3>z
      <3> QED
        BY <3>1, <3>3, <3>5, <3>6 DEF WakeInv, WakesTooLateOnly
    <2> QED
      BY <2>3, <2>4
  <1>5. CASE HandleDataKept \/ HandleDataTunnel \/ HandleAbandoned
    <2>1. UNCHANGED <<state, send_window, pc, bev>>
      BY <1>5 DEF HandleDataKept, HandleDataTunnel, HandleAbandoned, stream, client
    <2> QED
      BY <1>u, <2>1
  <1>6. CASE HandleDataOverflow \/ HandleDataTunnelFails \/ ConnectionCleared
    <2>1. ~ Listed' /\ pc' # "null bev"
      BY <1>6 DEF HandleDataOverflow, HandleDataTunnelFails, ConnectionCleared, Listed
    <2> QED
      BY <1>g, <2>1
  <1>7. ASSUME NEW b \in BOOLEAN, HandleDataControl(b) PROVE WakeInv'
    <2>1. /\ Listed /\ bev = "none" /\ bev' \in {"open", "none"}
          /\ UNCHANGED <<state, send_window, pc>>
      BY <1>7 DEF HandleDataControl
    <2> QED
      BY <2>1 DEF WakeInv, WakesTooLateOnly, Listed
  <1>8. CASE PeerNext \/ UNCHANGED vars
    <2>1. UNCHANGED <<state, send_window, pc, bev>>
      BY <1>8, PeerStep DEF vars, stream, client
    <2> QED
      BY <1>u, <2>1
  <1> QED
    BY <1>1, <1>2, <1>3, <1>4, <1>5, <1>6, <1>7, <1>8 DEF Next, HandleFrame

\* incr_send_window meets a NULL local_proxy_bev only after the local close.
THEOREM WakesAreTooLateOnly == Spec => []WakesTooLateOnly
  <1>1. Init => WakeInv
    BY SizesAssumption DEF Init, WakeInv, WakesTooLateOnly, Listed
  <1>2. WakeInv => WakesTooLateOnly
    BY DEF WakeInv
  <1> QED
    BY <1>1, <1>2, NextWake, StreamInvariance, PTL DEF Spec
-----------------------------------------------------------------------------
(* Sums                                                                      *)

\* w holds natural numbers at 1..n.
Weights(w, n) == n \in Nat /\ \A k \in 1..n : w[k] \in Nat

LEMMA CellsMember ==
  ASSUME NEW w, NEW n
  PROVE  \A p : p \in Cells(w, n) <=> \E k \in 1..n : p \in {k} \X (1..w[k])
  BY DEF Cells

LEMMA RowFacts ==
  ASSUME NEW k \in Nat, NEW m \in Nat
  PROVE  IsFiniteSet({k} \X (1..m)) /\ Cardinality({k} \X (1..m)) = m
  <1>1. IsFiniteSet({k}) /\ Cardinality({k}) = 1
    BY FS_Singleton
  <1>2. IsFiniteSet(1..m) /\ Cardinality(1..m) = m
    BY FS_Interval
  <1>3. /\ IsFiniteSet({k} \X (1..m))
        /\ Cardinality({k} \X (1..m)) = Cardinality({k}) * Cardinality(1..m)
    BY <1>1, <1>2, FS_Product
  <1>4. 1 * m = m
    OBVIOUS
  <1> QED
    BY <1>1, <1>2, <1>3, <1>4

LEMMA CellsFinite ==
  ASSUME NEW w, NEW n, Weights(w, n)
  PROVE  IsFiniteSet(Cells(w, n)) /\ Total(w, n) \in Nat
  <1> DEFINE Row(k) == {k} \X (1..w[k])
             S == {Row(k) : k \in 1..n}
             f == [k \in 1..n |-> Row(k)]
  <1>1. n \in Nat /\ \A k \in 1..n : k \in Nat /\ w[k] \in Nat
    BY DEF Weights
  <1>2. IsFiniteSet(1..n)
    BY <1>1, FS_Interval
  <1>3. f \in Surjection(1..n, S)
    BY DEF Surjection
  <1>4. IsFiniteSet(S)
    <2> HIDE DEF f, S
    <2> QED
      BY <1>2, <1>3, FS_Surjection
  <1>5. \A T \in S : IsFiniteSet(T)
    BY <1>1, RowFacts
  <1>6. IsFiniteSet(UNION S)
    <2> HIDE DEF S
    <2> QED
      BY <1>4, <1>5, FS_UNION
  <1>7. Cells(w, n) = UNION S
    BY DEF Cells
  <1> QED
    BY <1>6, <1>7, FS_CardinalityType DEF Total

LEMMA DisjointSum ==
  ASSUME NEW A, NEW B, IsFiniteSet(A), IsFiniteSet(B), A \cap B = {}
  PROVE  IsFiniteSet(A \cup B) /\ Cardinality(A \cup B) = Cardinality(A) + Cardinality(B)
  <1>1. Cardinality(A) \in Nat /\ Cardinality(B) \in Nat /\ Cardinality({}) = 0
    BY FS_CardinalityType, FS_EmptySet
  <1>2. /\ IsFiniteSet(A \cup B)
        /\ Cardinality(A \cup B) = Cardinality(A) + Cardinality(B) - Cardinality(A \cap B)
    BY FS_Union
  <1>3. Cardinality(A \cap B) = 0
    BY <1>1
  <1> QED
    BY <1>1, <1>2, <1>3

LEMMA TotalZero ==
  ASSUME NEW w
  PROVE  Total(w, 0) = 0
  <1>1. Cells(w, 0) = {}
    BY CellsMember
  <1> QED
    BY <1>1, FS_EmptySet DEF Total

LEMMA TotalStep ==
  ASSUME NEW w, NEW n \in Nat, Weights(w, n + 1)
  PROVE  Total(w, n + 1) = Total(w, n) + w[n + 1] /\ Weights(w, n)
  <1> DEFINE A == Cells(w, n)
             B == {n + 1} \X (1..w[n + 1])
  <1>1. w[n + 1] \in Nat /\ Weights(w, n) /\ n + 1 \in Nat
    BY DEF Weights
  <1>2. IsFiniteSet(A) /\ IsFiniteSet(B) /\ Cardinality(B) = w[n + 1]
    BY <1>1, CellsFinite, RowFacts
  <1>3. Cells(w, n + 1) = A \cup B
    <2>1. \A k : k \in 1..(n + 1) <=> k \in 1..n \/ k = n + 1
      OBVIOUS
    <2>2. \A p : p \in Cells(w, n + 1) <=> \E k \in 1..(n + 1) : p \in {k} \X (1..w[k])
      BY CellsMember
    <2>3. \A p : p \in A <=> \E k \in 1..n : p \in {k} \X (1..w[k])
      BY CellsMember
    <2> HIDE DEF A
    <2> QED
      BY <2>1, <2>2, <2>3
  <1>4. A \cap B = {}
    <2>1. \A p \in A : p[1] \in 1..n
      BY CellsMember
    <2>2. \A p \in B : p[1] = n + 1
      OBVIOUS
    <2>3. n + 1 \notin 1..n
      OBVIOUS
    <2> HIDE DEF A, B
    <2> QED
      BY <2>1, <2>2, <2>3
  <1> HIDE DEF A, B
  <1>5. Cardinality(A \cup B) = Cardinality(A) + Cardinality(B)
    BY <1>2, <1>4, DisjointSum
  <1> QED
    BY <1>1, <1>2, <1>3, <1>5 DEF Total, A

LEMMA TotalSame ==
  ASSUME NEW w, NEW u, NEW n, \A k \in 1..n : u[k] = w[k]
  PROVE  Total(u, n) = Total(w, n)
  <1>1. Cells(u, n) = Cells(w, n)
    <2>1. \A k \in 1..n : {k} \X (1..u[k]) = {k} \X (1..w[k])
      OBVIOUS
    <2> QED
      BY <2>1 DEF Cells
  <1> QED
    BY <1>1 DEF Total

LEMMA TotalShift ==
  ASSUME NEW w, NEW u, NEW n \in Nat, Weights(w, n + 1), \A k \in 1..n : u[k] = w[k + 1]
  PROVE  Total(w, n + 1) = w[1] + Total(u, n) /\ Weights(u, n)
  <1> DEFINE A == {1} \X (1..w[1])
             C == Cells(u, n)
             f == [p \in C |-> <<p[1] + 1, p[2]>>]
             B == {f[p] : p \in C}
  <1>1. w[1] \in Nat /\ Weights(u, n) /\ \A k \in 1..n : k + 1 \in 1..(n + 1)
    BY DEF Weights
  <1>2. IsFiniteSet(A) /\ IsFiniteSet(C) /\ Cardinality(A) = w[1] /\ Cardinality(C) \in Nat
    BY <1>1, CellsFinite, RowFacts DEF Total
  <1>3. \A p : p \in C <=> \E k \in 1..n : p \in {k} \X (1..w[k + 1])
    BY CellsMember
  <1>4. \A p \in C : p[1] \in 1..n /\ p = <<p[1], p[2]>> /\ p[2] \in 1..w[p[1] + 1]
    <2> HIDE DEF C
    <2> QED
      BY <1>3
  <1>5. \A p \in C : f[p] = <<p[1] + 1, p[2]>>
    <2> HIDE DEF C
    <2> QED
      OBVIOUS
  <1>6. f \in Bijection(C, B)
    <2> HIDE DEF C
    <2>1. f \in [C -> B]
      OBVIOUS
    <2>2. f \in Surjection(C, B)
      BY <2>1 DEF Surjection
    <2>3. ASSUME NEW p \in C, NEW q \in C, f[p] = f[q] PROVE p = q
      <3>1. p[1] + 1 = q[1] + 1 /\ p[2] = q[2]
        BY <1>5, <2>3
      <3>2. p[1] \in 1..n /\ q[1] \in 1..n /\ p = <<p[1], p[2]>> /\ q = <<q[1], q[2]>>
        BY <1>4
      <3>3. p[1] = q[1]
        BY <3>1, <3>2
      <3> QED
        BY <3>1, <3>2, <3>3
    <2>4. f \in Injection(C, B)
      BY <2>1, <2>3 DEF Injection, IsInjective
    <2> QED
      BY <2>2, <2>4 DEF Bijection
  <1>7. IsFiniteSet(B) /\ Cardinality(B) = Cardinality(C)
    <2>1. ExistsBijection(C, B)
      BY <1>6 DEF ExistsBijection
    <2> HIDE DEF B, C
    <2> QED
      BY <1>2, <2>1, FS_Bijection
  <1>8. \A p : p \in B <=> \E k \in 2..(n + 1) : p \in {k} \X (1..w[k])
    <2> HIDE DEF C, f
    <2>1. ASSUME NEW p \in B PROVE \E k \in 2..(n + 1) : p \in {k} \X (1..w[k])
      <3>1. PICK q \in C : p = f[q]
        BY <2>1
      <3>2. p = <<q[1] + 1, q[2]>> /\ q[1] \in 1..n /\ q[2] \in 1..w[q[1] + 1]
        BY <1>4, <1>5, <3>1
      <3>3. q[1] + 1 \in 2..(n + 1)
        BY <3>2
      <3> QED
        BY <3>2, <3>3
    <2>2. ASSUME NEW k \in 2..(n + 1), NEW p \in {k} \X (1..w[k]) PROVE p \in B
      <3> DEFINE q == <<k - 1, p[2]>>
      <3>1. k - 1 \in 1..n /\ (k - 1) + 1 = k
        OBVIOUS
      <3>2. p = <<k, p[2]>> /\ p[2] \in 1..w[k]
        OBVIOUS
      <3>3. q \in {k - 1} \X (1..w[(k - 1) + 1])
        BY <3>1, <3>2
      <3>4. q \in C
        BY <1>3, <3>1, <3>3
      <3>5. f[q] = p
        BY <1>5, <3>1, <3>2, <3>4
      <3> HIDE DEF q
      <3> QED
        BY <3>4, <3>5
    <2> QED
      BY <2>1, <2>2
  <1> HIDE DEF B, C, f
  <1>9. Cells(w, n + 1) = A \cup B
    <2>1. \A k : k \in 1..(n + 1) <=> k \in 2..(n + 1) \/ k = 1
      OBVIOUS
    <2>2. \A p : p \in Cells(w, n + 1) <=> \E k \in 1..(n + 1) : p \in {k} \X (1..w[k])
      BY CellsMember
    <2> QED
      BY <1>8, <2>1, <2>2
  <1>10. A \cap B = {}
    <2>1. \A p \in B : p[1] \in 2..(n + 1)
      BY <1>8
    <2>2. \A p \in A : p[1] = 1
      OBVIOUS
    <2>3. 1 \notin 2..(n + 1)
      OBVIOUS
    <2> HIDE DEF A
    <2> QED
      BY <2>1, <2>2, <2>3
  <1> HIDE DEF A
  <1>11. Cardinality(A \cup B) = Cardinality(A) + Cardinality(B)
    BY <1>2, <1>7, <1>10, DisjointSum
  <1> QED
    BY <1>1, <1>2, <1>7, <1>9, <1>11 DEF Total, C
-----------------------------------------------------------------------------
(* What travels in a channel                                                 *)

LEMMA ChannelWeights ==
  ASSUME NEW ch \in Seq(FrameSet)
  PROVE  /\ Weights(ByteCounts(ch), Len(ch)) /\ Weights(Credits(ch), Len(ch))
         /\ BytesIn(ch) \in Nat /\ CreditIn(ch) \in Nat
         /\ \A k \in 1..Len(ch) : /\ ByteCounts(ch)[k] = Len(ch[k].bytes)
                                  /\ Credits(ch)[k] = Credit(ch[k])
  <1>1. Len(ch) \in Nat /\ \A k \in 1..Len(ch) : ch[k] \in FrameSet
    OBVIOUS
  <1>2. \A k \in 1..Len(ch) : Len(ch[k].bytes) \in Nat /\ ch[k].len \in Nat
    BY <1>1, FrameFields
  <1>3. \A k \in 1..Len(ch) : /\ ByteCounts(ch)[k] = Len(ch[k].bytes)
                              /\ Credits(ch)[k] = Credit(ch[k])
    BY DEF ByteCounts, Credits
  <1>4. \A k \in 1..Len(ch) : Credit(ch[k]) \in Nat
    BY <1>2 DEF Credit
  <1>5. Weights(ByteCounts(ch), Len(ch)) /\ Weights(Credits(ch), Len(ch))
    BY <1>1, <1>2, <1>3, <1>4 DEF Weights
  <1> QED
    BY <1>3, <1>5, CellsFinite DEF BytesIn, CreditIn

LEMMA ChannelEmpty == BytesIn(<<>>) = 0 /\ CreditIn(<<>>) = 0 /\ \A f : Numbered(<<>>, f)
  <1>1. Len(<<>>) = 0 /\ 1..0 = {}
    OBVIOUS
  <1> QED
    BY <1>1, TotalZero DEF BytesIn, CreditIn, Numbered

\* One more frame.
LEMMA ChannelAppend ==
  ASSUME NEW ch \in Seq(FrameSet), NEW m \in FrameSet, NEW c, c = Append(ch, m)
  PROVE  /\ BytesIn(c) = BytesIn(ch) + Len(m.bytes)
         /\ CreditIn(c) = CreditIn(ch) + Credit(m)
         /\ \A f : Numbered(ch, f) /\ (\A i \in 1..Len(m.bytes) : m.bytes[i] = f + BytesIn(ch) + i - 1)
                  => Numbered(c, f)
  <1> DEFINE n == Len(ch)
  <1>1. /\ c \in Seq(FrameSet) /\ Len(c) = n + 1 /\ c[n + 1] = m /\ n \in Nat
        /\ \A k \in 1..n : c[k] = ch[k]
        /\ \A k \in 1..(n + 1) : k \in 1..n \/ k = n + 1
    BY AppendFacts
  <1>2. /\ Weights(ByteCounts(c), n + 1) /\ Weights(Credits(c), n + 1)
        /\ \A k \in 1..(n + 1) : ByteCounts(c)[k] = Len(c[k].bytes) /\ Credits(c)[k] = Credit(c[k])
    BY <1>1, ChannelWeights
  <1>3. \A k \in 1..n : ByteCounts(ch)[k] = Len(ch[k].bytes) /\ Credits(ch)[k] = Credit(ch[k])
    BY ChannelWeights
  <1>4. \A k \in 1..n : ByteCounts(c)[k] = ByteCounts(ch)[k] /\ Credits(c)[k] = Credits(ch)[k]
    <2>1. \A k \in 1..n : k \in 1..(n + 1)
      BY <1>1
    <2> QED
      BY <1>1, <1>2, <1>3, <2>1
  <1>5. n + 1 \in 1..(n + 1)
    BY <1>1
  <1>6. ByteCounts(c)[n + 1] = Len(m.bytes) /\ Credits(c)[n + 1] = Credit(m)
    BY <1>1, <1>2, <1>5
  <1> HIDE DEF n
  <1>7. /\ Total(ByteCounts(c), n + 1) = Total(ByteCounts(c), n) + Len(m.bytes)
        /\ Total(Credits(c), n + 1) = Total(Credits(c), n) + Credit(m)
    BY <1>1, <1>2, <1>6, TotalStep
  <1>8. ASSUME NEW k \in 0..n
        PROVE  Total(ByteCounts(c), k) = Total(ByteCounts(ch), k) /\ Total(Credits(c), k) = Total(Credits(ch), k)
    <2>1. \A j \in 1..k : j \in 1..n
      BY <1>1
    <2>2. \A j \in 1..k : ByteCounts(c)[j] = ByteCounts(ch)[j] /\ Credits(c)[j] = Credits(ch)[j]
      BY <1>4, <2>1
    <2> QED
      BY <2>2, TotalSame
  <1>9. n \in 0..n
    BY <1>1
  <1>10. BytesIn(c) = BytesIn(ch) + Len(m.bytes) /\ CreditIn(c) = CreditIn(ch) + Credit(m)
    BY <1>1, <1>7, <1>8, <1>9 DEF BytesIn, CreditIn, n
  <1>11. ASSUME NEW f, Numbered(ch, f), \A i \in 1..Len(m.bytes) : m.bytes[i] = f + BytesIn(ch) + i - 1
         PROVE  Numbered(c, f)
    <2> SUFFICES ASSUME NEW k \in 1..(n + 1), NEW i \in 1..Len(c[k].bytes)
                 PROVE  c[k].bytes[i] = f + Total(ByteCounts(c), k - 1) + i - 1
      BY <1>1 DEF Numbered, Run
    <2>1. CASE k = n + 1
      <3>1. c[k] = m /\ k - 1 = n
        BY <1>1, <2>1
      <3>2. Total(ByteCounts(c), k - 1) = BytesIn(ch)
        BY <1>8, <1>9, <3>1 DEF BytesIn, n
      <3> QED
        BY <1>11, <3>1, <3>2
    <2>2. CASE k \in 1..n
      <3>1. k - 1 \in 0..n
        BY <1>1, <2>2
      <3>2. c[k] = ch[k] /\ Total(ByteCounts(c), k - 1) = Total(ByteCounts(ch), k - 1)
        BY <1>1, <1>8, <2>2, <3>1
      <3>3. ch[k].bytes[i] = f + Total(ByteCounts(ch), k - 1) + i - 1
        BY <1>11, <2>2, <3>2 DEF Numbered, Run, n
      <3> QED
        BY <3>2, <3>3
    <2> QED
      BY <1>1, <2>1, <2>2
  <1> QED
    BY <1>10, <1>11

\* The first frame is taken.
LEMMA ChannelTail ==
  ASSUME NEW ch \in Seq(FrameSet), ch # <<>>, NEW c, c = Tail(ch), NEW m, m = Head(ch)
  PROVE  /\ BytesIn(ch) = Len(m.bytes) + BytesIn(c)
         /\ CreditIn(ch) = Credit(m) + CreditIn(c)
         /\ \A f \in Int : Numbered(ch, f) =>
              /\ Numbered(c, f + Len(m.bytes))
              /\ \A i \in 1..Len(m.bytes) : m.bytes[i] = f + i - 1
  <1> DEFINE n == Len(c)
  <1>1. /\ c \in Seq(FrameSet) /\ Len(ch) = n + 1 /\ ch[1] = m /\ n \in Nat
        /\ m \in FrameSet /\ 1 \in 1..(n + 1)
        /\ \A k \in 1..n : c[k] = ch[k + 1] /\ k + 1 \in 1..(n + 1)
    BY TailFacts
  <1>2. /\ Weights(ByteCounts(ch), n + 1) /\ Weights(Credits(ch), n + 1)
        /\ \A k \in 1..(n + 1) : ByteCounts(ch)[k] = Len(ch[k].bytes) /\ Credits(ch)[k] = Credit(ch[k])
    BY <1>1, ChannelWeights
  <1>3. /\ \A k \in 1..n : ByteCounts(c)[k] = Len(c[k].bytes) /\ Credits(c)[k] = Credit(c[k])
        /\ Weights(ByteCounts(c), n)
    BY <1>1, ChannelWeights
  <1>4. /\ \A k \in 1..n : ByteCounts(c)[k] = ByteCounts(ch)[k + 1] /\ Credits(c)[k] = Credits(ch)[k + 1]
        /\ ByteCounts(ch)[1] = Len(m.bytes) /\ Credits(ch)[1] = Credit(m)
    BY <1>1, <1>2, <1>3
  <1> HIDE DEF n
  <1>5. ASSUME NEW k \in 0..n
        PROVE  /\ Total(ByteCounts(ch), k + 1) = Len(m.bytes) + Total(ByteCounts(c), k)
               /\ Total(Credits(ch), k + 1) = Credit(m) + Total(Credits(c), k)
    <2>1. k \in Nat /\ (\A j \in 1..k : j \in 1..n) /\ \A j \in 1..(k + 1) : j \in 1..(n + 1)
      BY <1>1
    <2>2. Weights(ByteCounts(ch), k + 1) /\ Weights(Credits(ch), k + 1)
      BY <1>2, <2>1 DEF Weights
    <2>3. \A j \in 1..k : ByteCounts(c)[j] = ByteCounts(ch)[j + 1] /\ Credits(c)[j] = Credits(ch)[j + 1]
      BY <1>4, <2>1
    <2>4. Total(ByteCounts(ch), k + 1) = Len(m.bytes) + Total(ByteCounts(c), k)
      <3>1. /\ k \in Nat /\ Weights(ByteCounts(ch), k + 1)
            /\ \A j \in 1..k : ByteCounts(c)[j] = ByteCounts(ch)[j + 1]
        BY <2>1, <2>2, <2>3
      <3>2. Total(ByteCounts(ch), k + 1) = ByteCounts(ch)[1] + Total(ByteCounts(c), k)
        BY <3>1, TotalShift
      <3> QED
        BY <1>4, <3>2
    <2>5. Total(Credits(ch), k + 1) = Credit(m) + Total(Credits(c), k)
      <3>1. /\ k \in Nat /\ Weights(Credits(ch), k + 1)
            /\ \A j \in 1..k : Credits(c)[j] = Credits(ch)[j + 1]
        BY <2>1, <2>2, <2>3
      <3>2. Total(Credits(ch), k + 1) = Credits(ch)[1] + Total(Credits(c), k)
        BY <3>1, TotalShift
      <3> QED
        BY <1>4, <3>2
    <2> QED
      BY <2>4, <2>5
  <1>6. n \in 0..n
    BY <1>1
  <1>7. BytesIn(ch) = Len(m.bytes) + BytesIn(c) /\ CreditIn(ch) = Credit(m) + CreditIn(c)
    BY <1>1, <1>5, <1>6 DEF BytesIn, CreditIn, n
  <1>8. Len(m.bytes) \in Nat
    BY <1>1, FrameFields
  <1>9. ASSUME NEW f \in Int, Numbered(ch, f), NEW i \in 1..Len(m.bytes)
        PROVE  m.bytes[i] = f + i - 1
    <2>1. m.bytes[i] = f + Total(ByteCounts(ch), 1 - 1) + i - 1
      BY <1>1, <1>9 DEF Numbered, Run
    <2>2. Total(ByteCounts(ch), 1 - 1) = 0
      BY TotalZero
    <2> QED
      BY <1>8, <2>1, <2>2
  <1>10. ASSUME NEW f \in Int, Numbered(ch, f), NEW k \in 1..n, NEW i \in 1..Len(c[k].bytes)
         PROVE  c[k].bytes[i] = (f + Len(m.bytes)) + Total(ByteCounts(c), k - 1) + i - 1
    <2>1. c[k] = ch[k + 1] /\ k + 1 \in 1..(n + 1) /\ (k + 1) - 1 = (k - 1) + 1 /\ k - 1 \in 0..n
      BY <1>1
    <2>2. c[k].bytes[i] = f + Total(ByteCounts(ch), (k + 1) - 1) + i - 1
      BY <1>1, <1>10, <2>1 DEF Numbered, Run
    <2>3. Total(ByteCounts(ch), (k - 1) + 1) = Len(m.bytes) + Total(ByteCounts(c), k - 1)
      BY <1>5, <2>1
    <2>4. Total(ByteCounts(c), k - 1) \in Nat
      <3>1. Weights(ByteCounts(c), k - 1)
        BY <1>1, <1>3, <2>1 DEF Weights
      <3> QED
        BY <3>1, CellsFinite
    <2>5. i \in Int
      OBVIOUS
    <2>6. c[k].bytes[i] = f + (Len(m.bytes) + Total(ByteCounts(c), k - 1)) + i - 1
      BY <2>1, <2>2, <2>3
    <2>7. \A a, b \in Nat : \A j \in Int : f + (a + b) + j - 1 = (f + a) + b + j - 1
      OBVIOUS
    <2> QED
      BY <1>8, <2>4, <2>5, <2>6, <2>7
  <1>11. \A f \in Int : Numbered(ch, f) => Numbered(c, f + Len(m.bytes))
    BY <1>10 DEF Numbered, Run, n
  <1> QED
    BY <1>7, <1>9, <1>11
-----------------------------------------------------------------------------
(* Flow control and the bytes                                                *)

Young == state \in {"INIT", "SYN_SEND", "ESTABLISHED"}

\* What the four laws need besides: until it is opened a stream is untouched,
\* behind the FIN that frps has read there is nothing, the ring for incoming
\* frames is empty while they are handled, and the bytes of frps are numbered
\* from the end, 0 being StartWorkConn.
WindowSide == peer.window >= 0
SynSide == \A k \in 1..Len(toPeer) : toPeer[k].flag = "SYN" => toPeer[k].len = 0
FreshSide == (Listed /\ state = "INIT") => up = 0 /\ peer.got = <<>>
FinSide == (Listed /\ peer.state = "REMOTE_CLOSE") => toPeer = <<>> /\ bev # "open" /\ ~ Young
TunnelSide == (bev = "none" => local_out = <<>>) /\ (bev = "open" => peer.started)
RxSide == (Listed /\ Young) => rx_ring = <<>>
StartSide == ~ peer.started => peer.down = 0 /\ BytesIn(toClient) = 0
NumberSide == Numbered(toClient, peer.down + 1 - BytesIn(toClient))

SideInv == /\ WindowSide /\ SynSide /\ FreshSide /\ FinSide
           /\ TunnelSide /\ RxSide /\ StartSide /\ NumberSide

FlowInv == /\ SendCreditConserved /\ RecvCreditConserved /\ UplinkExact /\ DownlinkExact
           /\ SideInv

\* The numbers the laws are about.
LEMMA LedgerTypes ==
  ASSUME IInv
  PROVE  /\ BytesIn(toPeer) \in Nat /\ CreditIn(toPeer) \in Nat
         /\ BytesIn(toClient) \in Nat /\ CreditIn(toClient) \in Nat
         /\ send_window \in Nat /\ recv_window \in Nat /\ peer.window \in Int
         /\ peer.unacked \in Nat
         /\ peer.down \in Nat /\ up \in Nat /\ MaxWindow \in Nat
         /\ toPeer \in Seq(FrameSet) /\ toClient \in Seq(FrameSet) /\ peer \in PeerSet
         /\ tx_ring \in Seq(Nat) /\ rx_ring \in Seq(Nat) /\ peer.got \in Seq(Nat)
         /\ local_out \in Seq(Nat)
  <1>1. TypeOK
    BY DEF IInv
  <1>2. /\ toPeer \in Seq(FrameSet) /\ toClient \in Seq(FrameSet) /\ peer \in PeerSet
        /\ tx_ring \in Seq(Nat) /\ rx_ring \in Seq(Nat) /\ local_out \in Seq(Nat)
        /\ send_window \in Nat
    BY <1>1 DEF TypeOK
  <1>3. MaxWindow \in Nat /\ MaxUp \in Nat /\ MaxDown \in Nat
    BY SizesAssumption
  <1>4. recv_window \in Nat /\ up \in Nat
    BY <1>1, <1>3 DEF TypeOK
  <1>5. peer.window \in Int /\ peer.unacked \in Nat /\ peer.down \in Nat /\ peer.got \in Seq(Nat)
    BY <1>2, <1>3 DEF PeerSet
  <1> QED
    BY <1>2, <1>3, <1>4, <1>5, ChannelWeights

\* The frame the client takes.
LEMMA ClientTakes ==
  ASSUME IInv, toClient # <<>>, toClient' = Tail(toClient), NEW m, m = Head(toClient)
  PROVE  /\ m \in FrameSet /\ PeerFrame(m) /\ m = toClient[1] /\ 1 \in 1..Len(toClient)
         /\ m.len \in Nat /\ Len(m.bytes) \in Nat /\ m.bytes \in Seq(Nat)
         /\ BytesIn(toClient) = BytesIn(toClient') + Len(m.bytes) /\ BytesIn(toClient') \in Nat
         /\ CreditIn(toClient) = CreditIn(toClient') + Credit(m) /\ CreditIn(toClient') \in Nat
         /\ m.type = "DATA" => Credit(m) = 0 /\ Len(m.bytes) = m.len
         /\ m.type # "DATA" => Credit(m) = m.len /\ Len(m.bytes) = 0
  <1>1. toClient \in Seq(FrameSet)
    BY LedgerTypes
  <1>2. /\ m \in FrameSet /\ m = toClient[1] /\ 1 \in 1..Len(toClient)
        /\ Tail(toClient) \in Seq(FrameSet)
    BY <1>1, TailFacts
  <1>3. PeerFrame(m)
    BY <1>2 DEF IInv, PeerFrames
  <1>4. m.len \in Nat /\ Len(m.bytes) \in Nat /\ m.bytes \in Seq(Nat)
    BY <1>2, FrameFields
  <1>5. BytesIn(toClient') \in Nat /\ CreditIn(toClient') \in Nat
    BY <1>2, ChannelWeights
  <1>6. /\ BytesIn(toClient) = Len(m.bytes) + BytesIn(toClient')
        /\ CreditIn(toClient) = Credit(m) + CreditIn(toClient')
    BY <1>1, ChannelTail
  <1>7. /\ m.type = "DATA" => Credit(m) = 0 /\ Len(m.bytes) = m.len
        /\ m.type # "DATA" => Credit(m) = m.len /\ Len(m.bytes) = 0
    BY <1>3 DEF PeerFrame, Credit
  <1>8. Credit(m) \in Nat
    BY <1>4, <1>7
  <1> QED
    BY <1>2, <1>3, <1>4, <1>5, <1>6, <1>7, <1>8

\* The frame frps takes.
LEMMA PeerTakes ==
  ASSUME IInv, toPeer # <<>>, toPeer' = Tail(toPeer), NEW m, m = Head(toPeer)
  PROVE  /\ m \in FrameSet /\ m = toPeer[1] /\ 1 \in 1..Len(toPeer)
         /\ m.len \in Nat /\ Len(m.bytes) \in Nat /\ m.bytes \in Seq(Nat)
         /\ BytesIn(toPeer) = BytesIn(toPeer') + Len(m.bytes) /\ BytesIn(toPeer') \in Nat
         /\ CreditIn(toPeer) = CreditIn(toPeer') + Credit(m) /\ CreditIn(toPeer') \in Nat
         /\ m.type = "DATA" => Credit(m) = 0 /\ Len(m.bytes) = m.len
         /\ m.type # "DATA" => Credit(m) = m.len /\ Len(m.bytes) = 0
  <1>1. toPeer \in Seq(FrameSet)
    BY LedgerTypes
  <1>2. /\ m \in FrameSet /\ m = toPeer[1] /\ 1 \in 1..Len(toPeer) /\ Tail(toPeer) \in Seq(FrameSet)
    BY <1>1, TailFacts
  <1>3. Len(m.bytes) = IF m.type = "DATA" THEN m.len ELSE 0
    BY <1>2 DEF IInv, FramesHonest
  <1>4. m.len \in Nat /\ Len(m.bytes) \in Nat /\ m.bytes \in Seq(Nat)
    BY <1>2, FrameFields
  <1>5. BytesIn(toPeer') \in Nat /\ CreditIn(toPeer') \in Nat
    BY <1>2, ChannelWeights
  <1>6. /\ BytesIn(toPeer) = Len(m.bytes) + BytesIn(toPeer')
        /\ CreditIn(toPeer) = Credit(m) + CreditIn(toPeer')
    BY <1>1, ChannelTail
  <1>7. /\ m.type = "DATA" => Credit(m) = 0 /\ Len(m.bytes) = m.len
        /\ m.type # "DATA" => Credit(m) = m.len /\ Len(m.bytes) = 0
    BY <1>3 DEF Credit
  <1>8. Credit(m) \in Nat
    BY <1>4, <1>7
  <1> QED
    BY <1>2, <1>4, <1>5, <1>6, <1>7, <1>8

\* A frame that carries credit alone is appended to either channel.
Credited(ch, c, n) ==
  /\ BytesIn(c) = BytesIn(ch) /\ CreditIn(c) = CreditIn(ch) + n
  /\ \A first : Numbered(ch, first) => Numbered(c, first)

LEMMA CreditSent ==
  ASSUME NEW ch \in Seq(FrameSet), NEW f \in {"ZERO", "ACK", "FIN", "RST"}, NEW n \in Nat,
         NEW c, c = Append(ch, WinUpdate(f, n))
  PROVE  Credited(ch, c, n)
  <1> DEFINE m == WinUpdate(f, n)
  <1>1. m \in FrameSet
    BY FrameTypes
  <1>2. Len(m.bytes) = 0 /\ Credit(m) = n
    BY DEF WinUpdate, Credit
  <1>3. BytesIn(ch) \in Nat /\ CreditIn(ch) \in Nat
    BY ChannelWeights
  <1> HIDE DEF m
  <1>4. /\ BytesIn(c) = BytesIn(ch) + Len(m.bytes) /\ CreditIn(c) = CreditIn(ch) + Credit(m)
        /\ \A first : Numbered(ch, first)
               /\ (\A i \in 1..Len(m.bytes) : m.bytes[i] = first + BytesIn(ch) + i - 1) => Numbered(c, first)
    BY <1>1, ChannelAppend DEF m
  <1>5. 1..Len(m.bytes) = {}
    BY <1>2
  <1> QED
    BY <1>2, <1>3, <1>4, <1>5 DEF Credited

\* A DATA frame is.
Carried(ch, c, b) ==
  /\ BytesIn(c) = BytesIn(ch) + Len(b) /\ CreditIn(c) = CreditIn(ch)
  /\ \A first : Numbered(ch, first) /\ Run(b, first + BytesIn(ch)) => Numbered(c, first)

LEMMA DataSent ==
  ASSUME NEW ch \in Seq(FrameSet), NEW b \in Seq(Nat), NEW n \in Nat,
         NEW c, c = Append(ch, DataFrame(n, b))
  PROVE  Carried(ch, c, b)
  <1> DEFINE m == DataFrame(n, b)
  <1>1. m \in FrameSet
    BY FrameTypes
  <1>2. m.bytes = b /\ Credit(m) = 0
    BY DEF DataFrame, Credit
  <1>3. CreditIn(ch) \in Nat
    BY ChannelWeights
  <1> HIDE DEF m
  <1>4. /\ BytesIn(c) = BytesIn(ch) + Len(m.bytes) /\ CreditIn(c) = CreditIn(ch) + Credit(m)
        /\ \A first : Numbered(ch, first)
               /\ (\A i \in 1..Len(m.bytes) : m.bytes[i] = first + BytesIn(ch) + i - 1) => Numbered(c, first)
    BY <1>1, ChannelAppend DEF m
  <1> QED
    BY <1>2, <1>3, <1>4 DEF Carried, Run

\* A frame with neither, like SYN, opens a channel.
LEMMA FirstFrame ==
  ASSUME NEW ch, ch = <<>>, NEW m \in FrameSet, Len(m.bytes) = 0, Credit(m) = 0,
         NEW c, c = Append(ch, m)
  PROVE  c \in Seq(FrameSet) /\ BytesIn(c) = 0 /\ CreditIn(c) = 0 /\ Numbered(c, 0)
  <1>1. ch \in Seq(FrameSet)
    OBVIOUS
  <1>2. c \in Seq(FrameSet)
    BY <1>1, AppendFacts
  <1>3. BytesIn(ch) = 0 /\ CreditIn(ch) = 0 /\ Numbered(ch, 0)
    BY ChannelEmpty
  <1>4. /\ BytesIn(c) = BytesIn(ch) + Len(m.bytes) /\ CreditIn(c) = CreditIn(ch) + Credit(m)
        /\ \A f : Numbered(ch, f)
               /\ (\A i \in 1..Len(m.bytes) : m.bytes[i] = f + BytesIn(ch) + i - 1) => Numbered(c, f)
    BY <1>1, ChannelAppend
  <1>5. 1..Len(m.bytes) = {}
    OBVIOUS
  <1>6. Numbered(c, 0)
    BY <1>3, <1>4, <1>5
  <1> QED
    BY <1>2, <1>3, <1>4, <1>6

\* NewWorkConn is the first byte of the stream.
LEMMA FirstByte ==
  ASSUME NEW z \in Seq(Nat), Len(z) = 1, z[1] = 0, NEW n \in Nat,
         NEW ch \in Seq(FrameSet), BytesIn(ch) = 0, CreditIn(ch) = 0, Numbered(ch, 0),
         NEW c, c = Append(ch, DataFrame(n, z))
  PROVE  BytesIn(c) = 1 /\ CreditIn(c) = 0 /\ Numbered(c, 0)
  <1>1. Carried(ch, c, z)
    BY DataSent
  <1>2. Run(z, 0 + BytesIn(ch))
    BY DEF Run
  <1> QED
    BY <1>1, <1>2 DEF Carried

\* new_client_connect.
LEMMA OpenLedger ==
  ASSUME IInv, Open
  PROVE  /\ BytesIn(toPeer') = 1 /\ CreditIn(toPeer') = 0 /\ Numbered(toPeer', 0)
         /\ toPeer = <<>> /\ send_window' = send_window - 1 /\ send_window = MaxWindow
         /\ toPeer'[1].len = 0
  <1>1. /\ Listed /\ state = "INIT" /\ send_window' = send_window - 1
        /\ toPeer' = <<WinUpdate("SYN", MaxWindow - recv_window), DataFrame(1, <<0>>)>>
    BY DEF Open
  <1>2. recv_window = MaxWindow /\ send_window = MaxWindow /\ toPeer = <<>>
    BY <1>1 DEF IInv, Handshake
  <1>3. MaxWindow - recv_window = 0
    BY <1>2, LedgerTypes
  <1> DEFINE z == <<0>>
             a == WinUpdate("SYN", 0)
             e == Append(<<>>, a)
  <1>4. z \in Seq(Nat) /\ Len(z) = 1 /\ z[1] = 0
    OBVIOUS
  <1>5. a \in FrameSet /\ a.len = 0 /\ Len(a.bytes) = 0 /\ Credit(a) = 0
    BY FrameTypes DEF WinUpdate, Credit
  <1>6. toPeer' = <<a, DataFrame(1, z)>>
    BY <1>1, <1>3
  <1> HIDE DEF z, a
  <1>7. toPeer' = Append(e, DataFrame(1, z)) /\ toPeer'[1] = a /\ 1 \in Nat
    <2>1. \A x, y : <<x, y>> = Append(Append(<<>>, x), y) /\ <<x, y>>[1] = x
      OBVIOUS
    <2> QED
      BY <1>6, <2>1
  <1> HIDE DEF e
  <1>8. BytesIn(toPeer') = 1 /\ CreditIn(toPeer') = 0 /\ Numbered(toPeer', 0)
    <2>1. e \in Seq(FrameSet) /\ BytesIn(e) = 0 /\ CreditIn(e) = 0 /\ Numbered(e, 0)
      BY <1>5, FirstFrame DEF e
    <2> QED
      BY <1>4, <1>7, <2>1, FirstByte
  <1> QED
    BY <1>1, <1>2, <1>5, <1>7, <1>8

\* Frames without bytes.
LEMMA NoBytes ==
  ASSUME NEW ch \in Seq(FrameSet), BytesIn(ch) = 0
  PROVE  \A first : Numbered(ch, first)
  <1> DEFINE w == ByteCounts(ch)
             n == Len(ch)
  <1>1. Weights(w, n) /\ \A k \in 1..n : w[k] = Len(ch[k].bytes)
    BY ChannelWeights
  <1>2. IsFiniteSet(Cells(w, n)) /\ Cardinality(Cells(w, n)) = 0
    BY <1>1, CellsFinite DEF BytesIn, Total
  <1>3. Cells(w, n) = {}
    BY <1>2, FS_EmptySet
  <1> HIDE DEF w, n
  <1>4. ASSUME NEW k \in 1..n PROVE 1..w[k] = {}
    <2>1. \A i \in 1..w[k] : <<k, i>> \in {k} \X (1..w[k])
      OBVIOUS
    <2>2. \A p : p \in {k} \X (1..w[k]) => p \in Cells(w, n)
      BY CellsMember
    <2> QED
      BY <1>3, <2>1, <2>2
  <1>5. \A k \in 1..Len(ch) : 1..Len(ch[k].bytes) = {}
    BY <1>1, <1>4 DEF n
  <1> QED
    BY <1>5 DEF Numbered, Run

\* send_window_update adds to the window what it tells frps.
LEMMA WindowUpdateLedger ==
  ASSUME IInv, NEW nret \in 0..Frame, nret <= recv_window,
         send_window_update(nret, recv_window - nret)
  PROVE  /\ recv_window' + CreditIn(toPeer) = (recv_window - nret) + CreditIn(toPeer')
         /\ BytesIn(toPeer') = BytesIn(toPeer)
         /\ \A first : Numbered(toPeer, first) => Numbered(toPeer', first)
         /\ recv_window' \in Int /\ CreditIn(toPeer') \in Nat /\ nret \in Nat
  <1> DEFINE rw == recv_window - nret
             del == Delta(nret, rw)
  <1>1. /\ nret \in Nat /\ recv_window \in Nat /\ recv_window <= MaxWindow
        /\ rw \in Nat /\ rw <= MaxWindow - nret
    BY HalfFacts DEF TypeOK, IInv
  <1>2. del \in Nat
    BY <1>1, HalfFacts DEF Delta
  <1>t. toPeer \in Seq(FrameSet) /\ CreditIn(toPeer) \in Nat
    BY LedgerTypes
  <1>3. CASE del < Half
    <2>1. recv_window' = rw /\ toPeer' = toPeer
      BY <1>3 DEF send_window_update, TooLittle, Raised
    <2> HIDE DEF rw, del
    <2> QED
      BY <1>1, <1>t, <2>1 DEF rw
  <1>4. CASE ~ (del < Half)
    <2>1. recv_window' = rw + del /\ toPeer' = Append(toPeer, WinUpdate("ZERO", del))
      BY <1>4 DEF send_window_update, TooLittle, Raised
    <2> HIDE DEF rw, del
    <2>0. toPeer' = Append(toPeer, WinUpdate("ZERO", del)) /\ "ZERO" \in {"ZERO", "ACK", "FIN", "RST"}
      BY <2>1
    <2>2. /\ BytesIn(toPeer') = BytesIn(toPeer) /\ CreditIn(toPeer') = CreditIn(toPeer) + del
          /\ \A first : Numbered(toPeer, first) => Numbered(toPeer', first)
      <3>1. Credited(toPeer, toPeer', del)
        BY <1>2, <1>t, <2>0, CreditSent
      <3> QED
        BY <3>1 DEF Credited
    <2>3. recv_window' + CreditIn(toPeer) = rw + CreditIn(toPeer')
      BY <1>1, <1>2, <1>t, <2>1, <2>2
    <2>4. recv_window' \in Int /\ CreditIn(toPeer') \in Nat
      BY <1>1, <1>2, <1>t, <2>1, <2>2
    <2> QED
      BY <1>1, <2>2, <2>3, <2>4 DEF rw
  <1> QED
    BY <1>3, <1>4

\* Parts of a run, and two runs in a row.
LEMMA RunSplit ==
  ASSUME NEW t \in Seq(Nat), NEW a \in 0..Len(t), NEW first \in Int, Run(t, first)
  PROVE  Run(Take(t, a), first) /\ Run(Drop(t, a), first + a)
  BY DEF Run, Take, Drop

LEMMA RunConcat ==
  ASSUME NEW t \in Seq(Nat), NEW u \in Seq(Nat), NEW first \in Int,
         Run(t, first), Run(u, first + Len(t))
  PROVE  Run(t \o u, first)
  BY DEF Run

\* What tmux_stream_write sends are the first bytes of the ring and the read,
\* what it keeps the others.
LEMMA WriteSplit ==
  ASSUME IInv, Listed, bev = "open", read_on, NEW d \in Seq(Nat), Len(d) \in 1..Chunk
  PROVE  /\ Admitted(d) \in 0..Len(tx_ring \o d) /\ tx_ring \o d \in Seq(Nat)
         /\ Payload(d) = Take(tx_ring \o d, Admitted(d))
         /\ Leftover(d) = Drop(tx_ring \o d, Admitted(d))
  <1>1. /\ tx_ring \in Seq(Nat) /\ Len(tx_ring) \in Nat /\ send_window \in Nat
        /\ Len(d) \in Nat /\ Len(d) <= Chunk /\ Len(tx_ring) <= 2 * Chunk /\ ~ Shut
    <2>1. tx_ring \in Seq(Nat) /\ send_window \in Nat
      BY DEF IInv, TypeOK
    <2>2. Len(tx_ring) <= 2 * Chunk /\ ~ Shut
      BY DEF IInv, RingInv, Shut
    <2>3. Len(d) \in Nat /\ Len(d) <= Chunk
      BY HalfFacts
    <2> QED
      BY <2>1, <2>2, <2>3
  <1>2. tx_ring \o d \in Seq(Nat) /\ Len(tx_ring \o d) = Len(tx_ring) + Len(d)
    BY <1>1, ConcatFacts
  <1>3. Admitted(d) = Smaller(send_window, Len(tx_ring) + Len(d))
    BY <1>1 DEF Admitted
  <1>4. Admitted(d) \in 0..Len(tx_ring \o d)
    BY <1>1, <1>2, <1>3 DEF Smaller
  <1>5. CASE ~ Splits(d)
    BY <1>1, <1>2, <1>4, <1>5 DEF Payload, Leftover
  <1>6. CASE Splits(d)
    <2>1. send_window > 0 /\ send_window < Len(tx_ring) + Len(d)
      BY <1>6 DEF Splits
    <2>2. tx_ring # <<>> => send_window = 0 \/ send_window >= Half
      BY DEF IInv, RingInv
    <2>3. tx_ring = <<>>
      BY <1>1, <2>1, <2>2, HalfFacts, SizesAssumption
    <2>4. tx_ring \o d = d
      BY <2>3
    <2>5. Admitted(d) = Smaller(send_window, Len(d)) /\ Smaller(send_window, Len(d)) \in 0..Len(d)
      BY <1>1, <1>3, <2>3 DEF Smaller
    <2>6. Take(d, Admitted(d)) \in Seq(Nat)
      <3> HIDE DEF Admitted
      <3> QED
        BY <2>5, TakeDrop
    <2>7. tx_ring \o Take(d, Admitted(d)) = Take(d, Admitted(d))
      BY <2>3, <2>6
    <2>8. Payload(d) = tx_ring \o Take(d, Admitted(d)) /\ Leftover(d) = Drop(d, Admitted(d))
      BY <1>1, <1>6, <2>5 DEF Payload, Leftover
    <2> QED
      BY <1>2, <1>4, <2>4, <2>7, <2>8
  <1> QED
    BY <1>5, <1>6

\* tcp_proxy_c2s_cb: what is charged is sent, and the bytes sent and kept
\* continue those before them.
LEMMA ReadLedger ==
  ASSUME IInv, NEW n \in 1..Chunk, LocalRead(n)
  PROVE  /\ BytesIn(toPeer') \in Nat /\ CreditIn(toPeer') = CreditIn(toPeer)
         /\ send_window' + BytesIn(toPeer') = send_window + BytesIn(toPeer)
         /\ \A first \in Nat :
              /\ Numbered(toPeer, first) /\ Run(tx_ring, first + BytesIn(toPeer))
              /\ first + BytesIn(toPeer) + Len(tx_ring) = up + 1
              => /\ Numbered(toPeer', first) /\ Run(tx_ring', first + BytesIn(toPeer'))
                 /\ first + BytesIn(toPeer') + Len(tx_ring') = up' + 1
  <1> DEFINE d == [k \in 1..n |-> up + k]
             all == tx_ring \o d
             a == Admitted(d)
  <1>1. /\ up \in Nat /\ n \in Nat /\ BytesIn(toPeer) \in Nat /\ send_window \in Nat
        /\ toPeer \in Seq(FrameSet) /\ tx_ring \in Seq(Nat) /\ CreditIn(toPeer) \in Nat
    BY LedgerTypes, HalfFacts
  <1>2. d \in Seq(Nat) /\ Len(d) = n /\ Run(d, up + 1)
    <2>1. d \in Seq(Nat) /\ Len(d) = n
      BY <1>1, Counting
    <2>2. Run(d, up + 1)
      BY <1>1, <2>1 DEF Run
    <2> QED
      BY <2>1, <2>2
  <1>3. /\ tmux_stream_write(d) /\ Listed /\ bev = "open" /\ read_on /\ up' = up + n
    BY DEF LocalRead
  <1> HIDE DEF d
  <1>4. /\ a \in 0..Len(all) /\ all \in Seq(Nat) /\ Payload(d) = Take(all, a)
        /\ Leftover(d) = Drop(all, a)
    BY <1>2, <1>3, WriteSplit
  <1>5. /\ send_window' = send_window - a /\ tx_ring' = Drop(all, a)
        /\ toPeer' = IF a = 0 THEN toPeer ELSE Append(toPeer, DataFrame(a, Take(all, a)))
    BY <1>3, <1>4 DEF tmux_stream_write, Charge
  <1>6. Len(all) = Len(tx_ring) + n /\ Len(tx_ring) \in Nat
    <2>1. Len(all) = Len(tx_ring) + Len(d)
      BY <1>1, <1>2, ConcatFacts
    <2>2. Len(tx_ring) \in Nat
      BY <1>1
    <2> QED
      BY <1>2, <2>1, <2>2
  <1> HIDE DEF a
  <1>7. a \in Nat /\ a <= Len(tx_ring) + n
    BY <1>1, <1>4, <1>6
  <1>8. /\ Take(all, a) \in Seq(Nat) /\ Len(Take(all, a)) = a
        /\ Len(Drop(all, a)) = (Len(tx_ring) + n) - a
    <2>1. /\ Take(all, a) \in Seq(Nat) /\ Len(Take(all, a)) = a
          /\ Len(Drop(all, a)) = Len(all) - a
      <3> HIDE DEF all
      <3> QED
        BY <1>4, TakeDrop
    <2> QED
      BY <1>6, <2>1
  <1>9. ASSUME NEW first \in Nat, Run(tx_ring, first + BytesIn(toPeer)),
               first + BytesIn(toPeer) + Len(tx_ring) = up + 1
        PROVE  Run(Take(all, a), first + BytesIn(toPeer)) /\ Run(Drop(all, a), first + BytesIn(toPeer) + a)
    <2> DEFINE b == first + BytesIn(toPeer)
    <2>1. b \in Int /\ Run(tx_ring, b) /\ b + Len(tx_ring) = up + 1
      BY <1>1, <1>9
    <2> HIDE DEF b
    <2>2. Run(d, b + Len(tx_ring))
      BY <1>2, <2>1
    <2>3. Run(all, b)
      BY <1>1, <1>2, <2>1, <2>2, RunConcat
    <2>4. Run(Take(all, a), b) /\ Run(Drop(all, a), b + a)
      <3> HIDE DEF all
      <3> QED
        BY <1>4, <2>1, <2>3, RunSplit
    <2> QED
      BY <2>4 DEF b
  <1> HIDE DEF all
  <1>10. /\ BytesIn(toPeer') = BytesIn(toPeer) + a /\ CreditIn(toPeer') = CreditIn(toPeer)
         /\ \A first \in Nat : Numbered(toPeer, first) /\ Run(Take(all, a), first + BytesIn(toPeer))
                           => Numbered(toPeer', first)
    <2>1. CASE a = 0
      <3>1. toPeer' = toPeer
        BY <1>5, <2>1
      <3> QED
        BY <1>1, <2>1, <3>1
    <2>2. CASE a # 0
      <3> DEFINE b == Take(all, a)
      <3>1. toPeer' = Append(toPeer, DataFrame(a, b)) /\ b \in Seq(Nat) /\ Len(b) = a
        BY <1>5, <1>8, <2>2
      <3> HIDE DEF b
      <3>2. Carried(toPeer, toPeer', b)
        BY <1>1, <1>7, <3>1, DataSent
      <3> QED
        BY <3>1, <3>2 DEF Carried, b
    <2> QED
      BY <2>1, <2>2
  <1>11. BytesIn(toPeer') \in Nat /\ send_window' + BytesIn(toPeer') = send_window + BytesIn(toPeer)
    BY <1>1, <1>5, <1>7, <1>10
  <1>12. ASSUME NEW first \in Nat, Numbered(toPeer, first), Run(tx_ring, first + BytesIn(toPeer)),
                first + BytesIn(toPeer) + Len(tx_ring) = up + 1
         PROVE  /\ Numbered(toPeer', first) /\ Run(tx_ring', first + BytesIn(toPeer'))
                /\ first + BytesIn(toPeer') + Len(tx_ring') = up' + 1
    <2>1. Run(Take(all, a), first + BytesIn(toPeer)) /\ Run(Drop(all, a), first + BytesIn(toPeer) + a)
      BY <1>9, <1>12
    <2>2. Numbered(toPeer', first)
      BY <1>10, <1>12, <2>1
    <2>3. first + BytesIn(toPeer') = first + BytesIn(toPeer) + a
      BY <1>1, <1>7, <1>10
    <2>4. Run(tx_ring', first + BytesIn(toPeer'))
      BY <1>5, <2>1, <2>3
    <2>5. Len(tx_ring') = (Len(tx_ring) + n) - a
      BY <1>5, <1>8
    <2>6. first + BytesIn(toPeer') + Len(tx_ring') = up' + 1
      <3>1. \A f, x, y, z, q, w \in Nat : (f + x) + y = z + 1 => (f + x + q) + ((y + w) - q) = (z + w) + 1
        OBVIOUS
      <3>2. (first + BytesIn(toPeer) + a) + ((Len(tx_ring) + n) - a) = (up + n) + 1
        <4> DEFINE x == BytesIn(toPeer)
                   y == Len(tx_ring)
        <4>1. x \in Nat /\ y \in Nat /\ (first + x) + y = up + 1
          BY <1>1, <1>6, <1>12
        <4> HIDE DEF x, y
        <4>2. (first + x + a) + ((y + n) - a) = (up + n) + 1
          BY <1>1, <1>7, <3>1, <4>1
        <4> QED
          BY <4>2 DEF x, y
      <3> QED
        BY <1>3, <2>3, <2>5, <3>2
    <2> QED
      BY <2>2, <2>4, <2>6
  <1> QED
    BY <1>10, <1>11, <1>12

-----------------------------------------------------------------------------
(* What frps does to the ledger                                              *)

\* The fields of frps's side, one of them changed.
LEMMA PeerFields ==
  ASSUME NEW p \in PeerSet, NEW v
  PROVE  /\ LET q == [p EXCEPT !.state = v] IN
              q.state = v /\ q.window = p.window /\ q.unacked = p.unacked /\ q.got = p.got
              /\ q.started = p.started /\ q.down = p.down
         /\ \A a, b : LET q == [p EXCEPT !.got = a, !.unacked = b] IN
              q.state = p.state /\ q.window = p.window /\ q.unacked = b /\ q.got = a
              /\ q.started = p.started /\ q.down = p.down
         /\ \A a, b : LET q == [p EXCEPT !.started = a, !.window = b] IN
              q.state = p.state /\ q.window = b /\ q.unacked = p.unacked /\ q.got = p.got
              /\ q.started = a /\ q.down = p.down
         /\ \A a, b : LET q == [p EXCEPT !.window = a, !.down = b] IN
              q.state = p.state /\ q.window = a /\ q.unacked = p.unacked /\ q.got = p.got
              /\ q.started = p.started /\ q.down = b
         /\ \A a, b : LET q == [p EXCEPT !.window = a, !.state = b] IN
              q.state = b /\ q.window = a /\ q.unacked = p.unacked /\ q.got = p.got
              /\ q.started = p.started /\ q.down = p.down
  BY DEF PeerSet

\* The SYN carries nothing; nor does the answer.
LEMMA AcceptLedger ==
  ASSUME IInv, SideInv, PeerAccept
  PROVE  /\ Listed /\ state = "SYN_SEND" /\ peer.state = "LISTEN"
         /\ peer'.state \in {"OPEN", "CLOSED"}
         /\ peer'.window = peer.window /\ peer'.unacked = peer.unacked /\ peer'.got = peer.got
         /\ peer'.started = peer.started /\ peer'.down = peer.down
         /\ BytesIn(toPeer') = BytesIn(toPeer) /\ CreditIn(toPeer') = CreditIn(toPeer)
         /\ \A f \in Nat : Numbered(toPeer, f) => Numbered(toPeer', f)
         /\ Credited(toClient, toClient', 0)
  <1> DEFINE m == Head(toPeer)
  <1>1. toPeer # <<>> /\ m.flag = "SYN" /\ toPeer' = Tail(toPeer)
    BY DEF PeerAccept
  <1> HIDE DEF m
  <1>2. /\ m = toPeer[1] /\ 1 \in 1..Len(toPeer) /\ m.len \in Nat
        /\ BytesIn(toPeer) = BytesIn(toPeer') + Len(m.bytes) /\ BytesIn(toPeer') \in Nat
        /\ CreditIn(toPeer) = CreditIn(toPeer') + Credit(m) /\ CreditIn(toPeer') \in Nat
        /\ m.type = "DATA" => Credit(m) = 0 /\ Len(m.bytes) = m.len
        /\ m.type # "DATA" => Credit(m) = m.len /\ Len(m.bytes) = 0
    BY <1>1, PeerTakes DEF m
  <1>3. m.len = 0
    BY <1>1, <1>2 DEF SideInv, SynSide
  <1>4. Credit(m) = 0 /\ Len(m.bytes) = 0
    BY <1>2, <1>3
  <1>5. BytesIn(toPeer') = BytesIn(toPeer) /\ CreditIn(toPeer') = CreditIn(toPeer)
    BY <1>2, <1>4
  <1>6. toPeer \in Seq(FrameSet) /\ toClient \in Seq(FrameSet) /\ peer \in PeerSet
    BY LedgerTypes
  <1>7. \A f \in Int : Numbered(toPeer, f) => Numbered(toPeer', f + Len(m.bytes))
    BY <1>1, <1>6, ChannelTail DEF m
  <1>8. \A f \in Nat : Numbered(toPeer, f) => Numbered(toPeer', f)
    <2>1. \A f \in Nat : f \in Int /\ f + Len(m.bytes) = f
      BY <1>4
    <2> QED
      BY <1>7, <2>1
  <1>9. Listed /\ state = "SYN_SEND" /\ peer.state = "LISTEN"
    BY <1>1, <1>2 DEF IInv, SynFirst
  <1>10. \/ /\ toClient' = Append(toClient, WinUpdate("ACK", 0))
            /\ peer' = [peer EXCEPT !.state = "OPEN"]
         \/ /\ toClient' = Append(toClient, WinUpdate("RST", 0))
            /\ peer' = [peer EXCEPT !.state = "CLOSED"]
    BY DEF PeerAccept, PeerSays
  <1>11. /\ peer'.state \in {"OPEN", "CLOSED"}
         /\ peer'.window = peer.window /\ peer'.unacked = peer.unacked /\ peer'.got = peer.got
         /\ peer'.started = peer.started /\ peer'.down = peer.down
    <2>1. PICK v \in {"OPEN", "CLOSED"} : peer' = [peer EXCEPT !.state = v]
      BY <1>10
    <2> QED
      BY <1>6, <2>1, PeerFields
  <1>12. Credited(toClient, toClient', 0)
    <2>1. PICK f \in {"ZERO", "ACK", "FIN", "RST"} : toClient' = Append(toClient, WinUpdate(f, 0))
      BY <1>10
    <2>2. 0 \in Nat
      OBVIOUS
    <2> QED
      BY <1>6, <2>1, <2>2, CreditSent
  <1> QED
    BY <1>5, <1>8, <1>9, <1>11, <1>12

\* FIN and RST carry nothing.
LEMMA CloseLedger ==
  ASSUME IInv, PeerFin \/ PeerReset
  PROVE  /\ peer.state \in {"OPEN", "REMOTE_CLOSE", "LOCAL_CLOSE"}
         /\ peer'.state \in {"LOCAL_CLOSE", "CLOSED"}
         /\ peer'.window = peer.window /\ peer'.unacked = peer.unacked /\ peer'.got = peer.got
         /\ peer'.started = peer.started /\ peer'.down = peer.down
         /\ toPeer' = toPeer /\ Credited(toClient, toClient', 0)
  <1>1. toPeer \in Seq(FrameSet) /\ toClient \in Seq(FrameSet) /\ peer \in PeerSet
    BY LedgerTypes
  <1>2. /\ \/ toClient' = Append(toClient, WinUpdate("FIN", 0))
           \/ toClient' = Append(toClient, WinUpdate("RST", 0))
        /\ \E v \in {"LOCAL_CLOSE", "CLOSED"} : peer' = [peer EXCEPT !.state = v]
        /\ peer.state \in {"OPEN", "REMOTE_CLOSE", "LOCAL_CLOSE"} /\ toPeer' = toPeer
    BY DEF PeerFin, PeerReset, PeerSays
  <1>3. /\ peer'.state \in {"LOCAL_CLOSE", "CLOSED"}
        /\ peer'.window = peer.window /\ peer'.unacked = peer.unacked /\ peer'.got = peer.got
        /\ peer'.started = peer.started /\ peer'.down = peer.down
    BY <1>1, <1>2, PeerFields
  <1>4. Credited(toClient, toClient', 0)
    <2>1. PICK f \in {"ZERO", "ACK", "FIN", "RST"} : toClient' = Append(toClient, WinUpdate(f, 0))
      BY <1>2
    <2>2. 0 \in Nat
      OBVIOUS
    <2> QED
      BY <1>1, <2>1, <2>2, CreditSent
  <1> QED
    BY <1>2, <1>3, <1>4

\* What frps reads it will credit.
LEMMA PeerReadLedger ==
  ASSUME IInv, PeerRead, NEW b, b = Head(toPeer).bytes
  PROVE  /\ peer.state = "OPEN" /\ peer'.state = "OPEN" /\ b \in Seq(Nat)
         /\ peer'.window = peer.window /\ peer'.got = peer.got \o b
         /\ peer'.started = peer.started /\ peer'.down = peer.down
         /\ BytesIn(toPeer) = BytesIn(toPeer') + Len(b) /\ BytesIn(toPeer') \in Nat
         /\ CreditIn(toPeer') = CreditIn(toPeer)
         /\ \A f \in Int : Numbered(toPeer, f) => Numbered(toPeer', f + Len(b)) /\ Run(b, f)
         /\ peer'.unacked + CreditIn(toClient') = (peer.unacked + Len(b)) + CreditIn(toClient)
         /\ BytesIn(toClient') = BytesIn(toClient)
         /\ \A f : Numbered(toClient, f) => Numbered(toClient', f)
  <1> DEFINE m == Head(toPeer)
             u == peer.unacked + Len(b)
  <1>1. toPeer # <<>> /\ m.type = "DATA" /\ toPeer' = Tail(toPeer) /\ m.bytes = b
    BY DEF PeerRead
  <1>2. /\ IF u >= Half THEN PeerSays(WinUpdate("ZERO", u)) ELSE UNCHANGED toClient
        /\ peer' = [peer EXCEPT !.got = peer.got \o b, !.unacked = IF u >= Half THEN 0 ELSE u]
        /\ peer.state = "OPEN"
    BY DEF PeerRead
  <1>3. /\ toPeer \in Seq(FrameSet) /\ toClient \in Seq(FrameSet) /\ peer \in PeerSet
        /\ peer.unacked \in Nat /\ CreditIn(toClient) \in Nat
    BY LedgerTypes
  <1> HIDE DEF m
  <1>4. /\ BytesIn(toPeer) = BytesIn(toPeer') + Len(b) /\ BytesIn(toPeer') \in Nat
        /\ CreditIn(toPeer') = CreditIn(toPeer) /\ b \in Seq(Nat) /\ Len(b) \in Nat
    <2>1. /\ BytesIn(toPeer) = BytesIn(toPeer') + Len(m.bytes) /\ BytesIn(toPeer') \in Nat
          /\ CreditIn(toPeer) = CreditIn(toPeer') + Credit(m) /\ CreditIn(toPeer') \in Nat
          /\ m.type = "DATA" => Credit(m) = 0 /\ Len(m.bytes) = m.len
          /\ m.bytes \in Seq(Nat) /\ Len(m.bytes) \in Nat
      BY <1>1, PeerTakes DEF m
    <2>2. Credit(m) = 0
      BY <1>1, <2>1
    <2> QED
      BY <1>1, <2>1, <2>2
  <1>5. \A f \in Int : Numbered(toPeer, f) =>
           Numbered(toPeer', f + Len(m.bytes)) /\ \A i \in 1..Len(m.bytes) : m.bytes[i] = f + i - 1
    <2>1. toPeer \in Seq(FrameSet) /\ toPeer # <<>> /\ toPeer' = Tail(toPeer) /\ m = Head(toPeer)
      BY <1>1, <1>3 DEF m
    <2> QED
      BY <2>1, ChannelTail
  <1>6. \A f \in Int : Numbered(toPeer, f) => Numbered(toPeer', f + Len(b)) /\ Run(b, f)
    BY <1>1, <1>5 DEF Run
  <1>7. u \in Nat
    BY <1>3, <1>4
  <1> HIDE DEF u
  <1>8. /\ peer'.state = "OPEN" /\ peer'.window = peer.window /\ peer'.got = peer.got \o b
        /\ peer'.started = peer.started /\ peer'.down = peer.down
        /\ peer'.unacked = IF u >= Half THEN 0 ELSE u
    <2> DEFINE x == peer.got \o b
               y == IF u >= Half THEN 0 ELSE u
    <2>1. peer' = [peer EXCEPT !.got = x, !.unacked = y]
      BY <1>2
    <2> HIDE DEF x, y
    <2>2. /\ peer'.state = peer.state /\ peer'.window = peer.window /\ peer'.got = x
          /\ peer'.started = peer.started /\ peer'.down = peer.down
          /\ peer'.unacked = y
      BY <1>3, <2>1, PeerFields
    <2> QED
      BY <1>2, <2>2 DEF x, y
  <1>9. /\ peer'.unacked + CreditIn(toClient') = u + CreditIn(toClient)
        /\ BytesIn(toClient') = BytesIn(toClient)
        /\ \A f : Numbered(toClient, f) => Numbered(toClient', f)
    <2>1. CASE u >= Half
      <3>1. toClient' = Append(toClient, WinUpdate("ZERO", u)) /\ "ZERO" \in {"ZERO", "ACK", "FIN", "RST"}
        BY <1>2, <2>1 DEF PeerSays
      <3>2. Credited(toClient, toClient', u)
        BY <1>3, <1>7, <3>1, CreditSent
      <3>3. peer'.unacked = 0
        BY <1>8, <2>1
      <3> QED
        BY <1>3, <1>7, <3>2, <3>3 DEF Credited
    <2>2. CASE ~ (u >= Half)
      <3>1. toClient' = toClient /\ peer'.unacked = u
        BY <1>2, <1>8, <2>2
      <3> QED
        BY <3>1
    <2> QED
      BY <2>1, <2>2
  <1> QED
    BY <1>2, <1>4, <1>6, <1>8, <1>9 DEF u

\* StartWorkConn and the user's bytes are taken from the window of frps.
LEMMA PeerDataLedger ==
  ASSUME IInv, NEW n \in Nat, NEW b \in Seq(Nat), Len(b) = n,
         toClient' = Append(toClient, DataFrame(n, b))
  PROVE  /\ BytesIn(toClient') = BytesIn(toClient) + n /\ CreditIn(toClient') = CreditIn(toClient)
         /\ \A f : Numbered(toClient, f) /\ Run(b, f + BytesIn(toClient)) => Numbered(toClient', f)
  <1>1. toClient \in Seq(FrameSet)
    BY LedgerTypes
  <1>2. Carried(toClient, toClient', b)
    BY <1>1, DataSent
  <1> QED
    BY <1>2 DEF Carried

LEMMA PeerStartLedger ==
  ASSUME IInv, PeerStart
  PROVE  /\ peer.state = "OPEN" /\ peer'.state = "OPEN" /\ ~ peer.started /\ peer'.started
         /\ peer.window > 0 /\ peer'.window = peer.window - 1 /\ peer'.down = peer.down
         /\ peer'.unacked = peer.unacked /\ peer'.got = peer.got
         /\ toPeer' = toPeer /\ BytesIn(toClient') = BytesIn(toClient) + 1
         /\ CreditIn(toClient') = CreditIn(toClient)
         /\ \A f \in Int : Numbered(toClient, f) /\ f + BytesIn(toClient) = 0 => Numbered(toClient', f)
  <1> DEFINE b == <<0>>
  <1>1. b \in Seq(Nat) /\ Len(b) = 1 /\ b[1] = 0 /\ 1 \in Nat
    OBVIOUS
  <1>2. Run(b, 0)
    BY <1>1 DEF Run
  <1>3. /\ peer.state = "OPEN" /\ ~ peer.started /\ peer.window > 0 /\ toPeer' = toPeer
        /\ toClient' = Append(toClient, DataFrame(1, b))
        /\ peer' = [peer EXCEPT !.started = TRUE, !.window = peer.window - 1]
    BY DEF PeerStart, PeerSays
  <1>4. peer \in PeerSet
    BY LedgerTypes
  <1>5. /\ peer'.state = peer.state /\ peer'.window = peer.window - 1
        /\ peer'.unacked = peer.unacked
        /\ peer'.got = peer.got /\ peer'.started = TRUE /\ peer'.down = peer.down
    BY <1>3, <1>4, PeerFields
  <1> HIDE DEF b
  <1>6. /\ BytesIn(toClient') = BytesIn(toClient) + 1 /\ CreditIn(toClient') = CreditIn(toClient)
        /\ \A f : Numbered(toClient, f) /\ Run(b, f + BytesIn(toClient)) => Numbered(toClient', f)
    BY <1>1, <1>3, PeerDataLedger
  <1> QED
    BY <1>2, <1>3, <1>5, <1>6

LEMMA PeerSendLedger ==
  ASSUME IInv, NEW n \in 1..Frame, PeerSend(n)
  PROVE  /\ n \in Nat /\ peer'.state = peer.state /\ peer.started /\ peer'.started
         /\ n <= peer.window /\ peer'.window = peer.window - n /\ peer'.down = peer.down + n
         /\ peer'.unacked = peer.unacked /\ peer'.got = peer.got
         /\ toPeer' = toPeer /\ BytesIn(toClient') = BytesIn(toClient) + n
         /\ CreditIn(toClient') = CreditIn(toClient)
         /\ \A f \in Int : Numbered(toClient, f) /\ f + BytesIn(toClient) = peer.down + 1 => Numbered(toClient', f)
  <1> DEFINE b == [k \in 1..n |-> peer.down + k]
  <1>1. n \in Nat /\ peer.down \in Nat /\ peer \in PeerSet
    BY LedgerTypes, HalfFacts
  <1>2. b \in Seq(Nat) /\ Len(b) = n
    BY <1>1, Counting
  <1>3. Run(b, peer.down + 1)
    BY <1>1, <1>2 DEF Run
  <1>4. /\ peer.started /\ n <= peer.window /\ toPeer' = toPeer
        /\ toClient' = Append(toClient, DataFrame(n, b))
        /\ peer' = [peer EXCEPT !.window = peer.window - n, !.down = peer.down + n]
    BY DEF PeerSend, PeerSays
  <1>5. /\ peer'.state = peer.state /\ peer'.window = peer.window - n
        /\ peer'.unacked = peer.unacked
        /\ peer'.got = peer.got /\ peer'.started = peer.started /\ peer'.down = peer.down + n
    <2> DEFINE x == peer.window - n
               y == peer.down + n
    <2>1. peer' = [peer EXCEPT !.window = x, !.down = y]
      BY <1>4
    <2> HIDE DEF x, y
    <2>2. /\ peer'.state = peer.state /\ peer'.window = x /\ peer'.unacked = peer.unacked
          /\ peer'.got = peer.got /\ peer'.started = peer.started /\ peer'.down = y
      BY <1>1, <2>1, PeerFields
    <2> QED
      BY <2>2 DEF x, y
  <1> HIDE DEF b
  <1>6. /\ BytesIn(toClient') = BytesIn(toClient) + n /\ CreditIn(toClient') = CreditIn(toClient)
        /\ \A f : Numbered(toClient, f) /\ Run(b, f + BytesIn(toClient)) => Numbered(toClient', f)
    BY <1>1, <1>2, <1>4, PeerDataLedger
  <1> QED
    BY <1>1, <1>3, <1>4, <1>5, <1>6

\* frps takes the credit, or the FIN.
LEMMA PeerRecvLedger ==
  ASSUME IInv, PeerRecv
  PROVE  /\ peer'.unacked = peer.unacked /\ peer'.got = peer.got
         /\ peer'.started = peer.started /\ peer'.down = peer.down /\ toClient' = toClient
         /\ BytesIn(toPeer') = BytesIn(toPeer) /\ CreditIn(toPeer') \in Nat
         /\ peer'.window + CreditIn(toPeer') = peer.window + CreditIn(toPeer)
         /\ peer'.window \in Int /\ peer'.window >= peer.window
         /\ \A f \in Nat : Numbered(toPeer, f) => Numbered(toPeer', f)
         /\ \/ peer'.state = peer.state
            \/ /\ toPeer # <<>> /\ toPeer[1].flag = "FIN" /\ toPeer' = Tail(toPeer)
               /\ \/ peer.state = "OPEN" /\ peer'.state = "REMOTE_CLOSE"
                  \/ peer.state # "OPEN" /\ peer'.state = "CLOSED"
  <1> DEFINE m == Head(toPeer)
             v == IF m.flag # "FIN" THEN peer.state ELSE IF peer.state = "OPEN" THEN "REMOTE_CLOSE" ELSE "CLOSED"
             w == peer.window + m.len
  <1>1. toPeer # <<>> /\ m.type # "DATA" /\ toPeer' = Tail(toPeer) /\ toClient' = toClient
    BY DEF PeerRecv
  <1>2. peer' = [peer EXCEPT !.window = w, !.state = v]
    BY DEF PeerRecv
  <1>3. /\ toPeer \in Seq(FrameSet) /\ peer \in PeerSet /\ peer.window \in Int
    BY LedgerTypes
  <1> HIDE DEF v, w
  <1>4. /\ peer'.unacked = peer.unacked /\ peer'.got = peer.got
        /\ peer'.started = peer.started /\ peer'.down = peer.down
        /\ peer'.window = w /\ peer'.state = v
    BY <1>2, <1>3, PeerFields
  <1> HIDE DEF m
  <1>5. /\ BytesIn(toPeer) = BytesIn(toPeer') + Len(m.bytes) /\ BytesIn(toPeer') \in Nat
        /\ CreditIn(toPeer) = CreditIn(toPeer') + Credit(m) /\ CreditIn(toPeer') \in Nat
        /\ Credit(m) = m.len /\ Len(m.bytes) = 0 /\ m.len \in Nat /\ m = toPeer[1]
    <2>1. /\ BytesIn(toPeer) = BytesIn(toPeer') + Len(m.bytes) /\ BytesIn(toPeer') \in Nat
          /\ CreditIn(toPeer) = CreditIn(toPeer') + Credit(m) /\ CreditIn(toPeer') \in Nat
          /\ m.type # "DATA" => Credit(m) = m.len /\ Len(m.bytes) = 0
          /\ m.len \in Nat /\ m = toPeer[1]
      BY <1>1, PeerTakes DEF m
    <2> QED
      BY <1>1, <2>1
  <1>6. \A f \in Int : Numbered(toPeer, f) => Numbered(toPeer', f + Len(m.bytes))
    BY <1>1, <1>3, ChannelTail DEF m
  <1>7. \A f \in Nat : Numbered(toPeer, f) => Numbered(toPeer', f)
    <2>1. \A f \in Nat : f \in Int /\ f + Len(m.bytes) = f
      BY <1>5
    <2> QED
      BY <1>6, <2>1
  <1>8. w \in Int /\ w >= peer.window /\ w + CreditIn(toPeer') = peer.window + CreditIn(toPeer)
    BY <1>3, <1>5 DEF w
  <1>9. \/ v = peer.state
        \/ m.flag = "FIN" /\ ((peer.state = "OPEN" /\ v = "REMOTE_CLOSE") \/ (peer.state # "OPEN" /\ v = "CLOSED"))
    <2>1. CASE m.flag # "FIN"
      BY <2>1 DEF v
    <2>2. CASE m.flag = "FIN" /\ peer.state = "OPEN"
      BY <2>2 DEF v
    <2>3. CASE m.flag = "FIN" /\ peer.state # "OPEN"
      BY <2>3 DEF v
    <2> QED
      BY <2>1, <2>2, <2>3
  <1>10. BytesIn(toPeer') = BytesIn(toPeer)
    BY <1>5
  <1> QED
    BY <1>1, <1>4, <1>5, <1>7, <1>8, <1>9, <1>10

LEMMA PeerDiscardLedger ==
  ASSUME IInv, PeerDiscard
  PROVE  /\ peer' = peer /\ toClient' = toClient /\ toPeer # <<>>
         /\ peer.state \notin {"LISTEN", "OPEN"}
         /\ CreditIn(toPeer') = CreditIn(toPeer)
  <1> DEFINE m == Head(toPeer)
  <1>1. /\ toPeer # <<>> /\ m.type = "DATA" /\ toPeer' = Tail(toPeer) /\ toClient' = toClient
        /\ peer.state \notin {"LISTEN", "OPEN"} /\ peer' = peer
    BY DEF PeerDiscard
  <1> HIDE DEF m
  <1>2. /\ CreditIn(toPeer) = CreditIn(toPeer') + Credit(m) /\ CreditIn(toPeer') \in Nat
        /\ m.type = "DATA" => Credit(m) = 0 /\ Len(m.bytes) = m.len
    BY <1>1, PeerTakes DEF m
  <1>3. CreditIn(toPeer') = CreditIn(toPeer)
    BY <1>1, <1>2
  <1> QED
    BY <1>1, <1>3

-----------------------------------------------------------------------------
(* What the client does to it                                                *)

\* tmux_stream_close.
LEMMA EventLedger ==
  ASSUME IInv, NEW what \in {"EOF", "ERROR"}, LocalEvent(what)
  PROVE  /\ Credited(toPeer, toPeer', 0) /\ bev' = "null" /\ state' \in {"LOCAL_CLOSE", "CLOSED"}
         /\ Listed /\ bev = "open"
         /\ UNCHANGED <<send_window, recv_window, tx_ring, rx_ring, local_out, up, toClient, peer>>
  <1>1. /\ toPeer' = Append(toPeer, WinUpdate("FIN", 0)) /\ bev' = "null"
        /\ state' \in {"LOCAL_CLOSE", "CLOSED"} /\ Listed /\ bev = "open"
        /\ UNCHANGED <<send_window, recv_window, tx_ring, rx_ring, local_out, up, toClient, peer>>
    BY DEF LocalEvent, tmux_stream_close, FreeBev
  <1>2. toPeer \in Seq(FrameSet) /\ 0 \in Nat /\ "FIN" \in {"ZERO", "ACK", "FIN", "RST"}
    BY LedgerTypes
  <1>3. Credited(toPeer, toPeer', 0)
    BY <1>1, <1>2, CreditSent
  <1> QED
    BY <1>1, <1>3

\* incr_send_window.
LEMMA WinUpdateLedger ==
  ASSUME IInv, HandleWinUpdate, Listed'
  PROVE  /\ send_window' + CreditIn(toClient') = send_window + CreditIn(toClient)
         /\ BytesIn(toClient') = BytesIn(toClient)
         /\ \A f \in Nat : Numbered(toClient, f) => Numbered(toClient', f)
         /\ bev' = bev
         /\ state' \in {state, "ESTABLISHED", "REMOTE_CLOSE"} /\ (state' = "ESTABLISHED" => state \in {"SYN_SEND", "ESTABLISHED"})
         /\ UNCHANGED <<recv_window, tx_ring, rx_ring, local_out, up, toPeer, peer>>
  <1> DEFINE m == Head(toClient)
  <1>1. /\ m.len \in Nat /\ send_window' = send_window + m.len /\ bev' = bev
        /\ state' \in {state, "ESTABLISHED", "REMOTE_CLOSE"}
        /\ (state' = "ESTABLISHED" => state \in {"SYN_SEND", "ESTABLISHED"})
    BY WinUpdateFacts
  <1>2. /\ toClient # <<>> /\ toClient' = Tail(toClient) /\ m.type = "WINDOW_UPDATE"
        /\ UNCHANGED <<recv_window, tx_ring, rx_ring, local_out, up, toPeer, peer>>
    BY DEF HandleWinUpdate
  <1>3. toClient \in Seq(FrameSet) /\ send_window \in Nat
    BY LedgerTypes
  <1> HIDE DEF m
  <1>4. /\ BytesIn(toClient) = BytesIn(toClient') + Len(m.bytes) /\ BytesIn(toClient') \in Nat
        /\ CreditIn(toClient) = CreditIn(toClient') + Credit(m) /\ CreditIn(toClient') \in Nat
        /\ m.type # "DATA" => Credit(m) = m.len /\ Len(m.bytes) = 0
    BY <1>2, ClientTakes DEF m
  <1>5. Credit(m) = m.len /\ Len(m.bytes) = 0
    BY <1>2, <1>4
  <1>6. \A f \in Int : Numbered(toClient, f) => Numbered(toClient', f + Len(m.bytes))
    BY <1>2, <1>3, ChannelTail DEF m
  <1>7. \A f \in Nat : Numbered(toClient, f) => Numbered(toClient', f)
    <2>1. \A f \in Nat : f \in Int /\ f + Len(m.bytes) = f
      BY <1>5
    <2> QED
      BY <1>6, <2>1
  <1>8. /\ send_window' + CreditIn(toClient') = send_window + CreditIn(toClient)
        /\ BytesIn(toClient') = BytesIn(toClient)
    BY <1>1, <1>3, <1>4, <1>5
  <1> QED
    BY <1>1, <1>2, <1>7, <1>8

\* process_data handles a frame.
LEMMA DataLedger ==
  ASSUME IInv, SideInv, NEW b \in BOOLEAN, HandleDataTunnel \/ HandleDataControl(b),
         NEW t, t = Head(toClient).bytes
  PROVE  /\ Listed /\ state = "ESTABLISHED" /\ t \in Seq(Nat) /\ Len(t) >= 1
         /\ BytesIn(toClient) = BytesIn(toClient') + Len(t) /\ BytesIn(toClient') \in Nat
         /\ CreditIn(toClient') = CreditIn(toClient)
         /\ \A f \in Int : Numbered(toClient, f) => Numbered(toClient', f + Len(t)) /\ Run(t, f)
         /\ (recv_window' + CreditIn(toPeer)) + Len(t) = recv_window + CreditIn(toPeer')
         /\ recv_window' \in Int /\ CreditIn(toPeer') \in Nat
         /\ BytesIn(toPeer') = BytesIn(toPeer)
         /\ \A f : Numbered(toPeer, f) => Numbered(toPeer', f)
         /\ rx_ring' = <<>>
         /\ HandleDataTunnel => local_out' = local_out \o t /\ bev = "open" /\ bev' = "open"
         /\ HandleDataControl(b) => /\ local_out' = local_out /\ bev = "none"
                                    /\ bev' = (IF b THEN "open" ELSE "none") /\ (b => t = <<0>>)
         /\ UNCHANGED <<state, send_window, tx_ring, pc, up, peer>>
  <1> DEFINE m == Head(toClient)
             r == rx_ring \o t
  <1>1. /\ Listed /\ state = "ESTABLISHED" /\ toClient # <<>> /\ m.type = "DATA" /\ ~ Refused(m)
        /\ send_window_update(m.len, recv_window - m.len) /\ toClient' = Tail(toClient)
        /\ m.bytes = t
        /\ UNCHANGED <<state, send_window, tx_ring, pc, up, peer>>
        /\ rx_ring' = Drop(r, m.len)
        /\ HandleDataTunnel => local_out' = local_out \o Take(r, m.len) /\ bev = "open" /\ bev' = "open"
        /\ HandleDataControl(b) => /\ local_out' = local_out /\ bev = "none"
                                   /\ bev' = (IF b THEN "open" ELSE "none") /\ (b => Take(r, m.len) = <<0>>)
    BY DEF HandleDataTunnel, HandleDataControl, Deliver
  <1>2. /\ toClient \in Seq(FrameSet) /\ recv_window \in Nat /\ CreditIn(toPeer) \in Nat
    BY LedgerTypes
  <1>3. rx_ring = <<>>
    BY <1>1 DEF SideInv, RxSide, Young
  <1> HIDE DEF m
  <1>4. /\ BytesIn(toClient) = BytesIn(toClient') + Len(m.bytes) /\ BytesIn(toClient') \in Nat
        /\ CreditIn(toClient) = CreditIn(toClient') + Credit(m) /\ CreditIn(toClient') \in Nat
        /\ m.type = "DATA" => Credit(m) = 0 /\ Len(m.bytes) = m.len
        /\ PeerFrame(m) /\ m.bytes \in Seq(Nat) /\ m.len \in Nat
    BY <1>1, ClientTakes DEF m
  <1>5. /\ Len(t) = m.len /\ t \in Seq(Nat) /\ m.len \in 1..Frame /\ Len(t) >= 1
        /\ BytesIn(toClient) = BytesIn(toClient') + Len(t)
        /\ CreditIn(toClient') = CreditIn(toClient)
    <2>1. m.len \in 1..Frame
      BY <1>1, <1>4 DEF PeerFrame
    <2>2. Len(t) = m.len /\ t \in Seq(Nat) /\ Credit(m) = 0
      BY <1>1, <1>4
    <2> QED
      BY <1>1, <1>4, <2>1, <2>2, HalfFacts
  <1>6. \A f \in Int : Numbered(toClient, f) =>
           Numbered(toClient', f + Len(m.bytes)) /\ \A i \in 1..Len(m.bytes) : m.bytes[i] = f + i - 1
    <2>1. toClient \in Seq(FrameSet) /\ toClient # <<>> /\ toClient' = Tail(toClient) /\ m = Head(toClient)
      BY <1>1, <1>2 DEF m
    <2> QED
      BY <2>1, ChannelTail
  <1>7. \A f \in Int : Numbered(toClient, f) => Numbered(toClient', f + Len(t)) /\ Run(t, f)
    BY <1>1, <1>6 DEF Run
  <1>8. m.len \in 0..Frame /\ m.len <= recv_window
    BY <1>1, <1>2, <1>5, HalfFacts DEF Refused
  <1>9. /\ recv_window' + CreditIn(toPeer) = (recv_window - m.len) + CreditIn(toPeer')
        /\ BytesIn(toPeer') = BytesIn(toPeer)
        /\ \A f : Numbered(toPeer, f) => Numbered(toPeer', f)
        /\ recv_window' \in Int /\ CreditIn(toPeer') \in Nat
    BY <1>1, <1>8, WindowUpdateLedger
  <1>10. (recv_window' + CreditIn(toPeer)) + Len(t) = recv_window + CreditIn(toPeer')
    <2>1. Len(t) = m.len /\ m.len \in Int
      BY <1>4, <1>5
    <2>2. recv_window' \in Int /\ CreditIn(toPeer') \in Nat
      BY <1>9
    <2>3. recv_window \in Nat /\ CreditIn(toPeer) \in Nat
      BY LedgerTypes
    <2>4. recv_window' + CreditIn(toPeer) = (recv_window - m.len) + CreditIn(toPeer')
      BY <1>9
    <2> QED
      BY <2>1, <2>2, <2>3, <2>4
  <1>11. r = t /\ Take(r, m.len) = t /\ Drop(r, m.len) = <<>>
    <2>1. r = t
      BY <1>3, <1>5
    <2>2. Take(t, Len(t)) = t /\ Drop(t, Len(t)) = <<>>
      BY <1>5 DEF Take, Drop
    <2> QED
      BY <1>5, <2>1, <2>2
  <1> HIDE DEF r
  <1> QED
    BY <1>1, <1>4, <1>5, <1>7, <1>9, <1>10, <1>11

\* Only a stream that frps has closed, or the local service, leaves bytes in
\* rx_ring: frps never exceeds the window.
LEMMA KeptAfterClose ==
  ASSUME IInv, RecvCreditConserved, SideInv, HandleDataKept
  PROVE  Listed /\ ~ Young /\ toPeer' = toPeer
  <1> DEFINE m == Head(toClient)
  <1>1. /\ Listed /\ toClient # <<>> /\ m.type = "DATA" /\ (state # "ESTABLISHED" \/ Refused(m))
        /\ toPeer' = (IF state = "ESTABLISHED" THEN Append(toPeer, GoAway) ELSE toPeer)
        /\ toClient' = Tail(toClient)
    BY DEF HandleDataKept
  <1> HIDE DEF m
  <1>2. /\ BytesIn(toClient) = BytesIn(toClient') + Len(m.bytes) /\ BytesIn(toClient') \in Nat
        /\ m.type = "DATA" => Credit(m) = 0 /\ Len(m.bytes) = m.len
        /\ m = toClient[1] /\ m.len \in Nat
    BY <1>1, ClientTakes DEF m
  <1>3. state # "ESTABLISHED"
    <2> SUFFICES ASSUME state = "ESTABLISHED" PROVE FALSE
      OBVIOUS
    <2>1. recv_window = peer.window + BytesIn(toClient) + CreditIn(toPeer)
      BY <1>1 DEF RecvCreditConserved
    <2>2. peer.window \in Int /\ peer.window >= 0 /\ CreditIn(toPeer) \in Nat /\ recv_window \in Nat
      BY LedgerTypes DEF SideInv, WindowSide
    <2>3. m.len > recv_window
      BY <1>1 DEF Refused
    <2>4. Len(m.bytes) = m.len
      BY <1>1, <1>2
    <2> QED
      BY <1>2, <2>1, <2>2, <2>3, <2>4
  <1>4. state \notin {"INIT", "SYN_SEND"}
    BY <1>1, <1>2 DEF IInv, Handshake
  <1> QED
    BY <1>1, <1>3, <1>4 DEF Young

-----------------------------------------------------------------------------
(* Every step keeps the side conditions                                      *)

\* A step that leaves frps's side, or both channels, alone.
LEMMA PeerAlone ==
  ASSUME \/ Open \/ (\E n \in 1..Chunk : LocalRead(n))
         \/ (\E what \in {"EOF", "ERROR"} : LocalEvent(what)) \/ HandleFrame \/ PeerDiscard
         \/ UNCHANGED vars
  PROVE  peer' = peer
  BY DEF Open, LocalRead, LocalEvent, HandleFrame, HandleWinUpdate, HandleDataOverflow,
         HandleDataKept, HandleDataTunnel, HandleDataTunnelFails, HandleDataControl,
         HandleAbandoned, PeerDiscard, vars

LEMMA ClearedPeer ==
  ASSUME IInv, ConnectionCleared
  PROVE  /\ peer'.state = "CLOSED" /\ peer'.window = peer.window /\ peer'.unacked = peer.unacked
         /\ peer'.got = peer.got /\ peer'.started = peer.started /\ peer'.down = peer.down
         /\ toPeer' = <<>> /\ toClient' = <<>> /\ ~ Listed' /\ bev' = "null"
         /\ UNCHANGED <<stream, local_out, up>>
  <1>1. /\ peer' = [peer EXCEPT !.state = "CLOSED"] /\ toPeer' = <<>> /\ toClient' = <<>>
        /\ pc' = "freed" /\ bev' = "null" /\ UNCHANGED <<stream, local_out, up>>
    BY DEF ConnectionCleared
  <1>2. peer \in PeerSet
    BY LedgerTypes
  <1>3. /\ peer'.state = "CLOSED" /\ peer'.window = peer.window /\ peer'.unacked = peer.unacked
        /\ peer'.got = peer.got /\ peer'.started = peer.started /\ peer'.down = peer.down
    BY <1>1, <1>2, PeerFields
  <1> QED
    BY <1>1, <1>3 DEF Listed

\* What a step does to frps's side, besides its state.
LEMMA PeerMoves ==
  ASSUME IInv, SideInv, [Next]_vars
  PROVE  /\ peer'.window >= 0 /\ (peer.started => peer'.started)
         /\ peer'.state \in {"LISTEN", "OPEN"} => peer.state \in {"LISTEN", "OPEN"}
         /\ peer'.state = "REMOTE_CLOSE" =>
              \/ peer.state = "REMOTE_CLOSE"
              \/ peer.state = "OPEN" /\ toPeer # <<>> /\ toPeer[1].flag = "FIN" /\ toPeer' = Tail(toPeer)
         /\ peer'.got = peer.got \/ peer.state = "OPEN"
  <1> DEFINE Goal == /\ peer'.window >= 0 /\ (peer.started => peer'.started)
                     /\ peer'.state \in {"LISTEN", "OPEN"} => peer.state \in {"LISTEN", "OPEN"}
                     /\ peer'.state = "REMOTE_CLOSE" =>
                          \/ peer.state = "REMOTE_CLOSE"
                          \/ peer.state = "OPEN" /\ toPeer # <<>> /\ toPeer[1].flag = "FIN" /\ toPeer' = Tail(toPeer)
                     /\ peer'.got = peer.got \/ peer.state = "OPEN"
  <1>t. peer.window \in Int /\ peer.window >= 0
    BY LedgerTypes DEF SideInv, WindowSide
  <1>1. CASE peer' = peer
    BY <1>1, <1>t
  <1>2. CASE ConnectionCleared
    BY <1>2, <1>t, ClearedPeer
  <1>3. CASE PeerAccept
    BY <1>3, <1>t, AcceptLedger
  <1>4. CASE PeerRead
    <2>1. /\ peer.state = "OPEN" /\ peer'.state = "OPEN" /\ peer'.window = peer.window
          /\ peer'.started = peer.started
      BY <1>4, PeerReadLedger
    <2> QED
      BY <1>t, <2>1
  <1>5. CASE PeerStart
    <2>1. /\ peer.state = "OPEN" /\ peer'.state = "OPEN" /\ peer'.window = peer.window - 1
          /\ peer.window > 0 /\ peer'.started /\ peer'.got = peer.got
      BY <1>5, PeerStartLedger
    <2> QED
      BY <1>t, <2>1
  <1>6. ASSUME NEW n \in 1..Frame, PeerSend(n) PROVE Goal
    <2>1. /\ n \in Nat /\ peer'.state = peer.state /\ peer'.window = peer.window - n
          /\ n <= peer.window /\ peer'.started /\ peer'.got = peer.got
      BY <1>6, PeerSendLedger
    <2> QED
      BY <1>t, <2>1
  <1>7. CASE PeerRecv
    <2>1. /\ peer'.window \in Int /\ peer'.window >= peer.window /\ peer'.started = peer.started
          /\ peer'.got = peer.got
          /\ \/ peer'.state = peer.state
             \/ /\ toPeer # <<>> /\ toPeer[1].flag = "FIN" /\ toPeer' = Tail(toPeer)
                /\ \/ peer.state = "OPEN" /\ peer'.state = "REMOTE_CLOSE"
                   \/ peer.state # "OPEN" /\ peer'.state = "CLOSED"
      BY <1>7, PeerRecvLedger
    <2> QED
      BY <1>t, <2>1
  <1>8. CASE PeerFin \/ PeerReset
    BY <1>8, <1>t, CloseLedger
  <1> HIDE DEF Goal
  <1>9. CASE PeerNext
    BY <1>1, <1>3, <1>4, <1>5, <1>6, <1>7, <1>8, <1>9, PeerAlone DEF PeerNext, Goal
  <1>10. Goal
    BY <1>1, <1>2, <1>9, PeerAlone DEF Next, Goal
  <1> QED
    BY <1>10 DEF Goal

\* The SYN grants nothing.
LEMMA NextSynSide == IInv /\ SideInv /\ [Next]_vars => SynSide'
  <1> SUFFICES ASSUME IInv, SideInv, [Next]_vars, NEW k \in 1..Len(toPeer'), toPeer'[k].flag = "SYN"
               PROVE  toPeer'[k].len = 0
    BY DEF SynSide
  <1>1. /\ toPeer \in Seq(FrameSet)
        /\ \A j \in 1..Len(toPeer) : toPeer[j].flag = "SYN" => toPeer[j].len = 0
    BY LedgerTypes DEF SideInv, SynSide
  <1>2. CASE toPeer' = toPeer \/ toPeer' = <<>>
    BY <1>1, <1>2
  <1>3. CASE toPeer # <<>> /\ toPeer' = Tail(toPeer)
    BY <1>1, <1>3, TailFacts
  <1>4. CASE Open
    <2>1. Len(toPeer') = 2 /\ toPeer'[2].flag = "ZERO" /\ toPeer'[1].len = 0
      BY <1>4, OpenFrames, OpenLedger
    <2> QED
      BY <2>1
  <1>5. ASSUME NEW m \in FrameSet, ClientSays(m) PROVE toPeer'[k].len = 0
    <2>1. toPeer' = Append(toPeer, m) /\ m.flag # "SYN"
      BY <1>5 DEF ClientSays
    <2> QED
      BY <1>1, <2>1, AppendFacts
  <1> QED
    BY <1>2, <1>3, <1>4, <1>5, ToPeerStep

\* A stream that was not opened has neither sent nor read anything.
LEMMA NextFreshSide == IInv /\ SideInv /\ [Next]_vars => FreshSide'
  <1> SUFFICES ASSUME IInv, SideInv, [Next]_vars, Listed', state' = "INIT"
               PROVE  up' = 0 /\ peer'.got = <<>>
    BY DEF FreshSide
  <1>1. Listed /\ state = "INIT"
    BY NoRevival
  <1>2. up = 0 /\ peer.got = <<>>
    BY <1>1 DEF SideInv, FreshSide
  <1>3. peer.state = "LISTEN" /\ bev = "none"
    BY <1>1 DEF IInv, Handshake
  <1>4. peer'.got = peer.got
    BY <1>3, PeerMoves
  <1>5. up' = up
    BY <1>3 DEF Next, Open, LocalRead, LocalEvent, HandleFrame, HandleWinUpdate, HandleDataOverflow,
         HandleDataKept, HandleDataTunnel, HandleDataTunnelFails, HandleDataControl,
         HandleAbandoned, ConnectionCleared, PeerNext, PeerAccept, PeerRead, PeerStart, PeerSend,
         PeerRecv, PeerDiscard, PeerFin, PeerReset, vars
  <1> QED
    BY <1>2, <1>4, <1>5

\* Behind the FIN there is nothing.
LEMMA NextFinSide == IInv /\ SideInv /\ [Next]_vars => FinSide'
  <1> SUFFICES ASSUME IInv, SideInv, [Next]_vars, Listed', peer'.state = "REMOTE_CLOSE"
               PROVE  toPeer' = <<>> /\ bev' # "open" /\ ~ Young'
    BY DEF FinSide
  <1>1. /\ Listed /\ (bev' = "open" => bev = "open" \/ state = "ESTABLISHED") /\ (Young' => Young)
    BY NoRevival DEF Young
  <1>t. toPeer \in Seq(FrameSet)
    BY LedgerTypes
  <1>2. CASE peer.state = "REMOTE_CLOSE"
    <2>1. toPeer = <<>> /\ bev # "open" /\ ~ Young
      BY <1>1, <1>2 DEF SideInv, FinSide
    <2>2. ~ Open /\ ~ \E m \in FrameSet : ClientSays(m)
      BY <2>1 DEF Open, ClientSays, Young
    <2>3. toPeer' = <<>>
      BY <2>1, <2>2, ToPeerStep
    <2> QED
      BY <1>1, <2>1, <2>3 DEF Young
  <1>3. CASE peer.state = "OPEN" /\ toPeer # <<>> /\ toPeer[1].flag = "FIN" /\ toPeer' = Tail(toPeer)
    <2>1. 1 \in 1..Len(toPeer)
      BY <1>t, <1>3, TailFacts
    <2>2. Len(toPeer) = 1 /\ bev # "open" /\ ~ Young
      BY <1>1, <1>3, <2>1 DEF IInv, FinInv, FinIsLast, Young
    <2>3. Tail(toPeer) = <<>>
      <3>1. Tail(toPeer) \in Seq(FrameSet) /\ Len(Tail(toPeer)) = 0
        BY <1>t, <1>3, <2>2, TailFacts
      <3>2. \A q \in Seq(FrameSet) : Len(q) = 0 => q = <<>>
        OBVIOUS
      <3> QED
        BY <3>1, <3>2
    <2> QED
      BY <1>1, <1>3, <2>2, <2>3 DEF Young
  <1> QED
    BY <1>2, <1>3, PeerMoves

\* The tunnel starts with the StartWorkConn, and only it delivers.
LEMMA NextTunnelSide == IInv /\ SideInv /\ [Next]_vars => TunnelSide'
  <1> SUFFICES ASSUME IInv, SideInv, [Next]_vars PROVE TunnelSide'
    OBVIOUS
  <1>1. /\ (bev = "none" => local_out = <<>>) /\ (bev = "open" => peer.started)
        /\ (~ peer.started => BytesIn(toClient) = 0)
    BY DEF SideInv, TunnelSide, StartSide
  <1>2. peer.started => peer'.started
    BY PeerMoves
  <1>3. CASE bev' = bev /\ local_out' = local_out
    BY <1>1, <1>2, <1>3 DEF TunnelSide
  <1>4. CASE bev' = "null"
    BY <1>4 DEF TunnelSide
  <1>5. CASE HandleDataTunnel
    <2>1. bev = "open" /\ bev' = "open"
      BY <1>5 DEF HandleDataTunnel
    <2> QED
      BY <1>1, <1>2, <2>1 DEF TunnelSide
  <1>6. ASSUME NEW b \in BOOLEAN, HandleDataControl(b) PROVE TunnelSide'
    <2> DEFINE t == Head(toClient).bytes
    <2>1. /\ t \in Seq(Nat) /\ Len(t) >= 1 /\ BytesIn(toClient) = BytesIn(toClient') + Len(t)
          /\ BytesIn(toClient') \in Nat /\ local_out' = local_out /\ bev = "none"
      BY <1>6, DataLedger
    <2>2. peer.started
      BY <1>1, <2>1
    <2> QED
      BY <1>1, <1>2, <2>1, <2>2 DEF TunnelSide
  <1>7. CASE PeerNext \/ Open \/ HandleDataOverflow \/ HandleDataKept \/ HandleDataTunnelFails \/ HandleAbandoned
             \/ (\E n \in 1..Chunk : LocalRead(n)) \/ UNCHANGED vars
    <2>1. bev' = bev /\ local_out' = local_out
      BY <1>7
         DEF PeerNext, PeerAccept, PeerRead, PeerStart, PeerSend, PeerRecv, PeerDiscard, PeerFin,
         PeerReset, Open, HandleDataOverflow, HandleDataKept, HandleDataTunnelFails, HandleAbandoned,
         LocalRead, client, vars
    <2> QED
      BY <1>3, <2>1
  <1>8. CASE ConnectionCleared \/ \E what \in {"EOF", "ERROR"} : LocalEvent(what)
    BY <1>4, <1>8 DEF ConnectionCleared, LocalEvent, tmux_stream_close, FreeBev
  <1>9. CASE HandleWinUpdate
    <2>1. bev' \in {bev, "null"} /\ local_out' = local_out
      BY <1>9 DEF HandleWinUpdate
    <2> QED
      BY <1>3, <1>4, <2>1
  <1> QED
    BY <1>5, <1>6, <1>7, <1>8, <1>9 DEF Next, HandleFrame

\* The ring for incoming frames is empty between two of them.
LEMMA NextRxSide == IInv /\ RecvCreditConserved /\ SideInv /\ [Next]_vars => RxSide'
  <1> SUFFICES ASSUME IInv, RecvCreditConserved, SideInv, [Next]_vars, Listed', Young'
               PROVE  rx_ring' = <<>>
    BY DEF RxSide
  <1>1. Listed /\ Young
    BY NoRevival DEF Young
  <1>2. rx_ring = <<>>
    BY <1>1 DEF SideInv, RxSide
  <1>3. ~ HandleDataKept
    BY <1>1, KeptAfterClose
  <1>4. ASSUME NEW b \in BOOLEAN, HandleDataTunnel \/ HandleDataControl(b) PROVE rx_ring' = <<>>
    <2> DEFINE t == Head(toClient).bytes
    <2> QED
      BY <1>4, DataLedger
  <1>5. CASE PeerNext \/ Open \/ HandleDataOverflow \/ HandleDataTunnelFails \/ HandleAbandoned
             \/ (\E n \in 1..Chunk : LocalRead(n)) \/ ConnectionCleared \/ HandleWinUpdate
             \/ (\E what \in {"EOF", "ERROR"} : LocalEvent(what)) \/ UNCHANGED vars
    <2>1. rx_ring' = rx_ring
      BY <1>5
         DEF PeerNext, PeerAccept, PeerRead, PeerStart, PeerSend, PeerRecv, PeerDiscard, PeerFin,
         PeerReset, Open, HandleDataOverflow, HandleDataTunnelFails, HandleAbandoned,
         LocalRead, ConnectionCleared, HandleWinUpdate, LocalEvent, stream, vars
    <2> QED
      BY <1>2, <2>1
  <1> QED
    BY <1>3, <1>4, <1>5 DEF Next, HandleFrame

\* What a step does to the bytes from frps.
DownMoves ==
  \/ peer'.down = peer.down /\ peer'.started = peer.started /\ toClient' = toClient
  \/ peer'.down = peer.down /\ peer'.started = peer.started /\ toClient # <<>> /\ toClient' = Tail(toClient)
  \/ peer'.down = peer.down /\ peer'.started = peer.started /\ toClient' = <<>>
  \/ /\ peer'.down = peer.down /\ peer'.started = peer.started /\ BytesIn(toClient') = BytesIn(toClient)
     /\ \A f : Numbered(toClient, f) => Numbered(toClient', f)
  \/ PeerStart
  \/ \E n \in 1..Frame : PeerSend(n)

LEMMA DownStep == IInv /\ SideInv /\ [Next]_vars => DownMoves
  <1> SUFFICES ASSUME IInv, SideInv, [Next]_vars PROVE DownMoves
    OBVIOUS
  <1>1. CASE Open \/ (\E n \in 1..Chunk : LocalRead(n)) \/ HandleDataOverflow
             \/ (\E what \in {"EOF", "ERROR"} : LocalEvent(what)) \/ PeerDiscard \/ UNCHANGED vars
    <2>1. toClient' = toClient /\ peer' = peer
      BY <1>1 DEF Open, LocalRead, HandleDataOverflow, LocalEvent, PeerDiscard, vars
    <2> QED
      BY <2>1 DEF DownMoves
  <1>2. CASE HandleWinUpdate \/ HandleDataKept \/ HandleDataTunnel \/ HandleDataTunnelFails
             \/ HandleAbandoned \/ (\E b \in BOOLEAN : HandleDataControl(b))
    <2>1. toClient # <<>> /\ toClient' = Tail(toClient) /\ peer' = peer
      BY <1>2 DEF HandleWinUpdate, HandleDataKept, HandleDataTunnel, HandleDataTunnelFails,
                HandleAbandoned, HandleDataControl
    <2> QED
      BY <2>1 DEF DownMoves
  <1>3. CASE ConnectionCleared
    BY <1>3, ClearedPeer DEF DownMoves
  <1>a. CASE /\ peer'.down = peer.down /\ peer'.started = peer.started
             /\ Credited(toClient, toClient', 0)
    BY <1>a DEF DownMoves, Credited
  <1>4. CASE PeerAccept
    <2>1. peer'.down = peer.down /\ peer'.started = peer.started /\ Credited(toClient, toClient', 0)
      BY <1>4, AcceptLedger
    <2> QED
      BY <1>a, <2>1
  <1>5. CASE PeerFin \/ PeerReset
    <2>1. peer'.down = peer.down /\ peer'.started = peer.started /\ Credited(toClient, toClient', 0)
      BY <1>5, CloseLedger
    <2> QED
      BY <1>a, <2>1
  <1>6. CASE PeerRead
    <2>1. /\ peer'.down = peer.down /\ peer'.started = peer.started
          /\ BytesIn(toClient') = BytesIn(toClient)
          /\ \A f : Numbered(toClient, f) => Numbered(toClient', f)
      BY <1>6, PeerReadLedger
    <2> QED
      BY <2>1 DEF DownMoves
  <1>7. CASE PeerRecv
    <2>1. peer'.down = peer.down /\ peer'.started = peer.started /\ toClient' = toClient
      BY <1>7, PeerRecvLedger
    <2> QED
      BY <2>1 DEF DownMoves
  <1>8. CASE PeerStart \/ \E n \in 1..Frame : PeerSend(n)
    BY <1>8 DEF DownMoves
  <1> QED
    BY <1>1, <1>2, <1>3, <1>4, <1>5, <1>6, <1>7, <1>8 DEF Next, HandleFrame, PeerNext

\* frps sends no byte before StartWorkConn, and the bytes that travel are the
\* last it has sent.
LEMMA NextNumberSide == IInv /\ SideInv /\ [Next]_vars => StartSide' /\ NumberSide'
  <1> SUFFICES ASSUME IInv, SideInv, [Next]_vars PROVE StartSide' /\ NumberSide'
    OBVIOUS
  <1> DEFINE B == BytesIn(toClient)
             f == peer.down + 1 - B
  <1>1. /\ (~ peer.started => peer.down = 0 /\ B = 0) /\ Numbered(toClient, f)
        /\ toClient \in Seq(FrameSet) /\ B \in Nat /\ peer.down \in Nat /\ f \in Int
    <2>1. toClient \in Seq(FrameSet) /\ B \in Nat /\ peer.down \in Nat
      BY LedgerTypes
    <2>2. f \in Int
      BY <2>1
    <2>3. (~ peer.started => peer.down = 0 /\ B = 0) /\ Numbered(toClient, f)
      BY DEF SideInv, StartSide, NumberSide
    <2> QED
      BY <2>1, <2>2, <2>3
  <1>2. ASSUME NEW c \in Nat, BytesIn(toClient') = c, peer'.down = peer.down, peer'.started = peer.started,
               c <= B, Numbered(toClient', peer.down + 1 - c)
        PROVE  StartSide' /\ NumberSide'
    BY <1>1, <1>2 DEF StartSide, NumberSide
  <1>3. CASE peer'.down = peer.down /\ peer'.started = peer.started /\ toClient' = toClient
    BY <1>1, <1>3 DEF StartSide, NumberSide
  <1>4. CASE peer'.down = peer.down /\ peer'.started = peer.started /\ toClient # <<>> /\ toClient' = Tail(toClient)
    <2> DEFINE m == Head(toClient)
               c == BytesIn(toClient')
    <2>1. B = c + Len(m.bytes) /\ c \in Nat /\ Len(m.bytes) \in Nat
      BY <1>4, ClientTakes
    <2>2. \A g \in Int : Numbered(toClient, g) => Numbered(toClient', g + Len(m.bytes))
      BY <1>1, <1>4, ChannelTail
    <2> HIDE DEF m, c, B
    <2>3. f + Len(m.bytes) = peer.down + 1 - c
      <3>1. \A d, x, y, z \in Nat : x = y + z => (d + 1 - x) + z = d + 1 - y
        OBVIOUS
      <3> DEFINE l == Len(m.bytes)
      <3>2. B = c + l /\ B \in Nat /\ c \in Nat /\ l \in Nat /\ peer.down \in Nat
        BY <1>1, <2>1
      <3> HIDE DEF l
      <3>3. (peer.down + 1 - B) + l = peer.down + 1 - c
        BY <3>1, <3>2
      <3> QED
        BY <3>3 DEF l
    <2> HIDE DEF f
    <2>4. Numbered(toClient', peer.down + 1 - c)
      BY <1>1, <2>2, <2>3
    <2> QED
      BY <1>2, <1>4, <2>1, <2>4 DEF c
  <1>5. CASE peer'.down = peer.down /\ peer'.started = peer.started /\ toClient' = <<>>
    <2>1. BytesIn(toClient') = 0 /\ Numbered(toClient', peer.down + 1 - 0) /\ 0 \in Nat
      BY <1>5, ChannelEmpty
    <2> QED
      BY <1>1, <1>2, <1>5, <2>1
  <1>6. CASE /\ peer'.down = peer.down /\ peer'.started = peer.started
             /\ BytesIn(toClient') = BytesIn(toClient)
             /\ \A g : Numbered(toClient, g) => Numbered(toClient', g)
    BY <1>1, <1>2, <1>6
  <1>7. CASE PeerStart
    <2>1. /\ ~ peer.started /\ peer'.started /\ peer'.down = peer.down /\ BytesIn(toClient') = B + 1
          /\ \A g \in Int : Numbered(toClient, g) /\ g + BytesIn(toClient) = 0 => Numbered(toClient', g)
      BY <1>7, PeerStartLedger
    <2>2. peer.down = 0 /\ B = 0
      BY <1>1, <2>1
    <2>3. Numbered(toClient, 0)
      BY <1>1, <2>2, NoBytes
    <2>4. Numbered(toClient', 0)
      BY <2>1, <2>2, <2>3
    <2>5. peer'.down + 1 - BytesIn(toClient') = 0
      BY <2>1, <2>2
    <2> QED
      BY <2>1, <2>4, <2>5 DEF StartSide, NumberSide
  <1>8. ASSUME NEW n \in 1..Frame, PeerSend(n) PROVE StartSide' /\ NumberSide'
    <2>1. /\ peer'.started /\ n \in Nat /\ peer'.down = peer.down + n /\ BytesIn(toClient') = B + n
          /\ \A g \in Int : Numbered(toClient, g) /\ g + BytesIn(toClient) = peer.down + 1 => Numbered(toClient', g)
      BY <1>8, PeerSendLedger
    <2>2. f + B = peer.down + 1 /\ peer'.down + 1 - BytesIn(toClient') = f
      <3>1. \A d, x, k \in Nat : (d + 1 - x) + x = d + 1 /\ (d + k) + 1 - (x + k) = d + 1 - x
        OBVIOUS
      <3>2. f + B = peer.down + 1 /\ (peer.down + n) + 1 - (B + n) = f
        <4> HIDE DEF B
        <4> QED
          BY <1>1, <2>1, <3>1
      <3> QED
        BY <2>1, <3>2
    <2>3. Numbered(toClient', f)
      BY <1>1, <2>1, <2>2
    <2> QED
      BY <2>1, <2>2, <2>3 DEF StartSide, NumberSide
  <1> QED
    BY <1>3, <1>4, <1>5, <1>6, <1>7, <1>8, DownStep DEF DownMoves

LEMMA NextSideInv == IInv /\ RecvCreditConserved /\ SideInv /\ [Next]_vars => SideInv'
  <1> SUFFICES ASSUME IInv, RecvCreditConserved, SideInv, [Next]_vars PROVE SideInv'
    OBVIOUS
  <1>1. WindowSide'
    BY PeerMoves DEF WindowSide
  <1> QED
    BY <1>1, NextSynSide, NextFreshSide, NextFinSide, NextTunnelSide, NextRxSide,
       NextNumberSide DEF SideInv

-----------------------------------------------------------------------------
(* Every step keeps the four laws                                            *)

\* A listed client is not left listed by these.
LEMMA GoneSteps ==
  ASSUME Listed, Listed', HandleDataOverflow \/ HandleDataTunnelFails \/ HandleAbandoned \/ ConnectionCleared
  PROVE  FALSE
  BY DEF Listed, HandleDataOverflow, HandleDataTunnelFails, HandleAbandoned, ConnectionCleared

\* process_data leaves the bytes of a closed stream in the ring.
LEMMA KeptLedger ==
  ASSUME IInv, RecvCreditConserved, SideInv, HandleDataKept
  PROVE  /\ ~ Young /\ CreditIn(toClient') = CreditIn(toClient)
         /\ UNCHANGED <<state, send_window, recv_window, tx_ring, client, up, peer, toPeer>>
  <1> DEFINE m == Head(toClient)
  <1>1. /\ toClient # <<>> /\ m.type = "DATA" /\ toClient' = Tail(toClient)
        /\ UNCHANGED <<state, send_window, recv_window, tx_ring, client, up, peer>>
    BY DEF HandleDataKept
  <1> HIDE DEF m
  <1>2. /\ CreditIn(toClient) = CreditIn(toClient') + Credit(m) /\ CreditIn(toClient') \in Nat
        /\ m.type = "DATA" => Credit(m) = 0 /\ Len(m.bytes) = m.len
    BY <1>1, ClientTakes DEF m
  <1>3. CreditIn(toClient') = CreditIn(toClient)
    BY <1>1, <1>2
  <1> QED
    BY <1>1, <1>3, KeptAfterClose

\* The credit of the client is conserved.
LEMMA NextSendCredit == IInv /\ FlowInv /\ [Next]_vars => SendCreditConserved'
  <1> SUFFICES ASSUME IInv, FlowInv, [Next]_vars, Listed', peer'.state \in {"LISTEN", "OPEN"}
               PROVE  send_window' + BytesIn(toPeer') + peer'.unacked + CreditIn(toClient') = MaxWindow
    BY DEF SendCreditConserved
  <1>i. SideInv /\ RecvCreditConserved /\ SendCreditConserved
    BY DEF FlowInv
  <1>0. Listed /\ peer.state \in {"LISTEN", "OPEN"}
    BY <1>i, NoRevival, PeerMoves
  <1> DEFINE w == send_window
             b == BytesIn(toPeer)
             u == peer.unacked
             c == CreditIn(toClient)
             Goal == send_window' + BytesIn(toPeer') + peer'.unacked + CreditIn(toClient') = MaxWindow
  <1>t. w \in Nat /\ b \in Nat /\ u \in Nat /\ c \in Nat /\ w + b + u + c = MaxWindow /\ MaxWindow \in Nat
    BY <1>i, <1>0, LedgerTypes DEF SendCreditConserved
  <1>1. CASE Open
    <2>1. BytesIn(toPeer') = 1 /\ toPeer = <<>> /\ send_window' = w - 1 /\ peer' = peer /\ toClient' = toClient
      BY <1>1, OpenLedger DEF Open
    <2>2. b = 0
      BY <2>1, ChannelEmpty
    <2> HIDE DEF w, b, u, c
    <2> QED
      BY <1>t, <2>1, <2>2 DEF u, c
  <1>2. ASSUME NEW n \in 1..Chunk, LocalRead(n) PROVE Goal
    <2>1. BytesIn(toPeer') \in Nat /\ send_window' + BytesIn(toPeer') = w + b
      BY <1>2, ReadLedger
    <2>2. peer' = peer /\ toClient' = toClient
      BY <1>2 DEF LocalRead
    <2> HIDE DEF w, b, u, c
    <2> QED
      BY <1>t, <2>1, <2>2 DEF u, c
  <1>3. ASSUME NEW what \in {"EOF", "ERROR"}, LocalEvent(what) PROVE Goal
    <2>1. Credited(toPeer, toPeer', 0) /\ send_window' = w /\ peer' = peer /\ toClient' = toClient
      BY <1>3, EventLedger
    <2>2. BytesIn(toPeer') = b
      BY <2>1 DEF Credited
    <2> QED
      BY <1>t, <2>1, <2>2
  <1>4. CASE HandleWinUpdate
    <2>1. send_window' + CreditIn(toClient') = w + c /\ toPeer' = toPeer /\ peer' = peer
      BY <1>4, WinUpdateLedger
    <2>2. send_window' \in Nat /\ CreditIn(toClient') \in Nat
      <3>1. TypeOK'
        BY NextTypeOK
      <3>2. send_window' \in Nat /\ toClient' \in Seq(FrameSet)
        BY <3>1 DEF TypeOK
      <3> QED
        BY <3>2, ChannelWeights
    <2> HIDE DEF w, b, u, c
    <2> QED
      BY <1>t, <2>1, <2>2 DEF b, u
  <1>5. CASE HandleDataKept
    <2>1. CreditIn(toClient') = c /\ send_window' = w /\ peer' = peer /\ toPeer' = toPeer
      BY <1>i, <1>5, KeptLedger
    <2> QED
      BY <1>t, <2>1
  <1>6. ASSUME NEW x \in BOOLEAN, HandleDataTunnel \/ HandleDataControl(x) PROVE Goal
    <2> DEFINE t == Head(toClient).bytes
    <2>1. CreditIn(toClient') = c /\ BytesIn(toPeer') = b /\ send_window' = w /\ peer' = peer
      BY <1>i, <1>6, DataLedger
    <2> QED
      BY <1>t, <2>1
  <1>7. CASE PeerAccept
    <2>1. /\ BytesIn(toPeer') = b /\ peer'.unacked = u /\ Credited(toClient, toClient', 0)
      BY <1>i, <1>7, AcceptLedger
    <2>2. send_window' = w /\ CreditIn(toClient') = c
      BY <1>t, <1>7, <2>1 DEF Credited, PeerAccept, stream
    <2> QED
      BY <1>t, <2>1, <2>2
  <1>8. CASE PeerRead
    <2> DEFINE t == Head(toPeer).bytes
    <2>1. /\ b = BytesIn(toPeer') + Len(t) /\ BytesIn(toPeer') \in Nat /\ t \in Seq(Nat)
          /\ peer'.unacked + CreditIn(toClient') = (u + Len(t)) + c
      BY <1>8, PeerReadLedger
    <2>2. Len(t) \in Nat /\ send_window' = w
      BY <1>8, <2>1 DEF PeerRead, stream
    <2>3. peer'.unacked \in Nat /\ CreditIn(toClient') \in Nat
      <3>1. TypeOK'
        BY NextTypeOK
      <3>2. peer' \in PeerSet /\ toClient' \in Seq(FrameSet)
        BY <3>1 DEF TypeOK
      <3> QED
        BY <3>2, ChannelWeights DEF PeerSet
    <2> DEFINE l == Len(t)
               b1 == BytesIn(toPeer')
               u1 == peer'.unacked
               c1 == CreditIn(toClient')
    <2>4. l \in Nat /\ b1 \in Nat /\ u1 \in Nat /\ c1 \in Nat /\ b = b1 + l /\ u1 + c1 = (u + l) + c
      BY <2>1, <2>2, <2>3
    <2> HIDE DEF t, w, b, u, c, l, b1, u1, c1
    <2>5. w + b1 + u1 + c1 = MaxWindow
      BY <1>t, <2>4
    <2> QED
      BY <2>2, <2>5 DEF b1, u1, c1
  <1>9. CASE PeerStart
    <2>1. peer'.unacked = u /\ toPeer' = toPeer /\ CreditIn(toClient') = c
      BY <1>9, PeerStartLedger
    <2>2. send_window' = w
      BY <1>9 DEF PeerStart, stream
    <2> QED
      BY <1>t, <2>1, <2>2
  <1>10. ASSUME NEW n \in 1..Frame, PeerSend(n) PROVE Goal
    <2>1. peer'.unacked = u /\ toPeer' = toPeer /\ CreditIn(toClient') = c
      BY <1>10, PeerSendLedger
    <2>2. send_window' = w
      BY <1>10 DEF PeerSend, stream
    <2> QED
      BY <1>t, <2>1, <2>2
  <1>11. CASE PeerRecv
    <2>1. peer'.unacked = u /\ BytesIn(toPeer') = b /\ toClient' = toClient
      BY <1>11, PeerRecvLedger
    <2>2. send_window' = w
      BY <1>11 DEF PeerRecv, stream
    <2> QED
      BY <1>t, <2>1, <2>2
  <1>12. ~ PeerDiscard /\ ~ PeerFin /\ ~ PeerReset
    BY <1>0, CloseLedger, PeerDiscardLedger
  <1>13. CASE UNCHANGED vars
    <2>1. send_window' = w /\ toPeer' = toPeer /\ peer' = peer /\ toClient' = toClient
      BY <1>13 DEF vars, stream
    <2> QED
      BY <1>t, <2>1
  <1>14. ~ (HandleDataOverflow \/ HandleDataTunnelFails \/ HandleAbandoned \/ ConnectionCleared)
    BY <1>0, GoneSteps
  <1> HIDE DEF Goal
  <1>15. Goal
    BY <1>1, <1>2, <1>3, <1>4, <1>5, <1>6, <1>7, <1>8, <1>9, <1>10, <1>11, <1>12, <1>13, <1>14
       DEF Next, HandleFrame, PeerNext, Goal
  <1> QED
    BY <1>15 DEF Goal

\* So is that of frps.
LEMMA NextRecvCredit == IInv /\ FlowInv /\ [Next]_vars => RecvCreditConserved'
  <1> SUFFICES ASSUME IInv, FlowInv, [Next]_vars, Listed', Young'
               PROVE  recv_window' = peer'.window + BytesIn(toClient') + CreditIn(toPeer')
    BY DEF RecvCreditConserved, Young
  <1>i. SideInv /\ RecvCreditConserved
    BY DEF FlowInv
  <1>0. Listed /\ Young
    BY NoRevival DEF Young
  <1> DEFINE w == recv_window
             p == peer.window
             b == BytesIn(toClient)
             c == CreditIn(toPeer)
             Goal == recv_window' = peer'.window + BytesIn(toClient') + CreditIn(toPeer')
  <1>t. w \in Nat /\ b \in Nat /\ p \in Int /\ c \in Nat /\ w = p + b + c
    BY <1>i, <1>0, LedgerTypes DEF RecvCreditConserved, Young
  <1>1. CASE Open
    <2>1. /\ CreditIn(toPeer') = 0 /\ toPeer = <<>> /\ recv_window' = w /\ peer' = peer
          /\ toClient' = toClient
      BY <1>1, OpenLedger DEF Open
    <2>2. c = 0
      BY <2>1, ChannelEmpty
    <2> QED
      BY <1>t, <2>1, <2>2
  <1>2. ASSUME NEW n \in 1..Chunk, LocalRead(n) PROVE Goal
    <2>1. CreditIn(toPeer') = c
      BY <1>2, ReadLedger
    <2>2. peer' = peer /\ toClient' = toClient /\ recv_window' = w
      BY <1>2 DEF LocalRead
    <2> QED
      BY <1>t, <2>1, <2>2
  <1>3. ~ \E what \in {"EOF", "ERROR"} : LocalEvent(what)
    BY EventLedger DEF Young
  <1>4. CASE HandleWinUpdate
    <2>1. recv_window' = w /\ BytesIn(toClient') = b /\ toPeer' = toPeer /\ peer' = peer
      BY <1>4, WinUpdateLedger
    <2> QED
      BY <1>t, <2>1
  <1>5. ~ HandleDataKept
    BY <1>i, <1>0, KeptLedger
  <1>6. ASSUME NEW x \in BOOLEAN, HandleDataTunnel \/ HandleDataControl(x) PROVE Goal
    <2> DEFINE t == Head(toClient).bytes
    <2>1. /\ b = BytesIn(toClient') + Len(t) /\ BytesIn(toClient') \in Nat /\ t \in Seq(Nat)
          /\ (recv_window' + c) + Len(t) = w + CreditIn(toPeer')
          /\ recv_window' \in Int /\ CreditIn(toPeer') \in Nat /\ peer' = peer
      BY <1>i, <1>6, DataLedger
    <2>2. Len(t) \in Nat
      BY <2>1
    <2> DEFINE l == Len(t)
               w1 == recv_window'
               b1 == BytesIn(toClient')
               c1 == CreditIn(toPeer')
    <2>3. l \in Nat /\ w1 \in Int /\ b1 \in Nat /\ c1 \in Nat /\ b = b1 + l /\ (w1 + c) + l = w + c1
      BY <2>1, <2>2
    <2>4. peer'.window = p
      BY <2>1
    <2> HIDE DEF t, w, b, p, c, l, w1, b1, c1
    <2>5. w1 = p + b1 + c1
      BY <1>t, <2>3
    <2> QED
      BY <2>4, <2>5 DEF w1, b1, c1
  <1>7. CASE PeerAccept
    <2>1. /\ CreditIn(toPeer') = c /\ peer'.window = p /\ Credited(toClient, toClient', 0)
      BY <1>i, <1>7, AcceptLedger
    <2>2. recv_window' = w /\ BytesIn(toClient') = b
      BY <1>t, <1>7, <2>1 DEF Credited, PeerAccept, stream
    <2> QED
      BY <1>t, <2>1, <2>2
  <1>8. CASE PeerRead
    <2> DEFINE t == Head(toPeer).bytes
    <2>1. CreditIn(toPeer') = c /\ peer'.window = p /\ BytesIn(toClient') = b
      BY <1>8, PeerReadLedger
    <2>2. recv_window' = w
      BY <1>8 DEF PeerRead, stream
    <2> QED
      BY <1>t, <2>1, <2>2
  <1>9. CASE PeerStart
    <2>1. peer'.window = p - 1 /\ toPeer' = toPeer /\ BytesIn(toClient') = b + 1
      BY <1>9, PeerStartLedger
    <2>2. recv_window' = w
      BY <1>9 DEF PeerStart, stream
    <2> HIDE DEF w, b, p, c
    <2> QED
      BY <1>t, <2>1, <2>2 DEF c
  <1>10. ASSUME NEW n \in 1..Frame, PeerSend(n) PROVE Goal
    <2>1. n \in Nat /\ peer'.window = p - n /\ toPeer' = toPeer /\ BytesIn(toClient') = b + n
      BY <1>10, PeerSendLedger
    <2>2. recv_window' = w
      BY <1>10 DEF PeerSend, stream
    <2> HIDE DEF w, b, p, c
    <2> QED
      BY <1>t, <2>1, <2>2 DEF c
  <1>11. CASE PeerRecv
    <2>1. /\ peer'.window + CreditIn(toPeer') = p + c /\ peer'.window \in Int
          /\ CreditIn(toPeer') \in Nat
          /\ toClient' = toClient
      BY <1>11, PeerRecvLedger
    <2>2. recv_window' = w
      BY <1>11 DEF PeerRecv, stream
    <2> HIDE DEF w, b, p, c
    <2> QED
      BY <1>t, <2>1, <2>2 DEF b
  <1>12. CASE PeerDiscard
    <2>1. CreditIn(toPeer') = c /\ peer' = peer /\ toClient' = toClient
      BY <1>12, PeerDiscardLedger
    <2>2. recv_window' = w
      BY <1>12 DEF PeerDiscard, stream
    <2> QED
      BY <1>t, <2>1, <2>2
  <1>13. CASE PeerFin \/ PeerReset
    <2>1. toPeer' = toPeer /\ peer'.window = p /\ Credited(toClient, toClient', 0)
      BY <1>13, CloseLedger
    <2>2. recv_window' = w /\ BytesIn(toClient') = b
      BY <1>13, <2>1 DEF Credited, PeerFin, PeerReset, stream
    <2> QED
      BY <1>t, <2>1, <2>2
  <1>14. CASE UNCHANGED vars
    <2>1. recv_window' = w /\ toPeer' = toPeer /\ peer' = peer /\ toClient' = toClient
      BY <1>14 DEF vars, stream
    <2> QED
      BY <1>t, <2>1
  <1>15. ~ (HandleDataOverflow \/ HandleDataTunnelFails \/ HandleAbandoned \/ ConnectionCleared)
    BY <1>0, GoneSteps
  <1> HIDE DEF Goal
  <1>16. Goal
    BY <1>1, <1>2, <1>3, <1>4, <1>5, <1>6, <1>7, <1>8, <1>9, <1>10, <1>11, <1>12, <1>13, <1>14,
       <1>15
       DEF Next, HandleFrame, PeerNext, Goal
  <1> QED
    BY <1>16 DEF Goal

\* What frps has, what travels and what waits, of a local service that sent u
\* bytes.
UpHolds(got, ch, tx, u) ==
  /\ Run(got, 0) /\ Numbered(ch, Len(got)) /\ Run(tx, Len(got) + BytesIn(ch))
  /\ Len(got) + BytesIn(ch) + Len(tx) = u + 1

LEMMA UpSame ==
  ASSUME NEW got \in Seq(Nat), NEW ch, NEW c, NEW tx, NEW u, UpHolds(got, ch, tx, u),
         BytesIn(c) = BytesIn(ch), \A f \in Nat : Numbered(ch, f) => Numbered(c, f)
  PROVE  UpHolds(got, c, tx, u)
  <1>1. Len(got) \in Nat
    OBVIOUS
  <1> QED
    BY <1>1 DEF UpHolds

\* frps reads the next bytes.
LEMMA UpRead ==
  ASSUME NEW got \in Seq(Nat), NEW t \in Seq(Nat), NEW ch, NEW c, NEW tx, NEW u, UpHolds(got, ch, tx, u),
         BytesIn(ch) = BytesIn(c) + Len(t), BytesIn(c) \in Nat,
         \A f \in Int : Numbered(ch, f) => Numbered(c, f + Len(t)) /\ Run(t, f)
  PROVE  UpHolds(got \o t, c, tx, u)
  <1> DEFINE g == Len(got)
             l == Len(t)
  <1>1. g \in Nat /\ l \in Nat /\ g \in Int /\ 0 \in Int /\ Len(got \o t) = g + l
    BY ConcatFacts
  <1>2. /\ Run(got, 0) /\ Numbered(ch, g) /\ Run(tx, g + BytesIn(ch))
        /\ g + BytesIn(ch) + Len(tx) = u + 1
    BY DEF UpHolds
  <1>3. Numbered(c, g + l) /\ Run(t, g)
    BY <1>1, <1>2
  <1>4. 0 + Len(got) = g
    BY <1>1
  <1>5. Run(got \o t, 0)
    BY <1>1, <1>2, <1>3, <1>4, RunConcat
  <1>6. BytesIn(ch) = BytesIn(c) + l
    OBVIOUS
  <1> HIDE DEF g, l
  <1>7. g + BytesIn(ch) = (g + l) + BytesIn(c)
    BY <1>1, <1>6
  <1> QED
    BY <1>1, <1>2, <1>3, <1>5, <1>7 DEF UpHolds

\* The bytes of the local service.
LEMMA NextUplink == IInv /\ FlowInv /\ [Next]_vars => UplinkExact'
  <1> SUFFICES ASSUME IInv, FlowInv, [Next]_vars, Listed', state' # "INIT",
                      peer'.state \in {"LISTEN", "OPEN", "REMOTE_CLOSE"}
               PROVE  UpHolds(peer'.got, toPeer', tx_ring', up')
    BY DEF UplinkExact, UpHolds
  <1>i. SideInv /\ RecvCreditConserved
    BY DEF FlowInv
  <1>0. Listed /\ peer.state \in {"LISTEN", "OPEN", "REMOTE_CLOSE"}
    BY <1>i, NoRevival, PeerMoves
  <1>t. peer.got \in Seq(Nat) /\ up \in Nat /\ BytesIn(toPeer) \in Nat
    BY LedgerTypes
  <1>h. state # "INIT" => UpHolds(peer.got, toPeer, tx_ring, up)
    BY <1>0 DEF FlowInv, UplinkExact, UpHolds
  <1>n. state = "INIT" => Open
    <2> SUFFICES ASSUME state = "INIT" PROVE Open
      OBVIOUS
    <2>1. toClient = <<>> /\ bev = "none"
      BY <1>0 DEF IInv, Handshake
    <2>2. ~ HandleFrame /\ ~ (\E n \in 1..Chunk : LocalRead(n))
          /\ ~ (\E what \in {"EOF", "ERROR"} : LocalEvent(what))
      BY <1>0, <2>1 DEF HandleFrame, HandleWinUpdate, HandleDataOverflow, HandleDataKept, LocalRead,
         HandleDataTunnel, HandleDataTunnelFails, HandleDataControl, HandleAbandoned, Listed, LocalEvent
    <2>3. PeerNext \/ ConnectionCleared \/ UNCHANGED vars => state' = state
      BY DEF PeerNext, PeerAccept, PeerRead, PeerStart, PeerSend, PeerRecv, PeerDiscard, PeerFin,
         PeerReset, ConnectionCleared, stream, vars
    <2> QED
      BY <2>2, <2>3 DEF Next
  <1> DEFINE Goal == UpHolds(peer'.got, toPeer', tx_ring', up')
  <1>1. CASE Open
    <2>1. /\ BytesIn(toPeer') = 1 /\ Numbered(toPeer', 0) /\ state = "INIT" /\ tx_ring' = tx_ring
          /\ peer' = peer /\ up' = up
      BY <1>1, OpenLedger DEF Open
    <2>2. up = 0 /\ peer.got = <<>> /\ tx_ring = <<>>
      BY <1>i, <1>0, <2>1 DEF SideInv, FreshSide, IInv, Handshake
    <2>3. Len(<<>>) = 0 /\ Run(<<>>, 0) /\ Run(<<>>, 0 + 1)
      BY DEF Run
    <2>4. Run(peer'.got, 0) /\ Len(peer'.got) = 0 /\ Len(tx_ring') = 0 /\ Run(tx_ring', 0 + 1) /\ up' = 0
      BY <2>1, <2>2, <2>3
    <2> QED
      BY <2>1, <2>4 DEF UpHolds
  <1>a. CASE state # "INIT" /\ peer'.got = peer.got /\ toPeer' = toPeer /\ tx_ring' = tx_ring /\ up' = up
    BY <1>a, <1>h
  <1>b. CASE /\ state # "INIT" /\ peer'.got = peer.got /\ BytesIn(toPeer') = BytesIn(toPeer)
             /\ (\A f \in Nat : Numbered(toPeer, f) => Numbered(toPeer', f)) /\ tx_ring' = tx_ring /\ up' = up
    BY <1>b, <1>h, <1>t, UpSame
  <1> HIDE DEF Goal
  <1>2. ASSUME NEW n \in 1..Chunk, LocalRead(n), state # "INIT" PROVE Goal
    <2> DEFINE g == Len(peer.got)
    <2>1. g \in Nat /\ peer' = peer
      BY <1>t, <1>2 DEF LocalRead
    <2>2. /\ Run(peer.got, 0) /\ Numbered(toPeer, g) /\ Run(tx_ring, g + BytesIn(toPeer))
          /\ g + BytesIn(toPeer) + Len(tx_ring) = up + 1
      BY <1>2, <1>h DEF UpHolds
    <2>3. /\ Numbered(toPeer, g) /\ Run(tx_ring, g + BytesIn(toPeer))
          /\ g + BytesIn(toPeer) + Len(tx_ring) = up + 1
          => /\ Numbered(toPeer', g) /\ Run(tx_ring', g + BytesIn(toPeer'))
             /\ g + BytesIn(toPeer') + Len(tx_ring') = up' + 1
      BY <1>2, <2>1, ReadLedger
    <2> QED
      BY <2>1, <2>2, <2>3 DEF UpHolds, Goal
  <1>3. ASSUME NEW what \in {"EOF", "ERROR"}, LocalEvent(what), state # "INIT" PROVE Goal
    <2>1. Credited(toPeer, toPeer', 0) /\ tx_ring' = tx_ring /\ up' = up /\ peer' = peer
      BY <1>3, EventLedger
    <2> QED
      BY <1>b, <1>3, <2>1 DEF Credited, Goal
  <1>4. CASE HandleWinUpdate /\ state # "INIT"
    <2>1. tx_ring' = tx_ring /\ up' = up /\ peer' = peer /\ toPeer' = toPeer
      BY <1>4, WinUpdateLedger
    <2> QED
      BY <1>a, <1>4, <2>1 DEF Goal
  <1>5. CASE HandleDataKept /\ state # "INIT"
    <2>1. tx_ring' = tx_ring /\ up' = up /\ peer' = peer /\ toPeer' = toPeer
      BY <1>i, <1>5, KeptLedger
    <2> QED
      BY <1>a, <1>5, <2>1 DEF Goal
  <1>6. ASSUME NEW x \in BOOLEAN, HandleDataTunnel \/ HandleDataControl(x), state # "INIT" PROVE Goal
    <2> DEFINE t == Head(toClient).bytes
    <2>1. /\ BytesIn(toPeer') = BytesIn(toPeer) /\ (\A f : Numbered(toPeer, f) => Numbered(toPeer', f))
          /\ tx_ring' = tx_ring /\ up' = up /\ peer' = peer
      BY <1>i, <1>6, DataLedger
    <2> QED
      BY <1>b, <1>6, <2>1 DEF Goal
  <1>7. CASE PeerAccept /\ state # "INIT"
    <2>1. /\ BytesIn(toPeer') = BytesIn(toPeer) /\ peer'.got = peer.got
          /\ \A f \in Nat : Numbered(toPeer, f) => Numbered(toPeer', f)
      BY <1>i, <1>7, AcceptLedger
    <2>2. tx_ring' = tx_ring /\ up' = up
      BY <1>7 DEF PeerAccept, stream
    <2> QED
      BY <1>b, <1>7, <2>1, <2>2 DEF Goal
  <1>8. CASE PeerRead /\ state # "INIT"
    <2> DEFINE t == Head(toPeer).bytes
    <2>1. /\ BytesIn(toPeer) = BytesIn(toPeer') + Len(t) /\ BytesIn(toPeer') \in Nat
          /\ t \in Seq(Nat)
          /\ peer'.got = peer.got \o t
          /\ \A f \in Int : Numbered(toPeer, f) => Numbered(toPeer', f + Len(t)) /\ Run(t, f)
      BY <1>8, PeerReadLedger
    <2>2. tx_ring' = tx_ring /\ up' = up
      BY <1>8 DEF PeerRead, stream
    <2>3. UpHolds(peer.got, toPeer, tx_ring, up)
      BY <1>8, <1>h
    <2> HIDE DEF t
    <2>4. UpHolds(peer.got \o t, toPeer', tx_ring, up)
      BY <1>t, <2>1, <2>3, UpRead
    <2> QED
      BY <2>1, <2>2, <2>4 DEF Goal
  <1>9. CASE PeerStart /\ state # "INIT"
    <2>1. peer'.got = peer.got /\ toPeer' = toPeer
      BY <1>9, PeerStartLedger
    <2>2. tx_ring' = tx_ring /\ up' = up
      BY <1>9 DEF PeerStart, stream
    <2> QED
      BY <1>a, <1>9, <2>1, <2>2 DEF Goal
  <1>10. ASSUME NEW n \in 1..Frame, PeerSend(n), state # "INIT" PROVE Goal
    <2>1. peer'.got = peer.got /\ toPeer' = toPeer
      BY <1>10, PeerSendLedger
    <2>2. tx_ring' = tx_ring /\ up' = up
      BY <1>10 DEF PeerSend, stream
    <2> QED
      BY <1>a, <1>10, <2>1, <2>2 DEF Goal
  <1>11. CASE PeerRecv /\ state # "INIT"
    <2>1. /\ BytesIn(toPeer') = BytesIn(toPeer) /\ peer'.got = peer.got
          /\ \A f \in Nat : Numbered(toPeer, f) => Numbered(toPeer', f)
      BY <1>11, PeerRecvLedger
    <2>2. tx_ring' = tx_ring /\ up' = up
      BY <1>11 DEF PeerRecv, stream
    <2> QED
      BY <1>b, <1>11, <2>1, <2>2 DEF Goal
  <1>12. ~ PeerDiscard
    <2>1. PeerDiscard => toPeer # <<>> /\ peer.state \notin {"LISTEN", "OPEN"}
      BY PeerDiscardLedger
    <2>2. peer.state = "REMOTE_CLOSE" => toPeer = <<>>
      BY <1>i, <1>0 DEF SideInv, FinSide
    <2> QED
      BY <1>0, <2>1, <2>2
  <1>13. ~ PeerFin /\ ~ PeerReset
    BY CloseLedger
  <1>14. CASE UNCHANGED vars /\ state # "INIT"
    <2>1. tx_ring' = tx_ring /\ up' = up /\ toPeer' = toPeer /\ peer' = peer
      BY <1>14 DEF vars, stream
    <2> QED
      BY <1>a, <1>14, <2>1 DEF Goal
  <1>15. ~ (HandleDataOverflow \/ HandleDataTunnelFails \/ HandleAbandoned \/ ConnectionCleared)
    BY <1>0, GoneSteps
  <1>16. Goal
    BY <1>n, <1>1, <1>2, <1>3, <1>4, <1>5, <1>6, <1>7, <1>8, <1>9, <1>10, <1>11, <1>12, <1>13,
       <1>14, <1>15
       DEF Next, HandleFrame, PeerNext, Goal
  <1> QED
    BY <1>16 DEF Goal

\* What the local service has and what travels, of a user who sent d bytes.
DownHolds(lo, ch, d) == Numbered(ch, Len(lo) + 1) /\ Len(lo) + BytesIn(ch) = d

LEMMA DownSame ==
  ASSUME NEW lo \in Seq(Nat), NEW ch, NEW c, NEW d, DownHolds(lo, ch, d),
         BytesIn(c) = BytesIn(ch), \A f \in Nat : Numbered(ch, f) => Numbered(c, f)
  PROVE  DownHolds(lo, c, d)
  <1>1. Len(lo) + 1 \in Nat
    OBVIOUS
  <1> QED
    BY <1>1 DEF DownHolds

\* The local service is given the next bytes.
LEMMA DownGiven ==
  ASSUME NEW lo \in Seq(Nat), NEW t \in Seq(Nat), NEW ch, NEW c, NEW d, DownHolds(lo, ch, d), Run(lo, 1),
         BytesIn(ch) = BytesIn(c) + Len(t), BytesIn(c) \in Nat,
         \A f \in Int : Numbered(ch, f) => Numbered(c, f + Len(t)) /\ Run(t, f)
  PROVE  DownHolds(lo \o t, c, d) /\ Run(lo \o t, 1)
  <1> DEFINE g == Len(lo)
             l == Len(t)
  <1>1. g \in Nat /\ l \in Nat /\ g + 1 \in Int /\ 1 \in Int /\ Len(lo \o t) = g + l
    BY ConcatFacts
  <1>2. Numbered(ch, g + 1) /\ g + BytesIn(ch) = d
    BY DEF DownHolds
  <1>3. Numbered(c, (g + 1) + l) /\ Run(t, g + 1)
    BY <1>1, <1>2
  <1>4. 1 + Len(lo) = g + 1
    BY <1>1
  <1>5. Run(lo \o t, 1)
    BY <1>1, <1>3, <1>4, RunConcat
  <1>6. BytesIn(ch) = BytesIn(c) + l
    OBVIOUS
  <1> HIDE DEF g, l
  <1>7. (g + 1) + l = (g + l) + 1 /\ g + BytesIn(ch) = (g + l) + BytesIn(c)
    BY <1>1, <1>6
  <1> QED
    BY <1>1, <1>2, <1>3, <1>5, <1>7 DEF DownHolds

\* StartWorkConn is taken, and the user's first byte is the next.
LEMMA DownStarts ==
  ASSUME NEW lo, lo = <<>>, NEW t, t = << 0 >>, NEW ch, NEW c, NEW d \in Nat,
         BytesIn(ch) = BytesIn(c) + Len(t), BytesIn(c) \in Nat, Numbered(ch, d + 1 - BytesIn(ch)),
         \A f \in Int : Numbered(ch, f) => Numbered(c, f + Len(t)) /\ Run(t, f)
  PROVE  DownHolds(lo, c, d)
  <1> DEFINE f == d + 1 - BytesIn(ch)
  <1>1. Len(t) = 1 /\ t[1] = 0 /\ 1 \in 1..Len(t) /\ Len(lo) = 0
    OBVIOUS
  <1>2. BytesIn(ch) = BytesIn(c) + 1 /\ f \in Int
    BY <1>1
  <1> HIDE DEF f
  <1>3. Numbered(c, f + Len(t)) /\ Run(t, f)
    BY <1>2 DEF f
  <1>4. t[1] = f + 1 - 1
    BY <1>1, <1>3 DEF Run
  <1>5. f = 0
    BY <1>1, <1>2, <1>4
  <1>6. Numbered(c, 0 + 1) /\ 0 + BytesIn(c) = d
    BY <1>1, <1>2, <1>3, <1>5 DEF f
  <1> QED
    BY <1>1, <1>6 DEF DownHolds

\* The bytes of the user.
LEMMA NextDownlink == IInv /\ FlowInv /\ SideInv' /\ [Next]_vars => DownlinkExact'
  <1> SUFFICES ASSUME IInv, FlowInv, SideInv', [Next]_vars
               PROVE  DownlinkExact'
    OBVIOUS
  <1>i. SideInv /\ RecvCreditConserved /\ DownlinkExact
    BY DEF FlowInv
  <1>t. local_out \in Seq(Nat) /\ peer.down \in Nat /\ BytesIn(toClient) \in Nat
    BY LedgerTypes
  <1>r. Run(local_out, 1)
    BY <1>i DEF DownlinkExact
  <1>h. (Listed /\ state = "ESTABLISHED" /\ bev = "open") => DownHolds(local_out, toClient, peer.down)
    BY <1>i DEF DownlinkExact, DownHolds
  <1>1. Run(local_out', 1)
    <2>1. CASE HandleDataTunnel
      <3> DEFINE t == Head(toClient).bytes
      <3>0. TRUE \in BOOLEAN
        OBVIOUS
      <3>1. /\ Listed /\ state = "ESTABLISHED" /\ t \in Seq(Nat) /\ bev = "open"
            /\ BytesIn(toClient) = BytesIn(toClient') + Len(t) /\ BytesIn(toClient') \in Nat
            /\ \A f \in Int : Numbered(toClient, f) => Numbered(toClient', f + Len(t)) /\ Run(t, f)
            /\ local_out' = local_out \o t
        BY <1>i, <2>1, <3>0, DataLedger
      <3>2. DownHolds(local_out, toClient, peer.down)
        BY <1>h, <3>1
      <3> HIDE DEF t
      <3>3. Run(local_out \o t, 1)
        BY <1>t, <1>r, <3>1, <3>2, DownGiven
      <3> QED
        BY <3>1, <3>3
    <2>2. CASE ~ HandleDataTunnel
      <3>1. local_out' = local_out
        BY <2>2
           DEF Next, Open, LocalRead, LocalEvent, HandleFrame, HandleWinUpdate, HandleDataOverflow,
         HandleDataKept, HandleDataTunnelFails, HandleDataControl,
         HandleAbandoned, ConnectionCleared, PeerNext, PeerAccept, PeerRead, PeerStart, PeerSend,
         PeerRecv, PeerDiscard, PeerFin, PeerReset, client, vars
      <3> QED
        BY <1>r, <3>1
    <2> QED
      BY <2>1, <2>2
  <1>2. (Listed' /\ state' = "ESTABLISHED") => rx_ring' = <<>>
    BY DEF SideInv, RxSide, Young
  <1> SUFFICES ASSUME Listed', state' = "ESTABLISHED", bev' = "open"
               PROVE  DownHolds(local_out', toClient', peer'.down)
    BY <1>1, <1>2 DEF DownlinkExact, DownHolds
  <1>0. /\ Listed /\ state \in {"INIT", "SYN_SEND", "ESTABLISHED"}
        /\ bev = "open" \/ state = "ESTABLISHED"
    BY NoRevival
  <1>3. state = "ESTABLISHED"
    BY <1>0 DEF IInv, RingInv
  <1> DEFINE Goal == DownHolds(local_out', toClient', peer'.down)
  <1>a. CASE bev = "open" /\ local_out' = local_out /\ toClient' = toClient /\ peer'.down = peer.down
    BY <1>a, <1>0, <1>3, <1>h
  <1>b. CASE /\ bev = "open" /\ local_out' = local_out /\ peer'.down = peer.down
             /\ BytesIn(toClient') = BytesIn(toClient)
             /\ \A f \in Nat : Numbered(toClient, f) => Numbered(toClient', f)
    BY <1>b, <1>0, <1>3, <1>h, <1>t, DownSame
  <1> HIDE DEF Goal
  <1>4. ~ Open /\ ~ PeerAccept
    BY <1>i, <1>3, AcceptLedger DEF Open
  <1>5. ASSUME NEW n \in 1..Chunk, LocalRead(n) PROVE Goal
    <2>1. bev = "open" /\ local_out' = local_out /\ toClient' = toClient /\ peer' = peer
      BY <1>5 DEF LocalRead
    <2> QED
      BY <1>a, <2>1 DEF Goal
  <1>6. ~ \E what \in {"EOF", "ERROR"} : LocalEvent(what)
    BY EventLedger
  <1>7. CASE HandleWinUpdate
    <2>1. /\ bev' = bev /\ local_out' = local_out /\ peer' = peer
          /\ BytesIn(toClient') = BytesIn(toClient)
          /\ \A f \in Nat : Numbered(toClient, f) => Numbered(toClient', f)
      BY <1>7, WinUpdateLedger
    <2> QED
      BY <1>b, <2>1 DEF Goal
  <1>8. ~ HandleDataKept
    BY <1>i, <1>3, KeptLedger DEF Young
  <1>9. CASE HandleDataTunnel
    <2> DEFINE t == Head(toClient).bytes
    <2>0. TRUE \in BOOLEAN
      OBVIOUS
    <2>1. /\ t \in Seq(Nat) /\ bev = "open" /\ peer' = peer
          /\ BytesIn(toClient) = BytesIn(toClient') + Len(t) /\ BytesIn(toClient') \in Nat
          /\ \A f \in Int : Numbered(toClient, f) => Numbered(toClient', f + Len(t)) /\ Run(t, f)
          /\ local_out' = local_out \o t
      BY <1>i, <1>9, <2>0, DataLedger
    <2>2. DownHolds(local_out, toClient, peer.down)
      BY <1>h, <1>0, <1>3, <2>1
    <2> HIDE DEF t
    <2>3. DownHolds(local_out \o t, toClient', peer.down)
      BY <1>t, <1>r, <2>1, <2>2, DownGiven
    <2> QED
      BY <2>1, <2>3 DEF Goal
  <1>10. ASSUME NEW x \in BOOLEAN, HandleDataControl(x) PROVE Goal
    <2> DEFINE t == Head(toClient).bytes
    <2>1. /\ t \in Seq(Nat) /\ bev = "none" /\ peer' = peer /\ local_out' = local_out
          /\ BytesIn(toClient) = BytesIn(toClient') + Len(t) /\ BytesIn(toClient') \in Nat
          /\ \A f \in Int : Numbered(toClient, f) => Numbered(toClient', f + Len(t)) /\ Run(t, f)
          /\ bev' = (IF x THEN "open" ELSE "none") /\ (x => t = <<0>>)
      BY <1>i, <1>10, DataLedger
    <2>2. t = <<0>> /\ local_out = <<>> /\ Numbered(toClient, peer.down + 1 - BytesIn(toClient))
      BY <1>i, <2>1 DEF SideInv, TunnelSide, NumberSide
    <2> HIDE DEF t
    <2>3. DownHolds(local_out, toClient', peer.down)
      BY <1>t, <2>1, <2>2, DownStarts
    <2> QED
      BY <2>1, <2>3 DEF Goal
  <1>11. CASE PeerRead
    <2> DEFINE t == Head(toPeer).bytes
    <2>1. /\ peer'.down = peer.down /\ BytesIn(toClient') = BytesIn(toClient)
          /\ \A f : Numbered(toClient, f) => Numbered(toClient', f)
      BY <1>11, PeerReadLedger
    <2>2. bev' = bev /\ local_out' = local_out
      BY <1>11 DEF PeerRead, client
    <2> QED
      BY <1>b, <2>1, <2>2 DEF Goal
  <1>12. ~ PeerStart
    <2>1. PeerStart => ~ peer.started /\ bev' = bev
      BY PeerStartLedger DEF PeerStart, client
    <2> QED
      BY <1>i, <2>1 DEF SideInv, TunnelSide
  <1>13. ASSUME NEW n \in 1..Frame, PeerSend(n) PROVE Goal
    <2> DEFINE f == Len(local_out) + 1
    <2>1. /\ n \in Nat /\ peer'.down = peer.down + n /\ BytesIn(toClient') = BytesIn(toClient) + n
          /\ \A g \in Int : Numbered(toClient, g) /\ g + BytesIn(toClient) = peer.down + 1 => Numbered(toClient', g)
      BY <1>13, PeerSendLedger
    <2>2. bev' = bev /\ local_out' = local_out
      BY <1>13 DEF PeerSend, client
    <2>3. Numbered(toClient, f) /\ Len(local_out) + BytesIn(toClient) = peer.down
      BY <1>h, <1>0, <1>3, <2>2 DEF DownHolds
    <2>4. Len(local_out) \in Nat
      BY <1>t
    <2>5. f \in Int /\ f + BytesIn(toClient) = peer.down + 1
          /\ Len(local_out) + (BytesIn(toClient) + n) = peer.down + n
      BY <1>t, <2>1, <2>3, <2>4
    <2> HIDE DEF f
    <2>6. Numbered(toClient', f)
      BY <2>1, <2>3, <2>5
    <2> QED
      BY <2>1, <2>2, <2>5, <2>6 DEF DownHolds, Goal, f
  <1>14. CASE PeerRecv \/ PeerDiscard
    <2>1. peer'.down = peer.down /\ toClient' = toClient
      BY <1>14, PeerRecvLedger, PeerDiscardLedger
    <2>2. bev' = bev /\ local_out' = local_out
      BY <1>14 DEF PeerRecv, PeerDiscard, client
    <2> QED
      BY <1>a, <2>1, <2>2 DEF Goal
  <1>15. CASE PeerFin \/ PeerReset
    <2>1. peer'.down = peer.down /\ Credited(toClient, toClient', 0)
      BY <1>15, CloseLedger
    <2>2. bev' = bev /\ local_out' = local_out
      BY <1>15 DEF PeerFin, PeerReset, client
    <2> QED
      BY <1>b, <2>1, <2>2 DEF Goal, Credited
  <1>16. CASE UNCHANGED vars
    <2>1. bev' = bev /\ local_out' = local_out /\ toClient' = toClient /\ peer' = peer
      BY <1>16 DEF vars, client
    <2> QED
      BY <1>a, <2>1 DEF Goal
  <1>17. ~ (HandleDataOverflow \/ HandleDataTunnelFails \/ HandleAbandoned \/ ConnectionCleared)
    BY <1>0, GoneSteps
  <1>18. Goal
    BY <1>4, <1>5, <1>6, <1>7, <1>8, <1>9, <1>10, <1>11, <1>12, <1>13, <1>14, <1>15, <1>16, <1>17
       DEF Next, HandleFrame, PeerNext, Goal
  <1> QED
    BY <1>18 DEF Goal

\* A new stream satisfies the laws.
LEMMA InitFlow == Init => FlowInv
  <1> SUFFICES ASSUME Init PROVE FlowInv
    OBVIOUS
  <1> DEFINE p == [state |-> "LISTEN", window |-> MaxWindow, unacked |-> 0,
                   got |-> <<>>, started |-> FALSE, down |-> 0]
  <1>1. /\ toPeer = <<>> /\ toClient = <<>> /\ rx_ring = <<>> /\ local_out = <<>>
        /\ send_window = MaxWindow /\ recv_window = MaxWindow /\ up = 0 /\ state = "INIT"
        /\ bev = "none"
        /\ peer = p
    BY DEF Init
  <1>2. /\ p.state = "LISTEN" /\ p.window = MaxWindow /\ p.unacked = 0 /\ p.got = <<>> /\ p.down = 0
    OBVIOUS
  <1>3. /\ BytesIn(toPeer) = 0 /\ CreditIn(toPeer) = 0 /\ BytesIn(toClient) = 0
        /\ CreditIn(toClient) = 0
        /\ \A f : Numbered(toClient, f)
    BY <1>1, ChannelEmpty
  <1>4. MaxWindow \in Nat
    BY SizesAssumption
  <1> HIDE DEF p
  <1>5. SendCreditConserved
    BY <1>1, <1>2, <1>3, <1>4 DEF SendCreditConserved
  <1>6. RecvCreditConserved
    BY <1>1, <1>2, <1>3, <1>4 DEF RecvCreditConserved
  <1>7. UplinkExact
    BY <1>1 DEF UplinkExact
  <1>8. DownlinkExact
    <2>1. 1..Len(<<>>) = {}
      OBVIOUS
    <2> QED
      BY <1>1, <2>1 DEF DownlinkExact, Run
  <1>9. WindowSide /\ FreshSide /\ FinSide /\ TunnelSide /\ RxSide
    BY <1>1, <1>2, <1>4 DEF WindowSide, FreshSide, FinSide, TunnelSide, RxSide
  <1>10. SynSide /\ StartSide /\ NumberSide
    <2>1. 1..Len(<<>>) = {}
      OBVIOUS
    <2> QED
      BY <1>1, <1>2, <1>3, <2>1 DEF SynSide, StartSide, NumberSide
  <1> QED
    BY <1>5, <1>6, <1>7, <1>8, <1>9, <1>10 DEF FlowInv, SideInv

\* The four laws are, with SideInv, an inductive invariant relative to IInv.
THEOREM FlowInvariance == Spec => []FlowInv
  <1>1. Init => FlowInv
    BY InitFlow
  <1>2. IInv /\ FlowInv /\ [Next]_vars => FlowInv'
    <2> SUFFICES ASSUME IInv, FlowInv, [Next]_vars PROVE FlowInv'
      OBVIOUS
    <2>1. SideInv /\ RecvCreditConserved
      BY DEF FlowInv
    <2>2. SideInv'
      BY <2>1, NextSideInv
    <2> QED
      BY <2>2, NextSendCredit, NextRecvCredit, NextUplink, NextDownlink DEF FlowInv
  <1> QED
    BY <1>1, <1>2, StreamInvariance, PTL DEF Spec

\* No credit towards frps is lost or counted twice: what tmux_stream_write may
\* still send, what travels and what frps has not credited is the window.
THEOREM SendCreditAlwaysConserved == Spec => []SendCreditConserved
  BY FlowInvariance, PTL DEF FlowInv

\* process_data never has to refuse: the window it accepts is what frps may
\* send and what travels.
THEOREM RecvCreditAlwaysConserved == Spec => []RecvCreditConserved
  BY FlowInvariance, PTL DEF FlowInv

\* The bytes tcp_proxy_c2s_cb reads reach frps in order, each once.
THEOREM UplinkAlwaysExact == Spec => []UplinkExact
  BY FlowInvariance, PTL DEF FlowInv

\* The bytes of the user reach the local service in order, each once.
THEOREM DownlinkAlwaysExact == Spec => []DownlinkExact
  BY FlowInvariance, PTL DEF FlowInv
=============================================================================
