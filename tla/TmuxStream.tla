----------------------------- MODULE TmuxStream -----------------------------
(* One work stream of the multiplexed connection (tcpmux.c) together with    *)
(* the proxy_client that owns it (client.c), the callbacks of the local      *)
(* service's bufferevent (proxy_tcp.c, client.c) and, as environment, the    *)
(* yamux session of frps. A DATA frame is delivered whole; how recv_cb       *)
(* reassembles frames is the module RecvFraming. The two rings are byte      *)
(* queues, which RingBuffer shows them to be.                                *)
(*                                                                           *)
(* A byte is its position in its direction: the local service sends          *)
(* 1, 2, 3, ... and so does the remote user; 0 is a control message          *)
(* (NewWorkConn upwards, StartWorkConn downwards).                           *)
EXTENDS Integers, Sequences, FiniteSets

CONSTANTS
  MaxWindow,   \* MAX_STREAM_WINDOW_SIZE, 256*1024
  RingSize,    \* RBUF_SIZE = WBUF_SIZE, 32*1024
  Chunk,       \* the most libevent hands to one read callback, 4096 or 16384
  Frame,       \* the longest DATA frame frps sends, its copy buffer, 16384
  MaxUp,       \* bound: bytes the local service sends
  MaxDown,     \* bound: bytes the remote user sends
  MaxMinor     \* bound: bytes in one direction once the other exceeds it

ASSUME SizesAssumption ==
  /\ {MaxWindow, RingSize, Chunk, Frame, MaxUp, MaxDown, MaxMinor} \subseteq Nat
  /\ Chunk > 0 /\ Frame > 0
  /\ 2 * Chunk <= RingSize
  /\ Frame <= RingSize
  /\ 2 * (RingSize + Chunk) <= MaxWindow

Half == MaxWindow \div 2

VARIABLES
  state, send_window, recv_window, tx_ring, rx_ring,  \* struct tmux_stream
  pc,          \* "listed": in all_stream and all_pc; "freed": deleted
  bev,         \* local_proxy_bev: "none" before the tunnel, "open", or "null"
  read_on,     \* EV_READ is enabled on local_proxy_bev
  local_out,   \* bytes written to local_proxy_bev
  up,          \* bytes the local service has sent
  toPeer, toClient,        \* frames in flight on the connection
  peer         \* frps: its window, its unacknowledged credit and its state

stream == <<state, send_window, recv_window, tx_ring, rx_ring>>
client == <<pc, bev, read_on, local_out>>
vars == <<stream, client, up, toPeer, toClient, peer>>

States == {"INIT", "SYN_SEND", "ESTABLISHED", "LOCAL_CLOSE", "REMOTE_CLOSE",
           "CLOSED", "RESET"}

\* How the process can end in this module: a failed assertion, a call on a
\* null bufferevent, or a use of the freed client. They are values of pc.
Aborts == {"append assert", "read assert", "FIN assert", "null bev", "use after free"}

Running == pc \notin Aborts
Listed == pc = "listed"

WinUpdate(f, n) == [type |-> "WINDOW_UPDATE", flag |-> f, len |-> n, bytes |-> <<>>]
GoAway == [type |-> "GO_AWAY", flag |-> "ZERO", len |-> 0, bytes |-> <<>>]
DataFrame(n, b) == [type |-> "DATA", flag |-> "ZERO", len |-> n, bytes |-> b]

Smaller(a, b) == IF a < b THEN a ELSE b
Drop(s, n) == SubSeq(s, n + 1, Len(s))
Take(s, n) == SubSeq(s, 1, n)

Init == /\ state = "INIT"
        /\ send_window = MaxWindow /\ recv_window = MaxWindow
        /\ tx_ring = <<>> /\ rx_ring = <<>>
        /\ pc = "listed" /\ bev = "none" /\ read_on = FALSE
        /\ local_out = <<>> /\ up = 0
        /\ toPeer = <<>> /\ toClient = <<>>
        /\ peer = [state |-> "LISTEN", window |-> MaxWindow, unacked |-> 0,
                   got |-> <<>>, started |-> FALSE, down |-> 0]

-----------------------------------------------------------------------------
(* Sending                                                                   *)

Shut == state \in {"LOCAL_CLOSE", "CLOSED", "RESET"}

\* Mutant of Admitted: the window is not looked at.
AdmittedAll(d) == IF Shut THEN 0 ELSE Len(tx_ring) + Len(d)

\* What tmux_stream_write sends of the ring and of d, and returns (`max').
Admitted(d) == IF Shut THEN 0 ELSE Smaller(send_window, Len(tx_ring) + Len(d))

\* The second branch: the window covers the ring but not all of d. The code
\* takes tx_ring->sz after it has drained the ring, so it writes send_window
\* bytes of d behind the ring, not send_window - sz; when d is shorter, the
\* length it then passes to tx_ring_buffer_append wraps around.
Splits(d) == /\ send_window > 0
             /\ send_window >= Len(tx_ring) /\ send_window < Len(tx_ring) + Len(d)

\* Mutant of Payload: the ring is forgotten.
PayloadWithoutRing(d) == Take(d, Smaller(Admitted(d), Len(d)))

Payload(d) == IF Splits(d) THEN tx_ring \o Take(d, Smaller(send_window, Len(d)))
                           ELSE Take(tx_ring \o d, Admitted(d))

\* Mutant of Leftover: a ring sent as a whole is not emptied.
LeftoverUndrained(d) == IF Admitted(d) = Len(tx_ring) + Len(d) THEN tx_ring
                        ELSE Drop(tx_ring \o d, Admitted(d))

Leftover(d) == IF Shut THEN tx_ring
               ELSE IF Splits(d) THEN Drop(d, Smaller(send_window, Len(d)))
               ELSE Drop(tx_ring \o d, Admitted(d))

\* assert(left >= len) of tx_ring_buffer_append
AppendFails(d) == \/ Len(Leftover(d)) > RingSize
                  \/ ~ Shut /\ Splits(d) /\ send_window > Len(d)

\* stream->send_window -= max. Mutant: the bytes of the ring are not charged.
ChargeData(d) == Smaller(Admitted(d), Len(d))
Charge(d) == Admitted(d)

tmux_stream_write(d) ==
  /\ send_window' = send_window - Charge(d)
  /\ toPeer' = IF Admitted(d) = 0 THEN toPeer
               ELSE Append(toPeer, DataFrame(Admitted(d), Payload(d)))
  /\ tx_ring' = Leftover(d)
  /\ pc' = IF AppendFails(d) THEN "append assert" ELSE pc

-----------------------------------------------------------------------------
(* new_client_connect: SYN in a window update, then NewWorkConn.             *)
Open == /\ Listed /\ state = "INIT"
        /\ state' = "SYN_SEND"
        /\ toPeer' = <<WinUpdate("SYN", MaxWindow - recv_window), DataFrame(1, <<0>>)>>
        /\ send_window' = send_window - 1
        /\ UNCHANGED <<recv_window, tx_ring, rx_ring, client, up, toClient, peer>>

\* tcp_proxy_c2s_cb disables EV_READ unless all it read was admitted. Mutants:
\* also when exactly that much was; never.
KeepsReadingShy(d) == Admitted(d) > Len(d)
KeepsReadingAlways(d) == TRUE
KeepsReading(d) == Admitted(d) >= Len(d)

\* tcp_proxy_c2s_cb: n bytes read from the local service.
LocalRead(n) ==
  LET d == [k \in 1..n |-> up + k] IN
  /\ Listed /\ bev = "open" /\ read_on
  /\ up + n <= MaxUp /\ (up + n <= MaxMinor \/ peer.down <= MaxMinor)
  /\ tmux_stream_write(d)
  /\ read_on' = KeepsReading(d)
  /\ up' = up + n
  /\ UNCHANGED <<state, recv_window, rx_ring, bev, local_out, toClient, peer>>

\* xfrp_proxy_event_cb frees the bufferevent of a stream that is left half
\* open. Mutant: it keeps it.
KeepBev == UNCHANGED bev
FreeBev == bev' = "null"

\* tmux_stream_close, called by xfrp_proxy_event_cb: the first close leaves
\* the stream half open and drops the bufferevent, the close after the peer's
\* frees the client.
tmux_stream_close ==
  /\ toPeer' = Append(toPeer, WinUpdate("FIN", 0))
  /\ \/ /\ state \in {"SYN_SEND", "ESTABLISHED"}
        /\ state' = "LOCAL_CLOSE" /\ FreeBev
        /\ UNCHANGED pc
     \/ /\ state \in {"LOCAL_CLOSE", "REMOTE_CLOSE"}
        /\ state' = "CLOSED" /\ bev' = "null"
        /\ pc' = "freed"

\* The local service closed (seen only while reading) or the socket failed
\* (a refused connection, a failed write: seen at any time).
LocalEvent(what) ==
  /\ Listed /\ bev = "open"
  /\ what = "EOF" => read_on
  /\ tmux_stream_close
  /\ read_on' = FALSE
  /\ UNCHANGED <<send_window, recv_window, tx_ring, rx_ring, local_out, up, toClient, peer>>

-----------------------------------------------------------------------------
(* Receiving                                                                 *)

\* process_flags: ACK, else FIN, else RST; a closed stream is freed, a FIN
\* in an unexpected state is an assert(0).
AfterFlags(f) ==
  CASE f = "ACK" /\ state = "SYN_SEND" -> "ESTABLISHED"
    [] f = "FIN" /\ state \in {"SYN_SEND", "ESTABLISHED"} -> "REMOTE_CLOSE"
    [] f = "FIN" /\ state = "LOCAL_CLOSE" -> "CLOSED"
    [] f = "RST" -> "RESET"
    [] OTHER -> state

\* Mutant of FateOfFlags: close_stream is not set for RST.
FateWithoutReset(f) ==
  CASE f = "FIN" /\ state = "LOCAL_CLOSE" -> "freed"
    [] f = "FIN" /\ state \notin {"SYN_SEND", "ESTABLISHED", "LOCAL_CLOSE"} -> "FIN assert"
    [] OTHER -> "listed"

FateOfFlags(f) ==
  CASE f = "RST" \/ (f = "FIN" /\ state = "LOCAL_CLOSE") -> "freed"
    [] f = "FIN" /\ state \notin {"SYN_SEND", "ESTABLISHED", "LOCAL_CLOSE"} -> "FIN assert"
    [] OTHER -> "listed"

\* incr_send_window re-enables reading when the window was closed. Mutants: the
\* bufferevent_enable is missing; the test is.
NeverWakes == FALSE
AlwaysWakes == TRUE
Wakes == send_window = 0

\* handle_tcp_mux_stream on a WINDOW_UPDATE: incr_send_window. A stream that
\* survives the flags with a zero window has reading re-enabled on its
\* local_proxy_bev, whatever that pointer is.
HandleWinUpdate ==
  LET m == Head(toClient)
      kept == FateOfFlags(m.flag) = "listed"
  IN
  /\ Listed /\ toClient # <<>> /\ m.type = "WINDOW_UPDATE"
  /\ toClient' = Tail(toClient)
  /\ state' = AfterFlags(m.flag)
  /\ pc' = IF kept /\ Wakes /\ bev # "open" THEN "null bev"
           ELSE FateOfFlags(m.flag)
  /\ send_window' = IF kept THEN send_window + m.len ELSE send_window
  /\ read_on' = (kept /\ (read_on \/ (Wakes /\ bev = "open")))
  /\ bev' = IF kept THEN bev ELSE "null"
  /\ UNCHANGED <<recv_window, tx_ring, rx_ring, local_out, up, toPeer, peer>>

\* send_window_update with length = nret: a new credit when it is worth half
\* a window.
Delta(nret, rw) == (MaxWindow - nret) - rw

\* delta < max/2. Mutant: credit is given only for a whole window.
TooLittleForAll(nret, rw) == Delta(nret, rw) < MaxWindow
TooLittle(nret, rw) == Delta(nret, rw) < Half

\* stream->recv_window += delta. Mutant: the assignment is missing.
NotRaised(nret, rw) == rw
Raised(nret, rw) == rw + Delta(nret, rw)

send_window_update(nret, rw) ==
  IF TooLittle(nret, rw)
  THEN recv_window' = rw /\ UNCHANGED toPeer
  ELSE /\ recv_window' = Raised(nret, rw)
       /\ toPeer' = Append(toPeer, WinUpdate("ZERO", Delta(nret, rw)))

\* The DATA frame enters rx_ring first (tmux_stream_read, whose caller asserts
\* that all of it fits), in whatever state the stream is.
RxFull(m) == Len(rx_ring) + m.len > RingSize

HandleDataOverflow ==
  LET m == Head(toClient) IN
  /\ Listed /\ toClient # <<>> /\ m.type = "DATA"
  /\ RxFull(m)
  /\ pc' = "read assert"
  /\ UNCHANGED <<stream, bev, read_on, local_out, up, toPeer, toClient, peer>>

\* A stream that is not ESTABLISHED leaves the bytes in its ring, unhandled;
\* so does process_data, which answers GO_AWAY, for more than the receive
\* window.
Refused(m) == m.len > recv_window

HandleDataKept ==
  LET m == Head(toClient) IN
  /\ Listed /\ toClient # <<>> /\ m.type = "DATA"
  /\ ~ RxFull(m)
  /\ state # "ESTABLISHED" \/ Refused(m)
  /\ rx_ring' = rx_ring \o m.bytes
  /\ toClient' = Tail(toClient)
  /\ toPeer' = IF state = "ESTABLISHED" THEN Append(toPeer, GoAway) ELSE toPeer
  /\ UNCHANGED <<state, send_window, recv_window, tx_ring, client, up, peer>>

\* tx_ring_buffer_write of n bytes of r to the local service. Mutant: they
\* stay in the ring.
DeliverUndrained(r, n) == local_out' = local_out \o Take(r, n) /\ rx_ring' = r
Deliver(r, n) == local_out' = local_out \o Take(r, n) /\ rx_ring' = Drop(r, n)

\* With a tunnel, the first m.len bytes of the ring go to the local service.
HandleDataTunnel ==
  LET m == Head(toClient)
      r == rx_ring \o m.bytes
  IN
  /\ Listed /\ toClient # <<>> /\ m.type = "DATA"
  /\ ~ RxFull(m)
  /\ state = "ESTABLISHED" /\ ~ Refused(m)
  /\ bev = "open"
  /\ Deliver(r, m.len)
  /\ send_window_update(m.len, recv_window - m.len)
  /\ toClient' = Tail(toClient)
  /\ UNCHANGED <<state, send_window, tx_ring, pc, bev, read_on, up, peer>>

\* Without one the bytes are a control message for handle_control_work.
\* StartWorkConn starts the tunnel: the connection to the local service is
\* begun (start_xfrp_tunnel), or is not because the named proxy is unknown or
\* has no local port; any other message is ignored.
HandleDataControl(started) ==
  LET m == Head(toClient)
      r == rx_ring \o m.bytes
  IN
  /\ Listed /\ toClient # <<>> /\ m.type = "DATA"
  /\ ~ RxFull(m)
  /\ state = "ESTABLISHED" /\ ~ Refused(m)
  /\ bev = "none"
  /\ started => Take(r, m.len) = <<0>>
  /\ bev' = IF started THEN "open" ELSE "none"
  /\ read_on' = started
  /\ rx_ring' = Drop(r, m.len)
  /\ send_window_update(m.len, recv_window - m.len)
  /\ toClient' = Tail(toClient)
  /\ UNCHANGED <<state, send_window, tx_ring, pc, local_out, up, peer>>

\* connect_server refuses at once: start_xfrp_tunnel frees the client, whose
\* fields set_client_work_start and send_window_update then use.
HandleDataTunnelFails ==
  LET m == Head(toClient) IN
  /\ Listed /\ toClient # <<>> /\ m.type = "DATA"
  /\ ~ RxFull(m)
  /\ state = "ESTABLISHED" /\ ~ Refused(m)
  /\ bev = "none" /\ Take(rx_ring \o m.bytes, m.len) = <<0>>
  /\ pc' \in {"freed", "use after free"}
  /\ toClient' = Tail(toClient)
  /\ UNCHANGED <<stream, bev, read_on, local_out, up, toPeer, peer>>

\* A frame for a stream that is no longer listed: recv_cb drops its payload
\* (abandon_stream), handle_tcp_mux_stream its header.
HandleAbandoned == /\ pc = "freed" /\ toClient # <<>>
                   /\ toClient' = Tail(toClient)
                   /\ UNCHANGED <<stream, client, up, toPeer, peer>>

\* clear_main_control: the whole connection goes, with every client.
ConnectionCleared == /\ Listed
                     /\ pc' = "freed" /\ bev' = "null" /\ read_on' = FALSE
                     /\ toPeer' = <<>> /\ toClient' = <<>>
                     /\ peer' = [peer EXCEPT !.state = "CLOSED"]
                     /\ UNCHANGED <<stream, local_out, up>>

-----------------------------------------------------------------------------
(* frps and its yamux session (external): what tcpmux.c relies on.           *)

PeerSays(m) == toClient' = Append(toClient, m)

\* AcceptStream acknowledges; a full accept backlog resets instead.
PeerAccept == /\ Running /\ toPeer # <<>> /\ Head(toPeer).flag = "SYN"
              /\ toPeer' = Tail(toPeer)
              /\ \/ /\ PeerSays(WinUpdate("ACK", 0))
                    /\ peer' = [peer EXCEPT !.state = "OPEN"]
                 \/ /\ PeerSays(WinUpdate("RST", 0))
                    /\ peer' = [peer EXCEPT !.state = "CLOSED"]
              /\ UNCHANGED <<stream, client, up>>

\* The application reads one frame; consumed bytes are credited back when
\* they amount to half a window. A stream frps has closed is read no more.
PeerRead ==
  LET m == Head(toPeer)
      u == peer.unacked + Len(m.bytes)
  IN
  /\ Running /\ toPeer # <<>> /\ m.type = "DATA"
  /\ peer.state = "OPEN"
  /\ toPeer' = Tail(toPeer)
  /\ IF u >= Half THEN PeerSays(WinUpdate("ZERO", u)) ELSE UNCHANGED toClient
  /\ peer' = [peer EXCEPT !.got = @ \o m.bytes,
                          !.unacked = IF u >= Half THEN 0 ELSE u]
  /\ UNCHANGED <<stream, client, up>>

\* Once the NewWorkConn arrived and a user connects: StartWorkConn.
PeerStart == /\ Running /\ peer.state = "OPEN"
             /\ ~ peer.started /\ peer.got # <<>> /\ peer.window > 0
             /\ PeerSays(DataFrame(1, <<0>>))
             /\ peer' = [peer EXCEPT !.started = TRUE, !.window = @ - 1]
             /\ UNCHANGED <<stream, client, up, toPeer>>

\* The user's bytes, at most the peer's copy buffer and its send window.
PeerSend(n) ==
  /\ Running /\ peer.state \in {"OPEN", "REMOTE_CLOSE"} /\ peer.started
  /\ n <= peer.window /\ peer.down + n <= MaxDown
  /\ peer.down + n <= MaxMinor \/ up <= MaxMinor
  /\ PeerSays(DataFrame(n, [k \in 1..n |-> peer.down + k]))
  /\ peer' = [peer EXCEPT !.window = @ - n, !.down = @ + n]
  /\ UNCHANGED <<stream, client, up, toPeer>>

\* Window updates, FIN and GO_AWAY from the client.
PeerRecv ==
  LET m == Head(toPeer) IN
  /\ Running /\ toPeer # <<>> /\ m.type # "DATA" /\ m.flag # "SYN"
  /\ toPeer' = Tail(toPeer)
  /\ peer' = [peer EXCEPT !.window = @ + m.len,
                          !.state = IF m.flag # "FIN" THEN @
                                    ELSE IF @ = "OPEN" THEN "REMOTE_CLOSE" ELSE "CLOSED"]
  /\ UNCHANGED <<stream, client, up, toClient>>

\* DATA that reaches a stream frps has closed is buffered and forgotten.
PeerDiscard == /\ Running /\ toPeer # <<>> /\ Head(toPeer).type = "DATA"
               /\ peer.state \notin {"LISTEN", "OPEN"}
               /\ toPeer' = Tail(toPeer)
               /\ UNCHANGED <<stream, client, up, toClient, peer>>

\* frps closes its side: the user left, or the client's FIN was read.
PeerFin == /\ Running /\ peer.state \in {"OPEN", "REMOTE_CLOSE"}
           /\ PeerSays(WinUpdate("FIN", 0))
           /\ peer' = [peer EXCEPT !.state = IF @ = "OPEN" THEN "LOCAL_CLOSE" ELSE "CLOSED"]
           /\ UNCHANGED <<stream, client, up, toPeer>>

\* yamux gives up a half-closed stream after its close timeout.
PeerReset == /\ Running /\ peer.state = "LOCAL_CLOSE"
             /\ PeerSays(WinUpdate("RST", 0))
             /\ peer' = [peer EXCEPT !.state = "CLOSED"]
             /\ UNCHANGED <<stream, client, up, toPeer>>

PeerNext == \/ PeerAccept \/ PeerRead \/ PeerStart \/ PeerRecv \/ PeerDiscard
            \/ PeerFin \/ PeerReset
            \/ \E n \in 1..Frame : PeerSend(n)

HandleFrame == \/ HandleWinUpdate \/ HandleDataOverflow \/ HandleDataKept
               \/ HandleDataTunnel \/ HandleDataTunnelFails
               \/ HandleDataControl(TRUE) \/ HandleDataControl(FALSE)
               \/ HandleAbandoned

Next == \/ Open \/ HandleFrame \/ ConnectionCleared
        \/ \E n \in 1..Chunk : LocalRead(n)
        \/ \E what \in {"EOF", "ERROR"} : LocalEvent(what)
        \/ PeerNext

\* The event loop keeps handling frames; frps keeps reading what it is sent
\* while its side is open, answers a FIN with its own and lets the close
\* timeout of a half-closed stream expire.
PeerAnswersFin == peer.state = "REMOTE_CLOSE" /\ PeerFin

Spec == Init /\ [][Next]_vars

FairSpec == /\ Spec
            /\ WF_vars(Open) /\ WF_vars(HandleFrame)
            /\ WF_vars(PeerAccept) /\ WF_vars(PeerRead) /\ WF_vars(PeerRecv)
            /\ WF_vars(PeerDiscard) /\ WF_vars(PeerAnswersFin) /\ WF_vars(PeerReset)

-----------------------------------------------------------------------------
(* Properties                                                                *)

FrameSet == [type : {"DATA", "WINDOW_UPDATE", "GO_AWAY"},
             flag : {"ZERO", "SYN", "ACK", "FIN", "RST"},
             len : Nat, bytes : Seq(Nat)]

PeerSet == [state : {"LISTEN", "OPEN", "LOCAL_CLOSE", "REMOTE_CLOSE", "CLOSED"},
            window : Int, unacked : Nat, got : Seq(Nat), started : BOOLEAN,
            down : 0..MaxDown]

\* Types of the stream, of its client and of the environment.
TypeOK ==
  /\ state \in States
  /\ send_window \in Nat /\ recv_window \in 0..MaxWindow
  /\ tx_ring \in Seq(Nat) /\ rx_ring \in Seq(Nat) /\ local_out \in Seq(Nat)
  /\ pc \in {"listed", "freed"} \cup Aborts
  /\ bev \in {"none", "open", "null"} /\ read_on \in BOOLEAN
  /\ up \in 0..MaxUp
  /\ toPeer \in Seq(FrameSet) /\ toClient \in Seq(FrameSet)
  /\ peer \in PeerSet

\* Reading from the local service stops only for lack of window: whenever
\* tcp_proxy_c2s_cb has disabled it, the window is zero, so that the next
\* WINDOW_UPDATE re-enables it (incr_send_window tests for zero).
NoLostWakeup == (Listed /\ bev = "open" /\ ~ read_on) => send_window = 0

\* incr_send_window calls bufferevent_enable on local_proxy_bev, whatever that
\* is, when the window was zero. It is NULL before the tunnel, when the window
\* cannot be exhausted yet: only a stream whose local service has closed with
\* the window at zero ever makes that call on NULL.
WakesTooLateOnly == pc = "null bev" => state = "LOCAL_CLOSE"

\* No assertion of tx_ring_buffer_append can fail: the ring never has to hold
\* more than two reads (one left over when the window closed, one more after
\* the FIN of frps, which re-enables reading with the window still at zero).
TxRingFits == /\ pc # "append assert"
              /\ Len(tx_ring) <= 2 * Chunk
              /\ (state # "REMOTE_CLOSE" /\ Listed) => Len(tx_ring) <= Chunk

\* Every DATA frame carries exactly the bytes its header announces, so frps
\* never loses the frame boundary (the second branch of tmux_stream_write
\* would break it with a ring that is not empty).
FramesHonest == \A k \in 1..Len(toPeer) : Len(toPeer[k].bytes) =
                   IF toPeer[k].type = "DATA" THEN toPeer[k].len ELSE 0

\* process_data never leaves an ESTABLISHED stream without receive window:
\* frps, whose frames are at most half a window, is never starved for credit
\* although send_window_update is passed the bytes just delivered where it
\* subtracts the bytes still buffered.
WindowStaysOpen == (Listed /\ state = "ESTABLISHED") => recv_window > 0

\* FIN is the last thing the client says on a stream.
FinIsLast == \A k \in 1..Len(toPeer) : toPeer[k].flag = "FIN" => k = Len(toPeer)

\* w[1] + ... + w[n], as the size of a disjoint union.
Cells(w, n) == UNION {{k} \X (1..w[k]) : k \in 1..n}
Total(w, n) == Cardinality(Cells(w, n))

\* The bytes, and the credit, travelling in a channel.
ByteCounts(ch) == [k \in 1..Len(ch) |-> Len(ch[k].bytes)]
Credit(m) == IF m.type = "DATA" THEN 0 ELSE m.len
Credits(ch) == [k \in 1..Len(ch) |-> Credit(ch[k])]
BytesIn(ch) == Total(ByteCounts(ch), Len(ch))
CreditIn(ch) == Total(Credits(ch), Len(ch))

\* The bytes first, first + 1, ...; the same, frame after frame.
Run(t, first) == \A i \in 1..Len(t) : t[i] = first + i - 1
Numbered(ch, first) ==
  \A k \in 1..Len(ch) : Run(ch[k].bytes, first + Total(ByteCounts(ch), k - 1))

\* Flow control towards frps: the client's send window, the bytes on the wire,
\* what frps has consumed without credit and the credit on the wire always add
\* up to the window frps granted, so the client never overruns it and no
\* credit is lost or counted twice.
SendCreditConserved ==
  (Listed /\ peer.state \in {"LISTEN", "OPEN"}) =>
    send_window + BytesIn(toPeer) + peer.unacked + CreditIn(toClient) = MaxWindow

\* Flow control towards the client: what process_data still accepts is exactly
\* what frps may still send plus what is on the wire.
RecvCreditConserved ==
  (Listed /\ state \in {"INIT", "SYN_SEND", "ESTABLISHED"}) =>
    recv_window = peer.window + BytesIn(toClient) + CreditIn(toPeer)

\* Bytes of the local service reach frps in order, each once: what frps has,
\* what is on the wire and what waits in tx_ring are, one after the other, 0
\* (the NewWorkConn) and all that was read.
UplinkExact ==
  (Listed /\ state # "INIT" /\ peer.state \in {"LISTEN", "OPEN", "REMOTE_CLOSE"}) =>
    LET got == Len(peer.got)
        sent == got + BytesIn(toPeer)
    IN /\ Run(peer.got, 0) /\ Numbered(toPeer, got) /\ Run(tx_ring, sent)
       /\ sent + Len(tx_ring) = up + 1

\* Bytes of the user reach the local service in order, each once, and rx_ring
\* is empty between two frames of an ESTABLISHED stream.
DownlinkExact ==
  /\ Run(local_out, 1)
  /\ (Listed /\ state = "ESTABLISHED") => rx_ring = <<>>
  /\ (Listed /\ state = "ESTABLISHED" /\ bev = "open") =>
       /\ Numbered(toClient, Len(local_out) + 1)
       /\ Len(local_out) + BytesIn(toClient) = peer.down
=============================================================================
