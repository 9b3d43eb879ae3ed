---------------------------- MODULE RecvFraming ----------------------------
(* recv_cb (control.c): how the bytes of the connection to frps become       *)
(* frames, whatever pieces libevent delivers them in. A header is read only  *)
(* when all of it has arrived; the payload of a DATA frame goes piece by     *)
(* piece into the rx_ring of its stream, and cur_stream, stream_len and the  *)
(* static tmux_hdr carry a frame begun over to the next callback.            *)
(*                                                                           *)
(* A byte on the connection is <<c, k, i>>: byte i of the k-th frame sent on *)
(* the c-th connection.                                                      *)
(*                                                                           *)
(* Of a client of a socks5 service this module keeps what recv_cb can see:   *)
(* handle_ss5 takes some bytes from the front of rx_ring and may make a      *)
(* bufferevent, one of which may report its connection at any time. What is  *)
(* taken when, and how that code can fail by itself, is the module Socks5.   *)
(* Windows are the subject of TmuxStream: frps keeps to them here.           *)
EXTENDS Integers, Sequences

CONSTANTS
  Work,        \* ids of work streams, beside the control stream "main"
  HdrLen,      \* sizeof(struct tcp_mux_header), 12
  MaxPayload,  \* the longest payload frps sends, 16384
  RingSize,    \* RBUF_SIZE, 32*1024
  MaxFrames,   \* bound: frames frps sends on the first connection,
  MaxLater,    \* on a later one,
  MaxMain,     \* and of them for the control stream
  MaxConn      \* bound: connections

ASSUME FramingAssumption ==
  /\ HdrLen \in Nat \ {0} /\ {MaxPayload, RingSize, MaxFrames, MaxLater, MaxMain, MaxConn} \subseteq Nat
  /\ MaxPayload <= RingSize
  /\ \A x \in {"main", "abandon", "none", "kept", "socks5"} : x \notin Work

Ids == Work \cup {"main"}

VARIABLES
  sent,        \* frames frps has sent on this connection
  wire,        \* their bytes that have not arrived
  input,       \* the input evbuffer of connect_bev
  cur_stream,  \* "none" for NULL, a listed stream, or "abandon" (abandon_stream)
  tmux_hdr,    \* static: the last header read
  stream_len,  \* static: payload bytes of it still to read
  stream,      \* per id: "absent", "syn" (SYN_SEND), ESTABLISHED as "listed", or
               \* "tunnel" or "socks5" once its service is known, "local"
               \* (LOCAL_CLOSE), "fin" (REMOTE_CLOSE) or "gone"
  bevs,        \* per id: bufferevents that report to its client, while it lives
  rx_ring,     \* per stream, and for abandon_stream: bytes read
  handled,     \* what became of the frames, in order
  pc,          \* "idle", "loop" in recv_cb, or how the process went wrong
  conn,        \* number of the connection
  torn         \* history: a connection ended in the middle of a frame

parser == <<cur_stream, tmux_hdr, stream_len>>
vars == <<sent, wire, input, parser, stream, bevs, rx_ring, handled, pc, conn, torn>>

NoHdr == [type |-> "PING", id |-> "main", len |-> 0, seq |-> 0]

Take(s, n) == SubSeq(s, 1, n)
Drop(s, n) == SubSeq(s, n + 1, Len(s))

\* clear_main_control, then the SYN of connect_event_cb: only the control
\* stream is listed.
NoStreams == [s \in Ids |-> IF s = "main" THEN "syn" ELSE "absent"]
NoBevs == [s \in Ids |-> 0]
NoBytes == [s \in Ids \cup {"abandon"} |-> <<>>]

Init == /\ sent = <<>> /\ wire = <<>> /\ input = <<>>
        /\ cur_stream = "none" /\ tmux_hdr = NoHdr /\ stream_len = 0
        /\ stream = NoStreams /\ bevs = NoBevs /\ rx_ring = NoBytes
        /\ handled = <<>> /\ pc = "idle" /\ conn = 1 /\ torn = FALSE

-----------------------------------------------------------------------------
(* frps and the network (external)                                           *)

\* frps acknowledges a stream that xfrpc has opened, then uses it until it
\* has closed it.
Said(types, s) == \E k \in 1..Len(sent) : sent[k].id = s /\ sent[k].type \in types

Bounded(s) ==
  /\ Len(sent) < IF conn = 1 THEN MaxFrames ELSE MaxLater
  /\ s = "main" => Len(SelectSeq(sent, LAMBDA f : f.id = s)) < MaxMain

PeerSend(type, s, n) ==
  /\ pc = "idle" /\ Bounded(s)
  /\ stream[s] # "absent" /\ ~ Said({"FIN", "RST"}, s)
  /\ type = "ACK" <=> ~ Said({"ACK"}, s)
  /\ type # "DATA" => n = 0
  /\ type \in {"FIN", "RST"} => s # "main"
  /\ type = "PING" => s = "main"
  /\ LET k == Len(sent) + 1 IN
     /\ sent' = Append(sent, [type |-> type, id |-> s, len |-> n, seq |-> k])
     /\ wire' = wire \o [i \in 1..(HdrLen + n) |-> <<conn, k, i>>]
  /\ UNCHANGED <<input, parser, stream, bevs, rx_ring, handled, pc, conn, torn>>

\* libevent reads n bytes and calls recv_cb, which runs to its end.
Arrive(n) == /\ pc = "idle" /\ n <= Len(wire)
             /\ input' = input \o Take(wire, n)
             /\ wire' = Drop(wire, n)
             /\ pc' = "loop"
             /\ UNCHANGED <<sent, parser, stream, bevs, rx_ring, handled, conn, torn>>

-----------------------------------------------------------------------------
(* recv_cb                                                                   *)

\* The while loop ends; so does it with less than a header, whose memset of
\* tmux_hdr comes before the length is tested.
LoopEnds == /\ pc = "loop"
            /\ \/ input = <<>> /\ UNCHANGED tmux_hdr
               \/ /\ input # <<>> /\ cur_stream = "none" /\ Len(input) < HdrLen
                  /\ tmux_hdr' = NoHdr
            /\ pc' = "idle"
            /\ UNCHANGED <<sent, wire, input, cur_stream, stream_len, stream, bevs, rx_ring,
                           handled, conn, torn>>

Established(s) == stream[s] \in {"listed", "tunnel", "socks5"}
Listed(s) == stream[s] \in {"syn", "local", "fin"} \/ Established(s)

\* What a frame does to the listed streams once it is complete
\* (handle_tcp_mux_stream, handle_tcp_mux_ping): ACK, FIN and RST; ReqWorkConn
\* on the control stream opens a work stream; StartWorkConn finds the service
\* of a work stream, and a tunnel that cannot be started frees it without a
\* word to frps.
StreamsAfter(h) ==
  LET To(s, st) == [stream EXCEPT ![s] = st] IN
  CASE ~ Listed(h.id) -> {stream}
    [] stream[h.id] = "syn" /\ h.type = "ACK" -> {To(h.id, "listed")}
    [] (stream[h.id] = "syn" \/ Established(h.id)) /\ h.type = "FIN" -> {To(h.id, "fin")}
    [] stream[h.id] = "local" /\ h.type = "FIN" -> {To(h.id, "gone")}
    [] Listed(h.id) /\ h.type = "RST" -> {To(h.id, "gone")}
    [] stream[h.id] = "listed" /\ h.type = "DATA" /\ h.id = "main" ->
         {stream} \cup {To(s, "syn") : s \in {t \in Work : stream[t] = "absent"}}
    [] stream[h.id] = "listed" /\ h.type = "DATA" /\ h.id # "main" ->
         {stream} \cup {To(h.id, st) : st \in {"tunnel", "socks5", "gone"}}
    [] OTHER -> {stream}

\* The bufferevents: one for a tunnel, and handle_ss5 may make another one.
BevsAfter(h, st) ==
  CASE stream[h.id] = "listed" /\ st[h.id] = "tunnel" -> {[bevs EXCEPT ![h.id] = 1]}
    [] stream[h.id] = "socks5" /\ h.type = "DATA" -> {bevs, [bevs EXCEPT ![h.id] = @ + 1]}
    [] OTHER -> {bevs}

\* Who gets the payload of a complete frame, and how many bytes of the ring:
\* the handler or the local service of an ESTABLISHED stream all of it,
\* handle_ss5 what it takes; what any other stream has read it keeps.
Receiver(h) == CASE h.type # "DATA" \/ stream[h.id] \in {"listed", "tunnel"} -> h.id
                 [] h.type = "DATA" /\ stream[h.id] = "socks5" -> "socks5"
                 [] OTHER -> "kept"
Taken(h, ring) == CASE Receiver(h) = h.id -> {h.len}
                    [] Receiver(h) = "socks5" -> 0..Len(ring)
                    [] OTHER -> {0}

\* del_proxy_client_by_stream_id: the ring goes with its stream.
Without(rx, st) == [r \in DOMAIN rx |-> IF r \in Ids /\ st[r] = "gone" THEN <<>> ELSE rx[r]]

\* The frame whose header is h is complete, rx being the rings.
Dispatch(h, rx) ==
  /\ \E n \in Taken(h, rx[h.id]), st \in StreamsAfter(h) :
       /\ handled' = Append(handled, [seq |-> h.seq, to |-> Receiver(h), bytes |-> Take(rx[h.id], n)])
       /\ rx_ring' = Without([rx EXCEPT ![h.id] = Drop(@, n)], st)
       /\ stream' = st /\ bevs' \in BevsAfter(h, st)
  /\ cur_stream' = "none"
  /\ UNCHANGED pc

\* memset(cur, 0, sizeof(abandon_stream)). Mutant: it is missing.
NotWiped(rx) == rx
Wiped(rx) == [rx EXCEPT !["abandon"] = <<>>]

\* The payload of a frame for a stream that is not listed was read into
\* abandon_stream, which is wiped.
Abandon(h, rx) ==
  /\ handled' = Append(handled, [seq |-> h.seq, to |-> "abandon", bytes |-> <<>>])
  /\ rx_ring' = Wiped(rx)
  /\ cur_stream' = "none"
  /\ UNCHANGED <<stream, bevs, pc>>

\* len >= stream_len
Complete(bytes, n) == Len(bytes) >= n

\* stream_len -= len
Left(bytes, n) == n - Len(bytes)

\* n bytes of payload are expected for cur, and bytes are at hand. What does
\* not fit the ring fails assert(nr == stream_len) or assert(nr == len).
ReadPayload(cur, h, n, bytes) ==
  LET got == IF Len(bytes) < n THEN Len(bytes) ELSE n
      rx == [rx_ring EXCEPT ![cur] = @ \o Take(bytes, got)]
  IN
  \/ /\ Len(rx_ring[cur]) + got > RingSize
     /\ pc' = "read_assert"
     /\ UNCHANGED <<input, cur_stream, stream_len, stream, bevs, rx_ring, handled>>
  \/ /\ Len(rx_ring[cur]) + got <= RingSize /\ Complete(bytes, n)
     /\ input' = Drop(bytes, got) /\ stream_len' = n
     /\ IF cur = "abandon" THEN Abandon(h, rx) ELSE Dispatch(h, rx)
  \/ /\ Len(rx_ring[cur]) + got <= RingSize /\ ~ Complete(bytes, n)
     /\ input' = Drop(bytes, got) /\ stream_len' = Left(bytes, n)
     /\ rx_ring' = rx /\ cur_stream' = cur /\ pc' = "idle"
     /\ UNCHANGED <<handled, stream, bevs>>

\* Between two frames: a header. Bytes that are not a header fail
\* assert(validate_tcp_mux_protocol(&tmux_hdr) > 0), or are obeyed as one.
IsHeader(b) == b = [i \in 1..HdrLen |-> <<conn, b[1][2], i>>]

ReadHeader ==
  LET b == Take(input, HdrLen)
      rest == Drop(input, HdrLen)
      h == sent[b[1][2]]
      cur == IF Listed(h.id) THEN h.id ELSE "abandon"
  IN
  /\ pc = "loop" /\ cur_stream = "none" /\ Len(input) >= HdrLen
  /\ IF ~ IsHeader(b)
     THEN pc' = "misframed" /\ UNCHANGED <<input, parser, stream, bevs, rx_ring, handled>>
     ELSE /\ tmux_hdr' = h
          /\ \/ /\ h.type # "DATA"
                /\ input' = rest /\ UNCHANGED stream_len
                /\ Dispatch(h, rx_ring)
             \/ /\ h.type = "DATA" /\ h.len = 0 /\ cur = "abandon"
                /\ input' = rest /\ stream_len' = 0
                /\ handled' = Append(handled, [seq |-> h.seq, to |-> "abandon", bytes |-> <<>>])
                /\ UNCHANGED <<cur_stream, stream, bevs, rx_ring, pc>>
             \/ /\ h.type = "DATA" /\ ~ (h.len = 0 /\ cur = "abandon") /\ rest = <<>>
                /\ input' = rest /\ stream_len' = h.len
                /\ cur_stream' = cur /\ pc' = "idle"
                /\ UNCHANGED <<stream, bevs, rx_ring, handled>>
             \/ /\ h.type = "DATA" /\ ~ (h.len = 0 /\ cur = "abandon") /\ rest # <<>>
                /\ ReadPayload(cur, h, h.len, rest)
  /\ UNCHANGED <<sent, wire, conn, torn>>

\* What a frame begun still lacks. Mutant: the whole payload.
WholeFrame == tmux_hdr.len
Remaining == stream_len

\* A frame begun in an earlier callback. The stream cur_stream points to may
\* have been freed meanwhile: with its connection, or by a local close.
ReadRest ==
  /\ pc = "loop" /\ cur_stream # "none" /\ input # <<>>
  /\ IF cur_stream \in Work /\ ~ Listed(cur_stream)
     THEN pc' = "use_after_free" /\ UNCHANGED <<input, parser, stream, bevs, rx_ring, handled>>
     ELSE ReadPayload(cur_stream, tmux_hdr, Remaining, input) /\ UNCHANGED tmux_hdr
  /\ UNCHANGED <<sent, wire, conn, torn>>

-----------------------------------------------------------------------------
(* Between two callbacks                                                     *)

\* A local service or a target of socks5 closes, or cannot be reached
\* (xfrp_proxy_event_cb, tmux_stream_close). In ESTABLISHED the stream stays
\* listed, without this bufferevent; in LOCAL_CLOSE and REMOTE_CLOSE it is
\* freed. In SYN_SEND there is no bufferevent to close.
LocalClose(s) ==
  /\ pc = "idle" /\ bevs[s] > 0
  /\ \/ /\ Established(s)
        /\ stream' = [stream EXCEPT ![s] = "local"]
        /\ bevs' = [bevs EXCEPT ![s] = @ - 1]
        /\ UNCHANGED rx_ring
     \/ /\ stream[s] \in {"local", "fin"}
        /\ stream' = [stream EXCEPT ![s] = "gone"]
        /\ rx_ring' = Without(rx_ring, stream')
        /\ UNCHANGED bevs
  /\ UNCHANGED <<sent, wire, input, parser, handled, pc, conn, torn>>

\* A target of socks5 is connected: what is in rx_ring is sent to it, be it
\* part of a frame. (In LOCAL_CLOSE local_proxy_bev is NULL, and writing to it
\* ends the process: pc = "null bev" in Socks5.)
Connected(s) == /\ pc = "idle" /\ bevs[s] > 0
                /\ stream[s] \in {"socks5", "fin"} /\ rx_ring[s] # <<>>
                /\ rx_ring' = [rx_ring EXCEPT ![s] = <<>>]
                /\ UNCHANGED <<sent, wire, input, parser, stream, bevs, handled, pc, conn, torn>>

\* The connection is lost or its heartbeat times out: reset_session_id,
\* clear_main_control, run_control. The bufferevent and every stream are freed;
\* cur_stream, tmux_hdr and stream_len are not touched.
Reconnect == /\ pc = "idle" /\ conn < MaxConn
             /\ conn' = conn + 1
             /\ sent' = <<>> /\ wire' = <<>> /\ input' = <<>> /\ handled' = <<>>
             /\ stream' = NoStreams /\ bevs' = NoBevs
             /\ rx_ring' = [NoBytes EXCEPT !["abandon"] = rx_ring["abandon"]]
             /\ torn' = (torn \/ cur_stream # "none")
             /\ UNCHANGED <<parser, pc>>

Next == \/ \E type \in {"ACK", "DATA", "FIN", "RST", "PING"}, s \in Ids, n \in 0..MaxPayload :
             PeerSend(type, s, n)
        \/ \E n \in 1..(MaxFrames * (HdrLen + MaxPayload)) : Arrive(n)
        \/ LoopEnds \/ ReadHeader \/ ReadRest
        \/ \E s \in Work : LocalClose(s) \/ Connected(s)
        \/ Reconnect

Spec == Init /\ [][Next]_vars

-----------------------------------------------------------------------------
(* Properties                                                                *)

Payload(k) == [i \in 1..sent[k].len |-> <<conn, k, HdrLen + i>>]

HandledRight(k) ==
  LET h == handled[k]
      st == stream[sent[k].id]
  IN /\ h.seq = k
     /\ \/ h.to = sent[k].id /\ h.bytes = Payload(k)
        \/ h.to = "socks5" /\ st \in {"socks5", "local", "fin", "gone"}
        \/ h.to = "kept" /\ st \in {"local", "gone"}
        \/ h.to = "abandon" /\ st = "gone"

\* The process goes wrong in two cases only. The ring of a socks5 client or of
\* a half-closed stream, which keeps bytes, has no room for the frame; or
\* cur_stream was freed in the middle of a frame by the close of a second
\* bufferevent of its client, which only socks5 makes.
KnownEnd ==
  \/ pc = "read_assert" /\ stream[sent[Len(handled) + 1].id] \in {"socks5", "local"}
  \/ pc = "use_after_free" /\ stream[cur_stream] = "gone" /\ bevs[cur_stream] > 0

\* An empty DATA frame at the end of the input waits in cur_stream for the next
\* callback.
EmptyWaits == /\ Len(handled) = Len(sent) - 1 /\ cur_stream # "none"
              /\ sent[Len(sent)].type = "DATA" /\ sent[Len(sent)].len = 0

\* However the bytes are cut into callbacks, the k-th frame handled is the
\* k-th frame frps sent; the handler or the local service of an ESTABLISHED
\* stream gets exactly its payload, what is not handed over belongs to a
\* half-closed stream, which keeps it, or to one xfrpc has freed, and that of a
\* socks5 service is left to handle_ss5; every header is read where one begins,
\* and nothing is withheld once recv_cb has returned with every byte sent:
\* unless a connection was cut within a frame.
FramingExact ==
  ~ torn => /\ pc \in {"idle", "loop"} \/ KnownEnd
            /\ Len(handled) <= Len(sent)
            /\ \A k \in 1..Len(handled) : HandledRight(k)
            /\ (pc = "idle" /\ wire = <<>> /\ input = <<>>) =>
                 Len(handled) = Len(sent) \/ EmptyWaits

\* Of frame k, for the stream s, byte i of the payload has been read.
IsRead(s, k, i) ==
  /\ sent[k].id = s /\ sent[k].type = "DATA" /\ i \in 1..sent[k].len
  /\ \/ k <= Len(handled)
     \/ k = Len(handled) + 1 /\ cur_stream = s /\ i <= sent[k].len - stream_len

Before(b, c) == b[2] < c[2] \/ (b[2] = c[2] /\ b[3] < c[3])

\* The ring of s holds bytes read for s, in order, and every one from the first
\* of them on.
InOrder(s) ==
  LET ring == rx_ring[s] IN
  /\ \A i, j \in 1..Len(ring) : i < j => Before(ring[i], ring[j])
  /\ \A j \in 1..Len(ring) : \E k \in 1..Len(sent) : \E i \in 1..sent[k].len :
       ring[j] = <<conn, k, HdrLen + i>> /\ IsRead(s, k, i)
  /\ \A k \in 1..Len(sent) : \A i \in 1..sent[k].len :
       ring # <<>> /\ IsRead(s, k, i) /\ Before(ring[1], <<conn, k, HdrLen + i>>) =>
         \E j \in 1..Len(ring) : ring[j] = <<conn, k, HdrLen + i>>

\* The streams whose ring may hold bytes between two frames.
Keeps(s) == s \in Ids /\ stream[s] \in {"socks5", "local", "fin"}

\* Payload never strays and is never torn. Outside a frame begun, only the ring
\* of a socks5 client or of a closing stream holds bytes; a frame begun has left
\* its bytes in the ring of its own stream; and what a stream keeps, over any
\* number of frames, are bytes of its own, in order and without a gap up to the
\* last one read.
RingsExact ==
  ~ torn =>
    /\ \A s \in Ids : InOrder(s)
    /\ \A s \in Ids \cup {"abandon"} :
         rx_ring[s] # <<>> /\ ~ Keeps(s) =>
           /\ cur_stream = s /\ tmux_hdr.type = "DATA"
           /\ rx_ring[s] = Take(Payload(tmux_hdr.seq), tmux_hdr.len - stream_len)
           /\ s # "abandon" => tmux_hdr.id = s

-----------------------------------------------------------------------------
(* A claim of the repository that the code does not keep.                    *)

\* control.c:510 asserts that what is read between two frames is a header.
HeadersAligned == pc # "misframed"
=============================================================================
