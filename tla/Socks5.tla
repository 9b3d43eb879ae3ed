------------------------------- MODULE Socks5 -------------------------------
(* A work stream of a socks5 service (handle_ss5 of proxy_tcp.c, called by   *)
(* process_data): the user's bytes begin with the address of the target and  *)
(* go on with what the target is to get. xfrpc parses the address from       *)
(* rx_ring, connects, and forwards the rest. The module begins when          *)
(* StartWorkConn has been handled; the bytes of the target on their way back *)
(* are the subject of TmuxStream.                                            *)
(*                                                                           *)
(* A byte is its position in what the user sends. The first one tells the    *)
(* kind of the address; a byte of another position may be anything if it is  *)
(* taken for a kind or for the length of a name.                             *)
EXTENDS Integers, Sequences

CONSTANTS
  V4, V6,      \* length of an address with its port: 7 for IPv4, 19 for IPv6
  Port,        \* length of a port, 2
  Names,       \* the lengths of domain names (that fit the buffer of the parser)
  RingSize, MaxWindow,
  Word,        \* 2^32: windows and their increments are of type uint32_t
  MaxBytes     \* bound: bytes the user sends

ASSUME Socks5Assumption ==
  /\ {V4, V6, Port, RingSize, MaxWindow, Word, MaxBytes} \subseteq Nat /\ Names \subseteq Nat
  /\ 1 < V4 /\ V4 < V6 /\ V6 <= RingSize /\ 2 * RingSize <= MaxWindow /\ 2 * MaxWindow <= Word

VARIABLES
  ss,          \* client->state: "INIT" (SOCKS5_INIT) or "ESTABLISHED"
  stream,      \* the state of the stream, or "freed" with the client
  bevs,        \* the bufferevents made by socks5_proxy_connect
  local_proxy_bev,   \* index of one of them, 0 for NULL
  out,         \* per bufferevent: bytes written to it
  rx_ring, recv_window,
  toClient,    \* frames under way: the length of a DATA frame, 0 for FIN
  window,      \* frps: what it may still send
  credit,      \* WINDOW_UPDATEs under way, added up
  sent, rcvd,  \* bytes the user has sent, bytes that have arrived
  kind, name,  \* the user's request: kind of address, length of the name
  offset,      \* history: length of the address, once its target is being connected
  again,       \* history: bytes behind the address were parsed as another one
  pc           \* "run", or how the process went wrong

user == <<sent, kind, name>>
target == <<bevs, local_proxy_bev, out>>
vars == <<ss, stream, target, rx_ring, recv_window, toClient, window, credit, user, rcvd,
          offset, again, pc>>

Kinds == {"v4", "v6", "name", "bad"}

Take(s, n) == SubSeq(s, 1, n)
Drop(s, n) == SubSeq(s, n + 1, Len(s))
Positions(a, b) == [k \in 1..(b - a) |-> a + k]

\* StartWorkConn has used one unit of the window.
Init == /\ ss = "INIT" /\ stream = "ESTABLISHED"
        /\ bevs = <<>> /\ local_proxy_bev = 0 /\ out = <<>>
        /\ rx_ring = <<>> /\ recv_window = MaxWindow - 1
        /\ toClient = <<>> /\ window = MaxWindow - 1 /\ credit = 0
        /\ sent = 0 /\ rcvd = 0
        /\ kind \in Kinds /\ name \in Names
        /\ offset = 0 /\ again = FALSE /\ pc = "run"

-----------------------------------------------------------------------------
(* The user and frps (external)                                              *)

Sending == pc = "run" /\ ~ (\E k \in 1..Len(toClient) : toClient[k] = 0) /\ stream # "REMOTE_CLOSE"

UserSend(n) == /\ Sending /\ stream # "freed"
               /\ n <= window /\ sent + n <= MaxBytes
               /\ toClient' = Append(toClient, n)
               /\ window' = window - n /\ sent' = sent + n
               /\ UNCHANGED <<ss, stream, target, rx_ring, recv_window, credit, kind, name, rcvd,
                              offset, again, pc>>

UserFin == /\ Sending /\ stream # "freed"
           /\ toClient' = Append(toClient, 0)
           /\ UNCHANGED <<ss, stream, target, rx_ring, recv_window, window, credit, user, rcvd,
                          offset, again, pc>>

PeerCredit == /\ pc = "run" /\ credit > 0
              /\ window' = (window + credit) % Word /\ credit' = 0
              /\ UNCHANGED <<ss, stream, target, rx_ring, recv_window, toClient, user, rcvd,
                             offset, again, pc>>

-----------------------------------------------------------------------------
(* DATA: tmux_stream_read, then process_data                                 *)

Data(n) == pc = "run" /\ toClient # <<>> /\ Head(toClient) = n /\ n > 0

\* The ring with the n bytes of the frame.
Ring(n) == rx_ring \o Positions(rcvd, rcvd + n)

Fits(n) == Len(rx_ring) + n <= RingSize

Arrived(n) == toClient' = Tail(toClient) /\ rcvd' = rcvd + n

\* assert(nr == stream_len) of recv_cb
DataOverflow(n) == /\ Data(n) /\ stream # "freed" /\ ~ Fits(n)
                   /\ pc' = "read assert"
                   /\ UNCHANGED <<ss, stream, target, rx_ring, recv_window, toClient, window, credit,
                                  user, rcvd, offset, again>>

\* A stream that is not ESTABLISHED keeps the bytes; a freed one has none.
DataKept(n) == /\ Data(n) /\ stream # "ESTABLISHED"
               /\ stream # "freed" => Fits(n)
               /\ Arrived(n)
               /\ rx_ring' = IF stream = "freed" THEN rx_ring ELSE Ring(n)
               /\ UNCHANGED <<ss, stream, target, recv_window, window, credit, user, offset, again, pc>>

\* recv_window -= length and send_window_update with what handle_ss5 returns.
\* Mutant: the whole frame counts as taken.
CreditAll(n, nret) ==
  LET delta == (MaxWindow - n) - (recv_window - n) IN
  /\ recv_window' = MaxWindow /\ credit' = credit + delta

Credit(n, nret) ==
  LET rw == recv_window - n
      delta == (MaxWindow - nret - rw) % Word
  IN IF delta < MaxWindow \div 2 THEN recv_window' = rw /\ UNCHANGED credit
     ELSE /\ recv_window' = (rw + delta) % Word
          /\ credit' = (credit + delta) % Word

Handled(n) == /\ Data(n) /\ stream = "ESTABLISHED" /\ Fits(n) /\ n <= recv_window
              /\ Arrived(n)

\* SOCKS5_ESTABLISHED: forward n bytes of the ring.
Forward(n) ==
  /\ ss = "ESTABLISHED" /\ Handled(n)
  /\ IF local_proxy_bev = 0
     THEN pc' = "bev assert" /\ UNCHANGED <<out, rx_ring, recv_window, credit>>
     ELSE /\ out' = [out EXCEPT ![local_proxy_bev] = @ \o Take(Ring(n), n)]
          /\ rx_ring' = Drop(Ring(n), n)
          /\ Credit(n, n)
          /\ UNCHANGED pc
  /\ UNCHANGED <<ss, stream, bevs, local_proxy_bev, window, user, offset, again>>

\* SOCKS5_INIT and less than the shortest request: wait for more.
Wait(n) == /\ ss = "INIT" /\ n < V4 /\ Handled(n)
           /\ rx_ring' = Ring(n)
           /\ Credit(n, 0)
           /\ UNCHANGED <<ss, stream, target, window, user, offset, again, pc>>

\* parse_socks5_addr on a frame of n bytes: does it find an address of kind k,
\* and how many bytes has it popped. The frame is measured, not the ring, and
\* a name is measured without its port.
Parses(k, l, n) == \/ k = "v4"
                   \/ k = "v6" /\ n >= V6
                   \/ k = "name" /\ n >= 2 + l

Popped(k, l, n) == IF Parses(k, l, n)
                   THEN CASE k = "v4" -> V4 [] k = "v6" -> V6 [] k = "name" -> 2 + l + Port
                   ELSE IF k = "name" THEN 2 ELSE 1

\* SOCKS5_INIT and a frame long enough: parse an address from the head of the
\* ring, whatever is there, and connect. The state stays SOCKS5_INIT until
\* the connection is made. Mutant of Starts: the address stays in the ring.
StartsUnpopped(n, p) == rx_ring' = Ring(n) /\ Credit(n, p)
Starts(n, p) == rx_ring' = Drop(Ring(n), p) /\ Credit(n, p)

Connects(n, p) == /\ Starts(n, p)
                  /\ bevs' = Append(bevs, "connecting") /\ out' = Append(out, <<>>)
                  /\ local_proxy_bev' = Len(bevs) + 1

Parse(n, k, l, connected) ==
  LET first == Head(Ring(n)) = 1
      p == Popped(k, l, n)
  IN
  /\ ss = "INIT" /\ n >= V4 /\ Handled(n)
  /\ first => k = kind /\ l = name
  /\ again' = (again \/ ~ first)
  /\ \/ /\ p > Len(Ring(n))
        /\ pc' = "pop assert"
        /\ UNCHANGED <<target, rx_ring, recv_window, credit, offset>>
     \/ /\ p <= Len(Ring(n)) /\ Parses(k, l, n) /\ connected
        /\ Connects(n, p)
        /\ offset' = IF first THEN p ELSE offset
        /\ UNCHANGED pc
     \/ /\ p <= Len(Ring(n)) /\ Parses(k, l, n) /\ ~ connected
        /\ rx_ring' = Drop(Ring(n), p) /\ Credit(n, 0)
        /\ local_proxy_bev' = 0
        /\ UNCHANGED <<bevs, out, offset, pc>>
     \/ /\ p <= Len(Ring(n)) /\ ~ Parses(k, l, n)
        /\ rx_ring' = Drop(Ring(n), p) /\ Credit(n, 0)
        /\ UNCHANGED <<target, offset, pc>>
  /\ UNCHANGED <<ss, stream, window, user>>

\* FIN from frps: process_flags.
HandleFin == /\ pc = "run" /\ toClient # <<>> /\ Head(toClient) = 0
             /\ toClient' = Tail(toClient)
             /\ stream' = IF stream = "ESTABLISHED" THEN "REMOTE_CLOSE" ELSE "freed"
             /\ bevs' = IF stream = "LOCAL_CLOSE" /\ local_proxy_bev # 0
                        THEN [bevs EXCEPT ![local_proxy_bev] = "freed"] ELSE bevs
             /\ UNCHANGED <<ss, local_proxy_bev, out, rx_ring, recv_window, window, credit, user,
                            rcvd, offset, again, pc>>

-----------------------------------------------------------------------------
(* xfrp_proxy_event_cb of the i-th bufferevent, whose client may be gone     *)

Live(i) == pc = "run" /\ bevs[i] \in {"connecting", "open"}

BevOrphan(i) == /\ Live(i) /\ stream = "freed"
                /\ pc' = "use after free"
                /\ UNCHANGED <<ss, stream, target, rx_ring, recv_window, toClient, window, credit,
                               user, rcvd, offset, again>>

\* Connected: the ring goes to the client's bufferevent, which need not be
\* this one. Mutant of Flush: the ring is not sent.
NoFlush == UNCHANGED <<out, rx_ring>>
Flush == /\ out' = [out EXCEPT ![local_proxy_bev] = @ \o rx_ring]
         /\ rx_ring' = <<>>

BevConnected(i) ==
  /\ Live(i) /\ bevs[i] = "connecting" /\ stream # "freed"
  /\ bevs' = [bevs EXCEPT ![i] = "open"]
  /\ \/ rx_ring = <<>> /\ UNCHANGED <<out, rx_ring, pc>>
     \/ rx_ring # <<>> /\ local_proxy_bev # 0 /\ Flush /\ UNCHANGED pc
     \/ rx_ring # <<>> /\ local_proxy_bev = 0 /\ pc' = "null bev" /\ UNCHANGED <<out, rx_ring>>
  /\ ss' = "ESTABLISHED"
  /\ UNCHANGED <<stream, local_proxy_bev, recv_window, toClient, window, credit, user, rcvd,
                 offset, again>>

\* Closed or failed: tmux_stream_close. The first close frees this bufferevent
\* and clears the client's; a second one frees the client and the client's.
BevClosed(i) ==
  /\ Live(i) /\ stream # "freed"
  /\ \/ /\ stream = "ESTABLISHED" /\ stream' = "LOCAL_CLOSE"
        /\ bevs' = [bevs EXCEPT ![i] = "freed"]
        /\ local_proxy_bev' = 0
     \/ /\ stream # "ESTABLISHED" /\ stream' = "freed"
        /\ bevs' = IF local_proxy_bev = 0 THEN bevs
                   ELSE [bevs EXCEPT ![local_proxy_bev] = "freed"]
        /\ UNCHANGED local_proxy_bev
  /\ UNCHANGED <<ss, out, rx_ring, recv_window, toClient, window, credit, user, rcvd,
                 offset, again, pc>>

-----------------------------------------------------------------------------

HandleFrame == \/ \E n \in 1..MaxBytes :
                    \/ DataOverflow(n) \/ DataKept(n) \/ Forward(n) \/ Wait(n)
                    \/ \E k \in Kinds, l \in Names, c \in BOOLEAN : Parse(n, k, l, c)
               \/ HandleFin

BevEvent == \E i \in 1..Len(bevs) : BevOrphan(i) \/ BevConnected(i) \/ BevClosed(i)

Resolved == \E i \in 1..Len(bevs) : bevs[i] = "connecting" /\ (BevConnected(i) \/ BevClosed(i))

Next == \/ \E n \in 1..MaxBytes : UserSend(n)
        \/ UserFin \/ PeerCredit
        \/ HandleFrame \/ BevEvent

Spec == Init /\ [][Next]_vars

\* The event loop handles what has arrived, and a connection attempt ends.
FairSpec == Spec /\ WF_vars(HandleFrame) /\ WF_vars(Resolved)

-----------------------------------------------------------------------------
(* Properties                                                                *)

\* No byte reaches two targets, or one of them twice, or before an earlier one.
InOrder ==
  \A i, j \in 1..Len(out) : \A a \in 1..Len(out[i]), b \in 1..Len(out[j]) :
    /\ (i = j /\ a < b) => out[i][a] < out[j][b]
    /\ i # j => out[i][a] # out[j][b]

\* Whatever was parsed, every target gets its bytes once, in the order of the
\* user. As long as the user's bytes are parsed once, as what they are,
\* handle_ss5 and the connected event forward exactly what follows the address
\* to one target: nothing overtakes the bytes that waited in rx_ring for the
\* connection, and no assertion but those on a cut request and a full ring fails.
ForwardsExactly ==
  /\ InOrder
  /\ (~ again /\ offset > 0) =>
       /\ pc \in {"run", "read assert"}
       /\ Len(out) <= 1
       /\ (stream = "ESTABLISHED" /\ Len(out) = 1) =>
            out[1] \o rx_ring = Positions(offset, rcvd)
       /\ (ss = "ESTABLISHED" /\ stream = "ESTABLISHED") => rx_ring = <<>>

\* The receive window of the stream and what frps believes of it agree, whether
\* handle_ss5 reports bytes as taken or leaves them in the ring.
CreditAgrees ==
  (stream = "ESTABLISHED" /\ pc = "run") =>
    recv_window = (window + credit + (sent - rcvd)) % Word

\* Bytes that came with or right behind the request do not wait for ever: the
\* connection is made and they are forwarded, or the stream ends.
EarlyBytesLeave ==
  (offset > 0 /\ ~ again /\ local_proxy_bev # 0 /\ rx_ring # <<>>) ~>
    (rx_ring = <<>> \/ again \/ stream # "ESTABLISHED" \/ pc # "run")

-----------------------------------------------------------------------------
(* A claim of the repository that the code does not keep.                    *)

\* client.c:91, on the connected event: "if rb is not empty, send data". What
\* the user sent behind the address while the target is being connected is
\* kept for it or has been sent to it.
EarlyDataForwarded ==
  (offset > 0 /\ local_proxy_bev = 1 /\ stream = "ESTABLISHED" /\ pc = "run") =>
    \A p \in (offset + 1)..rcvd :
      \/ \E k \in 1..Len(rx_ring) : rx_ring[k] = p
      \/ \E k \in 1..Len(out[1]) : out[1][k] = p
=============================================================================
