---------------------------- MODULE PlainControl ----------------------------
(* xfrpc with tcp_mux off (control.c, client.c, proxy_tcp.c): one control     *)
(* connection and one connection of its own for every proxy client. Nothing  *)
(* marks the end of a message: recv_cb hands on whatever has arrived, in any *)
(* number of messages, and handle_frps_msg looks at the first. Reads fall on *)
(* the boundaries of messages. The heartbeat and the ciphers are in Control; *)
(* here a connection that is given up for silence is one that is lost.       *)
(*                                                                           *)
(* On a work connection a positive number is the position of a byte in what  *)
(* the user sends; StartWorkConn and the end are negative.                   *)
EXTENDS Integers, Sequences, FiniteSets

CONSTANTS
  NumServices,  \* services start_proxy_services registers
  MaxFaults,    \* bound: failures of the network or of frps
  MaxAsks,      \* bound: work connections asked for beyond the one of each login
  MaxUsers,     \* bound: users in all
  MaxDown       \* bound: bytes a user sends

ASSUME PlainAssumption == {NumServices, MaxFaults, MaxAsks, MaxUsers, MaxDown} \subseteq Nat

\* Proxy clients in the order of their creation: every connection but the first
\* may log in.
MaxClients == MaxFaults + 1 + MaxAsks
Clients == 1..MaxClients

VARIABLES
  fate,         \* "running", or how the process ended
  conn,         \* connect_bev: "connecting", "up"
  stream_state, \* main_ctl->stream.state
  is_login, client_connected,
  decoder,      \* is_decoder_inited
  made,         \* history: proxy clients created so far
  listed,       \* the proxy clients in all_pc; the others are freed
  ctl,          \* of each client, ctl_bev and the callbacks it has
  local,        \* of each client, local_proxy_bev
  data_tail,    \* of each client, the bytes data_tail points to
  out,          \* of each client, bytes written to local_proxy_bev
  wire,         \* of each client, what frps sent on its connection, unread
  toServer, toClient,   \* the control connection
  srv,          \* frps: what it knows of this control connection
  work,         \* frps: of each client's connection, its use and the bytes sent
  history       \* what has gone wrong (see the properties)

control == <<conn, stream_state, is_login, client_connected, decoder>>
clients == <<made, listed, ctl, local, data_tail, out>>
channels == <<wire, toServer, toClient>>
vars == <<fate, control, clients, channels, srv, work, history>>

Running == fate = "running"

NewPeer == [logged |-> FALSE, dead |-> FALSE, registered |-> 0, reqs |-> 0]

\* faults, asks, users: how many are left. since: the first client of this control connection.
\* dropped: messages ignored on it. stale: a client of an earlier one came up.
\* early: per client, bytes that came with StartWorkConn. left: users who left
\* a tunnel.
NewHistory == [faults |-> MaxFaults, asks |-> MaxAsks, users |-> MaxUsers, since |-> 1, dropped |-> 0,
               stale |-> FALSE, early |-> [c \in Clients |-> 0], left |-> {}]

\* calloc leaves main_ctl->stream in state INIT: init_main_control and
\* clear_main_control initialise it with tcp_mux only.
Init == /\ fate = "running" /\ conn = "connecting"
        /\ stream_state = "INIT"
        /\ is_login = FALSE /\ client_connected = FALSE /\ decoder = FALSE
        /\ made = 0 /\ listed = {}
        /\ ctl = [c \in Clients |-> "none"] /\ local = [c \in Clients |-> "none"]
        /\ data_tail = [c \in Clients |-> <<>>] /\ out = [c \in Clients |-> <<>>]
        /\ wire = [c \in Clients |-> <<>>] /\ toServer = <<>> /\ toClient = <<>>
        /\ srv = NewPeer /\ work = [c \in Clients |-> [use |-> "none", sent |-> 0]]
        /\ history = NewHistory

Iota(n) == [k \in 1..n |-> k]

StartWorkConn == -1
EOF == -2

-----------------------------------------------------------------------------
(* The control connection                                                    *)

\* send_window_update on connecting: tcp_mux_send_win_update does not look at
\* tcp_mux, so a stream in state INIT opens the connection with a SYN frame.
OpeningFrame == IF stream_state = "INIT" THEN <<"mux_frame">> ELSE <<>>

\* connect_event_cb, connected.
Connected == /\ Running /\ conn = "connecting"
             /\ conn' = "up" /\ stream_state' = "SYN_SEND"
             /\ toServer' = OpeningFrame \o <<"Login">>
             /\ UNCHANGED <<fate, is_login, client_connected, decoder, clients, wire,
                            toClient, srv, work, history>>

\* clear_main_control leaves main_ctl->stream as it is. Mutant: it is
\* initialised as with tcp_mux.
StreamReset == stream_state' = "INIT"
StreamKept == UNCHANGED stream_state

\* clear_all_proxy_client: free_proxy_client frees local_proxy_bev, not ctl_bev,
\* whose callbacks keep the freed client as their argument.
clear_all_proxy_client == /\ listed' = {}
                          /\ local' = [c \in Clients |-> "none"]
                          /\ UNCHANGED <<made, ctl, data_tail, out>>

clear_main_control == /\ clear_all_proxy_client
                      /\ decoder' = FALSE /\ client_connected' = FALSE /\ is_login' = FALSE
                      /\ StreamKept

\* connect_event_cb on EOF or error, hb_sender_cb after a silence: clear, and
\* connect again or, connect_server failing at once, exit.
ControlLost ==
  /\ Running
  /\ srv.dead \/ history.faults > 0
  /\ clear_main_control
  /\ fate' \in {"running"} \cup (IF history.faults > 0 THEN {"exited"} ELSE {})
  /\ conn' = "connecting"
  /\ toServer' = <<>> /\ toClient' = <<>> /\ srv' = NewPeer
  /\ history' = [history EXCEPT !.faults = IF srv.dead THEN @ ELSE @ - 1,
                                !.since = made + 1, !.dropped = 0, !.stale = FALSE]
  /\ UNCHANGED <<wire, work>>

-----------------------------------------------------------------------------
(* Messages on the control connection                                        *)

start_proxy_services == toServer' = toServer \o [k \in 1..NumServices |-> "NewProxy"]

\* new_client_connect: a client whose connection to frps is begun, or which
\* stays listed without one because connect_server fails at once.
new_client_connect ==
  LET c == made + 1 IN
  /\ made' = c /\ listed' = listed \cup {c}
  /\ \/ ctl' = [ctl EXCEPT ![c] = "connecting"]
     \/ history.faults > 0 /\ UNCHANGED ctl
  /\ UNCHANGED <<local, data_tail, out>>

\* recv_cb takes n messages; all behind the first k are ignored.
Take(n, k) == /\ Running /\ conn = "up"
              /\ n \in 1..Len(toClient)
              /\ toClient' = SubSeq(toClient, n + 1, Len(toClient))
              /\ history' = [history EXCEPT !.dropped = @ + n - k]

\* handle_login_response with nothing behind LoginResp; a refusal changes
\* nothing.
LoginAlone == /\ Take(1, 1) /\ ~ is_login
              /\ is_login' = (Head(toClient) = "LoginResp")
              /\ UNCHANGED <<fate, conn, stream_state, client_connected, decoder, clients,
                             wire, toServer, srv, work>>

\* set_client_status(1) in handle_login_response. Mutant: it is forgotten.
StatusForgotten == UNCHANGED client_connected
StatusSet == client_connected' = TRUE

\* handle_login_response with n - 1 messages behind LoginResp: the IV, then a
\* command that must be ReqWorkConn. With the IV alone handle_enc_msg returns 0
\* and assert(nret > 0) fails.
LoginWithIV == /\ Take(2, 2) /\ ~ is_login
               /\ fate' = "nret_assert"
               /\ is_login' = TRUE /\ decoder' = TRUE
               /\ UNCHANGED <<conn, stream_state, client_connected, clients, wire,
                              toServer, srv, work>>

LoginWithCommand(n) == /\ n > 2 /\ Take(n, 3) /\ ~ is_login
                       /\ is_login' = TRUE /\ decoder' = TRUE
                       /\ start_proxy_services /\ StatusSet
                       /\ IF toClient[3] = "ReqWorkConn"
                          THEN new_client_connect /\ UNCHANGED fate
                          ELSE fate' = "command_assert" /\ UNCHANGED clients
                       /\ UNCHANGED <<conn, stream_state, wire, srv, work>>

\* handle_enc_msg: the position of the command behind an IV that is still due.
CommandAt == IF decoder THEN 1 ELSE 2

\* handle_control_work with nothing but the IV.
RecvIV == /\ Take(1, 1) /\ is_login /\ ~ decoder
          /\ decoder' = TRUE
          /\ UNCHANGED <<fate, conn, stream_state, is_login, client_connected, clients,
                         wire, toServer, srv, work>>

\* handle_control_work on the first command of n messages: TypeReqWorkConn, or
\* TypeNewProxyResp, which changes nothing (nor does TypePong, here).
RecvCommand(n) ==
  /\ n >= CommandAt /\ Take(n, CommandAt) /\ is_login
  /\ decoder' = TRUE
  /\ IF toClient[CommandAt] = "ReqWorkConn"
     THEN /\ IF client_connected THEN UNCHANGED toServer ELSE start_proxy_services
          /\ client_connected' = TRUE
          /\ new_client_connect
     ELSE UNCHANGED <<toServer, client_connected, clients>>
  /\ UNCHANGED <<fate, conn, stream_state, is_login, wire, srv, work>>

-----------------------------------------------------------------------------
(* A work connection                                                         *)

\* A callback that reads or writes a client that is freed: undefined, and the
\* end of the behaviour.
UsesFreed(c) == /\ c \notin listed
                /\ fate' = "use_after_free"
                /\ UNCHANGED <<control, clients, channels, srv, work, history>>

\* client_start_event_cb, connected: NewWorkConn is sent. It does not look into
\* its client, and marks the client status of whatever connection is current.
WorkConnected(c) ==
  /\ Running /\ ctl[c] = "connecting"
  /\ ctl' = [ctl EXCEPT ![c] = "waiting"]
  /\ work' = [work EXCEPT ![c].use = "NewWorkConn"]
  /\ client_connected' = TRUE
  /\ history' = [history EXCEPT !.stale = @ \/ c < history.since]
  /\ UNCHANGED <<fate, conn, stream_state, is_login, decoder, made, listed, local,
                 data_tail, out, channels, srv>>

Ended(c) == wire[c] # <<>> /\ Head(wire[c]) = EOF

\* client_start_event_cb, EOF or error before the tunnel: bufferevent and client
\* are freed.
WorkFails(c) ==
  /\ Running
  /\ \/ ctl[c] = "connecting" /\ history.faults > 0
     \/ ctl[c] = "waiting" /\ Ended(c)
  /\ \/ UsesFreed(c)
     \/ /\ c \in listed
        /\ listed' = listed \ {c} /\ ctl' = [ctl EXCEPT ![c] = "freed"]
        /\ UNCHANGED <<fate, control, made, local, data_tail, out, channels, srv, work, history>>

\* The bytes that have arrived on the connection of c are read: n items.
Read(c, n) == /\ Running
              /\ n \in 1..Len(wire[c]) /\ \A k \in 1..n : wire[c][k] # EOF
              /\ wire' = [wire EXCEPT ![c] = SubSeq(@, n + 1, Len(@))]
              /\ UNCHANGED <<control, made, toServer, toClient, srv, work>>

\* recv_cb before a login: handle_login_response drops what is no LoginResp.
RecvBeforeLogin(c, n) == /\ ctl[c] = "waiting" /\ Read(c, n)
                         /\ ~ is_login
                         /\ UNCHANGED <<fate, listed, ctl, local, data_tail, out, history>>

\* TypeStartWorkConn: what came with it becomes data_tail, a pointer into the
\* buffer recv_cb is about to free, and start_xfrp_tunnel connects the local
\* service, unless the service is of type socks5, which has none yet. If
\* connect_server fails at once the client is freed, and set_client_work_start
\* uses it.
RecvStart(c, n) ==
  /\ ctl[c] = "waiting" /\ wire[c] # <<>> /\ Head(wire[c]) = StartWorkConn /\ is_login
  /\ \/ Running /\ UsesFreed(c)
     \/ /\ c \in listed /\ Read(c, n)
        /\ data_tail' = [data_tail EXCEPT ![c] = Iota(n - 1)]
        /\ history' = [history EXCEPT !.early[c] = n - 1]
        /\ ctl' = [ctl EXCEPT ![c] = "tunnel"]
        /\ \E to \in {"connecting", "none"} : local' = [local EXCEPT ![c] = to]
        /\ UNCHANGED <<fate, listed, out>>
     \/ /\ c \in listed /\ history.faults > 0 /\ Read(c, n)
        /\ fate' = "use_after_free"
        /\ listed' = listed \ {c}
        /\ history' = [history EXCEPT !.faults = @ - 1]
        /\ UNCHANGED <<ctl, local, data_tail, out>>

\* recv_cb on user data whose StartWorkConn was dropped: here, no known command.
RecvUnknown(c, n) == /\ ctl[c] = "waiting" /\ Read(c, n)
                     /\ is_login /\ Head(wire[c]) # StartWorkConn
                     /\ UNCHANGED <<fate, listed, ctl, local, data_tail, out, history>>

\* evbuffer_add_buffer drains what it adds. Mutant: the last byte is added twice.
AddTwice(c, b) == out' = [out EXCEPT ![c] = @ \o b \o SubSeq(b, Len(b), Len(b))]
AddBuffer(c, b) == out' = [out EXCEPT ![c] = @ \o b]

\* tcp_proxy_s2c_cb; a socks5 client has no partner, which it asserts.
tcp_proxy_s2c_cb(c, n) ==
  /\ ctl[c] = "tunnel" /\ wire[c] # <<>> /\ Head(wire[c]) # EOF
  /\ \/ Running /\ UsesFreed(c)
     \/ /\ c \in listed /\ local[c] = "none" /\ Running
        /\ fate' = "partner_assert"
        /\ UNCHANGED <<control, clients, channels, srv, work, history>>
     \/ /\ c \in listed /\ local[c] # "none" /\ Read(c, n)
        /\ AddBuffer(c, SubSeq(wire[c], 1, n))
        /\ UNCHANGED <<fate, listed, ctl, local, data_tail, history>>

\* xfrp_worker_event_cb: frps ends the tunnel; ctl_bev is freed and client and
\* local service are not told.
WorkEnds(c) == /\ Running /\ ctl[c] = "tunnel" /\ Ended(c)
               /\ ctl' = [ctl EXCEPT ![c] = "freed"]
               /\ UNCHANGED <<fate, control, made, listed, local, data_tail, out, channels, srv,
                              work, history>>

-----------------------------------------------------------------------------
(* The local service                                                         *)

\* What send_client_data_tail finds where the tail was: the bytes, if nothing
\* has reused the memory, or others (0).
TailBytes(c) == {data_tail[c], [k \in 1..Len(data_tail[c]) |-> 0]}

\* xfrp_proxy_event_cb, connected: send_client_data_tail writes the tail, behind
\* whatever tcp_proxy_s2c_cb has added meanwhile.
LocalConnected(c) ==
  /\ Running /\ local[c] = "connecting"
  /\ local' = [local EXCEPT ![c] = "open"]
  /\ \E b \in TailBytes(c) : out' = [out EXCEPT ![c] = @ \o b]
  /\ data_tail' = [data_tail EXCEPT ![c] = <<>>]
  /\ UNCHANGED <<fate, control, made, listed, ctl, channels, srv, work, history>>

\* tcp_proxy_c2s_cb moves the local service's bytes to ctl_bev, which is not
\* reset when it is freed. Otherwise they leave, and nothing here changes.
LocalData(c) == /\ Running /\ local[c] = "open" /\ ctl[c] = "freed"
                /\ fate' = "use_after_free"
                /\ UNCHANGED <<control, clients, channels, srv, work, history>>

\* xfrp_proxy_event_cb, EOF or error: tmux_stream_close finds the client's stream
\* in state INIT and returns 0, so nothing is freed and frps is not told.
\* Mutant: the client is freed, as it is with tcp_mux.
LocalEndFrees(c) == listed' = listed \ {c}
LocalEndKeeps(c) == UNCHANGED listed

LocalEnds(c) == /\ Running /\ local[c] \in {"connecting", "open"}
                /\ local' = [local EXCEPT ![c] = "ended"]
                /\ LocalEndKeeps(c)
                /\ UNCHANGED <<fate, control, made, ctl, data_tail, out, channels, srv, work,
                               history>>

-----------------------------------------------------------------------------
(* frps and its users (external)                                             *)

Serves == Running /\ UNCHANGED <<fate, control, clients>>

\* A connection that does not begin with Login is closed; a login is accepted,
\* with a first ReqWorkConn behind the IV, or refused and the connection closed.
SrvLogin ==
  /\ Serves /\ ~ srv.dead /\ ~ srv.logged /\ toServer # <<>>
  /\ toServer' = Tail(toServer)
  /\ \/ /\ Head(toServer) = "Login"
        /\ srv' = [srv EXCEPT !.logged = TRUE, !.reqs = 1]
        /\ toClient' = <<"LoginResp", "IV", "ReqWorkConn">>
        /\ UNCHANGED history
     \/ /\ Head(toServer) = "Login" /\ history.faults > 0
        /\ srv' = [srv EXCEPT !.dead = TRUE]
        /\ toClient' = <<"refusal">>
        /\ history' = [history EXCEPT !.faults = @ - 1]
     \/ /\ Head(toServer) # "Login"
        /\ srv' = [srv EXCEPT !.dead = TRUE]
        /\ UNCHANGED <<toClient, history>>
  /\ UNCHANGED <<wire, work>>

SrvNewProxy == /\ Serves /\ srv.logged /\ toServer # <<>>
               /\ toServer' = Tail(toServer)
               /\ srv' = [srv EXCEPT !.registered = @ + 1]
               /\ toClient' = Append(toClient, "NewProxyResp")
               /\ UNCHANGED <<wire, work, history>>

SrvAsks == /\ Serves /\ srv.logged /\ history.asks > 0
           /\ srv' = [srv EXCEPT !.reqs = @ + 1]
           /\ toClient' = Append(toClient, "ReqWorkConn")
           /\ history' = [history EXCEPT !.asks = @ - 1]
           /\ UNCHANGED <<wire, toServer, work>>

\* A NewWorkConn is put into the pool, or its connection is closed when frps
\* knows of no login. The pool is known by the run_id, which outlives a control
\* connection: a connection of an earlier one may still be used.
SrvNewWorkConn(c) ==
  /\ Serves /\ work[c].use = "NewWorkConn"
  /\ IF srv.logged
     THEN work' = [work EXCEPT ![c].use = "pool"] /\ UNCHANGED wire
     ELSE /\ work' = [work EXCEPT ![c].use = "closed"]
          /\ wire' = [wire EXCEPT ![c] = Append(@, EOF)]
  /\ UNCHANGED <<toServer, toClient, srv, history>>

\* A user connects, to a service that is registered; sends; leaves.
UserConnects(c) == /\ Serves /\ work[c].use = "pool" /\ srv.registered > 0
                   /\ history.users > 0
                   /\ history' = [history EXCEPT !.users = @ - 1]
                   /\ work' = [work EXCEPT ![c].use = "user"]
                   /\ wire' = [wire EXCEPT ![c] = Append(@, StartWorkConn)]
                   /\ UNCHANGED <<toServer, toClient, srv>>

UserSends(c) == /\ Serves /\ work[c].use = "user" /\ work[c].sent < MaxDown
                /\ work' = [work EXCEPT ![c].sent = @ + 1]
                /\ wire' = [wire EXCEPT ![c] = Append(@, work[c].sent + 1)]
                /\ UNCHANGED <<toServer, toClient, srv, history>>

UserLeaves(c) == /\ Serves /\ work[c].use = "user"
                 /\ work' = [work EXCEPT ![c].use = "closed"]
                 /\ wire' = [wire EXCEPT ![c] = Append(@, EOF)]
                 /\ history' = [history EXCEPT !.left = @ \cup {c}]
                 /\ UNCHANGED <<toServer, toClient, srv>>

-----------------------------------------------------------------------------

RecvControl == \/ LoginAlone \/ LoginWithIV \/ RecvIV
               \/ \E n \in 1..Len(toClient) : LoginWithCommand(n) \/ RecvCommand(n)

WorkEvent(c) == \/ WorkConnected(c) \/ WorkFails(c) \/ WorkEnds(c)
                \/ \E n \in 1..Len(wire[c]) :
                     \/ RecvBeforeLogin(c, n) \/ RecvStart(c, n) \/ RecvUnknown(c, n)
                     \/ tcp_proxy_s2c_cb(c, n)

Local(c) == LocalConnected(c) \/ LocalData(c) \/ LocalEnds(c)

User(c) == UserConnects(c) \/ UserSends(c) \/ UserLeaves(c)

Server == SrvLogin \/ SrvNewProxy

Next == \/ Connected \/ ControlLost \/ RecvControl \/ Server \/ SrvAsks
        \/ \E c \in Clients : WorkEvent(c) \/ Local(c) \/ SrvNewWorkConn(c) \/ User(c)

Spec == Init /\ [][Next]_vars

\* libevent runs the callbacks that are due, and reports a connection that frps
\* has closed; an attempt to connect has an outcome; frps reads and answers.
FairSpec == /\ Spec
            /\ WF_vars(Connected) /\ WF_vars(srv.dead /\ ControlLost)
            /\ WF_vars(RecvControl) /\ WF_vars(Server)
            /\ \A c \in Clients : WF_vars(WorkEvent(c))

-----------------------------------------------------------------------------
(* Properties                                                                *)

Count(s, m) == Cardinality({k \in 1..Len(s) : s[k] = m})
NewProxies == srv.registered + Count(toServer, "NewProxy")

\* "start proxy services must first send" (control.c:460), and every request is
\* answered: on each control connection that has made a client, each service is
\* announced exactly once, in whatever reads LoginResp, IV and ReqWorkConn came;
\* and if no read held a message behind the first, each ReqWorkConn has made one
\* client. The exception: a work connection begun under an earlier control
\* connection that comes up now marks the client as connected, and then the
\* services may not be announced.
RequestsServed ==
  (Running /\ conn = "up") =>
    /\ (made >= history.since /\ ~ history.stale) => NewProxies = NumServices
    /\ NewProxies \in {0, NumServices}
    /\ (toClient = <<>> /\ history.dropped = 0) =>
         made + 1 - history.since = srv.reqs

\* No callback meets a freed client or bufferevent as long as the network has
\* been kind and no user has left a tunnel: whatever local services and frps do
\* otherwise, in any order.
ClientOutlivesUse ==
  fate = "use_after_free" => history.faults < MaxFaults \/ history.left # {}

\* What the user sends after the bytes that came with StartWorkConn reaches the
\* local service in order and once, and nothing is invented, even where the tail
\* itself is read from freed memory or overtaken: of Len(out) bytes e are the
\* tail, or none are, it stands behind the first i of the others, and what is
\* unread continues them to the last byte sent.
TunnelIntact ==
  \A c \in listed : ctl[c] = "tunnel" =>
    \E e \in {0, history.early[c]} : \E i \in 0..(Len(out[c]) - e) :
      LET early == history.early[c]
          n == Len(out[c]) - e
          unread == work[c].sent - early - n
      IN /\ \A k \in 1..n : out[c][IF k <= i THEN k ELSE k + e] = early + k
         /\ \A k \in 1..e : out[c][i + k] \in 0..early
         /\ unread \in 0..Len(wire[c])
         /\ \A k \in 1..Len(wire[c]) : wire[c][k] = IF k <= unread THEN early + n + k ELSE EOF

\* Once failures stop the client is logged in, with its services announced, for
\* good, or the process has ended: the opening frame that frps answers by closing
\* the connection is sent on the first connection only. (A stale work connection
\* may keep the services from being announced.)
LogsInAgain ==
  <>[]( \/ ~ Running \/ history.stale
        \/ is_login /\ NewProxies = NumServices)
=============================================================================
