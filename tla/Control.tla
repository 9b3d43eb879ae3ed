------------------------------ MODULE Control ------------------------------
(* The control connection (control.c, login.c, crypto.c) with tcp_mux on:    *)
(* connecting, logging in, registering the proxy services, work connections  *)
(* on request, the heartbeat, and starting over when the connection is lost  *)
(* or silent. Every callback of the event loop is one action. The messages   *)
(* of the control stream arrive whole and in order (RecvFraming); the bytes  *)
(* of a work stream are the subject of TmuxStream.                           *)
EXTENDS Integers, Sequences, FiniteSets

CONSTANTS
  NumServices,  \* proxy services to register (every one but those of type mstsc)
  HbInterval,   \* heartbeat_interval
  HbTimeout,    \* heartbeat_timeout
  MaxReq,       \* bound: work connections frps asks for on one connection
  MaxFaults     \* bound: failures of the network or of frps

\* load_config refuses an interval <= 0 and a timeout below the interval.
ASSUME ControlAssumption ==
  /\ {NumServices, HbInterval, HbTimeout, MaxReq, MaxFaults} \subseteq Nat
  /\ HbInterval > 0 /\ HbTimeout >= HbInterval

VARIABLES
  conn,         \* connect_bev: "connecting", "up"; or the process has "exited"
  epoch,        \* history: number of the connection
  main,         \* main_ctl->stream: its id and state
  is_login, client_connected,
  coders,       \* main_encoder, main_decoder, enc_ctx and dec_ctx: the IV of each
  age,          \* now - pong_time, or -1 for pong_time = 0
  ticker,       \* time until ticker_ping fires, or -1 when it is deleted
  g_session_id,
  all_pc,       \* stream ids of the proxy clients
  garbled,      \* history: a message was decrypted under the wrong IV
  toServer, toClient,   \* messages under way
  srv,          \* frps: what it knows of this connection
  net           \* the network: stalled now, stalled on this connection, faults left

client == <<main, is_login, client_connected, coders, g_session_id, all_pc>>
timers == <<age, ticker>>
vars == <<conn, epoch, client, timers, garbled, toServer, toClient, srv, net>>

NoIV == <<"none", 0>>
NoCoders == [encoder |-> NoIV, decoder |-> NoIV, enc_ctx |-> NoIV, dec_ctx |-> NoIV]

\* A message: for a stream or a service, plain (NoIV) or under an IV.
Msg(type, id, iv) == [type |-> type, id |-> id, iv |-> iv]

NewPeer == [logged |-> FALSE, refused |-> FALSE, iv |-> NoIV, registered |-> <<>>,
            reqs |-> 0, streams |-> {}, work |-> {}, garbled |-> FALSE, reused |-> FALSE]

\* xfrpc_loop: init_main_control draws session id 1 for the control stream,
\* run_control starts the connection, and the clear_main_control of
\* close_main_control draws the next, before the event loop runs.
Init == /\ conn = "connecting" /\ epoch = 1
        /\ main = [id |-> 3, state |-> "INIT"] /\ g_session_id = 5
        /\ is_login = FALSE /\ client_connected = FALSE
        /\ coders = NoCoders /\ age = -1 /\ ticker = -1 /\ all_pc = {}
        /\ garbled = FALSE /\ toServer = <<>> /\ toClient = <<>>
        /\ srv = NewPeer
        /\ net = [stalled |-> FALSE, ever |-> FALSE, faults |-> MaxFaults]

-----------------------------------------------------------------------------
(* Starting and starting over                                                *)

\* The timer is set to fire in heartbeat_interval. Mutant: it is not.
TimerUnset == ticker' = -1
set_ticker_ping_timer == ticker' = HbInterval

\* pong_time counts from the connection. Mutant: neither it nor the timer is set.
NotKeptAlive == UNCHANGED timers
keep_control_alive == age' = 0 /\ set_ticker_ping_timer

login == Msg("Login", 0, NoIV)

\* connect_event_cb, connected: SYN of the control stream, login,
\* keep_control_alive.
Connected == /\ conn = "connecting"
             /\ conn' = "up"
             /\ main' = [main EXCEPT !.state = "SYN_SEND"]
             /\ toServer' = <<Msg("SYN", main.id, NoIV), login>>
             /\ keep_control_alive
             /\ UNCHANGED <<epoch, is_login, client_connected, coders, g_session_id, all_pc,
                            garbled, toClient, srv, net>>

\* The parts of clear_main_control, each with what happens when it is
\* forgotten or wrong.
ClientsSurvive == UNCHANGED all_pc
clear_all_proxy_client == all_pc' = {}

ContextSurvives == coders' = [NoCoders EXCEPT !.enc_ctx = coders.enc_ctx]
free_evp_cipher_ctx == coders' = NoCoders

StatusSurvives == UNCHANGED client_connected
ResetStatus == client_connected' = FALSE

\* reset_session_id, then the control stream draws its id. Mutant: the counter
\* is reset after the draw.
IdsRepeat == main' = [id |-> 1, state |-> "INIT"] /\ g_session_id' = 1
NewMainStream == main' = [id |-> 1, state |-> "INIT"] /\ g_session_id' = 3

\* clear_main_control after reset_session_id: timers, clients, coders and
\* flags, and a new control stream.
clear_main_control ==
  /\ ticker' = -1 /\ age' = -1
  /\ clear_all_proxy_client /\ free_evp_cipher_ctx
  /\ ResetStatus /\ is_login' = FALSE
  /\ NewMainStream

\* run_control: a new connection to frps replaces the old one, or connect_server
\* fails at once and the process exits.
run_control ==
  /\ conn' \in {"connecting", "exited"}
  /\ epoch' = epoch + 1
  /\ toServer' = <<>> /\ toClient' = <<>> /\ srv' = NewPeer

\* connect_event_cb, EOF or error: the connection could not be made, or is gone.
ConnectionLost == /\ conn \in {"connecting", "up"} /\ net.faults > 0
                  /\ clear_main_control /\ run_control
                  /\ net' = [stalled |-> FALSE, ever |-> FALSE, faults |-> net.faults - 1]
                  /\ UNCHANGED garbled

-----------------------------------------------------------------------------
(* Sending                                                                   *)

\* init_main_encoder: the decoder's IV if there is one, else a new one.
NewEncoderIV == IF coders.decoder # NoIV THEN coders.decoder ELSE <<"client", epoch>>

\* send_enc_msg_frp_server: the coders after the first message, and the
\* messages, behind the IV when the encoder is new.
CodersSending ==
  LET iv == IF coders.encoder = NoIV THEN NewEncoderIV ELSE coders.encoder IN
  [coders EXCEPT !.encoder = iv,
                 !.enc_ctx = IF coders.enc_ctx = NoIV THEN iv ELSE coders.enc_ctx]

Encrypted(type, n) ==
  LET iv == IF coders.encoder = NoIV THEN <<Msg("IV", 0, CodersSending.encoder)>> ELSE <<>> IN
  iv \o [k \in 1..n |-> Msg(type, k, CodersSending.enc_ctx)]

-----------------------------------------------------------------------------
(* The heartbeat                                                             *)

\* interval > heartbeat_timeout. Mutant: at heartbeat_timeout already.
ExpiredEarly == age >= HbTimeout
Expired == age > HbTimeout

ping == toServer' = toServer \o Encrypted("Ping", 1) /\ coders' = CodersSending

\* hb_sender_cb while frps has answered recently: ping, if a work connection
\* was ever asked for, and set the timer again.
HbPing == /\ conn = "up" /\ ticker = 0 /\ ~ Expired
          /\ set_ticker_ping_timer
          /\ IF client_connected THEN ping ELSE UNCHANGED <<toServer, coders>>
          /\ UNCHANGED <<conn, epoch, main, is_login, client_connected, g_session_id, all_pc,
                         age, garbled, toClient, srv, net>>

\* hb_sender_cb after a silence longer than heartbeat_timeout; the ping it sends
\* first is lost with the connection.
HbExpired == /\ conn = "up" /\ ticker = 0 /\ Expired
             /\ clear_main_control /\ run_control
             /\ net' = [net EXCEPT !.stalled = FALSE, !.ever = FALSE]
             /\ UNCHANGED garbled

\* Time passes; on a connection that is not stalled, messages take no time.
PassTime == /\ conn = "up" /\ ticker # 0
            /\ net.stalled \/ (toServer = <<>> /\ toClient = <<>>)
            /\ ticker' = IF ticker = -1 THEN -1 ELSE ticker - 1
            /\ age' = IF age = -1 THEN -1 ELSE age + 1
            /\ UNCHANGED <<conn, epoch, client, garbled, toServer, toClient, srv, net>>

-----------------------------------------------------------------------------
(* Messages of frps: recv_cb, handle_tcp_mux_stream and handle_frps_msg      *)

Receive(type) == /\ conn = "up" /\ ~ net.stalled
                 /\ toClient # <<>> /\ Head(toClient).type = type
                 /\ toClient' = Tail(toClient)

\* process_flags on the control stream.
RecvAck == /\ Receive("ACK")
           /\ main' = [main EXCEPT !.state = IF @ = "SYN_SEND" THEN "ESTABLISHED" ELSE @]
           /\ UNCHANGED <<conn, epoch, is_login, client_connected, coders, g_session_id, all_pc,
                          timers, garbled, toServer, srv, net>>

\* handle_login_response: a refusal is logged and changes nothing.
RecvLoginResp == /\ Receive("LoginResp") /\ main.state = "ESTABLISHED"
                 /\ is_login' = (is_login \/ Head(toClient).id = 1)
                 /\ UNCHANGED <<conn, epoch, main, client_connected, coders, g_session_id, all_pc,
                                timers, garbled, toServer, srv, net>>

\* handle_enc_msg with nothing but the IV.
RecvIV == /\ Receive("IV") /\ main.state = "ESTABLISHED" /\ is_login
          /\ coders' = [coders EXCEPT !.decoder = IF @ = NoIV THEN Head(toClient).iv ELSE @]
          /\ UNCHANGED <<conn, epoch, main, is_login, client_connected, g_session_id, all_pc,
                         timers, garbled, toServer, srv, net>>

\* decrypt_data: the context is made from the decoder at its first use.
Decrypting(c) == [c EXCEPT !.dec_ctx = IF @ = NoIV THEN c.decoder ELSE @]

\* Receiving an encrypted message, coders being c otherwise.
Decrypt(type, c) == /\ Receive(type) /\ main.state = "ESTABLISHED" /\ is_login
                    /\ coders' = Decrypting(c)
                    /\ garbled' = (garbled \/ Decrypting(c).dec_ctx # Head(toClient).iv)

start_proxy_services == IF NumServices > 0 THEN Encrypted("NewProxy", NumServices) ELSE <<>>

\* new_client_connect: a client with the next stream id, whose stream is opened
\* and carries what new_work_connection sends.
new_work_connection(id) == Msg("NewWorkConn", id, NoIV)

new_client_connect(id) == <<Msg("SYN", id, NoIV), new_work_connection(id)>>

\* TypeReqWorkConn: the first one registers the services; each makes a client.
RecvReqWorkConn ==
  LET id == g_session_id
      proxies == IF client_connected THEN <<>> ELSE start_proxy_services
  IN
  /\ Decrypt("ReqWorkConn", IF proxies = <<>> THEN coders ELSE CodersSending)
  /\ client_connected' = TRUE
  /\ all_pc' = all_pc \cup {id} /\ g_session_id' = g_session_id + 2
  /\ toServer' = toServer \o proxies \o new_client_connect(id)
  /\ UNCHANGED <<conn, epoch, main, is_login, timers, srv, net>>

\* TypeNewProxyResp: an error is logged and changes nothing.
RecvNewProxyResp == /\ Decrypt("NewProxyResp", coders)
                    /\ UNCHANGED <<conn, epoch, main, is_login, client_connected, g_session_id,
                                   all_pc, timers, toServer, srv, net>>

\* TypePong
RecvPong == /\ Decrypt("Pong", coders)
            /\ age' = 0
            /\ UNCHANGED <<conn, epoch, main, is_login, client_connected, g_session_id, all_pc,
                           ticker, toServer, srv, net>>

-----------------------------------------------------------------------------
(* frps and the network (external)                                           *)

Serve(type) == /\ conn = "up" /\ ~ net.stalled
               /\ toServer # <<>> /\ Head(toServer).type = type
               /\ toServer' = Tail(toServer)
               /\ UNCHANGED <<conn, epoch, client, timers, garbled>>

Answer(msgs) == toClient' = toClient \o msgs

ServerIV == <<"server", epoch>>

SrvSyn == LET id == Head(toServer).id IN
          /\ Serve("SYN")
          /\ srv' = [srv EXCEPT !.streams = @ \cup {id}, !.reused = @ \/ id \in srv.streams]
          /\ Answer(IF srv.streams = {} THEN <<Msg("ACK", id, NoIV)>> ELSE <<>>)
          /\ UNCHANGED net

\* A login is accepted, and pool_count (1) work connections are asked for; or
\* it is refused.
SrvLogin == /\ Serve("Login")
            /\ \/ /\ srv' = [srv EXCEPT !.logged = TRUE, !.reqs = 1]
                  /\ Answer(<<Msg("LoginResp", 1, NoIV), Msg("IV", 0, ServerIV),
                              Msg("ReqWorkConn", 0, ServerIV)>>)
                  /\ UNCHANGED net
               \/ /\ net.faults > 0
                  /\ srv' = [srv EXCEPT !.refused = TRUE]
                  /\ Answer(<<Msg("LoginResp", 0, NoIV)>>)
                  /\ net' = [net EXCEPT !.faults = @ - 1]

SrvIV == /\ Serve("IV")
         /\ srv' = [srv EXCEPT !.iv = Head(toServer).iv]
         /\ UNCHANGED <<toClient, net>>

\* An encrypted message before the login or under another IV is garbage.
Garbage == ~ srv.logged \/ Head(toServer).iv # srv.iv

SrvNewProxy == /\ Serve("NewProxy")
               /\ srv' = [srv EXCEPT !.registered = Append(@, Head(toServer).id),
                                     !.garbled = @ \/ Garbage]
               /\ Answer(<<Msg("NewProxyResp", 0, ServerIV)>>)
               /\ UNCHANGED net

SrvPing == /\ Serve("Ping")
           /\ srv' = [srv EXCEPT !.garbled = @ \/ Garbage]
           /\ Answer(<<Msg("Pong", 0, ServerIV)>>)
           /\ UNCHANGED net

SrvNewWorkConn == /\ Serve("NewWorkConn")
                  /\ srv' = [srv EXCEPT !.work = @ \cup {Head(toServer).id}]
                  /\ UNCHANGED <<toClient, net>>

\* A user connects: frps asks for another work connection.
SrvAsks == /\ conn = "up" /\ ~ net.stalled /\ srv.logged /\ srv.reqs < MaxReq
           /\ srv' = [srv EXCEPT !.reqs = @ + 1]
           /\ Answer(<<Msg("ReqWorkConn", 0, ServerIV)>>)
           /\ UNCHANGED <<conn, epoch, client, timers, garbled, toServer, net>>

\* Nothing moves any more, without an error; perhaps only for a while.
Stall == /\ conn = "up" /\ ~ net.stalled /\ net.faults > 0
         /\ net' = [stalled |-> TRUE, ever |-> TRUE, faults |-> net.faults - 1]
         /\ UNCHANGED <<conn, epoch, client, timers, garbled, toServer, toClient, srv>>

Heal == /\ conn = "up" /\ net.stalled
        /\ net' = [net EXCEPT !.stalled = FALSE]
        /\ UNCHANGED <<conn, epoch, client, timers, garbled, toServer, toClient, srv>>

-----------------------------------------------------------------------------

ClientRecv == \/ RecvAck \/ RecvLoginResp \/ RecvIV
              \/ RecvReqWorkConn \/ RecvNewProxyResp \/ RecvPong

ServerRecv == SrvSyn \/ SrvLogin \/ SrvIV \/ SrvNewProxy \/ SrvPing \/ SrvNewWorkConn

Exited == conn = "exited" /\ UNCHANGED vars

Next == \/ Connected \/ ConnectionLost \/ HbPing \/ HbExpired \/ PassTime
        \/ ClientRecv \/ ServerRecv \/ SrvAsks \/ Stall \/ Heal \/ Exited

Spec == Init /\ [][Next]_vars

\* libevent runs the callbacks that are due, time passes, frps reads and
\* answers, and an attempt to connect has an outcome.
FairSpec == /\ Spec
            /\ WF_vars(Connected) /\ WF_vars(HbPing \/ HbExpired) /\ WF_vars(PassTime)
            /\ WF_vars(ClientRecv) /\ WF_vars(ServerRecv)

-----------------------------------------------------------------------------
(* Properties                                                                *)

\* Both ends always decrypt under the IV the other encrypts with, on every
\* connection and however the last one ended: the four static coders and
\* contexts are all renewed, and the IV is on the wire before what it covers.
CryptoAgrees == ~ garbled /\ ~ srv.garbled

\* "start proxy services must first send" (control.c): on every connection
\* frps knows each service, once and in order, before the first work connection.
RegistersFirst ==
  /\ srv.registered = [k \in 1..Len(srv.registered) |-> k]
  /\ srv.work # {} => Len(srv.registered) = NumServices

\* Within a connection no stream id is used twice, neither among the clients
\* nor by the control stream, although reset_session_id rewinds the counter.
StreamIdsFresh == ~ srv.reused

\* Every request for a work connection is answered by exactly one new client:
\* none is lost between login, registration and a connection that ends, and
\* no client of an earlier connection survives.
RequestsAnswered ==
  (conn = "up" /\ toServer = <<>> /\ toClient = <<>>) =>
    Cardinality(srv.work) = srv.reqs /\ all_pc = srv.work

\* hb_sender_cb gives a connection up only if frps was out of reach on it, or
\* never let the client in.
NoFalseTimeout == [][HbExpired => net.ever \/ srv.refused]_vars

\* Silence is noticed: no connection outlives its last sign of life by more
\* than heartbeat_timeout and one heartbeat_interval.
SilenceNoticed == age <= HbTimeout + HbInterval

\* Whatever fails, once failures stop the client ends up registered, with a
\* work connection, for good (or has exited, connect_server having failed).
Recovers == <>[]( \/ conn = "exited"
                  \/ conn = "up" /\ Len(srv.registered) = NumServices /\ srv.work # {})
=============================================================================
