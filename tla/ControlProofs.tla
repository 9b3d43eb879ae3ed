--------------------------- MODULE ControlProofs ---------------------------
(* For any number of services, any heartbeat_interval and heartbeat_timeout  *)
(* that load_config admits, and any number of failures and requests: what    *)
(* Control says of the coders, of stream ids, of registration, of requests   *)
(* for work connections and of the heartbeat.                                *)
EXTENDS Control, FiniteSetTheorems, TLAPS

\* The IVs there are, and the messages.
IVs == {NoIV} \cup ({"client", "server"} \X Nat)
MsgTypes == {"SYN", "ACK", "Login", "LoginResp", "IV", "ReqWorkConn", "NewProxy",
             "NewProxyResp", "Ping", "Pong", "NewWorkConn"}
Messages == [type : MsgTypes, id : Nat, iv : IVs]
Coders == [encoder : IVs, decoder : IVs, enc_ctx : IVs, dec_ctx : IVs]
Peers == [logged : BOOLEAN, refused : BOOLEAN, iv : IVs, registered : Seq(Nat), reqs : Nat,
          streams : SUBSET Nat, work : SUBSET Nat, garbled : BOOLEAN, reused : BOOLEAN]

Types ==
  /\ conn \in {"connecting", "up", "exited"} /\ epoch \in Nat
  /\ main \in [id : Nat, state : {"INIT", "SYN_SEND", "ESTABLISHED"}]
  /\ is_login \in BOOLEAN /\ client_connected \in BOOLEAN /\ garbled \in BOOLEAN
  /\ coders \in Coders
  /\ age \in Nat \cup {-1} /\ ticker \in Nat \cup {-1}
  /\ g_session_id \in Nat /\ all_pc \in SUBSET Nat
  /\ toServer \in Seq(Messages) /\ toClient \in Seq(Messages)
  /\ srv \in Peers
  /\ net \in [stalled : BOOLEAN, ever : BOOLEAN, faults : Nat]

\* What a connection that is not made yet, or never will be, starts from:
\* nothing of an earlier one.
Fresh == /\ conn # "up" /\ age = -1 /\ ticker = -1
         /\ main.state = "INIT" /\ main.id < g_session_id
         /\ ~ is_login /\ ~ client_connected
         /\ coders = NoCoders /\ all_pc = {}
         /\ toServer = <<>> /\ toClient = <<>> /\ srv = NewPeer
         /\ ~ net.stalled /\ ~ net.ever

Idle == conn # "up" => Fresh

\* Messages under way of a type.
InServer(type) == \E i \in 1..Len(toServer) : toServer[i].type = type
InClient(type) == \E i \in 1..Len(toClient) : toClient[i].type = type

ClientEnc == {"NewProxy", "Ping"}
ServerEnc == {"ReqWorkConn", "NewProxyResp", "Pong"}

\* Who is logged in: the one Login comes before all frps says beyond the ACK,
\* and before all the client says under encryption.
LoginInv ==
  /\ is_login \/ client_connected => srv.logged
  /\ \A i \in 1..Len(toServer) :
       /\ toServer[i].type \in ClientEnc \cup {"NewWorkConn", "IV"} => srv.logged
       /\ toServer[i].type = "Login" => ~ srv.logged /\ ~ srv.refused
       /\ \A j \in 1..Len(toServer) :
            toServer[i].type = "Login" /\ toServer[j].type = "Login" => i = j
  /\ \A i \in 1..Len(toClient) :
       /\ toClient[i].type \in ServerEnc \cup {"IV"} => srv.logged
       /\ toClient[i].type = "LoginResp" /\ toClient[i].id = 1 => srv.logged

\* Downstream: frps encrypts under the IV of this connection, which comes
\* before anything encrypted.
DownInv ==
  /\ ~ garbled
  /\ coders.decoder \in {NoIV, ServerIV} /\ coders.dec_ctx \in {NoIV, ServerIV}
  /\ srv.logged => coders.decoder # NoIV \/ InClient("IV")
  /\ \A i \in 1..Len(toClient) :
       /\ toClient[i].type \in ServerEnc \cup {"IV"} => toClient[i].iv = ServerIV
       /\ toClient[i].type \in ServerEnc =>
            coders.decoder # NoIV \/ \E j \in 1..(i - 1) : toClient[j].type = "IV"

\* Upstream: the same of the client's encoder, whose IV is a new one or the
\* decoder's.
UpInv ==
  /\ ~ srv.garbled
  /\ coders.enc_ctx = coders.encoder
  /\ srv.iv \in {NoIV, coders.encoder}
  /\ coders.encoder # NoIV => srv.iv # NoIV \/ InServer("IV")
  /\ \A i \in 1..Len(toServer) :
       /\ toServer[i].type \in ClientEnc \cup {"IV"} =>
            toServer[i].iv = coders.encoder /\ coders.encoder # NoIV
       /\ toServer[i].type \in ClientEnc =>
            srv.iv # NoIV \/ \E j \in 1..(i - 1) : toServer[j].type = "IV"

\* Ids that are used or on their way are below the counter and differ.
SynInv ==
  /\ ~ srv.reused
  /\ main.id < g_session_id
  /\ \A id \in srv.streams : id < g_session_id
  /\ \A i \in 1..Len(toServer) : toServer[i].type = "SYN" =>
       /\ toServer[i].id < g_session_id /\ toServer[i].id \notin srv.streams
       /\ \A j \in 1..Len(toServer) :
            toServer[j].type = "SYN" /\ toServer[j].id = toServer[i].id => i = j

\* The services on their way follow those registered, without a gap, and come
\* before any work connection.
LastService == \E i \in 1..Len(toServer) :
                 toServer[i].type = "NewProxy" /\ toServer[i].id = NumServices

RegInv ==
  LET n == Len(srv.registered) IN
  /\ RegistersFirst
  /\ ~ client_connected => n = 0 /\ ~ InServer("NewProxy") /\ ~ InServer("NewWorkConn")
  /\ client_connected => n = NumServices \/ LastService
  /\ \A i \in 1..Len(toServer) : toServer[i].type = "NewProxy" =>
       /\ toServer[i].id > n /\ toServer[i].id <= NumServices
       /\ \/ toServer[i].id = n + 1
          \/ i > 1 /\ toServer[i - 1].type = "NewProxy" /\ toServer[i - 1].id = toServer[i].id - 1
       /\ \A j \in 1..Len(toServer) :
            i < j /\ toServer[j].type = "NewProxy" => toServer[i].id < toServer[j].id
  /\ \A i \in 1..Len(toServer) : toServer[i].type = "NewWorkConn" =>
       n = NumServices \/ \E j \in 1..(i - 1) :
                            toServer[j].type = "NewProxy" /\ toServer[j].id = NumServices

\* Requests made are those under way and those answered by a client.
Requests == {i \in 1..Len(toClient) : toClient[i].type = "ReqWorkConn"}
Offered == {i \in 1..Len(toServer) : toServer[i].type = "NewWorkConn"}

CountInv ==
  /\ IsFiniteSet(all_pc) /\ Cardinality(all_pc) + Cardinality(Requests) = srv.reqs
  /\ ~ srv.logged => all_pc = {} /\ srv.reqs = 0
  /\ all_pc = srv.work \cup {toServer[i].id : i \in Offered}
  /\ \A id \in all_pc : id < g_session_id

\* The timer and the silence; and, on a connection nothing has gone wrong on,
\* that a ping is answered before time passes.
Pending == InServer("Ping") \/ InClient("Pong")

TimeInv ==
  conn = "up" =>
    /\ age \in Nat /\ ticker \in 0..HbInterval
    /\ age + ticker <= HbTimeout + HbInterval
    /\ client_connected \/ srv.refused \/ InServer("Login") \/ InClient("ReqWorkConn")
    /\ net.stalled => net.ever
    /\ (~ net.ever /\ ~ srv.refused) =>
         /\ age <= HbInterval
         /\ client_connected \/ ticker = HbInterval
         /\ Pending => ticker = HbInterval
         /\ Pending \/ age + ticker = HbInterval

CInv == /\ Types /\ Idle /\ LoginInv /\ DownInv /\ UpInv /\ SynInv /\ RegInv /\ CountInv /\ TimeInv

-----------------------------------------------------------------------------
(* Sequences, messages and IVs                                               *)

\* Elements and length of a sequence after Tail.
LEMMA TailFacts ==
  ASSUME NEW S, NEW s \in Seq(S), s # <<>>
  PROVE  /\ Head(s) \in S /\ Head(s) = s[1] /\ 1 \in 1..Len(s) /\ Len(s) \in Nat
         /\ Tail(s) \in Seq(S) /\ Len(Tail(s)) = Len(s) - 1
         /\ \A k \in 1..(Len(s) - 1) : Tail(s)[k] = s[k + 1] /\ k + 1 \in 1..Len(s)
  OBVIOUS

\* Elements and length of a concatenation.
LEMMA ConcatFacts ==
  ASSUME NEW S, NEW s \in Seq(S), NEW t \in Seq(S)
  PROVE  /\ s \o t \in Seq(S) /\ Len(s \o t) = Len(s) + Len(t)
         /\ Len(s) \in Nat /\ Len(t) \in Nat
         /\ \A k \in 1..Len(s) : (s \o t)[k] = s[k] /\ k \in 1..Len(s \o t)
         /\ \A k \in 1..Len(t) : (s \o t)[Len(s) + k] = t[k] /\ Len(s) + k \in 1..Len(s \o t)
         /\ \A k \in 1..Len(s \o t) : k \in 1..Len(s) \/
              (k > Len(s) /\ k - Len(s) \in 1..Len(t) /\ (s \o t)[k] = t[k - Len(s)])
  OBVIOUS

\* The same with one element in front.
LEMMA ConsFacts ==
  ASSUME NEW S, NEW a \in S, NEW t \in Seq(S)
  PROVE  /\ <<a>> \o t \in Seq(S) /\ Len(<<a>> \o t) = 1 + Len(t)
         /\ (<<a>> \o t)[1] = a
         /\ \A k \in 1..Len(t) : (<<a>> \o t)[k + 1] = t[k]
  OBVIOUS

\* A connection's IVs are none of NoIV and of each other.
LEMMA IVFacts ==
  ASSUME NEW n \in Nat
  PROVE  /\ <<"server", n>> \in IVs /\ <<"client", n>> \in IVs /\ NoIV \in IVs
         /\ <<"server", n>> # NoIV /\ <<"client", n>> # NoIV
  BY DEF IVs, NoIV

\* The fields of a message, and that it is one.
LEMMA MsgFacts ==
  /\ \A m \in Messages : m.type \in MsgTypes /\ m.id \in Nat /\ m.iv \in IVs
  /\ \A t \in MsgTypes, i \in Nat, v \in IVs :
       Msg(t, i, v) \in Messages /\ Msg(t, i, v).type = t /\ Msg(t, i, v).id = i /\ Msg(t, i, v).iv = v
  BY DEF Messages, Msg

\* The coders after something was sent: encoder and context hold the same IV.
LEMMA SendingFacts ==
  ASSUME Types, UpInv
  PROVE  /\ CodersSending \in Coders
         /\ CodersSending.encoder # NoIV /\ CodersSending.enc_ctx = CodersSending.encoder
         /\ CodersSending.decoder = coders.decoder /\ CodersSending.dec_ctx = coders.dec_ctx
         /\ coders.encoder # NoIV => CodersSending.encoder = coders.encoder
  <1>1. coders \in Coders /\ epoch \in Nat /\ coders.enc_ctx = coders.encoder
    BY DEF Types, UpInv
  <1>2. NewEncoderIV \in IVs /\ NewEncoderIV # NoIV
    BY <1>1, IVFacts DEF NewEncoderIV, Coders
  <1> QED
    BY <1>1, <1>2 DEF CodersSending, Coders

\* What is sent under encryption: n messages, behind the IV if it is new.
LEMMA EncryptedFacts ==
  ASSUME Types, UpInv, NEW type \in MsgTypes, NEW n \in Nat
  PROVE  LET e == Encrypted(type, n)
             c == CodersSending.encoder
             d == IF coders.encoder = NoIV THEN 1 ELSE 0
         IN /\ e \in Seq(Messages) /\ Len(e) = n + d
            /\ d = 1 => e[1] = Msg("IV", 0, c)
            /\ \A k \in 1..n : k + d \in 1..Len(e) /\ e[k + d] = Msg(type, k, c)
  <1> DEFINE c == CodersSending.encoder
             ms == [k \in 1..n |-> Msg(type, k, CodersSending.enc_ctx)]
             iv == <<Msg("IV", 0, c)>>
  <1>1. c \in IVs /\ CodersSending.enc_ctx = c
    BY SendingFacts DEF Coders
  <1>2. ms \in Seq(Messages) /\ Len(ms) = n /\ \A k \in 1..n : ms[k] = Msg(type, k, c)
    <2>1. ms \in [1..n -> Messages]
      BY <1>1, MsgFacts
    <2> QED
      BY <1>1, <2>1
  <1>3. iv \in Seq(Messages) /\ Len(iv) = 1 /\ iv[1] = Msg("IV", 0, c)
    BY <1>1, MsgFacts DEF MsgTypes
  <1>4. Encrypted(type, n) = IF coders.encoder = NoIV THEN iv \o ms ELSE <<>> \o ms
    BY DEF Encrypted
  <1>5. <<>> \o ms = ms
    BY <1>2
  <1>6. /\ iv \o ms \in Seq(Messages) /\ Len(iv \o ms) = 1 + n
        /\ (iv \o ms)[1] = iv[1]
        /\ \A k \in 1..n : (iv \o ms)[k + 1] = ms[k]
    <2>1. Msg("IV", 0, c) \in Messages
      BY <1>1, MsgFacts DEF MsgTypes
    <2> HIDE DEF ms
    <2>2. ms \in Seq(Messages) /\ Len(ms) = n
      BY <1>2
    <2> QED
      BY <2>1, <2>2, ConsFacts
  <1>7. CASE coders.encoder = NoIV
    BY <1>2, <1>3, <1>4, <1>6, <1>7
  <1>8. CASE coders.encoder # NoIV
    BY <1>2, <1>4, <1>5, <1>8
  <1> QED
    BY <1>7, <1>8

-----------------------------------------------------------------------------
(* A connection that starts                                                  *)

\* Nothing is left of an earlier connection, so nothing can be wrong.
LEMMA FreshHolds ==
  ASSUME Types, Fresh, ~ garbled
  PROVE  CInv
  <1>1. Len(toServer) = 0 /\ Len(toClient) = 0
    BY DEF Fresh
  <1>2. /\ srv.logged = FALSE /\ srv.refused = FALSE /\ srv.iv = NoIV /\ srv.registered = <<>>
        /\ srv.reqs = 0 /\ srv.streams = {} /\ srv.work = {}
        /\ srv.garbled = FALSE /\ srv.reused = FALSE
    BY DEF Fresh, NewPeer
  <1>3. /\ coders.encoder = NoIV /\ coders.decoder = NoIV
        /\ coders.enc_ctx = NoIV /\ coders.dec_ctx = NoIV
    BY DEF Fresh, NoCoders
  <1>4. LoginInv
    BY <1>1, <1>2 DEF LoginInv, Fresh
  <1>5. DownInv
    BY <1>1, <1>2, <1>3 DEF DownInv, Fresh
  <1>6. UpInv
    BY <1>1, <1>2, <1>3 DEF UpInv, Fresh
  <1>7. SynInv
    BY <1>1, <1>2 DEF SynInv, Fresh
  <1>8. RegInv
    BY <1>1, <1>2 DEF RegInv, RegistersFirst, InServer, Fresh
  <1>9. CountInv
    <2>1. Requests = {} /\ Offered = {}
      BY <1>1 DEF Requests, Offered
    <2>2. Cardinality({}) = 0 /\ IsFiniteSet({})
      BY FS_EmptySet
    <2> QED
      BY <1>2, <2>1, <2>2 DEF CountInv, Fresh
  <1> QED
    BY <1>4, <1>5, <1>6, <1>7, <1>8, <1>9 DEF CInv, Idle, TimeInv, Fresh

\* The invariant holds when the event loop starts.
LEMMA InitHolds == Init => CInv
  <1> SUFFICES ASSUME Init PROVE CInv
    OBVIOUS
  <1>1. NoIV \in IVs
    BY DEF IVs
  <1>2. NewPeer \in Peers /\ NoCoders \in Coders
    BY <1>1 DEF NewPeer, Peers, NoCoders, Coders
  <1>3. Types
    <2>1. net \in [stalled : BOOLEAN, ever : BOOLEAN, faults : Nat]
      BY ControlAssumption DEF Init
    <2>2. main \in [id : Nat, state : {"INIT", "SYN_SEND", "ESTABLISHED"}] /\ main.id = 3
      BY DEF Init
    <2>3. toServer \in Seq(Messages) /\ toClient \in Seq(Messages)
      BY DEF Init
    <2> QED
      BY <1>2, <2>1, <2>2, <2>3 DEF Init, Types
  <1>4. Fresh /\ ~ garbled
    BY DEF Init, Fresh
  <1> QED
    BY <1>3, <1>4, FreshHolds

-----------------------------------------------------------------------------
(* The shape of a step                                                       *)

\* recv_cb takes the first message.
LEMMA ReceiveFacts ==
  ASSUME Types, NEW type, Receive(type)
  PROVE  /\ conn = "up" /\ ~ net.stalled
         /\ toClient' \in Seq(Messages) /\ Len(toClient') = Len(toClient) - 1
         /\ Len(toClient) \in Nat /\ 1 \in 1..Len(toClient)
         /\ Head(toClient) = toClient[1] /\ toClient[1] \in Messages /\ toClient[1].type = type
         /\ \A k \in 1..Len(toClient') :
              toClient'[k] = toClient[k + 1] /\ k + 1 \in 1..Len(toClient)
         /\ \A k \in 1..Len(toClient) : k # 1 => k - 1 \in 1..Len(toClient')
                                              /\ toClient'[k - 1] = toClient[k]
  <1>1. toClient \in Seq(Messages) /\ toClient # <<>> /\ toClient' = Tail(toClient)
    BY DEF Types, Receive
  <1>2. /\ Head(toClient) \in Messages /\ Head(toClient) = toClient[1] /\ 1 \in 1..Len(toClient)
        /\ Len(toClient) \in Nat /\ toClient' \in Seq(Messages) /\ Len(toClient') = Len(toClient) - 1
        /\ \A k \in 1..(Len(toClient) - 1) :
             toClient'[k] = toClient[k + 1] /\ k + 1 \in 1..Len(toClient)
    BY <1>1, TailFacts
  <1>3. ASSUME NEW k \in 1..Len(toClient), k # 1
        PROVE  k - 1 \in 1..Len(toClient') /\ toClient'[k - 1] = toClient[k]
    <2>1. k - 1 \in 1..(Len(toClient) - 1) /\ (k - 1) + 1 = k
      BY <1>2, <1>3
    <2> QED
      BY <1>2, <2>1
  <1> QED
    BY <1>2, <1>3 DEF Receive

\* frps takes the first message.
LEMMA ServeFacts ==
  ASSUME Types, NEW type, Serve(type)
  PROVE  /\ conn = "up" /\ ~ net.stalled
         /\ UNCHANGED <<conn, epoch, client, timers, garbled>>
         /\ toServer' \in Seq(Messages) /\ Len(toServer') = Len(toServer) - 1
         /\ Len(toServer) \in Nat /\ 1 \in 1..Len(toServer)
         /\ Head(toServer) = toServer[1] /\ toServer[1] \in Messages /\ toServer[1].type = type
         /\ \A k \in 1..Len(toServer') :
              toServer'[k] = toServer[k + 1] /\ k + 1 \in 1..Len(toServer)
         /\ \A k \in 1..Len(toServer) : k # 1 => k - 1 \in 1..Len(toServer')
                                              /\ toServer'[k - 1] = toServer[k]
  <1>1. toServer \in Seq(Messages) /\ toServer # <<>> /\ toServer' = Tail(toServer)
    BY DEF Types, Serve
  <1>2. /\ Head(toServer) \in Messages /\ Head(toServer) = toServer[1] /\ 1 \in 1..Len(toServer)
        /\ Len(toServer) \in Nat /\ toServer' \in Seq(Messages) /\ Len(toServer') = Len(toServer) - 1
        /\ \A k \in 1..(Len(toServer) - 1) :
             toServer'[k] = toServer[k + 1] /\ k + 1 \in 1..Len(toServer)
    BY <1>1, TailFacts
  <1>3. ASSUME NEW k \in 1..Len(toServer), k # 1
        PROVE  k - 1 \in 1..Len(toServer') /\ toServer'[k - 1] = toServer[k]
    <2>1. k - 1 \in 1..(Len(toServer) - 1) /\ (k - 1) + 1 = k
      BY <1>2, <1>3
    <2> QED
      BY <1>2, <2>1
  <1> QED
    BY <1>2, <1>3 DEF Serve

\* frps answers with one message.
LEMMA AnswerFacts ==
  ASSUME Types, NEW m \in Messages, Answer(<<m>>)
  PROVE  /\ toClient' \in Seq(Messages) /\ Len(toClient') = Len(toClient) + 1 /\ Len(toClient) \in Nat
         /\ \A k \in 1..Len(toClient) : toClient'[k] = toClient[k] /\ k \in 1..Len(toClient')
         /\ toClient'[Len(toClient) + 1] = m
         /\ \A k \in 1..Len(toClient') : k \in 1..Len(toClient) \/ k = Len(toClient) + 1
  <1>1. toClient \in Seq(Messages) /\ <<m>> \in Seq(Messages) /\ Len(<<m>>) = 1 /\ <<m>>[1] = m
    BY DEF Types
  <1>2. toClient' = toClient \o <<m>>
    BY DEF Answer
  <1> QED
    BY <1>1, <1>2, ConcatFacts

\* A message of frps under its IV.
LEMMA EncMsg ==
  ASSUME Types
  PROVE  /\ ServerIV \in IVs /\ ServerIV # NoIV
         /\ \A t \in ServerEnc :
              /\ Msg(t, 0, ServerIV) \in Messages /\ Msg(t, 0, ServerIV).type = t
              /\ Msg(t, 0, ServerIV).iv = ServerIV
         /\ /\ Msg("ReqWorkConn", 0, ServerIV) \in Messages
            /\ Msg("NewProxyResp", 0, ServerIV) \in Messages
            /\ Msg("Pong", 0, ServerIV) \in Messages
  <1>1. ServerIV \in IVs /\ ServerIV # NoIV
    BY IVFacts DEF ServerIV, Types
  <1> QED
    BY <1>1, MsgFacts DEF ServerEnc, MsgTypes

\* TypeReqWorkConn: the services if none is announced yet, and a work stream.
LEMMA ReqSends ==
  ASSUME Types, UpInv, RecvReqWorkConn
  PROVE  LET id == g_session_id
             p == IF client_connected THEN <<>> ELSE start_proxy_services
             w == new_client_connect(id)
         IN /\ p \in Seq(Messages) /\ w \in Seq(Messages) /\ p \o w \in Seq(Messages)
            /\ Len(w) = 2 /\ w[1] = Msg("SYN", id, NoIV) /\ w[2] = Msg("NewWorkConn", id, NoIV)
            /\ toServer' = toServer \o (p \o w) /\ toServer' \in Seq(Messages)
            /\ w[1] \in Messages /\ w[2] \in Messages
  <1> DEFINE id == g_session_id
             p == IF client_connected THEN <<>> ELSE start_proxy_services
             w == new_client_connect(id)
  <1>1. p \in Seq(Messages)
    <2>1. Encrypted("NewProxy", NumServices) \in Seq(Messages)
      BY EncryptedFacts, ControlAssumption DEF MsgTypes
    <2> QED
      BY <2>1 DEF start_proxy_services
  <1>2. /\ w = <<Msg("SYN", id, NoIV), Msg("NewWorkConn", id, NoIV)>>
        /\ Msg("SYN", id, NoIV) \in Messages /\ Msg("NewWorkConn", id, NoIV) \in Messages
    BY MsgFacts DEF new_client_connect, new_work_connection, MsgTypes, Types, IVs
  <1>3. /\ w \in Seq(Messages) /\ Len(w) = 2
        /\ w[1] = Msg("SYN", id, NoIV) /\ w[2] = Msg("NewWorkConn", id, NoIV)
    BY <1>2
  <1>4. toServer' = toServer \o p \o w
    BY DEF RecvReqWorkConn
  <1> HIDE DEF p, w
  <1>5. toServer \in Seq(Messages)
    BY DEF Types
  <1>6. toServer \o p \o w = toServer \o (p \o w) /\ p \o w \in Seq(Messages)
    BY <1>1, <1>3, <1>5
  <1>7. toServer \o (p \o w) \in Seq(Messages)
    BY <1>5, <1>6
  <1>8. /\ p \in Seq(Messages) /\ w \in Seq(Messages) /\ p \o w \in Seq(Messages)
        /\ Len(w) = 2 /\ w[1] = Msg("SYN", id, NoIV) /\ w[2] = Msg("NewWorkConn", id, NoIV)
        /\ toServer' = toServer \o (p \o w) /\ toServer' \in Seq(Messages)
        /\ w[1] \in Messages /\ w[2] \in Messages
    BY <1>1, <1>2, <1>3, <1>4, <1>6, <1>7
  <1> QED
    BY <1>8 DEF p, w

\* Types are kept.
LEMMA NextTypes == CInv /\ [Next]_vars => Types'
  <1> SUFFICES ASSUME CInv, [Next]_vars PROVE Types'
    OBVIOUS
  <1>t. Types /\ UpInv
    BY DEF CInv
  <1> USE ControlAssumption
  <1>1. CASE Connected
    <2>1. main' \in [id : Nat, state : {"INIT", "SYN_SEND", "ESTABLISHED"}]
      BY <1>t, <1>1 DEF Types, Connected
    <2>2. toServer' \in Seq(Messages)
      <3>1. main.id \in Nat /\ NoIV \in IVs
        BY <1>t DEF Types, IVs
      <3>2. Msg("SYN", main.id, NoIV) \in Messages /\ login \in Messages
        BY <3>1, MsgFacts DEF login, MsgTypes
      <3> QED
        BY <1>1, <3>2 DEF Connected
    <2> QED
      BY <1>t, <1>1, <2>1, <2>2 DEF Types, Connected, keep_control_alive, set_ticker_ping_timer
  <1>2. CASE ConnectionLost
    <2>1. /\ main' \in [id : Nat, state : {"INIT", "SYN_SEND", "ESTABLISHED"}]
          /\ NewPeer \in Peers /\ NoCoders \in Coders /\ epoch' \in Nat
          /\ <<>> \in Seq(Messages)
      BY <1>t, <1>2 DEF ConnectionLost, clear_main_control, run_control, NewMainStream, NewPeer, Peers, NoCoders,
                    Coders, IVs, Types
    <2>2. net' \in [stalled : BOOLEAN, ever : BOOLEAN, faults : Nat]
      BY <1>t, <1>2 DEF ConnectionLost, Types
    <2> QED
      BY <1>t, <1>2, <2>1, <2>2 DEF ConnectionLost, clear_main_control, run_control, NewMainStream, Types,
         clear_all_proxy_client, free_evp_cipher_ctx, ResetStatus
  <1>3. CASE HbPing
    <2>1. toServer' \in Seq(Messages) /\ coders' \in Coders
      <3>1. CASE client_connected
        <4>1. Encrypted("Ping", 1) \in Seq(Messages)
          BY <1>t, EncryptedFacts DEF MsgTypes
        <4>2. toServer' = toServer \o Encrypted("Ping", 1) /\ coders' = CodersSending
          BY <1>3, <3>1 DEF HbPing, ping
        <4> QED
          BY <1>t, <4>1, <4>2, ConcatFacts, SendingFacts DEF Types
      <3>2. CASE ~ client_connected
        BY <1>t, <1>3, <3>2 DEF HbPing, Types
      <3> QED
        BY <3>1, <3>2
    <2> QED
      BY <1>t, <1>3, <2>1 DEF Types, HbPing, set_ticker_ping_timer
  <1>4. CASE HbExpired
    <2>1. /\ main' \in [id : Nat, state : {"INIT", "SYN_SEND", "ESTABLISHED"}]
          /\ NewPeer \in Peers /\ NoCoders \in Coders /\ epoch' \in Nat
          /\ <<>> \in Seq(Messages)
      BY <1>t, <1>4 DEF HbExpired, clear_main_control, run_control, NewMainStream, NewPeer, Peers, NoCoders,
                    Coders, IVs, Types
    <2>2. net' \in [stalled : BOOLEAN, ever : BOOLEAN, faults : Nat]
      BY <1>t, <1>4 DEF HbExpired, Types
    <2> QED
      BY <1>t, <1>4, <2>1, <2>2 DEF HbExpired, clear_main_control, run_control, NewMainStream, Types,
         clear_all_proxy_client, free_evp_cipher_ctx, ResetStatus
  <1>5. CASE PassTime
    BY <1>t, <1>5 DEF Types, PassTime, client
  <1>6. CASE RecvAck
    <2>1. toClient' \in Seq(Messages)
      BY <1>t, <1>6, ReceiveFacts DEF RecvAck
    <2> QED
      BY <1>t, <1>6, <2>1 DEF Types, RecvAck, timers
  <1>7. CASE RecvLoginResp
    <2>1. toClient' \in Seq(Messages)
      BY <1>t, <1>7, ReceiveFacts DEF RecvLoginResp
    <2> QED
      BY <1>t, <1>7, <2>1 DEF Types, RecvLoginResp, timers
  <1>8. CASE RecvIV
    <2>1. toClient' \in Seq(Messages) /\ Head(toClient).iv \in IVs
      BY <1>t, <1>8, ReceiveFacts, MsgFacts DEF RecvIV
    <2>2. coders' \in Coders
      BY <1>t, <1>8, <2>1 DEF RecvIV, Coders, Types
    <2> QED
      BY <1>t, <1>8, <2>1, <2>2 DEF Types, RecvIV, timers
  <1>9. CASE RecvReqWorkConn
    <2>1. toClient' \in Seq(Messages)
      BY <1>t, <1>9, ReceiveFacts DEF RecvReqWorkConn, Decrypt
    <2>2. coders' \in Coders /\ garbled' \in BOOLEAN
      BY <1>t, <1>9, SendingFacts DEF RecvReqWorkConn, Decrypt, Decrypting, Coders, Types
    <2>3. toServer' \in Seq(Messages)
      BY <1>t, <1>9, ReqSends
    <2> QED
      BY <1>t, <1>9, <2>1, <2>2, <2>3 DEF Types, RecvReqWorkConn, timers
  <1>10. CASE RecvNewProxyResp
    <2>1. toClient' \in Seq(Messages)
      BY <1>t, <1>10, ReceiveFacts DEF RecvNewProxyResp, Decrypt
    <2>2. coders' \in Coders /\ garbled' \in BOOLEAN
      BY <1>t, <1>10 DEF RecvNewProxyResp, Decrypt, Decrypting, Coders, Types
    <2> QED
      BY <1>t, <1>10, <2>1, <2>2 DEF Types, RecvNewProxyResp, timers
  <1>11. CASE RecvPong
    <2>1. toClient' \in Seq(Messages)
      BY <1>t, <1>11, ReceiveFacts DEF RecvPong, Decrypt
    <2>2. coders' \in Coders /\ garbled' \in BOOLEAN
      BY <1>t, <1>11 DEF RecvPong, Decrypt, Decrypting, Coders, Types
    <2> QED
      BY <1>t, <1>11, <2>1, <2>2 DEF Types, RecvPong, timers
  <1>12. CASE SrvSyn
    <2>1. /\ toServer' \in Seq(Messages) /\ UNCHANGED <<conn, epoch, client, timers, garbled>>
          /\ Head(toServer) \in Messages
      BY <1>t, <1>12, ServeFacts DEF SrvSyn
    <2>2. Head(toServer).id \in Nat /\ Head(toServer).iv \in IVs
      BY <2>1, MsgFacts
    <2>3. srv' \in Peers
      BY <1>t, <1>12, <2>2 DEF SrvSyn, Peers, Types
    <2>4. toClient' \in Seq(Messages)
      <3>1. Msg("ACK", Head(toServer).id, NoIV) \in Messages
        BY <2>2, MsgFacts DEF MsgTypes, IVs
      <3>2. toClient' = toClient \o (IF srv.streams = {} THEN <<Msg("ACK", Head(toServer).id, NoIV)>>
                                    ELSE <<>>)
        BY <1>12 DEF SrvSyn, Answer
      <3>3. toClient \in Seq(Messages)
        BY <1>t DEF Types
      <3>4. CASE srv.streams = {}
        BY <3>1, <3>2, <3>3, <3>4
      <3>5. CASE srv.streams # {}
        BY <3>2, <3>3, <3>5
      <3> QED
        BY <3>4, <3>5
    <2> QED
      BY <1>t, <1>12, <2>1, <2>3, <2>4 DEF Types, SrvSyn, client, timers
  <1>13. CASE SrvLogin
    <2>1. /\ toServer' \in Seq(Messages) /\ UNCHANGED <<conn, epoch, client, timers, garbled>>
          /\ Head(toServer) \in Messages
      BY <1>t, <1>13, ServeFacts DEF SrvLogin
    <2>2. Head(toServer).id \in Nat /\ Head(toServer).iv \in IVs
      BY <2>1, MsgFacts
    <2>3. srv' \in Peers
      <3>1. \/ srv' = [srv EXCEPT !.logged = TRUE, !.reqs = 1]
            \/ srv' = [srv EXCEPT !.refused = TRUE]
        BY <1>13 DEF SrvLogin
      <3>2. srv \in Peers
        BY <1>t DEF Types
      <3>3. CASE srv' = [srv EXCEPT !.logged = TRUE, !.reqs = 1]
        BY <3>2, <3>3 DEF Peers
      <3>4. CASE srv' = [srv EXCEPT !.refused = TRUE]
        BY <3>2, <3>4 DEF Peers
      <3> QED
        BY <3>1, <3>3, <3>4
    <2>4. toClient' \in Seq(Messages)
      <3>1. ServerIV \in IVs /\ NoIV \in IVs
        BY <1>t, IVFacts DEF ServerIV, Types
      <3>2. /\ Msg("LoginResp", 1, NoIV) \in Messages /\ Msg("IV", 0, ServerIV) \in Messages
            /\ Msg("ReqWorkConn", 0, ServerIV) \in Messages /\ Msg("LoginResp", 0, NoIV) \in Messages
        BY <3>1, MsgFacts DEF MsgTypes
      <3>3. \/ toClient' = toClient \o <<Msg("LoginResp", 1, NoIV), Msg("IV", 0, ServerIV),
                                         Msg("ReqWorkConn", 0, ServerIV)>>
            \/ toClient' = toClient \o <<Msg("LoginResp", 0, NoIV)>>
        BY <1>13 DEF SrvLogin, Answer
      <3>4. toClient \in Seq(Messages)
        BY <1>t DEF Types
      <3>5. /\ <<Msg("LoginResp", 1, NoIV), Msg("IV", 0, ServerIV),
                 Msg("ReqWorkConn", 0, ServerIV)>> \in Seq(Messages)
            /\ <<Msg("LoginResp", 0, NoIV)>> \in Seq(Messages)
        BY <3>2
      <3> QED
        BY <3>3, <3>4, <3>5, ConcatFacts
    <2>5. net' \in [stalled : BOOLEAN, ever : BOOLEAN, faults : Nat]
      <3>1. net' = net \/ (net.faults > 0 /\ net' = [net EXCEPT !.faults = @ - 1])
        BY <1>13 DEF SrvLogin
      <3>2. net \in [stalled : BOOLEAN, ever : BOOLEAN, faults : Nat]
        BY <1>t DEF Types
      <3>3. CASE net.faults > 0 /\ net' = [net EXCEPT !.faults = @ - 1]
        <4>1. net.faults - 1 \in Nat
          BY <3>2, <3>3
        <4> QED
          BY <3>2, <3>3, <4>1
      <3> QED
        BY <3>1, <3>2, <3>3
    <2> QED
      BY <1>t, <2>1, <2>3, <2>4, <2>5 DEF Types, client, timers
  <1>14. CASE SrvIV
    <2>1. /\ toServer' \in Seq(Messages) /\ UNCHANGED <<conn, epoch, client, timers, garbled>>
          /\ Head(toServer) \in Messages
      BY <1>t, <1>14, ServeFacts DEF SrvIV
    <2>2. Head(toServer).id \in Nat /\ Head(toServer).iv \in IVs
      BY <2>1, MsgFacts
    <2>3. srv' \in Peers
      BY <1>t, <1>14, <2>2 DEF SrvIV, Peers, Types
    <2>4. toClient' \in Seq(Messages)
      BY <1>t, <1>14 DEF SrvIV, Types
    <2> QED
      BY <1>t, <1>14, <2>1, <2>3, <2>4 DEF Types, SrvIV, client, timers
  <1>15. CASE SrvNewProxy
    <2>1. /\ toServer' \in Seq(Messages) /\ UNCHANGED <<conn, epoch, client, timers, garbled>>
          /\ Head(toServer) \in Messages
      BY <1>t, <1>15, ServeFacts DEF SrvNewProxy
    <2>2. Head(toServer).id \in Nat /\ Head(toServer).iv \in IVs
      BY <2>1, MsgFacts
    <2>3. srv' \in Peers
      <3>1. srv \in Peers /\ srv.registered \in Seq(Nat)
        BY <1>t DEF Types, Peers
      <3>2. Append(srv.registered, Head(toServer).id) \in Seq(Nat)
        BY <2>2, <3>1
      <3> QED
        BY <1>15, <3>1, <3>2 DEF SrvNewProxy, Peers, Garbage
    <2>4. toClient' \in Seq(Messages)
      BY <1>t, <1>15, AnswerFacts, EncMsg DEF SrvNewProxy
    <2> QED
      BY <1>t, <1>15, <2>1, <2>3, <2>4 DEF Types, SrvNewProxy, client, timers
  <1>16. CASE SrvPing
    <2>1. /\ toServer' \in Seq(Messages) /\ UNCHANGED <<conn, epoch, client, timers, garbled>>
          /\ Head(toServer) \in Messages
      BY <1>t, <1>16, ServeFacts DEF SrvPing
    <2>2. Head(toServer).id \in Nat /\ Head(toServer).iv \in IVs
      BY <2>1, MsgFacts
    <2>3. srv' \in Peers
      BY <1>t, <1>16, <2>2 DEF SrvPing, Peers, Types
    <2>4. toClient' \in Seq(Messages)
      BY <1>t, <1>16, AnswerFacts, EncMsg DEF SrvPing
    <2> QED
      BY <1>t, <1>16, <2>1, <2>3, <2>4 DEF Types, SrvPing, client, timers
  <1>17. CASE SrvNewWorkConn
    <2>1. /\ toServer' \in Seq(Messages) /\ UNCHANGED <<conn, epoch, client, timers, garbled>>
          /\ Head(toServer) \in Messages
      BY <1>t, <1>17, ServeFacts DEF SrvNewWorkConn
    <2>2. Head(toServer).id \in Nat /\ Head(toServer).iv \in IVs
      BY <2>1, MsgFacts
    <2>3. srv' \in Peers
      BY <1>t, <1>17, <2>2 DEF SrvNewWorkConn, Peers, Types
    <2>4. toClient' \in Seq(Messages)
      BY <1>t, <1>17 DEF SrvNewWorkConn, Types
    <2> QED
      BY <1>t, <1>17, <2>1, <2>3, <2>4 DEF Types, SrvNewWorkConn, client, timers
  <1>18. CASE SrvAsks
    <2>1. toClient' \in Seq(Messages)
      BY <1>t, <1>18, AnswerFacts, EncMsg DEF SrvAsks
    <2>2. srv' \in Peers
      <3>1. srv \in Peers /\ srv.reqs + 1 \in Nat
        BY <1>t DEF Types, Peers
      <3>2. srv' = [srv EXCEPT !.reqs = @ + 1]
        BY <1>18 DEF SrvAsks
      <3> QED
        BY <3>1, <3>2 DEF Peers
    <2> QED
      BY <1>t, <1>18, <2>1, <2>2 DEF Types, SrvAsks, client, timers
  <1>19. CASE Stall
    BY <1>t, <1>19 DEF Types, Stall, client, timers
  <1>20. CASE Heal
    BY <1>t, <1>20 DEF Types, Heal, client, timers
  <1>21. CASE UNCHANGED vars
    BY <1>t, <1>21 DEF vars, client, timers, Types
  <1> QED
    BY <1>1, <1>2, <1>3, <1>4, <1>5, <1>6, <1>7, <1>8, <1>9, <1>10, <1>11, <1>12, <1>13,
       <1>14, <1>15, <1>16, <1>17, <1>18, <1>19, <1>20, <1>21
       DEF Next, ClientRecv, ServerRecv, Exited
-----------------------------------------------------------------------------
(* What the client sends                                                     *)

\* The services that TypeReqWorkConn announces, and whether an IV is due.
Announced == IF client_connected THEN 0 ELSE NumServices
IVDue(n) == IF n > 0 /\ coders.encoder = NoIV THEN 1 ELSE 0

\* One message behind a sequence of them.
LEMMA AppendFacts ==
  ASSUME NEW S, NEW s \in Seq(S), NEW q \in Seq(S), NEW t, t = s \o q
  PROVE  /\ t \in Seq(S) /\ Len(t) = Len(s) + Len(q) /\ Len(s) \in Nat /\ Len(q) \in Nat
         /\ \A k \in 1..Len(s) : t[k] = s[k] /\ k \in 1..Len(t)
         /\ \A k \in 1..Len(q) : t[Len(s) + k] = q[k]
  BY ConcatFacts

\* n messages under encryption, behind the IV if that is due.
LEMMA EncryptedShape ==
  ASSUME Types, UpInv, NEW type \in MsgTypes, NEW n \in Nat, n > 0
  PROVE  /\ Encrypted(type, n) \in Seq(Messages) /\ Len(Encrypted(type, n)) = IVDue(n) + n
         /\ IVDue(n) = 1 => Encrypted(type, n)[1] = Msg("IV", 0, CodersSending.encoder)
         /\ \A k \in 1..n : /\ IVDue(n) + k \in 1..Len(Encrypted(type, n))
                            /\ Encrypted(type, n)[IVDue(n) + k] = Msg(type, k, CodersSending.encoder)
  <1>1. CASE coders.encoder = NoIV
    <2>1. IVDue(n) = 1 /\ \A k \in 1..n : k + 1 = 1 + k
      BY <1>1 DEF IVDue
    <2>2. /\ Encrypted(type, n) \in Seq(Messages) /\ Len(Encrypted(type, n)) = n + 1
          /\ Encrypted(type, n)[1] = Msg("IV", 0, CodersSending.encoder)
          /\ \A k \in 1..n : k + 1 \in 1..Len(Encrypted(type, n))
                             /\ Encrypted(type, n)[k + 1] = Msg(type, k, CodersSending.encoder)
      BY <1>1, EncryptedFacts
    <2> QED
      BY <2>1, <2>2
  <1>2. CASE coders.encoder # NoIV
    <2>1. IVDue(n) = 0 /\ \A k \in 1..n : k + 0 = 0 + k
      BY <1>2 DEF IVDue
    <2>2. /\ Encrypted(type, n) \in Seq(Messages) /\ Len(Encrypted(type, n)) = n + 0
          /\ \A k \in 1..n : k + 0 \in 1..Len(Encrypted(type, n))
                             /\ Encrypted(type, n)[k + 0] = Msg(type, k, CodersSending.encoder)
      BY <1>2, EncryptedFacts
    <2> QED
      BY <2>1, <2>2
  <1> QED
    BY <1>1, <1>2

\* What hb_sender_cb sends: the IV if it is due, and a ping.
LEMMA PingShape ==
  ASSUME Types, UpInv, HbPing, client_connected
  PROVE  LET L == Len(toServer)
             d == IVDue(1)
             c == coders'.encoder
         IN /\ L \in Nat /\ d \in {0, 1} /\ (d = 1 <=> coders.encoder = NoIV)
            /\ coders'.enc_ctx = c /\ c # NoIV /\ c \in IVs
            /\ coders.encoder # NoIV => c = coders.encoder
            /\ coders'.decoder = coders.decoder /\ coders'.dec_ctx = coders.dec_ctx
            /\ Len(toServer') = L + d + 1
            /\ \A k \in 1..L : toServer'[k] = toServer[k] /\ k \in 1..Len(toServer')
            /\ d = 1 => toServer'[L + 1] = Msg("IV", 0, c)
            /\ toServer'[L + d + 1] = Msg("Ping", 1, c)
            /\ \A k \in 1..Len(toServer') : k \in 1..L \/ (d = 1 /\ k = L + 1) \/ k = L + d + 1
  <1> DEFINE L == Len(toServer)
             d == IVDue(1)
             q == Encrypted("Ping", 1)
  <1>1. toServer' = toServer \o q /\ coders' = CodersSending
    BY DEF HbPing, ping
  <1>2. "Ping" \in MsgTypes /\ toServer \in Seq(Messages) /\ d \in {0, 1} /\ (d = 1 <=> coders.encoder = NoIV)
    BY DEF MsgTypes, Types, IVDue
  <1>3. /\ q \in Seq(Messages) /\ Len(q) = d + 1
        /\ d = 1 => q[1] = Msg("IV", 0, CodersSending.encoder)
        /\ q[d + 1] = Msg("Ping", 1, CodersSending.encoder)
    <2>1. 1 \in Nat /\ 1 > 0 /\ 1 \in 1..1
      OBVIOUS
    <2> QED
      BY <1>2, <2>1, EncryptedShape
  <1> HIDE DEF q, d
  <1>4. /\ Len(toServer') = L + Len(q) /\ L \in Nat
        /\ \A k \in 1..L : toServer'[k] = toServer[k] /\ k \in 1..Len(toServer')
        /\ \A k \in 1..Len(q) : toServer'[L + k] = q[k]
    BY <1>1, <1>2, <1>3, AppendFacts
  <1>5. 1 \in 1..Len(q) /\ d + 1 \in 1..Len(q) /\ L + (d + 1) = L + d + 1
    BY <1>2, <1>3, <1>4
  <1>6. /\ d = 1 => toServer'[L + 1] = q[1]
        /\ toServer'[L + d + 1] = q[d + 1]
    BY <1>4, <1>5
  <1>7. \A k \in 1..Len(toServer') : k \in 1..L \/ (d = 1 /\ k = L + 1) \/ k = L + d + 1
    BY <1>2, <1>3, <1>4
  <1>8. CodersSending.encoder \in IVs
    BY SendingFacts DEF Coders
  <1> QED
    BY <1>1, <1>2, <1>3, <1>4, <1>6, <1>7, <1>8, SendingFacts DEF d

\* What TypeReqWorkConn sends: the IV if it is due, the services in their
\* order, SYN and NewWorkConn.
LEMMA ReqShape ==
  ASSUME Types, UpInv, RecvReqWorkConn
  PROVE  LET L == Len(toServer)
             n == Announced
             d == IVDue(n)
             c == coders'.encoder
         IN /\ L \in Nat /\ n \in Nat /\ d \in {0, 1} /\ (d = 1 <=> n > 0 /\ coders.encoder = NoIV)
            /\ coders'.enc_ctx = c /\ (n > 0 => c # NoIV) /\ c \in IVs
            /\ (coders.encoder # NoIV \/ n = 0) => c = coders.encoder
            /\ coders'.decoder = coders.decoder
            /\ coders'.dec_ctx = IF coders.dec_ctx = NoIV THEN coders.decoder ELSE coders.dec_ctx
            /\ Len(toServer') = L + d + n + 2
            /\ \A k \in 1..L : toServer'[k] = toServer[k] /\ k \in 1..Len(toServer')
            /\ d = 1 => toServer'[L + 1] = Msg("IV", 0, c)
            /\ \A k \in 1..n : toServer'[L + d + k] = Msg("NewProxy", k, c)
            /\ toServer'[L + d + n + 1] = Msg("SYN", g_session_id, NoIV)
            /\ toServer'[L + d + n + 2] = Msg("NewWorkConn", g_session_id, NoIV)
            /\ \A k \in 1..Len(toServer') :
                 \/ k \in 1..L
                 \/ d = 1 /\ k = L + 1
                 \/ k - L - d \in 1..n /\ k = L + d + (k - L - d)
                 \/ k = L + d + n + 1 \/ k = L + d + n + 2
  <1> DEFINE p == IF client_connected THEN <<>> ELSE start_proxy_services
             w == new_client_connect(g_session_id)
             L == Len(toServer)
             n == Announced
             d == IVDue(n)
             c == coders'.encoder
  <1>0. NumServices \in Nat /\ n \in Nat
    BY ControlAssumption DEF Announced
  <1>1. /\ p \in Seq(Messages) /\ w \in Seq(Messages) /\ p \o w \in Seq(Messages)
        /\ Len(w) = 2 /\ w[1] = Msg("SYN", g_session_id, NoIV)
        /\ w[2] = Msg("NewWorkConn", g_session_id, NoIV)
        /\ toServer' = toServer \o (p \o w)
    BY ReqSends
  <1>2. n = 0 => p = <<>>
    BY DEF start_proxy_services, Announced
  <1>3. n > 0 => ~ client_connected /\ n = NumServices /\ p = Encrypted("NewProxy", n)
    BY <1>0 DEF start_proxy_services, Announced
  <1>9. d \in {0, 1} /\ (d = 1 <=> n > 0 /\ coders.encoder = NoIV)
    BY <1>0 DEF IVDue
  <1>5. coders' = Decrypting(IF p = <<>> THEN coders ELSE CodersSending)
    BY DEF RecvReqWorkConn, Decrypt
  <1>a. "NewProxy" \in MsgTypes
    BY DEF MsgTypes
  <1> HIDE DEF p, w, n, d
  <1>s. ASSUME n > 0
        PROVE  /\ p # <<>> /\ Len(p) = d + n
               /\ d = 1 => p[1] = Msg("IV", 0, CodersSending.encoder)
               /\ \A k \in 1..n : d + k \in 1..Len(p) /\ p[d + k] = Msg("NewProxy", k, CodersSending.encoder)
    <2>1. /\ Len(p) = d + n
          /\ d = 1 => p[1] = Msg("IV", 0, CodersSending.encoder)
          /\ \A k \in 1..n : d + k \in 1..Len(p) /\ p[d + k] = Msg("NewProxy", k, CodersSending.encoder)
      BY <1>0, <1>3, <1>a, <1>s, EncryptedShape DEF d
    <2>2. Len(p) > 0
      BY <1>0, <1>9, <1>s, <2>1
    <2> QED
      BY <2>1, <2>2
  <1>d. /\ coders'.decoder = coders.decoder /\ coders' \in Coders
        /\ coders'.dec_ctx = IF coders.dec_ctx = NoIV THEN coders.decoder ELSE coders.dec_ctx
        /\ n = 0 => c = coders.encoder /\ coders'.enc_ctx = coders.enc_ctx
        /\ n > 0 => c = CodersSending.encoder /\ coders'.enc_ctx = CodersSending.enc_ctx
    <2>1. CASE n = 0
      <3>1. coders' = Decrypting(coders) /\ coders \in Coders
        BY <1>2, <1>5, <2>1 DEF Types
      <3> QED
        BY <2>1, <3>1 DEF Decrypting, Coders
    <2>2. CASE n > 0
      BY <1>s, <1>5, <2>2, SendingFacts DEF Decrypting, Coders, Types
    <2> QED
      BY <1>0, <2>1, <2>2
  <1>7. /\ coders'.enc_ctx = c /\ (n > 0 => c # NoIV) /\ c \in IVs
        /\ (coders.encoder # NoIV \/ n = 0) => c = coders.encoder
    <2>1. c \in IVs
      BY <1>d DEF Coders
    <2> QED
      BY <1>0, <1>d, <2>1, SendingFacts DEF UpInv
  <1>8. /\ Len(p) = d + n /\ (d = 1 => p[1] = Msg("IV", 0, c))
        /\ \A k \in 1..n : p[d + k] = Msg("NewProxy", k, c) /\ d + k \in 1..Len(p)
    <2>1. CASE n = 0
      BY <1>2, <1>9, <2>1
    <2>2. CASE n > 0
      BY <1>s, <1>d, <2>2
    <2> QED
      BY <1>0, <2>1, <2>2
  <1> DEFINE q == p \o w
  <1>p. p \in Seq(Messages) /\ w \in Seq(Messages) /\ q = p \o w /\ toServer' = toServer \o q
    BY <1>1
  <1> HIDE DEF q
  <1>10. /\ q \in Seq(Messages) /\ Len(q) = Len(p) + Len(w) /\ Len(p) \in Nat
         /\ \A k \in 1..Len(p) : q[k] = p[k]
         /\ \A k \in 1..Len(w) : q[Len(p) + k] = w[k]
    BY <1>p, AppendFacts
  <1>11. /\ Len(q) = d + n + 2 /\ q[d + n + 1] = w[1] /\ q[d + n + 2] = w[2]
    <2>1. 1 \in 1..Len(w) /\ 2 \in 1..Len(w)
      BY <1>1
    <2>2. q[Len(p) + 1] = w[1] /\ q[Len(p) + 2] = w[2]
      BY <1>10, <2>1
    <2> QED
      BY <1>1, <1>8, <1>10, <2>2
  <1>12. /\ d = 1 => q[1] = Msg("IV", 0, c)
         /\ \A k \in 1..n : q[d + k] = Msg("NewProxy", k, c)
    <2>1. d = 1 => 1 \in 1..Len(p)
      BY <1>0, <1>8
    <2> QED
      BY <1>8, <1>10, <2>1
  <1>t. toServer \in Seq(Messages) /\ q \in Seq(Messages) /\ toServer' = toServer \o q
    BY <1>p, <1>10 DEF Types
  <1>13. /\ Len(toServer') = L + Len(q) /\ L \in Nat
         /\ \A k \in 1..L : toServer'[k] = toServer[k] /\ k \in 1..Len(toServer')
         /\ \A k \in 1..Len(q) : toServer'[L + k] = q[k]
    BY <1>t, AppendFacts
  <1>14. d = 1 => toServer'[L + 1] = Msg("IV", 0, c)
    <2>1. d = 1 => 1 \in 1..Len(q)
      BY <1>0, <1>11
    <2> QED
      BY <1>12, <1>13, <2>1
  <1>15. ASSUME NEW k \in 1..n
         PROVE  toServer'[L + d + k] = Msg("NewProxy", k, c)
    <2>1. d + k \in 1..Len(q) /\ L + (d + k) = L + d + k
      BY <1>0, <1>9, <1>11, <1>13
    <2> QED
      BY <1>12, <1>13, <2>1
  <1>16. /\ toServer'[L + d + n + 1] = Msg("SYN", g_session_id, NoIV)
         /\ toServer'[L + d + n + 2] = Msg("NewWorkConn", g_session_id, NoIV)
    <2>1. /\ d + n + 1 \in 1..Len(q) /\ L + (d + n + 1) = L + d + n + 1
          /\ d + n + 2 \in 1..Len(q) /\ L + (d + n + 2) = L + d + n + 2
      BY <1>0, <1>9, <1>11, <1>13
    <2> QED
      BY <1>1, <1>11, <1>13, <2>1
  <1>18. Len(toServer') = L + d + n + 2 /\ L \in Nat
    BY <1>0, <1>9, <1>11, <1>13
  <1>17. \A k \in 1..Len(toServer') :
           \/ k \in 1..L
           \/ d = 1 /\ k = L + 1
           \/ k - L - d \in 1..n /\ k = L + d + (k - L - d)
           \/ k = L + d + n + 1 \/ k = L + d + n + 2
    BY <1>0, <1>9, <1>18
  <1> QED
    BY <1>0, <1>7, <1>9, <1>d, <1>13, <1>14, <1>15, <1>16, <1>17, <1>18 DEF n, d

-----------------------------------------------------------------------------
(* Steps that end, start or leave alone a connection                         *)

\* clear_main_control and run_control leave nothing of the connection.
LEMMA ClearedKeeps == CInv /\ (ConnectionLost \/ HbExpired) => CInv'
  <1>1. Types /\ Fresh /\ ~ garbled => CInv
    BY FreshHolds
  <1>2. CInv /\ (ConnectionLost \/ HbExpired) => Types'
    BY NextTypes DEF Next
  <1>3. CInv /\ (ConnectionLost \/ HbExpired) => Fresh' /\ ~ garbled'
    <2> SUFFICES ASSUME CInv, ConnectionLost \/ HbExpired PROVE Fresh' /\ ~ garbled'
      OBVIOUS
    <2>1. /\ clear_main_control /\ run_control /\ garbled' = garbled
          /\ ~ net'.stalled /\ ~ net'.ever
      <3>1. net \in [stalled : BOOLEAN, ever : BOOLEAN, faults : Nat]
        BY DEF CInv, Types
      <3>2. CASE ConnectionLost
        BY <3>1, <3>2 DEF ConnectionLost
      <3>3. CASE HbExpired
        BY <3>1, <3>3 DEF HbExpired
      <3> QED
        BY <3>2, <3>3
    <2>2. ~ garbled
      BY DEF CInv, DownInv
    <2> QED
      BY <2>1, <2>2 DEF Fresh, clear_main_control, run_control, clear_all_proxy_client,
         free_evp_cipher_ctx, ResetStatus, NewMainStream
  <1> QED
    BY <1>1, <1>2, <1>3, PTL

\* Invariants that do not speak of time survive a step that only time and the
\* network's condition take part in.
LEMMA QuietKeeps ==
  ASSUME CInv, UNCHANGED <<epoch, client, garbled, toServer, toClient, srv>>
  PROVE  (LoginInv /\ DownInv /\ UpInv /\ SynInv /\ RegInv /\ CountInv)'
  <1> USE DEF client
  <1>1. LoginInv'
    BY DEF CInv, LoginInv
  <1>2. DownInv'
    BY DEF CInv, DownInv, ServerIV, InClient
  <1>3. UpInv'
    BY DEF CInv, UpInv, InServer
  <1>4. SynInv'
    BY DEF CInv, SynInv
  <1>5. RegInv'
    BY DEF CInv, RegInv, RegistersFirst, InServer, LastService
  <1>6. CountInv'
    BY DEF CInv, CountInv, Requests, Offered
  <1> QED
    BY <1>1, <1>2, <1>3, <1>4, <1>5, <1>6

\* A Login, a request, a ping or a pong under way is under way in toServer or
\* toClient: not in neither.
LEMMA NothingUnderWay ==
  ASSUME toServer = <<>>, toClient = <<>>
  PROVE  ~ Pending /\ ~ InServer("Login") /\ ~ InClient("ReqWorkConn")
  <1>1. Len(toServer) = 0 /\ Len(toClient) = 0
    OBVIOUS
  <1> QED
    BY <1>1 DEF Pending, InServer, InClient

\* Time passes.
LEMMA PassTimeKeeps ==
  ASSUME CInv, PassTime
  PROVE  CInv'
  <1>1. Types'
    BY NextTypes DEF Next
  <1>2. (LoginInv /\ DownInv /\ UpInv /\ SynInv /\ RegInv /\ CountInv)'
    BY QuietKeeps DEF PassTime
  <1>3. /\ UNCHANGED <<conn, epoch, client, garbled, toServer, toClient, srv, net>> /\ conn = "up"
        /\ net.stalled \/ (toServer = <<>> /\ toClient = <<>>)
        /\ ticker' = IF ticker = -1 THEN -1 ELSE ticker - 1
        /\ age' = IF age = -1 THEN -1 ELSE age + 1
        /\ ticker # 0
    BY DEF PassTime
  <1>4. Idle'
    BY <1>3 DEF Idle
  <1>5. /\ Pending' = Pending /\ InServer("Login")' = InServer("Login")
        /\ InClient("ReqWorkConn")' = InClient("ReqWorkConn")
    BY <1>3 DEF Pending, InServer, InClient
  <1>6. TimeInv'
    <2>1. /\ age \in Nat /\ ticker \in 1..HbInterval /\ HbInterval \in Nat /\ HbTimeout \in Nat
          /\ age + ticker <= HbTimeout + HbInterval
          /\ client_connected \/ srv.refused \/ InServer("Login") \/ InClient("ReqWorkConn")
          /\ net.stalled => net.ever
      BY <1>3, ControlAssumption DEF CInv, TimeInv
    <2>2. age' = age + 1 /\ ticker' = ticker - 1 /\ conn' = "up"
      BY <1>3, <2>1
    <2>3. ASSUME ~ net.ever, ~ srv.refused
          PROVE  /\ age' <= HbInterval /\ client_connected /\ ~ Pending
                 /\ age' + ticker' = HbInterval
      <3>1. toServer = <<>> /\ toClient = <<>>
        BY <1>3, <2>1, <2>3
      <3>2. ~ Pending /\ client_connected
        BY <2>1, <2>3, <3>1, NothingUnderWay
      <3>3. age + ticker = HbInterval
        BY <1>3, <2>3, <3>2 DEF CInv, TimeInv
      <3> QED
        BY <2>1, <2>2, <3>2, <3>3
    <2>4. age' \in Nat /\ ticker' \in 0..HbInterval /\ age' + ticker' <= HbTimeout + HbInterval
      BY <2>1, <2>2
    <2> QED
      BY <1>3, <1>5, <2>1, <2>2, <2>3, <2>4 DEF TimeInv, client
  <1> QED
    BY <1>1, <1>2, <1>4, <1>6 DEF CInv

\* The network stalls or recovers, or nothing happens.
LEMMA NetKeeps ==
  ASSUME CInv, Stall \/ Heal \/ UNCHANGED vars
  PROVE  CInv'
  <1>1. Types'
    BY NextTypes DEF Next
  <1>2. UNCHANGED <<conn, epoch, client, timers, garbled, toServer, toClient, srv>>
    BY DEF Stall, Heal, vars
  <1>3. (LoginInv /\ DownInv /\ UpInv /\ SynInv /\ RegInv /\ CountInv)'
    BY <1>2, QuietKeeps
  <1>4. Idle'
    BY <1>2 DEF CInv, Idle, Fresh, Stall, Heal, vars, client, timers
  <1>5. /\ Pending' = Pending /\ InServer("Login")' = InServer("Login")
        /\ InClient("ReqWorkConn")' = InClient("ReqWorkConn")
    BY <1>2 DEF Pending, InServer, InClient
  <1>6. TimeInv'
    <2>1. net \in [stalled : BOOLEAN, ever : BOOLEAN, faults : Nat]
      BY DEF CInv, Types
    <2>2. ((net'.stalled => net'.ever) /\ (~ net'.ever => ~ net.ever)) \/ conn # "up"
      BY <2>1 DEF Stall, Heal, vars, CInv, TimeInv
    <2> QED
      BY <1>2, <1>5, <2>2 DEF CInv, TimeInv, client, timers
  <1> QED
    BY <1>1, <1>3, <1>4, <1>6 DEF CInv

\* connect_event_cb: the first messages of a connection.
LEMMA ConnectedKeeps ==
  ASSUME CInv, Connected
  PROVE  CInv'
  <1>1. Types'
    BY NextTypes DEF Next
  <1>2. Types /\ Fresh /\ ~ garbled
    BY DEF CInv, Idle, Connected, DownInv
  <1>3. /\ srv' = srv /\ srv.logged = FALSE /\ srv.refused = FALSE /\ srv.iv = NoIV
        /\ srv.registered = <<>> /\ srv.reqs = 0 /\ srv.streams = {} /\ srv.work = {}
        /\ srv.garbled = FALSE /\ srv.reused = FALSE
    BY <1>2 DEF Fresh, NewPeer, Connected
  <1>4. /\ coders' = coders /\ coders.encoder = NoIV /\ coders.decoder = NoIV
        /\ coders.enc_ctx = NoIV /\ coders.dec_ctx = NoIV
    BY <1>2 DEF Fresh, NoCoders, Connected
  <1>5. /\ toClient' = toClient /\ Len(toClient) = 0 /\ ~ is_login' /\ ~ client_connected'
        /\ g_session_id' = g_session_id /\ all_pc' = all_pc /\ all_pc = {} /\ epoch' = epoch
        /\ ~ garbled' /\ conn' = "up" /\ net' = net /\ ~ net.stalled /\ ~ net.ever
        /\ age' = 0 /\ ticker' = HbInterval
    BY <1>2 DEF Fresh, Connected, keep_control_alive, set_ticker_ping_timer
  <1>6. main'.id = main.id /\ main.id < g_session_id /\ main.id \in Nat /\ g_session_id \in Nat
    BY <1>2 DEF Fresh, Connected, Types
  <1>7. /\ Len(toServer') = 2 /\ toServer'[1].type = "SYN" /\ toServer'[1].id = main.id
        /\ toServer'[2].type = "Login"
    <2>1. toServer' = <<Msg("SYN", main.id, NoIV), Msg("Login", 0, NoIV)>>
      BY DEF Connected, login
    <2> QED
      BY <2>1 DEF Msg
  <1>8. \A k \in 1..Len(toServer') : k = 1 \/ k = 2
    BY <1>7
  <1>9. Idle'
    BY <1>5 DEF Idle
  <1>10. LoginInv'
    BY <1>3, <1>5, <1>7, <1>8 DEF LoginInv, ClientEnc, ServerEnc
  <1>11. DownInv'
    BY <1>3, <1>4, <1>5 DEF DownInv
  <1>12. UpInv'
    BY <1>3, <1>4, <1>7, <1>8 DEF UpInv, ClientEnc
  <1>13. SynInv'
    BY <1>3, <1>5, <1>6, <1>7, <1>8 DEF SynInv
  <1>14. RegInv'
    BY <1>3, <1>5, <1>7, <1>8 DEF RegInv, RegistersFirst, InServer
  <1>15. CountInv'
    <2>1. Requests' = {} /\ Offered' = {}
      BY <1>5, <1>7, <1>8 DEF Requests, Offered
    <2>2. Cardinality({}) = 0 /\ IsFiniteSet({})
      BY FS_EmptySet
    <2> QED
      BY <1>3, <1>5, <2>1, <2>2 DEF CountInv
  <1>16. TimeInv'
    <2>1. InServer("Login")'
      BY <1>7 DEF InServer
    <2>2. ~ Pending'
      BY <1>5, <1>7, <1>8 DEF Pending, InServer, InClient
    <2>3. HbInterval \in Nat /\ HbTimeout \in Nat /\ HbTimeout >= HbInterval
      BY ControlAssumption
    <2> QED
      BY <1>5, <2>1, <2>2, <2>3 DEF TimeInv
  <1> QED
    BY <1>1, <1>9, <1>10, <1>11, <1>12, <1>13, <1>14, <1>15, <1>16 DEF CInv

\* hb_sender_cb while frps answers: whether or not a ping is due.
LEMMA HbPingKeeps ==
  ASSUME CInv, HbPing
  PROVE  CInv'
  <1>1. Types'
    BY NextTypes DEF Next
  <1>2. /\ conn = "up" /\ ticker = 0 /\ age <= HbTimeout /\ ticker' = HbInterval
        /\ UNCHANGED <<conn, epoch, main, is_login, client_connected, g_session_id, all_pc,
                       age, garbled, toClient, srv, net>>
    <2>1. age \in Int /\ HbTimeout \in Nat
      BY ControlAssumption DEF CInv, Types
    <2> QED
      BY <2>1 DEF HbPing, Expired, set_ticker_ping_timer
  <1>3. Idle'
    BY <1>2 DEF Idle
  <1>4. /\ HbInterval \in Nat /\ HbInterval > 0 /\ HbTimeout \in Nat /\ age \in Nat
        /\ net.stalled => net.ever
        /\ ~ net.ever /\ ~ srv.refused => /\ age <= HbInterval /\ client_connected /\ ~ Pending
                                          /\ age = HbInterval
        /\ client_connected \/ srv.refused \/ InServer("Login") \/ InClient("ReqWorkConn")
    BY <1>2, ControlAssumption DEF CInv, TimeInv
  <1>5. CASE ~ client_connected
    <2>1. UNCHANGED <<toServer, coders>>
      BY <1>5 DEF HbPing
    <2>2. (LoginInv /\ DownInv /\ UpInv /\ SynInv /\ RegInv /\ CountInv)'
      BY <1>2, <2>1, QuietKeeps DEF client
    <2>3. InServer("Login")' = InServer("Login") /\ InClient("ReqWorkConn")' = InClient("ReqWorkConn")
      BY <1>2, <2>1 DEF InServer, InClient
    <2>4. TimeInv'
      BY <1>2, <1>4, <1>5, <2>3 DEF TimeInv
    <2> QED
      BY <1>1, <1>3, <2>2, <2>4 DEF CInv
  <1>6. CASE client_connected
    <2> DEFINE L == Len(toServer)
               d == IVDue(1)
               c == coders'.encoder
    <2>1. /\ L \in Nat /\ d \in {0, 1} /\ (d = 1 <=> coders.encoder = NoIV)
          /\ coders'.enc_ctx = c /\ c # NoIV /\ c \in IVs
          /\ coders.encoder # NoIV => c = coders.encoder
          /\ coders'.decoder = coders.decoder /\ coders'.dec_ctx = coders.dec_ctx
          /\ Len(toServer') = L + d + 1
          /\ \A k \in 1..L : toServer'[k] = toServer[k] /\ k \in 1..Len(toServer')
          /\ d = 1 => toServer'[L + 1] = Msg("IV", 0, c)
          /\ toServer'[L + d + 1] = Msg("Ping", 1, c)
          /\ \A k \in 1..Len(toServer') : k \in 1..L \/ (d = 1 /\ k = L + 1) \/ k = L + d + 1
      BY <1>6, PingShape DEF CInv
    <2> HIDE DEF d, c
    <2>2. /\ d = 1 => toServer'[L + 1].type = "IV" /\ toServer'[L + 1].iv = c
          /\ toServer'[L + d + 1].type = "Ping" /\ toServer'[L + d + 1].iv = c
      BY <2>1 DEF Msg
    <2>3. /\ \A k \in 1..Len(toServer') : toServer'[k].type \notin {"IV", "Ping"} =>
                                            k \in 1..L /\ toServer'[k] = toServer[k]
          /\ L + d + 1 \in 1..Len(toServer')
      BY <2>1, <2>2
    <2>4. srv.logged
      BY <1>6 DEF CInv, LoginInv
    <2>5. LoginInv'
      <3>1. \A k \in 1..Len(toServer') : toServer'[k].type = "Login" =>
                  k \in 1..L /\ toServer'[k] = toServer[k]
        BY <2>3
      <3> QED
        BY <1>2, <2>4, <3>1 DEF CInv, LoginInv
    <2>6. DownInv'
      BY <1>2, <2>1 DEF CInv, DownInv, ServerIV, InClient, c
    <2>7. UpInv'
      <3>1. UpInv
        BY DEF CInv
      <3>2. /\ ~ srv'.garbled /\ coders'.enc_ctx = coders'.encoder /\ coders'.encoder # NoIV
            /\ coders.encoder \in {NoIV, c} /\ srv'.iv \in {NoIV, coders'.encoder}
        BY <1>2, <2>1, <3>1 DEF UpInv, c
      <3>3. coders'.encoder # NoIV => srv'.iv # NoIV \/ InServer("IV")'
        <4>1. CASE d = 1
          BY <2>1, <2>2, <4>1 DEF InServer
        <4>2. CASE d = 0
          <5>1. srv.iv # NoIV \/ InServer("IV")
            BY <2>1, <3>1, <4>2 DEF UpInv
          <5> QED
            BY <1>2, <2>1, <5>1 DEF InServer
        <4> QED
          BY <2>1, <4>1, <4>2
      <3>4. ASSUME NEW i \in 1..Len(toServer')
            PROVE  /\ toServer'[i].type \in ClientEnc \cup {"IV"} =>
                        toServer'[i].iv = coders'.encoder /\ coders'.encoder # NoIV
                   /\ toServer'[i].type \in ClientEnc =>
                        srv'.iv # NoIV \/ \E j \in 1..(i - 1) : toServer'[j].type = "IV"
        <4>1. CASE i \in 1..L
          <5>1. toServer'[i] = toServer[i] /\ \A j \in 1..(i - 1) : j \in 1..L /\ toServer'[j] = toServer[j]
            BY <2>1, <4>1
          <5> QED
            BY <1>2, <2>1, <3>1, <4>1, <5>1 DEF UpInv, c
        <4>2. CASE d = 1 /\ i = L + 1
          BY <2>2, <4>2, <3>2 DEF c, ClientEnc
        <4>3. CASE i = L + d + 1
          <5>1. CASE d = 1
            <6>1. L + 1 \in 1..(i - 1)
              BY <2>1, <4>3, <5>1
            <6> QED
              BY <2>2, <4>3, <5>1, <6>1, <3>2 DEF c
          <5>2. CASE d = 0
            <6>1. srv.iv # NoIV \/ InServer("IV")
              BY <2>1, <3>1, <5>2 DEF UpInv
            <6>2. InServer("IV") => \E j \in 1..(i - 1) : toServer'[j].type = "IV"
              <7>1. \A j \in 1..L : j \in 1..(i - 1) /\ toServer'[j] = toServer[j]
                BY <2>1, <4>3, <5>2
              <7> QED
                BY <7>1 DEF InServer
            <6> QED
              BY <1>2, <2>2, <4>3, <6>1, <6>2, <3>2 DEF c
          <5> QED
            BY <2>1, <5>1, <5>2
        <4> QED
          BY <2>1, <4>1, <4>2, <4>3
      <3> QED
        BY <3>2, <3>3, <3>4 DEF UpInv
    <2>8. SynInv'
      <3>1. \A k \in 1..Len(toServer') : toServer'[k].type = "SYN" =>
                  k \in 1..L /\ toServer'[k] = toServer[k]
        BY <2>3
      <3> QED
        BY <1>2, <3>1 DEF CInv, SynInv
    <2>9. RegInv'
      <3>1. \A k \in 1..Len(toServer') : toServer'[k].type \in {"NewProxy", "NewWorkConn"} =>
                  /\ k \in 1..L /\ toServer'[k] = toServer[k]
                  /\ k > 1 => toServer'[k - 1] = toServer[k - 1]
                  /\ \A j \in 1..(k - 1) : toServer'[j] = toServer[j]
        <4>1. \A k \in 1..Len(toServer') : toServer'[k].type \in {"NewProxy", "NewWorkConn"} =>
                  k \in 1..L /\ toServer'[k] = toServer[k]
          BY <2>3
        <4>2. \A k \in 1..L : \A j \in 1..(k - 1) : j \in 1..L
          BY <2>1
        <4>3. \A k \in 1..L : k > 1 => k - 1 \in 1..L
          BY <2>1
        <4> QED
          BY <2>1, <4>1, <4>2, <4>3
      <3>2. RegInv
        BY DEF CInv
      <3>3. RegistersFirst' /\ (client_connected' => Len(srv'.registered) = NumServices \/ LastService')
        BY <1>2, <2>1, <3>2 DEF RegInv, RegistersFirst, LastService
      <3>4. ASSUME NEW i \in 1..Len(toServer'), toServer'[i].type = "NewProxy"
            PROVE  /\ toServer'[i].id > Len(srv'.registered) /\ toServer'[i].id <= NumServices
                   /\ \/ toServer'[i].id = Len(srv'.registered) + 1
                      \/ /\ i > 1 /\ toServer'[i - 1].type = "NewProxy"
                         /\ toServer'[i - 1].id = toServer'[i].id - 1
                   /\ \A j \in 1..Len(toServer') :
                        i < j /\ toServer'[j].type = "NewProxy" => toServer'[i].id < toServer'[j].id
        <4>1. /\ i \in 1..L /\ toServer'[i] = toServer[i]
              /\ i > 1 => toServer'[i - 1] = toServer[i - 1]
          BY <3>1, <3>4
        <4>2. \A j \in 1..Len(toServer') : toServer'[j].type = "NewProxy" =>
                j \in 1..L /\ toServer'[j] = toServer[j]
          BY <3>1
        <4> QED
          BY <1>2, <3>2, <3>4, <4>1, <4>2 DEF RegInv
      <3>5. ASSUME NEW i \in 1..Len(toServer'), toServer'[i].type = "NewWorkConn"
            PROVE  Len(srv'.registered) = NumServices \/ \E j \in 1..(i - 1) :
                     toServer'[j].type = "NewProxy" /\ toServer'[j].id = NumServices
        <4>1. /\ i \in 1..L /\ toServer'[i] = toServer[i]
              /\ \A j \in 1..(i - 1) : toServer'[j] = toServer[j]
          BY <3>1, <3>5
        <4> QED
          BY <1>2, <3>2, <3>5, <4>1 DEF RegInv
      <3> QED
        BY <1>2, <1>6, <3>3, <3>4, <3>5 DEF RegInv
    <2>10. CountInv'
      <3>1. \A k \in 1..Len(toServer') : toServer'[k].type = "NewWorkConn" =>
                  k \in 1..L /\ toServer'[k] = toServer[k]
        BY <2>3
      <3>2. Offered' = Offered /\ \A i \in Offered : toServer'[i].id = toServer[i].id
        BY <2>1, <3>1 DEF Offered
      <3>3. Requests' = Requests
        BY <1>2 DEF Requests
      <3> QED
        BY <1>2, <3>2, <3>3 DEF CInv, CountInv
    <2>11. TimeInv'
      <3>1. Pending'
        BY <2>2, <2>3 DEF Pending, InServer
      <3> QED
        BY <1>2, <1>4, <1>6, <3>1 DEF TimeInv
    <2> QED
      BY <1>1, <1>3, <2>5, <2>6, <2>7, <2>8, <2>9, <2>10, <2>11 DEF CInv
  <1> QED
    BY <1>5, <1>6

-----------------------------------------------------------------------------
(* Messages that arrive at the client                                        *)

\* Positions in a sequence that moves up by one: none is lost but the first.
LEMMA ShiftCount ==
  ASSUME NEW n \in Nat, NEW A \in SUBSET (1..n), NEW B, B = {k \in 1..(n - 1) : k + 1 \in A}
  PROVE  /\ IsFiniteSet(A) /\ IsFiniteSet(B) /\ Cardinality(A) \in Nat /\ Cardinality(B) \in Nat
         /\ Cardinality(B) = IF 1 \in A THEN Cardinality(A) - 1 ELSE Cardinality(A)
  <1>1. IsFiniteSet(A) /\ Cardinality(A) \in Nat
    <2>1. IsFiniteSet(1..n)
      BY FS_Interval
    <2> QED
      BY <2>1, FS_Subset, FS_CardinalityType
  <1> DEFINE C == A \ {1}
             f == [k \in B |-> k + 1]
  <1>2. /\ IsFiniteSet(C)
        /\ Cardinality(C) = IF 1 \in A THEN Cardinality(A) - 1 ELSE Cardinality(A)
    BY <1>1, FS_RemoveElement
  <1>3. IsFiniteSet(B)
    <2>1. IsFiniteSet(1..(n - 1)) /\ B \in SUBSET (1..(n - 1))
      BY FS_Interval
    <2> QED
      BY <2>1, FS_Subset
  <1>4. ExistsBijection(B, C)
    <2>1. f \in [B -> C]
      <3>1. ASSUME NEW k \in B PROVE k + 1 \in C
        BY <3>1
      <3> QED
        BY <3>1
    <2>2. \A x \in B, y \in B : f[x] = f[y] => x = y
      OBVIOUS
    <2>3. \A c \in C : \E x \in B : f[x] = c
      <3> TAKE c \in C
      <3>1. c \in 2..n /\ c - 1 \in 1..(n - 1) /\ (c - 1) + 1 = c
        OBVIOUS
      <3>2. c - 1 \in B
        BY <3>1
      <3> QED
        BY <3>1, <3>2
    <2> HIDE DEF f, C
    <2> QED
      BY <2>1, <2>2, <2>3 DEF ExistsBijection, Bijection, Injection, Surjection, IsInjective
  <1>5. Cardinality(C) = Cardinality(B)
    BY <1>3, <1>4, FS_Bijection
  <1> QED
    BY <1>1, <1>2, <1>3, <1>5, FS_CardinalityType

\* The requests left when the first message is taken.
LEMMA RequestsTaken ==
  ASSUME Types, NEW type, Receive(type)
  PROVE  /\ Cardinality(Requests) \in Nat /\ Cardinality(Requests') \in Nat
         /\ Cardinality(Requests') = IF type = "ReqWorkConn" THEN Cardinality(Requests) - 1
                                                             ELSE Cardinality(Requests)
  <1>1. /\ Len(toClient) \in Nat /\ Len(toClient') = Len(toClient) - 1
        /\ 1 \in 1..Len(toClient) /\ toClient[1].type = type
        /\ \A k \in 1..Len(toClient') : toClient'[k] = toClient[k + 1] /\ k + 1 \in 1..Len(toClient)
    BY ReceiveFacts
  <1>2. Requests \in SUBSET (1..Len(toClient)) /\ (1 \in Requests <=> type = "ReqWorkConn")
    BY <1>1 DEF Requests
  <1>3. Requests' = {k \in 1..(Len(toClient) - 1) : k + 1 \in Requests}
    BY <1>1 DEF Requests
  <1> QED
    BY <1>1, <1>2, <1>3, ShiftCount

\* What receiving anything but a request leaves as it is.
LEMMA ReceivedKeeps ==
  ASSUME CInv, NEW type, Receive(type), type # "ReqWorkConn",
         UNCHANGED <<conn, epoch, client_connected, g_session_id, all_pc, toServer, srv, net>>,
         main'.id = main.id, is_login' => srv.logged,
         coders'.encoder = coders.encoder, coders'.enc_ctx = coders.enc_ctx
  PROVE  (Idle /\ LoginInv /\ UpInv /\ SynInv /\ RegInv /\ CountInv)'
  <1>t. Types
    BY DEF CInv
  <1>1. /\ conn = "up"
        /\ \A k \in 1..Len(toClient') : toClient'[k] = toClient[k + 1] /\ k + 1 \in 1..Len(toClient)
    BY <1>t, ReceiveFacts
  <1>2. Idle'
    BY <1>1 DEF Idle
  <1>3. LoginInv'
    BY <1>1 DEF CInv, LoginInv
  <1>4. UpInv'
    BY DEF CInv, UpInv, InServer
  <1>5. SynInv'
    BY DEF CInv, SynInv
  <1>6. RegInv'
    BY DEF CInv, RegInv, RegistersFirst, InServer, LastService
  <1>7. CountInv'
    <2>1. Cardinality(Requests') = Cardinality(Requests)
      BY <1>t, RequestsTaken
    <2>2. Offered' = Offered
      BY DEF Offered
    <2> QED
      BY <2>1, <2>2 DEF CInv, CountInv
  <1> QED
    BY <1>2, <1>3, <1>4, <1>5, <1>6, <1>7

\* What is under way of each type when the client takes a message.
LEMMA ReceivedWay ==
  ASSUME Types, NEW type, Receive(type), UNCHANGED toServer
  PROVE  /\ InServer("Login")' = InServer("Login") /\ InServer("Ping")' = InServer("Ping")
         /\ type # "ReqWorkConn" => InClient("ReqWorkConn")' = InClient("ReqWorkConn")
         /\ type # "Pong" => InClient("Pong")' = InClient("Pong")
         /\ type # "IV" => InClient("IV")' = InClient("IV")
         /\ type = "Pong" => InClient("Pong")
  <1>1. /\ 1 \in 1..Len(toClient) /\ toClient[1].type = type
        /\ \A k \in 1..Len(toClient') : toClient'[k] = toClient[k + 1] /\ k + 1 \in 1..Len(toClient)
        /\ \A k \in 1..Len(toClient) : k # 1 => k - 1 \in 1..Len(toClient')
                                              /\ toClient'[k - 1] = toClient[k]
    BY ReceiveFacts
  <1>2. ASSUME NEW t, type # t PROVE InClient(t)' = InClient(t)
    <2>1. ASSUME InClient(t)' PROVE InClient(t)
      BY <1>1, <2>1 DEF InClient
    <2>2. ASSUME InClient(t) PROVE InClient(t)'
      BY <1>1, <1>2, <2>2 DEF InClient
    <2> QED
      BY <2>1, <2>2 DEF InClient
  <1>3. InServer("Login")' = InServer("Login") /\ InServer("Ping")' = InServer("Ping")
    BY DEF InServer
  <1>4. type = "Pong" => InClient("Pong")
    BY <1>1 DEF InClient
  <1> QED
    BY <1>2, <1>3, <1>4

\* Downstream, when the client takes a message other than the IV.
LEMMA DownReceived ==
  ASSUME CInv, NEW type, Receive(type), type # "IV", UNCHANGED epoch, srv'.logged = srv.logged,
         ~ garbled', coders'.decoder = coders.decoder, coders'.dec_ctx \in {NoIV, ServerIV}
  PROVE  DownInv'
  <1>1. Types /\ DownInv
    BY DEF CInv
  <1>2. /\ 1 \in 1..Len(toClient) /\ toClient[1].type = type
        /\ Len(toClient) \in Nat /\ Len(toClient') = Len(toClient) - 1
        /\ \A k \in 1..Len(toClient') : toClient'[k] = toClient[k + 1] /\ k + 1 \in 1..Len(toClient)
        /\ \A k \in 1..Len(toClient) : k # 1 => k - 1 \in 1..Len(toClient')
                                              /\ toClient'[k - 1] = toClient[k]
    BY <1>1, ReceiveFacts
  <1>3. srv'.logged => coders'.decoder # NoIV \/ InClient("IV")'
    <2>1. InClient("IV") => InClient("IV")'
      BY <1>2 DEF InClient
    <2> QED
      BY <1>1, <2>1 DEF DownInv
  <1>4. ASSUME NEW i \in 1..Len(toClient')
        PROVE  /\ toClient'[i].type \in ServerEnc \cup {"IV"} => toClient'[i].iv = ServerIV'
               /\ toClient'[i].type \in ServerEnc =>
                    coders'.decoder # NoIV \/ \E j \in 1..(i - 1) : toClient'[j].type = "IV"
    <2>1. toClient'[i] = toClient[i + 1] /\ i + 1 \in 1..Len(toClient) /\ ServerIV' = ServerIV
      BY <1>2 DEF ServerIV
    <2>2. ASSUME NEW j \in 1..((i + 1) - 1), toClient[j].type = "IV"
          PROVE  j - 1 \in 1..(i - 1) /\ toClient'[j - 1].type = "IV"
      <3>1. j \in 1..Len(toClient) /\ j # 1
        BY <1>2, <2>2
      <3> QED
        BY <1>2, <2>2, <3>1
    <2> QED
      BY <1>1, <2>1, <2>2 DEF DownInv
  <1>5. coders'.decoder \in {NoIV, ServerIV'} /\ coders'.dec_ctx \in {NoIV, ServerIV'}
    BY <1>1 DEF DownInv, ServerIV
  <1> QED
    BY <1>3, <1>4, <1>5 DEF DownInv

\* An encrypted message of frps is decrypted under the IV it was encrypted with.
LEMMA DecryptFacts ==
  ASSUME CInv, NEW type \in ServerEnc, NEW c \in Coders, Decrypt(type, c),
         c.decoder = coders.decoder, c.dec_ctx = coders.dec_ctx
  PROVE  /\ ~ garbled' /\ srv.logged /\ is_login
         /\ coders'.decoder = coders.decoder /\ coders'.dec_ctx = ServerIV
         /\ coders'.encoder = c.encoder /\ coders'.enc_ctx = c.enc_ctx
  <1>1. Types /\ DownInv /\ LoginInv
    BY DEF CInv
  <1>2. /\ 1 \in 1..Len(toClient) /\ toClient[1].type = type /\ Head(toClient) = toClient[1]
    BY <1>1, ReceiveFacts DEF Decrypt
  <1>3. toClient[1].iv = ServerIV /\ coders.decoder # NoIV
    <2>1. ~ \E j \in 1..(1 - 1) : toClient[j].type = "IV"
      OBVIOUS
    <2> QED
      BY <1>1, <1>2, <2>1 DEF DownInv
  <1>4. coders' = [c EXCEPT !.dec_ctx = IF c.dec_ctx = NoIV THEN c.decoder ELSE c.dec_ctx]
    BY DEF Decrypt, Decrypting
  <1>5. /\ coders'.decoder = coders.decoder /\ coders'.encoder = c.encoder
        /\ coders'.enc_ctx = c.enc_ctx
        /\ coders'.dec_ctx = IF coders.dec_ctx = NoIV THEN coders.decoder ELSE coders.dec_ctx
    BY <1>4 DEF Coders
  <1>6. coders'.dec_ctx = ServerIV
    BY <1>1, <1>3, <1>5 DEF DownInv
  <1>7. garbled' = (garbled \/ coders'.dec_ctx # Head(toClient).iv) /\ is_login
    BY DEF Decrypt
  <1> QED
    BY <1>1, <1>2, <1>3, <1>5, <1>6, <1>7 DEF DownInv, LoginInv

\* The heartbeat, when the client takes a message that is none of its business.
LEMMA TimeReceived ==
  ASSUME CInv, NEW type, Receive(type), type \notin {"ReqWorkConn", "Pong"},
         UNCHANGED <<conn, timers, client_connected, toServer, srv, net>>
  PROVE  TimeInv'
  <1>1. Types
    BY DEF CInv
  <1>2. /\ InServer("Login")' = InServer("Login") /\ InServer("Ping")' = InServer("Ping")
        /\ InClient("ReqWorkConn")' = InClient("ReqWorkConn")
        /\ InClient("Pong")' = InClient("Pong")
    BY <1>1, ReceivedWay
  <1>3. Pending' = Pending
    BY <1>2 DEF Pending
  <1> QED
    BY <1>2, <1>3 DEF CInv, TimeInv, timers

\* process_flags and handle_login_response.
LEMMA LoginStepsKeep ==
  ASSUME CInv, RecvAck \/ RecvLoginResp
  PROVE  CInv'
  <1>1. Types' /\ Types /\ DownInv /\ LoginInv
    BY NextTypes DEF Next, ClientRecv, CInv
  <1>2. PICK type \in {"ACK", "LoginResp"} : Receive(type)
    BY DEF RecvAck, RecvLoginResp
  <1>3. UNCHANGED <<conn, epoch, client_connected, g_session_id, all_pc, toServer, srv, net, coders,
                    timers, garbled>>
    BY DEF RecvAck, RecvLoginResp
  <1>4. main'.id = main.id
    BY <1>1 DEF RecvAck, RecvLoginResp, Types
  <1>5. is_login' => srv.logged
    <2>1. CASE RecvAck
      BY <1>1, <2>1 DEF RecvAck, LoginInv
    <2>2. CASE RecvLoginResp
      <3>1. /\ Head(toClient) = toClient[1] /\ 1 \in 1..Len(toClient)
            /\ toClient[1].type = "LoginResp"
        BY <1>1, <2>2, ReceiveFacts DEF RecvLoginResp
      <3>2. is_login' = (is_login \/ toClient[1].id = 1)
        BY <2>2, <3>1 DEF RecvLoginResp
      <3> QED
        BY <1>1, <3>1, <3>2 DEF LoginInv
    <2> QED
      BY <2>1, <2>2
  <1>6. (Idle /\ LoginInv /\ UpInv /\ SynInv /\ RegInv /\ CountInv)'
    BY <1>2, <1>3, <1>4, <1>5, ReceivedKeeps
  <1>7. DownInv'
    BY <1>1, <1>2, <1>3, DownReceived DEF DownInv
  <1>8. TimeInv'
    BY <1>2, <1>3, TimeReceived
  <1> QED
    BY <1>1, <1>6, <1>7, <1>8 DEF CInv

\* handle_enc_msg with the IV of frps.
LEMMA RecvIVKeeps ==
  ASSUME CInv, RecvIV
  PROVE  CInv'
  <1>1. Types' /\ Types /\ DownInv /\ LoginInv
    BY NextTypes DEF Next, ClientRecv, CInv
  <1>2. Receive("IV") /\ is_login
    BY DEF RecvIV
  <1>3. /\ UNCHANGED <<conn, epoch, main, client_connected, g_session_id, all_pc, toServer, srv, net,
                       timers, garbled>>
        /\ is_login' = is_login
    BY DEF RecvIV
  <1>4. /\ Head(toClient) = toClient[1] /\ 1 \in 1..Len(toClient) /\ toClient[1].type = "IV"
        /\ \A k \in 1..Len(toClient') : toClient'[k] = toClient[k + 1] /\ k + 1 \in 1..Len(toClient)
    BY <1>1, <1>2, ReceiveFacts
  <1>5. toClient[1].iv = ServerIV /\ ServerIV' = ServerIV /\ ServerIV # NoIV
    BY <1>1, <1>3, <1>4, EncMsg DEF DownInv, ServerIV
  <1>6. /\ coders'.decoder = ServerIV /\ coders'.dec_ctx = coders.dec_ctx
        /\ coders'.encoder = coders.encoder /\ coders'.enc_ctx = coders.enc_ctx
    <2>1. coders' = [coders EXCEPT !.decoder = IF coders.decoder = NoIV THEN ServerIV ELSE coders.decoder]
      BY <1>4, <1>5 DEF RecvIV
    <2>2. coders \in Coders /\ coders.decoder \in {NoIV, ServerIV}
      BY <1>1 DEF Types, DownInv
    <2> QED
      BY <2>1, <2>2 DEF Coders
  <1>7. (Idle /\ LoginInv /\ UpInv /\ SynInv /\ RegInv /\ CountInv)'
    BY <1>1, <1>2, <1>3, <1>6, ReceivedKeeps DEF LoginInv
  <1>8. DownInv'
    BY <1>1, <1>3, <1>4, <1>5, <1>6 DEF DownInv
  <1>9. TimeInv'
    BY <1>2, <1>3, TimeReceived
  <1> QED
    BY <1>1, <1>7, <1>8, <1>9 DEF CInv

\* TypeNewProxyResp and TypePong.
LEMMA AnswersKeep ==
  ASSUME CInv, RecvNewProxyResp \/ RecvPong
  PROVE  CInv'
  <1>1. Types' /\ Types /\ DownInv /\ LoginInv
    BY NextTypes DEF Next, ClientRecv, CInv
  <1>2. PICK type \in {"NewProxyResp", "Pong"} : /\ Decrypt(type, coders)
                                                 /\ type = "Pong" <=> RecvPong
    <2>1. CASE RecvPong
      BY <2>1 DEF RecvPong
    <2>2. CASE ~ RecvPong
      BY <2>2 DEF RecvNewProxyResp
    <2> QED
      BY <2>1, <2>2
  <1>3. UNCHANGED <<conn, epoch, main, is_login, client_connected, g_session_id, all_pc, toServer, srv,
                    net, ticker>>
    BY DEF RecvNewProxyResp, RecvPong, timers
  <1>4. Receive(type) /\ type \in ServerEnc /\ coders \in Coders
    BY <1>1, <1>2 DEF Decrypt, ServerEnc, Types
  <1>5. /\ ~ garbled' /\ srv.logged /\ coders'.decoder = coders.decoder /\ coders'.dec_ctx = ServerIV
        /\ coders'.encoder = coders.encoder /\ coders'.enc_ctx = coders.enc_ctx
    BY <1>2, <1>4, DecryptFacts
  <1>6. (Idle /\ LoginInv /\ UpInv /\ SynInv /\ RegInv /\ CountInv)'
    BY <1>2, <1>3, <1>4, <1>5, ReceivedKeeps
  <1>7. DownInv'
    BY <1>2, <1>3, <1>4, <1>5, DownReceived
  <1>8. TimeInv'
    <2>1. CASE ~ RecvPong
      <3>1. UNCHANGED timers /\ type = "NewProxyResp"
        BY <1>2, <2>1 DEF RecvNewProxyResp
      <3> QED
        BY <1>3, <1>4, <3>1, TimeReceived
    <2>2. CASE RecvPong
      <3>1. age' = 0 /\ ticker' = ticker /\ type = "Pong" /\ conn = "up"
        BY <1>1, <1>2, <1>3, <1>4, <2>2, ReceiveFacts DEF RecvPong
      <3>2. /\ InServer("Login")' = InServer("Login")
            /\ InClient("ReqWorkConn")' = InClient("ReqWorkConn")
            /\ InClient("Pong")
        BY <1>1, <1>3, <1>4, <3>1, ReceivedWay
      <3>3. Pending
        BY <3>2 DEF Pending
      <3>4. /\ ticker \in 0..HbInterval /\ HbInterval \in Nat /\ HbTimeout \in Nat
            /\ client_connected \/ srv.refused \/ InServer("Login") \/ InClient("ReqWorkConn")
            /\ net.stalled => net.ever
            /\ (~ net.ever /\ ~ srv.refused) => ticker = HbInterval
        BY <3>1, <3>3, ControlAssumption DEF CInv, TimeInv
      <3> QED
        BY <1>3, <3>1, <3>2, <3>4 DEF TimeInv
    <2> QED
      BY <2>1, <2>2
  <1> QED
    BY <1>1, <1>6, <1>7, <1>8 DEF CInv

\* TypeReqWorkConn: the services, if they are not announced yet, and a client.
LEMMA ReqWorkConnKeeps ==
  ASSUME CInv, RecvReqWorkConn
  PROVE  CInv'
  <1> DEFINE L == Len(toServer)
             n == Announced
             d == IVDue(n)
             c == coders'.encoder
  <1>1. Types' /\ Types /\ LoginInv /\ DownInv /\ UpInv /\ SynInv /\ RegInv /\ CountInv /\ TimeInv
    BY NextTypes DEF Next, ClientRecv, CInv
  <1>2. /\ L \in Nat /\ n \in Nat /\ d \in {0, 1} /\ (d = 1 <=> n > 0 /\ coders.encoder = NoIV)
        /\ coders'.enc_ctx = c /\ (n > 0 => c # NoIV) /\ c \in IVs
        /\ (coders.encoder # NoIV \/ n = 0) => c = coders.encoder
        /\ Len(toServer') = L + d + n + 2
        /\ \A k \in 1..L : toServer'[k] = toServer[k] /\ k \in 1..Len(toServer')
        /\ d = 1 => toServer'[L + 1] = Msg("IV", 0, c)
        /\ \A k \in 1..n : toServer'[L + d + k] = Msg("NewProxy", k, c)
        /\ toServer'[L + d + n + 1] = Msg("SYN", g_session_id, NoIV)
        /\ toServer'[L + d + n + 2] = Msg("NewWorkConn", g_session_id, NoIV)
        /\ \A k \in 1..Len(toServer') :
             \/ k \in 1..L
             \/ d = 1 /\ k = L + 1
             \/ k - L - d \in 1..n /\ k = L + d + (k - L - d)
             \/ k = L + d + n + 1 \/ k = L + d + n + 2
    BY <1>1, ReqShape
  <1>3. /\ n = IF client_connected THEN 0 ELSE NumServices
        /\ NumServices \in Nat /\ g_session_id \in Nat
    BY <1>1, ControlAssumption DEF Announced, Types
  <1> HIDE DEF n, d, c
  <1>4. /\ d = 1 => toServer'[L + 1].type = "IV" /\ toServer'[L + 1].iv = c
        /\ \A k \in 1..n : /\ toServer'[L + d + k].type = "NewProxy"
                           /\ toServer'[L + d + k].id = k /\ toServer'[L + d + k].iv = c
        /\ toServer'[L + d + n + 1].type = "SYN" /\ toServer'[L + d + n + 1].id = g_session_id
        /\ toServer'[L + d + n + 2].type = "NewWorkConn" /\ toServer'[L + d + n + 2].id = g_session_id
        /\ L + d + n + 1 \in 1..Len(toServer') /\ L + d + n + 2 \in 1..Len(toServer')
        /\ \A k \in 1..n : L + d + k \in 1..Len(toServer')
        /\ d = 1 => L + 1 \in 1..Len(toServer')
    <2>1. \A t, i, v : Msg(t, i, v).type = t /\ Msg(t, i, v).id = i /\ Msg(t, i, v).iv = v
      BY DEF Msg
    <2>2. /\ L + d + n + 1 \in 1..Len(toServer') /\ L + d + n + 2 \in 1..Len(toServer')
          /\ \A k \in 1..n : L + d + k \in 1..Len(toServer')
          /\ d = 1 => L + 1 \in 1..Len(toServer')
      BY <1>2
    <2> QED
      BY <1>2, <2>1, <2>2, SMTT(20)
  <1>5. ASSUME NEW k \in 1..Len(toServer')
        PROVE  \/ k \in 1..L /\ toServer'[k] = toServer[k]
               \/ d = 1 /\ k = L + 1 /\ toServer'[k].type = "IV" /\ toServer'[k].iv = c
               \/ /\ k - L - d \in 1..n /\ toServer'[k].type = "NewProxy"
                  /\ toServer'[k].id = k - L - d /\ toServer'[k].iv = c
               \/ k = L + d + n + 1 /\ toServer'[k].type = "SYN" /\ toServer'[k].id = g_session_id
               \/ k = L + d + n + 2 /\ toServer'[k].type = "NewWorkConn" /\ toServer'[k].id = g_session_id
    BY <1>2, <1>4
  <1>6. /\ Receive("ReqWorkConn") /\ client_connected' = TRUE
        /\ all_pc' = all_pc \cup {g_session_id} /\ g_session_id' = g_session_id + 2
        /\ UNCHANGED <<conn, epoch, main, is_login, timers, srv, net>>
    BY DEF RecvReqWorkConn, Decrypt
  <1>7. /\ ~ garbled' /\ srv.logged /\ is_login
        /\ coders'.decoder = coders.decoder /\ coders'.dec_ctx = ServerIV
    <2>1. PICK x \in {coders, CodersSending} : Decrypt("ReqWorkConn", x)
      BY DEF RecvReqWorkConn
    <2>2. x \in Coders /\ x.decoder = coders.decoder /\ x.dec_ctx = coders.dec_ctx
      BY <1>1, <2>1, SendingFacts DEF Types
    <2> QED
      BY <2>1, <2>2, DecryptFacts DEF ServerEnc
  <1>8. /\ conn = "up" /\ \A k \in 1..Len(toClient') : toClient'[k] = toClient[k + 1] /\ k + 1 \in 1..Len(toClient)
    BY <1>1, <1>6, ReceiveFacts
  <1>9. Idle'
    BY <1>6, <1>8 DEF Idle
  <1>10. LoginInv'
    <2>1. \A k \in 1..Len(toServer') : toServer'[k].type = "Login" => k \in 1..L /\ toServer'[k] = toServer[k]
      BY <1>5
    <2> QED
      BY <1>1, <1>6, <1>7, <1>8, <2>1 DEF LoginInv
  <1>11. DownInv'
    BY <1>6, <1>7, DownReceived
  <1>12. UpInv'
    <2>1. /\ ~ srv'.garbled /\ coders'.enc_ctx = coders'.encoder
          /\ coders.encoder \in {NoIV, c} /\ srv'.iv \in {NoIV, coders'.encoder}
      BY <1>1, <1>2, <1>6 DEF UpInv, c
    <2>2. coders'.encoder # NoIV => srv'.iv # NoIV \/ InServer("IV")'
      <3>1. CASE d = 1
        BY <1>4, <3>1 DEF InServer
      <3>2. CASE d = 0
        <4>1. coders.encoder = c
          BY <1>2, <3>2
        <4>2. coders.encoder # NoIV => srv.iv # NoIV \/ InServer("IV")
          BY <1>1 DEF UpInv
        <4>3. InServer("IV") => InServer("IV")'
          BY <1>2 DEF InServer
        <4> QED
          BY <1>6, <4>1, <4>2, <4>3 DEF c
      <3> QED
        BY <1>2, <3>1, <3>2
    <2>3. ASSUME NEW i \in 1..Len(toServer')
          PROVE  /\ toServer'[i].type \in ClientEnc \cup {"IV"} =>
                      toServer'[i].iv = coders'.encoder /\ coders'.encoder # NoIV
                 /\ toServer'[i].type \in ClientEnc =>
                      srv'.iv # NoIV \/ \E j \in 1..(i - 1) : toServer'[j].type = "IV"
      <3>1. CASE i \in 1..L /\ toServer'[i] = toServer[i]
        <4>1. \A j \in 1..(i - 1) : j \in 1..L /\ toServer'[j] = toServer[j]
          BY <1>2, <3>1
        <4> QED
          BY <1>1, <1>2, <1>6, <3>1, <4>1 DEF UpInv, c
      <3>2. CASE d = 1 /\ i = L + 1 /\ toServer'[i].type = "IV" /\ toServer'[i].iv = c
        BY <1>2, <3>2 DEF c, ClientEnc
      <3>3. CASE /\ i - L - d \in 1..n /\ toServer'[i].type = "NewProxy" /\ toServer'[i].iv = c
        <4>1. n > 0 /\ c # NoIV
          BY <1>2, <3>3
        <4>2. srv'.iv # NoIV \/ \E j \in 1..(i - 1) : toServer'[j].type = "IV"
          <5>1. CASE d = 1
            <6>1. L + 1 \in 1..(i - 1)
              BY <1>2, <3>3, <5>1
            <6> QED
              BY <1>4, <5>1, <6>1
          <5>2. CASE d = 0
            <6>1. srv.iv # NoIV \/ InServer("IV")
              BY <1>1, <1>2, <4>1, <5>2 DEF UpInv
            <6>2. \A j \in 1..L : j \in 1..(i - 1) /\ toServer'[j] = toServer[j]
              BY <1>2, <3>3, <5>2
            <6> QED
              BY <1>6, <6>1, <6>2 DEF InServer
          <5> QED
            BY <1>2, <5>1, <5>2
        <4> QED
          BY <3>3, <4>1, <4>2 DEF c
      <3>4. CASE toServer'[i].type \in {"SYN", "NewWorkConn"}
        BY <3>4 DEF ClientEnc
      <3> QED
        BY <1>5, <3>1, <3>2, <3>3, <3>4
    <2> QED
      BY <2>1, <2>2, <2>3 DEF UpInv
  <1>13. SynInv'
    <2>1. \A k \in 1..Len(toServer') : toServer'[k].type = "SYN" =>
            \/ k \in 1..L /\ toServer'[k] = toServer[k]
            \/ k = L + d + n + 1 /\ toServer'[k].id = g_session_id
      BY <1>5
    <2>2. \A k \in 1..L : toServer[k].type = "SYN" => toServer[k].id < g_session_id /\ toServer[k].id \in Nat
      BY <1>1, MsgFacts DEF SynInv, Types
    <2>3. srv.streams \in SUBSET Nat /\ main.id \in Nat
      BY <1>1 DEF Types, Peers
    <2>4. \A i \in 1..Len(toServer') : toServer'[i].type = "SYN" =>
            /\ toServer'[i].id < g_session_id' /\ toServer'[i].id \notin srv'.streams
            /\ \A j \in 1..Len(toServer') :
                 toServer'[j].type = "SYN" /\ toServer'[j].id = toServer'[i].id => i = j
      BY <1>1, <1>3, <1>6, <2>1, <2>2, <2>3 DEF SynInv
    <2> QED
      BY <1>1, <1>3, <1>6, <2>3, <2>4 DEF SynInv
  <1>14. RegInv'
    <2>1. srv' = srv /\ client_connected'
      BY <1>6
    <2>2. RegistersFirst'
      BY <1>1, <2>1 DEF RegInv, RegistersFirst
    <2>3. n > 0 => ~ client_connected /\ n = NumServices
      BY <1>3
    <2>4. ~ client_connected => /\ Len(srv.registered) = 0
                                /\ \A k \in 1..L : toServer[k].type \notin {"NewProxy", "NewWorkConn"}
      BY <1>1 DEF RegInv, InServer
    <2>5. Len(srv.registered) = NumServices \/ LastService'
      <3>1. CASE n > 0
        <4>1. n \in 1..n
          BY <1>2, <3>1
        <4> QED
          BY <1>4, <2>3, <3>1, <4>1 DEF LastService
      <3>2. CASE n = 0
        <4>1. Len(srv.registered) = NumServices \/ LastService
          BY <1>1, <1>3, <2>4, <3>2 DEF RegInv
        <4> QED
          BY <1>2, <4>1 DEF LastService
      <3> QED
        BY <1>2, <3>1, <3>2
    <2>6. ASSUME NEW i \in 1..Len(toServer'), toServer'[i].type = "NewProxy"
          PROVE  /\ toServer'[i].id > Len(srv.registered) /\ toServer'[i].id <= NumServices
                 /\ \/ toServer'[i].id = Len(srv.registered) + 1
                    \/ /\ i > 1 /\ toServer'[i - 1].type = "NewProxy"
                       /\ toServer'[i - 1].id = toServer'[i].id - 1
                 /\ \A j \in 1..Len(toServer') :
                      i < j /\ toServer'[j].type = "NewProxy" => toServer'[i].id < toServer'[j].id
      <3>1. CASE n > 0
        <4>1. \A k \in 1..Len(toServer') : toServer'[k].type = "NewProxy" =>
                k - L - d \in 1..n /\ toServer'[k].id = k - L - d
          BY <1>5, <2>3, <2>4, <3>1
        <4>2. Len(srv.registered) = 0 /\ i - L - d \in 1..n /\ toServer'[i].id = i - L - d
          BY <2>3, <2>4, <2>6, <3>1, <4>1
        <4>3. \A j \in 1..Len(toServer') :
                      i < j /\ toServer'[j].type = "NewProxy" => toServer'[i].id < toServer'[j].id
          BY <1>2, <4>1, <4>2
        <4>6. toServer'[i].id > 0 /\ toServer'[i].id <= NumServices
          BY <1>2, <2>3, <3>1, <4>2
        <4>4. CASE i - L - d = 1
          BY <4>2, <4>3, <4>4, <4>6
        <4>5. CASE i - L - d # 1
          <5>1. /\ (i - 1) - L - d \in 1..n /\ i - 1 = L + d + ((i - 1) - L - d) /\ i > 1
            BY <1>2, <4>2, <4>5
          <5>2. toServer'[i - 1].type = "NewProxy" /\ toServer'[i - 1].id = (i - 1) - L - d
            BY <1>4, <5>1
          <5> QED
            BY <1>2, <4>2, <4>3, <4>6, <5>1, <5>2
        <4> QED
          BY <4>4, <4>5
      <3>2. CASE n = 0
        <4>1. \A k \in 1..Len(toServer') : toServer'[k].type = "NewProxy" =>
                k \in 1..L /\ toServer'[k] = toServer[k]
          BY <1>5, <3>2
        <4>2. i \in 1..L /\ toServer'[i] = toServer[i] /\ (i > 1 => toServer'[i - 1] = toServer[i - 1])
          <5>1. i \in 1..L /\ toServer'[i] = toServer[i]
            BY <2>6, <4>1
          <5>2. i > 1 => i - 1 \in 1..L
            BY <1>2, <5>1
          <5> QED
            BY <1>2, <5>1, <5>2
        <4> QED
          BY <1>1, <2>6, <4>1, <4>2 DEF RegInv
      <3> QED
        BY <1>2, <3>1, <3>2
    <2>7. ASSUME NEW i \in 1..Len(toServer'), toServer'[i].type = "NewWorkConn"
          PROVE  Len(srv.registered) = NumServices \/ \E j \in 1..(i - 1) :
                   toServer'[j].type = "NewProxy" /\ toServer'[j].id = NumServices
      <3>1. CASE n > 0
        <4>1. i = L + d + n + 2
          BY <1>5, <2>3, <2>4, <2>7, <3>1
        <4>2. n \in 1..n /\ L + d + n \in 1..(i - 1)
          BY <1>2, <3>1, <4>1
        <4> QED
          BY <1>4, <2>3, <3>1, <4>2
      <3>2. CASE n = 0
        <4>1. CASE i \in 1..L /\ toServer'[i] = toServer[i]
          <5>1. \A j \in 1..(i - 1) : toServer'[j] = toServer[j]
            BY <1>2, <4>1
          <5> QED
            BY <1>1, <2>7, <4>1, <5>1 DEF RegInv
        <4>2. CASE i = L + d + n + 2
          <5>1. \A j \in 1..L : j \in 1..(i - 1) /\ toServer'[j] = toServer[j]
            BY <1>2, <3>2, <4>2
          <5>2. Len(srv.registered) = NumServices \/ LastService
            BY <1>1, <1>3, <2>4, <3>2 DEF RegInv
          <5> QED
            BY <5>1, <5>2 DEF LastService
        <4> QED
          BY <1>5, <2>7, <3>2, <4>1, <4>2
      <3> QED
        BY <1>2, <3>1, <3>2
    <2> QED
      BY <2>1, <2>2, <2>5, <2>6, <2>7 DEF RegInv
  <1>15. CountInv'
    <2>1. /\ Cardinality(Requests) \in Nat /\ Cardinality(Requests') = Cardinality(Requests) - 1
      BY <1>1, <1>6, RequestsTaken
    <2>2. all_pc \in SUBSET Nat /\ g_session_id \notin all_pc /\ \A id \in all_pc : id < g_session_id
      BY <1>1, <1>3 DEF CountInv, Types
    <2>3. IsFiniteSet(all_pc') /\ Cardinality(all_pc') = Cardinality(all_pc) + 1
      BY <1>1, <1>6, <2>2, FS_AddElement DEF CountInv
    <2>4. Cardinality(all_pc) \in Nat
      BY <1>1, FS_CardinalityType DEF CountInv
    <2>5. Cardinality(all_pc') + Cardinality(Requests') = srv'.reqs
      BY <1>1, <1>6, <2>1, <2>3, <2>4 DEF CountInv
    <2>6. {toServer'[i].id : i \in Offered'} = {toServer[i].id : i \in Offered} \cup {g_session_id}
      <3>1. \A i \in Offered' : \/ i \in Offered /\ toServer'[i] = toServer[i]
                                \/ toServer'[i].id = g_session_id
        BY <1>5 DEF Offered
      <3>2. \A i \in Offered : i \in Offered' /\ toServer'[i] = toServer[i]
        BY <1>2 DEF Offered
      <3>3. L + d + n + 2 \in Offered'
        BY <1>4 DEF Offered
      <3>4. \A x \in {toServer'[i].id : i \in Offered'} : x \in {toServer[i].id : i \in Offered} \cup {g_session_id}
        BY <3>1
      <3>5. \A x \in {toServer[i].id : i \in Offered} \cup {g_session_id} : x \in {toServer'[i].id : i \in Offered'}
        BY <1>4, <3>2, <3>3
      <3> QED
        BY <3>4, <3>5
    <2>7. all_pc' = srv'.work \cup {toServer'[i].id : i \in Offered'}
      BY <1>1, <1>6, <2>6 DEF CountInv
    <2>8. \A id \in all_pc' : id < g_session_id'
      BY <1>3, <1>6, <2>2
    <2> QED
      BY <1>6, <1>7, <2>3, <2>5, <2>7, <2>8 DEF CountInv
  <1>16. TimeInv'
    <2>1. InServer("Ping")' = InServer("Ping")
      <3>1. \A k \in 1..Len(toServer') : toServer'[k].type = "Ping" => k \in 1..L /\ toServer'[k] = toServer[k]
        BY <1>5
      <3> QED
        BY <1>2, <3>1 DEF InServer
    <2>2. InClient("Pong")' = InClient("Pong")
      <3>1. /\ toClient[1].type = "ReqWorkConn"
            /\ \A k \in 1..Len(toClient) : k # 1 => k - 1 \in 1..Len(toClient')
                                              /\ toClient'[k - 1] = toClient[k]
        BY <1>1, <1>6, ReceiveFacts
      <3> QED
        BY <1>8, <3>1 DEF InClient
    <2>3. Pending' = Pending
      BY <2>1, <2>2 DEF Pending
    <2> QED
      BY <1>1, <1>6, <1>8, <2>3 DEF TimeInv, timers
  <1> QED
    BY <1>1, <1>9, <1>10, <1>11, <1>12, <1>13, <1>14, <1>15, <1>16 DEF CInv

-----------------------------------------------------------------------------
(* Messages that arrive at frps                                              *)

\* frps adds messages of types T, those under encryption under its IV.
Adds(T) ==
  /\ Len(toClient) \in Nat /\ Len(toClient') \in Nat /\ Len(toClient) <= Len(toClient')
  /\ \A k \in 1..Len(toClient) : toClient'[k] = toClient[k] /\ k \in 1..Len(toClient')
  /\ \A k \in 1..Len(toClient') :
       k \in 1..Len(toClient) \/ (/\ k > Len(toClient) /\ toClient'[k].type \in T
                                  /\ toClient'[k].type \in ServerEnc => toClient'[k].iv = ServerIV)

\* An answer of one message, or none.
LEMMA AnswerAdds ==
  ASSUME Types, NEW type \in ServerEnc \cup {"ACK"}, NEW id \in Nat, NEW iv \in {NoIV, ServerIV},
         type \in ServerEnc => iv = ServerIV, Answer(<<Msg(type, id, iv)>>)
  PROVE  Adds({type}) /\ InClient(type)'
  <1>1. Msg(type, id, iv) \in Messages /\ Msg(type, id, iv).type = type /\ Msg(type, id, iv).iv = iv
    <2>1. type \in MsgTypes
      BY DEF ServerEnc, MsgTypes
    <2>2. iv \in IVs
      BY EncMsg DEF IVs
    <2> QED
      BY <2>1, <2>2, MsgFacts
  <1>2. /\ Len(toClient') = Len(toClient) + 1 /\ Len(toClient) \in Nat
        /\ \A k \in 1..Len(toClient) : toClient'[k] = toClient[k] /\ k \in 1..Len(toClient')
        /\ toClient'[Len(toClient) + 1] = Msg(type, id, iv)
        /\ \A k \in 1..Len(toClient') : k \in 1..Len(toClient) \/ k = Len(toClient) + 1
    BY <1>1, AnswerFacts
  <1>3. Len(toClient) + 1 \in 1..Len(toClient')
    BY <1>2
  <1> QED
    BY <1>1, <1>2, <1>3 DEF Adds, InClient

\* Nothing is answered.
LEMMA SilentAdds ==
  ASSUME Types, UNCHANGED toClient
  PROVE  Adds({})
  <1>1. Len(toClient) \in Nat
    BY DEF Types
  <1> QED
    BY <1>1 DEF Adds

\* Who is logged in is not affected by other messages than Login.
LEMMA LoginServed ==
  ASSUME CInv, NEW type, Serve(type), type # "Login", NEW T \in SUBSET (ServerEnc \cup {"ACK"}), Adds(T),
         T # {"ACK"} /\ T # {} => srv.logged,
         srv'.logged = srv.logged, srv'.refused = srv.refused
  PROVE  LoginInv'
  <1>1. Types /\ LoginInv
    BY DEF CInv
  <1>2. /\ UNCHANGED client /\ Len(toServer) \in Nat /\ Len(toServer') = Len(toServer) - 1
        /\ \A k \in 1..Len(toServer') : toServer'[k] = toServer[k + 1] /\ k + 1 \in 1..Len(toServer)
    BY <1>1, ServeFacts
  <1>3. \A i \in 1..Len(toClient') :
          /\ toClient'[i].type \in ServerEnc \cup {"IV"} => srv.logged
          /\ toClient'[i].type = "LoginResp" /\ toClient'[i].id = 1 => srv.logged
    <2> SUFFICES ASSUME NEW i \in 1..Len(toClient')
                 PROVE  /\ toClient'[i].type \in ServerEnc \cup {"IV"} => srv.logged
                        /\ toClient'[i].type = "LoginResp" /\ toClient'[i].id = 1 => srv.logged
      OBVIOUS
    <2>1. CASE i \in 1..Len(toClient)
      BY <1>1, <2>1 DEF Adds, LoginInv
    <2>2. CASE i \notin 1..Len(toClient)
      <3>1. toClient'[i].type \in T
        BY <2>2 DEF Adds
      <3>2. toClient'[i].type = "ACK" \/ (T # {"ACK"} /\ T # {})
        BY <3>1
      <3> QED
        BY <3>1, <3>2 DEF ServerEnc
    <2> QED
      BY <2>1, <2>2
  <1>4. \A i \in 1..Len(toServer') :
          /\ toServer'[i].type \in ClientEnc \cup {"NewWorkConn", "IV"} => srv.logged
          /\ toServer'[i].type = "Login" => ~ srv.logged /\ ~ srv.refused
          /\ \A j \in 1..Len(toServer') :
               toServer'[i].type = "Login" /\ toServer'[j].type = "Login" => i = j
    <2> SUFFICES ASSUME NEW i \in 1..Len(toServer'), NEW j \in 1..Len(toServer')
                 PROVE  /\ toServer'[i].type \in ClientEnc \cup {"NewWorkConn", "IV"} => srv.logged
                        /\ toServer'[i].type = "Login" => ~ srv.logged /\ ~ srv.refused
                        /\ toServer'[i].type = "Login" /\ toServer'[j].type = "Login" => i = j
      OBVIOUS
    <2>1. /\ toServer'[i] = toServer[i + 1] /\ i + 1 \in 1..Len(toServer)
          /\ toServer'[j] = toServer[j + 1] /\ j + 1 \in 1..Len(toServer)
      BY <1>2
    <2>2. i + 1 = j + 1 => i = j
      BY <1>2
    <2> QED
      BY <1>1, <2>1, <2>2 DEF LoginInv
  <1>5. is_login' \/ client_connected' => srv'.logged
    BY <1>1, <1>2 DEF LoginInv, client
  <1> QED
    BY <1>3, <1>4, <1>5 DEF LoginInv

\* Downstream, whatever frps adds behind its IV.
LEMMA DownServed ==
  ASSUME CInv, NEW T \in SUBSET (ServerEnc \cup {"ACK"}), Adds(T), T # {"ACK"} /\ T # {} => srv.logged,
         srv'.logged = srv.logged, UNCHANGED <<epoch, coders, garbled>>
  PROVE  DownInv'
  <1>1. DownInv
    BY DEF CInv
  <1>2. InClient("IV") => InClient("IV")'
    BY DEF InClient, Adds
  <1>3. ASSUME NEW i \in 1..Len(toClient')
        PROVE  /\ toClient'[i].type \in ServerEnc \cup {"IV"} => toClient'[i].iv = ServerIV
               /\ toClient'[i].type \in ServerEnc =>
                    coders.decoder # NoIV \/ \E j \in 1..(i - 1) : toClient'[j].type = "IV"
    <2>1. CASE i \in 1..Len(toClient)
      <3>1. toClient'[i] = toClient[i] /\ \A j \in 1..(i - 1) : toClient'[j] = toClient[j]
        BY <2>1 DEF Adds
      <3> QED
        BY <1>1, <2>1, <3>1 DEF DownInv
    <2>2. CASE i \notin 1..Len(toClient)
      <3>1. /\ toClient'[i].type \in T /\ i > Len(toClient)
            /\ toClient'[i].type \in ServerEnc => toClient'[i].iv = ServerIV
        BY <2>2 DEF Adds
      <3>2. \A j \in 1..Len(toClient) : j \in 1..(i - 1) /\ toClient'[j] = toClient[j]
        BY <3>1 DEF Adds
      <3>3. toClient'[i].type \in ServerEnc => srv.logged
        BY <3>1 DEF ServerEnc
      <3>4. toClient'[i].type # "IV"
        BY <3>1 DEF ServerEnc
      <3>5. InClient("IV") => \E j \in 1..(i - 1) : toClient'[j].type = "IV"
        BY <3>2 DEF InClient
      <3> QED
        BY <1>1, <3>1, <3>3, <3>4, <3>5 DEF DownInv
    <2> QED
      BY <2>1, <2>2
  <1> QED
    BY <1>1, <1>2, <1>3 DEF DownInv, ServerIV

\* Upstream, when frps takes a message other than the IV.
LEMMA UpServed ==
  ASSUME CInv, NEW type, Serve(type), type # "IV", srv'.iv = srv.iv, ~ srv'.garbled
  PROVE  UpInv'
  <1>1. Types /\ UpInv
    BY DEF CInv
  <1>2. /\ UNCHANGED client /\ Len(toServer) \in Nat /\ Len(toServer') = Len(toServer) - 1
        /\ toServer[1].type = type
        /\ \A k \in 1..Len(toServer') : toServer'[k] = toServer[k + 1] /\ k + 1 \in 1..Len(toServer)
        /\ \A k \in 1..Len(toServer) : k # 1 => k - 1 \in 1..Len(toServer')
                                              /\ toServer'[k - 1] = toServer[k]
    BY <1>1, ServeFacts
  <1>3. InServer("IV") => InServer("IV")'
    BY <1>2 DEF InServer
  <1>4. ASSUME NEW i \in 1..Len(toServer')
        PROVE  /\ toServer'[i].type \in ClientEnc \cup {"IV"} =>
                    toServer'[i].iv = coders.encoder /\ coders.encoder # NoIV
               /\ toServer'[i].type \in ClientEnc =>
                    srv.iv # NoIV \/ \E j \in 1..(i - 1) : toServer'[j].type = "IV"
    <2>1. toServer'[i] = toServer[i + 1] /\ i + 1 \in 1..Len(toServer)
      BY <1>2
    <2>2. ASSUME NEW j \in 1..((i + 1) - 1), toServer[j].type = "IV"
          PROVE  j - 1 \in 1..(i - 1) /\ toServer'[j - 1].type = "IV"
      <3>1. j \in 1..Len(toServer) /\ j # 1
        BY <1>2, <2>2
      <3> QED
        BY <1>2, <2>2, <3>1
    <2> QED
      BY <1>1, <2>1, <2>2 DEF UpInv
  <1> QED
    BY <1>1, <1>2, <1>3, <1>4 DEF UpInv, client

\* Stream ids, when frps takes a message other than SYN.
LEMMA SynServed ==
  ASSUME CInv, NEW type, Serve(type), type # "SYN", srv'.streams = srv.streams, srv'.reused = srv.reused
  PROVE  SynInv'
  <1>1. Types /\ SynInv
    BY DEF CInv
  <1>2. /\ UNCHANGED client /\ Len(toServer) \in Nat /\ Len(toServer') = Len(toServer) - 1
        /\ \A k \in 1..Len(toServer') : toServer'[k] = toServer[k + 1] /\ k + 1 \in 1..Len(toServer)
    BY <1>1, ServeFacts
  <1>3. ASSUME NEW i \in 1..Len(toServer'), NEW j \in 1..Len(toServer'), toServer'[i].type = "SYN"
        PROVE  /\ toServer'[i].id < g_session_id /\ toServer'[i].id \notin srv.streams
               /\ toServer'[j].type = "SYN" /\ toServer'[j].id = toServer'[i].id => i = j
    <2>1. /\ toServer'[i] = toServer[i + 1] /\ i + 1 \in 1..Len(toServer)
          /\ toServer'[j] = toServer[j + 1] /\ j + 1 \in 1..Len(toServer)
      BY <1>2
    <2>2. i + 1 = j + 1 => i = j
      BY <1>2
    <2> QED
      BY <1>1, <1>3, <2>1, <2>2 DEF SynInv
  <1> QED
    BY <1>1, <1>2, <1>3 DEF SynInv, client

\* Registration, when frps takes a message other than NewProxy.
LEMMA RegServed ==
  ASSUME CInv, NEW type, Serve(type), type # "NewProxy", srv'.registered = srv.registered,
         srv'.work = srv.work \/ Len(srv.registered) = NumServices
  PROVE  RegInv'
  <1>1. Types /\ RegInv
    BY DEF CInv
  <1>2. /\ UNCHANGED client /\ Len(toServer) \in Nat /\ Len(toServer') = Len(toServer) - 1
        /\ toServer[1].type = type
        /\ \A k \in 1..Len(toServer') : toServer'[k] = toServer[k + 1] /\ k + 1 \in 1..Len(toServer)
        /\ \A k \in 1..Len(toServer) : k # 1 => k - 1 \in 1..Len(toServer')
                                              /\ toServer'[k - 1] = toServer[k]
    BY <1>1, ServeFacts
  <1>3. /\ RegistersFirst' /\ (LastService => LastService')
        /\ InServer("NewProxy")' => InServer("NewProxy")
        /\ InServer("NewWorkConn")' => InServer("NewWorkConn")
    <2>1. RegistersFirst'
      BY <1>1 DEF RegInv, RegistersFirst
    <2>2. LastService => LastService'
      BY <1>2 DEF LastService
    <2>3. /\ InServer("NewProxy")' => InServer("NewProxy")
          /\ InServer("NewWorkConn")' => InServer("NewWorkConn")
      BY <1>2 DEF InServer
    <2> QED
      BY <2>1, <2>2, <2>3
  <1>4. ASSUME NEW i \in 1..Len(toServer'), toServer'[i].type = "NewProxy"
        PROVE  /\ toServer'[i].id > Len(srv.registered) /\ toServer'[i].id <= NumServices
               /\ \/ toServer'[i].id = Len(srv.registered) + 1
                  \/ /\ i > 1 /\ toServer'[i - 1].type = "NewProxy"
                     /\ toServer'[i - 1].id = toServer'[i].id - 1
               /\ \A j \in 1..Len(toServer') :
                    i < j /\ toServer'[j].type = "NewProxy" => toServer'[i].id < toServer'[j].id
    <2>1. toServer'[i] = toServer[i + 1] /\ i + 1 \in 1..Len(toServer) /\ (i + 1) - 1 = i
      BY <1>2
    <2>2. i > 1 => toServer'[i - 1] = toServer[i]
      BY <1>2, <2>1
    <2>3. toServer[i].type = "NewProxy" => i > 1
      BY <1>2
    <2>4. \A j \in 1..Len(toServer') : i < j => toServer'[j] = toServer[j + 1] /\ j + 1 \in 1..Len(toServer)
                                                /\ i + 1 < j + 1
      BY <1>2
    <2>5. /\ toServer[i + 1].id > Len(srv.registered) /\ toServer[i + 1].id <= NumServices
          /\ \/ toServer[i + 1].id = Len(srv.registered) + 1
             \/ toServer[i].type = "NewProxy" /\ toServer[i].id = toServer[i + 1].id - 1
          /\ \A j \in 1..Len(toServer) :
               i + 1 < j /\ toServer[j].type = "NewProxy" => toServer[i + 1].id < toServer[j].id
      BY <1>1, <1>4, <2>1 DEF RegInv
    <2> QED
      BY <2>1, <2>2, <2>3, <2>4, <2>5
  <1>5. ASSUME NEW i \in 1..Len(toServer'), toServer'[i].type = "NewWorkConn"
        PROVE  Len(srv.registered) = NumServices \/ \E j \in 1..(i - 1) :
                 toServer'[j].type = "NewProxy" /\ toServer'[j].id = NumServices
    <2>1. toServer'[i] = toServer[i + 1] /\ i + 1 \in 1..Len(toServer)
      BY <1>2
    <2>2. ASSUME NEW j \in 1..((i + 1) - 1), toServer[j].type = "NewProxy", toServer[j].id = NumServices
          PROVE  j - 1 \in 1..(i - 1) /\ toServer'[j - 1].type = "NewProxy" /\ toServer'[j - 1].id = NumServices
      <3>1. j \in 1..Len(toServer) /\ j # 1
        BY <1>2, <2>2
      <3> QED
        BY <1>2, <2>2, <3>1
    <2> QED
      BY <1>1, <1>5, <2>1, <2>2 DEF RegInv
  <1> QED
    BY <1>1, <1>2, <1>3, <1>4, <1>5 DEF RegInv, client

\* Requests, when frps takes a message that is no work connection and makes
\* no request.
LEMMA CountServed ==
  ASSUME CInv, NEW type, Serve(type), type # "NewWorkConn", NEW T, "ReqWorkConn" \notin T, Adds(T),
         srv'.logged = srv.logged, srv'.reqs = srv.reqs, srv'.work = srv.work
  PROVE  CountInv'
  <1>1. Types /\ CountInv
    BY DEF CInv
  <1>2. /\ UNCHANGED client /\ Len(toServer) \in Nat /\ Len(toServer') = Len(toServer) - 1
        /\ toServer[1].type = type
        /\ \A k \in 1..Len(toServer') : toServer'[k] = toServer[k + 1] /\ k + 1 \in 1..Len(toServer)
        /\ \A k \in 1..Len(toServer) : k # 1 => k - 1 \in 1..Len(toServer')
                                              /\ toServer'[k - 1] = toServer[k]
    BY <1>1, ServeFacts
  <1>3. Requests' = Requests
    BY DEF Adds, Requests
  <1>4. {toServer'[i].id : i \in Offered'} = {toServer[i].id : i \in Offered}
    <2>1. \A i \in Offered' : i + 1 \in Offered /\ toServer'[i] = toServer[i + 1]
      BY <1>2 DEF Offered
    <2>2. \A i \in Offered : i - 1 \in Offered' /\ toServer'[i - 1] = toServer[i]
      BY <1>2 DEF Offered
    <2> QED
      BY <2>1, <2>2
  <1> QED
    BY <1>1, <1>2, <1>3, <1>4 DEF CountInv, client

\* The heartbeat, when frps takes a message that is neither Ping nor Login.
LEMMA TimeServed ==
  ASSUME CInv, NEW type, Serve(type), type \notin {"Ping", "Login"}, NEW T, "Pong" \notin T, Adds(T),
         srv'.refused = srv.refused, UNCHANGED net
  PROVE  TimeInv'
  <1>1. Types /\ TimeInv
    BY DEF CInv
  <1>2. /\ UNCHANGED <<conn, client, timers>> /\ toServer[1].type = type
        /\ \A k \in 1..Len(toServer') : toServer'[k] = toServer[k + 1] /\ k + 1 \in 1..Len(toServer)
        /\ \A k \in 1..Len(toServer) : k # 1 => k - 1 \in 1..Len(toServer')
                                              /\ toServer'[k - 1] = toServer[k]
    BY <1>1, ServeFacts
  <1>3. InServer("Ping")' = InServer("Ping") /\ InServer("Login")' = InServer("Login")
    BY <1>2 DEF InServer
  <1>4. InClient("Pong")' = InClient("Pong") /\ (InClient("ReqWorkConn") => InClient("ReqWorkConn")')
    BY DEF InClient, Adds
  <1>5. Pending' = Pending
    BY <1>3, <1>4 DEF Pending
  <1> QED
    BY <1>1, <1>2, <1>3, <1>4, <1>5 DEF TimeInv, client, timers

\* frps takes an encrypted message: it is logged in, and under the IV it has.
LEMMA NotGarbage ==
  ASSUME CInv, NEW type \in ClientEnc, Serve(type)
  PROVE  ~ Garbage /\ srv.logged
  <1>1. Types /\ UpInv /\ LoginInv
    BY DEF CInv
  <1>2. /\ 1 \in 1..Len(toServer) /\ toServer[1].type = type /\ Head(toServer) = toServer[1]
    BY <1>1, ServeFacts
  <1>3. srv.logged
    BY <1>1, <1>2 DEF LoginInv
  <1>4. srv.iv # NoIV /\ toServer[1].iv = coders.encoder
    <2>1. ~ \E j \in 1..(1 - 1) : toServer[j].type = "IV"
      OBVIOUS
    <2> QED
      BY <1>1, <1>2, <2>1 DEF UpInv
  <1> QED
    BY <1>1, <1>2, <1>3, <1>4 DEF UpInv, Garbage

\* frps takes a SYN: of a stream it does not know.
LEMMA SrvSynKeeps ==
  ASSUME CInv, SrvSyn
  PROVE  CInv'
  <1>1. Types' /\ Types /\ LoginInv /\ SynInv /\ UpInv
    BY NextTypes DEF Next, ServerRecv, CInv
  <1>2. /\ Serve("SYN") /\ net' = net
        /\ srv' = [srv EXCEPT !.streams = @ \cup {Head(toServer).id},
                              !.reused = @ \/ Head(toServer).id \in srv.streams]
        /\ Answer(IF srv.streams = {} THEN <<Msg("ACK", Head(toServer).id, NoIV)>> ELSE <<>>)
    BY DEF SrvSyn
  <1>3. /\ UNCHANGED <<conn, epoch, client, timers, garbled>> /\ conn = "up"
        /\ Len(toServer) \in Nat /\ Len(toServer') = Len(toServer) - 1
        /\ 1 \in 1..Len(toServer) /\ Head(toServer) = toServer[1] /\ toServer[1] \in Messages
        /\ toServer[1].type = "SYN"
        /\ \A k \in 1..Len(toServer') : toServer'[k] = toServer[k + 1] /\ k + 1 \in 1..Len(toServer)
    BY <1>1, <1>2, ServeFacts
  <1>4. /\ srv'.logged = srv.logged /\ srv'.refused = srv.refused /\ srv'.iv = srv.iv
        /\ srv'.registered = srv.registered /\ srv'.reqs = srv.reqs /\ srv'.work = srv.work
        /\ srv'.garbled = srv.garbled
        /\ srv'.streams = srv.streams \cup {toServer[1].id}
        /\ srv'.reused = (srv.reused \/ toServer[1].id \in srv.streams)
    <2>1. srv \in Peers
      BY <1>1 DEF Types
    <2> QED
      BY <1>2, <1>3, <2>1 DEF Peers
  <1>5. PICK T \in SUBSET {"ACK"} : Adds(T)
    <2>1. CASE srv.streams = {}
      <3>1. toServer[1].id \in Nat
        BY <1>3, MsgFacts
      <3>2. Adds({"ACK"})
        BY <1>1, <1>2, <1>3, <2>1, <3>1, AnswerAdds DEF ServerEnc
      <3> QED
        BY <3>2
    <2>2. CASE srv.streams # {}
      <3>1. toClient' = toClient \o <<>> /\ toClient \in Seq(Messages)
        BY <1>1, <1>2, <2>2 DEF Answer, Types
      <3>2. toClient' = toClient
        BY <3>1
      <3> QED
        BY <1>1, <3>2, SilentAdds
    <2> QED
      BY <2>1, <2>2
  <1>6. T \in SUBSET (ServerEnc \cup {"ACK"}) /\ ~ (T # {"ACK"} /\ T # {}) /\ "ReqWorkConn" \notin T
        /\ "Pong" \notin T
    BY <1>5 DEF ServerEnc
  <1>7. Idle'
    BY <1>3 DEF Idle
  <1>8. LoginInv'
    BY <1>2, <1>4, <1>5, <1>6, LoginServed
  <1>9. DownInv'
    BY <1>3, <1>4, <1>5, <1>6, DownServed DEF client
  <1>10. UpInv'
    BY <1>1, <1>2, <1>4, UpServed DEF UpInv
  <1>11. SynInv'
    <2>1. ~ srv'.reused
      BY <1>1, <1>3, <1>4 DEF SynInv
    <2>2. \A id \in srv'.streams : id < g_session_id
      BY <1>1, <1>3, <1>4 DEF SynInv
    <2>3. ASSUME NEW i \in 1..Len(toServer'), NEW j \in 1..Len(toServer'), toServer'[i].type = "SYN"
          PROVE  /\ toServer'[i].id < g_session_id /\ toServer'[i].id \notin srv'.streams
                 /\ toServer'[j].type = "SYN" /\ toServer'[j].id = toServer'[i].id => i = j
      <3>1. /\ toServer'[i] = toServer[i + 1] /\ i + 1 \in 1..Len(toServer)
            /\ toServer'[j] = toServer[j + 1] /\ j + 1 \in 1..Len(toServer)
            /\ i + 1 # 1 /\ (i + 1 = j + 1 => i = j)
        BY <1>3
      <3> QED
        BY <1>1, <1>3, <1>4, <2>3, <3>1 DEF SynInv
    <2> QED
      BY <1>1, <1>3, <2>1, <2>2, <2>3 DEF SynInv, client
  <1>12. RegInv'
    BY <1>2, <1>4, RegServed
  <1>13. CountInv'
    BY <1>2, <1>4, <1>5, <1>6, CountServed
  <1>14. TimeInv'
    BY <1>2, <1>4, <1>5, <1>6, TimeServed
  <1> QED
    BY <1>1, <1>7, <1>8, <1>9, <1>10, <1>11, <1>12, <1>13, <1>14 DEF CInv

\* frps takes the client's IV.
LEMMA SrvIVKeeps ==
  ASSUME CInv, SrvIV
  PROVE  CInv'
  <1>1. Types' /\ Types /\ UpInv
    BY NextTypes DEF Next, ServerRecv, CInv
  <1>2. Serve("IV") /\ UNCHANGED <<toClient, net>> /\ srv' = [srv EXCEPT !.iv = Head(toServer).iv]
    BY DEF SrvIV
  <1>3. /\ UNCHANGED <<conn, epoch, client, timers, garbled>> /\ conn = "up"
        /\ 1 \in 1..Len(toServer) /\ Head(toServer) = toServer[1] /\ toServer[1].type = "IV"
        /\ \A k \in 1..Len(toServer') : toServer'[k] = toServer[k + 1] /\ k + 1 \in 1..Len(toServer)
    BY <1>1, <1>2, ServeFacts
  <1>4. /\ srv'.logged = srv.logged /\ srv'.refused = srv.refused /\ srv'.iv = toServer[1].iv
        /\ srv'.registered = srv.registered /\ srv'.reqs = srv.reqs /\ srv'.work = srv.work
        /\ srv'.garbled = srv.garbled /\ srv'.streams = srv.streams /\ srv'.reused = srv.reused
    <2>1. srv \in Peers
      BY <1>1 DEF Types
    <2> QED
      BY <1>2, <1>3, <2>1 DEF Peers
  <1>5. Adds({}) /\ {} \in SUBSET (ServerEnc \cup {"ACK"}) /\ "ReqWorkConn" \notin {} /\ "Pong" \notin {}
    BY <1>1, <1>2, SilentAdds
  <1>6. Idle'
    BY <1>3 DEF Idle
  <1>7. LoginInv'
    BY <1>2, <1>4, <1>5, LoginServed
  <1>8. DownInv'
    BY <1>3, <1>4, <1>5, DownServed DEF client
  <1>9. UpInv'
    <2>1. srv'.iv = coders.encoder /\ coders.encoder # NoIV
      BY <1>1, <1>3, <1>4 DEF UpInv
    <2> QED
      BY <1>1, <1>3, <1>4, <2>1 DEF UpInv, client
  <1>10. SynInv'
    BY <1>2, <1>4, SynServed
  <1>11. RegInv'
    BY <1>2, <1>4, RegServed
  <1>12. CountInv'
    BY <1>2, <1>4, <1>5, CountServed
  <1>13. TimeInv'
    BY <1>2, <1>4, <1>5, TimeServed
  <1> QED
    BY <1>1, <1>6, <1>7, <1>8, <1>9, <1>10, <1>11, <1>12, <1>13 DEF CInv

\* frps takes a ping and answers it.
LEMMA SrvPingKeeps ==
  ASSUME CInv, SrvPing
  PROVE  CInv'
  <1>1. Types' /\ Types /\ UpInv /\ TimeInv
    BY NextTypes DEF Next, ServerRecv, CInv
  <1>2. /\ Serve("Ping") /\ UNCHANGED net /\ srv' = [srv EXCEPT !.garbled = @ \/ Garbage]
        /\ Answer(<<Msg("Pong", 0, ServerIV)>>)
    BY DEF SrvPing
  <1>3. /\ UNCHANGED <<conn, epoch, client, timers, garbled>> /\ conn = "up"
        /\ 1 \in 1..Len(toServer) /\ toServer[1].type = "Ping"
        /\ \A k \in 1..Len(toServer') : toServer'[k] = toServer[k + 1] /\ k + 1 \in 1..Len(toServer)
        /\ \A k \in 1..Len(toServer) : k # 1 => k - 1 \in 1..Len(toServer')
                                              /\ toServer'[k - 1] = toServer[k]
    BY <1>1, <1>2, ServeFacts
  <1>4. ~ Garbage /\ srv.logged
    BY <1>2, NotGarbage DEF ClientEnc
  <1>5. /\ srv'.logged = srv.logged /\ srv'.refused = srv.refused /\ srv'.iv = srv.iv
        /\ srv'.registered = srv.registered /\ srv'.reqs = srv.reqs /\ srv'.work = srv.work
        /\ srv'.garbled = srv.garbled /\ srv'.streams = srv.streams /\ srv'.reused = srv.reused
    <2>1. srv \in Peers
      BY <1>1 DEF Types
    <2> QED
      BY <1>2, <1>4, <2>1 DEF Peers
  <1>6. Adds({"Pong"}) /\ InClient("Pong")'
    BY <1>1, <1>2, AnswerAdds DEF ServerEnc
  <1>7. {"Pong"} \in SUBSET (ServerEnc \cup {"ACK"}) /\ "ReqWorkConn" \notin {"Pong"}
    BY DEF ServerEnc
  <1>8. Idle'
    BY <1>3 DEF Idle
  <1>9. LoginInv'
    BY <1>2, <1>4, <1>5, <1>6, <1>7, LoginServed
  <1>10. DownInv'
    BY <1>3, <1>4, <1>5, <1>6, <1>7, DownServed DEF client
  <1>11. UpInv'
    BY <1>1, <1>2, <1>5, UpServed DEF UpInv
  <1>12. SynInv'
    BY <1>2, <1>5, SynServed
  <1>13. RegInv'
    BY <1>2, <1>5, RegServed
  <1>14. CountInv'
    BY <1>2, <1>5, <1>6, <1>7, CountServed
  <1>15. TimeInv'
    <2>1. Pending /\ Pending'
      BY <1>3, <1>6 DEF Pending, InServer
    <2>2. InServer("Login")' = InServer("Login") /\ (InClient("ReqWorkConn") => InClient("ReqWorkConn")')
      <3>1. InServer("Login")' = InServer("Login")
        BY <1>3 DEF InServer
      <3>2. InClient("ReqWorkConn") => InClient("ReqWorkConn")'
        BY <1>6 DEF InClient, Adds
      <3> QED
        BY <3>1, <3>2
    <2> QED
      BY <1>1, <1>2, <1>3, <1>5, <2>1, <2>2 DEF TimeInv, client, timers
  <1> QED
    BY <1>1, <1>8, <1>9, <1>10, <1>11, <1>12, <1>13, <1>14, <1>15 DEF CInv

\* frps takes the registration of a service: the next one.
LEMMA SrvNewProxyKeeps ==
  ASSUME CInv, SrvNewProxy
  PROVE  CInv'
  <1> DEFINE n == Len(srv.registered)
  <1>1. Types' /\ Types /\ UpInv /\ RegInv
    BY NextTypes DEF Next, ServerRecv, CInv
  <1>2. /\ Serve("NewProxy") /\ UNCHANGED net
        /\ srv' = [srv EXCEPT !.registered = Append(@, Head(toServer).id), !.garbled = @ \/ Garbage]
        /\ Answer(<<Msg("NewProxyResp", 0, ServerIV)>>)
    BY DEF SrvNewProxy
  <1>3. /\ UNCHANGED <<conn, epoch, client, timers, garbled>> /\ conn = "up"
        /\ Len(toServer) \in Nat /\ Len(toServer') = Len(toServer) - 1
        /\ 1 \in 1..Len(toServer) /\ toServer[1].type = "NewProxy" /\ Head(toServer) = toServer[1]
        /\ \A k \in 1..Len(toServer') : toServer'[k] = toServer[k + 1] /\ k + 1 \in 1..Len(toServer)
        /\ \A k \in 1..Len(toServer) : k # 1 => k - 1 \in 1..Len(toServer')
                                              /\ toServer'[k - 1] = toServer[k]
    BY <1>1, <1>2, ServeFacts
  <1>4. ~ Garbage /\ srv.logged
    BY <1>2, NotGarbage DEF ClientEnc
  <1>5. /\ srv'.logged = srv.logged /\ srv'.refused = srv.refused /\ srv'.iv = srv.iv
        /\ srv'.registered = Append(srv.registered, toServer[1].id)
        /\ srv'.reqs = srv.reqs /\ srv'.work = srv.work
        /\ srv'.garbled = srv.garbled /\ srv'.streams = srv.streams /\ srv'.reused = srv.reused
    <2>1. srv \in Peers
      BY <1>1 DEF Types
    <2> QED
      BY <1>2, <1>3, <1>4, <2>1 DEF Peers
  <1>6. Adds({"NewProxyResp"})
    BY <1>1, <1>2, AnswerAdds DEF ServerEnc
  <1>7. /\ {"NewProxyResp"} \in SUBSET (ServerEnc \cup {"ACK"}) /\ "ReqWorkConn" \notin {"NewProxyResp"}
        /\ "Pong" \notin {"NewProxyResp"}
    BY DEF ServerEnc
  <1>8. Idle'
    BY <1>3 DEF Idle
  <1>9. LoginInv'
    BY <1>2, <1>4, <1>5, <1>6, <1>7, LoginServed
  <1>10. DownInv'
    BY <1>3, <1>4, <1>5, <1>6, <1>7, DownServed DEF client
  <1>11. UpInv'
    BY <1>1, <1>2, <1>5, UpServed DEF UpInv
  <1>12. SynInv'
    BY <1>2, <1>5, SynServed
  <1>13. CountInv'
    BY <1>2, <1>5, <1>6, <1>7, CountServed
  <1>14. TimeInv'
    BY <1>2, <1>5, <1>6, <1>7, TimeServed
  <1>15. RegInv'
    <2>1. srv.registered \in Seq(Nat) /\ n \in Nat /\ NumServices \in Nat
      BY <1>1, ControlAssumption DEF Types, Peers
    <2>2. toServer[1].id = n + 1 /\ n + 1 <= NumServices
      BY <1>1, <1>3 DEF RegInv
    <2>3. /\ Len(srv'.registered) = n + 1 /\ srv'.registered \in Seq(Nat)
          /\ \A k \in 1..(n + 1) : srv'.registered[k] = IF k = n + 1 THEN n + 1 ELSE srv.registered[k]
      BY <1>5, <2>1, <2>2
    <2>4. srv.registered = [k \in 1..n |-> k] /\ (srv.work # {} => n = NumServices)
      BY <1>1 DEF RegInv, RegistersFirst
    <2>5. RegistersFirst'
      <3>1. \A k \in 1..n : srv.registered[k] = k
        BY <2>4
      <3>2. \A k \in 1..(n + 1) : srv'.registered[k] = k
        <4> SUFFICES ASSUME NEW k \in 1..(n + 1) PROVE srv'.registered[k] = k
          OBVIOUS
        <4>1. k = n + 1 \/ k \in 1..n
          BY <2>1
        <4>2. srv'.registered[k] = IF k = n + 1 THEN n + 1 ELSE srv.registered[k]
          BY <2>3
        <4> HIDE DEF n
        <4> QED
          BY <3>1, <4>1, <4>2
      <3>3. srv'.registered = [k \in 1..Len(srv'.registered) |-> k]
        BY <2>3, <3>2
      <3>4. srv.work = {}
        BY <2>1, <2>2, <2>4
      <3> QED
        BY <1>5, <3>3, <3>4 DEF RegistersFirst
    <2>6. client_connected' /\ client_connected
      BY <1>1, <1>3 DEF RegInv, InServer, client
    <2>7. n + 1 = NumServices \/ LastService'
      <3>1. LastService
        BY <1>1, <2>1, <2>2, <2>6 DEF RegInv
      <3>2. PICK i \in 1..Len(toServer) : toServer[i].type = "NewProxy" /\ toServer[i].id = NumServices
        BY <3>1 DEF LastService
      <3> QED
        BY <1>3, <2>2, <3>2 DEF LastService
    <2>8. ASSUME NEW i \in 1..Len(toServer'), toServer'[i].type = "NewProxy"
          PROVE  /\ toServer'[i].id > n + 1 /\ toServer'[i].id <= NumServices
                 /\ \/ toServer'[i].id = n + 2
                    \/ /\ i > 1 /\ toServer'[i - 1].type = "NewProxy"
                       /\ toServer'[i - 1].id = toServer'[i].id - 1
                 /\ \A j \in 1..Len(toServer') :
                      i < j /\ toServer'[j].type = "NewProxy" => toServer'[i].id < toServer'[j].id
      <3>1. toServer'[i] = toServer[i + 1] /\ i + 1 \in 1..Len(toServer) /\ (i + 1) - 1 = i /\ i >= 1
        BY <1>3
      <3>2. /\ toServer[i + 1].id > n /\ toServer[i + 1].id <= NumServices
            /\ \/ toServer[i + 1].id = n + 1
               \/ toServer[i].type = "NewProxy" /\ toServer[i].id = toServer[i + 1].id - 1
            /\ \A j \in 1..Len(toServer) :
                 i + 1 < j /\ toServer[j].type = "NewProxy" => toServer[i + 1].id < toServer[j].id
        BY <1>1, <2>8, <3>1 DEF RegInv
      <3>3. toServer[1].id < toServer[i + 1].id
        <4>1. 1 < i + 1 /\ toServer[i + 1].type = "NewProxy"
          BY <2>8, <3>1
        <4> QED
          BY <1>1, <1>3, <3>1, <4>1 DEF RegInv
      <3>4. \A j \in 1..Len(toServer') : i < j => toServer'[j] = toServer[j + 1] /\ j + 1 \in 1..Len(toServer)
                                                  /\ i + 1 < j + 1
        BY <1>3
      <3>5. toServer[i + 1].id \in Nat /\ toServer[i + 1].id > n + 1
        <4>1. toServer[i + 1] \in Messages
          BY <1>1, <3>1 DEF Types
        <4>2. toServer[i + 1].id \in Nat
          BY <4>1, MsgFacts
        <4> QED
          BY <2>1, <2>2, <3>3, <4>2
      <3>6. \/ toServer'[i].id = n + 2
            \/ /\ i > 1 /\ toServer'[i - 1].type = "NewProxy"
               /\ toServer'[i - 1].id = toServer'[i].id - 1
        <4>1. toServer[i].type = "NewProxy" /\ toServer[i].id = toServer[i + 1].id - 1
          BY <2>1, <3>2, <3>5
        <4>2. CASE i = 1
          BY <2>1, <2>2, <3>1, <3>5, <4>1, <4>2, SMTT(20)
        <4>3. CASE i > 1
          <5>1. toServer'[i - 1] = toServer[i]
            BY <1>3, <3>1, <4>3
          <5> QED
            BY <3>1, <4>1, <4>3, <5>1
        <4> QED
          BY <3>1, <4>2, <4>3
      <3> QED
        BY <3>1, <3>2, <3>4, <3>5, <3>6
    <2>9. ASSUME NEW i \in 1..Len(toServer'), toServer'[i].type = "NewWorkConn"
          PROVE  n + 1 = NumServices \/ \E j \in 1..(i - 1) :
                   toServer'[j].type = "NewProxy" /\ toServer'[j].id = NumServices
      <3>1. toServer'[i] = toServer[i + 1] /\ i + 1 \in 1..Len(toServer) /\ (i + 1) - 1 = i
        BY <1>3
      <3>2. PICK j \in 1..((i + 1) - 1) : toServer[j].type = "NewProxy" /\ toServer[j].id = NumServices
        BY <1>1, <2>1, <2>2, <2>9, <3>1 DEF RegInv
      <3>3. CASE j = 1
        BY <2>2, <3>2, <3>3
      <3>4. CASE j # 1
        <4>1. j \in 1..Len(toServer) /\ j - 1 \in 1..(i - 1)
          BY <1>3, <3>1, <3>4
        <4> QED
          BY <1>3, <3>2, <3>4, <4>1
      <3> QED
        BY <3>3, <3>4
    <2>10. n + 2 = (n + 1) + 1
      BY <2>1
    <2> QED
      BY <2>3, <2>5, <2>6, <2>7, <2>8, <2>9, <2>10 DEF RegInv
  <1> QED
    BY <1>1, <1>8, <1>9, <1>10, <1>11, <1>12, <1>13, <1>14, <1>15 DEF CInv

\* frps takes a work connection: every service is registered.
LEMMA SrvNewWorkConnKeeps ==
  ASSUME CInv, SrvNewWorkConn
  PROVE  CInv'
  <1>1. Types' /\ Types /\ UpInv /\ RegInv /\ CountInv
    BY NextTypes DEF Next, ServerRecv, CInv
  <1>2. /\ Serve("NewWorkConn") /\ UNCHANGED <<toClient, net>>
        /\ srv' = [srv EXCEPT !.work = @ \cup {Head(toServer).id}]
    BY DEF SrvNewWorkConn
  <1>3. /\ UNCHANGED <<conn, epoch, client, timers, garbled>> /\ conn = "up"
        /\ 1 \in 1..Len(toServer) /\ toServer[1].type = "NewWorkConn" /\ Head(toServer) = toServer[1]
        /\ \A k \in 1..Len(toServer') : toServer'[k] = toServer[k + 1] /\ k + 1 \in 1..Len(toServer)
        /\ \A k \in 1..Len(toServer) : k # 1 => k - 1 \in 1..Len(toServer')
                                              /\ toServer'[k - 1] = toServer[k]
    BY <1>1, <1>2, ServeFacts
  <1>4. /\ srv'.logged = srv.logged /\ srv'.refused = srv.refused /\ srv'.iv = srv.iv
        /\ srv'.registered = srv.registered /\ srv'.reqs = srv.reqs
        /\ srv'.work = srv.work \cup {toServer[1].id}
        /\ srv'.garbled = srv.garbled /\ srv'.streams = srv.streams /\ srv'.reused = srv.reused
    <2>1. srv \in Peers
      BY <1>1 DEF Types
    <2> QED
      BY <1>2, <1>3, <2>1 DEF Peers
  <1>5. Adds({}) /\ {} \in SUBSET (ServerEnc \cup {"ACK"}) /\ "ReqWorkConn" \notin {} /\ "Pong" \notin {}
    BY <1>1, <1>2, SilentAdds
  <1>6. Idle'
    BY <1>3 DEF Idle
  <1>7. LoginInv'
    BY <1>2, <1>4, <1>5, LoginServed
  <1>8. DownInv'
    BY <1>3, <1>4, <1>5, DownServed DEF client
  <1>9. UpInv'
    BY <1>1, <1>2, <1>4, UpServed DEF UpInv
  <1>10. SynInv'
    BY <1>2, <1>4, SynServed
  <1>11. RegInv'
    <2>1. Len(srv.registered) = NumServices
      <3>1. ~ \E j \in 1..(1 - 1) : toServer[j].type = "NewProxy" /\ toServer[j].id = NumServices
        OBVIOUS
      <3> QED
        BY <1>1, <1>3, <3>1 DEF RegInv
    <2> QED
      BY <1>2, <1>4, <2>1, RegServed
  <1>12. CountInv'
    <2>1. Requests' = Requests
      BY <1>2 DEF Requests
    <2>2. srv'.work \cup {toServer'[i].id : i \in Offered'} = srv.work \cup {toServer[i].id : i \in Offered}
      <3>1. \A i \in Offered' : i + 1 \in Offered /\ toServer'[i] = toServer[i + 1]
        BY <1>3 DEF Offered
      <3>2. \A i \in Offered : i = 1 \/ (i - 1 \in Offered' /\ toServer'[i - 1] = toServer[i])
        BY <1>3 DEF Offered
      <3>3. 1 \in Offered
        BY <1>3 DEF Offered
      <3> QED
        BY <1>4, <3>1, <3>2, <3>3
    <2> QED
      BY <1>1, <1>3, <1>4, <2>1, <2>2 DEF CountInv, client
  <1>13. TimeInv'
    BY <1>2, <1>4, <1>5, TimeServed
  <1> QED
    BY <1>1, <1>6, <1>7, <1>8, <1>9, <1>10, <1>11, <1>12, <1>13 DEF CInv

\* frps answers a login: the first thing it says but for the ACK.
LEMMA SrvLoginKeeps ==
  ASSUME CInv, SrvLogin
  PROVE  CInv'
  <1> DEFINE K == Len(toClient)
  <1>1. Types' /\ Types /\ LoginInv /\ DownInv /\ UpInv /\ RegInv /\ SynInv /\ CountInv /\ TimeInv
    BY NextTypes DEF Next, ServerRecv, CInv
  <1>2. Serve("Login")
    BY DEF SrvLogin
  <1>3. /\ UNCHANGED <<conn, epoch, client, timers, garbled>> /\ conn = "up"
        /\ Len(toServer) \in Nat /\ Len(toServer') = Len(toServer) - 1
        /\ 1 \in 1..Len(toServer) /\ toServer[1].type = "Login"
        /\ \A k \in 1..Len(toServer') : toServer'[k] = toServer[k + 1] /\ k + 1 \in 1..Len(toServer)
        /\ \A k \in 1..Len(toServer) : k # 1 => k - 1 \in 1..Len(toServer')
                                              /\ toServer'[k - 1] = toServer[k]
    BY <1>1, <1>2, ServeFacts
  <1>4. ~ srv.logged /\ ~ srv.refused /\ ~ is_login /\ ~ client_connected
    BY <1>1, <1>3 DEF LoginInv
  <1>5. \A k \in 1..K : /\ toClient[k].type \notin ServerEnc \cup {"IV"}
                        /\ ~ (toClient[k].type = "LoginResp" /\ toClient[k].id = 1)
    BY <1>1, <1>4 DEF LoginInv
  <1>6. \A k \in 1..Len(toServer') :
          /\ toServer'[k].type # "Login"
          /\ toServer'[k].type \notin ClientEnc \cup {"NewWorkConn", "IV"}
    <2> SUFFICES ASSUME NEW k \in 1..Len(toServer')
                 PROVE  /\ toServer'[k].type # "Login"
                        /\ toServer'[k].type \notin ClientEnc \cup {"NewWorkConn", "IV"}
      OBVIOUS
    <2>1. toServer'[k] = toServer[k + 1] /\ k + 1 \in 1..Len(toServer) /\ k + 1 # 1
      BY <1>3
    <2> QED
      BY <1>1, <1>3, <1>4, <2>1 DEF LoginInv
  <1>7. K \in Nat /\ toClient \in Seq(Messages) /\ ServerIV \in IVs /\ NoIV \in IVs /\ srv \in Peers
    BY <1>1, EncMsg DEF Types, IVs
  <1>8. \E m1 \in Messages, q \in Seq(Messages) :
          /\ toClient' = toClient \o q /\ m1.type = "LoginResp" /\ q[1] = m1
          /\ \/ /\ srv' = [srv EXCEPT !.logged = TRUE, !.reqs = 1] /\ net' = net
                /\ Len(q) = 3 /\ q[2].type = "IV" /\ q[2].iv = ServerIV
                /\ q[3].type = "ReqWorkConn" /\ q[3].iv = ServerIV
             \/ /\ srv' = [srv EXCEPT !.refused = TRUE] /\ net'.stalled = net.stalled
                /\ net'.ever = net.ever /\ Len(q) = 1 /\ m1.id = 0
    <2>1. /\ Msg("LoginResp", 1, NoIV) \in Messages /\ Msg("LoginResp", 0, NoIV) \in Messages
          /\ Msg("IV", 0, ServerIV) \in Messages /\ Msg("ReqWorkConn", 0, ServerIV) \in Messages
      BY <1>7, MsgFacts DEF MsgTypes
    <2>2. CASE /\ srv' = [srv EXCEPT !.logged = TRUE, !.reqs = 1] /\ net' = net
               /\ Answer(<<Msg("LoginResp", 1, NoIV), Msg("IV", 0, ServerIV),
                           Msg("ReqWorkConn", 0, ServerIV)>>)
      <3> DEFINE q == <<Msg("LoginResp", 1, NoIV), Msg("IV", 0, ServerIV),
                        Msg("ReqWorkConn", 0, ServerIV)>>
      <3>1. /\ q \in Seq(Messages) /\ Len(q) = 3 /\ q[1] = Msg("LoginResp", 1, NoIV)
            /\ q[2] = Msg("IV", 0, ServerIV) /\ q[3] = Msg("ReqWorkConn", 0, ServerIV)
        BY <2>1
      <3>2. toClient' = toClient \o q
        BY <2>2 DEF Answer
      <3> HIDE DEF q
      <3>3. /\ q[1].type = "LoginResp" /\ q[2].type = "IV" /\ q[2].iv = ServerIV
            /\ q[3].type = "ReqWorkConn" /\ q[3].iv = ServerIV /\ q[1] \in Messages
        BY <2>1, <3>1 DEF Msg
      <3> QED
        BY <2>2, <3>1, <3>2, <3>3
    <2>3. CASE /\ srv' = [srv EXCEPT !.refused = TRUE]
               /\ Answer(<<Msg("LoginResp", 0, NoIV)>>)
               /\ net' = [net EXCEPT !.faults = @ - 1]
      <3> DEFINE q == <<Msg("LoginResp", 0, NoIV)>>
      <3>1. q \in Seq(Messages) /\ Len(q) = 1 /\ q[1] = Msg("LoginResp", 0, NoIV)
        BY <2>1
      <3>2. toClient' = toClient \o q
        BY <2>3 DEF Answer
      <3> HIDE DEF q
      <3>3. q[1].type = "LoginResp" /\ q[1].id = 0 /\ q[1] \in Messages
        BY <2>1, <3>1 DEF Msg
      <3>4. net'.stalled = net.stalled /\ net'.ever = net.ever
        BY <1>1, <2>3 DEF Types
      <3> QED
        BY <2>3, <3>1, <3>2, <3>3, <3>4
    <2> QED
      BY <2>2, <2>3 DEF SrvLogin
  <1>9. PICK m1 \in Messages, q \in Seq(Messages) :
          /\ toClient' = toClient \o q /\ m1.type = "LoginResp" /\ q[1] = m1
          /\ \/ /\ srv' = [srv EXCEPT !.logged = TRUE, !.reqs = 1] /\ net' = net
                /\ Len(q) = 3 /\ q[2].type = "IV" /\ q[2].iv = ServerIV
                /\ q[3].type = "ReqWorkConn" /\ q[3].iv = ServerIV
             \/ /\ srv' = [srv EXCEPT !.refused = TRUE] /\ net'.stalled = net.stalled
                /\ net'.ever = net.ever /\ Len(q) = 1 /\ m1.id = 0
    BY <1>8
  <1>10. /\ Len(toClient') = K + Len(q) /\ Len(q) \in Nat
         /\ \A k \in 1..K : toClient'[k] = toClient[k] /\ k \in 1..Len(toClient')
         /\ \A k \in 1..Len(q) : toClient'[K + k] = q[k]
    BY <1>7, <1>9, AppendFacts
  <1>11. /\ srv'.iv = srv.iv /\ srv'.registered = srv.registered /\ srv'.work = srv.work
         /\ srv'.garbled = srv.garbled /\ srv'.streams = srv.streams /\ srv'.reused = srv.reused
         /\ net'.stalled = net.stalled /\ net'.ever = net.ever
         /\ \/ srv'.logged = TRUE /\ srv'.reqs = 1 /\ srv'.refused = srv.refused /\ Len(q) = 3
            \/ srv'.logged = FALSE /\ srv'.reqs = srv.reqs /\ srv'.refused = TRUE /\ Len(q) = 1
    <2>1. CASE srv' = [srv EXCEPT !.logged = TRUE, !.reqs = 1] /\ net' = net /\ Len(q) = 3
      BY <1>7, <2>1 DEF Peers
    <2>2. CASE srv' = [srv EXCEPT !.refused = TRUE] /\ net'.stalled = net.stalled /\ net'.ever = net.ever
               /\ Len(q) = 1
      BY <1>4, <1>7, <2>2 DEF Peers
    <2> QED
      BY <1>9, <2>1, <2>2
  <1>12. Idle'
    BY <1>3 DEF Idle
  <1>13. UpInv'
    BY <1>1, <1>2, <1>11, UpServed DEF UpInv
  <1>14. SynInv'
    BY <1>2, <1>11, SynServed
  <1>15. RegInv'
    BY <1>2, <1>11, RegServed
  <1>16. Offered = {} /\ Offered' = {} /\ Requests = {}
    <2>1. Offered' = {}
      BY <1>6 DEF Offered
    <2>2. Offered = {}
      BY <1>1, <1>4 DEF Offered, LoginInv
    <2>3. Requests = {}
      BY <1>5 DEF Requests, ServerEnc
    <2> QED
      BY <2>1, <2>2, <2>3
  <1>17. InServer("Ping")' = InServer("Ping") /\ ~ InServer("Ping")'
    <2>1. ~ InServer("Ping")'
      BY <1>6 DEF InServer, ClientEnc
    <2>2. ~ InServer("Ping")
      BY <1>1, <1>4 DEF InServer, LoginInv, ClientEnc
    <2> QED
      BY <2>1, <2>2 DEF InServer
  <1>18. ~ InClient("Pong")
    BY <1>5 DEF InClient, ServerEnc
  <1>19. CASE srv'.logged
    <2>1. /\ Len(toClient') = K + 3 /\ toClient'[K + 1].type = "LoginResp"
          /\ toClient'[K + 2].type = "IV" /\ toClient'[K + 2].iv = ServerIV
          /\ toClient'[K + 3].type = "ReqWorkConn" /\ toClient'[K + 3].iv = ServerIV
      <3>1. Len(q) = 3 /\ 1 \in 1..Len(q) /\ 2 \in 1..Len(q) /\ 3 \in 1..Len(q)
        <4>1. Len(q) = 3
          BY <1>11, <1>19
        <4> QED
          BY <4>1
      <3> QED
        BY <1>9, <1>10, <3>1
    <2>2. \A k \in 1..Len(toClient') : \/ k \in 1..K /\ toClient'[k] = toClient[k]
                                       \/ k = K + 1 \/ k = K + 2 \/ k = K + 3
      BY <1>7, <1>10, <2>1
    <2>3. K + 2 \in 1..Len(toClient') /\ K + 3 \in 1..Len(toClient') /\ K + 2 \in 1..((K + 3) - 1)
      BY <1>7, <2>1
    <2>4. LoginInv'
      BY <1>6, <1>19 DEF LoginInv
    <2>5. DownInv'
      <3>1. InClient("IV")'
        BY <2>1, <2>3 DEF InClient
      <3>2. ASSUME NEW i \in 1..Len(toClient')
            PROVE  /\ toClient'[i].type \in ServerEnc \cup {"IV"} => toClient'[i].iv = ServerIV
                   /\ toClient'[i].type \in ServerEnc => \E j \in 1..(i - 1) : toClient'[j].type = "IV"
        <4>1. CASE i \in 1..K /\ toClient'[i] = toClient[i]
          BY <1>5, <4>1
        <4>2. CASE i = K + 1 \/ i = K + 2
          BY <2>1, <4>2 DEF ServerEnc
        <4>3. CASE i = K + 3
          BY <2>1, <2>3, <4>3
        <4> QED
          BY <2>2, <4>1, <4>2, <4>3
      <3> QED
        BY <1>1, <1>3, <3>1, <3>2 DEF DownInv, client, ServerIV
    <2>6. CountInv'
      <3>1. Requests' = {K + 3}
        <4>1. \A k \in Requests' : k = K + 3
          BY <1>5, <2>1, <2>2 DEF Requests, ServerEnc
        <4>2. K + 3 \in Requests'
          BY <2>1, <2>3 DEF Requests
        <4> QED
          BY <4>1, <4>2
      <3>2. Cardinality({K + 3}) = 1 /\ Cardinality({}) = 0 /\ IsFiniteSet({})
        BY FS_Singleton, FS_EmptySet
      <3>3. all_pc = {} /\ srv'.reqs = 1 /\ srv.work = {}
        BY <1>1, <1>4, <1>11, <1>19 DEF CountInv
      <3> QED
        BY <1>3, <1>11, <1>16, <1>19, <3>1, <3>2, <3>3 DEF CountInv, client
    <2>7. TimeInv'
      <3>1. InClient("ReqWorkConn")'
        BY <2>1, <2>3 DEF InClient
      <3>2. ~ InClient("Pong")'
        BY <1>5, <2>1, <2>2 DEF InClient, ServerEnc
      <3>3. Pending' = Pending /\ srv'.refused = srv.refused
        BY <1>11, <1>17, <1>18, <1>19, <3>2 DEF Pending
      <3> QED
        BY <1>1, <1>3, <1>11, <3>1, <3>3 DEF TimeInv, client, timers
    <2> QED
      BY <1>1, <1>12, <1>13, <1>14, <1>15, <2>4, <2>5, <2>6, <2>7 DEF CInv
  <1>20. CASE ~ srv'.logged
    <2>1. /\ Len(toClient') = K + 1 /\ toClient'[K + 1].type = "LoginResp" /\ toClient'[K + 1].id # 1
      <3>1. Len(q) = 1 /\ 1 \in 1..Len(q) /\ q[1].id = 0
        BY <1>9, <1>11, <1>20
      <3> QED
        BY <1>9, <1>10, <3>1
    <2>2. \A k \in 1..Len(toClient') : (k \in 1..K /\ toClient'[k] = toClient[k]) \/ k = K + 1
      BY <1>7, <1>10, <2>1
    <2>3. \A k \in 1..Len(toClient') : /\ toClient'[k].type \notin ServerEnc \cup {"IV"}
                                       /\ ~ (toClient'[k].type = "LoginResp" /\ toClient'[k].id = 1)
      BY <1>5, <2>1, <2>2 DEF ServerEnc
    <2>4. LoginInv'
      BY <1>3, <1>4, <1>6, <2>3 DEF LoginInv, client
    <2>5. DownInv'
      BY <1>1, <1>3, <1>20, <2>3 DEF DownInv, client, ServerIV
    <2>6. CountInv'
      <3>1. Requests' = {}
        BY <2>3 DEF Requests, ServerEnc
      <3> QED
        BY <1>1, <1>3, <1>4, <1>11, <1>16, <1>20, <3>1 DEF CountInv, client
    <2>7. TimeInv'
      BY <1>1, <1>3, <1>11, <1>20 DEF TimeInv, client, timers
    <2> QED
      BY <1>1, <1>12, <1>13, <1>14, <1>15, <2>4, <2>5, <2>6, <2>7 DEF CInv
  <1> QED
    BY <1>19, <1>20

\* frps asks for another work connection.
LEMMA SrvAsksKeeps ==
  ASSUME CInv, SrvAsks
  PROVE  CInv'
  <1>1. Types' /\ Types /\ LoginInv /\ UpInv /\ SynInv /\ RegInv /\ CountInv /\ TimeInv
    BY NextTypes DEF Next, CInv
  <1>2. /\ conn = "up" /\ srv.logged /\ srv' = [srv EXCEPT !.reqs = @ + 1]
        /\ Answer(<<Msg("ReqWorkConn", 0, ServerIV)>>)
        /\ UNCHANGED <<conn, epoch, client, timers, garbled, toServer, net>>
    BY DEF SrvAsks
  <1>3. /\ srv'.logged = srv.logged /\ srv'.refused = srv.refused /\ srv'.iv = srv.iv
        /\ srv'.registered = srv.registered /\ srv'.reqs = srv.reqs + 1 /\ srv'.work = srv.work
        /\ srv'.garbled = srv.garbled /\ srv'.streams = srv.streams /\ srv'.reused = srv.reused
    <2>1. srv \in Peers
      BY <1>1 DEF Types
    <2> QED
      BY <1>2, <2>1 DEF Peers
  <1>4. Adds({"ReqWorkConn"}) /\ InClient("ReqWorkConn")'
    BY <1>1, <1>2, AnswerAdds DEF ServerEnc
  <1>5. Idle'
    BY <1>2 DEF Idle
  <1>6. LoginInv'
    BY <1>1, <1>2, <1>3 DEF LoginInv, client
  <1>7. DownInv'
    BY <1>2, <1>3, <1>4, DownServed DEF client, ServerEnc
  <1>8. UpInv'
    BY <1>1, <1>2, <1>3 DEF UpInv, client, InServer
  <1>9. SynInv'
    BY <1>1, <1>2, <1>3 DEF SynInv, client
  <1>10. RegInv'
    BY <1>1, <1>2, <1>3 DEF RegInv, RegistersFirst, InServer, LastService, client
  <1>11. CountInv'
    <2>1. Offered' = Offered
      BY <1>2 DEF Offered
    <2>2. Requests' = Requests \cup {Len(toClient) + 1} /\ Len(toClient) + 1 \notin Requests
      <3>1. ServerIV \in IVs /\ Msg("ReqWorkConn", 0, ServerIV) \in Messages
            /\ Msg("ReqWorkConn", 0, ServerIV).type = "ReqWorkConn"
        BY <1>1, EncMsg DEF ServerEnc
      <3>2. /\ Len(toClient') = Len(toClient) + 1 /\ Len(toClient) \in Nat
            /\ \A k \in 1..Len(toClient) : toClient'[k] = toClient[k] /\ k \in 1..Len(toClient')
            /\ toClient'[Len(toClient) + 1] = Msg("ReqWorkConn", 0, ServerIV)
            /\ \A k \in 1..Len(toClient') : k \in 1..Len(toClient) \/ k = Len(toClient) + 1
        BY <1>1, <1>2, <3>1, AnswerFacts
      <3>3. Len(toClient) + 1 \in 1..Len(toClient') /\ Len(toClient) + 1 \notin 1..Len(toClient)
        BY <3>2
      <3> QED
        BY <3>1, <3>2, <3>3 DEF Requests
    <2>3. IsFiniteSet(Requests) /\ Cardinality(Requests) \in Nat
      <3>1. Len(toClient) \in Nat
        BY <1>1 DEF Types
      <3>2. IsFiniteSet(1..Len(toClient))
        BY <3>1, FS_Interval
      <3>3. Requests \in SUBSET (1..Len(toClient))
        BY DEF Requests
      <3> QED
        BY <3>2, <3>3, FS_Subset, FS_CardinalityType
    <2>4. Cardinality(Requests') = Cardinality(Requests) + 1
      BY <2>2, <2>3, FS_AddElement
    <2>5. Cardinality(all_pc) \in Nat
      BY <1>1, FS_CardinalityType DEF CountInv
    <2>6. Cardinality(all_pc) + Cardinality(Requests') = srv'.reqs
      BY <1>1, <1>3, <2>3, <2>4, <2>5 DEF CountInv
    <2> QED
      BY <1>1, <1>2, <1>3, <2>1, <2>6 DEF CountInv, client
  <1>12. TimeInv'
    <2>1. InClient("Pong")' = InClient("Pong") /\ InServer("Ping")' = InServer("Ping")
      BY <1>2, <1>4 DEF InClient, InServer, Adds
    <2>2. Pending' = Pending
      BY <2>1 DEF Pending
    <2> QED
      BY <1>1, <1>2, <1>3, <1>4, <2>2 DEF TimeInv, client, timers
  <1> QED
    BY <1>1, <1>5, <1>6, <1>7, <1>8, <1>9, <1>10, <1>11, <1>12 DEF CInv

-----------------------------------------------------------------------------
(* What follows                                                              *)

\* Every callback, every answer of frps and every failure keeps the invariant.
LEMMA NextKeeps == CInv /\ [Next]_vars => CInv'
  <1> SUFFICES ASSUME CInv, [Next]_vars PROVE CInv'
    OBVIOUS
  <1>1. CASE ConnectionLost \/ HbExpired
    BY <1>1, ClearedKeeps
  <1>2. CASE Connected
    BY <1>2, ConnectedKeeps
  <1>3. CASE HbPing
    BY <1>3, HbPingKeeps
  <1>4. CASE PassTime
    BY <1>4, PassTimeKeeps
  <1>5. CASE ClientRecv
    BY <1>5, LoginStepsKeep, RecvIVKeeps, ReqWorkConnKeeps, AnswersKeep DEF ClientRecv
  <1>6. CASE ServerRecv
    BY <1>6, SrvSynKeeps, SrvLoginKeeps, SrvIVKeeps, SrvNewProxyKeeps, SrvPingKeeps,
       SrvNewWorkConnKeeps DEF ServerRecv
  <1>7. CASE SrvAsks
    BY <1>7, SrvAsksKeeps
  <1>8. CASE Stall \/ Heal \/ UNCHANGED vars
    BY <1>8, NetKeeps
  <1> QED
    BY <1>1, <1>2, <1>3, <1>4, <1>5, <1>6, <1>7, <1>8 DEF Next, Exited

\* Everything CInv says of the control connection is always so: types, that
\* nothing of an earlier connection survives, who is logged in, both ends'
\* IVs, stream ids, registration, requests and the heartbeat.
THEOREM ControlInvariance == Spec => []CInv
  BY InitHolds, NextKeeps, PTL DEF Spec

\* Both ends decrypt under the IV the other encrypts with, on every connection
\* and however the last one ended.
THEOREM CryptoAlwaysAgrees == Spec => []CryptoAgrees
  <1>1. CInv => CryptoAgrees
    BY DEF CInv, DownInv, UpInv, CryptoAgrees
  <1> QED
    BY <1>1, ControlInvariance, PTL

\* start_proxy_services comes first: frps knows every service, once and in
\* order, before a work connection reaches it.
THEOREM AlwaysRegistersFirst == Spec => []RegistersFirst
  <1>1. CInv => RegistersFirst
    BY DEF CInv, RegInv
  <1> QED
    BY <1>1, ControlInvariance, PTL

\* No stream id is used twice on a connection, although reset_session_id
\* rewinds the counter.
THEOREM StreamIdsAlwaysFresh == Spec => []StreamIdsFresh
  <1>1. CInv => StreamIdsFresh
    BY DEF CInv, SynInv, StreamIdsFresh
  <1> QED
    BY <1>1, ControlInvariance, PTL

\* Every request for a work connection is answered by exactly one new client.
THEOREM RequestsAlwaysAnswered == Spec => []RequestsAnswered
  <1>1. CInv => RequestsAnswered
    <2> SUFFICES ASSUME CInv, toServer = <<>>, toClient = <<>>
                 PROVE  Cardinality(srv.work) = srv.reqs /\ all_pc = srv.work
      BY DEF RequestsAnswered
    <2>1. Requests = {} /\ Offered = {}
      <3>1. Len(toServer) = 0 /\ Len(toClient) = 0
        OBVIOUS
      <3> QED
        BY <3>1 DEF Requests, Offered
    <2>2. Cardinality({}) = 0
      BY FS_EmptySet
    <2>3. all_pc = srv.work /\ IsFiniteSet(all_pc) /\ Cardinality(all_pc) + Cardinality({}) = srv.reqs
      BY <2>1 DEF CInv, CountInv
    <2>4. Cardinality(all_pc) \in Nat
      BY <2>3, FS_CardinalityType
    <2> QED
      BY <2>2, <2>3, <2>4
  <1> QED
    BY <1>1, ControlInvariance, PTL

\* hb_sender_cb notices a silence within heartbeat_timeout and one
\* heartbeat_interval.
THEOREM SilenceAlwaysNoticed == Spec => []SilenceNoticed
  <1>1. CInv => SilenceNoticed
    <2> SUFFICES ASSUME CInv PROVE age <= HbTimeout + HbInterval
      BY DEF SilenceNoticed
    <2>1. HbInterval \in Nat /\ HbTimeout \in Nat
      BY ControlAssumption
    <2>2. CASE conn = "up"
      BY <2>1, <2>2 DEF CInv, TimeInv
    <2>3. CASE conn # "up"
      BY <2>1, <2>3 DEF CInv, Idle, Fresh
    <2> QED
      BY <2>2, <2>3
  <1> QED
    BY <1>1, ControlInvariance, PTL

\* hb_sender_cb never gives up a connection on which frps was always in reach
\* and let the client in.
THEOREM NeverFalseTimeout == Spec => NoFalseTimeout
  <1>1. CInv /\ [Next]_vars => [HbExpired => net.ever \/ srv.refused]_vars
    <2> SUFFICES ASSUME CInv, HbExpired PROVE net.ever \/ srv.refused
      OBVIOUS
    <2>1. conn = "up" /\ age > HbTimeout
      BY DEF HbExpired, Expired
    <2>2. HbInterval \in Nat /\ HbTimeout \in Nat /\ HbTimeout >= HbInterval
      BY ControlAssumption
    <2> QED
      BY <2>1, <2>2 DEF CInv, TimeInv
  <1> QED
    BY <1>1, ControlInvariance, PTL DEF Spec, NoFalseTimeout

=============================================================================
