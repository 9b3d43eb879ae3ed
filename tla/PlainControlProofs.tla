-------------------------- MODULE PlainControlProofs --------------------------
(* For any number of services, failures, requests, users and bytes: what     *)
(* PlainControl says of the requests for work connections, of the lifetime   *)
(* of proxy clients and of the bytes of a tunnel.                            *)
EXTENDS PlainControl, FiniteSetTheorems, TLAPS

FromClient == {"mux_frame", "Login", "NewProxy"}
FromServer == {"LoginResp", "IV", "ReqWorkConn", "NewProxyResp", "refusal"}
Uses == {"none", "NewWorkConn", "pool", "user", "closed"}

ControlTypes ==
  /\ conn \in {"connecting", "up"} /\ stream_state \in {"INIT", "SYN_SEND"}
  /\ is_login \in BOOLEAN /\ client_connected \in BOOLEAN /\ decoder \in BOOLEAN
  /\ toServer \in Seq(FromClient) /\ toClient \in Seq(FromServer)
  /\ srv \in [logged : BOOLEAN, dead : BOOLEAN, registered : Nat, reqs : Nat]

ClientTypes ==
  /\ made \in Nat /\ listed \subseteq 1..made
  /\ ctl \in [Clients -> {"none", "connecting", "waiting", "tunnel", "freed"}]
  /\ local \in [Clients -> {"none", "connecting", "open", "ended"}]
  /\ data_tail \in [Clients -> Seq(Nat)] /\ out \in [Clients -> Seq(Nat)]
  /\ wire \in [Clients -> Seq(Int)]
  /\ work \in [Clients -> [use : Uses, sent : Nat]]
  /\ \A c \in Clients : ctl[c] # "none" => c <= made

HistoryTypes ==
  history \in [faults : Nat, asks : Nat, users : Nat, since : Nat, dropped : Nat,
               stale : BOOLEAN, early : [Clients -> Nat], left : SUBSET Clients]

Types == ControlTypes /\ ClientTypes /\ HistoryTypes

\* What is left of the bounds covers the clients that can still be made.
Asked == Count(toClient, "ReqWorkConn")
Logins == IF srv.logged THEN 0 ELSE 1

BoundInv == made + Asked + Logins + history.faults + history.asks <= MaxClients

\* The control connection as frps sees it: the order of what is under way.
LoginInv ==
  /\ conn = "connecting" =>
       /\ toServer = <<>> /\ toClient = <<>> /\ srv = NewPeer /\ ~ is_login
       /\ made < history.since /\ history.dropped = 0
  /\ srv.dead => ~ srv.logged
  /\ is_login => srv.logged
  /\ ~ srv.logged =>
       /\ \A k \in 1..Len(toServer) :
            toServer[k] # "NewProxy" /\ (toServer[k] = "Login" => k = Len(toServer))
       /\ Len(toClient) <= 1 /\ \A k \in 1..Len(toClient) : toClient[k] = "refusal"
       /\ srv.registered = 0 /\ srv.reqs = 0
  /\ srv.logged => \A k \in 1..Len(toServer) : toServer[k] = "NewProxy"
  /\ (srv.logged /\ ~ is_login) =>
       /\ Len(toClient) >= 3
       /\ toClient[1] = "LoginResp" /\ toClient[2] = "IV" /\ toClient[3] = "ReqWorkConn"
  /\ (is_login /\ ~ decoder /\ Running) => Len(toClient) > 0 /\ toClient[1] = "IV"

\* The services are announced with the first client of a connection.
AnnounceInv ==
  Running =>
    /\ NewProxies \in {0, NumServices}
    /\ ~ (is_login /\ client_connected) => NewProxies = 0
    /\ (client_connected /\ ~ history.stale) => is_login /\ NewProxies = NumServices
    /\ made >= history.since => is_login /\ client_connected

CountInv ==
  history.dropped = 0 => made + 1 - history.since + Asked = srv.reqs

\* As long as the network is kind and no user has left: every client with a
\* connection is listed, and no connection with a tunnel is freed.
Calm == history.faults = MaxFaults /\ history.left = {}

CalmIs(ct, l, use, in) ==
  /\ ct \in {"connecting", "waiting", "tunnel"} => in
  /\ ct = "freed" => l = "none"
  /\ l # "none" => ct = "tunnel"
  /\ use # "closed"

CalmInv ==
  /\ history.faults <= MaxFaults
  /\ Calm => /\ fate # "use_after_free"
             /\ made > 0 => srv.logged
             /\ \A c \in Clients : CalmIs(ctl[c], local[c], work[c].use, c \in listed)

\* What frps has sent on a connection: StartWorkConn, the bytes 1 to sent and,
\* once it is closed, the end; w, the last of them, is unread.
Unread(w, u) == IF u.use = "closed" THEN Len(w) - 1 ELSE Len(w)

WireIs(w, u) ==
  /\ u.use \in {"none", "NewWorkConn", "pool"} => w = <<>> /\ u.sent = 0
  /\ Unread(w, u) \in 0..(u.sent + 1)
  /\ \A k \in 1..Unread(w, u) :
       w[k] = IF Unread(w, u) = u.sent + k THEN StartWorkConn ELSE u.sent - Unread(w, u) + k
  /\ u.use = "closed" => w[Len(w)] = EOF

WireInv == \A c \in Clients : WireIs(wire[c], work[c])

\* A tunnel with local end l, n bytes behind the first early ones written to it:
\* until the local service is connected the tail t waits and none of it is in o.
OutIs(o, early, e, i, n) ==
  /\ Len(o) = n + e
  /\ \A k \in 1..n : o[IF k <= i THEN k ELSE k + e] = early + k
  /\ \A k \in 1..e : o[i + k] \in 0..early

TunnelIs(o, early, l, t, n) ==
  \E e \in {0, early} : \E i \in 0..n :
    /\ OutIs(o, early, e, i, n)
    /\ l \in {"none", "connecting"} => e = 0 /\ t = Iota(early)

Delivered(c) == work[c].sent - history.early[c] - Unread(wire[c], work[c])

TunnelOf(c) ==
  /\ (c \in listed /\ ctl[c] = "tunnel") =>
       /\ Delivered(c) \in Nat
       /\ TunnelIs(out[c], history.early[c], local[c], data_tail[c], Delivered(c))
  /\ ctl[c] \in {"none", "connecting", "waiting"} => out[c] = <<>> /\ local[c] = "none"
  /\ work[c].use # "none" => ctl[c] \notin {"none", "connecting"}
  /\ ctl[c] = "tunnel" => work[c].use \in {"user", "closed"}

TunnelInv == \A c \in Clients : TunnelOf(c)

PInv == Types /\ BoundInv /\ LoginInv /\ AnnounceInv /\ CountInv /\ CalmInv /\ WireInv /\ TunnelInv

-----------------------------------------------------------------------------
(* Sequences and how often a message is in one                               *)

LEMMA AppendFacts ==
  ASSUME NEW S, NEW s \in Seq(S), NEW a \in S
  PROVE  /\ Append(s, a) \in Seq(S) /\ Len(Append(s, a)) = Len(s) + 1 /\ Len(s) \in Nat
         /\ Append(s, a)[Len(s) + 1] = a
         /\ \A k \in 1..Len(s) : Append(s, a)[k] = s[k] /\ k \in 1..(Len(s) + 1)
  OBVIOUS

LEMMA DropFacts ==
  ASSUME NEW S, NEW s \in Seq(S), NEW n \in 0..Len(s)
  PROVE  /\ SubSeq(s, n + 1, Len(s)) \in Seq(S)
         /\ Len(SubSeq(s, n + 1, Len(s))) = Len(s) - n /\ Len(s) \in Nat
         /\ \A k \in 1..(Len(s) - n) : SubSeq(s, n + 1, Len(s))[k] = s[n + k] /\ n + k \in 1..Len(s)
  OBVIOUS

LEMMA JoinFacts ==
  ASSUME NEW S, NEW s \in Seq(S), NEW t \in Seq(S)
  PROVE  /\ s \o t \in Seq(S) /\ Len(s \o t) = Len(s) + Len(t)
         /\ Len(s) \in Nat /\ Len(t) \in Nat
         /\ \A k \in 1..Len(s) : (s \o t)[k] = s[k]
         /\ \A k \in 1..Len(t) : (s \o t)[Len(s) + k] = t[k]
  OBVIOUS

LEMMA CountFacts ==
  ASSUME NEW S, NEW s \in Seq(S), NEW m
  PROVE  /\ Count(s, m) \in Nat
         /\ (\A k \in 1..Len(s) : s[k] = m) => Count(s, m) = Len(s)
         /\ (\A k \in 1..Len(s) : s[k] # m) => Count(s, m) = 0
  <1> DEFINE C == {k \in 1..Len(s) : s[k] = m}
  <1>1. Len(s) \in Nat
    OBVIOUS
  <1>2. IsFiniteSet(1..Len(s)) /\ Cardinality(1..Len(s)) = Len(s)
    BY <1>1, FS_Interval
  <1>3. IsFiniteSet(C) /\ Cardinality(C) \in Nat
    <2>1. C \in SUBSET (1..Len(s))
      OBVIOUS
    <2>2. IsFiniteSet(C)
      BY <1>2, <2>1, FS_Subset
    <2> QED
      BY <2>2, FS_CardinalityType
  <1>4. ASSUME \A k \in 1..Len(s) : s[k] = m PROVE C = 1..Len(s)
    BY <1>4
  <1>5. ASSUME \A k \in 1..Len(s) : s[k] # m PROVE C = {}
    BY <1>5
  <1> QED
    BY <1>2, <1>3, <1>4, <1>5, FS_EmptySet DEF Count

LEMMA CountAppend ==
  ASSUME NEW S, NEW s \in Seq(S), NEW a \in S, NEW m
  PROVE  Count(Append(s, a), m) = Count(s, m) + (IF a = m THEN 1 ELSE 0)
  <1> DEFINE t == Append(s, a)
             C == {k \in 1..Len(s) : s[k] = m}
             D == {k \in 1..Len(t) : t[k] = m}
             l == Len(s) + 1
  <1>1. /\ t \in Seq(S) /\ Len(t) = l /\ Len(s) \in Nat /\ t[l] = a
        /\ \A k \in 1..Len(s) : t[k] = s[k] /\ k \in 1..l
    BY AppendFacts
  <1> HIDE DEF t
  <1>2. IsFiniteSet(C) /\ Cardinality(C) \in Nat
    <2>1. IsFiniteSet(1..Len(s))
      BY <1>1, FS_Interval
    <2>2. C \in SUBSET (1..Len(s))
      OBVIOUS
    <2>3. IsFiniteSet(C)
      BY <2>1, <2>2, FS_Subset
    <2> QED
      BY <2>3, FS_CardinalityType
  <1>3. l \notin C
    BY <1>1
  <1>4. \A k \in 1..l : k \in 1..Len(s) \/ k = l
    BY <1>1
  <1>5. CASE a = m
    <2>1. D = C \cup {l}
      BY <1>1, <1>4, <1>5
    <2>2. Cardinality(C \cup {l}) = Cardinality(C) + 1
      <3> HIDE DEF C, l
      <3> QED
        BY <1>2, <1>3, FS_AddElement
    <2> QED
      BY <1>5, <2>1, <2>2 DEF Count, t
  <1>6. CASE a # m
    <2>1. D = C
      BY <1>1, <1>4, <1>6
    <2>2. Count(s, m) = Cardinality(C) /\ Count(Append(s, a), m) = Cardinality(D)
      BY DEF Count, t
    <2> HIDE DEF C, D
    <2> QED
      BY <1>2, <1>6, <2>1, <2>2
  <1> QED
    BY <1>5, <1>6

\* The first n messages of s are taken.
Taken(s, n, m) == Cardinality({k \in 1..n : s[k] = m})

LEMMA CountDrop ==
  ASSUME NEW S, NEW s \in Seq(S), NEW n \in 0..Len(s), NEW m
  PROVE  /\ Count(s, m) = Taken(s, n, m) + Count(SubSeq(s, n + 1, Len(s)), m)
         /\ Taken(s, n, m) \in Nat
         /\ (\A k \in 1..n : s[k] # m) => Taken(s, n, m) = 0
         /\ \A j \in 1..n : s[j] = m =>
              /\ Taken(s, n, m) >= 1
              /\ (\A k \in 1..n : k # j => s[k] # m) => Taken(s, n, m) = 1
  <1> DEFINE t == SubSeq(s, n + 1, Len(s))
             L == Len(s)
             H == {k \in 1..n : s[k] = m}
             C == {k \in 1..L : s[k] = m}
             R == {k \in (n + 1)..L : s[k] = m}
             D == {k \in 1..Len(t) : t[k] = m}
  <1>1. t \in Seq(S) /\ Len(t) = L - n /\ L \in Nat /\ \A k \in 1..(L - n) : t[k] = s[n + k] /\ n + k \in 1..L
    BY DropFacts
  <1> HIDE DEF t
  <1>2. n \in Nat /\ n <= L
    OBVIOUS
  <1>3. C = H \cup R /\ H \cap R = {}
    BY <1>1, <1>2
  <1>4. IsFiniteSet(H) /\ IsFiniteSet(R) /\ IsFiniteSet(D)
    <2>1. IsFiniteSet(1..n) /\ IsFiniteSet((n + 1)..L) /\ IsFiniteSet(1..Len(t))
      BY <1>1, <1>2, FS_Interval
    <2>2. H \in SUBSET (1..n) /\ R \in SUBSET ((n + 1)..L) /\ D \in SUBSET (1..Len(t))
      OBVIOUS
    <2> QED
      BY <2>1, <2>2, FS_Subset
  <1>5. Cardinality(D) = Cardinality(R)
    <2> DEFINE f == [k \in D |-> n + k]
    <2>1. ASSUME NEW k \in D PROVE n + k \in R
      BY <1>1, <1>2
    <2>2. f \in [D -> R]
      BY <2>1
    <2>3. \A j, k \in D : f[j] = f[k] => j = k
      BY <1>1, <1>2
    <2>4. ASSUME NEW j \in R PROVE \E k \in D : f[k] = j
      <3>1. j - n \in 1..(L - n) /\ n + (j - n) = j /\ s[j] = m
        BY <1>1, <1>2
      <3>2. j - n \in D
        BY <1>1, <3>1
      <3> QED
        BY <3>1, <3>2
    <2>5. f \in Bijection(D, R)
      BY <2>2, <2>3, <2>4 DEF Bijection, Injection, Surjection, IsInjective
    <2>6. ExistsBijection(D, R)
      BY <2>5 DEF ExistsBijection
    <2> QED
      BY <1>4, <2>6, FS_Bijection
  <1>6. Cardinality(C) = Cardinality(H) + Cardinality(R) /\ Cardinality(H) \in Nat
    <2> HIDE DEF C, H, R
    <2>1. Cardinality(H \cup R) = Cardinality(H) + Cardinality(R) - Cardinality(H \cap R)
      BY <1>4, FS_Union
    <2>2. Cardinality(H) \in Nat /\ Cardinality(R) \in Nat
      BY <1>4, FS_CardinalityType
    <2>3. Cardinality(H \cap R) = 0
      BY <1>3, FS_EmptySet
    <2> QED
      BY <1>3, <2>1, <2>2, <2>3
  <1>7. ASSUME \A k \in 1..n : s[k] # m PROVE Cardinality(H) = 0
    <2>1. H = {}
      BY <1>7
    <2> QED
      BY <2>1, FS_EmptySet
  <1>8. ASSUME NEW j \in 1..n, s[j] = m PROVE Cardinality(H) >= 1
    <2>1. {j} \in SUBSET H
      BY <1>8
    <2>2. Cardinality({j}) = 1
      BY FS_Singleton
    <2>3. Cardinality({j}) <= Cardinality(H)
      BY <1>4, <2>1, FS_Subset
    <2> QED
      BY <1>6, <2>2, <2>3
  <1>9. ASSUME NEW j \in 1..n, s[j] = m, \A k \in 1..n : k # j => s[k] # m PROVE Cardinality(H) = 1
    <2>1. H = {j}
      BY <1>9
    <2> QED
      BY <2>1, FS_Singleton
  <1> QED
    <2> HIDE DEF H
    <2>1. /\ (\A k \in 1..n : s[k] # m) => Cardinality(H) = 0
          /\ \A j \in 1..n : s[j] = m =>
              /\ Cardinality(H) >= 1
              /\ (\A k \in 1..n : k # j => s[k] # m) => Cardinality(H) = 1
      BY <1>7, <1>8, <1>9
    <2>2. Cardinality(H) = Taken(s, n, m)
      BY DEF Taken, H
    <2> QED
      BY <1>5, <1>6, <2>1, <2>2 DEF Count, t

-----------------------------------------------------------------------------
(* Parts a step leaves alone                                                 *)

LEMMA MadeFacts ==
  ASSUME Types, BoundInv
  PROVE  /\ made \in 0..MaxClients /\ Asked \in Nat /\ MaxClients \in Nat
         /\ listed \subseteq Clients
         /\ Asked > 0 => made < MaxClients
  <1>1. Asked \in Nat
    BY CountFacts DEF Asked, Types, ControlTypes
  <1>2. made \in Nat /\ listed \subseteq 1..made
    BY DEF Types, ClientTypes
  <1>3. history.faults \in Nat /\ history.asks \in Nat
    BY DEF Types, HistoryTypes
  <1>4. MaxClients \in Nat /\ Logins \in {0, 1}
    BY PlainAssumption DEF MaxClients, Logins
  <1>5. made + Asked + Logins + history.faults + history.asks <= MaxClients
    BY DEF BoundInv
  <1>6. made + Asked <= MaxClients
    BY <1>1, <1>2, <1>3, <1>4, <1>5
  <1> QED
    BY <1>1, <1>2, <1>4, <1>6 DEF Clients

\* A step of a work connection, a local service or a user.
LEMMA ControlStays ==
  ASSUME PInv, UNCHANGED <<control, toServer, toClient, srv, made>>, HistoryTypes',
         Running' => Running, history'.faults <= history.faults,
         history'.asks = history.asks, history'.since = history.since,
         history'.dropped = history.dropped, history'.stale = history.stale
  PROVE  ControlTypes' /\ BoundInv' /\ LoginInv' /\ AnnounceInv' /\ CountInv'
  <1>1. /\ conn' = conn /\ stream_state' = stream_state /\ is_login' = is_login
        /\ client_connected' = client_connected /\ decoder' = decoder
        /\ toServer' = toServer /\ toClient' = toClient /\ srv' = srv /\ made' = made
    BY DEF control
  <1>2. ControlTypes'
    BY <1>1 DEF PInv, Types, ControlTypes
  <1>3. Asked' = Asked /\ Logins' = Logins /\ NewProxies' = NewProxies
    BY <1>1 DEF Asked, Logins, NewProxies, Count
  <1>4. BoundInv'
    <2>1. history.faults \in Nat /\ history'.faults \in Nat /\ history.asks \in Nat
      BY DEF PInv, Types, HistoryTypes
    <2>2. made \in Nat /\ Asked \in Nat /\ MaxClients \in Nat /\ Logins \in {0, 1}
      BY MadeFacts DEF PInv, Logins
    <2>3. made + Asked + Logins + history.faults + history.asks <= MaxClients
      BY DEF PInv, BoundInv
    <2> QED
      BY <1>1, <1>3, <2>1, <2>2, <2>3 DEF BoundInv, MaxClients
  <1>5. LoginInv'
    BY <1>1 DEF PInv, LoginInv
  <1>6. AnnounceInv'
    BY <1>1, <1>3 DEF PInv, AnnounceInv
  <1>7. CountInv'
    BY <1>1, <1>3 DEF PInv, CountInv
  <1> QED
    BY <1>2, <1>4, <1>5, <1>6, <1>7

\* Client c is as it was.
Same(c) ==
  /\ ctl'[c] = ctl[c] /\ local'[c] = local[c] /\ data_tail'[c] = data_tail[c]
  /\ out'[c] = out[c] /\ wire'[c] = wire[c] /\ work'[c] = work[c]
  /\ history'.early[c] = history.early[c]
  /\ c \in listed' <=> c \in listed

LEMMA SameKeeps ==
  ASSUME NEW c, Same(c)
  PROVE  /\ WireIs(wire[c], work[c]) => WireIs(wire'[c], work'[c])
         /\ TunnelOf(c) => TunnelOf(c)'
         /\ CalmIs(ctl[c], local[c], work[c].use, c \in listed) =>
              CalmIs(ctl'[c], local'[c], work'[c].use, c \in listed')
  <1>1. WireIs(wire[c], work[c]) => WireIs(wire'[c], work'[c])
    BY DEF Same
  <1>2. TunnelOf(c) => TunnelOf(c)'
    BY DEF Same, TunnelOf, Delivered
  <1>3. CalmIs(ctl[c], local[c], work[c].use, c \in listed) =>
          CalmIs(ctl'[c], local'[c], work'[c].use, c \in listed')
    BY DEF Same, CalmIs
  <1> QED
    BY <1>1, <1>2, <1>3

\* What may pass in the history: nothing that was wrong is made good.
Onward == /\ history'.faults \in Nat /\ history'.faults <= history.faults
          /\ history.left \subseteq history'.left

LEMMA CalmBefore ==
  ASSUME PInv, Onward
  PROVE  history'.faults <= MaxFaults /\ (Calm' => Calm)
  <1>1. MaxFaults \in Nat /\ history.faults \in Nat /\ history.faults <= MaxFaults
    BY PlainAssumption DEF PInv, CalmInv, Types, HistoryTypes
  <1> QED
    BY <1>1 DEF Onward, Calm

\* A step of the control connection only.
LEMMA ClientsStay ==
  ASSUME PInv, UNCHANGED <<clients, wire, work>>, Onward, history'.early = history.early,
         Calm' => fate' # "use_after_free" /\ (made > 0 => srv'.logged)
  PROVE  ClientTypes' /\ CalmInv' /\ WireInv' /\ TunnelInv'
  <1>1. /\ made' = made /\ listed' = listed /\ ctl' = ctl /\ local' = local
        /\ data_tail' = data_tail /\ out' = out /\ wire' = wire /\ work' = work
    BY DEF clients
  <1>2. ASSUME NEW c \in Clients PROVE Same(c)
    BY <1>1 DEF Same
  <1>3. ClientTypes'
    BY <1>1 DEF PInv, Types, ClientTypes
  <1>4. WireInv'
    BY <1>2, SameKeeps DEF PInv, WireInv
  <1>5. TunnelInv'
    BY <1>2, SameKeeps DEF PInv, TunnelInv
  <1>6. CalmInv'
    <2>1. history'.faults <= MaxFaults /\ (Calm' => Calm)
      BY CalmBefore
    <2>2. Calm => \A c \in Clients : CalmIs(ctl[c], local[c], work[c].use, c \in listed)
      BY DEF PInv, CalmInv
    <2>3. Calm => \A c \in Clients : CalmIs(ctl'[c], local'[c], work'[c].use, c \in listed')
      BY <1>2, <2>2, SameKeeps
    <2> QED
      BY <1>1, <2>1, <2>3 DEF CalmInv
  <1> QED
    BY <1>3, <1>4, <1>5, <1>6

\* A step of one client.
LEMMA OneClient ==
  ASSUME PInv, NEW c \in Clients, \A d \in Clients : d # c => Same(d),
         made' = made, srv' = srv, Onward,
         WireIs(wire'[c], work'[c]), TunnelOf(c)',
         Calm' /\ CalmIs(ctl[c], local[c], work[c].use, c \in listed) =>
           fate' # "use_after_free" /\ CalmIs(ctl'[c], local'[c], work'[c].use, c \in listed')
  PROVE  CalmInv' /\ WireInv' /\ TunnelInv'
  <1>1. WireInv'
    <2>1. ASSUME NEW d \in Clients PROVE WireIs(wire'[d], work'[d])
      BY SameKeeps DEF PInv, WireInv
    <2> QED
      BY <2>1 DEF WireInv
  <1>2. TunnelInv'
    <2>1. ASSUME NEW d \in Clients PROVE TunnelOf(d)'
      <3>1. CASE d = c
        BY <3>1
      <3>2. CASE d # c
        <4>1. Same(d) /\ TunnelOf(d)
          BY <3>2 DEF PInv, TunnelInv
        <4> QED
          BY <4>1, SameKeeps
      <3> QED
        BY <3>1, <3>2
    <2> QED
      BY <2>1 DEF TunnelInv
  <1>3. CalmInv'
    <2>1. history'.faults <= MaxFaults /\ (Calm' => Calm)
      BY CalmBefore
    <2>2. Calm => /\ made > 0 => srv.logged
                  /\ \A d \in Clients : CalmIs(ctl[d], local[d], work[d].use, d \in listed)
      BY DEF PInv, CalmInv
    <2>3. ASSUME Calm' PROVE \A d \in Clients : CalmIs(ctl'[d], local'[d], work'[d].use, d \in listed')
      <3>1. Calm
        BY <2>1, <2>3
      <3>2. ASSUME NEW d \in Clients PROVE CalmIs(ctl'[d], local'[d], work'[d].use, d \in listed')
        BY <2>2, <2>3, <3>1, SameKeeps
      <3> QED
        BY <3>2
    <2> QED
      BY <2>1, <2>2, <2>3 DEF CalmInv
  <1> QED
    BY <1>1, <1>2, <1>3

-----------------------------------------------------------------------------
(* The control connection                                                    *)

LEMMA NewHistoryFacts ==
  /\ NewHistory \in [faults : Nat, asks : Nat, users : Nat, since : Nat, dropped : Nat,
                     stale : BOOLEAN, early : [Clients -> Nat], left : SUBSET Clients]
  /\ NewHistory.faults = MaxFaults /\ NewHistory.asks = MaxAsks /\ NewHistory.since = 1
  /\ NewHistory.dropped = 0 /\ NewHistory.left = {} /\ NewHistory.stale = FALSE
  BY PlainAssumption DEF NewHistory

LEMMA NothingYet == \A S : <<>> \in Seq(S) /\ Len(<<>>) = 0
  OBVIOUS

LEMMA SingleFacts ==
  ASSUME NEW S, NEW a \in S, NEW s, s = <<a>>
  PROVE  s \in Seq(S) /\ Len(s) = 1 /\ s[1] = a
  OBVIOUS

LEMMA EmptyCount ==
  ASSUME NEW m
  PROVE  Count(<<>>, m) = 0
  <1>1. <<>> \in Seq({m}) /\ Len(<<>>) = 0
    OBVIOUS
  <1>2. \A k \in 1..Len(<<>>) : <<>>[k] = m
    BY <1>1
  <1> QED
    BY <1>1, <1>2, CountFacts

LEMMA InitHolds == Init => PInv
  <1> SUFFICES ASSUME Init PROVE PInv
    OBVIOUS
  <1>1. HistoryTypes /\ history = NewHistory
    BY NewHistoryFacts DEF Init, HistoryTypes
  <1>2. /\ srv \in [logged : BOOLEAN, dead : BOOLEAN, registered : Nat, reqs : Nat]
        /\ srv.logged = FALSE /\ srv.dead = FALSE /\ srv.registered = 0 /\ srv.reqs = 0
    BY DEF Init, NewPeer
  <1>3. ControlTypes
    <2>1. toServer \in Seq(FromClient) /\ toClient \in Seq(FromServer)
      BY NothingYet DEF Init
    <2> QED
      BY <1>2, <2>1 DEF Init, ControlTypes
  <1>4. ClientTypes
    <2>1. \A c \in Clients : work[c].use = "none" /\ work[c].sent = 0
      BY DEF Init
    <2>2. work \in [Clients -> [use : Uses, sent : Nat]]
      BY DEF Init, Uses
    <2> QED
      BY <2>2 DEF Init, ClientTypes
  <1>5. Asked = 0 /\ NewProxies = 0
    BY <1>2, EmptyCount DEF Init, Asked, NewProxies
  <1>6. BoundInv
    <2>1. history.faults = MaxFaults /\ history.asks = MaxAsks /\ made = 0 /\ Logins = 1
      BY <1>1, <1>2, NewHistoryFacts DEF Init, Logins
    <2> QED
      BY <1>5, <2>1, PlainAssumption DEF BoundInv, MaxClients
  <1>7. LoginInv
    BY <1>1, <1>2, NewHistoryFacts, NothingYet DEF Init, LoginInv
  <1>8. AnnounceInv
    BY <1>1, <1>5, NewHistoryFacts DEF Init, AnnounceInv
  <1>9. CountInv
    BY <1>1, <1>2, <1>5, NewHistoryFacts DEF Init, CountInv
  <1>10. CalmInv
    <2>1. \A c \in Clients : ctl[c] = "none" /\ local[c] = "none" /\ work[c].use = "none"
      BY DEF Init
    <2>2. history.faults <= MaxFaults
      BY <1>1, NewHistoryFacts, PlainAssumption
    <2>3. \A c \in Clients : CalmIs(ctl[c], local[c], work[c].use, c \in listed)
      BY <2>1 DEF CalmIs
    <2> QED
      BY <2>2, <2>3 DEF Init, CalmInv
  <1>11. WireInv
    <2>1. ASSUME NEW c \in Clients PROVE wire[c] = <<>> /\ work[c].use = "none" /\ work[c].sent = 0
      BY DEF Init
    <2>2. ASSUME NEW c \in Clients PROVE WireIs(wire[c], work[c])
      BY <2>1 DEF WireIs, Unread
    <2> QED
      BY <2>2 DEF WireInv
  <1>12. TunnelInv
    <2>1. ASSUME NEW c \in Clients
          PROVE  ctl[c] = "none" /\ local[c] = "none" /\ work[c].use = "none" /\ out[c] = <<>>
      BY DEF Init
    <2>2. ASSUME NEW c \in Clients PROVE TunnelOf(c)
      BY <2>1 DEF TunnelOf
    <2> QED
      BY <2>2 DEF TunnelInv
  <1> QED
    BY <1>1, <1>3, <1>4, <1>6, <1>7, <1>8, <1>9, <1>10, <1>11, <1>12 DEF PInv, Types

LEMMA ConnectedKeeps == PInv /\ Connected => PInv'
  <1> SUFFICES ASSUME PInv, Connected PROVE PInv'
    OBVIOUS
  <1>1. /\ Running /\ conn = "connecting" /\ conn' = "up" /\ stream_state' = "SYN_SEND"
        /\ toServer' = OpeningFrame \o <<"Login">>
        /\ fate' = fate /\ is_login' = is_login /\ client_connected' = client_connected
        /\ decoder' = decoder /\ toClient' = toClient /\ srv' = srv /\ history' = history
        /\ UNCHANGED <<clients, wire, work>> /\ made' = made
    BY DEF Connected, clients
  <1>2. /\ toServer = <<>> /\ toClient = <<>> /\ ~ is_login /\ made < history.since
        /\ srv.logged = FALSE /\ srv.dead = FALSE /\ srv.registered = 0 /\ srv.reqs = 0
    BY <1>1 DEF PInv, LoginInv, NewPeer
  <1>4. /\ toServer' \in Seq(FromClient)
        /\ \A k \in 1..Len(toServer') :
             toServer'[k] # "NewProxy" /\ (toServer'[k] = "Login" => k = Len(toServer'))
    <2> DEFINE s == OpeningFrame
               t == <<"Login">>
    <2>1. s \in Seq(FromClient) /\ \A k \in 1..Len(s) : s[k] = "mux_frame"
      <3>1. CASE stream_state = "INIT"
        <4>1. s = <<"mux_frame">>
          BY <3>1 DEF OpeningFrame
        <4>2. "mux_frame" \in FromClient
          BY DEF FromClient
        <4>3. s \in Seq(FromClient) /\ Len(s) = 1 /\ s[1] = "mux_frame"
          BY ONLY <4>1, <4>2, SingleFacts
        <4>4. \A k \in 1..1 : k = 1
          OBVIOUS
        <4> HIDE DEF s
        <4> QED
          BY <4>3, <4>4, Zenon
      <3>2. CASE stream_state # "INIT"
        <4>1. s = <<>>
          BY <3>2 DEF OpeningFrame
        <4> QED
          BY <4>1, NothingYet
      <3> QED
        BY <3>1, <3>2
    <2>2. t \in Seq(FromClient) /\ Len(t) = 1 /\ t[1] = "Login"
      BY DEF FromClient
    <2> HIDE DEF s, t
    <2>3. /\ s \o t \in Seq(FromClient) /\ Len(s \o t) = Len(s) + Len(t) /\ Len(s) \in Nat
          /\ \A k \in 1..Len(s) : (s \o t)[k] = s[k]
          /\ \A k \in 1..Len(t) : (s \o t)[Len(s) + k] = t[k]
      <3>1. s \in Seq(FromClient) /\ t \in Seq(FromClient)
        BY <2>1, <2>2
      <3> QED
        BY ONLY <3>1, JoinFacts
    <2>4. Len(s \o t) = Len(s) + 1 /\ (s \o t)[Len(s) + 1] = "Login"
      BY <2>2, <2>3
    <2>5. toServer' = s \o t
      BY <1>1 DEF s, t
    <2>6. ASSUME NEW k \in 1..Len(toServer')
          PROVE  toServer'[k] # "NewProxy" /\ (toServer'[k] = "Login" => k = Len(toServer'))
      <3>1. k \in 1..Len(s) \/ k = Len(s) + 1
        BY <2>3, <2>4, <2>5
      <3> QED
        BY <2>1, <2>3, <2>4, <2>5, <3>1
    <2> QED
      BY <2>3, <2>5, <2>6
  <1>5. Types'
    <2>1. ControlTypes' /\ HistoryTypes'
      BY <1>1, <1>4 DEF PInv, Types, ControlTypes, HistoryTypes
    <2>2. ClientTypes'
      BY <1>1 DEF PInv, Types, ClientTypes, clients
    <2> QED
      BY <2>1, <2>2 DEF Types
  <1>6. Asked' = Asked /\ Logins' = Logins
    BY <1>1 DEF Asked, Logins, Count
  <1>7. NewProxies' = 0 /\ NewProxies = 0
    <2>1. Count(toServer', "NewProxy") = 0
      BY <1>4, CountFacts
    <2> QED
      BY <1>1, <1>2, <2>1, EmptyCount DEF NewProxies
  <1>8. BoundInv' /\ CountInv'
    BY <1>1, <1>6 DEF PInv, BoundInv, CountInv, MaxClients
  <1>9. LoginInv'
    BY <1>1, <1>2, <1>4, NothingYet DEF LoginInv, NewPeer
  <1>10. AnnounceInv'
    BY <1>1, <1>2, <1>7 DEF PInv, AnnounceInv
  <1>11. CalmInv' /\ WireInv' /\ TunnelInv'
    <2>1. Onward
      BY <1>1 DEF Onward, PInv, Types, HistoryTypes
    <2>2. Calm' => fate' # "use_after_free" /\ (made > 0 => srv'.logged)
      BY <1>1 DEF PInv, CalmInv, Calm
    <2> QED
      BY <1>1, <2>1, <2>2, ClientsStay
  <1> QED
    BY <1>5, <1>8, <1>9, <1>10, <1>11 DEF PInv

LEMMA ControlLostKeeps == PInv /\ ControlLost => PInv'
  <1> SUFFICES ASSUME PInv, ControlLost PROVE PInv'
    OBVIOUS
  <1>1. /\ Running /\ (srv.dead \/ history.faults > 0)
        /\ listed' = {} /\ local' = [c \in Clients |-> "none"] /\ made' = made /\ ctl' = ctl
        /\ data_tail' = data_tail /\ out' = out /\ wire' = wire /\ work' = work
        /\ decoder' = FALSE /\ client_connected' = FALSE /\ is_login' = FALSE
        /\ stream_state' = stream_state
        /\ conn' = "connecting" /\ toServer' = <<>> /\ toClient' = <<>> /\ srv' = NewPeer
    BY DEF ControlLost, clear_main_control, clear_all_proxy_client, StreamKept
  <1>2. fate' \in {"running", "exited"}
    BY DEF ControlLost
  <1>3. history' = [history EXCEPT !.faults = IF srv.dead THEN @ ELSE @ - 1,
                                   !.since = made + 1, !.dropped = 0, !.stale = FALSE]
    BY DEF ControlLost
  <1>4. /\ srv.logged \in BOOLEAN /\ srv.dead \in BOOLEAN
        /\ srv.dead => ~ srv.logged
    BY DEF PInv, Types, ControlTypes, LoginInv
  <1>5. made \in Nat /\ history.faults \in Nat /\ history.asks \in Nat /\ Asked \in Nat /\ MaxClients \in Nat
    BY MadeFacts DEF PInv, Types, HistoryTypes
  <1>6. /\ HistoryTypes'
        /\ history'.faults = IF srv.dead THEN history.faults ELSE history.faults - 1
        /\ history'.since = made + 1 /\ history'.dropped = 0 /\ history'.stale = FALSE
        /\ history'.asks = history.asks /\ history'.early = history.early /\ history'.left = history.left
    <2> DEFINE f == IF srv.dead THEN history.faults ELSE history.faults - 1
    <2>1. f \in Nat /\ made + 1 \in Nat
      BY <1>1, <1>4, <1>5
    <2>2. history' = [history EXCEPT !.faults = f, !.since = made + 1, !.dropped = 0, !.stale = FALSE]
      BY <1>3
    <2> HIDE DEF f
    <2>3. /\ HistoryTypes'
          /\ history'.faults = f
          /\ history'.since = made + 1 /\ history'.dropped = 0 /\ history'.stale = FALSE
          /\ history'.asks = history.asks /\ history'.early = history.early /\ history'.left = history.left
      BY <2>1, <2>2 DEF PInv, Types, HistoryTypes
    <2> QED
      BY <2>3 DEF f
  <1>7. /\ srv'.logged = FALSE /\ srv'.dead = FALSE /\ srv'.registered = 0 /\ srv'.reqs = 0
        /\ srv' \in [logged : BOOLEAN, dead : BOOLEAN, registered : Nat, reqs : Nat]
    BY <1>1 DEF NewPeer
  <1>8. Types'
    <2>1. ControlTypes'
      BY <1>1, <1>7, NothingYet DEF PInv, Types, ControlTypes
    <2>2. ClientTypes'
      BY <1>1 DEF PInv, Types, ClientTypes
    <2> QED
      BY <1>6, <2>1, <2>2 DEF Types
  <1>9. Asked' = 0 /\ NewProxies' = 0
    BY <1>1, <1>7, EmptyCount DEF Asked, NewProxies
  <1>10. BoundInv'
    <2>1. Logins' = 1 /\ Logins = IF srv.logged THEN 0 ELSE 1
      BY <1>7 DEF Logins
    <2>2. made + Asked + Logins + history.faults + history.asks <= MaxClients
      BY DEF PInv, BoundInv
    <2>3. made + 0 + 1 + history'.faults + history.asks <= MaxClients
      <3>1. CASE srv.dead
        BY <1>4, <1>5, <1>6, <2>1, <2>2, <3>1
      <3>2. CASE ~ srv.dead
        BY <1>1, <1>4, <1>5, <1>6, <2>1, <2>2, <3>2
      <3> QED
        BY <3>1, <3>2
    <2> QED
      BY <1>1, <1>6, <1>9, <2>1, <2>3 DEF BoundInv, MaxClients
  <1>11. LoginInv'
    BY <1>1, <1>5, <1>6, <1>7, NothingYet DEF LoginInv
  <1>12. AnnounceInv'
    BY <1>1, <1>5, <1>6, <1>9 DEF AnnounceInv
  <1>13. CountInv'
    BY <1>1, <1>5, <1>6, <1>7, <1>9 DEF CountInv
  <1>14. Onward
    BY <1>1, <1>4, <1>5, <1>6 DEF Onward
  <1>15. CalmInv'
    <2>1. history'.faults <= MaxFaults /\ (Calm' => Calm)
      BY <1>14, CalmBefore
    <2>2. ASSUME Calm' PROVE made = 0
      <3>1. srv.dead
        BY <1>5, <1>6, <2>1, <2>2 DEF Calm
      <3> QED
        <4>1. made > 0 => srv.logged
          BY <2>1, <2>2 DEF PInv, CalmInv
        <4> QED
          BY <1>4, <1>5, <3>1, <4>1
    <2>3. ASSUME Calm', NEW c \in Clients PROVE CalmIs(ctl'[c], local'[c], work'[c].use, c \in listed')
      <3>1. local'[c] = "none" /\ ctl'[c] = ctl[c] /\ work'[c].use = work[c].use
        BY <1>1
      <3>2. ctl[c] = "none"
        BY <2>2, <2>3 DEF PInv, Types, ClientTypes, Clients
      <3>3. work[c].use # "closed"
        BY <2>1, <2>3 DEF PInv, CalmInv, CalmIs
      <3> QED
        BY <3>1, <3>2, <3>3 DEF CalmIs
    <2> QED
      <3>1. Calm' => made' = 0 /\ ~ (made' > 0)
        BY <1>1, <2>2
      <3>2. fate' # "use_after_free"
        BY <1>2
      <3> QED
        BY <2>1, <2>3, <3>1, <3>2 DEF CalmInv
  <1>16. WireInv'
    BY <1>1 DEF PInv, WireInv
  <1>17. TunnelInv'
    <2>1. ASSUME NEW c \in Clients PROVE TunnelOf(c)'
      <3>1. TunnelOf(c) /\ c \notin listed' /\ local'[c] = "none"
        BY <1>1 DEF PInv, TunnelInv
      <3> QED
        BY <1>1, <3>1 DEF TunnelOf
    <2> QED
      BY <2>1 DEF TunnelInv
  <1> QED
    BY <1>8, <1>10, <1>11, <1>12, <1>13, <1>15, <1>16, <1>17 DEF PInv

LEMMA TailFacts ==
  ASSUME NEW S, NEW s \in Seq(S), s # <<>>
  PROVE  /\ Tail(s) \in Seq(S) /\ Len(Tail(s)) = Len(s) - 1 /\ Len(s) \in Nat /\ Len(s) > 0
         /\ Head(s) = s[1] /\ 1 \in 1..Len(s) /\ s[1] \in S
         /\ \A k \in 1..(Len(s) - 1) : Tail(s)[k] = s[k + 1] /\ k + 1 \in 1..Len(s)
  OBVIOUS

LEMMA ThirdOnly ==
  ASSUME NEW s, Len(s) = 3, s[1] = "LoginResp", s[2] = "IV", s[3] = "ReqWorkConn"
  PROVE  {k \in 1..Len(s) : s[k] = "ReqWorkConn"} = {3}
  <1>1. \A k \in 1..3 : k = 1 \/ k = 2 \/ k = 3
    OBVIOUS
  <1>2. 3 \in 1..3
    OBVIOUS
  <1> QED
    BY <1>1, <1>2

LEMMA FirstAnswer ==
  ASSUME NEW s, s = <<"LoginResp", "IV", "ReqWorkConn">>
  PROVE  /\ s \in Seq(FromServer) /\ Len(s) = 3
         /\ s[1] = "LoginResp" /\ s[2] = "IV" /\ s[3] = "ReqWorkConn"
         /\ Count(s, "ReqWorkConn") = 1
  <1>1. /\ s \in Seq(FromServer) /\ Len(s) = 3
        /\ s[1] = "LoginResp" /\ s[2] = "IV" /\ s[3] = "ReqWorkConn"
    BY DEF FromServer
  <1>2. {k \in 1..Len(s) : s[k] = "ReqWorkConn"} = {3}
    BY <1>1, ThirdOnly
  <1> QED
    BY <1>1, <1>2, FS_Singleton DEF Count

LEMMA FaultSpent ==
  ASSUME HistoryTypes, history.faults > 0, history' = [history EXCEPT !.faults = @ - 1]
  PROVE  /\ HistoryTypes' /\ Onward /\ history'.early = history.early /\ history'.asks = history.asks
         /\ history'.since = history.since /\ history'.dropped = history.dropped
         /\ history'.stale = history.stale /\ history'.left = history.left
         /\ history'.faults = history.faults - 1
  <1> DEFINE f == history.faults - 1
  <1>1. history.faults \in Nat
    BY DEF HistoryTypes
  <1>2. f \in Nat /\ f <= history.faults
    BY <1>1
  <1>3. history' = [history EXCEPT !.faults = f]
    OBVIOUS
  <1> HIDE DEF f
  <1>4. /\ HistoryTypes' /\ history'.early = history.early /\ history'.asks = history.asks
        /\ history'.since = history.since /\ history'.dropped = history.dropped
        /\ history'.stale = history.stale /\ history'.left = history.left /\ history'.faults = f
    BY <1>2, <1>3 DEF HistoryTypes
  <1> QED
    BY <1>2, <1>4 DEF Onward, f

\* What a step of frps on the control connection leaves alone.
LEMMA ServesFacts ==
  ASSUME PInv, Serves, UNCHANGED <<wire, work>>
  PROVE  /\ fate = "running" /\ fate' = fate /\ conn' = conn /\ stream_state' = stream_state /\ is_login' = is_login
         /\ client_connected' = client_connected /\ decoder' = decoder /\ made' = made
         /\ UNCHANGED <<clients, wire, work>>
  BY DEF Serves, Running, control, clients

\* Where the services stand, from what is under way.
LEMMA ProxiesCounted ==
  ASSUME Types, LoginInv
  PROVE  /\ NewProxies \in Nat
         /\ srv.logged => NewProxies = srv.registered + Len(toServer)
         /\ ~ srv.logged => NewProxies = 0
  <1>1. toServer \in Seq(FromClient) /\ srv.registered \in Nat
    BY DEF Types, ControlTypes
  <1>2. Count(toServer, "NewProxy") \in Nat
    BY <1>1, CountFacts
  <1>3. ASSUME srv.logged PROVE Count(toServer, "NewProxy") = Len(toServer)
    BY <1>1, <1>3, CountFacts DEF LoginInv
  <1>4. ASSUME ~ srv.logged PROVE Count(toServer, "NewProxy") = 0 /\ srv.registered = 0
    <2>1. srv.registered = 0 /\ \A k \in 1..Len(toServer) : toServer[k] # "NewProxy"
      BY <1>4 DEF LoginInv
    <2> QED
      BY <1>1, <2>1, CountFacts
  <1> QED
    BY <1>1, <1>2, <1>3, <1>4 DEF NewProxies

LEMMA NoneAsked ==
  ASSUME Types, LoginInv, ~ srv.logged
  PROVE  Asked = 0
  <1>1. toClient \in Seq(FromServer)
    BY DEF Types, ControlTypes
  <1>2. \A k \in 1..Len(toClient) : toClient[k] # "ReqWorkConn"
    BY DEF LoginInv
  <1> QED
    BY <1>1, <1>2, CountFacts DEF Asked

LEMMA SrvLoginKeeps == PInv /\ SrvLogin => PInv'
  <1> SUFFICES ASSUME PInv, SrvLogin PROVE PInv'
    OBVIOUS
  <1>1. /\ fate = "running" /\ fate' = fate /\ conn' = conn /\ stream_state' = stream_state /\ is_login' = is_login
        /\ client_connected' = client_connected /\ decoder' = decoder /\ made' = made
        /\ UNCHANGED <<clients, wire, work>>
    BY ServesFacts DEF SrvLogin
  <1>2. ~ srv.dead /\ ~ srv.logged /\ toServer # <<>> /\ toServer' = Tail(toServer)
    BY DEF SrvLogin
  <1>t. /\ Types /\ LoginInv /\ toServer \in Seq(FromClient)
        /\ srv \in [logged : BOOLEAN, dead : BOOLEAN, registered : Nat, reqs : Nat]
        /\ made \in Nat /\ history.faults \in Nat /\ history.asks \in Nat /\ MaxClients \in Nat
    BY MadeFacts DEF PInv, Types, ControlTypes, HistoryTypes
  <1>3. /\ toServer' \in Seq(FromClient) /\ Len(toServer') = Len(toServer) - 1
        /\ Len(toServer) \in Nat /\ Head(toServer) = toServer[1] /\ 1 \in 1..Len(toServer)
        /\ \A k \in 1..(Len(toServer) - 1) : toServer'[k] = toServer[k + 1] /\ k + 1 \in 1..Len(toServer)
    BY <1>2, <1>t, TailFacts
  <1>4. ~ is_login /\ conn # "connecting" /\ srv.registered = 0 /\ srv.reqs = 0
    BY <1>2, <1>t DEF LoginInv
  <1>5. /\ Asked = 0 /\ NewProxies = 0
        /\ \A k \in 1..Len(toServer) : toServer[k] # "NewProxy" /\ (toServer[k] = "Login" => k = Len(toServer))
    BY <1>2, <1>t, NoneAsked, ProxiesCounted DEF LoginInv
  <1>6. /\ \A k \in 1..Len(toServer') : toServer'[k] # "NewProxy" /\ (toServer'[k] = "Login" => k = Len(toServer'))
        /\ Count(toServer', "NewProxy") = 0
    <2>1. ASSUME NEW k \in 1..Len(toServer')
          PROVE  toServer'[k] # "NewProxy" /\ (toServer'[k] = "Login" => k = Len(toServer'))
      <3>1. k \in 1..(Len(toServer) - 1)
        BY <1>3
      <3>2. toServer'[k] = toServer[k + 1] /\ k + 1 \in 1..Len(toServer)
        BY <1>3, <3>1
      <3> QED
        BY <1>3, <1>5, <3>1, <3>2
    <2> QED
      BY <1>3, <2>1, CountFacts
  <1>7. made + 1 + history.faults + history.asks <= MaxClients
    BY <1>2, <1>5, <1>t DEF PInv, BoundInv, Logins
  <1>8. history.dropped = 0 => made + 1 - history.since = 0
    BY <1>4, <1>5, <1>t DEF PInv, CountInv, Types, HistoryTypes
  <1>9. CASE Head(toServer) = "Login" /\ srv' = [srv EXCEPT !.logged = TRUE, !.reqs = 1]
             /\ toClient' = <<"LoginResp", "IV", "ReqWorkConn">> /\ UNCHANGED history
    <2>1. /\ srv' \in [logged : BOOLEAN, dead : BOOLEAN, registered : Nat, reqs : Nat]
          /\ srv'.logged /\ ~ srv'.dead /\ srv'.registered = 0 /\ srv'.reqs = 1
      BY <1>2, <1>4, <1>9, <1>t
    <2>2. /\ toClient' \in Seq(FromServer) /\ Len(toClient') = 3 /\ toClient'[1] = "LoginResp"
          /\ toClient'[2] = "IV" /\ toClient'[3] = "ReqWorkConn" /\ Asked' = 1
      BY <1>9, FirstAnswer DEF Asked
    <2>3. Len(toServer') = 0
      BY <1>3, <1>5, <1>9
    <2>4. ControlTypes' /\ HistoryTypes'
      BY <1>1, <1>3, <1>9, <1>t, <2>1, <2>2 DEF Types, ControlTypes, HistoryTypes
    <2>5. BoundInv'
      <3>1. Logins' = 0
        BY <2>1 DEF Logins
      <3>2. made' + 1 + 0 + history'.faults + history'.asks <= MaxClients
        BY <1>1, <1>7, <1>9, <1>t
      <3> QED
        BY <2>2, <3>1, <3>2 DEF BoundInv, MaxClients
    <2>6. LoginInv'
      BY <1>1, <1>4, <2>1, <2>2, <2>3 DEF LoginInv
    <2>7. AnnounceInv'
      <3>1. NewProxies' = 0
        BY <1>6, <2>1 DEF NewProxies
      <3> QED
        BY <1>1, <1>4, <1>9, <3>1 DEF PInv, AnnounceInv, Running
    <2>8. CountInv'
      BY <1>1, <1>8, <1>9, <1>t, <2>1, <2>2 DEF CountInv, Types, HistoryTypes
    <2>9. ClientTypes' /\ CalmInv' /\ WireInv' /\ TunnelInv'
      <3>1. Onward /\ history'.early = history.early
        BY <1>9, <1>t DEF Onward
      <3>2. fate' # "use_after_free"
        BY <1>1
      <3> QED
        BY <1>1, <2>1, <3>1, <3>2, ClientsStay
    <2> QED
      BY <2>4, <2>5, <2>6, <2>7, <2>8, <2>9 DEF PInv, Types
  <1>10. ASSUME srv' = [srv EXCEPT !.dead = TRUE],
                toClient' \in Seq(FromServer) /\ Len(toClient') <= 1,
                \A k \in 1..Len(toClient') : toClient'[k] = "refusal",
                HistoryTypes', Onward, history'.early = history.early, history'.asks = history.asks,
                history'.since = history.since, history'.dropped = history.dropped,
                history'.stale = history.stale
         PROVE  PInv'
    <2>1. /\ srv' \in [logged : BOOLEAN, dead : BOOLEAN, registered : Nat, reqs : Nat]
          /\ ~ srv'.logged /\ srv'.dead /\ srv'.registered = 0 /\ srv'.reqs = 0
      BY <1>2, <1>4, <1>10, <1>t
    <2>2. Asked' = 0
      <3>1. \A k \in 1..Len(toClient') : toClient'[k] # "ReqWorkConn"
        BY <1>10
      <3> QED
        BY <1>10, <3>1, CountFacts DEF Asked
    <2>4. ControlTypes'
      BY <1>1, <1>3, <1>10, <1>t, <2>1 DEF Types, ControlTypes
    <2>5. BoundInv'
      <3>1. Logins' = 1
        BY <2>1 DEF Logins
      <3>2. made' + 0 + 1 + history'.faults + history'.asks <= MaxClients
        BY <1>1, <1>7, <1>10, <1>t DEF Onward
      <3> QED
        BY <2>2, <3>1, <3>2 DEF BoundInv, MaxClients
    <2>6. LoginInv'
      BY <1>1, <1>4, <1>6, <1>10, <2>1 DEF LoginInv
    <2>7. AnnounceInv'
      <3>1. NewProxies' = 0
        BY <1>6, <2>1 DEF NewProxies
      <3> QED
        BY <1>1, <1>4, <1>10, <3>1 DEF PInv, AnnounceInv, Running
    <2>8. CountInv'
      BY <1>1, <1>8, <1>10, <1>t, <2>1, <2>2 DEF CountInv, Types, HistoryTypes
    <2>9. ClientTypes' /\ CalmInv' /\ WireInv' /\ TunnelInv'
      <3>1. history'.faults <= MaxFaults /\ (Calm' => Calm)
        BY <1>10, CalmBefore
      <3>2. Calm' => (made > 0 => srv'.logged)
        BY <1>2, <3>1 DEF PInv, CalmInv
      <3>3. fate' # "use_after_free"
        BY <1>1
      <3> QED
        BY <1>1, <1>10, <3>2, <3>3, ClientsStay
    <2> QED
      BY <1>10, <2>4, <2>5, <2>6, <2>7, <2>8, <2>9 DEF PInv, Types
  <1>11. CASE Head(toServer) = "Login" /\ history.faults > 0 /\ srv' = [srv EXCEPT !.dead = TRUE]
              /\ toClient' = <<"refusal">> /\ history' = [history EXCEPT !.faults = @ - 1]
    <2>1. toClient' \in Seq(FromServer) /\ Len(toClient') = 1 /\ toClient'[1] = "refusal"
      <3>1. "refusal" \in FromServer
        BY DEF FromServer
      <3> QED
        BY <1>11, <3>1, SingleFacts
    <2>2. \A k \in 1..Len(toClient') : toClient'[k] = "refusal"
      <3>1. \A k \in 1..1 : k = 1
        OBVIOUS
      <3> QED
        BY <2>1, <3>1
    <2>4. /\ HistoryTypes' /\ Onward /\ history'.early = history.early /\ history'.asks = history.asks
          /\ history'.since = history.since /\ history'.dropped = history.dropped
          /\ history'.stale = history.stale
      BY <1>11, <1>t, FaultSpent DEF Types
    <2> QED
      BY <1>10, <1>11, <2>1, <2>2, <2>4
  <1>12. CASE srv' = [srv EXCEPT !.dead = TRUE] /\ UNCHANGED <<toClient, history>>
    <2>1. /\ toClient' \in Seq(FromServer) /\ Len(toClient') <= 1
          /\ \A k \in 1..Len(toClient') : toClient'[k] = "refusal"
      BY <1>2, <1>12, <1>t DEF Types, ControlTypes, LoginInv
    <2>2. /\ HistoryTypes' /\ Onward /\ history'.early = history.early /\ history'.asks = history.asks
          /\ history'.since = history.since /\ history'.dropped = history.dropped
          /\ history'.stale = history.stale
      BY <1>12, <1>t DEF Onward, Types, HistoryTypes
    <2> QED
      BY <1>10, <1>12, <2>1, <2>2
  <1> QED
    BY <1>9, <1>11, <1>12 DEF SrvLogin

\* What frps adds comes behind what is due first.
LEMMA FirstStay ==
  ASSUME LoginInv, srv.logged, Len(toClient) \in Nat, Len(toClient') = Len(toClient) + 1,
         \A k \in 1..Len(toClient) : toClient'[k] = toClient[k]
  PROVE  /\ ~ is_login => /\ Len(toClient') >= 3 /\ toClient'[1] = "LoginResp"
                          /\ toClient'[2] = "IV" /\ toClient'[3] = "ReqWorkConn"
         /\ (is_login /\ ~ decoder /\ Running) => Len(toClient') > 0 /\ toClient'[1] = "IV"
  <1>1. ASSUME ~ is_login PROVE /\ Len(toClient') >= 3 /\ toClient'[1] = "LoginResp"
                                /\ toClient'[2] = "IV" /\ toClient'[3] = "ReqWorkConn"
    <2>1. /\ Len(toClient) >= 3 /\ toClient[1] = "LoginResp"
          /\ toClient[2] = "IV" /\ toClient[3] = "ReqWorkConn"
      BY <1>1 DEF LoginInv
    <2>2. 1 \in 1..Len(toClient) /\ 2 \in 1..Len(toClient) /\ 3 \in 1..Len(toClient)
      BY <2>1
    <2> QED
      BY <2>1, <2>2
  <1>2. ASSUME is_login, ~ decoder, Running PROVE Len(toClient') > 0 /\ toClient'[1] = "IV"
    <2>1. Len(toClient) > 0 /\ toClient[1] = "IV"
      BY <1>2 DEF LoginInv
    <2>2. 1 \in 1..Len(toClient)
      BY <2>1
    <2> QED
      BY <2>1, <2>2
  <1> QED
    BY <1>1, <1>2

LEMMA SrvNewProxyKeeps == PInv /\ SrvNewProxy => PInv'
  <1> SUFFICES ASSUME PInv, SrvNewProxy PROVE PInv'
    OBVIOUS
  <1>1. /\ fate = "running" /\ fate' = fate /\ conn' = conn /\ stream_state' = stream_state /\ is_login' = is_login
        /\ client_connected' = client_connected /\ decoder' = decoder /\ made' = made
        /\ UNCHANGED <<clients, wire, work>>
    BY ServesFacts DEF SrvNewProxy
  <1>2. /\ srv.logged /\ toServer # <<>> /\ toServer' = Tail(toServer)
        /\ srv' = [srv EXCEPT !.registered = @ + 1]
        /\ toClient' = Append(toClient, "NewProxyResp") /\ history' = history
    BY DEF SrvNewProxy
  <1>t. /\ Types /\ LoginInv /\ toServer \in Seq(FromClient) /\ toClient \in Seq(FromServer)
        /\ srv \in [logged : BOOLEAN, dead : BOOLEAN, registered : Nat, reqs : Nat]
    BY DEF PInv, Types, ControlTypes
  <1>3. /\ toServer' \in Seq(FromClient) /\ Len(toServer') = Len(toServer) - 1 /\ Len(toServer) \in Nat
        /\ \A k \in 1..(Len(toServer) - 1) : toServer'[k] = toServer[k + 1] /\ k + 1 \in 1..Len(toServer)
    BY <1>2, <1>t, TailFacts
  <1>4. /\ toClient' \in Seq(FromServer) /\ Len(toClient') = Len(toClient) + 1 /\ Len(toClient) \in Nat
        /\ \A k \in 1..Len(toClient) : toClient'[k] = toClient[k]
        /\ Asked' = Asked
    <2>1. "NewProxyResp" \in FromServer /\ "NewProxyResp" # "ReqWorkConn"
      BY DEF FromServer
    <2>2. /\ toClient' \in Seq(FromServer) /\ Len(toClient') = Len(toClient) + 1 /\ Len(toClient) \in Nat
          /\ \A k \in 1..Len(toClient) : toClient'[k] = toClient[k]
      BY <1>2, <1>t, <2>1, AppendFacts
    <2>3. Count(toClient', "ReqWorkConn") = Count(toClient, "ReqWorkConn") + 0
      BY <1>2, <1>t, <2>1, CountAppend
    <2>4. Count(toClient, "ReqWorkConn") \in Nat
      BY <1>t, CountFacts
    <2> QED
      BY <2>2, <2>3, <2>4 DEF Asked
  <1>5. /\ srv' \in [logged : BOOLEAN, dead : BOOLEAN, registered : Nat, reqs : Nat]
        /\ srv'.logged /\ srv'.dead = srv.dead /\ srv'.reqs = srv.reqs
        /\ srv'.registered = srv.registered + 1 /\ srv.registered \in Nat
    <2> DEFINE r == srv.registered + 1
    <2>1. srv.registered \in Nat /\ r \in Nat
      BY <1>t
    <2>2. srv' = [srv EXCEPT !.registered = r]
      BY <1>2
    <2> HIDE DEF r
    <2>3. /\ srv' \in [logged : BOOLEAN, dead : BOOLEAN, registered : Nat, reqs : Nat]
          /\ srv'.logged = srv.logged /\ srv'.dead = srv.dead /\ srv'.reqs = srv.reqs /\ srv'.registered = r
      BY <1>t, <2>1, <2>2
    <2> QED
      BY <1>2, <2>1, <2>3 DEF r
  <1>6. ControlTypes' /\ HistoryTypes'
    BY <1>1, <1>2, <1>3, <1>4, <1>5, <1>t DEF Types, ControlTypes, HistoryTypes
  <1>7. \A k \in 1..Len(toServer') : toServer'[k] = "NewProxy"
    <2>1. \A k \in 1..Len(toServer) : toServer[k] = "NewProxy"
      BY <1>2, <1>t DEF LoginInv
    <2> QED
      BY <1>3, <2>1
  <1>8. NewProxies' = NewProxies
    <2>1. Count(toServer', "NewProxy") = Len(toServer')
      BY <1>3, <1>7, CountFacts
    <2>2. NewProxies = srv.registered + Len(toServer)
      BY <1>2, <1>t, ProxiesCounted
    <2> QED
      BY <1>3, <1>5, <2>1, <2>2 DEF NewProxies
  <1>9. BoundInv' /\ CountInv'
    <2>1. Logins' = Logins
      BY <1>2, <1>5 DEF Logins
    <2> QED
      BY <1>1, <1>2, <1>4, <1>5, <2>1 DEF PInv, BoundInv, CountInv, MaxClients
  <1>10. LoginInv'
    <2>1. /\ ~ is_login => /\ Len(toClient') >= 3 /\ toClient'[1] = "LoginResp"
                           /\ toClient'[2] = "IV" /\ toClient'[3] = "ReqWorkConn"
          /\ (is_login /\ ~ decoder /\ Running) => Len(toClient') > 0 /\ toClient'[1] = "IV"
      BY <1>2, <1>4, <1>t, FirstStay
    <2>2. conn # "connecting" /\ ~ srv.dead
      BY <1>2, <1>t DEF LoginInv
    <2> QED
      BY <1>1, <1>5, <1>7, <2>1, <2>2 DEF LoginInv, Running
  <1>11. AnnounceInv'
    BY <1>1, <1>2, <1>8 DEF PInv, AnnounceInv, Running
  <1>12. ClientTypes' /\ CalmInv' /\ WireInv' /\ TunnelInv'
    <2>1. Onward /\ history'.early = history.early
      BY <1>2, <1>t DEF Onward, Types, HistoryTypes
    <2>2. fate' # "use_after_free"
      BY <1>1
    <2> QED
      BY <1>1, <1>5, <2>1, <2>2, ClientsStay
  <1> QED
    BY <1>6, <1>9, <1>10, <1>11, <1>12 DEF PInv, Types

LEMMA SrvAsksKeeps == PInv /\ SrvAsks => PInv'
  <1> SUFFICES ASSUME PInv, SrvAsks PROVE PInv'
    OBVIOUS
  <1>1. /\ fate = "running" /\ fate' = fate /\ conn' = conn /\ stream_state' = stream_state /\ is_login' = is_login
        /\ client_connected' = client_connected /\ decoder' = decoder /\ made' = made
        /\ UNCHANGED <<clients, wire, work>>
    BY ServesFacts DEF SrvAsks
  <1>2. /\ srv.logged /\ toServer' = toServer /\ history.asks > 0
        /\ srv' = [srv EXCEPT !.reqs = @ + 1]
        /\ toClient' = Append(toClient, "ReqWorkConn")
        /\ history' = [history EXCEPT !.asks = @ - 1]
    BY DEF SrvAsks
  <1>t. /\ Types /\ LoginInv /\ toServer \in Seq(FromClient) /\ toClient \in Seq(FromServer)
        /\ srv \in [logged : BOOLEAN, dead : BOOLEAN, registered : Nat, reqs : Nat]
        /\ made \in Nat /\ history.asks \in Nat /\ history.faults \in Nat /\ MaxClients \in Nat /\ Asked \in Nat
        /\ history.since \in Nat
    BY MadeFacts DEF PInv, Types, ControlTypes, HistoryTypes
  <1>4. /\ toClient' \in Seq(FromServer) /\ Len(toClient') = Len(toClient) + 1 /\ Len(toClient) \in Nat
        /\ \A k \in 1..Len(toClient) : toClient'[k] = toClient[k]
        /\ Asked' = Asked + 1
    <2>1. "ReqWorkConn" \in FromServer
      BY DEF FromServer
    <2>2. /\ toClient' \in Seq(FromServer) /\ Len(toClient') = Len(toClient) + 1 /\ Len(toClient) \in Nat
          /\ \A k \in 1..Len(toClient) : toClient'[k] = toClient[k]
      BY <1>2, <1>t, <2>1, AppendFacts
    <2>3. Count(toClient', "ReqWorkConn") = Count(toClient, "ReqWorkConn") + 1
      BY <1>2, <1>t, <2>1, CountAppend
    <2> QED
      BY <2>2, <2>3 DEF Asked
  <1>5. /\ srv' \in [logged : BOOLEAN, dead : BOOLEAN, registered : Nat, reqs : Nat]
        /\ srv'.logged /\ srv'.dead = srv.dead /\ srv'.reqs = srv.reqs + 1
        /\ srv'.registered = srv.registered /\ srv.reqs \in Nat
    <2>1. /\ srv \in [logged : BOOLEAN, dead : BOOLEAN, registered : Nat, reqs : Nat] /\ srv.logged
          /\ srv' = [srv EXCEPT !.reqs = @ + 1]
      BY <1>2, <1>t
    <2>2. srv.reqs + 1 \in Nat
      BY <2>1
    <2> QED
      BY <2>1, <2>2
  <1>h. /\ HistoryTypes' /\ history'.asks = history.asks - 1 /\ history'.faults = history.faults
        /\ history'.early = history.early /\ history'.left = history.left
        /\ history'.since = history.since /\ history'.dropped = history.dropped
        /\ history'.stale = history.stale
    <2> DEFINE a == history.asks - 1
    <2>1. a \in Nat /\ history' = [history EXCEPT !.asks = a]
      BY <1>2, <1>t
    <2> HIDE DEF a
    <2>2. /\ HistoryTypes' /\ history'.asks = a /\ history'.faults = history.faults
          /\ history'.early = history.early /\ history'.left = history.left
          /\ history'.since = history.since /\ history'.dropped = history.dropped
          /\ history'.stale = history.stale
      BY <1>t, <2>1 DEF Types, HistoryTypes
    <2> QED
      BY <2>2 DEF a
  <1>6. ControlTypes'
    BY <1>1, <1>2, <1>4, <1>5, <1>t DEF Types, ControlTypes
  <1>8. NewProxies' = NewProxies
    BY <1>2, <1>5 DEF NewProxies, Count
  <1>9. BoundInv' /\ CountInv'
    <2>1. Logins' = 0 /\ Logins = 0
      BY <1>2, <1>5 DEF Logins
    <2>2. made + Asked + 0 + history.faults + history.asks <= MaxClients
      BY <2>1 DEF PInv, BoundInv
    <2>3. made + (Asked + 1) + 0 + history.faults + (history.asks - 1) <= MaxClients
      BY <1>t, <2>2
    <2>4. BoundInv'
      BY <1>1, <1>4, <1>h, <2>1, <2>3 DEF BoundInv, MaxClients
    <2>5. CountInv'
      <3>1. history.dropped = 0 => made + 1 - history.since + Asked = srv.reqs
        BY DEF PInv, CountInv
      <3>2. history.dropped = 0 => made + 1 - history.since + (Asked + 1) = srv.reqs + 1
        <4>1. made \in Nat /\ history.since \in Nat /\ Asked \in Nat /\ srv.reqs \in Nat
          BY <1>t, <1>5
        <4> QED
          BY <3>1, <4>1
      <3> QED
        BY <1>1, <1>4, <1>5, <1>h, <3>2 DEF CountInv
    <2> QED
      BY <2>4, <2>5
  <1>10. LoginInv'
    <2>1. /\ ~ is_login => /\ Len(toClient') >= 3 /\ toClient'[1] = "LoginResp"
                           /\ toClient'[2] = "IV" /\ toClient'[3] = "ReqWorkConn"
          /\ (is_login /\ ~ decoder /\ Running) => Len(toClient') > 0 /\ toClient'[1] = "IV"
      BY <1>2, <1>4, <1>t, FirstStay
    <2>2. conn # "connecting" /\ ~ srv.dead /\ \A k \in 1..Len(toServer) : toServer[k] = "NewProxy"
      BY <1>2, <1>t DEF LoginInv
    <2> QED
      BY <1>1, <1>2, <1>5, <2>1, <2>2 DEF LoginInv, Running
  <1>11. AnnounceInv'
    BY <1>1, <1>8, <1>h DEF PInv, AnnounceInv, Running
  <1>12. ClientTypes' /\ CalmInv' /\ WireInv' /\ TunnelInv'
    <2>1. Onward
      BY <1>h, <1>t DEF Onward
    <2>2. fate' # "use_after_free"
      BY <1>1
    <2> QED
      BY <1>1, <1>5, <1>h, <2>1, <2>2, ClientsStay
  <1> QED
    BY <1>6, <1>9, <1>10, <1>11, <1>12, <1>h DEF PInv, Types

-----------------------------------------------------------------------------
(* Messages on the control connection                                        *)

\* recv_cb takes n messages and ignores those behind the first k.
LEMMA TakeFacts ==
  ASSUME PInv, NEW n, NEW k \in Nat, Take(n, k), k <= n
  PROVE  /\ Running /\ conn = "up" /\ n \in 1..Len(toClient) /\ Len(toClient) \in Nat
         /\ toClient' \in Seq(FromServer) /\ Len(toClient') = Len(toClient) - n
         /\ \A j \in 1..(Len(toClient) - n) : toClient'[j] = toClient[n + j] /\ n + j \in 1..Len(toClient)
         /\ HistoryTypes' /\ Onward /\ history'.dropped = history.dropped + (n - k) /\ n - k \in Nat
         /\ history'.faults = history.faults /\ history'.asks = history.asks
         /\ history'.since = history.since /\ history'.stale = history.stale
         /\ history'.early = history.early /\ history'.left = history.left
  <1>1. /\ Running /\ conn = "up" /\ n \in 1..Len(toClient)
        /\ toClient' = SubSeq(toClient, n + 1, Len(toClient))
        /\ history' = [history EXCEPT !.dropped = @ + n - k]
    BY DEF Take
  <1>2. toClient \in Seq(FromServer) /\ HistoryTypes
    BY DEF PInv, Types, ControlTypes
  <1>3. n \in 0..Len(toClient) /\ n \in Nat /\ Len(toClient) \in Nat
    BY <1>1, <1>2
  <1>4. /\ toClient' \in Seq(FromServer) /\ Len(toClient') = Len(toClient) - n
        /\ \A j \in 1..(Len(toClient) - n) : toClient'[j] = toClient[n + j] /\ n + j \in 1..Len(toClient)
    BY <1>1, <1>2, <1>3, DropFacts
  <1> DEFINE d == history.dropped + n - k
  <1>5. d \in Nat /\ d = history.dropped + (n - k) /\ n - k \in Nat
    BY <1>2, <1>3 DEF HistoryTypes
  <1>6. history' = [history EXCEPT !.dropped = d]
    BY <1>1
  <1> HIDE DEF d
  <1>7. /\ HistoryTypes' /\ history'.dropped = d
        /\ history'.faults = history.faults /\ history'.asks = history.asks
        /\ history'.since = history.since /\ history'.stale = history.stale
        /\ history'.early = history.early /\ history'.left = history.left
    BY <1>2, <1>5, <1>6 DEF HistoryTypes
  <1>8. Onward
    BY <1>2, <1>7 DEF HistoryTypes, Onward
  <1> QED
    BY <1>1, <1>3, <1>4, <1>5, <1>7, <1>8

\* Requests among the n messages taken, of which d made a client.
Heard(n) == Taken(toClient, n, "ReqWorkConn")

LEMMA HeardFacts ==
  ASSUME PInv, NEW n, NEW k \in Nat, Take(n, k), k <= n
  PROVE  /\ Asked = Heard(n) + Asked' /\ Heard(n) \in Nat /\ Asked \in Nat /\ Asked' \in Nat
         /\ (\A j \in 1..n : toClient[j] # "ReqWorkConn") => Heard(n) = 0
         /\ \A i \in 1..n : toClient[i] = "ReqWorkConn" =>
              /\ Heard(n) >= 1
              /\ (\A j \in 1..n : j # i => toClient[j] # "ReqWorkConn") => Heard(n) = 1
  <1>1. toClient \in Seq(FromServer) /\ n \in 0..Len(toClient) /\ toClient' = SubSeq(toClient, n + 1, Len(toClient))
    BY DEF PInv, Types, ControlTypes, Take
  <1>2. toClient' \in Seq(FromServer)
    BY <1>1, DropFacts
  <1>3. Asked \in Nat /\ Asked' \in Nat
    BY <1>1, <1>2, CountFacts DEF Asked
  <1> QED
    BY <1>1, <1>3, CountDrop DEF Asked, Heard

LEMMA TakeCounts ==
  ASSUME PInv, NEW n, NEW k \in Nat, Take(n, k), k <= n, srv' = srv,
         NEW d \in {0, 1}, made' = made + d, d <= Heard(n), n = k => Heard(n) = d
  PROVE  BoundInv' /\ CountInv'
  <1>1. /\ history'.faults = history.faults /\ history'.asks = history.asks
        /\ history'.since = history.since /\ history'.dropped = history.dropped + (n - k)
        /\ n - k \in Nat /\ n \in Nat
    BY TakeFacts
  <1>2. Asked = Heard(n) + Asked' /\ Heard(n) \in Nat /\ Asked \in Nat /\ Asked' \in Nat
    BY HeardFacts
  <1>3. /\ made \in Nat /\ history.faults \in Nat /\ history.asks \in Nat /\ history.since \in Nat
        /\ history.dropped \in Nat /\ srv.reqs \in Nat
    BY DEF PInv, Types, ControlTypes, ClientTypes, HistoryTypes
  <1>4. Logins' = Logins /\ Logins \in {0, 1} /\ MaxClients \in Nat
    BY MadeFacts DEF Logins, PInv
  <1>5. BoundInv'
    <2>1. made + Asked + Logins + history.faults + history.asks <= MaxClients
      BY DEF PInv, BoundInv
    <2>2. (made + d) + Asked' + Logins + history.faults + history.asks <= MaxClients
      BY <1>2, <1>3, <1>4, <2>1
    <2> QED
      BY <1>1, <1>4, <2>2 DEF BoundInv, MaxClients
  <1>6. CountInv'
    <2>1. ASSUME history'.dropped = 0 PROVE (made + d) + 1 - history.since + Asked' = srv.reqs
      <3>1. history.dropped = 0 /\ n = k
        BY <1>1, <1>3, <2>1
      <3>2. made + 1 - history.since + Asked = srv.reqs
        BY <3>1 DEF PInv, CountInv
      <3>3. Asked = d + Asked'
        BY <1>2, <3>1
      <3> QED
        <4>1. /\ made \in Nat /\ history.since \in Nat /\ Asked' \in Nat /\ srv.reqs \in Nat /\ d \in Nat
              /\ Asked \in Nat
          BY <1>2, <1>3
        <4> QED
          BY <3>2, <3>3, <4>1
    <2> QED
      BY <1>1, <2>1 DEF CountInv
  <1> QED
    BY <1>5, <1>6

\* new_client_connect makes a client nobody has met.
LEMMA NewClient ==
  ASSUME PInv, new_client_connect, UNCHANGED <<wire, work>>, made \in Nat, made + 1 \in Clients,
         srv' = srv, srv.logged,
         fate' # "use_after_free", Onward, history'.early = history.early
  PROVE  ClientTypes' /\ CalmInv' /\ WireInv' /\ TunnelInv' /\ made' = made + 1
  <1> SUFFICES ASSUME NEW c \in Nat, c = made + 1
               PROVE  ClientTypes' /\ CalmInv' /\ WireInv' /\ TunnelInv' /\ made' = c
    OBVIOUS
  <1>1. /\ made' = c /\ listed' = listed \cup {c}
        /\ ctl' = [ctl EXCEPT ![c] = "connecting"] \/ ctl' = ctl
        /\ local' = local /\ data_tail' = data_tail /\ out' = out /\ wire' = wire /\ work' = work
    BY DEF new_client_connect
  <1>2. c \in Clients /\ made \in Nat
    OBVIOUS
  <1>3. ClientTypes
    BY DEF PInv, Types
  <1>4. /\ ctl \in [Clients -> {"none", "connecting", "waiting", "tunnel", "freed"}]
        /\ ctl[c] = "none" /\ listed \subseteq 1..made
    <2>1. ctl[c] # "none" => c <= made
      BY <1>2, <1>3 DEF ClientTypes
    <2>2. ~ (c <= made)
      BY <1>2
    <2> QED
      BY <1>3, <2>1, <2>2 DEF ClientTypes
  <1>5. ctl'[c] \in {"none", "connecting"} /\ \A d \in Clients : d # c => ctl'[d] = ctl[d]
    BY <1>1, <1>2, <1>4
  <1>6. ctl' \in [Clients -> {"none", "connecting", "waiting", "tunnel", "freed"}]
    BY <1>1, <1>2, <1>4
  <1>7. ClientTypes'
    <2>1. \A d \in Clients : ctl'[d] # "none" => d <= made'
      <3>1. ASSUME NEW d \in Clients, ctl'[d] # "none" PROVE d <= made'
        <4>1. CASE d = c
          <5>1. c <= c
            BY <1>2
          <5> QED
            BY <1>1, <4>1, <5>1
        <4>2. CASE d # c
          <5>1. d <= made
            BY <1>3, <1>5, <3>1, <4>2 DEF ClientTypes
          <5>2. d \in Nat /\ made' = made + 1
            BY <1>1 DEF Clients
          <5> QED
            BY <1>2, <5>1, <5>2
        <4> QED
          BY <4>1, <4>2
      <3> QED
        BY <3>1
    <2>2. made' \in Nat /\ listed' \subseteq 1..made'
      <3>1. made' = made + 1 /\ made + 1 \in 1..(made + 1) /\ \A d \in 1..made : d \in 1..(made + 1)
        BY <1>1, <1>2
      <3> QED
        BY <1>1, <1>2, <1>4, <3>1
    <2> QED
      BY <1>1, <1>3, <1>6, <2>1, <2>2 DEF ClientTypes
  <1>8. TunnelOf(c) /\ out[c] = <<>> /\ local[c] = "none" /\ work[c].use = "none"
    BY <1>2, <1>4 DEF PInv, TunnelInv, TunnelOf
  <1>9. ASSUME NEW d \in Clients, d # c PROVE Same(d)
    BY <1>1, <1>5, <1>9 DEF Same
  <1>10. TunnelOf(c)'
    BY <1>1, <1>5, <1>8 DEF TunnelOf
  <1>11. WireInv'
    BY <1>1 DEF PInv, WireInv
  <1>12. TunnelInv'
    <2>1. ASSUME NEW d \in Clients PROVE TunnelOf(d)'
      <3>1. CASE d # c
        <4>1. Same(d) /\ TunnelOf(d)
          BY <1>9, <3>1 DEF PInv, TunnelInv
        <4> QED
          BY <4>1, SameKeeps
      <3> QED
        BY <1>10, <3>1
    <2> QED
      BY <2>1 DEF TunnelInv
  <1>13. CalmInv'
    <2>1. history'.faults <= MaxFaults /\ (Calm' => Calm)
      BY CalmBefore
    <2>2. CalmIs(ctl'[c], local'[c], work'[c].use, c \in listed')
      BY <1>1, <1>5, <1>8 DEF CalmIs
    <2>3. ASSUME Calm', NEW d \in Clients PROVE CalmIs(ctl'[d], local'[d], work'[d].use, d \in listed')
      <3>1. CASE d # c
        <4>1. Same(d) /\ CalmIs(ctl[d], local[d], work[d].use, d \in listed)
          BY <1>9, <2>1, <2>3, <3>1 DEF PInv, CalmInv
        <4> QED
          BY <4>1, SameKeeps
      <3> QED
        BY <2>2, <3>1
    <2> QED
      BY <2>1, <2>3 DEF CalmInv
  <1> QED
    BY <1>1, <1>7, <1>11, <1>12, <1>13

\* start_proxy_services announces each service.
LEMMA Announces ==
  ASSUME PInv, start_proxy_services, srv.logged, srv' = srv
  PROVE  /\ toServer' \in Seq(FromClient) /\ \A k \in 1..Len(toServer') : toServer'[k] = "NewProxy"
         /\ NewProxies' = NewProxies + NumServices /\ NumServices \in Nat /\ NewProxies \in Nat
  <1> DEFINE t == [k \in 1..NumServices |-> "NewProxy"]
             s == toServer
  <1>1. NumServices \in Nat
    BY PlainAssumption
  <1>2. t \in Seq(FromClient) /\ Len(t) = NumServices /\ \A k \in 1..NumServices : t[k] = "NewProxy"
    <2>1. t \in [1..NumServices -> FromClient]
      BY DEF FromClient
    <2> QED
      BY <1>1, <2>1
  <1>3. /\ s \in Seq(FromClient) /\ Len(s) \in Nat /\ NewProxies = srv.registered + Len(s) /\ srv.registered \in Nat
        /\ \A k \in 1..Len(s) : s[k] = "NewProxy"
    BY ProxiesCounted DEF PInv, Types, ControlTypes, LoginInv
  <1> HIDE DEF t, s
  <1>4. /\ s \o t \in Seq(FromClient) /\ Len(s \o t) = Len(s) + Len(t)
        /\ \A k \in 1..Len(s) : (s \o t)[k] = s[k]
        /\ \A k \in 1..Len(t) : (s \o t)[Len(s) + k] = t[k]
    <2>1. s \in Seq(FromClient) /\ t \in Seq(FromClient)
      BY <1>2, <1>3
    <2> QED
      BY ONLY <2>1, JoinFacts
  <1>5. toServer' = s \o t
    BY DEF start_proxy_services, s, t
  <1>6. ASSUME NEW k \in 1..Len(toServer') PROVE toServer'[k] = "NewProxy"
    <2>1. CASE k \in 1..Len(s)
      BY <1>3, <1>4, <1>5, <2>1
    <2>2. CASE k \notin 1..Len(s)
      <3>1. k - Len(s) \in 1..Len(t) /\ Len(s) + (k - Len(s)) = k
        BY <1>1, <1>2, <1>3, <1>4, <1>5, <2>2
      <3> QED
        BY <1>2, <1>4, <1>5, <3>1
    <2> QED
      BY <2>1, <2>2
  <1>7. Count(toServer', "NewProxy") = Len(s) + NumServices
    <2>1. toServer' \in Seq(FromClient) /\ Len(toServer') = Len(s) + NumServices
      BY <1>2, <1>4, <1>5
    <2> QED
      BY <1>6, <2>1, CountFacts
  <1>8. NewProxies' = NewProxies + NumServices
    BY <1>1, <1>3, <1>7 DEF NewProxies
  <1> QED
    BY <1>1, <1>3, <1>4, <1>5, <1>6, <1>8

\* A read that makes no client: what is left to show is about the connection.
LEMMA RecvNoClient ==
  ASSUME PInv, NEW n, NEW k \in Nat, Take(n, k), k <= n, n = k => Heard(n) = 0,
         UNCHANGED <<clients, wire, srv, work>>, fate' # "use_after_free",
         ControlTypes', LoginInv', AnnounceInv'
  PROVE  PInv'
  <1>1. made' = made /\ made \in Nat
    BY DEF clients, PInv, Types, ClientTypes
  <1>2. HistoryTypes' /\ Onward /\ history'.early = history.early /\ history'.left = history.left
        /\ history'.faults = history.faults
    BY TakeFacts
  <1>3. BoundInv' /\ CountInv'
    <2>1. made' = made + 0 /\ 0 <= Heard(n)
      BY <1>1, HeardFacts
    <2> QED
      BY <2>1, TakeCounts
  <1>4. Calm' => (made > 0 => srv'.logged)
    BY <1>2 DEF PInv, CalmInv, Calm
  <1>5. ClientTypes' /\ CalmInv' /\ WireInv' /\ TunnelInv'
    BY <1>2, <1>4, ClientsStay
  <1> QED
    BY <1>2, <1>3, <1>5 DEF PInv, Types

\* What LoginResp comes with.
LEMMA BeforeLogin ==
  ASSUME PInv, ~ is_login, Len(toClient) > 1
  PROVE  /\ srv.logged /\ Len(toClient) >= 3
         /\ toClient[1] = "LoginResp" /\ toClient[2] = "IV" /\ toClient[3] = "ReqWorkConn"
  <1>1. LoginInv /\ toClient \in Seq(FromServer)
    BY DEF PInv, Types, ControlTypes
  <1>2. srv.logged
    <2>1. ~ srv.logged => Len(toClient) <= 1
      BY <1>1 DEF LoginInv
    <2>2. Len(toClient) \in Nat
      BY <1>1
    <2> QED
      BY <2>1, <2>2
  <1>3. /\ Len(toClient) >= 3
        /\ toClient[1] = "LoginResp" /\ toClient[2] = "IV" /\ toClient[3] = "ReqWorkConn"
    BY <1>1, <1>2 DEF LoginInv
  <1> QED
    BY <1>2, <1>3

LEMMA LoginAloneKeeps == PInv /\ LoginAlone => PInv'
  <1> SUFFICES ASSUME PInv, LoginAlone PROVE PInv'
    OBVIOUS
  <1>1. /\ Take(1, 1) /\ ~ is_login /\ is_login' = (Head(toClient) = "LoginResp")
        /\ fate' = fate /\ conn' = conn /\ stream_state' = stream_state /\ decoder' = decoder
        /\ client_connected' = client_connected /\ toServer' = toServer /\ srv' = srv
        /\ UNCHANGED <<clients, wire, srv, work>> /\ made' = made
    BY DEF LoginAlone, clients
  <1>2. /\ Running /\ conn = "up" /\ 1 \in 1..Len(toClient) /\ Len(toClient) \in Nat
        /\ toClient' \in Seq(FromServer) /\ Len(toClient') = Len(toClient) - 1
        /\ \A j \in 1..(Len(toClient) - 1) : toClient'[j] = toClient[1 + j] /\ 1 + j \in 1..Len(toClient)
        /\ history'.since = history.since /\ history'.stale = history.stale
    <2>1. 1 \in Nat /\ 1 <= 1
      OBVIOUS
    <2> QED
      BY <1>1, <2>1, TakeFacts
  <1>3. ControlTypes /\ LoginInv /\ toClient \in Seq(FromServer) /\ Head(toClient) = toClient[1]
    BY <1>2 DEF PInv, Types, ControlTypes
  <1>4. ControlTypes'
    BY <1>1, <1>2, <1>3 DEF ControlTypes
  <1>5. /\ toClient[1] # "ReqWorkConn"
        /\ ~ srv.logged => ~ is_login' /\ Len(toClient') = 0
        /\ srv.logged => is_login' /\ Len(toClient') > 0 /\ toClient'[1] = "IV"
    <2>1. CASE srv.logged
      <3>1. toClient[1] = "LoginResp" /\ toClient[2] = "IV" /\ Len(toClient) >= 3
        BY <1>1, <1>3, <2>1 DEF LoginInv
      <3>2. 1 \in 1..(Len(toClient) - 1) /\ 1 + 1 = 2
        BY <1>2, <3>1
      <3>3. toClient'[1] = toClient[2]
        BY <1>2, <3>2
      <3>4. is_login'
        BY <1>1, <1>3, <3>1, Zenon
      <3>5. Len(toClient') > 0
        BY <1>2, <3>1
      <3> QED
        BY <2>1, <3>1, <3>3, <3>4, <3>5
    <2>2. CASE ~ srv.logged
      <3>1. toClient[1] = "refusal" /\ Len(toClient) <= 1
        BY <1>2, <1>3, <2>2 DEF LoginInv
      <3>2. ~ is_login'
        <4>1. Head(toClient) # "LoginResp"
          BY <1>3, <3>1
        <4> QED
          BY <1>1, <4>1, Zenon
      <3>3. Len(toClient') = 0
        BY <1>2, <3>1
      <3> QED
        BY <2>2, <3>1, <3>2, <3>3
    <2> QED
      BY <2>1, <2>2
  <1>6. LoginInv'
    <2>1. srv.logged => \A k \in 1..Len(toServer) : toServer[k] = "NewProxy"
      BY <1>3 DEF LoginInv
    <2>2. ~ srv.logged =>
            /\ \A k \in 1..Len(toServer) :
                 toServer[k] # "NewProxy" /\ (toServer[k] = "Login" => k = Len(toServer))
            /\ srv.registered = 0 /\ srv.reqs = 0
      BY <1>3 DEF LoginInv
    <2>3. srv.dead => ~ srv.logged
      BY <1>3 DEF LoginInv
    <2> QED
      BY <1>1, <1>2, <1>5, <2>1, <2>2, <2>3 DEF LoginInv
  <1>7. AnnounceInv'
    <2>1. NewProxies' = NewProxies
      BY <1>1 DEF NewProxies, Count
    <2> QED
      BY <1>1, <1>2, <2>1 DEF PInv, AnnounceInv, Running
  <1>8. Heard(1) = 0
    <2>1. \A j \in 1..1 : toClient[j] # "ReqWorkConn"
      BY <1>5
    <2> QED
      BY <1>1, <2>1, HeardFacts
  <1>9. fate' # "use_after_free"
    BY <1>1, <1>2 DEF Running
  <1> QED
    BY <1>1, <1>4, <1>6, <1>7, <1>8, <1>9, RecvNoClient

LEMMA LoginWithIVKeeps == PInv /\ LoginWithIV => PInv'
  <1> SUFFICES ASSUME PInv, LoginWithIV PROVE PInv'
    OBVIOUS
  <1>1. /\ Take(2, 2) /\ ~ is_login /\ is_login' = TRUE /\ decoder' = TRUE /\ fate' = "nret_assert"
        /\ conn' = conn /\ stream_state' = stream_state /\ client_connected' = client_connected
        /\ toServer' = toServer /\ srv' = srv /\ UNCHANGED <<clients, wire, srv, work>> /\ made' = made
    BY DEF LoginWithIV, clients
  <1>2. /\ conn = "up" /\ 2 \in 1..Len(toClient) /\ Len(toClient) \in Nat
        /\ toClient' \in Seq(FromServer)
    BY <1>1, TakeFacts
  <1>3. /\ srv.logged /\ toClient[1] = "LoginResp" /\ toClient[2] = "IV"
    <2>1. Len(toClient) > 1
      BY <1>2
    <2> QED
      BY <1>1, <2>1, BeforeLogin
  <1>4. ControlTypes'
    BY <1>1, <1>2 DEF PInv, Types, ControlTypes
  <1>6. LoginInv'
    BY <1>1, <1>2, <1>3 DEF PInv, LoginInv
  <1>7. AnnounceInv'
    BY <1>1 DEF AnnounceInv, Running
  <1>8. Heard(2) = 0
    <2>1. \A j \in 1..2 : j = 1 \/ j = 2
      OBVIOUS
    <2>2. \A j \in 1..2 : toClient[j] # "ReqWorkConn"
      BY <1>3, <2>1
    <2> QED
      BY <1>1, <2>2, HeardFacts
  <1> QED
    BY <1>1, <1>4, <1>6, <1>7, <1>8, RecvNoClient

LEMMA RecvIVKeeps == PInv /\ RecvIV => PInv'
  <1> SUFFICES ASSUME PInv, RecvIV PROVE PInv'
    OBVIOUS
  <1>1. /\ Take(1, 1) /\ is_login /\ ~ decoder /\ decoder' = TRUE
        /\ fate' = fate /\ conn' = conn /\ stream_state' = stream_state /\ is_login' = is_login
        /\ client_connected' = client_connected /\ toServer' = toServer /\ srv' = srv
        /\ UNCHANGED <<clients, wire, srv, work>> /\ made' = made
    BY DEF RecvIV, clients
  <1>2. /\ Running /\ conn = "up" /\ toClient' \in Seq(FromServer)
        /\ history'.since = history.since /\ history'.stale = history.stale
    BY <1>1, TakeFacts
  <1>3. toClient[1] = "IV" /\ srv.logged
    BY <1>1, <1>2 DEF PInv, LoginInv
  <1>4. ControlTypes'
    BY <1>1, <1>2 DEF PInv, Types, ControlTypes
  <1>6. LoginInv'
    BY <1>1, <1>2, <1>3 DEF PInv, LoginInv
  <1>7. AnnounceInv'
    <2>1. NewProxies' = NewProxies
      BY <1>1 DEF NewProxies, Count
    <2> QED
      BY <1>1, <1>2, <2>1 DEF PInv, AnnounceInv, Running
  <1>8. Heard(1) = 0
    <2>1. \A j \in 1..1 : toClient[j] # "ReqWorkConn"
      BY <1>3
    <2> QED
      BY <1>1, <2>1, HeardFacts
  <1>9. fate' # "use_after_free"
    BY <1>1, <1>2 DEF Running
  <1> QED
    BY <1>1, <1>4, <1>6, <1>7, <1>8, <1>9, RecvNoClient

\* A read whose first command, in place k, is a request.
LEMMA RecvClient ==
  ASSUME PInv, NEW n, NEW k \in Nat, Take(n, k), k >= 1, k <= n, toClient[k] = "ReqWorkConn",
         \A j \in 1..(k - 1) : toClient[j] # "ReqWorkConn",
         new_client_connect, UNCHANGED <<fate, conn, stream_state, wire, srv, work>>, srv.logged,
         is_login' /\ decoder' /\ client_connected',
         toServer' \in Seq(FromClient), \A j \in 1..Len(toServer') : toServer'[j] = "NewProxy",
         ControlTypes', NewProxies' \in {0, NumServices}, ~ history.stale => NewProxies' = NumServices
  PROVE  PInv'
  <1>1. /\ Running /\ conn = "up" /\ HistoryTypes' /\ Onward /\ history'.early = history.early
        /\ history'.stale = history.stale /\ n \in Nat /\ history'.since = history.since
    BY TakeFacts
  <1>2. k \in 1..n /\ \A j \in 1..k : j = k \/ j \in 1..(k - 1)
    BY <1>1
  <1>3. Heard(n) \in Nat /\ Heard(n) >= 1 /\ Asked \in Nat /\ Asked > 0 /\ (n = k => Heard(n) = 1)
    <2>1. Heard(n) \in Nat /\ Heard(n) >= 1 /\ Asked = Heard(n) + Asked' /\ Asked' \in Nat /\ Asked \in Nat
      BY <1>2, HeardFacts
    <2>2. ASSUME n = k PROVE Heard(n) = 1
      <3>1. \A j \in 1..n : j # k => toClient[j] # "ReqWorkConn"
        BY <1>2, <2>2
      <3> QED
        BY <1>2, <3>1, HeardFacts
    <2>3. Asked > 0
      BY <2>1
    <2> QED
      BY <2>1, <2>2, <2>3
  <1>4. made \in Nat /\ made + 1 \in Clients
    <2>1. made \in 0..MaxClients /\ MaxClients \in Nat /\ made < MaxClients
      BY <1>3, MadeFacts DEF PInv
    <2> QED
      BY <2>1 DEF Clients
  <1>5. fate' # "use_after_free" /\ fate' = fate /\ conn' = conn /\ srv' = srv
    BY <1>1 DEF Running
  <1>6. ClientTypes' /\ CalmInv' /\ WireInv' /\ TunnelInv' /\ made' = made + 1
    BY <1>1, <1>4, <1>5, NewClient
  <1>7. BoundInv' /\ CountInv'
    <2>1. 1 <= Heard(n)
      BY <1>3
    <2> QED
      BY <1>3, <1>5, <1>6, <2>1, TakeCounts
  <1>8. LoginInv'
    <2>1. srv.dead => ~ srv.logged
      BY DEF PInv, LoginInv
    <2> QED
      BY <1>1, <1>5, <2>1 DEF LoginInv
  <1>9. AnnounceInv'
    BY <1>1 DEF AnnounceInv
  <1> QED
    BY <1>1, <1>6, <1>7, <1>8, <1>9 DEF PInv, Types

LEMMA LoginWithCommandKeeps ==
  ASSUME PInv, NEW n, LoginWithCommand(n)
  PROVE  PInv'
  <1>1. /\ n > 2 /\ Take(n, 3) /\ ~ is_login /\ is_login' = TRUE /\ decoder' = TRUE
        /\ start_proxy_services /\ client_connected' = TRUE
        /\ conn' = conn /\ stream_state' = stream_state /\ srv' = srv /\ UNCHANGED <<wire, work>>
    BY DEF LoginWithCommand, StatusSet
  <1>2. n \in 1..Len(toClient) /\ Len(toClient) \in Nat
    BY <1>1 DEF Take, PInv, Types, ControlTypes
  <1>3. 3 <= n /\ 3 \in Nat /\ Len(toClient) > 1
    BY <1>1, <1>2
  <1>4. /\ srv.logged
        /\ toClient[1] = "LoginResp" /\ toClient[2] = "IV" /\ toClient[3] = "ReqWorkConn"
    BY <1>1, <1>3, BeforeLogin
  <1>5. new_client_connect /\ fate' = fate
    BY <1>4 DEF LoginWithCommand
  <1>6. /\ toServer' \in Seq(FromClient) /\ \A k \in 1..Len(toServer') : toServer'[k] = "NewProxy"
        /\ NewProxies' = NewProxies + NumServices /\ NumServices \in Nat /\ NewProxies \in Nat
    BY <1>1, <1>4, Announces
  <1>7. Running /\ toClient' \in Seq(FromServer)
    BY <1>1, <1>3, TakeFacts
  <1>8. NewProxies' = NumServices
    <2>1. NewProxies = 0
      BY <1>1, <1>7 DEF PInv, AnnounceInv
    <2> QED
      BY <1>6, <2>1
  <1>9. ControlTypes'
    BY <1>1, <1>6, <1>7 DEF PInv, Types, ControlTypes
  <1>10. \A j \in 1..(3 - 1) : toClient[j] # "ReqWorkConn"
    <2>1. \A j \in 1..(3 - 1) : j = 1 \/ j = 2
      OBVIOUS
    <2> QED
      BY <1>4, <2>1
  <1>11. 3 >= 1
    OBVIOUS
  <1> QED
    BY <1>1, <1>3, <1>4, <1>5, <1>6, <1>8, <1>9, <1>10, <1>11, RecvClient

LEMMA RecvCommandKeeps ==
  ASSUME PInv, NEW n, RecvCommand(n)
  PROVE  PInv'
  <1> DEFINE k == CommandAt
  <1>1. /\ n >= k /\ Take(n, k) /\ is_login /\ decoder' = TRUE
        /\ fate' = fate /\ conn' = conn /\ stream_state' = stream_state /\ is_login' = is_login
        /\ srv' = srv /\ UNCHANGED <<fate, conn, stream_state, wire, srv, work>>
    BY DEF RecvCommand
  <1>2. k \in {1, 2} /\ k = (IF decoder THEN 1 ELSE 2)
    BY DEF CommandAt
  <1>c. IF toClient[k] = "ReqWorkConn"
        THEN /\ IF client_connected THEN UNCHANGED toServer ELSE start_proxy_services
             /\ client_connected' = TRUE
             /\ new_client_connect
        ELSE UNCHANGED <<toServer, client_connected, clients>>
    BY DEF RecvCommand
  <1> HIDE DEF k
  <1>3. n \in Nat /\ k \in Nat /\ k <= n /\ k >= 1
    <2>1. n \in 1..Len(toClient) /\ Len(toClient) \in Nat
      BY <1>1 DEF Take, PInv, Types, ControlTypes
    <2> QED
      BY <1>1, <1>2, <2>1
  <1>4. /\ Running /\ conn = "up" /\ toClient' \in Seq(FromServer)
        /\ history'.since = history.since /\ history'.stale = history.stale
    BY <1>1, <1>3, TakeFacts
  <1>5. srv.logged /\ LoginInv /\ AnnounceInv
    BY <1>1 DEF PInv, LoginInv
  <1>6. \A j \in 1..(k - 1) : toClient[j] # "ReqWorkConn"
    <2>1. CASE k = 1
      BY <2>1
    <2>2. CASE k = 2
      <3>1. toClient[1] = "IV"
        BY <1>1, <1>2, <1>4, <1>5, <2>2 DEF LoginInv
      <3>2. \A j \in 1..(2 - 1) : j = 1
        OBVIOUS
      <3> QED
        BY <2>2, <3>1, <3>2
    <2> QED
      BY <1>2, <2>1, <2>2
  <1>7. CASE toClient[k] = "ReqWorkConn"
    <2>1. client_connected' = TRUE /\ new_client_connect
      BY <1>7, <1>c
    <2>2. /\ toServer' \in Seq(FromClient) /\ \A j \in 1..Len(toServer') : toServer'[j] = "NewProxy"
          /\ NewProxies' \in {0, NumServices}
          /\ ~ history.stale => NewProxies' = NumServices
      <3>1. CASE client_connected
        <4>1. toServer' = toServer
          BY <1>7, <1>c, <3>1
        <4>2. NewProxies' = NewProxies
          BY <1>1, <4>1 DEF NewProxies, Count
        <4> QED
          BY <1>4, <1>5, <3>1, <4>1, <4>2 DEF LoginInv, AnnounceInv, PInv, Types, ControlTypes
      <3>2. CASE ~ client_connected
        <4>1. start_proxy_services
          BY <1>7, <1>c, <3>2
        <4>2. /\ toServer' \in Seq(FromClient) /\ \A j \in 1..Len(toServer') : toServer'[j] = "NewProxy"
              /\ NewProxies' = NewProxies + NumServices /\ NumServices \in Nat /\ NewProxies \in Nat
          BY <1>1, <1>5, <4>1, Announces
        <4>3. NewProxies = 0
          BY <1>4, <1>5, <3>2 DEF AnnounceInv
        <4>4. NewProxies' = NumServices
          BY <4>2, <4>3
        <4> QED
          BY <4>2, <4>4
      <3> QED
        BY <3>1, <3>2
    <2>3. ControlTypes'
      BY <1>1, <1>4, <2>1, <2>2 DEF PInv, Types, ControlTypes
    <2> QED
      BY <1>1, <1>3, <1>5, <1>6, <1>7, <2>1, <2>2, <2>3, RecvClient
  <1>8. CASE toClient[k] # "ReqWorkConn"
    <2>1. toServer' = toServer /\ client_connected' = client_connected /\ UNCHANGED clients /\ made' = made
      BY <1>8, <1>c DEF clients
    <2>2. n = k => Heard(n) = 0
      <3>1. ASSUME n = k PROVE Heard(n) = 0
        <4>1. \A j \in 1..n : j = k \/ j \in 1..(k - 1)
          BY <1>3, <3>1
        <4>2. \A j \in 1..n : toClient[j] # "ReqWorkConn"
          BY <1>6, <1>8, <4>1
        <4> QED
          BY <1>1, <1>3, <4>2, HeardFacts
      <3> QED
        BY <3>1
    <2>3. ControlTypes'
      BY <1>1, <1>4, <2>1 DEF PInv, Types, ControlTypes
    <2>4. LoginInv'
      BY <1>1, <1>4, <1>5, <2>1 DEF LoginInv
    <2>5. AnnounceInv'
      <3>1. NewProxies' = NewProxies
        BY <1>1, <2>1 DEF NewProxies, Count
      <3> QED
        BY <1>1, <1>4, <1>5, <2>1, <3>1 DEF AnnounceInv, Running
    <2>6. fate' # "use_after_free" /\ UNCHANGED <<clients, wire, srv, work>>
      BY <1>1, <1>4, <2>1 DEF Running
    <2> QED
      BY <1>1, <1>3, <2>2, <2>3, <2>4, <2>5, <2>6, RecvNoClient
  <1> QED
    BY <1>7, <1>8

-----------------------------------------------------------------------------
(* A work connection                                                         *)

WorkTypes == [use : Uses, sent : Nat]

LEMMA WireTypes ==
  ASSUME NEW w \in Seq(Int), NEW u \in WorkTypes, WireIs(w, u)
  PROVE  /\ Len(w) \in Nat /\ u.sent \in Nat /\ Unread(w, u) \in Nat /\ Unread(w, u) <= u.sent + 1
         /\ u.use # "closed" => Unread(w, u) = Len(w)
         /\ u.use = "closed" => Len(w) = Unread(w, u) + 1 /\ w[Unread(w, u) + 1] = EOF
         /\ \A k \in 1..Unread(w, u) : w[k] # EOF /\ k \in 1..Len(w) /\ w[k] \in Int
  <1>1. Len(w) \in Nat /\ u.sent \in Nat /\ \A k \in 1..Len(w) : w[k] \in Int
    BY DEF WorkTypes
  <1>2. Unread(w, u) \in 0..(u.sent + 1)
    BY DEF WireIs
  <1>3. /\ u.use # "closed" => Unread(w, u) = Len(w)
        /\ u.use = "closed" => Len(w) = Unread(w, u) + 1
    BY <1>1 DEF Unread
  <1>4. u.use = "closed" => w[Len(w)] = EOF
    BY DEF WireIs
  <1>5. ASSUME NEW k \in 1..Unread(w, u) PROVE w[k] # EOF /\ k \in 1..Len(w) /\ w[k] \in Int
    <2>1. w[k] = IF Unread(w, u) = u.sent + k THEN StartWorkConn ELSE u.sent - Unread(w, u) + k
      BY DEF WireIs
    <2>2. k \in 1..Len(w)
      BY <1>1, <1>2, <1>3
    <2> QED
      BY <1>1, <1>2, <2>1, <2>2 DEF StartWorkConn, EOF
  <1> QED
    BY <1>1, <1>2, <1>3, <1>4, <1>5

LEMMA Shifted ==
  ASSUME NEW U \in Nat, NEW s \in Nat, NEW n \in Nat, NEW k \in Nat, NEW a,
         a = IF U = s + (n + k) THEN StartWorkConn ELSE s - U + (n + k)
  PROVE  a = IF U - n = s + k THEN StartWorkConn ELSE s - (U - n) + k
  <1>1. (U = s + (n + k)) <=> (U - n = s + k)
    OBVIOUS
  <1>2. s - U + (n + k) = s - (U - n) + k
    OBVIOUS
  <1> QED
    BY <1>1, <1>2

\* The first n of what is unread are read.
LEMMA WireDrop ==
  ASSUME NEW w \in Seq(Int), NEW u \in WorkTypes, WireIs(w, u),
         NEW n \in 1..Len(w), \A k \in 1..n : w[k] # EOF
  PROVE  LET v == SubSeq(w, n + 1, Len(w)) IN
         /\ v \in Seq(Int) /\ WireIs(v, u) /\ Unread(v, u) = Unread(w, u) - n /\ n <= Unread(w, u)
         /\ u.use \in {"user", "closed"}
  <1> DEFINE v == SubSeq(w, n + 1, Len(w))
             U == Unread(w, u)
             V == Unread(v, u)
  <1>1. /\ Len(w) \in Nat /\ u.sent \in Nat /\ U \in Nat /\ U <= u.sent + 1 /\ n \in Nat
        /\ u.use # "closed" => U = Len(w)
        /\ u.use = "closed" => Len(w) = U + 1 /\ w[U + 1] = EOF
    BY WireTypes
  <1>2. /\ v \in Seq(Int) /\ Len(v) = Len(w) - n
        /\ \A k \in 1..(Len(w) - n) : v[k] = w[n + k] /\ n + k \in 1..Len(w)
    <2>1. n \in 0..Len(w)
      BY <1>1
    <2> QED
      BY <2>1, DropFacts
  <1>3. u.use \in {"user", "closed"}
    <2>1. u.use \in {"none", "NewWorkConn", "pool"} => w = <<>>
      BY DEF WireIs
    <2>2. w # <<>>
      BY <1>1
    <2> QED
      BY <2>1, <2>2 DEF WorkTypes, Uses
  <1>4. n <= U
    <2>1. CASE u.use = "closed"
      <3>1. n # U + 1
        BY <1>1, <2>1
      <3> QED
        BY <1>1, <2>1, <3>1
    <2>2. CASE u.use # "closed"
      BY <1>1, <2>2
    <2> QED
      BY <2>1, <2>2
  <1>5. \A k \in 1..U : w[k] = IF U = u.sent + k THEN StartWorkConn ELSE u.sent - U + k
    BY DEF WireIs
  <1> HIDE DEF U
  <1>6. V = U - n
    BY <1>1, <1>2, <1>4 DEF Unread, U
  <1> HIDE DEF v, V
  <1>7. ASSUME NEW k \in 1..V PROVE v[k] = IF V = u.sent + k THEN StartWorkConn ELSE u.sent - V + k
    <2>1. n + k \in 1..U /\ k \in Nat /\ k \in 1..(Len(w) - n)
      BY <1>1, <1>4, <1>6
    <2>2. v[k] = w[n + k]
      BY <1>2, <2>1
    <2> DEFINE s == u.sent
    <2>3. U \in Nat /\ s \in Nat /\ n \in Nat /\ k \in Nat
      BY <1>1, <2>1
    <2>4. w[n + k] = IF U = s + (n + k) THEN StartWorkConn ELSE s - U + (n + k)
      BY <1>5, <2>1
    <2> HIDE DEF s
    <2>5. w[n + k] = IF U - n = s + k THEN StartWorkConn ELSE s - (U - n) + k
      BY <2>3, <2>4, Shifted
    <2> QED
      BY <1>6, <2>2, <2>5 DEF s
  <1>8. u.use = "closed" => v[Len(v)] = EOF
    <2>1. ASSUME u.use = "closed" PROVE v[Len(v)] = EOF
      <3>1. Len(v) \in 1..(Len(w) - n) /\ n + Len(v) = U + 1
        BY <1>1, <1>2, <1>4, <2>1
      <3> QED
        BY <1>1, <1>2, <2>1, <3>1
    <2> QED
      BY <2>1
  <1>9. V \in 0..(u.sent + 1)
    BY <1>1, <1>4, <1>6
  <1>10. WireIs(v, u)
    BY <1>3, <1>7, <1>8, <1>9 DEF WireIs, V
  <1> QED
    BY <1>2, <1>3, <1>4, <1>6, <1>10 DEF U, V, v

\* A step of client c that the control connection does not notice.
LEMMA ClientStep ==
  ASSUME PInv, NEW c \in Clients, \A d \in Clients : d # c => Same(d),
         UNCHANGED <<control, toServer, toClient, srv, made>>, HistoryTypes', ClientTypes', Running, Onward,
         history'.asks = history.asks, history'.since = history.since,
         history'.dropped = history.dropped, history'.stale = history.stale,
         WireIs(wire'[c], work'[c]), TunnelOf(c)',
         Calm' /\ CalmIs(ctl[c], local[c], work[c].use, c \in listed) =>
           fate' # "use_after_free" /\ CalmIs(ctl'[c], local'[c], work'[c].use, c \in listed')
  PROVE  PInv'
  <1>1. history'.faults <= history.faults /\ (Running' => Running) /\ made' = made /\ srv' = srv
    BY DEF Onward
  <1>2. ControlTypes' /\ BoundInv' /\ LoginInv' /\ AnnounceInv' /\ CountInv'
    BY <1>1, ControlStays
  <1>3. CalmInv' /\ WireInv' /\ TunnelInv'
    BY <1>1, OneClient
  <1> QED
    BY <1>2, <1>3 DEF PInv, Types

\* What is known of a client before a step.
LEMMA ClientFacts ==
  ASSUME PInv, NEW c \in Clients
  PROVE  /\ wire[c] \in Seq(Int) /\ work[c] \in WorkTypes /\ WireIs(wire[c], work[c]) /\ TunnelOf(c)
         /\ out[c] \in Seq(Nat) /\ data_tail[c] \in Seq(Nat) /\ history.early[c] \in Nat
         /\ ctl[c] \in {"none", "connecting", "waiting", "tunnel", "freed"}
         /\ local[c] \in {"none", "connecting", "open", "ended"}
         /\ work[c].use \in Uses /\ work[c].sent \in Nat
  BY DEF PInv, Types, ClientTypes, HistoryTypes, WireInv, TunnelInv, WorkTypes

LEMMA HistoryStays ==
  ASSUME PInv, history' = history
  PROVE  /\ HistoryTypes' /\ Onward /\ history'.asks = history.asks /\ history'.since = history.since
         /\ history'.dropped = history.dropped /\ history'.stale = history.stale
         /\ history'.early = history.early
  BY DEF PInv, Types, HistoryTypes, Onward

\* The process ends in a callback of c: nothing else changes.
LEMMA EndsKeeps ==
  ASSUME PInv, NEW c \in Clients, Running,
         UNCHANGED <<control, clients, channels, srv, work, history>>,
         CalmIs(ctl[c], local[c], work[c].use, c \in listed) => fate' # "use_after_free"
  PROVE  PInv'
  <1>1. /\ UNCHANGED <<control, toServer, toClient, srv, made>>
        /\ listed' = listed /\ ctl' = ctl /\ local' = local /\ data_tail' = data_tail
        /\ out' = out /\ wire' = wire /\ work' = work /\ history' = history /\ made' = made
    BY DEF channels, clients
  <1>2. \A d \in Clients : Same(d)
    BY <1>1 DEF Same
  <1>3. ClientTypes'
    BY <1>1 DEF PInv, Types, ClientTypes
  <1>4. WireIs(wire'[c], work'[c]) /\ TunnelOf(c)'
    <2>1. WireIs(wire[c], work[c]) /\ TunnelOf(c) /\ Same(c)
      BY <1>2, ClientFacts
    <2> QED
      BY <2>1, SameKeeps
  <1>5. Calm' /\ CalmIs(ctl[c], local[c], work[c].use, c \in listed) =>
          fate' # "use_after_free" /\ CalmIs(ctl'[c], local'[c], work'[c].use, c \in listed')
    BY <1>1
  <1>6. /\ HistoryTypes' /\ Onward /\ history'.asks = history.asks /\ history'.since = history.since
        /\ history'.dropped = history.dropped /\ history'.stale = history.stale
    BY <1>1, HistoryStays
  <1> QED
    BY <1>1, <1>2, <1>3, <1>4, <1>5, <1>6, ClientStep

LEMMA UsesFreedKeeps ==
  ASSUME PInv, NEW c \in Clients, Running, UsesFreed(c), ctl[c] \in {"connecting", "waiting", "tunnel"}
  PROVE  PInv'
  <1>1. c \notin listed /\ UNCHANGED <<control, clients, channels, srv, work, history>>
    BY DEF UsesFreed
  <1>2. ~ CalmIs(ctl[c], local[c], work[c].use, c \in listed)
    BY <1>1 DEF CalmIs
  <1> QED
    BY <1>1, <1>2, EndsKeeps

LEMMA WorkConnectedKeeps ==
  ASSUME PInv, NEW c \in Clients, WorkConnected(c)
  PROVE  PInv'
  <1>1. /\ Running /\ ctl[c] = "connecting" /\ ctl' = [ctl EXCEPT ![c] = "waiting"]
        /\ work' = [work EXCEPT ![c].use = "NewWorkConn"] /\ client_connected' = TRUE
        /\ fate' = fate /\ conn' = conn /\ stream_state' = stream_state /\ is_login' = is_login
        /\ decoder' = decoder /\ made' = made /\ listed' = listed /\ local' = local
        /\ data_tail' = data_tail /\ out' = out /\ wire' = wire /\ toServer' = toServer
        /\ toClient' = toClient /\ srv' = srv
    BY DEF WorkConnected, channels
  <1>2. /\ HistoryTypes' /\ Onward /\ history'.early = history.early /\ history'.asks = history.asks
        /\ history'.since = history.since /\ history'.dropped = history.dropped
        /\ history'.faults = history.faults
        /\ ~ history'.stale => ~ history.stale /\ ~ c < history.since
    <2> DEFINE s == history.stale \/ c < history.since
    <2>1. history' = [history EXCEPT !.stale = s]
      BY DEF WorkConnected
    <2>2. s \in BOOLEAN
      OBVIOUS
    <2>3. ~ s => ~ history.stale /\ ~ c < history.since
      OBVIOUS
    <2> HIDE DEF s
    <2>4. history \in [faults : Nat, asks : Nat, users : Nat, since : Nat, dropped : Nat,
                       stale : BOOLEAN, early : [Clients -> Nat], left : SUBSET Clients]
      BY DEF PInv, Types, HistoryTypes
    <2>5. history'.stale = s
      BY <2>1, <2>4
    <2> QED
      BY <2>1, <2>2, <2>3, <2>4, <2>5 DEF HistoryTypes, Onward
  <1>3. /\ wire[c] \in Seq(Int) /\ work[c] \in WorkTypes /\ WireIs(wire[c], work[c]) /\ TunnelOf(c)
        /\ work[c].use \in Uses /\ work[c].sent \in Nat /\ work \in [Clients -> WorkTypes]
        /\ ctl \in [Clients -> {"none", "connecting", "waiting", "tunnel", "freed"}]
    BY ClientFacts DEF PInv, Types, ClientTypes, WorkTypes
  <1>4. wire[c] = <<>> /\ work[c].sent = 0
    <2>1. work[c].use = "none"
      BY <1>1, <1>3 DEF TunnelOf
    <2> QED
      BY <1>3, <2>1 DEF WireIs
  <1>5. work'[c].use = "NewWorkConn" /\ work'[c].sent = 0 /\ ctl'[c] = "waiting" /\ work' \in [Clients -> WorkTypes]
    BY <1>1, <1>3, <1>4 DEF WorkTypes, Uses
  <1>6. WireIs(wire'[c], work'[c])
    <2>1. wire'[c] = <<>> /\ Len(<<>>) = 0
      BY <1>1, <1>4
    <2> QED
      BY <1>5, <2>1 DEF WireIs, Unread
  <1>7. TunnelOf(c)'
    BY <1>1, <1>3, <1>5 DEF TunnelOf
  <1>8. ClientTypes'
    BY <1>1, <1>3, <1>5 DEF PInv, Types, ClientTypes, WorkTypes
  <1>9. \A d \in Clients : d # c => Same(d)
    BY <1>1, <1>2, <1>3 DEF Same
  <1>10. Calm' /\ CalmIs(ctl[c], local[c], work[c].use, c \in listed) =>
           fate' # "use_after_free" /\ CalmIs(ctl'[c], local'[c], work'[c].use, c \in listed')
    BY <1>1, <1>5 DEF CalmIs, Running
  <1>11. CalmInv' /\ WireInv' /\ TunnelInv'
    BY <1>1, <1>2, <1>6, <1>7, <1>9, <1>10, OneClient
  <1>12. ControlTypes'
    BY <1>1 DEF PInv, Types, ControlTypes
  <1>13. Asked' = Asked /\ Logins' = Logins /\ NewProxies' = NewProxies
    BY <1>1 DEF Asked, Logins, NewProxies, Count
  <1>14. BoundInv'
    BY <1>1, <1>2, <1>13 DEF PInv, BoundInv, MaxClients
  <1>15. LoginInv'
    BY <1>1, <1>2 DEF PInv, LoginInv, Running
  <1>16. CountInv'
    BY <1>1, <1>2, <1>13 DEF PInv, CountInv
  <1>17. AnnounceInv'
    <2>1. /\ NewProxies \in {0, NumServices}
          /\ ~ (is_login /\ client_connected) => NewProxies = 0
          /\ (client_connected /\ ~ history.stale) => is_login /\ NewProxies = NumServices
          /\ made >= history.since => is_login /\ client_connected
      BY <1>1 DEF PInv, AnnounceInv
    <2>2. ~ c < history.since => made >= history.since
      <3>1. c <= made /\ made \in Nat /\ c \in Int /\ history.since \in Nat
        BY <1>1, MadeFacts DEF PInv, Types, ClientTypes, HistoryTypes, Clients
      <3> QED
        BY <3>1
    <2> QED
      BY <1>1, <1>2, <1>13, <2>1, <2>2 DEF AnnounceInv
  <1> QED
    BY <1>2, <1>8, <1>11, <1>12, <1>14, <1>15, <1>16, <1>17 DEF PInv, Types

LEMMA WorkFailsKeeps ==
  ASSUME PInv, NEW c \in Clients, WorkFails(c)
  PROVE  PInv'
  <1>1. Running /\ ctl[c] \in {"connecting", "waiting"}
    BY DEF WorkFails
  <1>2. CASE UsesFreed(c)
    BY <1>1, <1>2, UsesFreedKeeps
  <1>3. CASE ~ UsesFreed(c)
    <2>1. /\ listed' = listed \ {c} /\ ctl' = [ctl EXCEPT ![c] = "freed"]
          /\ fate' = fate /\ made' = made /\ local' = local /\ data_tail' = data_tail /\ out' = out
          /\ wire' = wire /\ work' = work /\ history' = history
          /\ UNCHANGED <<control, toServer, toClient, srv, made>>
      BY <1>3 DEF WorkFails, channels
    <2>2. /\ HistoryTypes' /\ Onward /\ history'.asks = history.asks /\ history'.since = history.since
          /\ history'.dropped = history.dropped /\ history'.stale = history.stale
          /\ history'.early = history.early
      BY <2>1, HistoryStays
    <2>3. WireIs(wire[c], work[c]) /\ TunnelOf(c)
      BY ClientFacts
    <2>4. /\ ctl \in [Clients -> {"none", "connecting", "waiting", "tunnel", "freed"}]
          /\ ctl'[c] = "freed" /\ local'[c] = "none"
      BY <1>1, <2>1, <2>3 DEF PInv, Types, ClientTypes, TunnelOf
    <2>5. ClientTypes'
      BY <1>1, <2>1 DEF PInv, Types, ClientTypes
    <2>6. \A d \in Clients : d # c => Same(d)
      BY <2>1, <2>2, <2>4 DEF Same
    <2>7. WireIs(wire'[c], work'[c]) /\ TunnelOf(c)'
      BY <2>1, <2>3, <2>4 DEF TunnelOf
    <2>8. Calm' /\ CalmIs(ctl[c], local[c], work[c].use, c \in listed) =>
            fate' # "use_after_free" /\ CalmIs(ctl'[c], local'[c], work'[c].use, c \in listed')
      BY <1>1, <2>1, <2>4 DEF CalmIs, Running
    <2> QED
      BY <1>1, <2>1, <2>2, <2>5, <2>6, <2>7, <2>8, ClientStep
  <1> QED
    BY <1>2, <1>3

LEMMA WorkEndsKeeps ==
  ASSUME PInv, NEW c \in Clients, WorkEnds(c)
  PROVE  PInv'
  <1>1. /\ Running /\ ctl[c] = "tunnel" /\ wire[c] # <<>> /\ Head(wire[c]) = EOF
        /\ ctl' = [ctl EXCEPT ![c] = "freed"] /\ listed' = listed
        /\ fate' = fate /\ made' = made /\ local' = local /\ data_tail' = data_tail /\ out' = out
        /\ wire' = wire /\ work' = work /\ history' = history
        /\ UNCHANGED <<control, toServer, toClient, srv, made>>
    BY DEF WorkEnds, channels, Ended
  <1>2. /\ HistoryTypes' /\ Onward /\ history'.asks = history.asks /\ history'.since = history.since
        /\ history'.dropped = history.dropped /\ history'.stale = history.stale
        /\ history'.early = history.early
    BY <1>1, HistoryStays
  <1>3. wire[c] \in Seq(Int) /\ work[c] \in WorkTypes /\ WireIs(wire[c], work[c]) /\ TunnelOf(c)
    BY ClientFacts
  <1>4. /\ ctl \in [Clients -> {"none", "connecting", "waiting", "tunnel", "freed"}]
        /\ ctl'[c] = "freed"
    BY <1>1 DEF PInv, Types, ClientTypes
  <1>5. ClientTypes'
    BY <1>1 DEF PInv, Types, ClientTypes
  <1>6. \A d \in Clients : d # c => Same(d)
    BY <1>1, <1>2, <1>4 DEF Same
  <1>7. WireIs(wire'[c], work'[c]) /\ TunnelOf(c)'
    BY <1>1, <1>3, <1>4 DEF TunnelOf
  <1>8. work[c].use = "closed"
    <2>1. /\ Len(wire[c]) \in Nat /\ work[c].use # "closed" => Unread(wire[c], work[c]) = Len(wire[c])
          /\ \A k \in 1..Unread(wire[c], work[c]) : wire[c][k] # EOF
      BY <1>3, WireTypes
    <2>2. 1 \in 1..Len(wire[c]) /\ wire[c][1] = EOF
      BY <1>1, <1>3
    <2> QED
      BY <2>1, <2>2
  <1>9. ~ CalmIs(ctl[c], local[c], work[c].use, c \in listed)
    BY <1>8 DEF CalmIs
  <1> QED
    BY <1>1, <1>2, <1>5, <1>6, <1>7, <1>9, ClientStep

LEMMA LocalDataKeeps ==
  ASSUME PInv, NEW c \in Clients, LocalData(c)
  PROVE  PInv'
  <1>1. /\ Running /\ local[c] = "open" /\ ctl[c] = "freed"
        /\ UNCHANGED <<control, clients, channels, srv, work, history>>
    BY DEF LocalData
  <1>2. ~ CalmIs(ctl[c], local[c], work[c].use, c \in listed)
    BY <1>1 DEF CalmIs
  <1> QED
    BY <1>1, <1>2, EndsKeeps

LEMMA LocalEndsKeeps ==
  ASSUME PInv, NEW c \in Clients, LocalEnds(c)
  PROVE  PInv'
  <1>1. /\ Running /\ local[c] \in {"connecting", "open"} /\ local' = [local EXCEPT ![c] = "ended"]
        /\ ctl' = ctl /\ listed' = listed
        /\ fate' = fate /\ made' = made /\ data_tail' = data_tail /\ out' = out
        /\ wire' = wire /\ work' = work /\ history' = history
        /\ UNCHANGED <<control, toServer, toClient, srv, made>>
    BY DEF LocalEnds, LocalEndKeeps, channels
  <1>2. /\ HistoryTypes' /\ Onward /\ history'.asks = history.asks /\ history'.since = history.since
        /\ history'.dropped = history.dropped /\ history'.stale = history.stale
        /\ history'.early = history.early
    BY <1>1, HistoryStays
  <1>3. WireIs(wire[c], work[c]) /\ TunnelOf(c)
    BY ClientFacts
  <1>4. /\ local \in [Clients -> {"none", "connecting", "open", "ended"}]
        /\ local'[c] = "ended"
    BY <1>1 DEF PInv, Types, ClientTypes
  <1>5. ClientTypes'
    BY <1>1, <1>4 DEF PInv, Types, ClientTypes
  <1>6. \A d \in Clients : d # c => Same(d)
    BY <1>1, <1>2, <1>4 DEF Same
  <1>7. WireIs(wire'[c], work'[c])
    BY <1>1, <1>3
  <1>8. TunnelOf(c)'
    <2>1. Delivered(c)' = Delivered(c)
      BY <1>1 DEF Delivered
    <2>2. \A o, early, t, n : TunnelIs(o, early, local[c], t, n) => TunnelIs(o, early, "ended", t, n)
      BY DEF TunnelIs
    <2>3. ctl[c] \notin {"none", "connecting", "waiting"}
      BY <1>1, <1>3 DEF TunnelOf
    <2> QED
      BY <1>1, <1>3, <1>4, <2>1, <2>2, <2>3 DEF TunnelOf
  <1>9. Calm' /\ CalmIs(ctl[c], local[c], work[c].use, c \in listed) =>
          fate' # "use_after_free" /\ CalmIs(ctl'[c], local'[c], work'[c].use, c \in listed')
    BY <1>1, <1>4 DEF CalmIs, Running
  <1> QED
    BY <1>1, <1>2, <1>5, <1>6, <1>7, <1>8, <1>9, ClientStep

LEMMA ReadFacts ==
  ASSUME PInv, NEW c \in Clients, NEW n, Read(c, n)
  PROVE  /\ Running /\ n \in Nat /\ n >= 1 /\ n <= Unread(wire[c], work[c]) /\ n \in 1..Len(wire[c])
         /\ wire' \in [Clients -> Seq(Int)] /\ \A d \in Clients : d # c => wire'[d] = wire[d]
         /\ WireIs(wire'[c], work[c]) /\ Unread(wire'[c], work[c]) = Unread(wire[c], work[c]) - n
         /\ work[c].use \in {"user", "closed"}
         /\ UNCHANGED <<control, toServer, toClient, srv, made>> /\ work' = work /\ made' = made
  <1>1. /\ Running /\ n \in 1..Len(wire[c]) /\ \A k \in 1..n : wire[c][k] # EOF
        /\ wire' = [wire EXCEPT ![c] = SubSeq(wire[c], n + 1, Len(wire[c]))]
        /\ UNCHANGED <<control, toServer, toClient, srv, made>> /\ work' = work /\ made' = made
    BY DEF Read
  <1> DEFINE v == SubSeq(wire[c], n + 1, Len(wire[c]))
  <1>2. wire[c] \in Seq(Int) /\ work[c] \in WorkTypes /\ WireIs(wire[c], work[c])
    BY ClientFacts
  <1>3. /\ v \in Seq(Int) /\ WireIs(v, work[c]) /\ Unread(v, work[c]) = Unread(wire[c], work[c]) - n
        /\ n <= Unread(wire[c], work[c]) /\ work[c].use \in {"user", "closed"}
    BY <1>1, <1>2, WireDrop
  <1>4. n \in Nat /\ n >= 1
    BY <1>1, <1>2
  <1>5. wire \in [Clients -> Seq(Int)]
    BY DEF PInv, Types, ClientTypes
  <1> HIDE DEF v
  <1>6. wire'[c] = v /\ wire' \in [Clients -> Seq(Int)] /\ \A d \in Clients : d # c => wire'[d] = wire[d]
    BY <1>1, <1>3, <1>5 DEF v
  <1> QED
    BY <1>1, <1>3, <1>4, <1>6

\* recv_cb drops what it has read.
LEMMA ReadDropsKeeps ==
  ASSUME PInv, NEW c \in Clients, NEW n, Read(c, n), ctl[c] = "waiting",
         UNCHANGED <<fate, listed, ctl, local, data_tail, out, history>>
  PROVE  PInv'
  <1>1. /\ Running /\ wire' \in [Clients -> Seq(Int)] /\ \A d \in Clients : d # c => wire'[d] = wire[d]
        /\ WireIs(wire'[c], work[c]) /\ work' = work /\ made' = made
        /\ UNCHANGED <<control, toServer, toClient, srv, made>>
    BY ReadFacts
  <1>2. /\ fate' = fate /\ listed' = listed /\ ctl' = ctl /\ local' = local
        /\ data_tail' = data_tail /\ out' = out /\ history' = history
    OBVIOUS
  <1>3. /\ HistoryTypes' /\ Onward /\ history'.asks = history.asks /\ history'.since = history.since
        /\ history'.dropped = history.dropped /\ history'.stale = history.stale
        /\ history'.early = history.early
    BY <1>2, HistoryStays
  <1>4. ClientTypes'
    BY <1>1, <1>2 DEF PInv, Types, ClientTypes
  <1>5. \A d \in Clients : d # c => Same(d)
    BY <1>1, <1>2, <1>3 DEF Same
  <1>6. TunnelOf(c)
    BY ClientFacts
  <1>7. WireIs(wire'[c], work'[c]) /\ TunnelOf(c)'
    BY <1>1, <1>2, <1>6 DEF TunnelOf
  <1>8. Calm' /\ CalmIs(ctl[c], local[c], work[c].use, c \in listed) =>
          fate' # "use_after_free" /\ CalmIs(ctl'[c], local'[c], work'[c].use, c \in listed')
    BY <1>1, <1>2 DEF Running
  <1> QED
    BY <1>1, <1>3, <1>4, <1>5, <1>7, <1>8, ClientStep

LEMMA RecvDropsKeeps ==
  ASSUME PInv, NEW c \in Clients, NEW n, RecvBeforeLogin(c, n) \/ RecvUnknown(c, n)
  PROVE  PInv'
  <1>1. /\ ctl[c] = "waiting" /\ Read(c, n)
        /\ UNCHANGED <<fate, listed, ctl, local, data_tail, out, history>>
    BY DEF RecvBeforeLogin, RecvUnknown
  <1> QED
    BY <1>1, ReadDropsKeeps

LEMMA IotaFacts ==
  ASSUME NEW n \in Nat
  PROVE  Iota(n) \in Seq(Nat) /\ Len(Iota(n)) = n /\ \A k \in 1..n : Iota(n)[k] = k
  BY DEF Iota

\* StartWorkConn is read with n - 1 bytes behind it.
LEMMA StartReadKeeps ==
  ASSUME PInv, NEW c \in Clients, NEW n, Read(c, n), ctl[c] = "waiting", c \in listed,
         wire[c] # <<>>, Head(wire[c]) = StartWorkConn,
         data_tail' = [data_tail EXCEPT ![c] = Iota(n - 1)],
         history' = [history EXCEPT !.early[c] = n - 1],
         ctl' = [ctl EXCEPT ![c] = "tunnel"],
         NEW to \in {"connecting", "none"}, local' = [local EXCEPT ![c] = to],
         UNCHANGED <<fate, listed, out>>
  PROVE  PInv'
  <1> DEFINE m == n - 1
             U == Unread(wire[c], work[c])
             W == Unread(wire'[c], work[c])
             sent == work[c].sent
  <1>1. /\ Running /\ n \in Nat /\ n >= 1 /\ n <= U /\ n \in 1..Len(wire[c])
        /\ wire' \in [Clients -> Seq(Int)] /\ \A d \in Clients : d # c => wire'[d] = wire[d]
        /\ WireIs(wire'[c], work[c]) /\ W = U - n
        /\ work[c].use \in {"user", "closed"} /\ work' = work /\ made' = made
        /\ UNCHANGED <<control, toServer, toClient, srv, made>>
    BY ReadFacts
  <1>2. /\ wire[c] \in Seq(Int) /\ work[c] \in WorkTypes /\ WireIs(wire[c], work[c]) /\ TunnelOf(c)
        /\ sent \in Nat /\ U \in Nat /\ U <= sent + 1
    BY ClientFacts, WireTypes
  <1>3. U = sent + 1
    <2>1. wire[c][1] = StartWorkConn
      BY <1>2
    <2>2. \A k \in 1..U : wire[c][k] = IF U = sent + k THEN StartWorkConn ELSE sent - U + k
      BY <1>2 DEF WireIs
    <2> HIDE DEF U, sent
    <2>3. 1 \in 1..U
      BY <1>1, <1>2
    <2>4. U = sent + 1 \/ sent - U + 1 = -1
      BY <2>1, <2>2, <2>3 DEF StartWorkConn
    <2> QED
      BY <1>2, <2>4
  <1>4. m \in Nat /\ n = m + 1
    BY <1>1
  <1>5. data_tail' = [data_tail EXCEPT ![c] = Iota(m)] /\ history' = [history EXCEPT !.early[c] = m]
    OBVIOUS
  <1> HIDE DEF m
  <1>6. Iota(m) \in Seq(Nat)
    BY <1>4, IotaFacts
  <1>7. history \in [faults : Nat, asks : Nat, users : Nat, since : Nat, dropped : Nat,
                     stale : BOOLEAN, early : [Clients -> Nat], left : SUBSET Clients]
    BY DEF PInv, Types, HistoryTypes
  <1>8. /\ history'.early = [history.early EXCEPT ![c] = m] /\ history'.faults = history.faults
        /\ history'.asks = history.asks /\ history'.since = history.since
        /\ history'.dropped = history.dropped /\ history'.stale = history.stale
        /\ history'.left = history.left /\ history'.users = history.users
    BY <1>5, <1>7
  <1>9. HistoryTypes' /\ Onward
    <2>1. [history.early EXCEPT ![c] = m] \in [Clients -> Nat]
      BY <1>4, <1>7
    <2>2. history' = [history EXCEPT !.early = [history.early EXCEPT ![c] = m]]
      BY <1>5
    <2>3. HistoryTypes'
      BY <1>7, <2>1, <2>2 DEF HistoryTypes
    <2> QED
      BY <1>7, <1>8, <2>3 DEF Onward
  <1>10. /\ history'.early[c] = m /\ \A d \in Clients : d # c => history'.early[d] = history.early[d]
    BY <1>7, <1>8
  <1>11. /\ data_tail \in [Clients -> Seq(Nat)] /\ local \in [Clients -> {"none", "connecting", "open", "ended"}]
         /\ ctl \in [Clients -> {"none", "connecting", "waiting", "tunnel", "freed"}]
    BY DEF PInv, Types, ClientTypes
  <1>12. /\ data_tail'[c] = Iota(m) /\ data_tail' \in [Clients -> Seq(Nat)]
         /\ ctl'[c] = "tunnel" /\ local'[c] = to
         /\ fate' = fate /\ listed' = listed /\ out' = out
    BY <1>5, <1>6, <1>11
  <1>13. ClientTypes'
    BY <1>1, <1>12 DEF PInv, Types, ClientTypes
  <1>14. \A d \in Clients : d # c => Same(d)
    BY <1>1, <1>5, <1>10, <1>11, <1>12 DEF Same
  <1>15. TunnelOf(c)'
    <2>1. out'[c] = <<>>
      BY <1>2, <1>12 DEF TunnelOf
    <2>2. Delivered(c)' = 0
      <3>1. Delivered(c)' = sent - m - W
        BY <1>1, <1>10 DEF Delivered
      <3> HIDE DEF sent, W, U
      <3> QED
        BY <1>1, <1>2, <1>3, <1>4, <3>1
    <2>3. TunnelIs(<<>>, m, to, Iota(m), 0)
      <3>1. OutIs(<<>>, m, 0, 0, 0)
        BY DEF OutIs
      <3> QED
        BY <3>1 DEF TunnelIs
    <2> QED
      BY <1>1, <1>10, <1>12, <2>1, <2>2, <2>3 DEF TunnelOf
  <1>16. Calm' /\ CalmIs(ctl[c], local[c], work[c].use, c \in listed) =>
          fate' # "use_after_free" /\ CalmIs(ctl'[c], local'[c], work'[c].use, c \in listed')
    BY <1>1, <1>12 DEF Running, CalmIs
  <1> QED
    BY <1>1, <1>8, <1>9, <1>13, <1>14, <1>15, <1>16, ClientStep

LEMMA RecvStartKeeps ==
  ASSUME PInv, NEW c \in Clients, NEW n, RecvStart(c, n)
  PROVE  PInv'
  <1>1. ctl[c] = "waiting" /\ wire[c] # <<>> /\ Head(wire[c]) = StartWorkConn
    BY DEF RecvStart
  <1>2. CASE Running /\ UsesFreed(c)
    BY <1>1, <1>2, UsesFreedKeeps
  <1>3. CASE /\ c \in listed /\ Read(c, n)
             /\ data_tail' = [data_tail EXCEPT ![c] = Iota(n - 1)]
             /\ history' = [history EXCEPT !.early[c] = n - 1]
             /\ ctl' = [ctl EXCEPT ![c] = "tunnel"]
             /\ \E to \in {"connecting", "none"} : local' = [local EXCEPT ![c] = to]
             /\ UNCHANGED <<fate, listed, out>>
    <2>1. PICK to \in {"connecting", "none"} : local' = [local EXCEPT ![c] = to]
      BY <1>3
    <2> QED
      BY <1>1, <1>3, <2>1, StartReadKeeps
  <1>4. CASE /\ c \in listed /\ history.faults > 0 /\ Read(c, n)
             /\ fate' = "use_after_free"
             /\ listed' = listed \ {c}
             /\ history' = [history EXCEPT !.faults = @ - 1]
             /\ UNCHANGED <<ctl, local, data_tail, out>>
    <2>1. /\ Running /\ wire' \in [Clients -> Seq(Int)] /\ \A d \in Clients : d # c => wire'[d] = wire[d]
          /\ WireIs(wire'[c], work[c]) /\ work' = work /\ made' = made
          /\ UNCHANGED <<control, toServer, toClient, srv, made>>
      BY <1>4, ReadFacts
    <2>2. ctl' = ctl /\ local' = local /\ data_tail' = data_tail /\ out' = out /\ listed' = listed \ {c}
      BY <1>4
    <2>3. /\ HistoryTypes' /\ Onward /\ history'.asks = history.asks /\ history'.since = history.since
          /\ history'.dropped = history.dropped /\ history'.stale = history.stale
          /\ history'.early = history.early /\ history'.faults = history.faults - 1
      BY <1>4, FaultSpent DEF PInv, Types
    <2>4. ClientTypes'
      BY <2>1, <2>2 DEF PInv, Types, ClientTypes
    <2>5. \A d \in Clients : d # c => Same(d)
      BY <2>1, <2>2, <2>3 DEF Same
    <2>6. TunnelOf(c)
      BY ClientFacts
    <2>7. WireIs(wire'[c], work'[c]) /\ TunnelOf(c)'
      BY <1>1, <2>1, <2>2, <2>6 DEF TunnelOf
    <2>8. ~ Calm'
      <3>1. MaxFaults \in Nat /\ history.faults \in Nat /\ history.faults <= MaxFaults
        BY PlainAssumption DEF PInv, CalmInv, Types, HistoryTypes
      <3> QED
        BY <2>3, <3>1 DEF Calm
    <2> QED
      BY <2>1, <2>3, <2>4, <2>5, <2>7, <2>8, ClientStep
  <1> QED
    BY <1>2, <1>3, <1>4 DEF RecvStart

LEMMA BytesJoin ==
  \A o, b \in Seq(Nat) :
    /\ o \o b \in Seq(Nat) /\ Len(o \o b) = Len(o) + Len(b) /\ Len(o) \in Nat
    /\ \A k \in 1..Len(o) : (o \o b)[k] = o[k]
    /\ \A k \in 1..Len(b) : (o \o b)[Len(o) + k] = b[k]
  BY JoinFacts

\* The bytes that come next are written behind the others.
LEMMA OutGrows ==
  ASSUME NEW o \in Seq(Nat), NEW b \in Seq(Nat), NEW early \in Nat, NEW e \in Nat, NEW D \in Nat,
         NEW i \in 0..D, OutIs(o, early, e, i, D), NEW n \in Nat, Len(b) = n,
         \A k \in 1..n : b[k] = early + D + k
  PROVE  OutIs(o \o b, early, e, i, D + n)
  <1> DEFINE p == o \o b
  <1>1. /\ p \in Seq(Nat) /\ Len(p) = Len(o) + n /\ Len(o) \in Nat
        /\ \A k \in 1..Len(o) : p[k] = o[k]
        /\ \A k \in 1..n : p[Len(o) + k] = b[k]
    <2>1. /\ p \in Seq(Nat) /\ Len(p) = Len(o) + Len(b) /\ Len(o) \in Nat
          /\ \A k \in 1..Len(o) : p[k] = o[k]
          /\ \A k \in 1..Len(b) : p[Len(o) + k] = b[k]
      BY BytesJoin, Zenon
    <2> QED
      BY <2>1
  <1>2. Len(o) = D + e /\ \A k \in 1..D : o[IF k <= i THEN k ELSE k + e] = early + k
    BY DEF OutIs
  <1>3. \A k \in 1..e : o[i + k] \in 0..early
    BY DEF OutIs
  <1> HIDE DEF p
  <1>4. ASSUME NEW k \in 1..(D + n) PROVE p[IF k <= i THEN k ELSE k + e] = early + k
    <2>1. CASE k <= D
      <3>1. k \in 1..D /\ (IF k <= i THEN k ELSE k + e) \in 1..Len(o)
        BY <1>2, <2>1
      <3> QED
        BY <1>1, <1>2, <3>1
    <2>2. CASE ~ k <= D
      <3>1. k - D \in 1..n /\ ~ k <= i /\ k + e = Len(o) + (k - D)
        BY <1>2, <2>2
      <3>2. p[Len(o) + (k - D)] = early + D + (k - D)
        BY <1>1, <3>1
      <3>3. early + D + (k - D) = early + k
        BY <3>1
      <3> QED
        BY <3>1, <3>2, <3>3
    <2> QED
      BY <2>1, <2>2
  <1>5. ASSUME NEW k \in 1..e PROVE p[i + k] \in 0..early
    <2>1. i + k \in 1..Len(o)
      BY <1>2
    <2> QED
      BY <1>1, <1>3, <2>1
  <1>6. Len(p) = D + n + e
    BY <1>1, <1>2
  <1> QED
    BY <1>4, <1>5, <1>6 DEF OutIs, p

LEMMA TunnelGrows ==
  ASSUME NEW o \in Seq(Nat), NEW b \in Seq(Nat), NEW early \in Nat, NEW D \in Nat, NEW l, NEW t,
         TunnelIs(o, early, l, t, D), NEW n \in Nat, Len(b) = n,
         \A k \in 1..n : b[k] = early + D + k
  PROVE  TunnelIs(o \o b, early, l, t, D + n)
  <1>1. PICK e \in {0, early} : \E i \in 0..D :
          /\ OutIs(o, early, e, i, D)
          /\ l \in {"none", "connecting"} => e = 0 /\ t = Iota(early)
    BY DEF TunnelIs
  <1>2. PICK i \in 0..D : /\ OutIs(o, early, e, i, D)
                          /\ l \in {"none", "connecting"} => e = 0 /\ t = Iota(early)
    BY <1>1
  <1>3. e \in Nat /\ i \in 0..(D + n)
    OBVIOUS
  <1>4. OutIs(o \o b, early, e, i, D + n)
    BY <1>2, <1>3, OutGrows
  <1> QED
    BY <1>2, <1>3, <1>4 DEF TunnelIs

\* The tail is written behind all that was.
LEMMA TailWritten ==
  ASSUME NEW o \in Seq(Nat), NEW t \in Seq(Nat), NEW b \in {t, [k \in 1..Len(t) |-> 0]},
         NEW early \in Nat, NEW D \in Nat, TunnelIs(o, early, "connecting", t, D)
  PROVE  TunnelIs(o \o b, early, "open", <<>>, D)
  <1>1. t = Iota(early) /\ \E i \in 0..D : OutIs(o, early, 0, i, D)
    BY DEF TunnelIs
  <1>2. PICK i \in 0..D : OutIs(o, early, 0, i, D)
    BY <1>1
  <1>3. Len(t) = early /\ \A k \in 1..early : t[k] = k
    BY <1>1, IotaFacts
  <1>4. b \in Seq(Nat) /\ Len(b) = early /\ \A k \in 1..early : b[k] \in 0..early
    <2>1. CASE b = t
      BY <1>3, <2>1
    <2>2. CASE b = [k \in 1..Len(t) |-> 0]
      <3>1. b = [k \in 1..early |-> 0]
        BY <1>3, <2>2
      <3> QED
        BY <3>1
    <2> QED
      BY <2>1, <2>2
  <1>5. Len(o) = D /\ \A k \in 1..D : o[k] = early + k
    <2>1. Len(o) = D + 0 /\ \A k \in 1..D : o[IF k <= i THEN k ELSE k + 0] = early + k
      BY <1>2 DEF OutIs
    <2> QED
      BY <2>1
  <1> DEFINE p == o \o b
  <1>6. /\ Len(p) = Len(o) + Len(b)
        /\ \A k \in 1..Len(o) : p[k] = o[k]
        /\ \A k \in 1..Len(b) : p[Len(o) + k] = b[k]
    BY <1>4, BytesJoin, Zenon
  <1> HIDE DEF p
  <1>7. OutIs(p, early, early, D, D)
    <2>1. ASSUME NEW k \in 1..D PROVE p[IF k <= D THEN k ELSE k + early] = early + k
      BY <1>5, <1>6
    <2>2. ASSUME NEW k \in 1..early PROVE p[D + k] \in 0..early
      BY <1>4, <1>5, <1>6
    <2>3. Len(p) = D + early
      BY <1>4, <1>5, <1>6
    <2> QED
      BY <2>1, <2>2, <2>3 DEF OutIs
  <1>8. D \in 0..D
    OBVIOUS
  <1> QED
    BY <1>7, <1>8 DEF TunnelIs, p

\* What is read of a tunnel continues what was delivered.
LEMMA NextBytes ==
  ASSUME PInv, NEW c \in Clients, Delivered(c) \in Nat, NEW n \in Nat, n \in 1..Len(wire[c]),
         n <= Unread(wire[c], work[c])
  PROVE  LET b == SubSeq(wire[c], 1, n) IN
         /\ b \in Seq(Nat) /\ Len(b) = n
         /\ \A k \in 1..n : b[k] = history.early[c] + Delivered(c) + k
  <1> DEFINE b == SubSeq(wire[c], 1, n)
             w == wire[c]
             U == Unread(wire[c], work[c])
             sent == work[c].sent
             early == history.early[c]
             D == Delivered(c)
  <1>1. w \in Seq(Int) /\ work[c] \in WorkTypes /\ WireIs(w, work[c]) /\ early \in Nat
    BY ClientFacts
  <1>2. sent \in Nat /\ U \in Nat /\ \A k \in 1..U : k \in 1..Len(w)
    BY <1>1, WireTypes
  <1>3. \A k \in 1..U : w[k] = IF U = sent + k THEN StartWorkConn ELSE sent - U + k
    BY <1>1 DEF WireIs
  <1>4. D = sent - early - U /\ D \in Nat /\ n <= U
    BY DEF Delivered
  <1>5. Len(b) = n /\ \A k \in 1..n : b[k] = w[k] /\ b = [j \in 1..n |-> w[j]]
    BY <1>1
  <1> HIDE DEF b, w, U, sent, early, D
  <1>6. ASSUME NEW k \in 1..n PROVE b[k] = early + D + k /\ b[k] \in Nat
    <2>1. k \in 1..U /\ U # sent + k /\ sent - U + k = early + D + k /\ early + D + k \in Nat
      BY <1>1, <1>2, <1>4
    <2> QED
      BY <1>3, <1>5, <2>1
  <1>7. b \in Seq(Nat)
    <2>1. ASSUME NEW k \in 1..n PROVE w[k] \in Nat
      BY <1>5, <1>6
    <2>2. b = [j \in 1..n |-> w[j]] \/ n = 0
      BY <1>5
    <2>3. CASE b = [j \in 1..n |-> w[j]]
      BY <2>1, <2>3
    <2>4. CASE n = 0
      <3>1. FALSE
        BY <2>4
      <3> QED
        BY <3>1
    <2> QED
      BY <2>2, <2>3, <2>4
  <1> QED
    BY <1>5, <1>6, <1>7 DEF b, early, D

LEMMA s2cKeeps ==
  ASSUME PInv, NEW c \in Clients, NEW n, tcp_proxy_s2c_cb(c, n)
  PROVE  PInv'
  <1>1. ctl[c] = "tunnel"
    BY DEF tcp_proxy_s2c_cb
  <1>2. CASE Running /\ UsesFreed(c)
    BY <1>1, <1>2, UsesFreedKeeps
  <1>3. CASE /\ Running /\ fate' = "partner_assert"
             /\ UNCHANGED <<control, clients, channels, srv, work, history>>
    BY <1>3, EndsKeeps
  <1>4. CASE /\ c \in listed /\ local[c] # "none" /\ Read(c, n)
             /\ AddBuffer(c, SubSeq(wire[c], 1, n))
             /\ UNCHANGED <<fate, listed, ctl, local, data_tail, history>>
    <2> DEFINE b == SubSeq(wire[c], 1, n)
               D == Delivered(c)
               early == history.early[c]
    <2>1. /\ Running /\ wire' \in [Clients -> Seq(Int)] /\ \A d \in Clients : d # c => wire'[d] = wire[d]
          /\ WireIs(wire'[c], work[c]) /\ work' = work /\ made' = made
          /\ n \in Nat /\ n \in 1..Len(wire[c]) /\ n <= Unread(wire[c], work[c])
          /\ Unread(wire'[c], work[c]) = Unread(wire[c], work[c]) - n
          /\ UNCHANGED <<control, toServer, toClient, srv, made>>
      BY <1>4, ReadFacts
    <2>2. /\ fate' = fate /\ listed' = listed /\ ctl' = ctl /\ local' = local
          /\ data_tail' = data_tail /\ history' = history
          /\ out' = [out EXCEPT ![c] = out[c] \o b]
      BY <1>4 DEF AddBuffer
    <2>3. /\ HistoryTypes' /\ Onward /\ history'.asks = history.asks /\ history'.since = history.since
          /\ history'.dropped = history.dropped /\ history'.stale = history.stale
          /\ history'.early = history.early
      BY <2>2, HistoryStays
    <2>4. TunnelOf(c) /\ out[c] \in Seq(Nat) /\ early \in Nat
      BY ClientFacts
    <2>5. D \in Nat /\ TunnelIs(out[c], early, local[c], data_tail[c], D)
      BY <1>1, <1>4, <2>4 DEF TunnelOf
    <2>6. b \in Seq(Nat) /\ Len(b) = n /\ \A k \in 1..n : b[k] = early + D + k
      BY <2>1, <2>5, NextBytes
    <2>7. Delivered(c)' = D + n
      <3>1. /\ Delivered(c)' = work[c].sent - early - (Unread(wire[c], work[c]) - n)
            /\ D = work[c].sent - early - Unread(wire[c], work[c])
        BY <2>1, <2>2 DEF Delivered
      <3>2. work[c].sent \in Nat /\ Unread(wire[c], work[c]) \in Nat
        BY ClientFacts, WireTypes
      <3>3. \A x, y, z, a \in Nat : x - y - (z - a) = (x - y - z) + a
        OBVIOUS
      <3> QED
        BY <2>1, <2>4, <3>1, <3>2, <3>3
    <2> HIDE DEF b, D
    <2>8. TunnelIs(out[c] \o b, early, local[c], data_tail[c], D + n) /\ out[c] \o b \in Seq(Nat)
      BY <2>1, <2>4, <2>5, <2>6, TunnelGrows, JoinFacts
    <2>9. out \in [Clients -> Seq(Nat)]
      BY DEF PInv, Types, ClientTypes
    <2>10. /\ out'[c] = out[c] \o b /\ out' \in [Clients -> Seq(Nat)]
           /\ \A d \in Clients : d # c => out'[d] = out[d]
      BY <2>2, <2>8, <2>9
    <2>11. ClientTypes'
      BY <2>1, <2>2, <2>10 DEF PInv, Types, ClientTypes
    <2>12. \A d \in Clients : d # c => Same(d)
      BY <2>1, <2>2, <2>3, <2>10 DEF Same
    <2>13. TunnelOf(c)'
      <3>1. Delivered(c)' \in Nat
        BY <2>1, <2>5, <2>7
      <3> QED
        BY <1>1, <1>4, <2>1, <2>2, <2>4, <2>7, <2>8, <2>10, <3>1 DEF TunnelOf
    <2>14. Calm' /\ CalmIs(ctl[c], local[c], work[c].use, c \in listed) =>
            fate' # "use_after_free" /\ CalmIs(ctl'[c], local'[c], work'[c].use, c \in listed')
      BY <2>1, <2>2 DEF Running
    <2>15. WireIs(wire'[c], work'[c])
      BY <2>1
    <2> QED
      BY <2>1, <2>3, <2>11, <2>12, <2>13, <2>14, <2>15, ClientStep
  <1> QED
    BY <1>2, <1>3, <1>4 DEF tcp_proxy_s2c_cb

LEMMA LocalConnectedKeeps ==
  ASSUME PInv, NEW c \in Clients, LocalConnected(c)
  PROVE  PInv'
  <1>1. /\ Running /\ local[c] = "connecting" /\ local' = [local EXCEPT ![c] = "open"]
        /\ data_tail' = [data_tail EXCEPT ![c] = <<>>]
        /\ ctl' = ctl /\ listed' = listed /\ fate' = fate /\ made' = made
        /\ wire' = wire /\ work' = work /\ history' = history
        /\ UNCHANGED <<control, toServer, toClient, srv, made>>
    BY DEF LocalConnected, channels
  <1>2. PICK b \in {data_tail[c], [k \in 1..Len(data_tail[c]) |-> 0]} : out' = [out EXCEPT ![c] = out[c] \o b]
    BY DEF LocalConnected, TailBytes
  <1>3. /\ HistoryTypes' /\ Onward /\ history'.asks = history.asks /\ history'.since = history.since
        /\ history'.dropped = history.dropped /\ history'.stale = history.stale
        /\ history'.early = history.early
    BY <1>1, HistoryStays
  <1>4. /\ WireIs(wire[c], work[c]) /\ TunnelOf(c) /\ data_tail[c] \in Seq(Nat) /\ out[c] \in Seq(Nat)
        /\ history.early[c] \in Nat
    BY ClientFacts
  <1>5. out[c] \o b \in Seq(Nat)
    <2>1. b \in Seq(Nat)
      <3> DEFINE m == Len(data_tail[c])
      <3>1. m \in Nat
        BY <1>4
      <3> HIDE DEF m
      <3>2. [k \in 1..m |-> 0] \in Seq(Nat)
        BY <3>1
      <3> QED
        BY <1>4, <3>2 DEF m
    <2> QED
      BY <1>4, <2>1, JoinFacts
  <1>6. /\ local \in [Clients -> {"none", "connecting", "open", "ended"}] /\ data_tail \in [Clients -> Seq(Nat)]
        /\ out \in [Clients -> Seq(Nat)]
    BY DEF PInv, Types, ClientTypes
  <1>7. /\ local'[c] = "open" /\ data_tail'[c] = <<>> /\ out'[c] = out[c] \o b
        /\ out' \in [Clients -> Seq(Nat)] /\ data_tail' \in [Clients -> Seq(Nat)]
        /\ \A d \in Clients : d # c => out'[d] = out[d] /\ local'[d] = local[d] /\ data_tail'[d] = data_tail[d]
    BY <1>1, <1>2, <1>5, <1>6, NothingYet
  <1>8. ClientTypes'
    BY <1>1, <1>6, <1>7 DEF PInv, Types, ClientTypes
  <1>9. \A d \in Clients : d # c => Same(d)
    BY <1>1, <1>3, <1>7 DEF Same
  <1>10. WireIs(wire'[c], work'[c])
    BY <1>1, <1>4
  <1>11. TunnelOf(c)'
    <2>1. Delivered(c)' = Delivered(c)
      BY <1>1 DEF Delivered
    <2>2. ctl[c] \notin {"none", "connecting", "waiting"}
      BY <1>1, <1>4 DEF TunnelOf
    <2>3. ASSUME c \in listed, ctl[c] = "tunnel"
          PROVE  Delivered(c) \in Nat /\ TunnelIs(out[c] \o b, history.early[c], "open", <<>>, Delivered(c))
      <3>1. Delivered(c) \in Nat /\ TunnelIs(out[c], history.early[c], "connecting", data_tail[c], Delivered(c))
        BY <1>1, <1>4, <2>3 DEF TunnelOf
      <3> QED
        BY <1>4, <3>1, TailWritten
    <2> QED
      BY <1>1, <1>4, <1>7, <2>1, <2>2, <2>3 DEF TunnelOf
  <1>12. Calm' /\ CalmIs(ctl[c], local[c], work[c].use, c \in listed) =>
          fate' # "use_after_free" /\ CalmIs(ctl'[c], local'[c], work'[c].use, c \in listed')
    BY <1>1, <1>7 DEF CalmIs, Running
  <1> QED
    BY <1>1, <1>3, <1>8, <1>9, <1>10, <1>11, <1>12, ClientStep

-----------------------------------------------------------------------------
(* frps and its users                                                        *)

LEMMA ServedFacts ==
  ASSUME PInv, Serves, UNCHANGED <<toServer, toClient, srv>>
  PROVE  /\ Running /\ fate' = fate /\ UNCHANGED <<control, toServer, toClient, srv, made>>
         /\ made' = made /\ listed' = listed /\ ctl' = ctl /\ local' = local
         /\ data_tail' = data_tail /\ out' = out /\ srv' = srv
  BY DEF Serves, clients

LEMMA SameGap == \A a, b, x, y, e \in Nat : x - a = y - b => a - e - x = b - e - y
  OBVIOUS

\* frps sends one more message w and its use of the connection of c becomes u.
LEMMA ServerStep ==
  ASSUME PInv, NEW c \in Clients, Serves, UNCHANGED <<toServer, toClient, srv>>,
         HistoryTypes', Onward, history'.asks = history.asks, history'.since = history.since,
         history'.dropped = history.dropped, history'.stale = history.stale,
         history'.early = history.early,
         NEW w \in Seq(Int), wire' = [wire EXCEPT ![c] = w],
         NEW u \in WorkTypes, work' = [work EXCEPT ![c] = u],
         WireIs(w, u), Unread(w, u) - u.sent = Unread(wire[c], work[c]) - work[c].sent \/ ctl[c] # "tunnel",
         u.use # "none" => ctl[c] \notin {"none", "connecting"},
         ctl[c] = "tunnel" => u.use \in {"user", "closed"},
         Calm' => u.use # "closed"
  PROVE  PInv'
  <1>1. /\ Running /\ fate' = fate /\ UNCHANGED <<control, toServer, toClient, srv, made>>
        /\ made' = made /\ listed' = listed /\ ctl' = ctl /\ local' = local
        /\ data_tail' = data_tail /\ out' = out
    BY ServedFacts
  <1>2. wire \in [Clients -> Seq(Int)] /\ work \in [Clients -> WorkTypes]
    BY DEF PInv, Types, ClientTypes, WorkTypes
  <1>3. /\ wire' \in [Clients -> Seq(Int)] /\ wire'[c] = w /\ \A d \in Clients : d # c => wire'[d] = wire[d]
        /\ work' \in [Clients -> WorkTypes] /\ work'[c] = u /\ \A d \in Clients : d # c => work'[d] = work[d]
    BY <1>2
  <1>4. ClientTypes'
    BY <1>1, <1>3 DEF PInv, Types, ClientTypes, WorkTypes
  <1>5. \A d \in Clients : d # c => Same(d)
    BY <1>1, <1>3 DEF Same
  <1>6. WireIs(wire'[c], work'[c])
    BY <1>3
  <1>7. TunnelOf(c)'
    <2>1. TunnelOf(c)
      BY ClientFacts
    <2>2. ctl[c] = "tunnel" => Delivered(c)' = Delivered(c)
      <3> SUFFICES ASSUME ctl[c] = "tunnel" PROVE Delivered(c)' = Delivered(c)
        OBVIOUS
      <3> DEFINE a == u.sent
                 b == work[c].sent
                 x == Unread(w, u)
                 y == Unread(wire[c], work[c])
                 e == history.early[c]
      <3>1. Delivered(c)' = a - e - x /\ Delivered(c) = b - e - y
        BY <1>3 DEF Delivered
      <3>2. a \in Nat /\ x \in Nat /\ b \in Nat /\ y \in Nat /\ e \in Nat
        BY ClientFacts, WireTypes
      <3>3. x - a = y - b
        OBVIOUS
      <3> HIDE DEF a, b, x, y, e
      <3>4. a - e - x = b - e - y
        BY <3>2, <3>3, SameGap
      <3> QED
        BY <3>1, <3>4
    <2> QED
      BY <1>1, <1>3, <2>1, <2>2 DEF TunnelOf
  <1>8. Calm' /\ CalmIs(ctl[c], local[c], work[c].use, c \in listed) =>
          fate' # "use_after_free" /\ CalmIs(ctl'[c], local'[c], work'[c].use, c \in listed')
    BY <1>1, <1>3 DEF CalmIs, Running
  <1> QED
    BY <1>1, <1>4, <1>5, <1>6, <1>7, <1>8, ClientStep

\* A connection on which nothing has been sent yet.
LEMMA IdleFacts ==
  ASSUME PInv, NEW c \in Clients, work[c].use \in {"NewWorkConn", "pool"}
  PROVE  /\ wire[c] = <<>> /\ work[c].sent = 0 /\ ctl[c] \notin {"none", "connecting", "tunnel"}
         /\ Append(wire[c], EOF) = <<EOF>> /\ Append(wire[c], StartWorkConn) = <<StartWorkConn>>
  <1>1. WireIs(wire[c], work[c]) /\ TunnelOf(c)
    BY ClientFacts
  <1>2. wire[c] = <<>> /\ work[c].sent = 0
    BY <1>1 DEF WireIs
  <1>3. ctl[c] \notin {"none", "connecting", "tunnel"}
    BY <1>1 DEF TunnelOf
  <1> QED
    BY <1>2, <1>3

LEMMA SrvNewWorkConnKeeps ==
  ASSUME PInv, NEW c \in Clients, SrvNewWorkConn(c)
  PROVE  PInv'
  <1>1. Serves /\ work[c].use = "NewWorkConn" /\ UNCHANGED <<toServer, toClient, srv>> /\ history' = history
    BY DEF SrvNewWorkConn
  <1>2. /\ HistoryTypes' /\ Onward /\ history'.asks = history.asks /\ history'.since = history.since
        /\ history'.dropped = history.dropped /\ history'.stale = history.stale
        /\ history'.early = history.early
    BY <1>1, HistoryStays
  <1>3. /\ wire[c] = <<>> /\ work[c].sent = 0 /\ ctl[c] \notin {"none", "connecting", "tunnel"}
        /\ Append(wire[c], EOF) = <<EOF>>
    BY <1>1, IdleFacts
  <1>4. work[c] \in WorkTypes /\ wire \in [Clients -> Seq(Int)] /\ work \in [Clients -> WorkTypes]
    BY ClientFacts DEF PInv, Types, ClientTypes, WorkTypes
  <1>5. CASE srv.logged
    <2> DEFINE u == [work[c] EXCEPT !.use = "pool"]
    <2>1. work' = [work EXCEPT ![c] = u] /\ wire' = wire
      BY <1>5 DEF SrvNewWorkConn
    <2>2. u \in WorkTypes /\ u.use = "pool" /\ u.sent = 0
      BY <1>3, <1>4 DEF WorkTypes, Uses
    <2> HIDE DEF u
    <2>3. wire' = [wire EXCEPT ![c] = <<>>] /\ <<>> \in Seq(Int)
      BY <1>3, <1>4, <2>1
    <2>4. WireIs(<<>>, u)
      BY <2>2 DEF WireIs, Unread
    <2> QED
      BY <1>1, <1>2, <1>3, <2>1, <2>2, <2>3, <2>4, ServerStep
  <1>6. CASE ~ srv.logged
    <2> DEFINE u == [work[c] EXCEPT !.use = "closed"]
               w == <<EOF>>
    <2>1. work' = [work EXCEPT ![c] = u] /\ wire' = [wire EXCEPT ![c] = w]
      BY <1>3, <1>6 DEF SrvNewWorkConn
    <2>2. u \in WorkTypes /\ u.use = "closed" /\ u.sent = 0
      BY <1>3, <1>4 DEF WorkTypes, Uses
    <2>3. w \in Seq(Int) /\ Len(w) = 1 /\ w[1] = EOF
      BY SingleFacts DEF EOF
    <2> HIDE DEF u, w
    <2>4. WireIs(w, u)
      BY <2>2, <2>3 DEF WireIs, Unread
    <2>5. ~ Calm'
      <3>1. made > 0
        BY <1>3, MadeFacts DEF PInv, Types, ClientTypes, Clients
      <3>2. Calm' => Calm
        BY <1>2, CalmBefore
      <3> QED
        BY <1>6, <3>1, <3>2 DEF PInv, CalmInv
    <2> QED
      BY <1>1, <1>2, <1>3, <2>1, <2>2, <2>3, <2>4, <2>5, ServerStep
  <1> QED
    BY <1>5, <1>6

LEMMA UserConnectsKeeps ==
  ASSUME PInv, NEW c \in Clients, UserConnects(c)
  PROVE  PInv'
  <1>1. Serves /\ work[c].use = "pool" /\ UNCHANGED <<toServer, toClient, srv>>
    BY DEF UserConnects
  <1>2. /\ HistoryTypes' /\ Onward /\ history'.asks = history.asks /\ history'.since = history.since
        /\ history'.dropped = history.dropped /\ history'.stale = history.stale
        /\ history'.early = history.early
    <2> DEFINE m == history.users - 1
    <2>1. history \in [faults : Nat, asks : Nat, users : Nat, since : Nat, dropped : Nat,
                       stale : BOOLEAN, early : [Clients -> Nat], left : SUBSET Clients]
      BY DEF PInv, Types, HistoryTypes
    <2>2. m \in Nat
      BY <2>1 DEF UserConnects
    <2>3. history' = [history EXCEPT !.users = m]
      BY DEF UserConnects
    <2> HIDE DEF m
    <2> QED
      BY <2>1, <2>2, <2>3 DEF HistoryTypes, Onward
  <1>3. /\ work[c].sent = 0 /\ ctl[c] \notin {"none", "connecting", "tunnel"}
        /\ Append(wire[c], StartWorkConn) = <<StartWorkConn>>
    BY <1>1, IdleFacts
  <1>4. work[c] \in WorkTypes
    BY ClientFacts
  <1> DEFINE u == [work[c] EXCEPT !.use = "user"]
             w == <<StartWorkConn>>
  <1>5. work' = [work EXCEPT ![c] = u] /\ wire' = [wire EXCEPT ![c] = w]
    BY <1>3 DEF UserConnects
  <1>6. u \in WorkTypes /\ u.use = "user" /\ u.sent = 0
    BY <1>3, <1>4 DEF WorkTypes, Uses
  <1>7. w \in Seq(Int) /\ Len(w) = 1 /\ w[1] = StartWorkConn
    BY SingleFacts DEF StartWorkConn
  <1> HIDE DEF u, w
  <1>8. WireIs(w, u)
    BY <1>6, <1>7 DEF WireIs, Unread
  <1> QED
    BY <1>1, <1>2, <1>3, <1>5, <1>6, <1>7, <1>8, ServerStep

LEMMA UserSendsKeeps ==
  ASSUME PInv, NEW c \in Clients, UserSends(c)
  PROVE  PInv'
  <1>1. Serves /\ work[c].use = "user" /\ UNCHANGED <<toServer, toClient, srv>> /\ history' = history
    BY DEF UserSends
  <1>2. /\ HistoryTypes' /\ Onward /\ history'.asks = history.asks /\ history'.since = history.since
        /\ history'.dropped = history.dropped /\ history'.stale = history.stale
        /\ history'.early = history.early
    BY <1>1, HistoryStays
  <1> DEFINE U == Unread(wire[c], work[c])
             m == work[c].sent + 1
             u == [work[c] EXCEPT !.sent = m]
             w == Append(wire[c], m)
  <1>3. /\ work[c] \in WorkTypes /\ wire[c] \in Seq(Int) /\ WireIs(wire[c], work[c]) /\ TunnelOf(c)
        /\ work[c].sent \in Nat /\ U \in Nat /\ U <= m /\ U = Len(wire[c])
    BY <1>1, ClientFacts, WireTypes
  <1>4. work' = [work EXCEPT ![c] = u] /\ wire' = [wire EXCEPT ![c] = w]
    BY DEF UserSends
  <1>5. m \in Nat /\ m \in Int
    BY <1>3
  <1>6. w \in Seq(Int) /\ Len(w) = U + 1 /\ w[U + 1] = m /\ \A k \in 1..U : w[k] = wire[c][k]
    BY <1>3, <1>5, AppendFacts
  <1>7. u \in WorkTypes /\ u.use = "user" /\ u.sent = m
    <2> HIDE DEF m
    <2> QED
      BY <1>1, <1>3, <1>5 DEF WorkTypes
  <1>8. \A k \in 1..U : wire[c][k] = IF U = work[c].sent + k THEN StartWorkConn ELSE work[c].sent - U + k
    BY <1>3 DEF WireIs
  <1>9. work[c].sent = m - 1
    BY <1>3
  <1>10. ctl[c] \notin {"none", "connecting"}
    BY <1>1, <1>3 DEF TunnelOf
  <1> HIDE DEF u, w, U, m
  <1>11. Unread(w, u) = U + 1
    BY <1>6, <1>7 DEF Unread
  <1>12. ASSUME NEW k \in 1..(U + 1) PROVE w[k] = IF U + 1 = m + k THEN StartWorkConn ELSE m - (U + 1) + k
    <2>1. CASE k = U + 1
      <3>1. U + 1 # m + k /\ m - (U + 1) + k = m
        BY <1>3, <1>5, <1>9, <2>1
      <3> QED
        BY <1>6, <2>1, <3>1
    <2>2. CASE k # U + 1
      <3>1. k \in 1..U /\ k \in Nat
        BY <1>3, <2>2
      <3>2. \A x, y, z \in Nat : ((x = y - 1 + z) <=> (x + 1 = y + z)) /\ y - 1 - x + z = y - (x + 1) + z
        OBVIOUS
      <3>3. ((U = m - 1 + k) <=> (U + 1 = m + k)) /\ m - 1 - U + k = m - (U + 1) + k
        BY <1>3, <1>5, <3>1, <3>2
      <3>4. wire[c][k] = IF U = m - 1 + k THEN StartWorkConn ELSE m - 1 - U + k
        BY <1>8, <1>9, <3>1
      <3> QED
        BY <1>6, <3>1, <3>3, <3>4
    <2> QED
      BY <2>1, <2>2
  <1>13. WireIs(w, u)
    <2>1. U + 1 \in 0..(m + 1)
      BY <1>3, <1>5
    <2> QED
      BY <1>7, <1>11, <1>12, <2>1 DEF WireIs
  <1>14. Unread(w, u) - u.sent = U - work[c].sent
    BY <1>3, <1>5, <1>7, <1>9, <1>11
  <1> QED
    BY <1>1, <1>2, <1>4, <1>6, <1>7, <1>10, <1>13, <1>14, ServerStep DEF U

LEMMA UserLeavesKeeps ==
  ASSUME PInv, NEW c \in Clients, UserLeaves(c)
  PROVE  PInv'
  <1>1. /\ Serves /\ work[c].use = "user" /\ UNCHANGED <<toServer, toClient, srv>>
        /\ history' = [history EXCEPT !.left = @ \cup {c}]
    BY DEF UserLeaves
  <1>2. /\ HistoryTypes' /\ Onward /\ history'.asks = history.asks /\ history'.since = history.since
        /\ history'.dropped = history.dropped /\ history'.stale = history.stale
        /\ history'.early = history.early /\ history'.left = history.left \cup {c}
    <2>1. history \in [faults : Nat, asks : Nat, users : Nat, since : Nat, dropped : Nat,
                       stale : BOOLEAN, early : [Clients -> Nat], left : SUBSET Clients]
      BY DEF PInv, Types, HistoryTypes
    <2> QED
      BY <1>1, <2>1 DEF HistoryTypes, Onward
  <1> DEFINE U == Unread(wire[c], work[c])
             u == [work[c] EXCEPT !.use = "closed"]
             w == Append(wire[c], EOF)
  <1>3. /\ work[c] \in WorkTypes /\ wire[c] \in Seq(Int) /\ WireIs(wire[c], work[c]) /\ TunnelOf(c)
        /\ work[c].sent \in Nat /\ U \in Nat /\ U <= work[c].sent + 1 /\ U = Len(wire[c])
    BY <1>1, ClientFacts, WireTypes
  <1>4. work' = [work EXCEPT ![c] = u] /\ wire' = [wire EXCEPT ![c] = w]
    BY DEF UserLeaves
  <1>5. w \in Seq(Int) /\ Len(w) = U + 1 /\ w[U + 1] = EOF /\ \A k \in 1..U : w[k] = wire[c][k]
    <2>1. EOF \in Int
      BY DEF EOF
    <2> QED
      BY <1>3, <2>1, AppendFacts
  <1>6. u \in WorkTypes /\ u.use = "closed" /\ u.sent = work[c].sent
    BY <1>1, <1>3 DEF WorkTypes, Uses
  <1>7. \A k \in 1..U : wire[c][k] = IF U = work[c].sent + k THEN StartWorkConn ELSE work[c].sent - U + k
    BY <1>3 DEF WireIs
  <1>8. ctl[c] \notin {"none", "connecting"}
    BY <1>1, <1>3 DEF TunnelOf
  <1> HIDE DEF u, w, U
  <1>9. Unread(w, u) = U
    BY <1>3, <1>5, <1>6 DEF Unread
  <1>10. WireIs(w, u)
    <2>1. U \in 0..(u.sent + 1)
      BY <1>3, <1>6
    <2>2. \A k \in 1..U : w[k] = IF U = u.sent + k THEN StartWorkConn ELSE u.sent - U + k
      BY <1>5, <1>6, <1>7
    <2> QED
      BY <1>5, <1>6, <1>9, <2>1, <2>2 DEF WireIs
  <1>11. Unread(w, u) - u.sent = U - work[c].sent
    BY <1>6, <1>9
  <1>12. ~ Calm'
    BY <1>2 DEF Calm
  <1> QED
    BY <1>1, <1>2, <1>4, <1>5, <1>6, <1>8, <1>10, <1>11, <1>12, ServerStep DEF U

-----------------------------------------------------------------------------
(* Every step, and the theorems                                              *)

LEMMA RecvControlKeeps ==
  ASSUME PInv, RecvControl
  PROVE  PInv'
  <1>1. CASE LoginAlone
    BY <1>1, LoginAloneKeeps
  <1>2. CASE LoginWithIV
    BY <1>2, LoginWithIVKeeps
  <1>3. CASE RecvIV
    BY <1>3, RecvIVKeeps
  <1>4. ASSUME NEW n \in 1..Len(toClient), LoginWithCommand(n) PROVE PInv'
    BY <1>4, LoginWithCommandKeeps
  <1>5. ASSUME NEW n \in 1..Len(toClient), RecvCommand(n) PROVE PInv'
    BY <1>5, RecvCommandKeeps
  <1> QED
    BY <1>1, <1>2, <1>3, <1>4, <1>5 DEF RecvControl

LEMMA WorkEventKeeps ==
  ASSUME PInv, NEW c \in Clients, WorkEvent(c)
  PROVE  PInv'
  <1>1. CASE WorkConnected(c)
    BY <1>1, WorkConnectedKeeps
  <1>2. CASE WorkFails(c)
    BY <1>2, WorkFailsKeeps
  <1>3. CASE WorkEnds(c)
    BY <1>3, WorkEndsKeeps
  <1>4. ASSUME NEW n \in 1..Len(wire[c]), RecvBeforeLogin(c, n) \/ RecvUnknown(c, n) PROVE PInv'
    BY <1>4, RecvDropsKeeps
  <1>5. ASSUME NEW n \in 1..Len(wire[c]), RecvStart(c, n) PROVE PInv'
    BY <1>5, RecvStartKeeps
  <1>6. ASSUME NEW n \in 1..Len(wire[c]), tcp_proxy_s2c_cb(c, n) PROVE PInv'
    BY <1>6, s2cKeeps
  <1> QED
    BY <1>1, <1>2, <1>3, <1>4, <1>5, <1>6 DEF WorkEvent

LEMMA ClientKeeps ==
  ASSUME PInv, NEW c \in Clients, WorkEvent(c) \/ Local(c) \/ SrvNewWorkConn(c) \/ User(c)
  PROVE  PInv'
  <1>1. CASE WorkEvent(c)
    BY <1>1, WorkEventKeeps
  <1>2. CASE Local(c)
    <2>1. CASE LocalConnected(c)
      BY <2>1, LocalConnectedKeeps
    <2>2. CASE LocalData(c)
      BY <2>2, LocalDataKeeps
    <2>3. CASE LocalEnds(c)
      BY <2>3, LocalEndsKeeps
    <2> QED
      BY <1>2, <2>1, <2>2, <2>3 DEF Local
  <1>3. CASE SrvNewWorkConn(c)
    BY <1>3, SrvNewWorkConnKeeps
  <1>4. CASE User(c)
    <2>1. CASE UserConnects(c)
      BY <2>1, UserConnectsKeeps
    <2>2. CASE UserSends(c)
      BY <2>2, UserSendsKeeps
    <2>3. CASE UserLeaves(c)
      BY <2>3, UserLeavesKeeps
    <2> QED
      BY <1>4, <2>1, <2>2, <2>3 DEF User
  <1> QED
    BY <1>1, <1>2, <1>3, <1>4

LEMMA StutterKeeps ==
  ASSUME PInv, UNCHANGED vars
  PROVE  PInv'
  <1>1. /\ UNCHANGED <<control, toServer, toClient, srv, made>> /\ UNCHANGED <<clients, wire, work>>
        /\ fate' = fate /\ history' = history /\ srv' = srv
    BY DEF vars, channels, clients
  <1>2. /\ HistoryTypes' /\ Onward /\ history'.asks = history.asks /\ history'.since = history.since
        /\ history'.dropped = history.dropped /\ history'.stale = history.stale
        /\ history'.early = history.early /\ history'.faults <= history.faults
    BY <1>1, HistoryStays DEF Onward
  <1>3. Running' => Running
    BY <1>1 DEF Running
  <1>4. Calm' => fate' # "use_after_free" /\ (made > 0 => srv'.logged)
    BY <1>1 DEF PInv, CalmInv, Calm
  <1>5. ControlTypes' /\ BoundInv' /\ LoginInv' /\ AnnounceInv' /\ CountInv'
    BY <1>1, <1>2, <1>3, ControlStays
  <1>6. ClientTypes' /\ CalmInv' /\ WireInv' /\ TunnelInv'
    BY <1>1, <1>2, <1>4, ClientsStay
  <1> QED
    BY <1>2, <1>5, <1>6 DEF PInv, Types

LEMMA NextKeeps == PInv /\ [Next]_vars => PInv'
  <1> SUFFICES ASSUME PInv, [Next]_vars PROVE PInv'
    OBVIOUS
  <1>1. CASE Connected
    BY <1>1, ConnectedKeeps
  <1>2. CASE ControlLost
    BY <1>2, ControlLostKeeps
  <1>3. CASE RecvControl
    BY <1>3, RecvControlKeeps
  <1>4. CASE Server
    BY <1>4, SrvLoginKeeps, SrvNewProxyKeeps DEF Server
  <1>5. CASE SrvAsks
    BY <1>5, SrvAsksKeeps
  <1>6. ASSUME NEW c \in Clients, WorkEvent(c) \/ Local(c) \/ SrvNewWorkConn(c) \/ User(c) PROVE PInv'
    BY <1>6, ClientKeeps
  <1>7. CASE UNCHANGED vars
    BY <1>7, StutterKeeps
  <1> QED
    BY <1>1, <1>2, <1>3, <1>4, <1>5, <1>6, <1>7 DEF Next

\* The invariant the other theorems rest on holds in every reachable state: what
\* is under way on the control connection, what of each client's connection is
\* unread, and what has been written to each local service fit together.
THEOREM PlainInvariance == Spec => []PInv
  BY InitHolds, NextKeeps, PTL DEF Spec

\* In whatever reads the answers of frps come, and however often the control
\* connection is lost: handle_login_response and handle_control_work announce
\* every service once before the first client of the connection, and every
\* ReqWorkConn that was not behind another message of its read has made a client.
THEOREM RequestsAlwaysServed == Spec => []RequestsServed
  <1>1. PInv => RequestsServed
    <2> SUFFICES ASSUME PInv, Running PROVE RequestsServed
      BY DEF RequestsServed
    <2>1. /\ NewProxies \in {0, NumServices}
          /\ (client_connected /\ ~ history.stale) => is_login /\ NewProxies = NumServices
          /\ made >= history.since => is_login /\ client_connected
      BY DEF PInv, AnnounceInv
    <2>2. ASSUME toClient = <<>>, history.dropped = 0 PROVE made + 1 - history.since = srv.reqs
      <3>1. Asked = 0
        BY <2>2, EmptyCount DEF Asked
      <3>2. made + 1 - history.since + Asked = srv.reqs
        BY <2>2 DEF PInv, CountInv
      <3>3. made \in Nat /\ history.since \in Nat
        BY DEF PInv, Types, ClientTypes, HistoryTypes
      <3> QED
        BY <3>1, <3>2, <3>3
    <2> QED
      BY <2>1, <2>2 DEF RequestsServed
  <1> QED
    BY <1>1, PlainInvariance, PTL

\* free_proxy_client frees a client and leaves the callbacks of its connection
\* in place; even so none of them, and none of the local service's, meets freed
\* memory until the network or frps has failed once or a user has left a tunnel.
THEOREM ClientAlwaysOutlivesUse == Spec => []ClientOutlivesUse
  <1>1. PInv => ClientOutlivesUse
    <2>1. ASSUME PInv, fate = "use_after_free" PROVE history.faults < MaxFaults \/ history.left # {}
      <3>1. ~ Calm /\ history.faults <= MaxFaults
        BY <2>1 DEF PInv, CalmInv
      <3>2. history.faults \in Nat /\ MaxFaults \in Nat
        BY <2>1, PlainAssumption DEF PInv, Types, HistoryTypes
      <3> QED
        BY <3>1, <3>2 DEF Calm
    <2> QED
      BY <2>1 DEF ClientOutlivesUse
  <1> QED
    BY <1>1, PlainInvariance, PTL

\* For any number of clients and bytes, and reads of any length: tcp_proxy_s2c_cb
\* and send_client_data_tail write what the user sent behind the first read to
\* the local service in order, once and without a gap, the tail, good or not, in
\* one piece between them.
THEOREM TunnelAlwaysIntact == Spec => []TunnelIntact
  <1>1. PInv => TunnelIntact
    <2> SUFFICES ASSUME PInv, NEW c \in listed, ctl[c] = "tunnel"
                 PROVE  \E e \in {0, history.early[c]} : \E i \in 0..(Len(out[c]) - e) :
                          LET early == history.early[c]
                              n == Len(out[c]) - e
                              unread == work[c].sent - early - n
                          IN /\ \A k \in 1..n : out[c][IF k <= i THEN k ELSE k + e] = early + k
                             /\ \A k \in 1..e : out[c][i + k] \in 0..early
                             /\ unread \in 0..Len(wire[c])
                             /\ \A k \in 1..Len(wire[c]) :
                                  wire[c][k] = IF k <= unread THEN early + n + k ELSE EOF
      BY DEF TunnelIntact
    <2> DEFINE early == history.early[c]
               D == Delivered(c)
               U == Unread(wire[c], work[c])
               sent == work[c].sent
               w == wire[c]
               o == out[c]
    <2>1. c \in Clients
      BY MadeFacts DEF PInv
    <2>2. /\ w \in Seq(Int) /\ work[c] \in WorkTypes /\ WireIs(w, work[c]) /\ TunnelOf(c)
          /\ o \in Seq(Nat) /\ early \in Nat
      BY <2>1, ClientFacts
    <2>3. /\ Len(w) \in Nat /\ sent \in Nat /\ U \in Nat
          /\ work[c].use # "closed" => U = Len(w)
          /\ work[c].use = "closed" => Len(w) = U + 1 /\ w[U + 1] = EOF
      BY <2>2, WireTypes
    <2>4. \A k \in 1..U : w[k] = IF U = sent + k THEN StartWorkConn ELSE sent - U + k
      BY <2>2 DEF WireIs
    <2>5. D = sent - early - U /\ D \in Nat /\ TunnelIs(o, early, local[c], data_tail[c], D)
      BY <2>2 DEF TunnelOf, Delivered
    <2> HIDE DEF early, D, U, sent, w, o
    <2>6. PICK e \in {0, early} : \E i \in 0..D : OutIs(o, early, e, i, D)
      BY <2>5 DEF TunnelIs
    <2>7. PICK i \in 0..D : OutIs(o, early, e, i, D)
      BY <2>6
    <2>8. /\ Len(o) = D + e /\ \A k \in 1..D : o[IF k <= i THEN k ELSE k + e] = early + k
          /\ \A k \in 1..e : o[i + k] \in 0..early
      BY <2>7 DEF OutIs
    <2>9. e \in Nat /\ Len(o) - e = D /\ sent - early - D = U
      BY <2>2, <2>3, <2>5, <2>6, <2>8
    <2>10. U \in 0..Len(w)
      BY <2>3
    <2>11. ASSUME NEW k \in 1..Len(w) PROVE w[k] = IF k <= U THEN early + D + k ELSE EOF
      <3>1. CASE k <= U
        <4>a. k \in Nat /\ k >= 1 /\ U \in Nat /\ sent \in Nat /\ early \in Nat /\ D \in Nat
          BY <2>2, <2>3, <2>5
        <4>b. D = sent - early - U
          BY <2>5
        <4>c. k \in 1..U
          BY <3>1, <4>a
        <4>d. U = sent - early - D
          BY <4>a, <4>b
        <4>1. U # sent + k /\ sent - U + k = early + D + k
          BY <4>a, <4>d
        <4> QED
          BY <2>4, <3>1, <4>c, <4>1
      <3>2. CASE ~ k <= U
        <4>1. work[c].use = "closed" /\ k = U + 1
          BY <2>3, <3>2
        <4> QED
          BY <2>3, <3>2, <4>1
      <3> QED
        BY <3>1, <3>2
    <2>12. i \in 0..(Len(o) - e)
      BY <2>9
    <2>13. /\ \A k \in 1..(Len(o) - e) : o[IF k <= i THEN k ELSE k + e] = early + k
           /\ \A k \in 1..e : o[i + k] \in 0..early
           /\ sent - early - (Len(o) - e) \in 0..Len(w)
           /\ \A k \in 1..Len(w) :
                w[k] = IF k <= sent - early - (Len(o) - e) THEN early + (Len(o) - e) + k ELSE EOF
      BY <2>8, <2>9, <2>10, <2>11
    <2> QED
      BY <2>6, <2>12, <2>13 DEF early, sent, w, o
  <1> QED
    BY <1>1, PlainInvariance, PTL

=============================================================================
