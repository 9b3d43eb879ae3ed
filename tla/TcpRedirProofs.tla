--------------------------- MODULE TcpRedirProofs ---------------------------
(* For any set of users and any number of bytes: what TcpRedir says of the   *)
(* pairing of connections, of the order of bytes and of a user alone.        *)
EXTENDS TcpRedir, Integers, TLAPS

Bytes == [user : Users, pos : Nat]

TypeOK ==
  /\ xfrps \in {"connecting", "open", "freed"} /\ partner \in Users \cup {NoUser}
  /\ bev_in \in [Users -> {"none", "open", "freed"}]
  /\ input \in [Users -> Seq(Bytes)] /\ output \in [Users -> Seq(Bytes)]
  /\ xinput \in Seq(Bytes) /\ xoutput \in Seq(Bytes)
  /\ server \in Seq(Bytes) /\ echoed \in Nat /\ echoed <= Len(server)
  /\ got \in [Users -> Seq(Bytes)] /\ sent \in [Users -> Nat]
  /\ ended \in SUBSET (Users \cup {NoUser})
  /\ pc \in {"run", "use after free"}

\* A user who has not connected has nothing; bev_xfrps is paired with a user
\* who has.
Unaccepted ==
  /\ \A u \in Users : bev_in[u] = "none" =>
       /\ input[u] = <<>> /\ output[u] = <<>> /\ got[u] = <<>> /\ sent[u] = 0 /\ partner # u
  /\ partner = NoUser => /\ xfrps # "freed" /\ xinput = <<>> /\ pc = "run"
                         /\ echoed = 0 /\ server = <<>> /\ xoutput = <<>>
                         /\ Accepted = {}

\* A user alone is paired with bev_xfrps, and lives as long.
SolePair ==
  \A u \in Users : Accepted = {u} => partner = u /\ (bev_in[u] = "open" => xfrps # "freed")

RInv == TypeOK /\ PartnerLives /\ UpstreamInOrder /\ Unaccepted /\ SolePair /\ SoleUserExact

-----------------------------------------------------------------------------
(* Sequences                                                                 *)

\* A byte moves from the front of one buffer to the end of another.
LEMMA MoveOne ==
  ASSUME NEW S, NEW s \in Seq(S), NEW t \in Seq(S), t # <<>>
  PROVE  /\ Append(s, Head(t)) \in Seq(S) /\ Tail(t) \in Seq(S)
         /\ Append(s, Head(t)) \o Tail(t) = s \o t
  <1>1. /\ Append(s, Head(t)) \in Seq(S) /\ Tail(t) \in Seq(S) /\ Head(t) \in S /\ Head(t) = t[1]
        /\ Len(Append(s, Head(t))) = Len(s) + 1 /\ Len(Tail(t)) = Len(t) - 1
        /\ Len(t) \in Nat /\ Len(t) > 0 /\ Len(s) \in Nat
    OBVIOUS
  <1> DEFINE a == Append(s, Head(t))
             b == Tail(t)
  <1>2. /\ \A k \in 1..Len(s) : a[k] = s[k]
        /\ a[Len(s) + 1] = t[1]
        /\ \A k \in 1..(Len(t) - 1) : b[k] = t[k + 1]
    BY <1>1
  <1> HIDE DEF a, b
  <1>3. Len(a \o b) = Len(s \o t) /\ Len(s \o t) = Len(s) + Len(t)
    BY <1>1 DEF a, b
  <1>4. ASSUME NEW k \in 1..(Len(s) + Len(t)) PROVE (a \o b)[k] = (s \o t)[k]
    <2>0. a \in Seq(S) /\ b \in Seq(S) /\ Len(a) = Len(s) + 1 /\ Len(b) = Len(t) - 1
      BY <1>1 DEF a, b
    <2>1. CASE k \in 1..Len(s)
      BY <1>1, <1>2, <2>0, <2>1
    <2>2. CASE k = Len(s) + 1
      BY <1>1, <1>2, <2>0, <2>2
    <2>3. CASE k > Len(s) + 1
      <3>1. /\ (s \o t)[k] = t[k - Len(s)] /\ (a \o b)[k] = b[k - Len(s) - 1]
        BY <1>1, <2>0, <2>3
      <3>2. k - Len(s) - 1 \in 1..(Len(t) - 1) /\ (k - Len(s) - 1) + 1 = k - Len(s)
        BY <1>1, <2>3
      <3> QED
        BY <1>2, <3>1, <3>2
    <2>4. k \in 1..Len(s) \/ k = Len(s) + 1 \/ k > Len(s) + 1
      BY <1>1
    <2> QED
      BY <2>1, <2>2, <2>3, <2>4
  <1>5. a \o b \in Seq(S) /\ s \o t \in Seq(S)
    BY <1>1 DEF a, b
  <1>6. a \o b = s \o t
    BY <1>3, <1>4, <1>5
  <1> QED
    BY <1>1, <1>6 DEF a, b

\* What is behind is added in place.
LEMMA Assoc ==
  ASSUME NEW S, NEW s \in Seq(S), NEW t \in Seq(S), NEW r \in Seq(S)
  PROVE  /\ s \o t \in Seq(S) /\ (s \o t) \o r = s \o (t \o r)
         /\ (s \o t) \o <<>> = s \o t /\ t \o r \in Seq(S)
  OBVIOUS

\* The first n elements, when one is added behind.
LEMMA PrefixFacts ==
  ASSUME NEW S, NEW s \in Seq(S), NEW n \in Nat, n <= Len(s), NEW x \in S
  PROVE  /\ SubSeq(Append(s, x), 1, n) = SubSeq(s, 1, n)
         /\ SubSeq(s, 1, n) \in Seq(S)
         /\ n < Len(s) => SubSeq(s, 1, n + 1) = Append(SubSeq(s, 1, n), s[n + 1])
  OBVIOUS

-----------------------------------------------------------------------------
(* Steps                                                                     *)

\* Nothing upstream changes when no buffer does.
LEMMA UpstreamKept ==
  ASSUME UpstreamInOrder, UNCHANGED <<input, sent>>, Upstream' = Upstream
  PROVE  UpstreamInOrder'
  BY DEF UpstreamInOrder, Moved

\* The worker starts with nothing.
LEMMA InitRInv == Init => RInv
  <1> SUFFICES ASSUME Init PROVE RInv
    OBVIOUS
  <1>1. /\ \A u \in Users : /\ input[u] = <<>> /\ output[u] = <<>> /\ got[u] = <<>>
                            /\ sent[u] = 0 /\ bev_in[u] = "none"
        /\ server \o xoutput = <<>> /\ Len(<<>>) = 0 /\ Accepted = {}
    BY DEF Init, Accepted
  <1>2. TypeOK
    BY DEF Init, TypeOK
  <1>3. UpstreamInOrder
    <2>1. /\ Len(Upstream) = 0
          /\ \A u \in Users : Len(input[u]) = 0 /\ sent[u] = 0 /\ sent[u] - Len(input[u]) = 0
      BY <1>1 DEF Upstream
    <2> SUFFICES ASSUME NEW u \in Users
                 PROVE  /\ Len(input[u]) <= sent[u]
                        /\ \A k \in 1..Len(input[u]) : input[u][k] = [user |-> u, pos |-> Moved(u) + k]
                        /\ \A k \in 1..Moved(u) :
                             \E i \in 1..Len(Upstream) : Upstream[i] = [user |-> u, pos |-> k]
                        /\ \A i \in 1..Len(Upstream) : Upstream[i].user = u =>
                             /\ Upstream[i].pos \in 1..Moved(u)
                             /\ \A j \in 1..Len(Upstream) :
                                  i < j /\ Upstream[j].user = u => Upstream[i].pos < Upstream[j].pos
      BY DEF UpstreamInOrder
    <2>2. Len(input[u]) = 0 /\ sent[u] = 0 /\ sent[u] - Len(input[u]) = 0 /\ Len(Upstream) = 0
      BY <2>1
    <2> QED
      BY <2>2 DEF Moved
  <1>4. PartnerLives /\ Unaccepted /\ SolePair /\ SoleUserExact
    <2>1. PartnerLives
      BY DEF Init, PartnerLives
    <2>2. Unaccepted
      BY <1>1, RedirAssumption DEF Init, Unaccepted
    <2>3. SolePair /\ SoleUserExact
      BY <1>1 DEF SolePair, SoleUserExact
    <2> QED
      BY <2>1, <2>2, <2>3
  <1> QED
    BY <1>2, <1>3, <1>4 DEF RInv

\* accept_cb: the new user is the partner; unless it is the first, nobody is
\* alone any more.
LEMMA AcceptKeeps ==
  ASSUME RInv, NEW u \in Users, accept_cb(u)
  PROVE  RInv'
  <1>1. /\ TypeOK /\ PartnerLives /\ UpstreamInOrder /\ Unaccepted /\ SolePair /\ SoleUserExact
    BY DEF RInv
  <1>2. /\ pc = "run" /\ bev_in[u] = "none" /\ bev_in' = [bev_in EXCEPT ![u] = "open"] /\ partner' = u
        /\ UNCHANGED <<xfrps, xinput, xoutput, input, output, server, echoed, got, sent, ended>>
        /\ pc' = IF xfrps = "freed" THEN "use after free" ELSE pc
    BY DEF accept_cb, AfterUse, ends
  <1>3. bev_in'[u] = "open" /\ \A v \in Users : v # u => bev_in'[v] = bev_in[v]
    BY <1>1, <1>2 DEF TypeOK
  <1>4. TypeOK'
    BY <1>1, <1>2 DEF TypeOK
  <1>5. PartnerLives'
    BY <1>2, <1>3 DEF PartnerLives
  <1>6. UpstreamInOrder'
    BY <1>1, <1>2, UpstreamKept DEF Upstream
  <1>7. Accepted' = Accepted \cup {u} /\ u \notin Accepted
    BY <1>2, <1>3 DEF Accepted
  <1>8. Unaccepted'
    BY <1>1, <1>2, <1>3, RedirAssumption DEF Unaccepted
  <1>9. ASSUME NEW v \in Users, Accepted' = {v}
        PROVE  /\ v = u /\ Accepted = {} /\ partner = NoUser /\ xfrps # "freed" /\ pc' = "run"
               /\ got[u] = <<>> /\ output[u] = <<>> /\ xinput = <<>> /\ SubSeq(server, 1, echoed) = <<>>
    <2>1. v = u /\ Accepted = {}
      BY <1>7, <1>9
    <2>2. partner = NoUser
      BY <1>1, <2>1 DEF TypeOK, Unaccepted, Accepted
    <2>3. server = <<>> /\ echoed = 0 /\ xfrps # "freed" /\ xinput = <<>> /\ got[u] = <<>> /\ output[u] = <<>>
      BY <1>1, <1>2, <2>2 DEF Unaccepted
    <2>4. SubSeq(server, 1, echoed) = <<>>
      BY <2>3
    <2> QED
      BY <1>2, <2>1, <2>2, <2>3, <2>4
  <1>10. SolePair'
    BY <1>2, <1>9 DEF SolePair
  <1>11. SoleUserExact'
    <2> SUFFICES ASSUME NEW v \in Users, Accepted' = {v}
                 PROVE  pc' = "run" /\ got'[v] \o output'[v] \o xinput' = SubSeq(server', 1, echoed')
      BY DEF SoleUserExact
    <2>1. got[v] = <<>> /\ output[v] = <<>> /\ xinput = <<>> /\ SubSeq(server, 1, echoed) = <<>> /\ pc' = "run"
      BY <1>9
    <2>2. <<>> \o <<>> \o <<>> = <<>>
      OBVIOUS
    <2> QED
      BY <1>2, <2>1, <2>2
  <1> QED
    BY <1>4, <1>5, <1>6, <1>8, <1>10, <1>11 DEF RInv

\* read_cb of a user.
LEMMA ReadUserKeeps ==
  ASSUME RInv, NEW u \in Users, ReadUser(u)
  PROVE  RInv'
  <1>1. /\ TypeOK /\ PartnerLives /\ UpstreamInOrder /\ Unaccepted /\ SolePair /\ SoleUserExact
    BY DEF RInv
  <1>2. /\ pc = "run" /\ bev_in[u] = "open" /\ input[u] # <<>>
        /\ xoutput' = xoutput \o input[u] /\ input' = [input EXCEPT ![u] = <<>>]
        /\ UNCHANGED <<xfrps, partner, xinput, bev_in, output, server, echoed, got, sent, ended>>
        /\ pc' = IF xfrps = "freed" THEN "use after free" ELSE pc
    BY DEF ReadUser, AfterUse, ends, AddBuffer, EmptyInput
  <1>3. /\ input[u] \in Seq(Bytes) /\ xoutput \in Seq(Bytes) /\ server \in Seq(Bytes)
        /\ xoutput' \in Seq(Bytes)
    <2>1. input[u] \in Seq(Bytes) /\ xoutput \in Seq(Bytes) /\ server \in Seq(Bytes)
      BY <1>1 DEF TypeOK
    <2> QED
      BY <1>2, <2>1, Assoc
  <1>4. TypeOK'
    <2>1. input \in [Users -> Seq(Bytes)] /\ input' = [input EXCEPT ![u] = <<>>]
      BY <1>1, <1>2 DEF TypeOK
    <2>2. input' \in [Users -> Seq(Bytes)]
      BY <2>1
    <2> QED
      BY <1>1, <1>2, <1>3, <2>2 DEF TypeOK
  <1>5. PartnerLives'
    BY <1>1, <1>2 DEF PartnerLives
  <1>6. Accepted' = Accepted
    BY <1>2 DEF Accepted
  <1>7. partner # NoUser
    BY <1>1, <1>2 DEF Unaccepted, Accepted
  <1>8. Unaccepted'
    BY <1>1, <1>2, <1>7 DEF Unaccepted, TypeOK
  <1>9. SolePair'
    BY <1>1, <1>2, <1>6 DEF SolePair
  <1>10. SoleUserExact'
    <2> SUFFICES ASSUME NEW v \in Users, Accepted' = {v}
                 PROVE  pc' = "run" /\ got'[v] \o output'[v] \o xinput' = SubSeq(server', 1, echoed')
      BY DEF SoleUserExact
    <2>1. v = u
      BY <1>2, <1>6 DEF Accepted
    <2> QED
      BY <1>1, <1>2, <1>6, <2>1 DEF SoleUserExact, SolePair
  <1>11. UpstreamInOrder'
    <2> DEFINE up == server \o xoutput
               up2 == server' \o xoutput'
               in == input[u]
               m == sent[u] - Len(input[u])
    <2>1. up \in Seq(Bytes) /\ up2 = up \o in
      <3>1. server' = server
        BY <1>2
      <3> HIDE DEF in
      <3>2. in \in Seq(Bytes) /\ xoutput' = xoutput \o in
        BY <1>2, <1>3 DEF in
      <3> QED
        BY <1>3, <3>1, <3>2, Assoc, SMTT(20)
    <2>2. /\ Len(up2) = Len(up) + Len(in) /\ Len(up) \in Nat /\ Len(in) \in Nat
          /\ \A k \in 1..Len(up) : up2[k] = up[k] /\ k \in 1..Len(up2)
          /\ \A k \in 1..Len(in) : up2[Len(up) + k] = in[k] /\ Len(up) + k \in 1..Len(up2)
          /\ \A k \in 1..Len(up2) : k \in 1..Len(up) \/
               (k > Len(up) /\ k - Len(up) \in 1..Len(in) /\ up2[k] = in[k - Len(up)])
      <3> HIDE DEF up, up2, in
      <3>1. in \in Seq(Bytes)
        BY <1>3 DEF in
      <3> QED
        BY <2>1, <3>1
    <2> HIDE DEF up, up2, in, m
    <2>3. /\ Len(in) <= sent[u] /\ sent[u] \in Nat /\ m = sent[u] - Len(in) 
          /\ \A k \in 1..Len(in) : in[k] = [user |-> u, pos |-> m + k]
      BY <1>1 DEF UpstreamInOrder, TypeOK, Moved, in, m
    <2>4. /\ (sent'[u] - Len(input'[u])) = sent[u] /\ Len(input'[u]) = 0
          /\ \A v \in Users : v # u => (sent'[v] - Len(input'[v])) = (sent[v] - Len(input[v])) /\ input'[v] = input[v]
      <3>1. input'[u] = <<>> /\ Len(<<>>) = 0 /\ \A v \in Users : v # u => input'[v] = input[v]
        BY <1>1, <1>2 DEF TypeOK
      <3>2. sent' = sent /\ sent[u] \in Nat
        BY <1>2, <2>3
      <3>3. sent'[u] - Len(input'[u]) = sent[u] /\ Len(input'[u]) = 0
        BY <3>1, <3>2
      <3> QED
        BY <3>1, <3>2, <3>3
    <2>5. ASSUME NEW v \in Users PROVE (sent[v] - Len(input[v])) \in Nat
      <3>1. Len(input[v]) <= sent[v]
        BY <1>1 DEF UpstreamInOrder
      <3>0. input[v] \in Seq(Bytes) /\ sent[v] \in Nat
        BY <1>1 DEF TypeOK
      <3>2. Len(input[v]) \in Nat /\ sent[v] \in Nat
        BY <3>0
      <3> QED
        BY <3>1, <3>2
    <2>6. \A k \in 1..Len(up2) : \/ k \in 1..Len(up) /\ up2[k] = up[k]
                                 \/ /\ k > Len(up) /\ k - Len(up) \in 1..Len(in)
                                    /\ up2[k].user = u /\ up2[k].pos = m + (k - Len(up))
                                    /\ up2[k] = [user |-> u, pos |-> m + (k - Len(up))]
      <3> SUFFICES ASSUME NEW k \in 1..Len(up2)
                   PROVE  \/ k \in 1..Len(up) /\ up2[k] = up[k]
                          \/ /\ k > Len(up) /\ k - Len(up) \in 1..Len(in)
                             /\ up2[k].user = u /\ up2[k].pos = m + (k - Len(up))
                             /\ up2[k] = [user |-> u, pos |-> m + (k - Len(up))]
        OBVIOUS
      <3>1. CASE k \in 1..Len(up)
        BY <2>2, <3>1
      <3>2. CASE k > Len(up) /\ k - Len(up) \in 1..Len(in) /\ up2[k] = in[k - Len(up)]
        <4>1. up2[k] = [user |-> u, pos |-> m + (k - Len(up))]
          BY <2>3, <3>2
        <4> QED
          BY <3>2, <4>1
      <3> QED
        BY <2>2, <3>1, <3>2
    <2>7. \A v \in Users : \A i \in 1..Len(up) : up[i].user = v =>
            /\ up[i].pos \in 1..(sent[v] - Len(input[v]))
            /\ \A j \in 1..Len(up) : i < j /\ up[j].user = v => up[i].pos < up[j].pos
      BY <1>1 DEF UpstreamInOrder, Upstream, Moved, up
    <2>8. ASSUME NEW v \in Users, NEW k \in 1..(sent'[v] - Len(input'[v]))
          PROVE  \E i \in 1..Len(up2) : up2[i] = [user |-> v, pos |-> k]
      <3>1. CASE k \in 1..(sent[v] - Len(input[v]))
        <4>1. PICK i \in 1..Len(up) : up[i] = [user |-> v, pos |-> k]
          BY <1>1, <3>1 DEF UpstreamInOrder, Upstream, Moved, up
        <4> QED
          BY <2>2, <4>1
      <3>2. CASE k \notin 1..(sent[v] - Len(input[v]))
        <4>1. v = u /\ k - m \in 1..Len(in) /\ m + (k - m) = k
          <5>1. v = u
            BY <2>4, <2>8, <3>2
          <5>2. m \in Nat /\ sent[u] = m + Len(in) /\ k \in 1..sent[u] /\ k \notin 1..m
            BY <2>2, <2>3, <2>4, <2>8, <3>2, <5>1 DEF in
          <5> QED
            BY <2>2, <5>1, <5>2
        <4>2. /\ up2[Len(up) + (k - m)] = in[k - m]
              /\ Len(up) + (k - m) \in 1..Len(up2)
          BY <2>2, <4>1
        <4> QED
          BY <2>3, <4>1, <4>2
      <3> QED
        BY <3>1, <3>2
    <2>9. ASSUME NEW v \in Users, NEW i \in 1..Len(up2), up2[i].user = v
          PROVE  /\ up2[i].pos \in 1..(sent'[v] - Len(input'[v]))
                 /\ \A j \in 1..Len(up2) : i < j /\ up2[j].user = v => up2[i].pos < up2[j].pos
      <3>1. CASE i \in 1..Len(up) /\ up2[i] = up[i]
        <4>1. up[i].pos \in 1..(sent[v] - Len(input[v]))
          BY <2>7, <2>9, <3>1
        <4>2. (sent'[v] - Len(input'[v])) \in Nat /\ (sent[v] - Len(input[v])) <= (sent'[v] - Len(input'[v]))
          <5>1. CASE v = u
            BY <2>2, <2>3, <2>4, <5>1 DEF in
          <5>2. CASE v # u
            <6>1. sent[v] - Len(input[v]) \in Nat
              BY <2>5
            <6> QED
              BY <2>4, <5>2, <6>1
          <5> QED
            BY <5>1, <5>2
        <4>3. up2[i].pos \in 1..(sent'[v] - Len(input'[v]))
          BY <2>5, <3>1, <4>1, <4>2
        <4>4. ASSUME NEW j \in 1..Len(up2), i < j, up2[j].user = v PROVE up2[i].pos < up2[j].pos
          <5>1. CASE j \in 1..Len(up) /\ up2[j] = up[j]
            BY <2>7, <2>9, <3>1, <4>4, <5>1
          <5>2. CASE j > Len(up) /\ j - Len(up) \in 1..Len(in) /\ up2[j].user = u
                     /\ up2[j].pos = m + (j - Len(up))
            <6>1. v = u
              BY <4>4, <5>2
            <6>2. m \in Nat /\ up[i].pos \in 1..m
              BY <2>5, <4>1, <6>1 DEF m
            <6> QED
              BY <2>2, <3>1, <5>2, <6>2
          <5> QED
            BY <2>6, <5>1, <5>2
        <4> QED
          BY <4>3, <4>4
      <3>2. CASE i > Len(up) /\ i - Len(up) \in 1..Len(in) /\ up2[i].user = u
                 /\ up2[i].pos = m + (i - Len(up))
        <4>1. v = u /\ up2[i].pos \in 1..(sent'[v] - Len(input'[v]))
          <5>1. v = u
            BY <2>9, <3>2
          <5>2. m + (i - Len(up)) \in 1..sent[u]
            BY <2>2, <2>3, <2>5, <3>2
          <5> QED
            BY <2>4, <3>2, <5>1, <5>2
        <4>2. ASSUME NEW j \in 1..Len(up2), i < j, up2[j].user = v PROVE up2[i].pos < up2[j].pos
          <5>1. j > Len(up) /\ up2[j].pos = m + (j - Len(up))
            BY <2>2, <2>6, <3>2, <4>2
          <5>2. m \in Nat
            BY <2>5 DEF m
          <5> QED
            BY <2>2, <3>2, <4>2, <5>1, <5>2
        <4> QED
          BY <4>1, <4>2
      <3> QED
        BY <2>6, <3>1, <3>2
    <2>10. ASSUME NEW v \in Users
           PROVE  /\ Len(input'[v]) <= sent'[v]
                  /\ \A k \in 1..Len(input'[v]) : input'[v][k] = [user |-> v, pos |-> (sent'[v] - Len(input'[v])) + k]
      <3>1. CASE v = u
        <4>1. Len(input'[v]) = 0 /\ sent'[v] \in Nat
          BY <1>2, <2>3, <2>4, <3>1
        <4> QED
          BY <4>1
      <3>2. CASE v # u
        <4>1. /\ Len(input[v]) <= sent[v]
              /\ \A k \in 1..Len(input[v]) : input[v][k] = [user |-> v, pos |-> (sent[v] - Len(input[v])) + k]
          BY <1>1 DEF UpstreamInOrder, Moved
        <4>2. input'[v] = input[v] /\ sent'[v] = sent[v]
          BY <1>2, <2>4, <3>2
        <4> QED
          BY <4>1, <4>2
      <3> QED
        BY <3>1, <3>2
    <2>11. Upstream' = up2
      BY DEF Upstream, up2
    <2> QED
      BY <2>8, <2>9, <2>10, <2>11 DEF UpstreamInOrder, Moved
  <1> QED
    BY <1>4, <1>5, <1>8, <1>9, <1>10, <1>11 DEF RInv

\* read_cb of bev_xfrps: a freed partner it never meets.
LEMMA ReadXfrpsKeeps ==
  ASSUME RInv, ReadXfrps
  PROVE  RInv'
  <1>1. /\ TypeOK /\ PartnerLives /\ UpstreamInOrder /\ Unaccepted /\ SolePair /\ SoleUserExact
    BY DEF RInv
  <1>2. /\ pc = "run" /\ xfrps = "open" /\ xinput # <<>> /\ partner # NoUser
        /\ output' = [output EXCEPT ![partner] = output[partner] \o xinput] /\ xinput' = <<>>
        /\ UNCHANGED <<xfrps, partner, xoutput, bev_in, input, server, echoed, got, sent, ended>>
        /\ pc' = IF bev_in[partner] = "freed" THEN "use after free" ELSE pc
    BY DEF ReadXfrps, AfterUse, ends, AddBuffer, EmptyInput
  <1>3. partner \in Users /\ bev_in[partner] = "open" /\ pc' = "run"
    BY <1>1, <1>2 DEF TypeOK, PartnerLives
  <1>4. /\ output[partner] \in Seq(Bytes) /\ xinput \in Seq(Bytes) /\ output \in [Users -> Seq(Bytes)]
        /\ xinput' \in Seq(Bytes)
    BY <1>1, <1>2, <1>3 DEF TypeOK
  <1>5. output[partner] \o xinput \in Seq(Bytes)
    BY <1>4, Assoc
  <1>6. TypeOK'
    <2>1. output' \in [Users -> Seq(Bytes)]
      BY <1>2, <1>3, <1>4, <1>5
    <2> QED
      BY <1>1, <1>2, <1>3, <1>4, <2>1 DEF TypeOK
  <1>7. PartnerLives'
    BY <1>1, <1>2 DEF PartnerLives
  <1>8. UpstreamInOrder'
    BY <1>1, <1>2, UpstreamKept DEF Upstream
  <1>9. Accepted' = Accepted
    BY <1>2 DEF Accepted
  <1>10. Unaccepted'
    <2>1. \A u \in Users : bev_in[u] = "none" => output'[u] = output[u]
      BY <1>2, <1>3, <1>4
    <2> QED
      BY <1>1, <1>2, <2>1 DEF Unaccepted
  <1>11. SolePair'
    BY <1>1, <1>2, <1>9 DEF SolePair
  <1>12. SoleUserExact'
    <2> SUFFICES ASSUME NEW v \in Users, Accepted' = {v}
                 PROVE  pc' = "run" /\ got'[v] \o output'[v] \o xinput' = SubSeq(server', 1, echoed')
      BY DEF SoleUserExact
    <2>1. v = partner /\ got[v] \o output[v] \o xinput = SubSeq(server, 1, echoed)
      BY <1>1, <1>9 DEF SolePair, SoleUserExact
    <2>2. got[v] \in Seq(Bytes) /\ output[v] \in Seq(Bytes)
      BY <1>1 DEF TypeOK
    <2>3. output'[v] = output[v] \o xinput
      BY <1>2, <1>4, <2>1
    <2>4. (got[v] \o output[v]) \o xinput = got[v] \o (output[v] \o xinput)
      <3> DEFINE g == got[v]
                 o == output[v]
                 x == xinput
      <3>1. g \in Seq(Bytes) /\ o \in Seq(Bytes) /\ x \in Seq(Bytes)
        BY <1>4, <2>2
      <3> HIDE DEF g, o, x
      <3>2. (g \o o) \o x = g \o (o \o x)
        BY <3>1, Assoc
      <3> QED
        BY <3>2 DEF g, o, x
    <2>5. (got[v] \o (output[v] \o xinput)) \o <<>> = got[v] \o (output[v] \o xinput)
      BY <1>5, <2>1, <2>2, Assoc
    <2> QED
      BY <1>2, <1>3, <2>1, <2>3, <2>4, <2>5
  <1> QED
    BY <1>6, <1>7, <1>8, <1>10, <1>11, <1>12 DEF RInv

\* event_cb of either side: both are freed, and the partner is met alive.
LEMMA EventKeeps ==
  ASSUME RInv, NEW u \in Users, EventUser(u) \/ (u = partner /\ EventXfrps)
  PROVE  RInv'
  <1>1. /\ TypeOK /\ PartnerLives /\ UpstreamInOrder /\ Unaccepted /\ SolePair /\ SoleUserExact
    BY DEF RInv
  <1>2. /\ pc = "run" /\ bev_in' = [bev_in EXCEPT ![u] = "freed"] /\ xfrps' = "freed"
        /\ UNCHANGED <<partner, xinput, xoutput, input, output, server, echoed, got, sent, ended>>
        /\ bev_in[u] = "open"
        /\ \/ pc' = IF xfrps = "freed" THEN "use after free" ELSE pc
           \/ pc' = "run"
    <2>1. CASE EventUser(u)
      BY <2>1 DEF EventUser, FreePair, AfterUse, ends
    <2>2. CASE u = partner /\ EventXfrps
      <3>1. bev_in[u] = "open"
        BY <1>1, <2>2, RedirAssumption DEF EventXfrps, PartnerLives
      <3> QED
        BY <2>2, <3>1 DEF EventXfrps, FreePair, AfterUse, ends
    <2> QED
      BY <2>1, <2>2
  <1>3. bev_in'[u] = "freed" /\ \A v \in Users : v # u => bev_in'[v] = bev_in[v]
    BY <1>1, <1>2 DEF TypeOK
  <1>4. TypeOK'
    BY <1>1, <1>2 DEF TypeOK
  <1>5. PartnerLives'
    BY <1>2 DEF PartnerLives
  <1>6. UpstreamInOrder'
    BY <1>1, <1>2, UpstreamKept DEF Upstream
  <1>7. Accepted' = Accepted /\ u \in Accepted
    BY <1>2, <1>3 DEF Accepted
  <1>8. partner # NoUser
    BY <1>1, <1>7 DEF Unaccepted
  <1>9. Unaccepted'
    BY <1>1, <1>2, <1>3, <1>8 DEF Unaccepted
  <1>10. SolePair'
    BY <1>1, <1>2, <1>3, <1>7 DEF SolePair
  <1>11. SoleUserExact'
    <2> SUFFICES ASSUME NEW v \in Users, Accepted' = {v}
                 PROVE  pc' = "run" /\ got'[v] \o output'[v] \o xinput' = SubSeq(server', 1, echoed')
      BY DEF SoleUserExact
    <2>1. v = u /\ xfrps # "freed"
      BY <1>1, <1>2, <1>7 DEF SolePair
    <2> QED
      BY <1>1, <1>2, <1>7, <2>1 DEF SoleUserExact
  <1> QED
    BY <1>4, <1>5, <1>6, <1>9, <1>10, <1>11 DEF RInv

\* The connection to the remote port is made, a peer ends, or nothing happens.
LEMMA OutsideKeeps ==
  ASSUME RInv, Connected \/ (\E p \in Users \cup {NoUser} : End(p)) \/ UNCHANGED vars
  PROVE  RInv'
  <1>1. /\ TypeOK /\ PartnerLives /\ UpstreamInOrder /\ Unaccepted /\ SolePair /\ SoleUserExact
    BY DEF RInv
  <1>2. /\ UNCHANGED <<partner, xinput, xoutput, bev_in, input, output, server, echoed, got, sent, pc>>
        /\ xfrps' = xfrps \/ (xfrps = "connecting" /\ xfrps' = "open")
        /\ ended' \in SUBSET (Users \cup {NoUser})
    BY <1>1 DEF TypeOK, Connected, End, vars, xfrpsVars, userVars, ends
  <1>3. TypeOK'
    BY <1>1, <1>2 DEF TypeOK
  <1>4. Accepted' = Accepted
    BY <1>2 DEF Accepted
  <1>5. PartnerLives' /\ SolePair'
    BY <1>1, <1>2, <1>4 DEF PartnerLives, SolePair
  <1>6. UpstreamInOrder'
    BY <1>1, <1>2, UpstreamKept DEF Upstream
  <1>7. Unaccepted'
    BY <1>1, <1>2, <1>4 DEF Unaccepted
  <1>8. SoleUserExact'
    BY <1>1, <1>2, <1>4 DEF SoleUserExact
  <1> QED
    BY <1>3, <1>5, <1>6, <1>7, <1>8 DEF RInv

\* A byte leaves for the remote port.
LEMMA WriteXfrpsKeeps ==
  ASSUME RInv, WriteXfrps
  PROVE  RInv'
  <1>1. /\ TypeOK /\ PartnerLives /\ UpstreamInOrder /\ Unaccepted /\ SolePair /\ SoleUserExact
    BY DEF RInv
  <1>2. /\ xoutput # <<>> /\ server' = Append(server, Head(xoutput)) /\ xoutput' = Tail(xoutput)
        /\ UNCHANGED <<xfrps, partner, xinput, bev_in, input, output, echoed, got, sent, ended, pc>>
    BY DEF WriteXfrps, userVars
  <1>3. /\ server \in Seq(Bytes) /\ xoutput \in Seq(Bytes) /\ echoed \in Nat /\ echoed <= Len(server)
    BY <1>1 DEF TypeOK
  <1>4. /\ server' \in Seq(Bytes) /\ xoutput' \in Seq(Bytes) /\ server' \o xoutput' = server \o xoutput
        /\ Head(xoutput) \in Bytes /\ Len(server') = Len(server) + 1 /\ Len(server) \in Nat
    <2>1. Head(xoutput) \in Bytes
      BY <1>2, <1>3
    <2>2. Len(server') = Len(server) + 1 /\ Len(server) \in Nat
      BY <1>2, <1>3, <2>1
    <2> QED
      BY <1>2, <1>3, <2>1, <2>2, MoveOne
  <1>5. SubSeq(server', 1, echoed) = SubSeq(server, 1, echoed)
    BY <1>2, <1>3, <1>4, PrefixFacts
  <1>6. TypeOK'
    <2>1. echoed <= Len(server')
      BY <1>3, <1>4
    <2> QED
      BY <1>1, <1>2, <1>4, <2>1 DEF TypeOK
  <1>7. Accepted' = Accepted
    BY <1>2 DEF Accepted
  <1>8. PartnerLives' /\ SolePair'
    BY <1>1, <1>2, <1>7 DEF PartnerLives, SolePair
  <1>9. UpstreamInOrder'
    BY <1>1, <1>2, <1>4, UpstreamKept DEF Upstream
  <1>10. Unaccepted'
    BY <1>1, <1>2 DEF Unaccepted
  <1>11. SoleUserExact'
    BY <1>1, <1>2, <1>5, <1>7 DEF SoleUserExact
  <1> QED
    BY <1>6, <1>8, <1>9, <1>10, <1>11 DEF RInv

\* A reply leaves for a user.
LEMMA WriteUserKeeps ==
  ASSUME RInv, NEW u \in Users, WriteUser(u)
  PROVE  RInv'
  <1>1. /\ TypeOK /\ PartnerLives /\ UpstreamInOrder /\ Unaccepted /\ SolePair /\ SoleUserExact
    BY DEF RInv
  <1>2. /\ bev_in[u] = "open" /\ output[u] # <<>>
        /\ got' = [got EXCEPT ![u] = Append(got[u], Head(output[u]))]
        /\ output' = [output EXCEPT ![u] = Tail(output[u])]
        /\ UNCHANGED <<xfrps, partner, xinput, xoutput, bev_in, input, server, echoed, sent, ended, pc>>
    BY DEF WriteUser, xfrpsVars
  <1>3. /\ got \in [Users -> Seq(Bytes)] /\ output \in [Users -> Seq(Bytes)]
        /\ got[u] \in Seq(Bytes) /\ output[u] \in Seq(Bytes)
    BY <1>1 DEF TypeOK
  <1> DEFINE g == Append(got[u], Head(output[u]))
             o == Tail(output[u])
  <1>4. g \in Seq(Bytes) /\ o \in Seq(Bytes) /\ g \o o = got[u] \o output[u]
    BY <1>2, <1>3, MoveOne
  <1>5. /\ got' = [got EXCEPT ![u] = g] /\ output' = [output EXCEPT ![u] = o]
    BY <1>2
  <1> HIDE DEF g, o
  <1>6. /\ got' \in [Users -> Seq(Bytes)] /\ output' \in [Users -> Seq(Bytes)]
        /\ got'[u] = g /\ output'[u] = o
        /\ \A v \in Users : v # u => got'[v] = got[v] /\ output'[v] = output[v]
    BY <1>3, <1>4, <1>5
  <1>7. TypeOK'
    BY <1>1, <1>2, <1>6 DEF TypeOK
  <1>8. Accepted' = Accepted
    BY <1>2 DEF Accepted
  <1>9. PartnerLives' /\ SolePair'
    BY <1>1, <1>2, <1>8 DEF PartnerLives, SolePair
  <1>10. UpstreamInOrder'
    BY <1>1, <1>2, UpstreamKept DEF Upstream
  <1>11. Unaccepted'
    BY <1>1, <1>2, <1>6, <1>8 DEF Unaccepted
  <1>12. SoleUserExact'
    <2> SUFFICES ASSUME NEW v \in Users, Accepted' = {v}
                 PROVE  pc' = "run" /\ got'[v] \o output'[v] \o xinput' = SubSeq(server', 1, echoed')
      BY DEF SoleUserExact
    <2>1. v = u
      BY <1>2, <1>8 DEF Accepted
    <2>2. pc = "run" /\ got[u] \o output[u] \o xinput = SubSeq(server, 1, echoed)
      BY <1>1, <1>8, <2>1 DEF SoleUserExact
    <2> QED
      BY <1>2, <1>4, <1>6, <2>1, <2>2
  <1> QED
    BY <1>7, <1>9, <1>10, <1>11, <1>12 DEF RInv

\* The remote port answers a byte.
LEMMA EchoKeeps ==
  ASSUME RInv, Echo
  PROVE  RInv'
  <1>1. /\ TypeOK /\ PartnerLives /\ UpstreamInOrder /\ Unaccepted /\ SolePair /\ SoleUserExact
    BY DEF RInv
  <1>2. /\ echoed < Len(server) /\ xinput' = Append(xinput, server[echoed + 1]) /\ echoed' = echoed + 1
        /\ UNCHANGED <<xfrps, partner, xoutput, bev_in, input, output, server, got, sent, ended, pc>>
    BY DEF Echo, userVars
  <1>3. server \in Seq(Bytes) /\ xinput \in Seq(Bytes) /\ echoed \in Nat /\ Len(server) \in Nat
    <2>1. server \in Seq(Bytes) /\ xinput \in Seq(Bytes) /\ echoed \in Nat
      BY <1>1 DEF TypeOK
    <2> QED
      BY <2>1
  <1>4. server[echoed + 1] \in Bytes
    BY <1>2, <1>3
  <1>5. xinput' \in Seq(Bytes) /\ echoed + 1 <= Len(server)
    BY <1>2, <1>3, <1>4
  <1>6. TypeOK'
    <2>1. echoed' \in Nat /\ echoed' <= Len(server')
      BY <1>2, <1>3, <1>5
    <2> QED
      BY <1>1, <1>2, <1>5, <2>1 DEF TypeOK
  <1>7. Accepted' = Accepted
    BY <1>2 DEF Accepted
  <1>8. PartnerLives' /\ SolePair'
    BY <1>1, <1>2, <1>7 DEF PartnerLives, SolePair
  <1>9. UpstreamInOrder'
    BY <1>1, <1>2, UpstreamKept DEF Upstream
  <1>10. partner # NoUser
    <2>1. server # <<>>
      BY <1>2, <1>3
    <2> QED
      BY <1>1, <2>1 DEF Unaccepted
  <1>11. Unaccepted'
    BY <1>1, <1>2, <1>10 DEF Unaccepted
  <1>12. SoleUserExact'
    <2> SUFFICES ASSUME NEW v \in Users, Accepted' = {v}
                 PROVE  pc' = "run" /\ got'[v] \o output'[v] \o xinput' = SubSeq(server', 1, echoed')
      BY DEF SoleUserExact
    <2> DEFINE x == got[v] \o output[v]
               b == server[echoed + 1]
    <2>1. pc = "run" /\ x \o xinput = SubSeq(server, 1, echoed)
      BY <1>1, <1>7 DEF SoleUserExact
    <2>2. x \in Seq(Bytes)
      <3>1. got[v] \in Seq(Bytes) /\ output[v] \in Seq(Bytes)
        BY <1>1 DEF TypeOK
      <3> QED
        BY <3>1, Assoc
    <2>3. SubSeq(server, 1, echoed + 1) = Append(SubSeq(server, 1, echoed), b)
      BY <1>2, <1>3, <1>4, PrefixFacts
    <2> HIDE DEF x, b
    <2>4. b \in Bytes
      BY <1>4 DEF b
    <2>5. x \o Append(xinput, b) = Append(x \o xinput, b)
      BY <1>3, <2>2, <2>4
    <2>6. got'[v] \o output'[v] \o xinput' = x \o Append(xinput, b)
      BY <1>2 DEF x, b
    <2> QED
      BY <1>2, <2>1, <2>3, <2>5, <2>6
  <1> QED
    BY <1>6, <1>8, <1>9, <1>11, <1>12 DEF RInv

\* A user sends a byte.
LEMMA UserSendKeeps ==
  ASSUME RInv, NEW u \in Users, UserSend(u)
  PROVE  RInv'
  <1>1. /\ TypeOK /\ PartnerLives /\ UpstreamInOrder /\ Unaccepted /\ SolePair /\ SoleUserExact
    BY DEF RInv
  <1> DEFINE b == [user |-> u, pos |-> sent[u] + 1]
             in == Append(input[u], b)
  <1>2. /\ bev_in[u] = "open" /\ sent' = [sent EXCEPT ![u] = sent[u] + 1]
        /\ input' = [input EXCEPT ![u] = in]
        /\ UNCHANGED <<xfrps, partner, xinput, xoutput, bev_in, output, server, echoed, got, ended, pc>>
    BY DEF UserSend, xfrpsVars
  <1>3. /\ sent \in [Users -> Nat] /\ input \in [Users -> Seq(Bytes)]
        /\ sent[u] \in Nat /\ input[u] \in Seq(Bytes) /\ Len(input[u]) <= sent[u]
    BY <1>1 DEF TypeOK, UpstreamInOrder
  <1>4. b \in Bytes
    BY <1>3 DEF Bytes
  <1> HIDE DEF b
  <1>5. /\ in \in Seq(Bytes) /\ Len(in) = Len(input[u]) + 1 /\ Len(input[u]) \in Nat
        /\ \A k \in 1..Len(input[u]) : in[k] = input[u][k]
        /\ in[Len(input[u]) + 1] = b
    BY <1>3, <1>4
  <1> HIDE DEF in
  <1>6. /\ input' \in [Users -> Seq(Bytes)] /\ sent' \in [Users -> Nat]
        /\ input'[u] = in /\ sent'[u] = sent[u] + 1
        /\ \A v \in Users : v # u => input'[v] = input[v] /\ sent'[v] = sent[v]
    BY <1>2, <1>3, <1>5
  <1>7. TypeOK'
    BY <1>1, <1>2, <1>6 DEF TypeOK
  <1>8. Accepted' = Accepted
    BY <1>2 DEF Accepted
  <1>9. PartnerLives' /\ SolePair'
    BY <1>1, <1>2, <1>8 DEF PartnerLives, SolePair
  <1>10. Unaccepted'
    BY <1>1, <1>2, <1>6, <1>8 DEF Unaccepted
  <1>11. SoleUserExact'
    BY <1>1, <1>2, <1>8 DEF SoleUserExact
  <1>12. UpstreamInOrder'
    <2>1. ASSUME NEW v \in Users
          PROVE  /\ Len(input'[v]) <= sent'[v]
                 /\ sent'[v] - Len(input'[v]) = sent[v] - Len(input[v])
                 /\ \A k \in 1..Len(input'[v]) :
                      input'[v][k] = [user |-> v, pos |-> (sent[v] - Len(input[v])) + k]
      <3>1. /\ Len(input[v]) <= sent[v]
            /\ \A k \in 1..Len(input[v]) : input[v][k] = [user |-> v, pos |-> (sent[v] - Len(input[v])) + k]
        BY <1>1 DEF UpstreamInOrder, Moved
      <3>2. CASE v # u
        BY <1>6, <3>1, <3>2
      <3>3. CASE v = u
        <4>1. /\ Len(input'[v]) <= sent'[v]
              /\ sent'[v] - Len(input'[v]) = sent[v] - Len(input[v])
              /\ Len(input'[v]) = Len(input[v]) + 1
          BY <1>3, <1>5, <1>6, <3>3
        <4>2. ASSUME NEW k \in 1..Len(input'[v])
              PROVE  input'[v][k] = [user |-> v, pos |-> (sent[v] - Len(input[v])) + k]
          <5>1. CASE k \in 1..Len(input[v])
            BY <1>5, <1>6, <3>1, <3>3, <5>1
          <5>2. CASE k \notin 1..Len(input[v])
            <6>1. k = Len(input[u]) + 1 /\ (sent[u] - Len(input[u])) + k = sent[u] + 1
              BY <1>3, <1>5, <3>3, <4>1, <5>2
            <6>2. input'[v][k] = b
              BY <1>5, <1>6, <3>3, <6>1
            <6> QED
              BY <3>3, <6>1, <6>2 DEF b
          <5> QED
            BY <5>1, <5>2
        <4> QED
          BY <4>1, <4>2
      <3> QED
        BY <3>2, <3>3
    <2>2. Upstream' = Upstream
      BY <1>2 DEF Upstream
    <2>3. ASSUME NEW v \in Users
          PROVE  /\ \A k \in 1..(sent[v] - Len(input[v])) :
                      \E i \in 1..Len(Upstream) : Upstream[i] = [user |-> v, pos |-> k]
                 /\ \A i \in 1..Len(Upstream) : Upstream[i].user = v =>
                      /\ Upstream[i].pos \in 1..(sent[v] - Len(input[v]))
                      /\ \A j \in 1..Len(Upstream) :
                           i < j /\ Upstream[j].user = v => Upstream[i].pos < Upstream[j].pos
      BY <1>1 DEF UpstreamInOrder, Moved
    <2> QED
      BY <2>1, <2>2, <2>3 DEF UpstreamInOrder, Moved
  <1> QED
    BY <1>7, <1>9, <1>10, <1>11, <1>12 DEF RInv

-----------------------------------------------------------------------------
(* What follows                                                              *)

\* Every callback keeps the invariant, and so does everything outside.
LEMMA NextRInv == RInv /\ [Next]_vars => RInv'
  <1> SUFFICES ASSUME RInv, [Next]_vars PROVE RInv'
    OBVIOUS
  <1>1. ASSUME NEW u \in Users, \/ accept_cb(u) \/ UserSend(u) \/ End(u) \/ ReadUser(u)
                                \/ EventUser(u) \/ WriteUser(u)
        PROVE  RInv'
    BY <1>1, AcceptKeeps, UserSendKeeps, OutsideKeeps, ReadUserKeeps, EventKeeps, WriteUserKeeps
  <1>2. CASE EventXfrps
    <2>1. partner \in Users
      BY <1>2 DEF RInv, TypeOK, EventXfrps
    <2> QED
      BY <1>2, <2>1, EventKeeps
  <1>3. CASE ReadXfrps \/ WriteXfrps \/ Echo
    BY <1>3, ReadXfrpsKeeps, WriteXfrpsKeeps, EchoKeeps
  <1>4. CASE Connected \/ End(NoUser) \/ UNCHANGED vars
    BY <1>4, OutsideKeeps
  <1> QED
    BY <1>1, <1>2, <1>3, <1>4 DEF Next, Loop

\* The inductive invariant: types, the pairing, the bytes upstream, and a
\* user alone.
THEOREM RedirInvariance == Spec => []RInv
  BY InitRInv, NextRInv, PTL DEF Spec

\* read_cb and event_cb of bev_xfrps never meet a freed user, in whatever order
\* users connect and leave.
THEOREM PartnerAlwaysLives == Spec => []PartnerLives
  <1>1. RInv => PartnerLives
    BY DEF RInv
  <1> QED
    BY <1>1, RedirInvariance, PTL

\* The bytes of every user reach the remote port in order and once, however
\* many users share bev_xfrps.
THEOREM UpstreamAlwaysInOrder == Spec => []UpstreamInOrder
  <1>1. RInv => UpstreamInOrder
    BY DEF RInv
  <1> QED
    BY <1>1, RedirInvariance, PTL

\* A user alone gets exactly the replies, and no callback meets a freed
\* bufferevent until somebody else connects.
THEOREM SoleUserAlwaysExact == Spec => []SoleUserExact
  <1>1. RInv => SoleUserExact
    BY DEF RInv
  <1> QED
    BY <1>1, RedirInvariance, PTL

=============================================================================
