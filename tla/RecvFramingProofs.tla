------------------------- MODULE RecvFramingProofs -------------------------
(* For headers and payloads of any length, any number of frames and streams  *)
(* and any cut of the bytes into callbacks: recv_cb puts the frames together *)
(* again.                                                                    *)
EXTENDS RecvFraming, TLAPS

Byte == Nat \X Nat \X Nat
Types == {"ACK", "DATA", "FIN", "RST", "PING"}
Rings == Ids \cup {"abandon"}
States == {"absent", "syn", "listed", "tunnel", "socks5", "local", "fin", "gone"}
Outs == [seq : Nat, to : Rings \cup {"kept", "socks5"}, bytes : Seq(Byte)]

TypeOK ==
  /\ sent \in Seq([type : Types, id : Ids, len : Nat, seq : Nat])
  /\ wire \in Seq(Byte) /\ input \in Seq(Byte)
  /\ cur_stream \in Rings \cup {"none"} /\ stream_len \in Nat
  /\ stream \in [Ids -> States] /\ bevs \in [Ids -> Nat]
  /\ rx_ring \in [Rings -> Seq(Byte)]
  /\ handled \in Seq(Outs)
  /\ pc \in {"idle", "loop", "read_assert", "use_after_free"} /\ conn \in Nat

\* frps numbers its frames, gives a payload to DATA only, acknowledges a stream
\* before it uses it and says nothing behind FIN or RST.
SentInv ==
  \A k \in 1..Len(sent) :
    /\ sent[k].seq = k
    /\ sent[k].len <= MaxPayload
    /\ sent[k].type # "DATA" => sent[k].len = 0
    /\ sent[k].type # "ACK" => \E j \in 1..(k - 1) : sent[j].id = sent[k].id /\ sent[j].type = "ACK"
    /\ \A j \in 1..(k - 1) : sent[j].type \in {"FIN", "RST"} => sent[j].id # sent[k].id

\* What the streams have seen of the frames handled.
StreamInv ==
  /\ \A k \in 1..Len(sent) : stream[sent[k].id] # "absent"
  /\ \A k \in 1..Len(handled) : sent[k].type = "ACK" => stream[sent[k].id] # "syn"
  /\ \A s \in Ids : stream[s] = "fin" =>
       \E k \in 1..Len(handled) : sent[k].id = s /\ sent[k].type = "FIN"

HandledInv == /\ Len(handled) <= Len(sent)
              /\ \A k \in 1..Len(handled) : HandledRight(k)

-----------------------------------------------------------------------------
(* The bytes under way, and where in them recv_cb is                         *)

\* The bytes of the k-th frame of S.
Size(S, k) == HdrLen + S[k].len

\* The frame k of S begins at j in the bytes u, or there is none and u ends.
At(u, S, c, j, k) == IF k <= Len(S) THEN j \in 1..Len(u) /\ u[j] = <<c, k, 1>> ELSE j = Len(u) + 1

\* At j begins what is left of frame k from its i-th byte on, then the next one.
From(u, S, c, j, k, i) ==
  /\ \A m \in 0..(Size(S, k) - i) : j + m \in 1..Len(u) /\ u[j + m] = <<c, k, i + m>>
  /\ At(u, S, c, j + Size(S, k) - i + 1, k + 1)

Framed(u, S, c) ==
  \A j \in 1..Len(u) : \E k \in 1..Len(S) : \E i \in 1..Size(S, k) : From(u, S, c, j, k, i)

\* n bytes of frame k are still to be read.
Pos(u, S, c, k, n) == IF n > 0 THEN 1 \in 1..Len(u) /\ u[1] = <<c, k, Size(S, k) - n + 1>>
                      ELSE At(u, S, c, 1, k + 1)

Unread == input \o wire
This == Len(handled) + 1

\* The ring that gets the payload of the frame with header h: that of its
\* stream, or the abandoned one. The stream may be freed in the middle of the
\* frame by a local close.
Live(cur, h) == \/ cur = h.id /\ stream[h.id] \in {"listed", "tunnel", "socks5", "local"}
                \/ cur = "abandon" /\ stream[h.id] = "gone"
Dangling(cur) == cur \in Work /\ stream[cur] = "gone"
Holder(cur, h) == Live(cur, h) \/ (cur = h.id /\ Dangling(cur))

FrameInv ==
  /\ Framed(Unread, sent, conn)
  /\ cur_stream = "none" => At(Unread, sent, conn, 1, This)
  /\ cur_stream # "none" =>
       /\ This <= Len(sent) /\ tmux_hdr = sent[This] /\ sent[This].type = "DATA"
       /\ Holder(cur_stream, sent[This])
       /\ stream_len <= sent[This].len /\ (stream_len = 0 => sent[This].len = 0)
       /\ Pos(Unread, sent, conn, This, stream_len)

\* How the process may have gone wrong, and with it the only way for cur_stream
\* to be freed.
EndInv ==
  /\ pc = "read_assert" => This <= Len(sent) /\ stream[sent[This].id] \in {"socks5", "local"}
  /\ pc = "use_after_free" => Dangling(cur_stream)
  /\ Dangling(cur_stream) => bevs[cur_stream] > 0

\* Byte i of the payload of frame k of S is one of stream s and has been read
\* when d frames are done and p bytes of the next one, if that is for s.
ReadTo(S, s, d, p, k, i) ==
  /\ k \in 1..Len(S) /\ i \in 1..S[k].len /\ S[k].id = s /\ S[k].type = "DATA"
  /\ k <= d \/ (k = d + 1 /\ i <= p)

\* InOrder with these parameters.
Sorted(ring) == \A i, j \in 1..Len(ring) : i < j => Before(ring[i], ring[j])
Own(ring, S, c, s, d, p) ==
  \A j \in 1..Len(ring) : \E k, i : ring[j] = <<c, k, HdrLen + i>> /\ ReadTo(S, s, d, p, k, i)
NoGap(ring, S, c, s, d, p) ==
  \A k, i : ring # <<>> /\ ReadTo(S, s, d, p, k, i) /\ Before(ring[1], <<c, k, HdrLen + i>>) =>
    \E j \in 1..Len(ring) : ring[j] = <<c, k, HdrLen + i>>
Run(ring, S, c, s, d, p) == Sorted(ring) /\ Own(ring, S, c, s, d, p) /\ NoGap(ring, S, c, s, d, p)

Part(s) == IF cur_stream = s THEN sent[This].len - stream_len ELSE 0

\* The rings: runs of bytes read, and exactly the frame begun where nothing is
\* kept.
RunInv == \A s \in Ids : Run(rx_ring[s], sent, conn, s, Len(handled), Part(s))
HeldInv ==
  \A r \in Rings : ~ Keeps(r) =>
    rx_ring[r] = IF r = cur_stream /\ ~ Dangling(r) THEN Take(Payload(This), sent[This].len - stream_len)
                 ELSE <<>>

Parts == /\ TypeOK /\ SentInv /\ StreamInv /\ HandledInv /\ FrameInv
         /\ EndInv /\ RunInv /\ HeldInv

FInv == ~ torn => Parts

-----------------------------------------------------------------------------
(* Sequences                                                                 *)

LEMMA DropFacts ==
  ASSUME NEW S, NEW s \in Seq(S), NEW n \in 0..Len(s)
  PROVE  /\ Drop(s, n) \in Seq(S) /\ Len(Drop(s, n)) = Len(s) - n
         /\ \A k \in 1..(Len(s) - n) : Drop(s, n)[k] = s[n + k] /\ n + k \in 1..Len(s)
  BY DEF Drop

LEMMA TakeFacts ==
  ASSUME NEW S, NEW s \in Seq(S), NEW n \in 0..Len(s)
  PROVE  /\ Take(s, n) \in Seq(S) /\ Len(Take(s, n)) = n
         /\ \A k \in 1..n : Take(s, n)[k] = s[k] /\ k \in 1..Len(s)
  BY DEF Take

LEMMA JoinFacts ==
  ASSUME NEW S, NEW s \in Seq(S), NEW t \in Seq(S)
  PROVE  /\ s \o t \in Seq(S) /\ Len(s \o t) = Len(s) + Len(t)
         /\ Len(s) \in Nat /\ Len(t) \in Nat
         /\ \A k \in 1..Len(s) : (s \o t)[k] = s[k]
         /\ \A k \in 1..Len(t) : (s \o t)[Len(s) + k] = t[k] /\ Len(s) + k \in 1..Len(s \o t)
         /\ \A k \in (Len(s) + 1)..(Len(s) + Len(t)) : (s \o t)[k] = t[k - Len(s)] /\ k - Len(s) \in 1..Len(t)
  OBVIOUS

LEMMA SameSeq ==
  ASSUME NEW S, NEW s \in Seq(S), NEW t \in Seq(S), Len(s) = Len(t),
         \A k \in 1..Len(s) : s[k] = t[k]
  PROVE  s = t
  OBVIOUS

LEMMA TakeAll ==
  ASSUME NEW S, NEW s \in Seq(S)
  PROVE  Take(s, Len(s)) = s /\ Drop(s, Len(s)) = <<>> /\ Drop(s, 0) = s /\ Take(s, 0) = <<>>
  <1>1. Len(s) \in 0..Len(s) /\ 0 \in 0..Len(s) /\ Len(s) - Len(s) = 0 /\ Len(s) - 0 = Len(s)
    OBVIOUS
  <1>2. /\ Take(s, Len(s)) \in Seq(S) /\ Len(Take(s, Len(s))) = Len(s)
        /\ \A k \in 1..Len(s) : Take(s, Len(s))[k] = s[k]
    BY <1>1, TakeFacts
  <1>3. Drop(s, Len(s)) \in Seq(S) /\ Len(Drop(s, Len(s))) = 0
    BY <1>1, DropFacts
  <1>4. Take(s, 0) \in Seq(S) /\ Len(Take(s, 0)) = 0
    BY <1>1, TakeFacts
  <1>5. /\ Drop(s, 0) \in Seq(S) /\ Len(Drop(s, 0)) = Len(s)
        /\ \A k \in 1..Len(s) : Drop(s, 0)[k] = s[k]
    BY DEF Drop
  <1>6. Take(s, Len(s)) = s
    BY <1>2, SameSeq
  <1>7. Drop(s, 0) = s
    BY <1>5, SameSeq
  <1> QED
    BY <1>3, <1>4, <1>6, <1>7

\* What is read comes from the front of what is unread.
LEMMA DropJoin ==
  ASSUME NEW S, NEW s \in Seq(S), NEW t \in Seq(S), NEW n \in 0..Len(s)
  PROVE  Drop(s, n) \o t = Drop(s \o t, n)
  <1> DEFINE d == Drop(s, n)
             u == s \o t
             e == Drop(u, n)
             L == Len(s)
             M == Len(t)
  <1>1. L \in Nat /\ M \in Nat /\ n \in 0..L
    OBVIOUS
  <1>2. d \in Seq(S) /\ Len(d) = L - n /\ \A k \in 1..(L - n) : d[k] = s[n + k] /\ n + k \in 1..L
    BY DropFacts
  <1>3. /\ u \in Seq(S) /\ Len(u) = L + M
        /\ \A k \in 1..L : u[k] = s[k]
        /\ \A k \in (L + 1)..(L + M) : u[k] = t[k - L] /\ k - L \in 1..M
    BY JoinFacts
  <1>4. n \in 0..Len(u)
    BY <1>1, <1>3
  <1> HIDE DEF d, u
  <1>5. e \in Seq(S) /\ Len(e) = (L + M) - n /\ \A k \in 1..((L + M) - n) : e[k] = u[n + k] /\ n + k \in 1..(L + M)
    <2>1. u \in Seq(S) /\ Len(u) = L + M
      BY <1>3
    <2>2. e \in Seq(S) /\ Len(e) = Len(u) - n /\ \A k \in 1..(Len(u) - n) : e[k] = u[n + k] /\ n + k \in 1..Len(u)
      BY <1>4, <2>1, DropFacts
    <2> QED
      BY <2>1, <2>2
  <1>6. /\ d \o t \in Seq(S) /\ Len(d \o t) = (L - n) + M
        /\ \A k \in 1..(L - n) : (d \o t)[k] = d[k]
        /\ \A k \in ((L - n) + 1)..((L - n) + M) : (d \o t)[k] = t[k - (L - n)] /\ k - (L - n) \in 1..M
    <2>1. d \in Seq(S) /\ Len(d) = L - n
      BY <1>2
    <2>2. /\ d \o t \in Seq(S) /\ Len(d \o t) = Len(d) + Len(t)
          /\ \A k \in 1..Len(d) : (d \o t)[k] = d[k]
          /\ \A k \in (Len(d) + 1)..(Len(d) + Len(t)) : (d \o t)[k] = t[k - Len(d)] /\ k - Len(d) \in 1..Len(t)
      BY <2>1, JoinFacts
    <2> QED
      BY <2>1, <2>2
  <1> HIDE DEF e, L, M
  <1>7. Len(d \o t) = Len(e)
    BY <1>1, <1>5, <1>6
  <1>8. ASSUME NEW k \in 1..Len(d \o t) PROVE (d \o t)[k] = e[k]
    <2>0. k \in 1..((L + M) - n) /\ k \in Nat
      BY <1>1, <1>6
    <2>1. CASE k <= L - n
      <3>1. k \in 1..(L - n)
        BY <1>1, <2>0, <2>1
      <3>2. (d \o t)[k] = s[n + k] /\ n + k \in 1..L
        BY <1>2, <1>6, <3>1
      <3> QED
        BY <1>3, <1>5, <2>0, <3>2
    <2>2. CASE k > L - n
      <3>1. k \in ((L - n) + 1)..((L - n) + M)
        BY <1>1, <2>0, <2>2
      <3>2. (d \o t)[k] = t[k - (L - n)]
        BY <1>6, <3>1
      <3>3. n + k \in (L + 1)..(L + M) /\ (n + k) - L = k - (L - n)
        BY <1>1, <3>1
      <3>4. e[k] = u[n + k]
        BY <1>5, <2>0
      <3>5. u[n + k] = t[(n + k) - L]
        BY <1>3, <3>3
      <3> QED
        BY <3>2, <3>3, <3>4, <3>5
    <2> QED
      BY <1>1, <2>0, <2>1, <2>2
  <1>9. d \o t = e
    BY <1>5, <1>6, <1>7, <1>8, SameSeq
  <1> QED
    BY <1>9 DEF d, e, u

LEMMA JoinAssoc ==
  ASSUME NEW s \in Seq(Byte), NEW t \in Seq(Byte), NEW u \in Seq(Byte)
  PROVE  (s \o t) \o u = s \o (t \o u)
  OBVIOUS

LEMMA TakeDrop ==
  ASSUME NEW S, NEW s \in Seq(S), NEW n \in 0..Len(s)
  PROVE  Take(s, n) \o Drop(s, n) = s
  <1> DEFINE a == Take(s, n)
             b == Drop(s, n)
             L == Len(s)
  <1>1. L \in Nat /\ n \in 0..L
    OBVIOUS
  <1>2. a \in Seq(S) /\ Len(a) = n /\ \A k \in 1..n : a[k] = s[k]
    BY TakeFacts
  <1>3. b \in Seq(S) /\ Len(b) = L - n /\ \A k \in 1..(L - n) : b[k] = s[n + k]
    BY DropFacts
  <1> HIDE DEF a, b
  <1>4. /\ a \o b \in Seq(S) /\ Len(a \o b) = n + (L - n)
        /\ \A k \in 1..n : (a \o b)[k] = a[k]
        /\ \A k \in (n + 1)..(n + (L - n)) : (a \o b)[k] = b[k - n] /\ k - n \in 1..(L - n)
    <2>1. a \in Seq(S) /\ Len(a) = n /\ b \in Seq(S) /\ Len(b) = L - n
      BY <1>2, <1>3
    <2>2. /\ a \o b \in Seq(S) /\ Len(a \o b) = Len(a) + Len(b)
          /\ \A k \in 1..Len(a) : (a \o b)[k] = a[k]
          /\ \A k \in (Len(a) + 1)..(Len(a) + Len(b)) : (a \o b)[k] = b[k - Len(a)] /\ k - Len(a) \in 1..Len(b)
      BY <2>1, JoinFacts
    <2> QED
      BY <2>1, <2>2
  <1> HIDE DEF L
  <1>5. n + (L - n) = L /\ n \in Nat
    BY <1>1
  <1>6. ASSUME NEW k \in 1..L PROVE (a \o b)[k] = s[k]
    <2>1. CASE k <= n
      BY <1>2, <1>4, <2>1
    <2>2. CASE k > n
      <3>1. k \in (n + 1)..(n + (L - n)) /\ n + (k - n) = k
        BY <1>1, <1>5, <2>2
      <3> QED
        BY <1>3, <1>4, <3>1
    <2>3. k \in Nat
      BY <1>1
    <2>4. k <= n \/ k > n
      BY <1>5, <2>3
    <2> QED
      BY <2>1, <2>2, <2>4
  <1>7. a \o b = s
    BY <1>4, <1>5, <1>6, SameSeq DEF L
  <1> QED
    BY <1>7 DEF a, b

-----------------------------------------------------------------------------
(* Frames                                                                    *)

Header == [type : Types, id : Ids, len : Nat, seq : Nat]

LEMMA SizeFacts ==
  ASSUME NEW S \in Seq(Header), NEW k \in 1..Len(S)
  PROVE  /\ Size(S, k) \in Nat /\ Size(S, k) = HdrLen + S[k].len /\ HdrLen \in Nat \ {0} /\ S[k].len \in Nat
         /\ HdrLen <= Size(S, k) /\ 1 <= Size(S, k) /\ S[k].len <= Size(S, k)
  <1>1. HdrLen \in Nat \ {0}
    BY FramingAssumption
  <1>2. S[k] \in Header
    OBVIOUS
  <1>3. S[k].len \in Nat
    BY <1>2 DEF Header
  <1> QED
    BY <1>1, <1>3 DEF Size

\* Reading from the front leaves the rest as it was.
LEMMA FromDrop ==
  ASSUME NEW u \in Seq(Byte), NEW S \in Seq(Header), NEW c, NEW k \in 1..Len(S), NEW i \in 1..Size(S, k),
         NEW n \in 0..Len(u), NEW j \in 1..(Len(u) - n), From(u, S, c, n + j, k, i)
  PROVE  From(Drop(u, n), S, c, j, k, i)
  <1> DEFINE z == Size(S, k)
             d == Drop(u, n)
             L == Len(u)
  <1>1. z \in Nat /\ L \in Nat /\ k \in Nat /\ i \in 1..z /\ n \in 0..L /\ j \in 1..(L - n)
    BY SizeFacts
  <1>2. Len(d) = L - n /\ \A m \in 1..(L - n) : d[m] = u[n + m] /\ n + m \in 1..L
    BY DropFacts
  <1>3. \A m \in 0..(z - i) : (n + j) + m \in 1..L /\ u[(n + j) + m] = <<c, k, i + m>>
    BY DEF From
  <1>4. At(u, S, c, (n + j) + z - i + 1, k + 1)
    BY DEF From
  <1> HIDE DEF z, d, L
  <1>5. ASSUME NEW m \in 0..(z - i) PROVE j + m \in 1..Len(d) /\ d[j + m] = <<c, k, i + m>>
    <2>1. (n + j) + m \in 1..L /\ u[(n + j) + m] = <<c, k, i + m>>
      BY <1>3
    <2>2. j + m \in 1..(L - n) /\ n + (j + m) = (n + j) + m
      BY <1>1, <2>1
    <2> QED
      BY <1>2, <2>1, <2>2
  <1>6. At(d, S, c, j + z - i + 1, k + 1)
    <2> DEFINE p == j + z - i + 1
    <2>1. p \in Int /\ (n + j) + z - i + 1 = n + p
      BY <1>1
    <2>2. p >= 1
      BY <1>1
    <2> HIDE DEF p
    <2>3. CASE k + 1 <= Len(S)
      <3>1. n + p \in 1..L /\ u[n + p] = <<c, k + 1, 1>>
        BY <1>4, <2>1, <2>3 DEF At, L
      <3>2. p \in 1..(L - n)
        BY <1>1, <2>1, <2>2, <3>1
      <3> QED
        BY <1>2, <2>3, <3>1, <3>2 DEF At, p
    <2>4. CASE ~ (k + 1 <= Len(S))
      <3>1. n + p = L + 1
        BY <1>4, <2>1, <2>4 DEF At, L
      <3>2. p = (L - n) + 1
        BY <1>1, <2>1, <3>1
      <3> QED
        BY <1>2, <2>4, <3>2 DEF At, p
    <2> QED
      BY <2>3, <2>4
  <1> QED
    BY <1>5, <1>6 DEF From, z, d

LEMMA FramedDrop ==
  ASSUME NEW u \in Seq(Byte), NEW S \in Seq(Header), NEW c, Framed(u, S, c), NEW n \in 0..Len(u)
  PROVE  Framed(Drop(u, n), S, c)
  <1>1. Len(Drop(u, n)) = Len(u) - n
    BY DropFacts
  <1> SUFFICES ASSUME NEW j \in 1..(Len(u) - n)
               PROVE  \E k \in 1..Len(S) : \E i \in 1..Size(S, k) : From(Drop(u, n), S, c, j, k, i)
    BY <1>1 DEF Framed
  <1>2. n + j \in 1..Len(u)
    OBVIOUS
  <1>3. PICK k \in 1..Len(S) : \E i \in 1..Size(S, k) : From(u, S, c, n + j, k, i)
    BY <1>2 DEF Framed
  <1>4. PICK i \in 1..Size(S, k) : From(u, S, c, n + j, k, i)
    BY <1>3
  <1>5. From(Drop(u, n), S, c, j, k, i)
    BY <1>4, FromDrop
  <1> QED
    BY <1>5

\* The next g bytes of a frame of which n are still to be read.
LEMMA Advance ==
  ASSUME NEW u \in Seq(Byte), NEW S \in Seq(Header), NEW c \in Nat, Framed(u, S, c), NEW K \in 1..Len(S),
         NEW n \in 0..Size(S, K), Pos(u, S, c, K, n), NEW g \in 0..n
  PROVE  /\ g \in 0..Len(u)
         /\ \A m \in 1..g : u[m] = <<c, K, (Size(S, K) - n) + m>>
         /\ Framed(Drop(u, g), S, c)
         /\ Pos(Drop(u, g), S, c, K, n - g)
  <1> DEFINE z == Size(S, K)
             L == Len(u)
             d == Drop(u, g)
  <1>1. z \in Nat /\ n \in 0..z /\ g \in 0..n /\ L \in Nat /\ K \in Nat
    BY SizeFacts
  <1>2. CASE n = 0
    <2>0. g \in 0..0
      BY <1>2
    <2>01. g = 0
      BY <2>0
    <2>1. g = 0 /\ n - g = 0
      BY <1>2, <2>01
    <2>2. Drop(u, g) = u
      BY <2>1, TakeAll
    <2>3. g \in 0..L
      BY <1>1, <2>1
    <2>4. \A m \in 1..g : FALSE
      BY <2>1
    <2> QED
      BY <1>2, <2>1, <2>2, <2>3, <2>4
  <1>3. CASE n > 0
    <2> DEFINE i0 == z - n + 1
    <2>1. 1 \in 1..L /\ u[1] = <<c, K, i0>>
      BY <1>3 DEF Pos
    <2>2. PICK k \in 1..Len(S) : \E i \in 1..Size(S, k) : From(u, S, c, 1, k, i)
      BY <2>1 DEF Framed
    <2>3. PICK i \in 1..Size(S, k) : From(u, S, c, 1, k, i)
      BY <2>2
    <2>4. u[1 + 0] = <<c, k, i + 0>>
      <3>1. 0 \in 0..(Size(S, k) - i)
        BY SizeFacts
      <3> QED
        BY <2>3, <3>1 DEF From
    <2>5. k = K /\ i = i0
      <3>1. Size(S, k) \in Nat
        BY SizeFacts
      <3>2. 1 + 0 = 1 /\ i + 0 = i
        BY <3>1
      <3> QED
        BY <2>1, <2>4, <3>2
    <2>6. i0 \in 1..z /\ z - i0 = n - 1
      BY <1>1, <1>3
    <2>7. /\ \A m \in 0..(n - 1) : 1 + m \in 1..L /\ u[1 + m] = <<c, K, i0 + m>>
          /\ At(u, S, c, 1 + z - i0 + 1, K + 1)
      BY <2>3, <2>5, <2>6 DEF From
    <2>8. ASSUME NEW m \in 1..n PROVE m \in 1..L /\ u[m] = <<c, K, (z - n) + m>>
      <3>1. m - 1 \in 0..(n - 1) /\ 1 + (m - 1) = m /\ i0 + (m - 1) = (z - n) + m
        BY <1>1
      <3> QED
        BY <2>7, <3>1
    <2>9. n \in 1..L
      <3>1. n \in 1..n
        BY <1>1, <1>3
      <3> QED
        BY <2>8, <3>1
    <2>10. g \in 0..L
      BY <1>1, <2>9
    <2>11. \A m \in 1..g : u[m] = <<c, K, (z - n) + m>>
      BY <1>1, <2>8
    <2>12. Framed(d, S, c)
      BY <2>10, FramedDrop
    <2>13. Len(d) = L - g /\ \A m \in 1..(L - g) : d[m] = u[g + m] /\ g + m \in 1..L
      BY <2>10, DropFacts
    <2>14. Pos(d, S, c, K, n - g)
      <3>1. CASE g < n
        <4>1. n - g > 0 /\ g + 1 \in 1..n
          BY <1>1, <3>1
        <4>2. u[g + 1] = <<c, K, (z - n) + (g + 1)>> /\ g + 1 \in 1..L
          BY <2>8, <4>1
        <4>3. 1 \in 1..(L - g)
          BY <1>1, <4>2
        <4>4. (z - n) + (g + 1) = z - (n - g) + 1
          BY <1>1
        <4>5. d[1] = <<c, K, z - (n - g) + 1>> /\ 1 \in 1..Len(d)
          BY <2>13, <4>2, <4>3, <4>4
        <4> QED
          BY <4>1, <4>5 DEF Pos
      <3>2. CASE g = n
        <4>1. ~ (n - g > 0) /\ 1 + z - i0 + 1 = g + 1
          BY <1>1, <3>2
        <4>2. At(u, S, c, g + 1, K + 1)
          BY <2>7, <4>1
        <4>3. At(d, S, c, 1, K + 1)
          <5>1. CASE K + 1 <= Len(S)
            <6>1. g + 1 \in 1..L /\ u[g + 1] = <<c, K + 1, 1>>
              BY <4>2, <5>1 DEF At
            <6>2. 1 \in 1..(L - g)
              BY <1>1, <6>1
            <6> QED
              BY <2>13, <5>1, <6>1, <6>2 DEF At
          <5>2. CASE ~ (K + 1 <= Len(S))
            <6>1. g + 1 = L + 1
              BY <4>2, <5>2 DEF At
            <6>2. 1 = (L - g) + 1
              BY <1>1, <6>1
            <6> QED
              BY <2>13, <5>2, <6>2 DEF At
          <5> QED
            BY <5>1, <5>2
        <4> QED
          BY <4>1, <4>3 DEF Pos
      <3> QED
        BY <1>1, <3>1, <3>2
    <2> QED
      BY <2>10, <2>11, <2>12, <2>14
  <1> QED
    BY <1>1, <1>2, <1>3

\* The bytes of the frame frps sends next.
Bytes(c, k, n) == [i \in 1..(HdrLen + n) |-> <<c, k, i>>]

LEMMA BytesFacts ==
  ASSUME NEW c \in Nat, NEW k \in Nat, NEW n \in Nat
  PROVE  /\ Bytes(c, k, n) \in Seq(Byte) /\ Len(Bytes(c, k, n)) = HdrLen + n /\ HdrLen + n \in Nat /\ 1 <= HdrLen + n
         /\ \A i \in 1..(HdrLen + n) : Bytes(c, k, n)[i] = <<c, k, i>>
  <1>1. HdrLen \in Nat \ {0}
    BY FramingAssumption
  <1>2. HdrLen + n \in Nat /\ 1 <= HdrLen + n
    BY <1>1
  <1>3. \A i \in 1..(HdrLen + n) : <<c, k, i>> \in Byte
    BY <1>2 DEF Byte
  <1> QED
    BY <1>2, <1>3 DEF Bytes

\* A frame sent.
LEMMA AppendFacts ==
  ASSUME NEW S \in Seq(Header), NEW h \in Header
  PROVE  /\ Append(S, h) \in Seq(Header) /\ Len(Append(S, h)) = Len(S) + 1 /\ Len(S) \in Nat
         /\ \A k \in 1..Len(S) : Append(S, h)[k] = S[k] /\ k \in 1..(Len(S) + 1)
         /\ Append(S, h)[Len(S) + 1] = h /\ Len(S) + 1 \in 1..(Len(S) + 1)
  OBVIOUS

LEMMA AtAppend ==
  ASSUME NEW u \in Seq(Byte), NEW S \in Seq(Header), NEW c \in Nat, NEW h \in Header,
         NEW j \in Nat, NEW k \in 1..(Len(S) + 1), At(u, S, c, j, k)
  PROVE  At(u \o Bytes(c, Len(S) + 1, h.len), Append(S, h), c, j, k)
  <1> DEFINE T == Append(S, h)
             f == Bytes(c, Len(S) + 1, h.len)
             v == u \o f
             L == Len(S)
             U == Len(u)
             z == HdrLen + h.len
  <1>1. Len(T) = L + 1 /\ L \in Nat /\ k \in 1..(L + 1) /\ U \in Nat /\ h.len \in Nat
    BY AppendFacts DEF Header
  <1>2. f \in Seq(Byte) /\ Len(f) = z /\ z \in Nat /\ 1 <= z /\ \A i \in 1..z : f[i] = <<c, L + 1, i>>
    <2>1. L + 1 \in Nat /\ h.len \in Nat
      BY <1>1
    <2> QED
      BY <2>1, BytesFacts
  <1> HIDE DEF T, f
  <1>3. /\ Len(v) = U + Len(f) /\ \A i \in 1..U : v[i] = u[i]
        /\ \A i \in 1..Len(f) : v[U + i] = f[i] /\ U + i \in 1..Len(v)
    <2>1. f \in Seq(Byte) /\ u \in Seq(Byte)
      BY <1>2
    <2>2. /\ Len(u \o f) = Len(u) + Len(f) /\ \A i \in 1..Len(u) : (u \o f)[i] = u[i]
          /\ \A i \in 1..Len(f) : (u \o f)[Len(u) + i] = f[i] /\ Len(u) + i \in 1..Len(u \o f)
      BY ONLY <2>1, JoinFacts
    <2> QED
      BY <2>2
  <1> HIDE DEF v, L, U, z
  <1>4. k <= Len(T)
    BY <1>1
  <1>5. CASE k <= L
    <2>1. j \in 1..U /\ u[j] = <<c, k, 1>>
      BY <1>5 DEF At, L, U
    <2>2. j \in 1..Len(v) /\ v[j] = <<c, k, 1>>
      BY <1>1, <1>2, <1>3, <2>1
    <2> QED
      BY <1>4, <2>2 DEF At, v, T, f
  <1>6. CASE k > L
    <2>1. k = L + 1 /\ ~ (k <= L)
      BY <1>1, <1>6
    <2>2. j = U + 1
      BY <2>1 DEF At, L, U
    <2>3. 1 \in 1..z
      BY <1>2
    <2>4. v[j] = f[1] /\ j \in 1..Len(v) /\ f[1] = <<c, k, 1>>
      BY <1>2, <1>3, <2>1, <2>2, <2>3
    <2> QED
      BY <1>4, <2>4 DEF At, v, T, f
  <1> QED
    BY <1>1, <1>5, <1>6

LEMMA FramedAppend ==
  ASSUME NEW u \in Seq(Byte), NEW S \in Seq(Header), NEW c \in Nat, NEW h \in Header, Framed(u, S, c)
  PROVE  Framed(u \o Bytes(c, Len(S) + 1, h.len), Append(S, h), c)
  <1> DEFINE T == Append(S, h)
             f == Bytes(c, Len(S) + 1, h.len)
             v == u \o f
             L == Len(S)
             U == Len(u)
             z == HdrLen + h.len
  <1>1. /\ T \in Seq(Header) /\ Len(T) = L + 1 /\ L \in Nat /\ U \in Nat /\ h.len \in Nat
        /\ (\A k \in 1..L : T[k] = S[k] /\ k \in 1..(L + 1)) /\ T[L + 1] = h /\ L + 1 \in 1..(L + 1)
    BY AppendFacts DEF Header
  <1>2. f \in Seq(Byte) /\ Len(f) = z /\ z \in Nat /\ 1 <= z /\ \A i \in 1..z : f[i] = <<c, L + 1, i>>
    <2>1. L + 1 \in Nat /\ h.len \in Nat
      BY <1>1
    <2> QED
      BY <2>1, BytesFacts
  <1>3. ASSUME NEW j \in Nat, NEW k \in 1..(L + 1), At(u, S, c, j, k) PROVE At(v, T, c, j, k)
    BY <1>3, AtAppend
  <1> HIDE DEF T, f
  <1>4. /\ Len(v) = U + Len(f) /\ \A i \in 1..U : v[i] = u[i]
        /\ \A i \in 1..Len(f) : v[U + i] = f[i] /\ U + i \in 1..Len(v)
    <2>1. f \in Seq(Byte) /\ u \in Seq(Byte)
      BY <1>2
    <2>2. /\ Len(u \o f) = Len(u) + Len(f) /\ \A i \in 1..Len(u) : (u \o f)[i] = u[i]
          /\ \A i \in 1..Len(f) : (u \o f)[Len(u) + i] = f[i] /\ Len(u) + i \in 1..Len(u \o f)
      BY ONLY <2>1, JoinFacts
    <2> QED
      BY <2>2
  <1> HIDE DEF v, z
  <1>5. Size(T, L + 1) = z
    BY <1>1 DEF Size, z
  <1> SUFFICES ASSUME NEW j \in 1..Len(v)
               PROVE  \E k \in 1..Len(T) : \E i \in 1..Size(T, k) : From(v, T, c, j, k, i)
    BY DEF Framed, v, T, f
  <1>6. CASE j <= U
    <2>0. j \in 1..U
      BY <1>1, <1>2, <1>4, <1>6
    <2>1. PICK k \in 1..L : \E i \in 1..Size(S, k) : From(u, S, c, j, k, i)
      BY <2>0 DEF Framed
    <2>2. PICK i \in 1..Size(S, k) : From(u, S, c, j, k, i)
      BY <2>1
    <2> DEFINE y == Size(S, k)
    <2>3. y \in Nat /\ i \in 1..y
      BY SizeFacts
    <2>4. Size(T, k) = y /\ k \in 1..Len(T)
      BY <1>1 DEF Size
    <2>5. /\ \A m \in 0..(y - i) : j + m \in 1..U /\ u[j + m] = <<c, k, i + m>>
          /\ At(u, S, c, j + y - i + 1, k + 1)
      BY <2>2 DEF From
    <2> HIDE DEF y
    <2>6. j + y - i + 1 \in Nat /\ k + 1 \in 1..(L + 1)
      BY <1>1, <2>0, <2>3
    <2>7. At(v, T, c, j + y - i + 1, k + 1)
      BY <1>3, <2>5, <2>6
    <2>8. ASSUME NEW m \in 0..(y - i) PROVE j + m \in 1..Len(v) /\ v[j + m] = <<c, k, i + m>>
      <3>1. j + m \in 1..U /\ u[j + m] = <<c, k, i + m>>
        BY <2>5
      <3>2. j + m \in 1..Len(v)
        BY <1>1, <1>2, <1>4, <3>1, SMTT(20)
      <3> QED
        BY <1>4, <3>1, <3>2
    <2>9. From(v, T, c, j, k, i)
      BY <2>4, <2>7, <2>8 DEF From
    <2>10. i \in 1..Size(T, k)
      BY <2>3, <2>4
    <2> QED
      BY <2>4, <2>9, <2>10
  <1>7. CASE j > U
    <2> DEFINE i == j - U
               k == L + 1
    <2>1. Len(v) = U + z
      BY <1>2, <1>4
    <2>2. i \in 1..z /\ U + i = j
      BY <1>1, <1>2, <1>7, <2>1
    <2>3. ASSUME NEW m \in 0..(z - i) PROVE j + m \in 1..Len(v) /\ v[j + m] = <<c, k, i + m>>
      <3>1. i + m \in 1..z /\ U + (i + m) = j + m
        BY <1>1, <1>2, <2>2
      <3> QED
        BY <1>2, <1>4, <3>1
    <2>4. At(v, T, c, j + z - i + 1, k + 1)
      <3>1. ~ (k + 1 <= Len(T))
        BY <1>1
      <3>2. j + z - i + 1 = Len(v) + 1
        BY <1>1, <1>2, <2>1, <2>2
      <3> QED
        BY <3>1, <3>2 DEF At
    <2> HIDE DEF i
    <2>5. From(v, T, c, j, k, i)
      BY <1>5, <2>3, <2>4 DEF From
    <2> QED
      BY <1>1, <1>5, <2>2, <2>5
  <1>8. j <= U \/ j > U
    <2>1. j \in Nat /\ U \in Nat
      BY <1>1, <1>2, <1>4
    <2> QED
      BY <2>1
  <1> QED
    BY <1>6, <1>7, <1>8

LEMMA PosAppend ==
  ASSUME NEW u \in Seq(Byte), NEW S \in Seq(Header), NEW c \in Nat, NEW h \in Header,
         NEW K \in 1..Len(S), NEW n \in Nat, Pos(u, S, c, K, n)
  PROVE  Pos(u \o Bytes(c, Len(S) + 1, h.len), Append(S, h), c, K, n)
  <1> DEFINE T == Append(S, h)
             f == Bytes(c, Len(S) + 1, h.len)
             v == u \o f
  <1>1. Size(T, K) = Size(S, K) /\ Len(S) \in Nat /\ h.len \in Nat
    BY AppendFacts DEF Size, Header
  <1>2. f \in Seq(Byte) /\ Len(f) \in Nat
    <2>1. Len(S) + 1 \in Nat /\ h.len \in Nat
      BY <1>1
    <2>2. f \in Seq(Byte) /\ Len(f) = HdrLen + h.len /\ HdrLen + h.len \in Nat
      BY <2>1, BytesFacts
    <2> QED
      BY <2>2
  <1>3. CASE n > 0
    <2>1. 1 \in 1..Len(u) /\ u[1] = <<c, K, Size(S, K) - n + 1>>
      BY <1>3 DEF Pos
    <2> HIDE DEF f, T
    <2>2. Len(v) = Len(u) + Len(f) /\ Len(u) \in Nat /\ v[1] = u[1]
      BY <1>2, <2>1, JoinFacts
    <2>3. 1 \in 1..Len(v)
      BY <1>2, <2>1, <2>2
    <2> QED
      BY <1>1, <1>3, <2>1, <2>2, <2>3 DEF Pos, T, f
  <1>4. CASE ~ (n > 0)
    <2>1. At(u, S, c, 1, K + 1) /\ K + 1 \in 1..(Len(S) + 1)
      BY <1>1, <1>4 DEF Pos
    <2>2. At(v, T, c, 1, K + 1)
      BY <2>1, AtAppend
    <2> QED
      BY <1>4, <2>2 DEF Pos
  <1> QED
    BY <1>3, <1>4
-----------------------------------------------------------------------------
(* Runs of bytes read                                                        *)

LEMMA BeforeFacts ==
  ASSUME NEW a \in Byte, NEW b \in Byte, NEW c \in Byte
  PROVE  /\ Before(a, b) /\ Before(b, c) => Before(a, c)
         /\ Before(a, b) => ~ Before(b, a)
  <1>1. a[2] \in Nat /\ a[3] \in Nat /\ b[2] \in Nat /\ b[3] \in Nat /\ c[2] \in Nat /\ c[3] \in Nat
    BY DEF Byte
  <1> QED
    BY <1>1 DEF Before

LEMMA RunEmpty ==
  ASSUME NEW S, NEW c, NEW s, NEW d, NEW p
  PROVE  Run(<<>>, S, c, s, d, p)
  BY DEF Run, Sorted, Own, NoGap

LEMMA RunSame ==
  ASSUME NEW ring, NEW S, NEW T, NEW c, NEW s, NEW d, NEW p, NEW e, NEW q,
         \A k, i : ReadTo(S, s, d, p, k, i) <=> ReadTo(T, s, e, q, k, i),
         Run(ring, S, c, s, d, p)
  PROVE  Run(ring, T, c, s, e, q)
  <1>1. Sorted(ring) /\ Own(ring, S, c, s, d, p) /\ NoGap(ring, S, c, s, d, p)
    BY DEF Run
  <1>2. Own(ring, T, c, s, e, q)
    BY <1>1 DEF Own
  <1>3. NoGap(ring, T, c, s, e, q)
    BY <1>1 DEF NoGap
  <1> QED
    BY <1>1, <1>2, <1>3 DEF Run

\* The next frame is done: all of its payload has been read, or none is for s.
LEMMA RunNext ==
  ASSUME NEW S \in Seq(Header), NEW d \in Nat, d + 1 \in 1..Len(S), NEW p \in Int, NEW s, NEW c, NEW ring,
         S[d + 1].id = s /\ S[d + 1].type = "DATA" => S[d + 1].len <= p,
         Run(ring, S, c, s, d, p)
  PROVE  Run(ring, S, c, s, d + 1, 0)
  <1>1. ASSUME NEW k, NEW i PROVE ReadTo(S, s, d, p, k, i) <=> ReadTo(S, s, d + 1, 0, k, i)
    <2>1. CASE ~ (k \in 1..Len(S) /\ i \in 1..S[k].len /\ S[k].id = s /\ S[k].type = "DATA")
      BY <2>1 DEF ReadTo
    <2>2. CASE k \in 1..Len(S) /\ i \in 1..S[k].len /\ S[k].id = s /\ S[k].type = "DATA"
      <3>1. S[k].len \in Nat /\ k \in Nat /\ i \in Nat /\ i > 0 /\ i <= S[k].len
        BY <2>2, SizeFacts
      <3>2. k = d + 1 => i <= p
        BY <2>2, <3>1
      <3>3. k <= d \/ (k = d + 1 /\ i <= p) <=> k <= d + 1
        BY <3>1, <3>2
      <3>4. k <= d + 1 \/ (k = (d + 1) + 1 /\ i <= 0) <=> k <= d + 1
        BY <3>1
      <3> QED
        BY <2>2, <3>3, <3>4 DEF ReadTo
    <2> QED
      BY <2>1, <2>2
  <1> QED
    BY <1>1, RunSame

\* frps sends another frame, of which nothing has been read.
LEMMA RunAppend ==
  ASSUME NEW S \in Seq(Header), NEW h \in Header, NEW d \in Nat, d <= Len(S), NEW p \in Int,
         d = Len(S) => p <= 0, NEW s, NEW c, NEW ring, Run(ring, S, c, s, d, p)
  PROVE  Run(ring, Append(S, h), c, s, d, p)
  <1> DEFINE T == Append(S, h)
             L == Len(S)
  <1>1. L \in Nat /\ Len(T) = L + 1 /\ T \in Seq(Header) /\ \A k \in 1..L : T[k] = S[k]
    BY AppendFacts
  <1> HIDE DEF T, L
  <1>2. ASSUME NEW k, NEW i PROVE ReadTo(S, s, d, p, k, i) <=> ReadTo(T, s, d, p, k, i)
    <2>1. CASE k \in 1..L
      <3>1. k \in 1..(L + 1) /\ T[k] = S[k]
        BY <1>1, <2>1
      <3> QED
        BY <1>1, <2>1, <3>1 DEF ReadTo, L
    <2>2. CASE k \notin 1..L
      <3>1. ~ ReadTo(S, s, d, p, k, i)
        BY <2>2 DEF ReadTo, L
      <3>2. ASSUME ReadTo(T, s, d, p, k, i) PROVE FALSE
        <4>1. k \in 1..(L + 1) /\ i \in 1..T[k].len /\ (k <= d \/ (k = d + 1 /\ i <= p))
          BY <1>1, <3>2 DEF ReadTo
        <4>2. k = L + 1
          BY <1>1, <2>2, <4>1
        <4>3. k \in 1..Len(T)
          BY <1>1, <4>1
        <4>4. T[k].len \in Nat
          BY <1>1, <4>3, SizeFacts
        <4>5. i \in Nat /\ i > 0
          BY <4>1, <4>4
        <4>6. d <= L /\ (d = L => p <= 0)
          BY DEF L
        <4> QED
          BY <1>1, <4>1, <4>2, <4>5, <4>6
      <3> QED
        BY <3>1, <3>2
    <2> QED
      BY <2>1, <2>2
  <1>3. Run(ring, T, c, s, d, p)
    BY <1>2, RunSame
  <1> QED
    BY <1>3 DEF T

LEMMA ReadToByte ==
  ASSUME NEW S \in Seq(Header), NEW c \in Nat, NEW s, NEW d, NEW p, NEW k, NEW i, ReadTo(S, s, d, p, k, i)
  PROVE  k \in Nat /\ i \in Nat \ {0} /\ <<c, k, HdrLen + i>> \in Byte /\ HdrLen \in Nat
  <1>1. k \in 1..Len(S) /\ i \in 1..S[k].len
    BY DEF ReadTo
  <1>2. S[k].len \in Nat /\ HdrLen \in Nat
    BY <1>1, SizeFacts
  <1>3. k \in Nat /\ i \in Nat \ {0} /\ HdrLen + i \in Nat
    BY <1>1, <1>2
  <1> QED
    BY <1>2, <1>3 DEF Byte

\* Bytes are taken from the front.
LEMMA RunDrop ==
  ASSUME NEW S \in Seq(Header), NEW c \in Nat, NEW s, NEW d, NEW p, NEW ring \in Seq(Byte),
         NEW n \in 0..Len(ring), Run(ring, S, c, s, d, p)
  PROVE  Run(Drop(ring, n), S, c, s, d, p)
  <1> DEFINE e == Drop(ring, n)
             L == Len(ring)
  <1>1. L \in Nat /\ n \in 0..L
    OBVIOUS
  <1>2. e \in Seq(Byte) /\ Len(e) = L - n /\ \A k \in 1..(L - n) : e[k] = ring[n + k] /\ n + k \in 1..L
    BY DropFacts
  <1>3. Sorted(ring) /\ Own(ring, S, c, s, d, p) /\ NoGap(ring, S, c, s, d, p)
    BY DEF Run
  <1>31. \A i, j \in 1..L : i < j => Before(ring[i], ring[j])
    BY <1>3 DEF Sorted
  <1>32. \A j \in 1..L : \E k, i : ring[j] = <<c, k, HdrLen + i>> /\ ReadTo(S, s, d, p, k, i)
    BY <1>3 DEF Own
  <1>33. \A j \in 1..L : ring[j] \in Byte
    OBVIOUS
  <1> HIDE DEF e
  <1>4. Sorted(e)
    <2> SUFFICES ASSUME NEW i \in 1..(L - n), NEW j \in 1..(L - n), i < j PROVE Before(e[i], e[j])
      BY <1>2 DEF Sorted
    <2>1. n + i \in 1..L /\ n + j \in 1..L /\ e[i] = ring[n + i] /\ e[j] = ring[n + j]
      BY <1>2
    <2>2. n + i < n + j
      BY <1>1
    <2> QED
      BY <1>31, <2>1, <2>2
  <1>5. Own(e, S, c, s, d, p)
    BY <1>2, <1>32 DEF Own
  <1>6. NoGap(e, S, c, s, d, p)
    <2> SUFFICES ASSUME NEW k, NEW i, e # <<>>, ReadTo(S, s, d, p, k, i), Before(e[1], <<c, k, HdrLen + i>>)
                 PROVE  \E j \in 1..Len(e) : e[j] = <<c, k, HdrLen + i>>
      BY DEF NoGap
    <2> DEFINE b == <<c, k, HdrLen + i>>
               m == n + 1
    <2>1. b \in Byte
      BY ReadToByte
    <2>2. Len(e) # 0
      BY <1>2
    <2>3. 1 \in 1..(L - n) /\ m \in 1..L /\ 1 \in 1..L
      BY <1>1, <1>2, <2>2
    <2>4. e[1] = ring[m]
      BY <1>2, <2>3
    <2>5. Before(ring[m], b)
      BY <2>4
    <2>6. Before(ring[1], b)
      <3>1. CASE n = 0
        BY <2>5, <3>1
      <3>2. CASE n # 0
        <4>1. 1 < m
          BY <1>1, <3>2
        <4>2. Before(ring[1], ring[m])
          BY <1>31, <2>3, <4>1
        <4> HIDE DEF b, m
        <4> QED
          BY <1>33, <2>1, <2>3, <2>5, <4>2, BeforeFacts
      <3> QED
        BY <3>1, <3>2
    <2>7. ring # <<>>
      BY <2>3
    <2>8. PICK j \in 1..L : ring[j] = b
      BY <1>3, <2>6, <2>7 DEF NoGap
    <2>9. ~ (j < m)
      <3> SUFFICES ASSUME j < m PROVE FALSE
        OBVIOUS
      <3>1. Before(b, ring[m])
        BY <1>31, <2>3, <2>8
      <3> HIDE DEF b, m
      <3> QED
        BY <1>33, <2>1, <2>3, <2>5, <3>1, BeforeFacts
    <2>10. j - n \in 1..(L - n) /\ n + (j - n) = j
      BY <1>1, <2>9
    <2>11. e[j - n] = b
      BY <1>2, <2>8, <2>10
    <2> QED
      BY <1>2, <2>10, <2>11
  <1> QED
    BY <1>4, <1>5, <1>6 DEF Run, e

\* The g bytes that come next are put behind.
LEMMA RunGrow ==
  ASSUME NEW S \in Seq(Header), NEW c \in Nat, NEW s, NEW d \in Nat, d + 1 \in 1..Len(S),
         S[d + 1].id = s, S[d + 1].type = "DATA",
         NEW p \in 0..S[d + 1].len, NEW g \in 0..(S[d + 1].len - p),
         NEW ring \in Seq(Byte), NEW t \in Seq(Byte), Len(t) = g,
         \A m \in 1..g : t[m] = <<c, d + 1, HdrLen + (p + m)>>,
         Run(ring, S, c, s, d, p)
  PROVE  Run(ring \o t, S, c, s, d, p + g)
  <1> DEFINE e == ring \o t
             L == Len(ring)
             l == S[d + 1].len
  <1>1. L \in Nat /\ l \in Nat /\ HdrLen \in Nat
    BY SizeFacts
  <1>2. p \in 0..l /\ g \in 0..(l - p) /\ p \in Nat /\ g \in Nat /\ p + g \in 0..l
    BY <1>1
  <1>3. /\ e \in Seq(Byte) /\ Len(e) = L + g
        /\ \A k \in 1..L : e[k] = ring[k]
        /\ \A k \in (L + 1)..(L + g) : e[k] = t[k - L] /\ k - L \in 1..g
    <2>1. /\ ring \o t \in Seq(Byte) /\ Len(ring \o t) = Len(ring) + Len(t)
          /\ \A k \in 1..Len(ring) : (ring \o t)[k] = ring[k]
          /\ \A k \in (Len(ring) + 1)..(Len(ring) + Len(t)) :
               (ring \o t)[k] = t[k - Len(ring)] /\ k - Len(ring) \in 1..Len(t)
      BY JoinFacts
    <2> QED
      BY <2>1
  <1>4. /\ \A i, j \in 1..L : i < j => Before(ring[i], ring[j])
        /\ \A j \in 1..L : \E k, i : ring[j] = <<c, k, HdrLen + i>> /\ ReadTo(S, s, d, p, k, i)
        /\ NoGap(ring, S, c, s, d, p)
    BY DEF Run, Sorted, Own
  <1> HIDE DEF e, L
  <1>5. ASSUME NEW j \in (L + 1)..(L + g)
        PROVE  e[j] = <<c, d + 1, HdrLen + (p + (j - L))>> /\ p + (j - L) \in 1..(p + g) /\ p + (j - L) > p
    <2>1. e[j] = t[j - L] /\ j - L \in 1..g
      BY <1>3
    <2>2. e[j] = <<c, d + 1, HdrLen + (p + (j - L))>>
      BY <2>1
    <2> QED
      BY <1>1, <1>2, <2>1, <2>2
  <1>6. ASSUME NEW k, NEW i, ReadTo(S, s, d, p, k, i)
        PROVE  /\ ReadTo(S, s, d, p + g, k, i) /\ k \in Nat /\ i \in Nat
               /\ k < d + 1 \/ (k = d + 1 /\ i <= p)
    <2>1. k \in Nat /\ i \in Nat
      <3>1. k \in 1..Len(S) /\ i \in 1..S[k].len
        BY <1>6 DEF ReadTo
      <3>2. S[k].len \in Nat
        BY <3>1, SizeFacts
      <3> QED
        BY <3>1, <3>2
    <2>2. k <= d \/ (k = d + 1 /\ i <= p)
      BY <1>6 DEF ReadTo
    <2>3. k <= d \/ (k = d + 1 /\ i <= p + g)
      BY <1>2, <2>1, <2>2
    <2>4. ReadTo(S, s, d, p + g, k, i)
      BY <1>6, <2>3 DEF ReadTo
    <2> QED
      BY <2>1, <2>2, <2>4
  <1>7. \A j \in 1..(L + g) : j \in 1..L \/ j \in (L + 1)..(L + g)
    BY <1>1, <1>2
  <1>8. Sorted(e)
    <2> SUFFICES ASSUME NEW i \in 1..(L + g), NEW j \in 1..(L + g), i < j PROVE Before(e[i], e[j])
      BY <1>3 DEF Sorted
    <2>1. CASE i \in 1..L /\ j \in 1..L
      BY <1>3, <1>4, <2>1
    <2>2. CASE i \in 1..L /\ j \in (L + 1)..(L + g)
      <3>1. PICK k, x : ring[i] = <<c, k, HdrLen + x>> /\ ReadTo(S, s, d, p, k, x)
        BY <1>4, <2>2
      <3>2. k \in Nat /\ x \in Nat /\ (k < d + 1 \/ (k = d + 1 /\ x <= p))
        BY <1>6, <3>1
      <3> DEFINE y == p + (j - L)
      <3>3. e[j] = <<c, d + 1, HdrLen + y>> /\ y \in 1..(p + g) /\ y > p
        BY <1>5, <2>2
      <3>4. e[i] = <<c, k, HdrLen + x>>
        BY <1>3, <2>2, <3>1
      <3> HIDE DEF y
      <3>5. y \in Nat
        BY <1>2, <3>3
      <3>6. k < d + 1 \/ (k = d + 1 /\ HdrLen + x < HdrLen + y)
        BY <1>1, <1>2, <3>2, <3>3, <3>5
      <3> QED
        BY <3>3, <3>4, <3>6 DEF Before
    <2>3. CASE i \in (L + 1)..(L + g) /\ j \in (L + 1)..(L + g)
      <3>1. /\ e[i] = <<c, d + 1, HdrLen + (p + (i - L))>>
            /\ e[j] = <<c, d + 1, HdrLen + (p + (j - L))>>
        BY <1>5, <2>3
      <3>2. HdrLen + (p + (i - L)) < HdrLen + (p + (j - L))
        BY <1>1, <1>2, <2>3
      <3> QED
        BY <3>1, <3>2 DEF Before
    <2>4. ~ (i \in (L + 1)..(L + g) /\ j \in 1..L)
      BY <1>1, <1>2
    <2> QED
      BY <1>7, <2>1, <2>2, <2>3, <2>4
  <1>9. Own(e, S, c, s, d, p + g)
    <2> SUFFICES ASSUME NEW j \in 1..(L + g)
                 PROVE  \E k, i : e[j] = <<c, k, HdrLen + i>> /\ ReadTo(S, s, d, p + g, k, i)
      BY <1>3 DEF Own
    <2>1. CASE j \in 1..L
      <3>1. PICK k, i : ring[j] = <<c, k, HdrLen + i>> /\ ReadTo(S, s, d, p, k, i)
        BY <1>4, <2>1
      <3>2. e[j] = <<c, k, HdrLen + i>> /\ ReadTo(S, s, d, p + g, k, i)
        BY <1>3, <1>6, <2>1, <3>1
      <3> QED
        BY <3>2
    <2>2. CASE j \in (L + 1)..(L + g)
      <3> DEFINE y == p + (j - L)
      <3>1. e[j] = <<c, d + 1, HdrLen + y>> /\ y \in 1..(p + g)
        BY <1>5, <2>2
      <3> HIDE DEF y
      <3>2. y \in 1..l /\ y <= p + g
        BY <1>1, <1>2, <3>1
      <3>3. ReadTo(S, s, d, p + g, d + 1, y)
        BY <3>2 DEF ReadTo
      <3> QED
        BY <3>1, <3>3
    <2> QED
      BY <1>7, <2>1, <2>2
  <1>10. NoGap(e, S, c, s, d, p + g)
    <2> SUFFICES ASSUME NEW k, NEW i, e # <<>>, ReadTo(S, s, d, p + g, k, i), Before(e[1], <<c, k, HdrLen + i>>)
                 PROVE  \E j \in 1..Len(e) : e[j] = <<c, k, HdrLen + i>>
      BY DEF NoGap
    <2>1. k \in Nat /\ i \in Nat \ {0}
      BY ReadToByte
    <2>2. CASE k = d + 1 /\ i > p
      <3>1. i <= p + g
        BY <2>2 DEF ReadTo
      <3> DEFINE j == L + (i - p)
      <3>2. j \in (L + 1)..(L + g) /\ p + (j - L) = i
        BY <1>1, <1>2, <2>1, <2>2, <3>1
      <3>3. e[j] = <<c, d + 1, HdrLen + (p + (j - L))>>
        BY <1>5, <3>2
      <3>4. j \in 1..(L + g)
        BY <1>1, <3>2
      <3> HIDE DEF j
      <3>5. e[j] = <<c, k, HdrLen + i>>
        BY <2>2, <3>2, <3>3
      <3> QED
        BY <1>3, <3>4, <3>5
    <2>3. CASE ~ (k = d + 1 /\ i > p)
      <3>1. k <= d \/ (k = d + 1 /\ i <= p)
        BY <1>2, <2>1, <2>3 DEF ReadTo
      <3>2. ReadTo(S, s, d, p, k, i)
        BY <3>1 DEF ReadTo
      <3>3. CASE ring # <<>>
        <4>1. L # 0
          BY <3>3 DEF L
        <4>2. 1 \in 1..L
          BY <1>1, <4>1
        <4>3. Before(ring[1], <<c, k, HdrLen + i>>)
          BY <1>3, <4>2
        <4>4. PICK j \in 1..L : ring[j] = <<c, k, HdrLen + i>>
          BY <1>4, <3>2, <3>3, <4>3 DEF NoGap, L
        <4>5. j \in 1..(L + g) /\ e[j] = ring[j]
          BY <1>1, <1>2, <1>3
        <4> QED
          BY <1>3, <4>4, <4>5
      <3>4. CASE ring = <<>>
        <4>1. L = 0
          BY <3>4 DEF L
        <4>2. Len(e) # 0
          BY <1>3
        <4>3. 1 \in (L + 1)..(L + g) /\ 1 - L = 1
          BY <1>2, <1>3, <4>1, <4>2
        <4>4. e[1] = <<c, d + 1, HdrLen + (p + 1)>>
          BY <1>5, <4>3
        <4>5. d + 1 < k \/ (d + 1 = k /\ HdrLen + (p + 1) < HdrLen + i)
          BY <4>4 DEF Before
        <4> QED
          BY <1>1, <1>2, <2>1, <3>1, <4>5
      <3> QED
        BY <3>3, <3>4
    <2> QED
      BY <2>2, <2>3
  <1> QED
    BY <1>8, <1>9, <1>10 DEF Run, e

-----------------------------------------------------------------------------
(* The invariant holds at first                                              *)

LEMMA InitFInv == Init => FInv
  <1> SUFFICES ASSUME Init PROVE Parts
    BY DEF FInv
  <1>1. Ids = Work \cup {"main"} /\ "none" \notin Ids /\ "abandon" \notin Ids /\ "none" \notin Rings
    BY FramingAssumption DEF Ids, Rings
  <1>2. TypeOK
    BY <1>1 DEF Init, TypeOK, NoStreams, NoBevs, NoBytes, Rings, States
  <1>3. SentInv /\ StreamInv /\ HandledInv
    <2>1. sent = <<>> /\ handled = <<>> /\ \A s \in Ids : stream[s] # "fin"
      BY DEF Init, NoStreams
    <2>2. Len(sent) = 0 /\ Len(handled) = 0
      BY <2>1
    <2> QED
      BY <2>1, <2>2 DEF SentInv, StreamInv, HandledInv
  <1>4. FrameInv
    <2>1. Unread = <<>> /\ Len(Unread) = 0 /\ cur_stream = "none" /\ Len(sent) = 0 /\ This = 1
      BY DEF Init, Unread, This
    <2> QED
      BY <2>1 DEF FrameInv, Framed, At
  <1>5. EndInv
    BY <1>1 DEF Init, EndInv, Dangling
  <1>6. \A r \in Rings : rx_ring[r] = <<>>
    BY DEF Init, NoBytes, Rings
  <1>7. RunInv
    BY <1>6, RunEmpty DEF RunInv, Rings
  <1>8. HeldInv
    <2>1. cur_stream = "none"
      BY DEF Init
    <2> QED
      BY <1>1, <1>6, <2>1 DEF HeldInv
  <1> QED
    BY <1>2, <1>3, <1>4, <1>5, <1>7, <1>8 DEF Parts

-----------------------------------------------------------------------------
(* The peer, the network and the streams                                     *)

LEMMA Names ==
  /\ "main" \in Ids /\ "none" \notin Ids /\ "abandon" \notin Ids /\ "none" \notin Rings /\ "abandon" \in Rings
  /\ Ids \subseteq Rings /\ Work \subseteq Ids
  /\ "kept" \notin Rings /\ "socks5" \notin Rings
  BY FramingAssumption DEF Ids, Rings

LEMMA ThisFacts ==
  ASSUME TypeOK, HandledInv
  PROVE  Len(handled) \in Nat /\ Len(sent) \in Nat /\ This \in Nat \ {0} /\ This <= Len(sent) + 1
  <1>1. Len(handled) \in Nat /\ Len(sent) \in Nat
    BY DEF TypeOK
  <1> QED
    BY <1>1 DEF This, HandledInv

LEMMA SentFacts ==
  ASSUME TypeOK
  PROVE  /\ sent \in Seq(Header) /\ Len(sent) \in Nat
         /\ \A k \in 1..Len(sent) : /\ sent[k] \in Header /\ sent[k].id \in Ids /\ sent[k].len \in Nat
                                    /\ sent[k].type \in Types
  <1>1. sent \in Seq(Header)
    BY DEF TypeOK, Header
  <1>2. \A k \in 1..Len(sent) : sent[k] \in Header
    BY <1>1
  <1> QED
    BY <1>1, <1>2 DEF Header

\* Steps that leave the streams, the rings and what has been read alone.
LEMMA QuietKeeps ==
  ASSUME SentInv, StreamInv, HandledInv, EndInv, RunInv, HeldInv, pc' \in {"idle", "loop"},
         UNCHANGED <<sent, cur_stream, stream_len, stream, bevs, rx_ring, handled, conn>>
  PROVE  SentInv' /\ StreamInv' /\ HandledInv' /\ EndInv' /\ RunInv' /\ HeldInv'
  <1>1. This' = This
    BY DEF This
  <1>2. SentInv' /\ StreamInv'
    BY DEF SentInv, StreamInv
  <1>3. HandledInv'
    BY DEF HandledInv, HandledRight, Payload
  <1>4. EndInv'
    BY <1>1 DEF EndInv, Dangling
  <1>5. RunInv'
    BY <1>1 DEF RunInv, Part
  <1>6. HeldInv'
    BY <1>1 DEF HeldInv, Keeps, Dangling, Payload
  <1> QED
    BY <1>2, <1>3, <1>4, <1>5, <1>6

\* A freed stream has no bytes.
LEMMA GoneEmpty ==
  ASSUME TypeOK, HandledInv, FrameInv, HeldInv, NEW s \in Ids, stream[s] = "gone"
  PROVE  rx_ring[s] = <<>>
  <1>1. ~ Keeps(s) /\ s \in Rings /\ s # "none" /\ s # "abandon"
    BY Names DEF Keeps
  <1>2. s = cur_stream => Dangling(s)
    <2> SUFFICES ASSUME s = cur_stream PROVE Dangling(s)
      OBVIOUS
    <2>1. Holder(cur_stream, sent[This])
      BY <1>1 DEF FrameInv
    <2> QED
      BY <1>1, <2>1 DEF Holder, Live, Dangling
  <1> QED
    BY <1>1, <1>2 DEF HeldInv

LEMMA ArriveKeeps ==
  ASSUME Parts, NEW n \in Nat, Arrive(n)
  PROVE  Parts'
  <1>1. /\ n <= Len(wire) /\ input' = input \o Take(wire, n) /\ wire' = Drop(wire, n) /\ pc' = "loop"
        /\ UNCHANGED <<sent, cur_stream, tmux_hdr, stream_len, stream, bevs, rx_ring, handled, conn, torn>>
    BY DEF Arrive, parser
  <1>2. TypeOK /\ SentInv /\ StreamInv /\ HandledInv /\ FrameInv /\ EndInv /\ RunInv /\ HeldInv
    BY DEF Parts
  <1>3. input \in Seq(Byte) /\ wire \in Seq(Byte)
    BY <1>2 DEF TypeOK
  <1>4. n \in 0..Len(wire)
    BY <1>1, <1>3
  <1>5. Take(wire, n) \in Seq(Byte) /\ Drop(wire, n) \in Seq(Byte) /\ Take(wire, n) \o Drop(wire, n) = wire
    BY <1>3, <1>4, TakeFacts, DropFacts, TakeDrop
  <1>6. input' \in Seq(Byte) /\ wire' \in Seq(Byte)
    BY <1>1, <1>3, <1>5, JoinFacts
  <1>7. Unread' = Unread
    <2> DEFINE a == Take(wire, n)
               b == Drop(wire, n)
    <2>1. a \in Seq(Byte) /\ b \in Seq(Byte) /\ a \o b = wire
      BY <1>5
    <2>2. Unread' = (input \o a) \o b
      BY <1>1 DEF Unread
    <2> HIDE DEF a, b
    <2>3. (input \o a) \o b = input \o (a \o b)
      BY <1>3, <2>1, JoinAssoc
    <2> QED
      BY <2>1, <2>2, <2>3 DEF Unread
  <1>8. TypeOK'
    BY <1>1, <1>2, <1>6 DEF TypeOK
  <1>9. SentInv' /\ StreamInv' /\ HandledInv' /\ EndInv' /\ RunInv' /\ HeldInv'
    BY <1>1, <1>2, QuietKeeps
  <1>10. FrameInv'
    <2>1. This' = This
      BY <1>1 DEF This
    <2> QED
      BY <1>1, <1>2, <1>7, <2>1 DEF FrameInv, Holder, Live, Dangling
  <1> QED
    BY <1>8, <1>9, <1>10 DEF Parts

LEMMA LoopEndsKeeps ==
  ASSUME Parts, LoopEnds
  PROVE  Parts'
  <1>1. /\ pc' = "idle" /\ (cur_stream # "none" => tmux_hdr' = tmux_hdr)
        /\ UNCHANGED <<sent, wire, input, cur_stream, stream_len, stream, bevs, rx_ring, handled, conn, torn>>
    BY DEF LoopEnds
  <1>2. TypeOK /\ SentInv /\ StreamInv /\ HandledInv /\ FrameInv /\ EndInv /\ RunInv /\ HeldInv
    BY DEF Parts
  <1>3. TypeOK'
    BY <1>1, <1>2 DEF TypeOK
  <1>4. SentInv' /\ StreamInv' /\ HandledInv' /\ EndInv' /\ RunInv' /\ HeldInv'
    BY <1>1, <1>2, QuietKeeps
  <1>5. FrameInv'
    <2>1. This' = This /\ Unread' = Unread
      BY <1>1 DEF This, Unread
    <2> QED
      BY <1>1, <1>2, <2>1 DEF FrameInv, Holder, Live, Dangling
  <1> QED
    BY <1>3, <1>4, <1>5 DEF Parts

\* A local close: a half-closed stream stays a holder of its frame, one that is
\* freed in the middle of a frame leaves cur_stream dangling.
LEMMA LocalCloseKeeps ==
  ASSUME Parts, NEW s \in Work, LocalClose(s)
  PROVE  Parts'
  <1>1. /\ pc = "idle" /\ bevs[s] > 0
        /\ UNCHANGED <<sent, wire, input, cur_stream, tmux_hdr, stream_len, handled, pc, conn, torn>>
    BY DEF LocalClose, parser
  <1>2. TypeOK /\ SentInv /\ StreamInv /\ HandledInv /\ FrameInv /\ EndInv /\ RunInv /\ HeldInv
    BY DEF Parts
  <1>3. stream \in [Ids -> States] /\ bevs \in [Ids -> Nat] /\ s \in Ids /\ rx_ring \in [Rings -> Seq(Byte)]
    BY <1>2, Names DEF TypeOK
  <1>4. \/ /\ stream[s] \in {"listed", "tunnel", "socks5"} /\ stream' = [stream EXCEPT ![s] = "local"]
           /\ bevs' = [bevs EXCEPT ![s] = bevs[s] - 1] /\ rx_ring' = rx_ring
        \/ /\ stream[s] \in {"local", "fin"} /\ stream' = [stream EXCEPT ![s] = "gone"]
           /\ rx_ring' = Without(rx_ring, stream') /\ bevs' = bevs
    BY DEF LocalClose, Established
  <1>5. bevs' \in [Ids -> Nat] /\ stream' \in [Ids -> States]
    <2>1. bevs[s] - 1 \in Nat
      BY <1>1, <1>3
    <2> QED
      BY <1>3, <1>4, <2>1 DEF States
  <1>6. /\ \A t \in Ids : t # s => stream'[t] = stream[t] /\ bevs'[t] = bevs[t]
        /\ \/ stream[s] \in {"listed", "tunnel", "socks5"} /\ stream'[s] = "local"
           \/ stream[s] \in {"local", "fin"} /\ stream'[s] = "gone" /\ bevs'[s] = bevs[s]
    BY <1>3, <1>4
  <1>7. /\ rx_ring' \in [Rings -> Seq(Byte)] /\ \A r \in Rings : rx_ring'[r] = rx_ring[r] \/ rx_ring'[r] = <<>>
        /\ \A r \in Rings : r \notin Ids => rx_ring'[r] = rx_ring[r]
        /\ \A t \in Ids : stream'[t] = "gone" => rx_ring'[t] = <<>>
        /\ \A t \in Ids : stream'[t] # "gone" => rx_ring'[t] = rx_ring[t]
    <2>1. CASE rx_ring' = rx_ring /\ stream'[s] = "local"
      <3>1. \A t \in Ids : stream'[t] = "gone" => stream[t] = "gone" /\ t \in Rings
        BY <1>6, <2>1, Names
      <3>2. \A t \in Ids : stream'[t] = "gone" => rx_ring[t] = <<>>
        BY <1>2, <3>1, GoneEmpty
      <3> QED
        BY <1>3, <2>1, <3>2, Names
    <2>2. CASE rx_ring' = Without(rx_ring, stream')
      <3>1. rx_ring' = [r \in Rings |-> IF r \in Ids /\ stream'[r] = "gone" THEN <<>> ELSE rx_ring[r]]
        BY <1>3, <2>2 DEF Without
      <3> QED
        BY <1>3, <3>1, Names
    <2> QED
      BY <1>3, <1>4, <1>6, <2>1, <2>2
  <1>8. TypeOK'
    BY <1>1, <1>2, <1>5, <1>7 DEF TypeOK
  <1>9. This' = This /\ Unread' = Unread
    BY <1>1 DEF This, Unread
  <1>10. SentInv'
    BY <1>1, <1>2 DEF SentInv
  <1>11. \A k \in 1..Len(sent) : sent[k].id \in Ids
    BY <1>2, SentFacts
  <1>12. Len(handled) <= Len(sent) /\ Len(handled) \in Nat /\ Len(sent) \in Nat
    BY <1>2, ThisFacts DEF HandledInv
  <1>13. \A k \in 1..Len(handled) : k \in 1..Len(sent)
    BY <1>12
  <1>14. StreamInv'
    <2>1. ASSUME NEW k \in 1..Len(sent) PROVE stream'[sent[k].id] # "absent"
      <3>1. sent[k].id \in Ids /\ stream[sent[k].id] # "absent"
        BY <1>2, <1>11 DEF StreamInv
      <3> QED
        BY <1>6, <3>1
    <2>2. ASSUME NEW k \in 1..Len(handled), sent[k].type = "ACK" PROVE stream'[sent[k].id] # "syn"
      <3>1. sent[k].id \in Ids /\ stream[sent[k].id] # "syn"
        BY <1>2, <1>11, <1>13, <2>2 DEF StreamInv
      <3> QED
        BY <1>6, <3>1
    <2>3. ASSUME NEW t \in Ids, stream'[t] = "fin"
          PROVE  \E k \in 1..Len(handled) : sent[k].id = t /\ sent[k].type = "FIN"
      <3>1. stream[t] = "fin"
        BY <1>6, <2>3
      <3> QED
        BY <1>2, <3>1 DEF StreamInv
    <2> QED
      BY <1>1, <2>1, <2>2, <2>3 DEF StreamInv
  <1>15. HandledInv'
    <2>1. ASSUME NEW k \in 1..Len(handled) PROVE HandledRight(k)'
      <3>1. HandledRight(k) /\ sent[k].id \in Ids
        BY <1>2, <1>11, <1>13 DEF HandledInv
      <3>2. /\ stream[sent[k].id] = "gone" => stream'[sent[k].id] = "gone"
            /\ stream[sent[k].id] \in {"local", "gone"} => stream'[sent[k].id] \in {"local", "gone"}
            /\ stream[sent[k].id] \in {"socks5", "local", "fin", "gone"} =>
                 stream'[sent[k].id] \in {"socks5", "local", "fin", "gone"}
        BY <1>6, <3>1
      <3> QED
        BY <1>1, <3>1, <3>2 DEF HandledRight, Payload
    <2> QED
      BY <1>1, <1>12, <2>1 DEF HandledInv
  <1>16. ASSUME cur_stream # "none"
         PROVE  /\ This \in 1..Len(sent) /\ sent[This].id \in Ids /\ Holder(cur_stream, sent[This])'
                /\ cur_stream = s => stream[s] # "fin"
                /\ Dangling(cur_stream)' => Dangling(cur_stream) \/ cur_stream = s
    <2>1. Holder(cur_stream, sent[This]) /\ This <= Len(sent)
      BY <1>2, <1>16 DEF FrameInv
    <2>2. This \in 1..Len(sent)
      BY <1>2, <2>1, ThisFacts
    <2>3. sent[This].id \in Ids /\ sent'[This'].id = sent[This].id
      BY <1>1, <1>9, <1>11, <2>2
    <2>4. stream[sent[This].id] \in {"listed", "tunnel", "socks5", "local", "gone"}
      BY <2>1 DEF Holder, Live, Dangling
    <2>5. Holder(cur_stream, sent[This])'
      <3>1. CASE sent[This].id # s
        <4>1. stream'[sent[This].id] = stream[sent[This].id]
          BY <1>6, <2>3, <3>1
        <4> QED
          BY <1>1, <2>1, <2>3, <4>1 DEF Holder, Live, Dangling
      <3>2. CASE sent[This].id = s
        <4>1. stream[s] # "gone"
          BY <1>6
        <4>2. cur_stream = s
          BY <2>1, <3>2, <4>1 DEF Holder, Live, Dangling
        <4> QED
          BY <1>1, <1>6, <2>3, <3>2, <4>2 DEF Holder, Live, Dangling
      <3> QED
        BY <3>1, <3>2
    <2>6. cur_stream = s => stream[s] # "fin"
      BY <2>1, <2>4, Names DEF Holder, Live, Dangling
    <2>7. Dangling(cur_stream)' => Dangling(cur_stream) \/ cur_stream = s
      BY <1>1, <1>6, Names DEF Dangling
    <2> QED
      BY <2>2, <2>3, <2>5, <2>6, <2>7
  <1>17. FrameInv'
    BY <1>1, <1>2, <1>9, <1>16 DEF FrameInv
  <1>18. EndInv'
    <2>1. ASSUME Dangling(cur_stream)' PROVE bevs'[cur_stream'] > 0
      <3>1. cur_stream # "none" /\ cur_stream \in Ids /\ stream'[cur_stream] = "gone"
        BY <1>1, <2>1, Names DEF Dangling
      <3>2. CASE cur_stream = s
        BY <1>1, <1>6, <3>1, <3>2
      <3>3. CASE cur_stream # s
        <4>1. Dangling(cur_stream) /\ bevs'[cur_stream] = bevs[cur_stream]
          BY <1>6, <1>16, <2>1, <3>1, <3>3
        <4> QED
          BY <1>1, <1>2, <4>1 DEF EndInv
      <3> QED
        BY <3>2, <3>3
    <2> QED
      BY <1>1, <2>1 DEF EndInv
  <1>19. RunInv'
    <2> SUFFICES ASSUME NEW t \in Ids PROVE Run(rx_ring'[t], sent, conn, t, Len(handled), Part(t))
      BY <1>1, <1>9 DEF RunInv, Part
    <2>1. Run(rx_ring[t], sent, conn, t, Len(handled), Part(t))
      BY <1>2 DEF RunInv
    <2>2. rx_ring'[t] = rx_ring[t] \/ rx_ring'[t] = <<>>
      BY <1>7, Names
    <2> QED
      BY <2>1, <2>2, RunEmpty
  <1>20. HeldInv'
    <2> SUFFICES ASSUME NEW r \in Rings, ~ Keeps(r)'
                 PROVE  rx_ring'[r] = IF r = cur_stream /\ ~ Dangling(r)'
                                      THEN Take(Payload(This), sent[This].len - stream_len) ELSE <<>>
      BY <1>1, <1>9 DEF HeldInv, Payload
    <2>1. CASE r \in Ids /\ stream'[r] = "gone"
      <3>1. rx_ring'[r] = <<>>
        BY <1>7, <2>1
      <3>2. r = cur_stream => Dangling(r)'
        <4>1. ASSUME r = cur_stream PROVE r \in Work
          <5>1. r # "none"
            BY <2>1, Names
          <5>2. Holder(cur_stream, sent[This])'
            BY <1>16, <4>1, <5>1
          <5> QED
            BY <1>1, <1>9, <2>1, <4>1, <5>2, Names DEF Holder, Live, Dangling
        <4> QED
          BY <2>1, <4>1 DEF Dangling
      <3> QED
        BY <3>1, <3>2
    <2>2. CASE ~ (r \in Ids /\ stream'[r] = "gone")
      <3>1. rx_ring'[r] = rx_ring[r] /\ ~ Dangling(r)'
        BY <1>7, <2>2, Names DEF Dangling
      <3>2. r # s
        BY <1>3, <1>6, <2>2 DEF Keeps
      <3>3. ~ Keeps(r) /\ ~ Dangling(r)
        BY <1>6, <2>2, <3>2, Names DEF Keeps, Dangling
      <3> QED
        BY <1>2, <3>1, <3>3 DEF HeldInv
    <2> QED
      BY <2>1, <2>2
  <1> QED
    BY <1>8, <1>10, <1>14, <1>15, <1>17, <1>18, <1>19, <1>20 DEF Parts

\* The ring of a socks5 client is emptied when its target is connected.
LEMMA ConnectedKeeps ==
  ASSUME Parts, NEW s \in Work, Connected(s)
  PROVE  Parts'
  <1>1. /\ pc = "idle" /\ stream[s] \in {"socks5", "fin"} /\ rx_ring' = [rx_ring EXCEPT ![s] = <<>>]
        /\ UNCHANGED <<sent, wire, input, cur_stream, tmux_hdr, stream_len, stream, bevs, handled, pc, conn, torn>>
    BY DEF Connected, parser
  <1>2. TypeOK /\ SentInv /\ StreamInv /\ HandledInv /\ FrameInv /\ EndInv /\ RunInv /\ HeldInv
    BY DEF Parts
  <1>3. rx_ring \in [Rings -> Seq(Byte)] /\ s \in Rings /\ s \in Ids
    BY <1>2, Names DEF TypeOK
  <1>4. rx_ring' \in [Rings -> Seq(Byte)] /\ rx_ring'[s] = <<>> /\ \A r \in Rings : r # s => rx_ring'[r] = rx_ring[r]
    BY <1>1, <1>3
  <1>5. This' = This /\ Unread' = Unread
    BY <1>1 DEF This, Unread
  <1>6. TypeOK'
    BY <1>1, <1>2, <1>4 DEF TypeOK
  <1>7. SentInv' /\ StreamInv'
    BY <1>1, <1>2 DEF SentInv, StreamInv
  <1>8. HandledInv'
    BY <1>1, <1>2 DEF HandledInv, HandledRight, Payload
  <1>9. EndInv'
    BY <1>1, <1>2, <1>5 DEF EndInv, Dangling
  <1>10. FrameInv'
    BY <1>1, <1>2, <1>5 DEF FrameInv, Holder, Live, Dangling
  <1>11. RunInv'
    <2> SUFFICES ASSUME NEW t \in Ids PROVE Run(rx_ring'[t], sent, conn, t, Len(handled), Part(t))
      BY <1>1, <1>5 DEF RunInv, Part
    <2>1. Run(rx_ring[t], sent, conn, t, Len(handled), Part(t))
      BY <1>2 DEF RunInv
    <2>2. rx_ring'[t] = rx_ring[t] \/ rx_ring'[t] = <<>>
      BY <1>4, Names
    <2> QED
      BY <2>1, <2>2, RunEmpty
  <1>12. HeldInv'
    <2> SUFFICES ASSUME NEW r \in Rings, ~ Keeps(r)
                 PROVE  rx_ring'[r] = IF r = cur_stream /\ ~ Dangling(r)
                                      THEN Take(Payload(This), sent[This].len - stream_len) ELSE <<>>
      BY <1>1, <1>5 DEF HeldInv, Payload, Keeps, Dangling
    <2>1. r # s
      BY <1>1, <1>3 DEF Keeps
    <2> QED
      BY <1>2, <1>4, <2>1 DEF HeldInv
  <1> QED
    BY <1>6, <1>7, <1>8, <1>9, <1>10, <1>11, <1>12 DEF Parts

LEMMA ReconnectKeeps ==
  ASSUME Parts, Reconnect, cur_stream = "none"
  PROVE  Parts'
  <1>1. /\ conn' = conn + 1 /\ sent' = <<>> /\ wire' = <<>> /\ input' = <<>> /\ handled' = <<>>
        /\ stream' = NoStreams /\ bevs' = NoBevs /\ rx_ring' = [NoBytes EXCEPT !["abandon"] = rx_ring["abandon"]]
        /\ pc = "idle" /\ UNCHANGED <<cur_stream, tmux_hdr, stream_len, pc>>
    BY DEF Reconnect, parser
  <1>2. TypeOK /\ HeldInv
    BY DEF Parts
  <1>3. rx_ring["abandon"] = <<>>
    BY <1>2, Names DEF HeldInv, Keeps
  <1>4. rx_ring' = NoBytes
    BY <1>1, <1>3 DEF NoBytes
  <1>5. TypeOK'
    BY <1>1, <1>2, <1>4 DEF TypeOK, NoStreams, NoBevs, NoBytes, Rings, States
  <1>6. Len(sent') = 0 /\ Len(handled') = 0 /\ \A s \in Ids : stream'[s] # "fin"
    BY <1>1 DEF NoStreams
  <1>7. SentInv' /\ StreamInv' /\ HandledInv'
    BY <1>6 DEF SentInv, StreamInv, HandledInv
  <1>8. FrameInv'
    <2>1. Unread' = <<>> /\ Len(Unread') = 0 /\ cur_stream' = "none" /\ This' = 1
      BY <1>1, <1>6 DEF Unread, This
    <2> QED
      BY <1>6, <2>1 DEF FrameInv, Framed, At
  <1>9. EndInv'
    BY <1>1, Names DEF EndInv, Dangling
  <1>10. \A r \in Rings : rx_ring'[r] = <<>>
    BY <1>4 DEF NoBytes, Rings
  <1>11. RunInv'
    BY <1>10, RunEmpty DEF RunInv, Rings
  <1>12. HeldInv'
    BY <1>1, <1>10, Names DEF HeldInv
  <1> QED
    BY <1>5, <1>7, <1>8, <1>9, <1>11, <1>12 DEF Parts

LEMMA PeerSendKeeps ==
  ASSUME Parts, NEW type \in Types, NEW s \in Ids, NEW n \in Nat, n <= MaxPayload, PeerSend(type, s, n)
  PROVE  Parts'
  <1> DEFINE h == [type |-> type, id |-> s, len |-> n, seq |-> Len(sent) + 1]
             L == Len(sent)
  <1>1. /\ stream[s] # "absent" /\ ~ Said({"FIN", "RST"}, s) /\ (type # "ACK" => Said({"ACK"}, s))
        /\ (type # "DATA" => n = 0)
        /\ sent' = Append(sent, h) /\ wire' = wire \o Bytes(conn, L + 1, n)
        /\ pc = "idle"
        /\ UNCHANGED <<input, cur_stream, tmux_hdr, stream_len, stream, bevs, rx_ring, handled, pc, conn, torn>>
    BY DEF PeerSend, parser, Bytes
  <1>2. TypeOK /\ SentInv /\ StreamInv /\ HandledInv /\ FrameInv /\ EndInv /\ RunInv /\ HeldInv
    BY DEF Parts
  <1>3. sent \in Seq(Header) /\ L \in Nat /\ conn \in Nat /\ wire \in Seq(Byte) /\ input \in Seq(Byte)
    BY <1>2, SentFacts DEF TypeOK
  <1>4. h \in Header /\ h.type = type /\ h.id = s /\ h.len = n /\ h.seq = L + 1
    BY <1>3 DEF Header
  <1> HIDE DEF h
  <1>5. /\ sent' \in Seq(Header) /\ Len(sent') = L + 1 /\ sent'[L + 1] = h
        /\ \A k \in 1..L : sent'[k] = sent[k] /\ k \in 1..(L + 1)
    BY <1>1, <1>3, <1>4, AppendFacts
  <1>6. \A k \in 1..(L + 1) : k \in 1..L \/ k = L + 1
    BY <1>3
  <1> DEFINE f == Bytes(conn, L + 1, n)
  <1>7. f \in Seq(Byte)
    <2>1. L + 1 \in Nat
      BY <1>3
    <2> QED
      BY <1>3, <2>1, BytesFacts
  <1>8. wire' \in Seq(Byte) /\ Unread \in Seq(Byte) /\ Unread' = Unread \o f
    <2>1. wire' = wire \o f
      BY <1>1
    <2> HIDE DEF f
    <2>2. wire' \in Seq(Byte) /\ Unread \in Seq(Byte)
      BY <1>3, <1>7, <2>1, JoinFacts DEF Unread
    <2>3. Unread' = input \o (wire \o f)
      BY <1>1, <2>1 DEF Unread
    <2>4. (input \o wire) \o f = input \o (wire \o f)
      BY <1>3, <1>7, JoinAssoc
    <2> QED
      BY <2>2, <2>3, <2>4 DEF Unread
  <1>9. TypeOK'
    BY <1>1, <1>2, <1>5, <1>8 DEF TypeOK, Header
  <1>10. This' = This /\ This \in Nat \ {0} /\ This <= L + 1 /\ Len(handled) <= L /\ Len(handled) \in Nat
    BY <1>1, <1>2, ThisFacts DEF This, HandledInv
  <1>11. SentInv'
    <2> SUFFICES ASSUME NEW k \in 1..(L + 1)
                 PROVE  /\ sent'[k].seq = k /\ sent'[k].len <= MaxPayload
                        /\ sent'[k].type # "DATA" => sent'[k].len = 0
                        /\ sent'[k].type # "ACK" =>
                             \E j \in 1..(k - 1) : sent'[j].id = sent'[k].id /\ sent'[j].type = "ACK"
                        /\ \A j \in 1..(k - 1) : sent'[j].type \in {"FIN", "RST"} => sent'[j].id # sent'[k].id
      BY <1>5 DEF SentInv
    <2>1. \A j \in 1..(k - 1) : j \in 1..L /\ sent'[j] = sent[j]
      BY <1>3, <1>5
    <2>2. CASE k \in 1..L
      <3>1. sent'[k] = sent[k]
        BY <1>5, <2>2
      <3> QED
        BY <1>2, <2>1, <2>2, <3>1 DEF SentInv
    <2>3. CASE k = L + 1
      <3>1. sent'[k] = h /\ \A j : j \in 1..L <=> j \in 1..(k - 1)
        BY <1>3, <1>5, <2>3
      <3>2. h.type # "ACK" => \E j \in 1..L : sent[j].id = s /\ sent[j].type = "ACK"
        BY <1>1, <1>4 DEF Said
      <3>3. \A j \in 1..L : sent[j].type \in {"FIN", "RST"} => sent[j].id # s
        BY <1>1 DEF Said
      <3>4. h.type # "DATA" => h.len = 0
        BY <1>1, <1>4
      <3>5. sent'[k].seq = k /\ sent'[k].len <= MaxPayload
        BY <1>4, <2>3, <3>1
      <3>6. sent'[k].type # "ACK" => \E j \in 1..(k - 1) : sent'[j].id = sent'[k].id /\ sent'[j].type = "ACK"
        BY <1>4, <2>1, <3>1, <3>2
      <3>7. \A j \in 1..(k - 1) : sent'[j].type \in {"FIN", "RST"} => sent'[j].id # sent'[k].id
        BY <1>4, <2>1, <3>1, <3>3
      <3> QED
        BY <3>1, <3>4, <3>5, <3>6, <3>7
    <2> QED
      BY <1>6, <2>2, <2>3
  <1>12. \A k \in 1..Len(handled) : k \in 1..L /\ sent'[k] = sent[k]
    BY <1>3, <1>5, <1>10
  <1>13. StreamInv'
    <2>1. ASSUME NEW k \in 1..(L + 1) PROVE stream[sent'[k].id] # "absent"
      BY <1>1, <1>2, <1>4, <1>5, <1>6 DEF StreamInv
    <2>2. \A k \in 1..Len(handled) : sent'[k].type = "ACK" => stream[sent'[k].id] # "syn"
      BY <1>2, <1>12 DEF StreamInv
    <2>3. \A t \in Ids : stream[t] = "fin" =>
            \E k \in 1..Len(handled) : sent'[k].id = t /\ sent'[k].type = "FIN"
      BY <1>2, <1>12 DEF StreamInv
    <2> QED
      BY <1>1, <1>5, <2>1, <2>2, <2>3 DEF StreamInv
  <1>14. HandledInv'
    <2>1. ASSUME NEW k \in 1..Len(handled) PROVE HandledRight(k)'
      <3>1. HandledRight(k) /\ sent'[k] = sent[k]
        BY <1>2, <1>12 DEF HandledInv
      <3> QED
        BY <1>1, <3>1 DEF HandledRight, Payload
    <2>2. Len(handled) <= L + 1
      BY <1>3, <1>10
    <2> QED
      BY <1>1, <1>5, <2>1, <2>2 DEF HandledInv
  <1>15. cur_stream # "none" => This \in 1..L /\ sent'[This] = sent[This]
    <2>1. cur_stream # "none" => This <= L
      BY <1>2 DEF FrameInv
    <2>2. cur_stream # "none" => This \in 1..L
      BY <1>3, <1>10, <2>1
    <2> QED
      BY <1>5, <2>2
  <1>16. FrameInv'
    <2>1. Framed(Unread', sent', conn')
      <3>1. Framed(Unread, sent, conn)
        BY <1>2 DEF FrameInv
      <3>2. Framed(Unread \o Bytes(conn, Len(sent) + 1, h.len), Append(sent, h), conn)
        BY <1>3, <1>4, <1>8, <3>1, FramedAppend
      <3> QED
        BY <1>1, <1>4, <1>8, <3>2
    <2>2. ASSUME cur_stream = "none" PROVE At(Unread', sent', conn', 1, This')
      <3>1. At(Unread, sent, conn, 1, This)
        BY <1>2, <2>2 DEF FrameInv
      <3>2. This \in 1..(Len(sent) + 1) /\ 1 \in Nat
        BY <1>3, <1>10
      <3>3. At(Unread \o Bytes(conn, Len(sent) + 1, h.len), Append(sent, h), conn, 1, This)
        BY <1>3, <1>4, <1>8, <3>1, <3>2, AtAppend
      <3> QED
        BY <1>1, <1>4, <1>8, <1>10, <3>3
    <2>3. ASSUME cur_stream # "none" PROVE Pos(Unread', sent', conn', This', stream_len')
      <3>1. Pos(Unread, sent, conn, This, stream_len) /\ This \in 1..Len(sent)
        BY <1>2, <1>15, <2>3 DEF FrameInv
      <3>2. stream_len \in Nat
        BY <1>2 DEF TypeOK
      <3>3. Pos(Unread \o Bytes(conn, Len(sent) + 1, h.len), Append(sent, h), conn, This, stream_len)
        BY <1>3, <1>4, <1>8, <3>1, <3>2, PosAppend
      <3> QED
        BY <1>1, <1>4, <1>8, <1>10, <3>3
    <2>4. ASSUME cur_stream # "none"
          PROVE  /\ This' <= Len(sent') /\ tmux_hdr' = sent'[This'] /\ sent'[This'].type = "DATA"
                 /\ Holder(cur_stream, sent[This])'
                 /\ stream_len' <= sent'[This'].len /\ (stream_len' = 0 => sent'[This'].len = 0)
      <3>1. /\ This <= L /\ tmux_hdr = sent[This] /\ sent[This].type = "DATA" /\ Holder(cur_stream, sent[This])
            /\ stream_len <= sent[This].len /\ (stream_len = 0 => sent[This].len = 0)
        BY <1>2, <2>4 DEF FrameInv
      <3>2. This' <= Len(sent')
        BY <1>3, <1>5, <1>10, <3>1
      <3>3. sent'[This'] = sent[This]
        BY <1>10, <1>15, <2>4
      <3> QED
        BY <1>1, <3>1, <3>2, <3>3 DEF Holder, Live, Dangling
    <2> QED
      BY <1>1, <2>1, <2>2, <2>3, <2>4 DEF FrameInv
  <1>17. HeldInv'
    <2> SUFFICES ASSUME NEW r \in Rings, ~ Keeps(r)
                 PROVE  rx_ring[r] = IF r = cur_stream /\ ~ Dangling(r)
                                     THEN Take(Payload(This)', sent'[This].len - stream_len) ELSE <<>>
      BY <1>1, <1>10 DEF HeldInv, Keeps, Dangling
    <2>1. rx_ring[r] = IF r = cur_stream /\ ~ Dangling(r)
                       THEN Take(Payload(This), sent[This].len - stream_len) ELSE <<>>
      BY <1>2 DEF HeldInv
    <2>2. r = cur_stream => sent'[This] = sent[This]
      BY <1>15, Names
    <2>3. r = cur_stream => Payload(This)' = Payload(This)
      BY <1>1, <1>10, <2>2 DEF Payload
    <2> QED
      BY <2>1, <2>2, <2>3
  <1>18. RunInv'
    <2> SUFFICES ASSUME NEW t \in Ids PROVE Run(rx_ring[t], sent', conn, t, Len(handled), Part(t)')
      BY <1>1 DEF RunInv
    <2>1. Run(rx_ring[t], sent, conn, t, Len(handled), Part(t))
      BY <1>2 DEF RunInv
    <2>2. Part(t)' = Part(t) /\ Part(t) \in Int /\ (Len(handled) = L => Part(t) <= 0)
      <3>1. CASE cur_stream = t
        <4>1. cur_stream # "none"
          BY <3>1, Names
        <4>2. This \in 1..L /\ sent'[This] = sent[This] /\ sent[This].len \in Nat /\ stream_len \in Nat
          BY <1>2, <1>15, <4>1, SentFacts DEF TypeOK
        <4>3. Len(handled) # L
          BY <1>3, <1>10, <4>2 DEF This
        <4> QED
          BY <1>1, <1>10, <3>1, <4>2, <4>3 DEF Part
      <3>2. CASE cur_stream # t
        BY <1>1, <3>2 DEF Part
      <3> QED
        BY <3>1, <3>2
    <2>3. Run(rx_ring[t], Append(sent, h), conn, t, Len(handled), Part(t))
      BY <1>3, <1>4, <1>10, <2>1, <2>2, RunAppend
    <2> QED
      BY <1>1, <2>2, <2>3
  <1>19. EndInv'
    BY <1>1, <1>2 DEF EndInv, Dangling
  <1> QED
    BY <1>9, <1>11, <1>13, <1>14, <1>16, <1>17, <1>18, <1>19 DEF Parts

-----------------------------------------------------------------------------
(* recv_cb                                                                   *)

\* What a frame may make of a stream: where it was and where it may be then.
Moves(from, to) ==
  /\ from = "gone" => to = "gone"
  /\ to = "absent" => from = "absent"
  /\ to = "syn" => from \in {"absent", "syn"}
  /\ from = "local" => to \in {"local", "gone"}
  /\ from \in {"socks5", "fin"} => to \in {"socks5", "fin", "gone"}

LEMMA StreamsAfterFacts ==
  ASSUME stream \in [Ids -> States], NEW h \in Header, NEW st \in StreamsAfter(h)
  PROVE  /\ st \in [Ids -> States]
         /\ \A s \in Ids : /\ Moves(stream[s], st[s])
                           /\ st[s] = "syn" => stream[s] = "absent" \/ ~ (s = h.id /\ h.type = "ACK")
                           /\ st[s] = "fin" => stream[s] = "fin" \/ (s = h.id /\ h.type = "FIN")
  <1> DEFINE To(s, x) == [stream EXCEPT ![s] = x]
  <1>1. h.id \in Ids /\ h.type \in Types /\ stream[h.id] \in States
    BY DEF Header
  <1>2. \/ st = stream /\ ~ (stream[h.id] = "syn" /\ h.type = "ACK")
        \/ st = To(h.id, "listed") /\ stream[h.id] = "syn"
        \/ st = To(h.id, "fin") /\ stream[h.id] \in {"syn", "listed", "tunnel", "socks5"} /\ h.type = "FIN"
        \/ st = To(h.id, "gone") /\ stream[h.id] # "absent"
        \/ \E s \in Work : stream[s] = "absent" /\ st = To(s, "syn") /\ h.type = "DATA"
        \/ st = To(h.id, "tunnel") /\ stream[h.id] = "listed"
        \/ st = To(h.id, "socks5") /\ stream[h.id] = "listed"
    BY <1>1 DEF StreamsAfter, Listed, Established, Types
  <1>3. CASE st = stream /\ ~ (stream[h.id] = "syn" /\ h.type = "ACK")
    BY <1>3 DEF Moves
  <1>4. ASSUME NEW x \in {"listed", "gone", "tunnel", "socks5"}, st = To(h.id, x),
               x = "listed" => stream[h.id] = "syn", stream[h.id] # "absent",
               x \in {"tunnel", "socks5"} => stream[h.id] = "listed"
        PROVE  /\ st \in [Ids -> States]
               /\ \A s \in Ids : /\ Moves(stream[s], st[s])
                                 /\ st[s] = "syn" => stream[s] = "absent" \/ ~ (s = h.id /\ h.type = "ACK")
                                 /\ st[s] = "fin" => stream[s] = "fin" \/ (s = h.id /\ h.type = "FIN")
    <2>1. st \in [Ids -> States] /\ st[h.id] = x /\ \A s \in Ids : s # h.id => st[s] = stream[s]
      BY <1>1, <1>4 DEF States
    <2>2. Moves(stream[h.id], x)
      BY <1>4 DEF Moves
    <2>3. \A s \in Ids : Moves(stream[s], st[s])
      BY <2>1, <2>2 DEF Moves
    <2> QED
      BY <1>4, <2>1, <2>3
  <1>5. CASE st = To(h.id, "fin") /\ stream[h.id] \in {"syn", "listed", "tunnel", "socks5"} /\ h.type = "FIN"
    <2>1. st \in [Ids -> States] /\ st[h.id] = "fin" /\ \A s \in Ids : s # h.id => st[s] = stream[s]
      BY <1>1, <1>5 DEF States
    <2>2. \A s \in Ids : Moves(stream[s], st[s])
      BY <1>5, <2>1 DEF Moves
    <2> QED
      BY <1>5, <2>1, <2>2
  <1>6. CASE \E s \in Work : stream[s] = "absent" /\ st = To(s, "syn") /\ h.type = "DATA"
    <2>1. PICK t \in Work : stream[t] = "absent" /\ st = To(t, "syn") /\ h.type = "DATA"
      BY <1>6
    <2>2. t \in Ids
      BY Names
    <2>3. st \in [Ids -> States] /\ st[t] = "syn" /\ \A s \in Ids : s # t => st[s] = stream[s]
      BY <2>1, <2>2 DEF States
    <2>4. \A s \in Ids : Moves(stream[s], st[s])
      BY <2>1, <2>3 DEF Moves
    <2> QED
      BY <2>1, <2>3, <2>4
  <1> QED
    BY <1>2, <1>3, <1>4, <1>5, <1>6

\* A frame is handled: its payload has reached its stream, is left to
\* handle_ss5, is kept, or the stream is gone.
Outcome(to, bytes, k) ==
  \/ to = sent[k].id /\ bytes = Payload(k)
  \/ to = "socks5" /\ stream[sent[k].id] \in {"socks5", "local", "fin", "gone"}
  \/ to = "kept" /\ stream[sent[k].id] \in {"local", "gone"}
  \/ to = "abandon" /\ stream[sent[k].id] = "gone"

LEMMA FrameDone ==
  ASSUME TypeOK, SentInv, StreamInv, HandledInv, This <= Len(sent),
         NEW to \in Rings \cup {"kept", "socks5"}, NEW bytes \in Seq(Byte), Outcome(to, bytes, This),
         handled' = Append(handled, [seq |-> This, to |-> to, bytes |-> bytes]),
         \/ stream' = stream /\ sent[This].type = "DATA"
         \/ stream' \in StreamsAfter(sent[This]),
         UNCHANGED <<sent, conn>>
  PROVE  /\ SentInv' /\ StreamInv' /\ HandledInv' /\ Len(handled') = This /\ This' = This + 1
         /\ handled' \in Seq(Outs) /\ stream' \in [Ids -> States]
         /\ \A s \in Ids : Moves(stream[s], stream'[s])
  <1> DEFINE x == [seq |-> This, to |-> to, bytes |-> bytes]
             h == sent[This]
             st == stream'
  <1>1. Len(handled) \in Nat /\ Len(sent) \in Nat /\ This \in Nat \ {0} /\ This \in 1..Len(sent) /\ This = Len(handled) + 1
    BY ThisFacts DEF This
  <1>2. x \in Outs /\ handled \in Seq(Outs) /\ x.seq = This /\ x.to = to /\ x.bytes = bytes
    BY <1>1 DEF TypeOK, Outs
  <1> HIDE DEF x
  <1>3. /\ handled' \in Seq(Outs) /\ Len(handled') = This /\ handled'[This] = x
        /\ \A k \in 1..Len(handled) : handled'[k] = handled[k] /\ k \in 1..Len(sent)
        /\ \A k \in 1..This : k \in 1..Len(handled) \/ k = This
    <2>1. handled' = Append(handled, x)
      BY DEF x
    <2>2. handled' \in Seq(Outs) /\ Len(handled') = Len(handled) + 1 /\ handled'[Len(handled) + 1] = x
      BY <1>2, <2>1
    <2>3. \A k \in 1..Len(handled) : handled'[k] = handled[k]
      BY <1>2, <2>1
    <2>4. \A k \in 1..Len(handled) : k \in 1..Len(sent)
      BY <1>1
    <2>5. \A k \in 1..This : k \in 1..Len(handled) \/ k = This
      BY <1>1
    <2> QED
      BY <1>1, <2>2, <2>3, <2>4, <2>5
  <1>4. h \in Header /\ h.id \in Ids /\ stream \in [Ids -> States]
    BY <1>1, SentFacts DEF TypeOK
  <1>5. \A k \in 1..Len(sent) : sent[k].id \in Ids
    BY SentFacts
  <1>6. /\ st \in [Ids -> States]
        /\ \A s \in Ids : /\ Moves(stream[s], st[s])
                          /\ st[s] = "syn" => stream[s] = "absent" \/ ~ (s = h.id /\ h.type = "ACK")
                          /\ st[s] = "fin" => stream[s] = "fin" \/ (s = h.id /\ h.type = "FIN")
    <2>1. CASE st = stream /\ h.type = "DATA"
      BY <1>4, <2>1 DEF Moves
    <2>2. CASE st \in StreamsAfter(h)
      BY <1>4, <2>2, StreamsAfterFacts
    <2> QED
      BY <2>1, <2>2
  <1>7. SentInv'
    BY DEF SentInv
  <1>8. StreamInv'
    <2>1. ASSUME NEW k \in 1..Len(sent) PROVE st[sent[k].id] # "absent"
      <3>1. sent[k].id \in Ids /\ stream[sent[k].id] # "absent"
        BY <1>5 DEF StreamInv
      <3> QED
        BY <1>6, <3>1 DEF Moves
    <2>2. ASSUME NEW k \in 1..This, sent[k].type = "ACK" PROVE st[sent[k].id] # "syn"
      <3>0. k \in 1..Len(sent)
        BY <1>1, <1>3
      <3>1. sent[k].id \in Ids /\ stream[sent[k].id] # "absent"
        BY <1>5, <3>0 DEF StreamInv
      <3>2. CASE k \in 1..Len(handled)
        <4>1. stream[sent[k].id] # "syn"
          BY <2>2, <3>2 DEF StreamInv
        <4> QED
          BY <1>6, <3>1, <4>1 DEF Moves
      <3>3. CASE k = This
        BY <1>6, <2>2, <3>1, <3>3
      <3> QED
        BY <1>3, <3>2, <3>3
    <2>3. ASSUME NEW s \in Ids, st[s] = "fin" PROVE \E k \in 1..This : sent[k].id = s /\ sent[k].type = "FIN"
      <3>1. CASE stream[s] = "fin"
        <4>1. PICK k \in 1..Len(handled) : sent[k].id = s /\ sent[k].type = "FIN"
          BY <3>1 DEF StreamInv
        <4>2. k \in 1..This
          BY <1>1
        <4> QED
          BY <4>1, <4>2
      <3>2. CASE s = h.id /\ h.type = "FIN"
        <4>1. This \in 1..This
          BY <1>1
        <4> QED
          BY <3>2, <4>1
      <3> QED
        BY <1>6, <2>3, <3>1, <3>2
    <2> QED
      BY <1>3, <2>1, <2>2, <2>3 DEF StreamInv
  <1>9. HandledInv'
    <2>0. ASSUME NEW k \in 1..Len(sent)
          PROVE  /\ stream[sent[k].id] = "gone" => st[sent[k].id] = "gone"
                 /\ stream[sent[k].id] \in {"local", "gone"} => st[sent[k].id] \in {"local", "gone"}
                 /\ stream[sent[k].id] \in {"socks5", "local", "fin", "gone"} =>
                      st[sent[k].id] \in {"socks5", "local", "fin", "gone"}
      <3>1. Moves(stream[sent[k].id], st[sent[k].id])
        BY <1>5, <1>6
      <3> QED
        BY <3>1 DEF Moves
    <2>1. ASSUME NEW k \in 1..Len(handled) PROVE HandledRight(k)'
      <3>1. HandledRight(k) /\ k \in 1..Len(sent) /\ handled'[k] = handled[k]
        BY <1>3, <1>5 DEF HandledInv
      <3> QED
        BY <2>0, <3>1 DEF HandledRight, Payload
    <2>2. ASSUME NEW k \in 1..This, k = This PROVE HandledRight(k)'
      <3>1. handled'[k].seq = k /\ handled'[k].to = to /\ handled'[k].bytes = bytes
        BY <1>2, <1>3, <2>2
      <3>2. \/ to = sent[k].id /\ bytes = Payload(k)
            \/ to = "socks5" /\ st[sent[k].id] \in {"socks5", "local", "fin", "gone"}
            \/ to = "kept" /\ st[sent[k].id] \in {"local", "gone"}
            \/ to = "abandon" /\ st[sent[k].id] = "gone"
        BY <1>1, <2>0, <2>2 DEF Outcome
      <3> QED
        BY <3>1, <3>2 DEF HandledRight, Payload
    <2>3. \A k \in 1..This : HandledRight(k)'
      BY <1>3, <2>1, <2>2
    <2>4. Len(handled') <= Len(sent')
      BY <1>1, <1>3
    <2> QED
      BY <1>3, <2>3, <2>4 DEF HandledInv
  <1>10. This' = This + 1
    BY <1>3 DEF This
  <1> QED
    BY <1>3, <1>6, <1>7, <1>8, <1>9, <1>10

\* The payload of the frame with header sent[k].
LEMMA PayloadFacts ==
  ASSUME TypeOK, NEW k \in 1..Len(sent)
  PROVE  /\ Payload(k) \in Seq(Byte) /\ Len(Payload(k)) = sent[k].len
         /\ \A i \in 1..sent[k].len : Payload(k)[i] = <<conn, k, HdrLen + i>>
  <1>1. sent[k].len \in Nat /\ conn \in Nat /\ k \in Nat /\ HdrLen \in Nat
    <2>1. sent[k].len \in Nat
      BY SentFacts
    <2>2. conn \in Nat
      BY DEF TypeOK
    <2>3. k \in Nat /\ HdrLen \in Nat
      BY FramingAssumption
    <2> QED
      BY <2>1, <2>2, <2>3
  <1>2. \A i \in 1..sent[k].len : <<conn, k, HdrLen + i>> \in Byte
    BY <1>1 DEF Byte
  <1> QED
    BY <1>1, <1>2 DEF Payload

\* The part of the payload that has been read grows by the g bytes that are next.
LEMMA PayloadGrows ==
  ASSUME TypeOK, NEW k \in 1..Len(sent), NEW n \in 0..sent[k].len, NEW g \in 0..n,
         NEW bytes \in Seq(Byte), g <= Len(bytes),
         \A m \in 1..g : bytes[m] = <<conn, k, (Size(sent, k) - n) + m>>
  PROVE  Take(Payload(k), sent[k].len - n) \o Take(bytes, g) = Take(Payload(k), sent[k].len - (n - g))
  <1> DEFINE p == Payload(k)
             l == sent[k].len
             a == Take(p, l - n)
             b == Take(bytes, g)
             c == Take(p, l - (n - g))
  <1>1. p \in Seq(Byte) /\ Len(p) = l /\ \A i \in 1..l : p[i] = <<conn, k, HdrLen + i>>
    BY PayloadFacts
  <1>2. l \in Nat /\ Size(sent, k) = HdrLen + l /\ HdrLen \in Nat
    BY SentFacts, SizeFacts
  <1>3. Len(bytes) \in Nat /\ n \in 0..l /\ g \in 0..n
    OBVIOUS
  <1> HIDE DEF p, l
  <1>4. l - n \in 0..Len(p) /\ l - (n - g) \in 0..Len(p) /\ g \in 0..Len(bytes)
    BY <1>1, <1>2, <1>3
  <1>5. a \in Seq(Byte) /\ Len(a) = l - n /\ \A i \in 1..(l - n) : a[i] = p[i] /\ i \in 1..Len(p)
    BY <1>1, <1>4, TakeFacts
  <1>6. b \in Seq(Byte) /\ Len(b) = g /\ \A i \in 1..g : b[i] = bytes[i] /\ i \in 1..Len(bytes)
    BY <1>4, TakeFacts
  <1>7. /\ c \in Seq(Byte) /\ Len(c) = l - (n - g)
        /\ \A i \in 1..(l - (n - g)) : c[i] = p[i] /\ i \in 1..Len(p)
    BY <1>1, <1>4, TakeFacts
  <1> HIDE DEF a, b, c
  <1>8. /\ a \o b \in Seq(Byte) /\ Len(a \o b) = (l - n) + g
        /\ \A i \in 1..(l - n) : (a \o b)[i] = a[i]
        /\ \A i \in ((l - n) + 1)..((l - n) + g) : (a \o b)[i] = b[i - (l - n)] /\ i - (l - n) \in 1..g
    <2>1. /\ a \o b \in Seq(Byte) /\ Len(a \o b) = Len(a) + Len(b)
          /\ \A i \in 1..Len(a) : (a \o b)[i] = a[i]
          /\ \A i \in (Len(a) + 1)..(Len(a) + Len(b)) : (a \o b)[i] = b[i - Len(a)] /\ i - Len(a) \in 1..Len(b)
      <3>1. a \in Seq(Byte) /\ b \in Seq(Byte)
        BY <1>5, <1>6
      <3> QED
        BY ONLY <3>1, JoinFacts
    <2>2. Len(a) = l - n /\ Len(b) = g
      BY <1>5, <1>6
    <2> QED
      BY <2>1, <2>2
  <1>9. (l - n) + g = l - (n - g) /\ l - n \in Nat
    BY <1>2, <1>3
  <1>10. ASSUME NEW i \in 1..((l - n) + g) PROVE (a \o b)[i] = c[i]
    <2>0. i \in Nat /\ i \in 1..(l - (n - g)) /\ i \in 1..l
      BY <1>2, <1>3, <1>9
    <2>1. CASE i <= l - n
      <3>1. i \in 1..(l - n)
        BY <1>9, <2>0, <2>1
      <3> QED
        BY <1>5, <1>7, <1>8, <2>0, <3>1
    <2>2. CASE i > l - n
      <3>1. i \in ((l - n) + 1)..((l - n) + g)
        BY <1>9, <2>0, <2>2
      <3> DEFINE m == i - (l - n)
      <3>2. (a \o b)[i] = b[m] /\ m \in 1..g
        BY <1>8, <3>1
      <3>3. b[m] = bytes[m] /\ bytes[m] = <<conn, k, (Size(sent, k) - n) + m>>
        BY <1>6, <3>2
      <3>4. (Size(sent, k) - n) + m = HdrLen + i
        BY <1>2, <1>3, <2>0
      <3>5. c[i] = p[i] /\ p[i] = <<conn, k, HdrLen + i>>
        BY <1>1, <1>7, <2>0
      <3> QED
        BY <3>2, <3>3, <3>4, <3>5
    <2>3. i <= l - n \/ i > l - n
      BY <1>9, <2>0
    <2> QED
      BY <2>1, <2>2, <2>3
  <1>11. a \o b = c
    <2>1. Len(a \o b) = Len(c)
      BY <1>7, <1>8, <1>9
    <2>2. \A i \in 1..Len(a \o b) : (a \o b)[i] = c[i]
      BY <1>8, <1>10
    <2> QED
      BY <1>7, <1>8, <2>1, <2>2, SameSeq
  <1> QED
    BY <1>11 DEF a, b, c, p, l

\* How many bytes of the ring a complete frame takes, and who gets them.
LEMMA TakenFacts ==
  ASSUME TypeOK, HandledInv, SentInv, This <= Len(sent), NEW h, h = sent[This],
         NEW ring \in Seq(Byte), NEW m \in Taken(h, ring),
         h.type = "DATA" => stream[h.id] \in {"listed", "tunnel", "socks5", "local"},
         h.type = "DATA" /\ stream[h.id] \in {"listed", "tunnel"} => ring = Payload(This)
  PROVE  /\ m \in 0..Len(ring) /\ Receiver(h) \in Rings \cup {"kept", "socks5"}
         /\ Take(ring, m) \in Seq(Byte) /\ Outcome(Receiver(h), Take(ring, m), This)
         /\ h.type = "DATA" /\ stream[h.id] \in {"listed", "tunnel"} => Drop(ring, m) = <<>>
         /\ ring = <<>> => Drop(ring, m) = <<>>
  <1>1. This \in 1..Len(sent) /\ Len(ring) \in Nat
    BY ThisFacts
  <1>2. h.id \in Ids /\ h.id \in Rings /\ h.len \in Nat /\ (h.type # "DATA" => h.len = 0)
    BY <1>1, SentFacts, Names DEF SentInv
  <1>3. Payload(This) \in Seq(Byte) /\ Len(Payload(This)) = h.len
    BY <1>1, PayloadFacts
  <1>4. h.id # "kept" /\ h.id # "socks5"
    BY <1>2, Names
  <1>5. CASE h.type = "DATA" /\ stream[h.id] \in {"listed", "tunnel"}
    <2>1. Receiver(h) = h.id
      BY <1>5 DEF Receiver
    <2>0. Taken(h, ring) = {h.len}
      BY <1>4, <2>1 DEF Taken
    <2>2. m = Len(ring) /\ ring = Payload(This)
      BY <1>3, <1>5, <2>0
    <2>3. Take(ring, m) = Payload(This) /\ Drop(ring, m) = <<>>
      BY <2>2, TakeAll
    <2> QED
      BY <1>1, <1>2, <1>3, <2>1, <2>2, <2>3 DEF Outcome
  <1>6. CASE h.type # "DATA"
    <2>1. Receiver(h) = h.id
      BY <1>6 DEF Receiver
    <2>0. Taken(h, ring) = {h.len}
      BY <1>4, <2>1 DEF Taken
    <2>2. m = 0
      BY <1>2, <1>6, <2>0
    <2>3. Take(ring, m) = <<>> /\ Drop(ring, m) = ring
      BY <2>2, TakeAll
    <2>4. Payload(This) = <<>>
      BY <1>2, <1>3, <1>6
    <2>5. Outcome(Receiver(h), Take(ring, m), This) /\ Receiver(h) \in Rings
      BY <1>2, <2>1, <2>3, <2>4 DEF Outcome
    <2>6. m \in 0..Len(ring) /\ <<>> \in Seq(Byte)
      BY <1>1, <2>2
    <2> QED
      BY <1>6, <2>3, <2>5, <2>6
  <1>7. CASE h.type = "DATA" /\ stream[h.id] = "socks5"
    <2>1. Receiver(h) = "socks5"
      BY <1>7 DEF Receiver
    <2>0. Taken(h, ring) = 0..Len(ring)
      BY <1>4, <2>1 DEF Taken
    <2>2. m \in 0..Len(ring)
      BY <2>0
    <2>3. Take(ring, m) \in Seq(Byte)
      BY <2>2, TakeFacts
    <2>4. ring = <<>> => Drop(ring, m) = <<>>
      BY <2>2 DEF Drop
    <2> QED
      BY <1>7, <2>1, <2>2, <2>3, <2>4 DEF Outcome
  <1>8. CASE h.type = "DATA" /\ stream[h.id] = "local"
    <2>1. Receiver(h) = "kept"
      BY <1>8 DEF Receiver
    <2>0. Taken(h, ring) = {0}
      BY <1>4, <2>1 DEF Taken
    <2>2. m = 0
      BY <2>0
    <2>3. Take(ring, m) = <<>> /\ Drop(ring, m) = ring
      BY <2>2, TakeAll
    <2>4. Outcome(Receiver(h), Take(ring, m), This)
      BY <1>8, <2>1 DEF Outcome
    <2>5. m \in 0..Len(ring) /\ <<>> \in Seq(Byte)
      BY <1>1, <2>2
    <2> QED
      BY <1>8, <2>1, <2>3, <2>4, <2>5
  <1> QED
    BY <1>5, <1>6, <1>7, <1>8

LEMMA BevsFacts ==
  ASSUME bevs \in [Ids -> Nat], NEW h \in Header, NEW st, NEW b \in BevsAfter(h, st)
  PROVE  b \in [Ids -> Nat]
  <1>1. h.id \in Ids
    BY DEF Header
  <1>2. b = bevs \/ b = [bevs EXCEPT ![h.id] = 1] \/ b = [bevs EXCEPT ![h.id] = bevs[h.id] + 1]
    BY DEF BevsAfter
  <1> QED
    BY <1>1, <1>2

\* A frame is complete, rx being the rings with all of its payload.
LEMMA DispatchKeeps ==
  ASSUME TypeOK, SentInv, StreamInv, HandledInv, This <= Len(sent), NEW h, h = sent[This],
         NEW rx \in [Rings -> Seq(Byte)],
         \A s \in Ids : Run(rx[s], sent, conn, s, Len(handled), IF s = h.id THEN h.len ELSE 0),
         \A r \in Rings : ~ Keeps(r) => rx[r] = IF r = h.id /\ h.type = "DATA" THEN Payload(This) ELSE <<>>,
         h.type = "DATA" => stream[h.id] \in {"listed", "tunnel", "socks5", "local"},
         Dispatch(h, rx), UNCHANGED <<sent, conn>>
  PROVE  /\ SentInv' /\ StreamInv' /\ HandledInv' /\ This' = This + 1
         /\ handled' \in Seq(Outs) /\ stream' \in [Ids -> States] /\ bevs' \in [Ids -> Nat]
         /\ rx_ring' \in [Rings -> Seq(Byte)] /\ cur_stream' = "none" /\ pc' = pc
         /\ RunInv' /\ HeldInv'
  <1>1. This \in 1..Len(sent) /\ Len(sent) \in Nat /\ Len(handled) \in Nat /\ This = Len(handled) + 1
    BY ThisFacts DEF This
  <1>2. /\ h \in Header /\ h.id \in Ids /\ h.id \in Rings /\ h.len \in Nat /\ h.seq = This
        /\ conn \in Nat /\ sent \in Seq(Header) /\ stream \in [Ids -> States] /\ bevs \in [Ids -> Nat]
    BY <1>1, SentFacts, Names DEF SentInv, TypeOK
  <1> DEFINE ring == rx[h.id]
  <1>3. PICK m \in Taken(h, ring), st \in StreamsAfter(h) :
             /\ handled' = Append(handled, [seq |-> This, to |-> Receiver(h), bytes |-> Take(ring, m)])
             /\ rx_ring' = Without([rx EXCEPT ![h.id] = Drop(ring, m)], st)
             /\ stream' = st /\ bevs' \in BevsAfter(h, st)
    BY <1>2 DEF Dispatch
  <1>4. cur_stream' = "none" /\ pc' = pc
    BY DEF Dispatch
  <1>5. ring \in Seq(Byte)
    BY <1>2
  <1>6. h.type = "DATA" /\ stream[h.id] \in {"listed", "tunnel"} => ring = Payload(This)
    BY <1>2 DEF Keeps
  <1>7. /\ m \in 0..Len(ring) /\ Receiver(h) \in Rings \cup {"kept", "socks5"}
        /\ Take(ring, m) \in Seq(Byte) /\ Outcome(Receiver(h), Take(ring, m), This)
        /\ h.type = "DATA" /\ stream[h.id] \in {"listed", "tunnel"} => Drop(ring, m) = <<>>
        /\ ring = <<>> => Drop(ring, m) = <<>>
    <2> HIDE DEF ring
    <2> QED
      BY <1>5, <1>6, TakenFacts
  <1>8. stream' \in StreamsAfter(sent[This])
    BY <1>3
  <1>9. /\ SentInv' /\ StreamInv' /\ HandledInv' /\ Len(handled') = This /\ This' = This + 1
        /\ handled' \in Seq(Outs) /\ stream' \in [Ids -> States]
        /\ \A s \in Ids : Moves(stream[s], stream'[s])
    <2> DEFINE to == Receiver(h)
               bytes == Take(ring, m)
    <2>1. /\ to \in Rings \cup {"kept", "socks5"} /\ bytes \in Seq(Byte) /\ Outcome(to, bytes, This)
          /\ handled' = Append(handled, [seq |-> This, to |-> to, bytes |-> bytes])
      BY <1>3, <1>7
    <2> HIDE DEF to, bytes
    <2> QED
      BY <1>8, <2>1, FrameDone
  <1>10. bevs' \in [Ids -> Nat]
    BY <1>2, <1>3, BevsFacts
  <1>11. Drop(ring, m) \in Seq(Byte)
    BY <1>5, <1>7, DropFacts
  <1> DEFINE d == Drop(ring, m)
  <1>12. rx_ring' = [r \in Rings |-> IF r \in Ids /\ stream'[r] = "gone" THEN <<>>
                                     ELSE IF r = h.id THEN d ELSE rx[r]]
    <2>1. [rx EXCEPT ![h.id] = d] = [r \in Rings |-> IF r = h.id THEN d ELSE rx[r]]
      BY <1>2
    <2>2. rx_ring' = Without([r \in Rings |-> IF r = h.id THEN d ELSE rx[r]], stream')
      BY <1>3, <2>1
    <2> HIDE DEF d
    <2> QED
      BY <2>2 DEF Without
  <1>13. d \in Seq(Byte)
    BY <1>11
  <1> HIDE DEF d, ring
  <1>14. rx_ring' \in [Rings -> Seq(Byte)]
    BY <1>12, <1>13
  <1>15. RunInv'
    <2> SUFFICES ASSUME NEW s \in Ids PROVE Run(rx_ring'[s], sent, conn, s, This, 0)
      <3>1. \A s \in Ids : Part(s)' = 0
        BY <1>4, Names DEF Part
      <3> QED
        BY <1>9, <3>1 DEF RunInv
    <2>0. s \in Rings
      BY Names
    <2>1. CASE stream'[s] = "gone"
      <3>1. rx_ring'[s] = <<>>
        BY <1>12, <2>0, <2>1
      <3> QED
        BY <3>1, RunEmpty
    <2>2. CASE stream'[s] # "gone" /\ s # h.id
      <3>1. rx_ring'[s] = rx[s]
        BY <1>12, <2>0, <2>2
      <3>2. Run(rx[s], sent, conn, s, Len(handled), 0)
        BY <2>2
      <3>3. Run(rx[s], sent, conn, s, Len(handled) + 1, 0)
        BY <1>1, <1>2, <2>2, <3>2, RunNext
      <3> QED
        BY <1>1, <3>1, <3>3
    <2>3. CASE stream'[s] # "gone" /\ s = h.id
      <3>1. rx_ring'[s] = d
        BY <1>12, <2>0, <2>3
      <3>2. Run(ring, sent, conn, s, Len(handled), h.len)
        BY <2>3 DEF ring
      <3>3. Run(ring, sent, conn, s, Len(handled) + 1, 0)
        BY <1>1, <1>2, <2>3, <3>2, RunNext
      <3>4. Run(Drop(ring, m), sent, conn, s, Len(handled) + 1, 0)
        BY <1>2, <1>5, <1>7, <3>3, RunDrop
      <3> QED
        BY <1>1, <3>1, <3>4 DEF d
    <2> QED
      BY <2>1, <2>2, <2>3
  <1>16. HeldInv'
    <2> SUFFICES ASSUME NEW r \in Rings, ~ Keeps(r)' PROVE rx_ring'[r] = <<>>
      BY <1>4, Names DEF HeldInv
    <2>1. CASE r \notin Ids
      <3>1. ~ Keeps(r) /\ r # h.id
        BY <1>2, <2>1 DEF Keeps
      <3>2. rx[r] = <<>>
        BY <3>1
      <3> QED
        BY <1>12, <2>1, <3>1, <3>2
    <2>2. CASE r \in Ids /\ stream'[r] = "gone"
      BY <1>12, <2>2
    <2>3. CASE r \in Ids /\ stream'[r] # "gone"
      <3>1. stream'[r] \notin {"socks5", "local", "fin", "gone"}
        BY <2>3 DEF Keeps
      <3>2. Moves(stream[r], stream'[r])
        BY <1>9, <2>3
      <3>3. stream[r] \notin {"socks5", "local", "fin", "gone"}
        BY <3>1, <3>2 DEF Moves
      <3>4. ~ Keeps(r)
        BY <3>3 DEF Keeps
      <3>5. CASE r # h.id
        BY <1>12, <2>3, <3>4, <3>5
      <3>6. CASE r = h.id
        <4>1. rx_ring'[r] = d
          BY <1>12, <2>3, <3>6
        <4>2. CASE h.type = "DATA"
          <5>1. stream[h.id] \in {"listed", "tunnel"}
            BY <3>3, <3>6, <4>2
          <5> QED
            BY <1>7, <4>1, <4>2, <5>1 DEF d
        <4>3. CASE h.type # "DATA"
          <5>1. ring = <<>>
            BY <3>4, <3>6, <4>3 DEF ring
          <5> QED
            BY <1>7, <4>1, <5>1 DEF d
        <4> QED
          BY <4>2, <4>3
      <3> QED
        BY <3>5, <3>6
    <2> QED
      BY <2>1, <2>2, <2>3
  <1> QED
    BY <1>4, <1>9, <1>10, <1>14, <1>15, <1>16


\* The rings while a frame is read: p bytes of it are in the ring of cur, held
\* is what that ring holds if nothing is kept there.
RunsOf(rx, cur, p) == \A s \in Ids : Run(rx[s], sent, conn, s, Len(handled), IF cur = s THEN p ELSE 0)
HeldOf(rx, cur, held) == \A r \in Rings : ~ Keeps(r) => rx[r] = IF r = cur THEN held ELSE <<>>

Grown(cur, t) == [rx_ring EXCEPT ![cur] = @ \o t]

\* The next bytes of the frame are appended to the ring.
LEMMA RingsGrow ==
  ASSUME TypeOK, HandledInv, This <= Len(sent),
         NEW h, h = sent[This], h.type = "DATA", NEW cur \in Rings, Live(cur, h),
         NEW n \in 0..h.len, NEW bytes \in Seq(Byte), NEW got \in 0..n, got <= Len(bytes),
         \A m \in 1..got : bytes[m] = <<conn, This, (Size(sent, This) - n) + m>>,
         RunsOf(rx_ring, cur, h.len - n), HeldOf(rx_ring, cur, Take(Payload(This), h.len - n)),
         NEW rx, rx = Grown(cur, Take(bytes, got))
  PROVE  /\ rx \in [Rings -> Seq(Byte)] /\ RunsOf(rx, cur, h.len - (n - got))
         /\ HeldOf(rx, cur, Take(Payload(This), h.len - (n - got)))
  <1> DEFINE t == Take(bytes, got)
             l == h.len
             d == Len(handled)
  <1>1. This \in 1..Len(sent) /\ d \in Nat /\ This = d + 1
    BY ThisFacts DEF This
  <1>2. sent \in Seq(Header) /\ l \in Nat /\ h.id \in Ids /\ conn \in Nat /\ rx_ring \in [Rings -> Seq(Byte)]
    BY <1>1, SentFacts DEF TypeOK
  <1>3. n \in Nat /\ got \in Nat /\ n \in 0..l /\ got \in 0..Len(bytes) /\ l - n \in 0..l /\ Len(bytes) \in Nat
    <2>1. l \in Nat /\ n \in 0..l /\ got \in 0..n /\ Len(bytes) \in Nat
      BY <1>2
    <2> HIDE DEF l
    <2> QED
      BY <2>1
  <1>4. t \in Seq(Byte) /\ Len(t) = got /\ \A m \in 1..got : t[m] = bytes[m]
    BY <1>3, TakeFacts
  <1>5. Size(sent, This) = HdrLen + l /\ HdrLen \in Nat
    BY <1>1, <1>2, SizeFacts
  <1> HIDE DEF t, d, l
  <1>6. /\ rx \in [Rings -> Seq(Byte)] /\ rx[cur] = rx_ring[cur] \o t
        /\ \A r \in Rings : r # cur => rx[r] = rx_ring[r]
    <2>1. rx_ring[cur] \o t \in Seq(Byte)
      BY <1>2, <1>4, JoinFacts
    <2>2. rx = [rx_ring EXCEPT ![cur] = rx_ring[cur] \o t]
      BY DEF t, Grown
    <2> QED
      BY <1>2, <2>1, <2>2
  <1>7. RunsOf(rx, cur, l - (n - got))
    <2> SUFFICES ASSUME NEW s \in Ids
                 PROVE  Run(rx[s], sent, conn, s, d, IF cur = s THEN l - (n - got) ELSE 0)
      BY DEF RunsOf, d
    <2>0. s \in Rings
      BY Names
    <2>1. CASE s # cur
      <3>1. Run(rx_ring[s], sent, conn, s, d, 0)
        BY <2>1 DEF RunsOf, d
      <3> QED
        BY <1>6, <2>0, <2>1, <3>1
    <2>2. CASE s = cur
      <3>1. h.id = s
        BY <2>2, Names DEF Live
      <3>2. Run(rx_ring[s], sent, conn, s, d, l - n)
        BY <2>2 DEF RunsOf, d, l
      <3>3. \A m \in 1..got : t[m] = <<conn, d + 1, HdrLen + ((l - n) + m)>>
        <4> SUFFICES ASSUME NEW m \in 1..got PROVE t[m] = <<conn, d + 1, HdrLen + ((l - n) + m)>>
          OBVIOUS
        <4>1. t[m] = <<conn, This, (Size(sent, This) - n) + m>>
          BY <1>4
        <4>2. (Size(sent, This) - n) + m = HdrLen + ((l - n) + m)
          BY <1>3, <1>5, <1>2
        <4> QED
          BY <1>1, <4>1, <4>2
      <3> DEFINE q == l - n
      <3>4. q \in 0..sent[d + 1].len /\ got \in 0..(sent[d + 1].len - q) /\ q + got = l - (n - got)
        <4>1. sent[d + 1].len = l
          BY <1>1 DEF l
        <4> QED
          BY <1>2, <1>3, <4>1
      <3>5. sent[d + 1].id = s /\ sent[d + 1].type = "DATA" /\ d + 1 \in 1..Len(sent) /\ rx_ring[s] \in Seq(Byte)
        BY <1>1, <1>2, <2>0, <3>1
      <3>6. Run(rx_ring[s], sent, conn, s, d, q) /\ \A m \in 1..got : t[m] = <<conn, d + 1, HdrLen + (q + m)>>
        BY <3>2, <3>3
      <3> HIDE DEF q
      <3>7. Run(rx_ring[s] \o t, sent, conn, s, d, q + got)
        BY <1>1, <1>2, <1>4, <3>4, <3>5, <3>6, RunGrow
      <3> QED
        BY <1>6, <2>2, <3>4, <3>7
    <2> QED
      BY <2>1, <2>2
  <1>8. HeldOf(rx, cur, Take(Payload(This), l - (n - got)))
    <2>1. Take(Payload(This), l - n) \o t = Take(Payload(This), l - (n - got))
      BY <1>1, <1>3, PayloadGrows DEF t, l
    <2> SUFFICES ASSUME NEW r \in Rings, ~ Keeps(r)
                 PROVE  rx[r] = IF r = cur THEN Take(Payload(This), l - (n - got)) ELSE <<>>
      BY DEF HeldOf
    <2>2. rx_ring[r] = IF r = cur THEN Take(Payload(This), l - n) ELSE <<>>
      BY DEF HeldOf, l
    <2> QED
      BY <1>6, <2>1, <2>2
  <1> QED
    BY <1>6, <1>7, <1>8 DEF l

\* What does not fit fails an assertion: only a ring that keeps bytes is too
\* full for a frame.
LEMMA OverflowKnown ==
  ASSUME TypeOK, HandledInv, SentInv, This <= Len(sent),
         NEW h, h = sent[This], NEW cur \in Rings, Live(cur, h),
         NEW n \in 0..h.len, NEW got \in 0..n,
         HeldOf(rx_ring, cur, Take(Payload(This), h.len - n)), Len(rx_ring[cur]) + got > RingSize
  PROVE  stream[h.id] \in {"socks5", "local"}
  <1> SUFFICES ASSUME stream[h.id] \notin {"socks5", "local"} PROVE FALSE
    OBVIOUS
  <1>1. This \in 1..Len(sent)
    BY ThisFacts
  <1>2. h.len \in Nat /\ h.len <= MaxPayload /\ MaxPayload \in Nat /\ RingSize \in Nat /\ MaxPayload <= RingSize
    BY <1>1, SentFacts, FramingAssumption DEF SentInv
  <1>3. ~ Keeps(cur)
    BY Names DEF Keeps, Live
  <1>4. rx_ring[cur] = Take(Payload(This), h.len - n)
    BY <1>3 DEF HeldOf
  <1>5. Payload(This) \in Seq(Byte) /\ Len(Payload(This)) = h.len
    BY <1>1, PayloadFacts
  <1> DEFINE l == h.len
             q == l - n
             ring == rx_ring[cur]
  <1>6. l \in Nat /\ n \in 0..l /\ got \in 0..n /\ Len(Payload(This)) = l /\ l <= MaxPayload
    BY <1>2, <1>5
  <1>7. ring = Take(Payload(This), q) /\ Len(ring) + got > RingSize
    BY <1>4
  <1> HIDE DEF l, ring
  <1>8. q \in 0..l /\ q + got <= l
    BY <1>6
  <1> HIDE DEF q
  <1>9. Len(ring) = q
    BY <1>5, <1>6, <1>7, <1>8, TakeFacts
  <1> QED
    BY <1>2, <1>6, <1>7, <1>8, <1>9

\* The process ends, or the same state stays.
LEMMA EndKeeps ==
  ASSUME Parts, UNCHANGED <<sent, wire, input, cur_stream, stream_len, stream, bevs, rx_ring, handled, conn>>,
         tmux_hdr' = tmux_hdr \/ cur_stream = "none",
         \/ pc' = pc
         \/ pc' = "read_assert" /\ This <= Len(sent) /\ stream[sent[This].id] \in {"socks5", "local"}
         \/ pc' = "use_after_free" /\ Dangling(cur_stream)
  PROVE  Parts'
  <1>1. TypeOK /\ SentInv /\ StreamInv /\ HandledInv /\ FrameInv /\ EndInv /\ RunInv /\ HeldInv
    BY DEF Parts
  <1>2. This' = This /\ Unread' = Unread
    BY DEF This, Unread
  <1>3. TypeOK'
    BY <1>1 DEF TypeOK
  <1>4. SentInv' /\ StreamInv'
    BY <1>1 DEF SentInv, StreamInv
  <1>5. HandledInv'
    BY <1>1 DEF HandledInv, HandledRight, Payload
  <1>6. FrameInv'
    <2>1. CASE cur_stream = "none"
      BY <1>1, <1>2, <2>1 DEF FrameInv
    <2>2. CASE cur_stream # "none"
      BY <1>1, <1>2, <2>2 DEF FrameInv, Holder, Live, Dangling
    <2> QED
      BY <2>1, <2>2
  <1>7. EndInv'
    BY <1>1, <1>2 DEF EndInv, Dangling
  <1>8. RunInv'
    <2>1. \A s \in Ids : Part(s)' = Part(s)
      BY <1>2 DEF Part
    <2> QED
      BY <1>1, <2>1 DEF RunInv
  <1>9. HeldInv'
    <2>1. Payload(This)' = Payload(This)
      BY <1>2 DEF Payload
    <2> QED
      BY <1>1, <1>2, <2>1 DEF HeldInv, Keeps, Dangling
  <1> QED
    BY <1>3, <1>4, <1>5, <1>6, <1>7, <1>8, <1>9 DEF Parts

\* Bytes of the payload arrive and fit the ring.
LEMMA PayloadKeeps ==
  ASSUME TypeOK, SentInv, StreamInv, HandledInv, This <= Len(sent), pc = "loop",
         NEW h, h = sent[This], h.type = "DATA", NEW cur \in Rings, Live(cur, h),
         NEW n \in 0..h.len, n = 0 => h.len = 0,
         NEW bytes \in Seq(Byte), Framed(bytes \o wire, sent, conn), Pos(bytes \o wire, sent, conn, This, n),
         RunsOf(rx_ring, cur, h.len - n), HeldOf(rx_ring, cur, Take(Payload(This), h.len - n)),
         ReadPayload(cur, h, n, bytes), pc' # "read_assert", tmux_hdr' = h, UNCHANGED <<sent, wire, conn>>
  PROVE  Parts'
  <1> DEFINE got == IF Len(bytes) < n THEN Len(bytes) ELSE n
             rx == [rx_ring EXCEPT ![cur] = @ \o Take(bytes, got)]
             u == bytes \o wire
             p == Payload(This)
             L == Len(bytes)
             l == h.len
  <1>1. This \in 1..Len(sent) /\ Len(sent) \in Nat /\ Len(handled) \in Nat /\ This = Len(handled) + 1
    BY ThisFacts DEF This
  <1>2. h \in Header /\ h.id \in Ids /\ wire \in Seq(Byte) /\ conn \in Nat /\ sent \in Seq(Header)
    BY <1>1, SentFacts DEF TypeOK
  <1>21. l \in Nat /\ L \in Nat /\ n \in 0..l
    BY <1>1, SentFacts
  <1>22. n \in Nat /\ n <= l
    <2> HIDE DEF l
    <2> QED
      BY <1>21
  <1>3. got \in 0..n /\ got \in 0..L /\ got \in Nat /\ (L < n => got = L) /\ (L >= n => got = n) /\ got <= L
    BY <1>21, <1>22
  <1>4. /\ input' = Drop(bytes, got)
        /\ L >= n => /\ stream_len' = n
                     /\ IF cur = "abandon" THEN Abandon(h, rx) ELSE Dispatch(h, rx)
        /\ ~ (L >= n) => /\ stream_len' = n - L
                         /\ rx_ring' = rx /\ cur_stream' = cur /\ pc' = "idle" /\ UNCHANGED <<handled, stream, bevs>>
    BY DEF ReadPayload, Complete, Left
  <1> HIDE DEF got
  <1>5. u \in Seq(Byte) /\ Len(u) = L + Len(wire) /\ \A k \in 1..L : u[k] = bytes[k]
    BY <1>2, JoinFacts
  <1>6. n \in 0..Size(sent, This)
    <2>1. Size(sent, This) \in Nat /\ l <= Size(sent, This)
      BY <1>1, <1>2, SizeFacts
    <2> HIDE DEF l
    <2> QED
      BY <1>21, <1>22, <2>1
  <1>7. /\ \A m \in 1..got : u[m] = <<conn, This, (Size(sent, This) - n) + m>>
        /\ Framed(Drop(u, got), sent, conn)
        /\ Pos(Drop(u, got), sent, conn, This, n - got)
    <2> HIDE DEF u
    <2>1. Framed(u, sent, conn) /\ Pos(u, sent, conn, This, n)
      BY DEF u
    <2>2. u \in Seq(Byte) /\ got \in 0..n
      BY <1>3, <1>5
    <2>3. Framed(Drop(u, got), sent, conn) /\ Pos(Drop(u, got), sent, conn, This, n - got)
      BY <1>1, <1>2, <1>6, <2>1, <2>2, Advance
    <2>4. \A m \in 1..got : u[m] = <<conn, This, (Size(sent, This) - n) + m>>
      BY <1>1, <1>2, <1>6, <2>1, <2>2, Advance, SMTT(20)
    <2> QED
      BY <2>3, <2>4
  <1>8. input' \in Seq(Byte) /\ Unread' = Drop(u, got)
    <2>1. Drop(bytes, got) \in Seq(Byte)
      BY <1>3, DropFacts
    <2>2. Drop(bytes, got) \o wire = Drop(u, got)
      BY <1>2, <1>3, DropJoin
    <2> QED
      BY <1>4, <2>1, <2>2 DEF Unread
  <1>9. \A m \in 1..got : bytes[m] = <<conn, This, (Size(sent, This) - n) + m>>
    BY <1>3, <1>5, <1>7
  <1>10. p \in Seq(Byte) /\ Len(p) = l
    BY <1>1, PayloadFacts
  <1>11. got <= Len(bytes) /\ got \in 0..n /\ rx = Grown(cur, Take(bytes, got))
    BY <1>3 DEF Grown
  <1> HIDE DEF rx, u
  <1>12. /\ rx \in [Rings -> Seq(Byte)] /\ RunsOf(rx, cur, h.len - (n - got))
         /\ HeldOf(rx, cur, Take(Payload(This), h.len - (n - got)))
    BY <1>9, <1>11, RingsGrow
  <1>13. RunsOf(rx, cur, l - (n - got)) /\ HeldOf(rx, cur, Take(p, l - (n - got)))
    BY <1>12
  <1>131. cur # "none" /\ ~ Dangling(cur)
    BY <1>2, Names DEF Live, Dangling
  <1> HIDE DEF p, L
  <1>14. CASE ~ (L >= n)
    <2>1. /\ stream_len' = n - L /\ rx_ring' = rx /\ cur_stream' = cur /\ pc' = "idle"
          /\ UNCHANGED <<handled, stream, bevs>>
      BY <1>4, <1>14
    <2>2. got = L /\ n - L \in Nat /\ n - L > 0 /\ n - L <= l
      <3>1. L \in Nat /\ ~ (L >= n) /\ (L < n => got = L)
        BY <1>3, <1>14, <1>21
      <3> HIDE DEF l
      <3> QED
        BY <1>21, <1>22, <3>1
    <2>3. This' = This /\ sent'[This'] = h
      BY <2>1 DEF This
    <2>4. TypeOK'
      BY <1>8, <1>12, <2>1, <2>2 DEF TypeOK
    <2>51. SentInv' /\ StreamInv'
      BY <2>1, SMTT(20) DEF SentInv, StreamInv
    <2>52. HandledInv'
      <3>1. ASSUME NEW k \in 1..Len(handled) PROVE HandledRight(k)'
        <4>1. HandledRight(k)
          BY DEF HandledInv
        <4> QED
          BY <2>1, <4>1 DEF HandledRight, Payload
      <3> QED
        BY <2>1, <3>1 DEF HandledInv
    <2>6. FrameInv'
      <3>2. Holder(cur_stream, sent[This])'
        BY <2>1, <2>3 DEF Holder, Live
      <3>3. Pos(Unread', sent', conn', This', stream_len')
        BY <1>7, <1>8, <2>1, <2>2, <2>3
      <3>4. Framed(Unread', sent', conn')
        BY <1>7, <1>8
      <3>5. stream_len' <= sent'[This'].len /\ stream_len' # 0
        BY <2>1, <2>2, <2>3
      <3>6. This' <= Len(sent') /\ tmux_hdr' = sent'[This'] /\ sent'[This'].type = "DATA"
        BY <2>3
      <3> QED
        BY <1>131, <2>1, <3>2, <3>3, <3>4, <3>5, <3>6 DEF FrameInv
    <2>7. EndInv'
      BY <1>131, <2>1 DEF EndInv, Dangling
    <2>8. l - (n - got) = sent'[This'].len - stream_len'
      BY <2>1, <2>2, <2>3
    <2> DEFINE q == l - (n - got)
    <2>81. q = sent'[This'].len - stream_len' /\ RunsOf(rx, cur, q) /\ HeldOf(rx, cur, Take(p, q))
      BY <1>13, <2>8
    <2> HIDE DEF q
    <2>9. RunInv'
      <3>1. \A s \in Ids : Part(s)' = IF cur = s THEN q ELSE 0
        BY <2>1, <2>81 DEF Part
      <3> QED
        BY <2>1, <2>81, <3>1 DEF RunInv, RunsOf
    <2>10. HeldInv'
      <3>1. Payload(This)' = p
        BY <2>3 DEF Payload, p
      <3>2. \A r \in Rings : ~ Keeps(r) => rx[r] = IF r = cur THEN Take(p, q) ELSE <<>>
        BY <2>81 DEF HeldOf
      <3>3. \A r \in Rings : r = cur_stream' /\ ~ Dangling(r)' <=> r = cur
        BY <1>131, <2>1 DEF Dangling
      <3>4. \A r \in Rings : Keeps(r)' <=> Keeps(r)
        BY <2>1 DEF Keeps
      <3> QED
        BY <2>1, <2>81, <3>1, <3>2, <3>3, <3>4 DEF HeldInv
    <2> QED
      BY <2>4, <2>51, <2>52, <2>6, <2>7, <2>9, <2>10 DEF Parts
  <1>15. CASE L >= n
    <2>1. got = n /\ n - got = 0 /\ l - (n - got) = l
      BY <1>3, <1>15, <1>21, <1>22
    <2>2. Take(p, l) = p /\ Take(p, l - (n - got)) = p
      BY <1>10, <2>1, TakeAll
    <2>3. stream_len' = n /\ IF cur = "abandon" THEN Abandon(h, rx) ELSE Dispatch(h, rx)
      BY <1>4, <1>15
    <2>4. h.seq = This
      BY <1>1 DEF SentInv
    <2>41. /\ \A s \in Ids : Run(rx[s], sent, conn, s, Len(handled), IF cur = s THEN h.len ELSE 0)
           /\ \A r \in Rings : ~ Keeps(r) => rx[r] = IF r = cur THEN Payload(This) ELSE <<>>
      <3>1. RunsOf(rx, cur, l) /\ HeldOf(rx, cur, p)
        BY <1>13, <2>1, <2>2
      <3> QED
        BY <3>1 DEF RunsOf, HeldOf, p
    <2>5. /\ SentInv' /\ StreamInv' /\ HandledInv' /\ This' = This + 1
          /\ handled' \in Seq(Outs) /\ stream' \in [Ids -> States] /\ bevs' \in [Ids -> Nat]
          /\ rx_ring' \in [Rings -> Seq(Byte)] /\ cur_stream' = "none" /\ pc' = pc
          /\ RunInv' /\ HeldInv'
      <3>1. CASE cur = "abandon"
        <4>1. /\ handled' = Append(handled, [seq |-> This, to |-> "abandon", bytes |-> <<>>])
              /\ rx_ring' = [rx EXCEPT !["abandon"] = <<>>] /\ cur_stream' = "none" /\ UNCHANGED <<stream, bevs, pc>>
          BY <2>3, <2>4, <3>1 DEF Abandon, Wiped
        <4>2. /\ rx_ring' \in [Rings -> Seq(Byte)] /\ rx_ring'["abandon"] = <<>>
              /\ \A r \in Rings : r # "abandon" => rx_ring'[r] = rx[r]
          BY <1>12, <4>1, Names
        <4>3. stream[h.id] = "gone"
          BY <1>2, <3>1, Names DEF Live
        <4>4. <<>> \in Seq(Byte) /\ "abandon" \in Rings \cup {"kept", "socks5"}
          BY Names
        <4>5. Outcome("abandon", <<>>, This) /\ sent[This].type = "DATA"
          BY <4>3 DEF Outcome
        <4>6. /\ SentInv' /\ StreamInv' /\ HandledInv' /\ This' = This + 1 /\ Len(handled') = This
              /\ handled' \in Seq(Outs) /\ stream' \in [Ids -> States]
          BY <4>1, <4>4, <4>5, FrameDone
        <4>7. bevs' \in [Ids -> Nat]
          BY <4>1 DEF TypeOK
        <4>8. RunInv'
          <5>1. \A s \in Ids : Part(s)' = 0
            BY <4>1, Names DEF Part
          <5> SUFFICES ASSUME NEW s \in Ids PROVE Run(rx_ring'[s], sent, conn, s, This, 0)
            BY <4>6, <5>1 DEF RunInv
          <5>2. rx_ring'[s] = rx[s] /\ s # cur /\ s \in Rings
            BY <3>1, <4>2, Names
          <5>3. CASE s = h.id
            <6>1. ~ Keeps(s)
              BY <4>3, <5>3 DEF Keeps
            <6>2. rx[s] = <<>>
              BY <2>41, <5>2, <6>1
            <6> QED
              BY <5>2, <6>2, RunEmpty
          <5>4. CASE s # h.id
            <6>1. Run(rx[s], sent, conn, s, Len(handled), 0)
              BY <2>41, <5>2
            <6>11. sent[Len(handled) + 1].id # s /\ Len(handled) + 1 \in 1..Len(sent) /\ 0 \in Int
              BY <1>1, <5>4
            <6>2. Run(rx[s], sent, conn, s, Len(handled) + 1, 0)
              BY <1>1, <1>2, <6>1, <6>11, RunNext
            <6> QED
              BY <1>1, <5>2, <6>2
          <5> QED
            BY <5>3, <5>4
        <4>9. HeldInv'
          <5> SUFFICES ASSUME NEW r \in Rings, ~ Keeps(r)' PROVE rx_ring'[r] = <<>>
            BY <4>1, Names DEF HeldInv
          <5>1. ~ Keeps(r)
            BY <4>1 DEF Keeps
          <5> QED
            BY <2>41, <3>1, <4>2, <5>1
        <4> QED
          BY <4>1, <4>2, <4>6, <4>7, <4>8, <4>9
      <3>2. CASE cur # "abandon"
        <4>1. cur = h.id /\ stream[h.id] \in {"listed", "tunnel", "socks5", "local"}
          BY <3>2 DEF Live
        <4>2. \A s \in Ids : Run(rx[s], sent, conn, s, Len(handled), IF s = h.id THEN h.len ELSE 0)
          BY <2>41, <4>1
        <4>3. \A r \in Rings : ~ Keeps(r) => rx[r] = IF r = h.id /\ h.type = "DATA" THEN Payload(This) ELSE <<>>
          BY <2>41, <4>1
        <4>4. Dispatch(h, rx)
          BY <2>3, <3>2
        <4> QED
          BY <1>12, <4>1, <4>2, <4>3, <4>4, DispatchKeeps
      <3> QED
        BY <3>1, <3>2
    <2>6. TypeOK'
      BY <1>2, <1>8, <1>22, <2>3, <2>5 DEF TypeOK
    <2>7. FrameInv'
      <3>1. Pos(Unread', sent', conn', This, 0)
        BY <1>7, <1>8, <2>1
      <3>2. At(Unread', sent', conn', 1, This')
        BY <2>5, <3>1 DEF Pos
      <3>3. Framed(Unread', sent', conn')
        BY <1>7, <1>8
      <3> QED
        BY <2>5, <3>2, <3>3 DEF FrameInv
    <2>8. EndInv'
      BY <2>5, Names DEF EndInv, Dangling
    <2> QED
      BY <2>5, <2>6, <2>7, <2>8 DEF Parts
  <1>16. L >= n \/ ~ (L >= n)
    OBVIOUS
  <1> QED
    BY <1>14, <1>15, <1>16

\* A frame begun in an earlier callback is read on.
LEMMA ReadRestKeeps ==
  ASSUME Parts, ReadRest
  PROVE  Parts'
  <1>1. TypeOK /\ SentInv /\ StreamInv /\ HandledInv /\ FrameInv /\ EndInv /\ RunInv /\ HeldInv
    BY DEF Parts
  <1>2. cur_stream # "none" /\ pc = "loop" /\ UNCHANGED <<sent, wire, conn>>
    BY DEF ReadRest
  <1>3. /\ This <= Len(sent) /\ tmux_hdr = sent[This] /\ sent[This].type = "DATA"
        /\ Holder(cur_stream, sent[This])
        /\ stream_len <= sent[This].len /\ (stream_len = 0 => sent[This].len = 0)
        /\ Pos(Unread, sent, conn, This, stream_len)
    BY <1>1, <1>2 DEF FrameInv
  <1>4. cur_stream \in Rings /\ input \in Seq(Byte) /\ stream_len \in Nat
    BY <1>1, <1>2 DEF TypeOK
  <1>5. This \in 1..Len(sent) /\ Len(sent) \in Nat
    BY <1>1, <1>3, ThisFacts
  <1>6. sent[This].len \in Nat /\ sent[This].id \in Ids
    BY <1>1, <1>5, SentFacts
  <1>7. CASE cur_stream \in Work /\ ~ Listed(cur_stream)
    <2>1. pc' = "use_after_free" /\ UNCHANGED <<input, cur_stream, tmux_hdr, stream_len, stream, bevs, rx_ring, handled>>
      BY <1>7 DEF ReadRest, parser
    <2>2. Dangling(cur_stream)
      BY <1>3, <1>7, Names DEF Holder, Live, Listed, Established
    <2> QED
      BY <1>2, <2>1, <2>2, EndKeeps
  <1>8. CASE ~ (cur_stream \in Work /\ ~ Listed(cur_stream))
    <2>1. ReadPayload(cur_stream, tmux_hdr, stream_len, input) /\ tmux_hdr' = tmux_hdr
      BY <1>8 DEF ReadRest, Remaining
    <2>2. ~ Dangling(cur_stream)
      BY <1>8, Names DEF Dangling, Listed, Established
    <2>3. Live(cur_stream, sent[This])
      BY <1>3, <2>2 DEF Holder
    <2> DEFINE h == sent[This]
               cur == cur_stream
               n == stream_len
               bytes == input
               got == IF Len(bytes) < n THEN Len(bytes) ELSE n
    <2>4. n \in 0..h.len
      BY <1>3, <1>4, <1>6
    <2>5. Framed(bytes \o wire, sent, conn) /\ Pos(bytes \o wire, sent, conn, This, n)
      BY <1>1, <1>3 DEF FrameInv, Unread
    <2>6. RunsOf(rx_ring, cur, h.len - n)
      BY <1>1 DEF RunInv, Part, RunsOf
    <2>7. HeldOf(rx_ring, cur, Take(Payload(This), h.len - n))
      <3>1. \A r \in Rings : r = cur_stream /\ ~ Dangling(r) <=> r = cur_stream
        BY <2>2
      <3> QED
        BY <1>1, <3>1 DEF HeldInv, HeldOf
    <2>8. /\ h = sent[This] /\ h.type = "DATA" /\ cur \in Rings /\ Live(cur, h) /\ (n = 0 => h.len = 0)
          /\ bytes \in Seq(Byte) /\ ReadPayload(cur, h, n, bytes) /\ tmux_hdr' = h
      BY <1>3, <1>4, <2>1, <2>3
    <2>9. CASE pc' # "read_assert"
      <3> HIDE DEF h, cur, n, bytes
      <3> QED
        BY <1>1, <1>2, <1>3, <2>4, <2>5, <2>6, <2>7, <2>8, <2>9, PayloadKeeps
    <2>10. CASE pc' = "read_assert"
      <3>1. /\ Len(rx_ring[cur]) + got > RingSize
            /\ UNCHANGED <<input, cur_stream, stream_len, stream, bevs, rx_ring, handled>>
        <4>1. ReadPayload(cur, h, n, bytes)
          BY <2>8
        <4> HIDE DEF h, cur, n, bytes
        <4> QED
          BY <1>2, <2>10, <4>1 DEF ReadPayload, Abandon, Dispatch
      <3>2. got \in 0..n
        BY <1>4
      <3>3. stream[h.id] \in {"socks5", "local"}
        <4> HIDE DEF h, cur, n, got
        <4> QED
          BY <1>1, <1>3, <2>4, <2>7, <2>8, <3>1, <3>2, OverflowKnown
      <3> QED
        BY <1>2, <1>3, <2>1, <2>10, <3>1, <3>3, EndKeeps
    <2> QED
      BY <2>9, <2>10
  <1> QED
    BY <1>7, <1>8

\* A header is read where one begins.
LEMMA ReadHeaderKeeps ==
  ASSUME Parts, ReadHeader
  PROVE  Parts'
  <1> DEFINE b == Take(input, HdrLen)
             rest == Drop(input, HdrLen)
             h == sent[This]
             cur == IF Listed(h.id) THEN h.id ELSE "abandon"
             u == Unread
             v == Drop(Unread, HdrLen)
  <1>1. TypeOK /\ SentInv /\ StreamInv /\ HandledInv /\ FrameInv /\ EndInv /\ RunInv /\ HeldInv
    BY DEF Parts
  <1>2. cur_stream = "none" /\ Len(input) >= HdrLen /\ pc = "loop" /\ UNCHANGED <<sent, wire, conn>>
    BY DEF ReadHeader
  <1>3. /\ input \in Seq(Byte) /\ wire \in Seq(Byte) /\ conn \in Nat /\ HdrLen \in Nat \ {0} /\ HdrLen \in 0..Len(input)
        /\ Len(input) \in Nat /\ Len(wire) \in Nat
    BY <1>1, <1>2, FramingAssumption DEF TypeOK
  <1>4. u \in Seq(Byte) /\ Len(u) = Len(input) + Len(wire) /\ \A k \in 1..Len(input) : u[k] = input[k]
    BY <1>3, JoinFacts DEF Unread
  <1>5. Framed(u, sent, conn) /\ At(u, sent, conn, 1, This)
    BY <1>1, <1>2 DEF FrameInv
  <1>6. This \in Nat \ {0} /\ Len(sent) \in Nat /\ sent \in Seq(Header)
    BY <1>1, ThisFacts, SentFacts
  <1>7. This \in 1..Len(sent)
    <2>1. Len(u) >= 1
      BY <1>3, <1>4
    <2>2. ~ (1 = Len(u) + 1)
      BY <1>3, <1>4, <2>1
    <2>3. This <= Len(sent)
      BY <1>5, <2>2 DEF At
    <2> QED
      BY <1>6, <2>3
  <1>8. /\ h \in Header /\ h.id \in Ids /\ h.len \in Nat /\ h.seq = This /\ (h.type # "DATA" => h.len = 0)
        /\ stream[h.id] # "absent"
    BY <1>1, <1>7, SentFacts DEF SentInv, StreamInv
  <1>9. /\ Size(sent, This) \in Nat /\ Size(sent, This) = HdrLen + h.len /\ HdrLen \in 0..Size(sent, This)
        /\ Size(sent, This) \in 0..Size(sent, This) /\ Size(sent, This) > 0
    <2>1. /\ Size(sent, This) \in Nat /\ Size(sent, This) = HdrLen + h.len /\ HdrLen <= Size(sent, This)
          /\ 1 <= Size(sent, This)
      BY <1>6, <1>7, SizeFacts
    <2> QED
      BY <1>3, <2>1
  <1>10. Pos(u, sent, conn, This, Size(sent, This))
    <2>1. 1 \in 1..Len(u) /\ u[1] = <<conn, This, 1>>
      BY <1>5, <1>7 DEF At
    <2>2. Size(sent, This) - Size(sent, This) + 1 = 1
      BY <1>9
    <2> QED
      BY <1>9, <2>1, <2>2 DEF Pos
  <1>11. /\ \A m \in 1..HdrLen : u[m] = <<conn, This, (Size(sent, This) - Size(sent, This)) + m>>
         /\ Framed(v, sent, conn) /\ Pos(v, sent, conn, This, Size(sent, This) - HdrLen)
    <2> HIDE DEF u
    <2>1. Framed(Drop(u, HdrLen), sent, conn) /\ Pos(Drop(u, HdrLen), sent, conn, This, Size(sent, This) - HdrLen)
      BY <1>3, <1>4, <1>5, <1>6, <1>7, <1>9, <1>10, Advance
    <2>2. \A m \in 1..HdrLen : u[m] = <<conn, This, (Size(sent, This) - Size(sent, This)) + m>>
      BY <1>3, <1>4, <1>5, <1>6, <1>7, <1>9, <1>10, Advance, SMTT(20)
    <2> QED
      BY <2>1, <2>2 DEF u
  <1>12. Pos(v, sent, conn, This, h.len)
    <2>1. Size(sent, This) - HdrLen = h.len
      BY <1>3, <1>8, <1>9
    <2> QED
      BY <1>11, <2>1
  <1>13. \A m \in 1..HdrLen : b[m] = <<conn, This, m>>
    <2> SUFFICES ASSUME NEW m \in 1..HdrLen PROVE b[m] = <<conn, This, m>>
      OBVIOUS
    <2>1. b[m] = input[m] /\ m \in 1..Len(input)
      BY <1>3, TakeFacts
    <2>2. u[m] = <<conn, This, (Size(sent, This) - Size(sent, This)) + m>> /\ u[m] = input[m]
      BY <1>4, <1>11, <2>1
    <2>3. (Size(sent, This) - Size(sent, This)) + m = m
      BY <1>3, <1>9
    <2> QED
      BY <2>1, <2>2, <2>3
  <1>14. b \in Seq(Byte) /\ Len(b) = HdrLen
    BY <1>3, TakeFacts
  <1>15. b[1] = <<conn, This, 1>> /\ b[1][2] = This
    <2>1. 1 \in 1..HdrLen
      BY <1>3
    <2>2. b[1] = <<conn, This, 1>>
      BY <1>13, <2>1
    <2> QED
      BY <2>2
  <1>16. IsHeader(b)
    <2> DEFINE t == [i \in 1..HdrLen |-> <<conn, This, i>>]
    <2>1. t \in Seq(Byte) /\ Len(t) = HdrLen /\ \A m \in 1..HdrLen : t[m] = <<conn, This, m>>
      <3>0. conn \in Nat /\ This \in Nat /\ \A m \in 1..HdrLen : m \in Nat
        BY <1>3, <1>6
      <3>1. \A m \in 1..HdrLen : <<conn, This, m>> \in Byte
        BY <3>0 DEF Byte
      <3> QED
        BY <1>3, <3>1
    <2> HIDE DEF t, b
    <2>2. b = t
      BY <1>13, <1>14, <2>1, SameSeq
    <2>3. t = [i \in 1..HdrLen |-> <<conn, b[1][2], i>>]
      BY <1>15 DEF t
    <2> QED
      BY <2>2, <2>3 DEF IsHeader
  <1>17. sent[b[1][2]] = h
    BY <1>15
  <1>18. /\ tmux_hdr' = h
         /\ \/ /\ h.type # "DATA"
               /\ input' = rest /\ UNCHANGED stream_len
               /\ Dispatch(h, rx_ring)
            \/ /\ h.type = "DATA" /\ h.len = 0 /\ cur = "abandon"
               /\ input' = rest /\ stream_len' = 0
               /\ handled' = Append(handled, [seq |-> h.seq, to |-> "abandon", bytes |-> <<>>])
               /\ UNCHANGED <<cur_stream, stream, bevs, rx_ring, pc>>
            \/ /\ h.type = "DATA" /\ ~ (h.len = 0 /\ cur = "abandon") /\ rest = <<>>
               /\ input' = rest /\ stream_len' = h.len
               /\ cur_stream' = cur /\ pc' = "idle"
               /\ UNCHANGED <<stream, bevs, rx_ring, handled>>
            \/ /\ h.type = "DATA" /\ ~ (h.len = 0 /\ cur = "abandon") /\ rest # <<>>
               /\ ReadPayload(cur, h, h.len, rest)
    <2>1. LET g == sent[b[1][2]]
              q == IF Listed(g.id) THEN g.id ELSE "abandon"
          IN
          IF ~ IsHeader(b)
          THEN pc' = "misframed" /\ UNCHANGED <<input, parser, stream, bevs, rx_ring, handled>>
          ELSE /\ tmux_hdr' = g
               /\ \/ /\ g.type # "DATA"
                     /\ input' = rest /\ UNCHANGED stream_len
                     /\ Dispatch(g, rx_ring)
                  \/ /\ g.type = "DATA" /\ g.len = 0 /\ q = "abandon"
                     /\ input' = rest /\ stream_len' = 0
                     /\ handled' = Append(handled, [seq |-> g.seq, to |-> "abandon", bytes |-> <<>>])
                     /\ UNCHANGED <<cur_stream, stream, bevs, rx_ring, pc>>
                  \/ /\ g.type = "DATA" /\ ~ (g.len = 0 /\ q = "abandon") /\ rest = <<>>
                     /\ input' = rest /\ stream_len' = g.len
                     /\ cur_stream' = q /\ pc' = "idle"
                     /\ UNCHANGED <<stream, bevs, rx_ring, handled>>
                  \/ /\ g.type = "DATA" /\ ~ (g.len = 0 /\ q = "abandon") /\ rest # <<>>
                     /\ ReadPayload(q, g, g.len, rest)
      BY DEF ReadHeader
    <2> HIDE DEF b, rest
    <2> QED
      BY <1>16, <1>17, <2>1
  <1>19. cur \in Rings /\ (h.type = "DATA" => Live(cur, h))
    <2>1. stream[h.id] \in States /\ stream[h.id] # "absent" /\ h.id \in Rings
      BY <1>1, <1>8, Names DEF TypeOK
    <2>2. ASSUME h.type = "DATA" PROVE stream[h.id] # "syn"
      <3>1. PICK j \in 1..(This - 1) : sent[j].id = h.id /\ sent[j].type = "ACK"
        BY <1>1, <1>7, <2>2 DEF SentInv
      <3>2. j \in 1..Len(handled)
        BY <1>1, <1>6, ThisFacts DEF This
      <3> QED
        BY <1>1, <3>1, <3>2 DEF StreamInv
    <2>3. stream[h.id] # "fin"
      <3> SUFFICES ASSUME stream[h.id] = "fin" PROVE FALSE
        OBVIOUS
      <3>1. PICK j \in 1..Len(handled) : sent[j].id = h.id /\ sent[j].type = "FIN"
        BY <1>1, <1>8 DEF StreamInv
      <3>2. j \in 1..(This - 1)
        BY <1>1, ThisFacts DEF This
      <3> QED
        BY <1>1, <1>7, <3>1, <3>2 DEF SentInv
    <2>4. cur \in Rings
      BY <2>1, Names
    <2>5. ASSUME h.type = "DATA" PROVE Live(cur, h)
      <3>1. stream[h.id] \in {"listed", "tunnel", "socks5", "local", "gone"}
        BY <2>1, <2>2, <2>3, <2>5 DEF States
      <3> QED
        BY <3>1 DEF Live, Listed, Established
    <2> QED
      BY <2>4, <2>5
  <1>20. rest \in Seq(Byte) /\ rest \o wire = v
    BY <1>3, DropFacts, DropJoin DEF Unread
  <1>21. \A r \in Rings : ~ Keeps(r) => rx_ring[r] = <<>>
    BY <1>1, <1>2, Names DEF HeldInv
  <1>211. \A s \in Ids : Run(rx_ring[s], sent, conn, s, Len(handled), 0)
    <2>1. \A s \in Ids : Part(s) = 0
      BY <1>2, Names DEF Part
    <2> QED
      BY <1>1, <2>1 DEF RunInv
  <1>22. Payload(This) \in Seq(Byte) /\ Len(Payload(This)) = h.len
    BY <1>1, <1>7, PayloadFacts
  <1>23. This <= Len(sent) /\ Len(handled) \in Nat /\ This = Len(handled) + 1
    BY <1>1, <1>6, <1>7, ThisFacts DEF This
  <1> HIDE DEF rest, v, b, u
  <1>24. CASE h.type # "DATA"
    <2>1. input' = rest /\ stream_len' = stream_len /\ Dispatch(h, rx_ring) /\ h.len = 0
      BY <1>8, <1>18, <1>24
    <2>2. rx_ring \in [Rings -> Seq(Byte)] /\ h = sent[This]
      BY <1>1 DEF TypeOK
    <2>3. \A s \in Ids : Run(rx_ring[s], sent, conn, s, Len(handled), IF s = h.id THEN h.len ELSE 0)
      BY <1>211, <2>1
    <2>4. \A r \in Rings : ~ Keeps(r) => rx_ring[r] = IF r = h.id /\ h.type = "DATA" THEN Payload(This) ELSE <<>>
      BY <1>21, <1>24
    <2>5. /\ SentInv' /\ StreamInv' /\ HandledInv' /\ This' = This + 1
          /\ handled' \in Seq(Outs) /\ stream' \in [Ids -> States] /\ bevs' \in [Ids -> Nat]
          /\ rx_ring' \in [Rings -> Seq(Byte)] /\ cur_stream' = "none" /\ pc' = pc
          /\ RunInv' /\ HeldInv'
      <3> HIDE DEF h
      <3> QED
        BY <1>1, <1>2, <1>23, <1>24, <2>1, <2>2, <2>3, <2>4, DispatchKeeps
    <2>6. TypeOK'
      BY <1>1, <1>2, <1>20, <2>1, <2>5 DEF TypeOK
    <2>7. Unread' = v
      BY <1>2, <1>20, <2>1 DEF Unread
    <2>8. FrameInv'
      <3>1. At(v, sent, conn, 1, This + 1)
        BY <1>12, <2>1 DEF Pos
      <3> QED
        BY <1>2, <1>11, <2>5, <2>7, <3>1 DEF FrameInv
    <2>9. EndInv'
      BY <1>2, <2>5, Names DEF EndInv, Dangling
    <2> QED
      BY <2>5, <2>6, <2>8, <2>9 DEF Parts
  <1>25. CASE h.type = "DATA" /\ h.len = 0 /\ cur = "abandon"
    <2>1. /\ input' = rest /\ stream_len' = 0 /\ UNCHANGED <<cur_stream, stream, bevs, rx_ring, pc>>
          /\ handled' = Append(handled, [seq |-> This, to |-> "abandon", bytes |-> <<>>])
      <3>1. /\ input' = rest /\ stream_len' = 0
            /\ handled' = Append(handled, [seq |-> h.seq, to |-> "abandon", bytes |-> <<>>])
            /\ UNCHANGED <<cur_stream, stream, bevs, rx_ring, pc>>
        BY <1>18, <1>25
      <3> QED
        BY <1>8, <3>1
    <2>2. Outcome("abandon", <<>>, This) /\ sent[This].type = "DATA"
      BY <1>8, <1>19, <1>25, Names DEF Live, Outcome
    <2>3. <<>> \in Seq(Byte) /\ "abandon" \in Rings \cup {"kept", "socks5"}
      BY Names
    <2>4. /\ SentInv' /\ StreamInv' /\ HandledInv' /\ This' = This + 1 /\ Len(handled') = This
          /\ handled' \in Seq(Outs) /\ stream' \in [Ids -> States]
      BY <1>1, <1>2, <1>23, <2>1, <2>2, <2>3, FrameDone
    <2>5. TypeOK'
      BY <1>1, <1>2, <1>20, <2>1, <2>4 DEF TypeOK
    <2>6. Unread' = v
      BY <1>2, <1>20, <2>1 DEF Unread
    <2>7. FrameInv'
      <3>1. At(v, sent, conn, 1, This + 1)
        BY <1>12, <1>25 DEF Pos
      <3> QED
        BY <1>2, <1>11, <2>1, <2>4, <2>6, <3>1 DEF FrameInv
    <2>8. EndInv'
      BY <1>2, <2>1, Names DEF EndInv, Dangling
    <2>9. RunInv'
      <3>1. \A s \in Ids : Part(s)' = 0
        BY <1>2, <2>1, Names DEF Part
      <3> SUFFICES ASSUME NEW s \in Ids PROVE Run(rx_ring[s], sent, conn, s, This, 0)
        BY <1>2, <2>1, <2>4, <3>1 DEF RunInv
      <3>2. Run(rx_ring[s], sent, conn, s, Len(handled), 0)
        BY <1>211
      <3>3. sent[Len(handled) + 1].len <= 0 /\ Len(handled) + 1 \in 1..Len(sent) /\ 0 \in Int
        BY <1>7, <1>23, <1>25
      <3>4. Run(rx_ring[s], sent, conn, s, Len(handled) + 1, 0)
        BY <1>6, <1>23, <3>2, <3>3, RunNext
      <3> QED
        BY <1>23, <3>4
    <2>10. HeldInv'
      <3> SUFFICES ASSUME NEW r \in Rings, ~ Keeps(r)' PROVE rx_ring'[r] = <<>>
        BY <1>2, <2>1, Names DEF HeldInv
      <3>1. ~ Keeps(r)
        BY <2>1 DEF Keeps
      <3> QED
        BY <1>21, <2>1, <3>1
    <2> QED
      BY <2>4, <2>5, <2>7, <2>8, <2>9, <2>10 DEF Parts
  <1>26. Take(Payload(This), h.len - h.len) = <<>> /\ h.len - h.len = 0
    <2>1. h.len - h.len = 0
      BY <1>8
    <2> QED
      BY <1>22, <2>1, TakeAll
  <1>261. cur # "none" /\ (h.type = "DATA" => ~ Dangling(cur))
    BY <1>19, Names DEF Live, Dangling
  <1>27. CASE h.type = "DATA" /\ ~ (h.len = 0 /\ cur = "abandon") /\ rest = <<>>
    <2>1. /\ input' = rest /\ stream_len' = h.len /\ cur_stream' = cur /\ pc' = "idle"
          /\ UNCHANGED <<stream, bevs, rx_ring, handled>>
      BY <1>18, <1>27
    <2>2. This' = This /\ Unread' = v /\ sent'[This'] = h
      BY <1>2, <1>20, <2>1 DEF Unread, This
    <2>3. TypeOK'
      BY <1>1, <1>2, <1>8, <1>19, <1>20, <2>1 DEF TypeOK
    <2>4. SentInv' /\ StreamInv'
      BY <1>1, <1>2, <2>1 DEF SentInv, StreamInv
    <2>5. HandledInv'
      <3>1. ASSUME NEW k \in 1..Len(handled) PROVE HandledRight(k)'
        <4>1. HandledRight(k)
          BY <1>1 DEF HandledInv
        <4> QED
          BY <1>2, <2>1, <4>1 DEF HandledRight, Payload
      <3> QED
        BY <1>1, <1>2, <2>1, <3>1 DEF HandledInv
    <2>6. FrameInv'
      <3>1. Holder(cur_stream, sent[This])'
        BY <1>2, <1>19, <1>27, <2>1, <2>2 DEF Holder, Live
      <3>2. stream_len' <= h.len
        BY <1>8, <2>1
      <3> QED
        BY <1>2, <1>11, <1>12, <1>18, <1>23, <1>27, <1>261, <2>1, <2>2, <3>1, <3>2 DEF FrameInv
    <2>7. EndInv'
      BY <1>27, <1>261, <2>1 DEF EndInv, Dangling
    <2>8. RunInv'
      <3>1. \A s \in Ids : Part(s)' = 0
        BY <1>26, <2>1, <2>2 DEF Part
      <3> QED
        BY <1>2, <1>211, <2>1, <3>1 DEF RunInv
    <2>9. HeldInv'
      <3>1. Payload(This)' = Payload(This)
        BY <1>2, <2>2 DEF Payload
      <3>2. \A r \in Rings : Keeps(r)' <=> Keeps(r)
        BY <2>1 DEF Keeps
      <3>3. Take(Payload(This)', sent'[This'].len - stream_len') = <<>>
        BY <1>26, <2>1, <2>2, <3>1
      <3> QED
        BY <1>21, <2>1, <3>2, <3>3 DEF HeldInv
    <2> QED
      BY <2>3, <2>4, <2>5, <2>6, <2>7, <2>8, <2>9 DEF Parts
  <1>28. CASE h.type = "DATA" /\ ~ (h.len = 0 /\ cur = "abandon") /\ rest # <<>>
    <2>1. ReadPayload(cur, h, h.len, rest) /\ tmux_hdr' = h /\ h = sent[This]
      BY <1>18, <1>28
    <2>2. RunsOf(rx_ring, cur, h.len - h.len)
      BY <1>26, <1>211 DEF RunsOf
    <2>3. HeldOf(rx_ring, cur, Take(Payload(This), h.len - h.len))
      BY <1>21, <1>26 DEF HeldOf
    <2>4. Framed(rest \o wire, sent, conn) /\ Pos(rest \o wire, sent, conn, This, h.len)
      BY <1>11, <1>12, <1>20
    <2>5. h.len \in 0..h.len /\ (h.len = 0 => h.len = 0) /\ h.type = "DATA" /\ Live(cur, h) /\ cur \in Rings
      BY <1>8, <1>19, <1>28
    <2>6. CASE pc' # "read_assert"
      <3> HIDE DEF h, cur
      <3> QED
        BY <1>1, <1>2, <1>20, <1>23, <2>1, <2>2, <2>3, <2>4, <2>5, <2>6, PayloadKeeps
    <2>7. CASE pc' = "read_assert"
      <3> DEFINE got == IF Len(rest) < h.len THEN Len(rest) ELSE h.len
      <3>1. /\ Len(rx_ring[cur]) + got > RingSize
            /\ UNCHANGED <<input, cur_stream, stream_len, stream, bevs, rx_ring, handled>>
        <4> HIDE DEF h, cur
        <4> QED
          BY <1>2, <2>1, <2>7 DEF ReadPayload, Abandon, Dispatch
      <3>2. got \in 0..h.len
        BY <1>8, <1>20
      <3>3. stream[h.id] \in {"socks5", "local"}
        <4> HIDE DEF h, cur, got
        <4> QED
          BY <1>1, <1>23, <2>1, <2>3, <2>5, <3>1, <3>2, OverflowKnown
      <3> QED
        BY <1>2, <1>23, <2>7, <3>1, <3>3, EndKeeps
    <2> QED
      BY <2>6, <2>7
  <1> QED
    BY <1>18, <1>24, <1>25, <1>27, <1>28

-----------------------------------------------------------------------------
(* Every step keeps the invariant                                            *)

LEMMA NextFInv == FInv /\ [Next]_vars => FInv'
  <1> SUFFICES ASSUME FInv, [Next]_vars, ~ torn' PROVE Parts'
    BY DEF FInv
  <1>1. ASSUME NEW type \in {"ACK", "DATA", "FIN", "RST", "PING"}, NEW s \in Ids, NEW n \in 0..MaxPayload,
               PeerSend(type, s, n)
        PROVE  Parts'
    <2>1. Parts /\ type \in Types /\ n \in Nat /\ n <= MaxPayload
      BY <1>1, FramingAssumption DEF PeerSend, FInv, Types
    <2> QED
      BY <1>1, <2>1, PeerSendKeeps
  <1>2. ASSUME NEW n \in 1..(MaxFrames * (HdrLen + MaxPayload)), Arrive(n) PROVE Parts'
    <2>1. MaxFrames * (HdrLen + MaxPayload) \in Nat
      <3>1. MaxFrames \in Nat /\ HdrLen + MaxPayload \in Nat
        BY FramingAssumption
      <3> QED
        BY <3>1
    <2>2. Parts /\ n \in Nat
      BY <1>2, <2>1 DEF Arrive, FInv
    <2> QED
      BY <1>2, <2>2, ArriveKeeps
  <1>3. CASE LoopEnds
    <2>1. Parts
      BY <1>3 DEF LoopEnds, FInv
    <2> QED
      BY <1>3, <2>1, LoopEndsKeeps
  <1>4. CASE ReadHeader
    <2>1. Parts
      BY <1>4 DEF ReadHeader, FInv
    <2> QED
      BY <1>4, <2>1, ReadHeaderKeeps
  <1>5. CASE ReadRest
    <2>1. Parts
      BY <1>5 DEF ReadRest, FInv
    <2> QED
      BY <1>5, <2>1, ReadRestKeeps
  <1>6. ASSUME NEW s \in Work, LocalClose(s) PROVE Parts'
    <2>1. Parts
      BY <1>6 DEF LocalClose, FInv
    <2> QED
      BY <1>6, <2>1, LocalCloseKeeps
  <1>61. ASSUME NEW s \in Work, Connected(s) PROVE Parts'
    <2>1. Parts
      BY <1>61 DEF Connected, FInv
    <2> QED
      BY <1>61, <2>1, ConnectedKeeps
  <1>7. CASE Reconnect
    <2>1. Parts /\ cur_stream = "none"
      BY <1>7 DEF Reconnect, FInv
    <2> QED
      BY <1>7, <2>1, ReconnectKeeps
  <1>8. CASE UNCHANGED vars
    <2>1. UNCHANGED <<sent, wire, input, cur_stream, tmux_hdr, stream_len, stream, bevs, rx_ring, handled, pc, conn, torn>>
      BY <1>8 DEF vars, parser
    <2>2. Parts
      BY <2>1 DEF FInv
    <2> QED
      BY <2>1, <2>2, EndKeeps
  <1> QED
    BY <1>1, <1>2, <1>3, <1>4, <1>5, <1>6, <1>61, <1>7, <1>8 DEF Next

-----------------------------------------------------------------------------
(* Theorems                                                                  *)

\* As long as no connection was cut within a frame, FInv holds in every state
\* recv_cb can reach, for any lengths of header and payload, any streams and
\* any cut of the bytes into callbacks.
THEOREM FramingInvariance == Spec => []FInv
  <1>1. Init => FInv
    BY InitFInv
  <1>2. FInv /\ [Next]_vars => FInv'
    BY NextFInv
  <1> QED
    BY <1>1, <1>2, PTL DEF Spec

\* recv_cb handles the frames of frps in order. The payload of an ESTABLISHED
\* stream reaches its handler or its local service exactly; what is not handed
\* over is kept by a half-closed stream, is left to handle_ss5, or belongs to a
\* stream that is freed. Every header is read where one begins and nothing is
\* withheld; the process goes wrong only in the two ways of KnownEnd. All this
\* unless a connection was cut within a frame.
THEOREM FramingAlwaysExact == Spec => []FramingExact
  <1>1. FInv => FramingExact
    <2> SUFFICES ASSUME Parts
                 PROVE  /\ pc \in {"idle", "loop"} \/ KnownEnd
                        /\ Len(handled) <= Len(sent)
                        /\ \A k \in 1..Len(handled) : HandledRight(k)
                        /\ (pc = "idle" /\ wire = <<>> /\ input = <<>>) =>
                             Len(handled) = Len(sent) \/ EmptyWaits
      BY DEF FInv, FramingExact
    <2>1. TypeOK /\ HandledInv /\ FrameInv /\ EndInv
      BY DEF Parts
    <2>2. Len(handled) \in Nat /\ Len(sent) \in Nat /\ This = Len(handled) + 1
      BY <2>1, ThisFacts DEF This
    <2>3. ASSUME wire = <<>>, input = <<>> PROVE Len(handled) = Len(sent) \/ EmptyWaits
      <3>1. Unread = <<>> /\ Len(Unread) = 0
        BY <2>3 DEF Unread
      <3>2. CASE cur_stream = "none"
        <4>1. At(Unread, sent, conn, 1, This)
          BY <2>1, <3>2 DEF FrameInv
        <4>2. ~ (This <= Len(sent))
          BY <3>1, <4>1 DEF At
        <4> QED
          BY <2>1, <2>2, <4>2 DEF HandledInv
      <3>3. CASE cur_stream # "none"
        <4>1. /\ This <= Len(sent) /\ sent[This].type = "DATA" /\ (stream_len = 0 => sent[This].len = 0)
              /\ Pos(Unread, sent, conn, This, stream_len) /\ stream_len \in Nat
          BY <2>1, <3>3 DEF FrameInv, TypeOK
        <4>2. ~ (stream_len > 0) /\ At(Unread, sent, conn, 1, This + 1)
          BY <3>1, <4>1 DEF Pos
        <4>3. ~ (This + 1 <= Len(sent))
          BY <3>1, <4>2 DEF At
        <4>4. This = Len(sent) /\ stream_len = 0
          BY <2>2, <4>1, <4>2, <4>3
        <4>5. Len(handled) = Len(sent) - 1
          BY <2>2, <4>4
        <4> QED
          BY <3>3, <4>1, <4>4, <4>5 DEF EmptyWaits
      <3> QED
        BY <3>2, <3>3
    <2>4. pc \in {"idle", "loop"} \/ KnownEnd
      BY <2>1, <2>2 DEF TypeOK, EndInv, Dangling, KnownEnd
    <2> QED
      BY <2>1, <2>3, <2>4 DEF HandledInv
  <1> QED
    BY <1>1, FramingInvariance, PTL

\* Payload never strays and is never torn, unless a connection was cut within a
\* frame: between two frames only a socks5 client or a closing stream holds
\* bytes, a frame begun holds exactly what was read of it, and the bytes a
\* stream keeps over any number of frames are its own, in order, without a gap.
THEOREM RingsAlwaysExact == Spec => []RingsExact
  <1>1. FInv => RingsExact
    <2> SUFFICES ASSUME Parts
                 PROVE  /\ \A s \in Ids : InOrder(s)
                        /\ \A s \in Rings :
                             rx_ring[s] # <<>> /\ ~ Keeps(s) =>
                               /\ cur_stream = s /\ tmux_hdr.type = "DATA"
                               /\ rx_ring[s] = Take(Payload(tmux_hdr.seq), tmux_hdr.len - stream_len)
                               /\ s # "abandon" => tmux_hdr.id = s
      BY DEF FInv, RingsExact, Rings
    <2>1. TypeOK /\ SentInv /\ HandledInv /\ FrameInv /\ RunInv /\ HeldInv
      BY DEF Parts
    <2>2. Len(handled) \in Nat /\ Len(sent) \in Nat /\ This = Len(handled) + 1
      BY <2>1, ThisFacts DEF This
    <2>3. ASSUME NEW s \in Ids PROVE InOrder(s)
      <3> DEFINE ring == rx_ring[s]
                 d == Len(handled)
                 p == Part(s)
      <3>1. Sorted(ring) /\ Own(ring, sent, conn, s, d, p) /\ NoGap(ring, sent, conn, s, d, p)
        BY <2>1 DEF RunInv, Run
      <3>2. ASSUME NEW k \in 1..Len(sent), NEW i \in 1..sent[k].len
            PROVE  ReadTo(sent, s, d, p, k, i) <=> IsRead(s, k, i)
        <4>1. sent[k].len \in Nat /\ i \in Nat /\ i > 0
          BY <2>1, SentFacts
        <4>2. CASE cur_stream = s
          <5>1. p = sent[This].len - stream_len
            BY <4>2 DEF Part
          <5> QED
            BY <2>2, <4>2, <5>1 DEF ReadTo, IsRead
        <4>3. CASE cur_stream # s
          <5>1. p = 0
            BY <4>3 DEF Part
          <5> QED
            BY <2>2, <4>1, <4>3, <5>1 DEF ReadTo, IsRead
        <4> QED
          BY <4>2, <4>3
      <3>3. \A j \in 1..Len(ring) : \E k \in 1..Len(sent) : \E i \in 1..sent[k].len :
              ring[j] = <<conn, k, HdrLen + i>> /\ IsRead(s, k, i)
        <4> SUFFICES ASSUME NEW j \in 1..Len(ring)
                     PROVE  \E k \in 1..Len(sent) : \E i \in 1..sent[k].len :
                              ring[j] = <<conn, k, HdrLen + i>> /\ IsRead(s, k, i)
          OBVIOUS
        <4>1. PICK k, i : ring[j] = <<conn, k, HdrLen + i>> /\ ReadTo(sent, s, d, p, k, i)
          BY <3>1 DEF Own
        <4>2. k \in 1..Len(sent) /\ i \in 1..sent[k].len
          BY <4>1 DEF ReadTo
        <4> QED
          BY <3>2, <4>1, <4>2
      <3>4. \A k \in 1..Len(sent) : \A i \in 1..sent[k].len :
              ring # <<>> /\ IsRead(s, k, i) /\ Before(ring[1], <<conn, k, HdrLen + i>>) =>
                \E j \in 1..Len(ring) : ring[j] = <<conn, k, HdrLen + i>>
        <4> SUFFICES ASSUME NEW k \in 1..Len(sent), NEW i \in 1..sent[k].len,
                            ring # <<>>, IsRead(s, k, i), Before(ring[1], <<conn, k, HdrLen + i>>)
                     PROVE  \E j \in 1..Len(ring) : ring[j] = <<conn, k, HdrLen + i>>
          OBVIOUS
        <4>1. ReadTo(sent, s, d, p, k, i)
          BY <3>2
        <4> HIDE DEF d, p, ring
        <4> QED
          BY <3>1, <4>1 DEF NoGap
      <3> QED
        BY <3>1, <3>3, <3>4 DEF InOrder, Sorted
    <2>4. ASSUME NEW s \in Rings, rx_ring[s] # <<>>, ~ Keeps(s)
          PROVE  /\ cur_stream = s /\ tmux_hdr.type = "DATA"
                 /\ rx_ring[s] = Take(Payload(tmux_hdr.seq), tmux_hdr.len - stream_len)
                 /\ s # "abandon" => tmux_hdr.id = s
      <3>1. /\ s = cur_stream /\ ~ Dangling(s)
            /\ rx_ring[s] = Take(Payload(This), sent[This].len - stream_len)
        BY <2>1, <2>4 DEF HeldInv
      <3>2. cur_stream # "none"
        BY <3>1, Names
      <3>3. This <= Len(sent) /\ tmux_hdr = sent[This] /\ sent[This].type = "DATA" /\ Holder(cur_stream, sent[This])
        BY <2>1, <3>2 DEF FrameInv
      <3>4. This \in 1..Len(sent)
        BY <2>2, <3>3
      <3>5. sent[This].seq = This
        BY <2>1, <3>4 DEF SentInv
      <3>6. s # "abandon" => sent[This].id = s
        BY <3>1, <3>3 DEF Holder, Live
      <3> QED
        BY <3>1, <3>3, <3>5, <3>6
    <2> QED
      BY <2>3, <2>4
  <1> QED
    BY <1>1, FramingInvariance, PTL
=============================================================================
