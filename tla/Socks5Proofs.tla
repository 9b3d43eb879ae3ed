---------------------------- MODULE Socks5Proofs ----------------------------
(* For any lengths of addresses, any ring and window and any number of       *)
(* bytes: what Socks5 says of the receive window, which is counted modulo    *)
(* 2^32, and of the bytes that reach the targets.                            *)
EXTENDS Socks5, TLAPS

TypeOK ==
  /\ ss \in {"INIT", "ESTABLISHED"}
  /\ stream \in {"ESTABLISHED", "LOCAL_CLOSE", "REMOTE_CLOSE", "freed"}
  /\ bevs \in Seq({"connecting", "open", "freed"})
  /\ out \in Seq(Seq(Nat)) /\ Len(out) = Len(bevs)
  /\ local_proxy_bev \in 0..Len(bevs)
  /\ rx_ring \in Seq(Nat) /\ recv_window \in 0..(Word - 1)
  /\ toClient \in Seq(Nat)
  /\ window \in Nat /\ credit \in Nat /\ sent \in Nat /\ rcvd \in Nat
  /\ kind \in Kinds /\ name \in Names
  /\ offset \in Nat /\ again \in BOOLEAN

\* What frps may send, will be told that it may, and has sent, is the receive
\* window up to multiples of 2^32.
CreditInv ==
  (stream = "ESTABLISHED" /\ pc = "run") =>
    \E q \in Int : window + credit + (sent - rcvd) = recv_window + q * Word

\* The bytes r of the ring are in the order of the user, none of them is with
\* one of the targets o, and none is beyond the first m.
Ordered(r, o, m) ==
  /\ \A a \in 1..Len(r) : r[a] <= m
  /\ \A a, b \in 1..Len(r) : a < b => r[a] < r[b]
  /\ \A i \in 1..Len(o) : \A a \in 1..Len(o[i]) : o[i][a] <= m
  /\ \A i \in 1..Len(o) : \A a \in 1..Len(o[i]) : \A b \in 1..Len(r) : o[i][a] < r[b]

RingOrdered == Ordered(rx_ring, out, rcvd)

\* InOrder, of any targets.
InOrderOf(o) ==
  \A i, j \in 1..Len(o) : \A a \in 1..Len(o[i]), b \in 1..Len(o[j]) :
    /\ (i = j /\ a < b) => o[i][a] < o[j][b]
    /\ i # j => o[i][a] # o[j][b]

\* The FIN of frps is its last frame.
FinLast == \A i \in 1..Len(toClient) : toClient[i] = 0 => i = Len(toClient) /\ stream # "REMOTE_CLOSE"

\* The request is in the ring from its first byte on, or has been popped.
FirstGone == rcvd > 0 /\ \A k \in 1..Len(rx_ring) : rx_ring[k] > 1

BeforeTarget ==
  (~ again /\ offset = 0) =>
    /\ bevs = <<>> /\ ss = "INIT"
    /\ (stream = "ESTABLISHED" /\ pc = "run") => rx_ring = Positions(0, rcvd) \/ FirstGone

\* One target, which the client knows until one of the ends has closed, and
\* which does not outlive the client.
OneTarget ==
  (~ again /\ offset > 0) =>
    /\ pc \in {"run", "read assert"} /\ Len(bevs) = 1
    /\ stream \in {"ESTABLISHED", "REMOTE_CLOSE"} => local_proxy_bev = 1
    /\ stream \in {"LOCAL_CLOSE", "freed"} => bevs[1] = "freed"
    /\ stream = "ESTABLISHED" =>
         /\ offset <= rcvd /\ FirstGone
         /\ out[1] \o rx_ring = Positions(offset, rcvd)
         /\ ss = "ESTABLISHED" => rx_ring = <<>>

SInv == TypeOK /\ CreditInv /\ InOrderOf(out) /\ RingOrdered /\ FinLast /\ BeforeTarget /\ OneTarget

-----------------------------------------------------------------------------
(* Remainders                                                                *)

LEMMA Remainder ==
  ASSUME NEW a \in Int, NEW w \in Nat \ {0}
  PROVE  a % w \in 0..(w - 1) /\ \E q \in Int : a = q * w + (a % w)
  <1>1. a % w \in 0..(w - 1)
    OBVIOUS
  <1>2. a \div w \in Int /\ a = (a \div w) * w + (a % w)
    OBVIOUS
  <1> QED
    BY <1>1, <1>2

LEMMA MultipleSmall ==
  ASSUME NEW q \in Int, NEW w \in Nat \ {0}, NEW d \in Int, d = q * w, d < w, -w < d
  PROVE  d = 0
  <1>1. CASE q >= 1
    <2>1. q * w >= w
      BY <1>1
    <2> QED
      BY <2>1
  <1>2. CASE q <= -1
    <2>1. q * w <= -w
      BY <1>2
    <2> QED
      BY <2>1
  <1>3. CASE q = 0
    BY <1>3
  <1> QED
    BY <1>1, <1>2, <1>3

\* A number and its remainder differ by a multiple, and only one remainder does.
LEMMA RemainderUnique ==
  ASSUME NEW w \in Nat \ {0}, NEW x \in Int, NEW r \in 0..(w - 1), NEW q \in Int, x = r + q * w
  PROVE  x % w = r
  <1>1. x % w \in 0..(w - 1)
    BY Remainder
  <1>2. PICK k \in Int : x = k * w + (x % w)
    BY Remainder
  <1> DEFINE y == x % w
             d == r - y
  <1>3. d = (k - q) * w
    <2>1. (k - q) * w = k * w - q * w
      OBVIOUS
    <2>2. k * w \in Int /\ q * w \in Int
      OBVIOUS
    <2> QED
      BY <1>1, <1>2, <2>1, <2>2
  <1>4. d \in Int /\ d < w /\ -w < d /\ k - q \in Int
    BY <1>1
  <1> HIDE DEF d
  <1>5. d = 0
    BY <1>3, <1>4, MultipleSmall
  <1> QED
    BY <1>1, <1>5 DEF d

-----------------------------------------------------------------------------
(* Sequences of bytes                                                        *)

LEMMA PositionsFacts ==
  ASSUME NEW a \in Nat, NEW b \in Nat, a <= b
  PROVE  /\ Positions(a, b) \in Seq(Nat) /\ Len(Positions(a, b)) = b - a
         /\ \A k \in 1..(b - a) : Positions(a, b)[k] = a + k
  BY DEF Positions

LEMMA DropFacts ==
  ASSUME NEW S, NEW s \in Seq(S), NEW n \in 0..Len(s)
  PROVE  /\ Drop(s, n) \in Seq(S) /\ Len(Drop(s, n)) = Len(s) - n
         /\ \A k \in 1..(Len(s) - n) : Drop(s, n)[k] = s[n + k] /\ n + k \in 1..Len(s)
  BY DEF Drop

LEMMA TakeFacts ==
  ASSUME NEW S, NEW s \in Seq(S), NEW n \in 0..Len(s)
  PROVE  /\ Take(s, n) \in Seq(S) /\ Len(Take(s, n)) = n
         /\ \A k \in 1..n : Take(s, n)[k] = s[k] /\ k \in 1..Len(s)
  BY DEF Take

LEMMA JoinFacts ==
  ASSUME NEW S, NEW s \in Seq(S), NEW t \in Seq(S)
  PROVE  /\ s \o t \in Seq(S) /\ Len(s \o t) = Len(s) + Len(t)
         /\ Len(s) \in Nat /\ Len(t) \in Nat
         /\ \A k \in 1..Len(s) : (s \o t)[k] = s[k]
         /\ \A k \in (Len(s) + 1)..(Len(s) + Len(t)) : (s \o t)[k] = t[k - Len(s)] /\ k - Len(s) \in 1..Len(t)
  OBVIOUS

LEMMA ReplaceFacts ==
  ASSUME NEW S, NEW s \in Seq(S), NEW i \in 1..Len(s), NEW e \in S
  PROVE  /\ [s EXCEPT ![i] = e] \in Seq(S) /\ Len([s EXCEPT ![i] = e]) = Len(s)
         /\ [s EXCEPT ![i] = e][i] = e
         /\ \A j \in 1..Len(s) : j # i => [s EXCEPT ![i] = e][j] = s[j]
  OBVIOUS

LEMMA FirstTarget ==
  ASSUME NEW o \in Seq(Seq(Nat)), Len(o) = 1
  PROVE  o[1] \in Seq(Nat)
  OBVIOUS

LEMMA SameSeq ==
  ASSUME NEW S, NEW s \in Seq(S), NEW t \in Seq(S), Len(s) = Len(t),
         \A k \in 1..Len(s) : s[k] = t[k]
  PROVE  s = t
  OBVIOUS

\* Consecutive positions.
LEMMA PositionsJoin ==
  ASSUME NEW a \in Nat, NEW b \in Nat, NEW c \in Nat, a <= b, b <= c
  PROVE  Positions(a, b) \o Positions(b, c) = Positions(a, c)
  <1> DEFINE p == Positions(a, b)
             q == Positions(b, c)
             r == Positions(a, c)
  <1>1. p \in Seq(Nat) /\ Len(p) = b - a /\ \A k \in 1..(b - a) : p[k] = a + k
    BY PositionsFacts
  <1>2. q \in Seq(Nat) /\ Len(q) = c - b /\ \A k \in 1..(c - b) : q[k] = b + k
    BY PositionsFacts
  <1>3. r \in Seq(Nat) /\ Len(r) = c - a /\ \A k \in 1..(c - a) : r[k] = a + k
    <2>1. a <= c
      OBVIOUS
    <2> QED
      BY <2>1, PositionsFacts
  <1> HIDE DEF p, q, r
  <1>4. p \o q \in Seq(Nat) /\ Len(p \o q) = c - a
    BY <1>1, <1>2, SMTT(20)
  <1>5. ASSUME NEW k \in 1..(c - a) PROVE (p \o q)[k] = a + k
    <2>1. CASE k <= b - a
      <3>1. k \in 1..Len(p)
        BY <1>1, <2>1
      <3> QED
        BY <1>1, <1>2, <3>1
    <2>2. CASE k > b - a
      <3>1. k - (b - a) \in 1..(c - b) /\ b + (k - (b - a)) = a + k
        BY <2>2
      <3>2. (p \o q)[k] = q[k - (b - a)]
        BY <1>1, <1>2, <2>2, SMTT(20)
      <3> QED
        BY <1>2, <3>1, <3>2
    <2>3. k <= b - a \/ k > b - a
      OBVIOUS
    <2> QED
      BY <2>1, <2>2, <2>3
  <1>6. \A k \in 1..Len(p \o q) : (p \o q)[k] = r[k]
    BY <1>3, <1>4, <1>5
  <1>7. p \o q = r
    BY <1>3, <1>4, <1>6, SameSeq
  <1> QED
    BY <1>7 DEF p, q, r

LEMMA PositionsDrop ==
  ASSUME NEW m \in Nat, NEW p \in 0..m
  PROVE  Drop(Positions(0, m), p) = Positions(p, m)
  <1> DEFINE s == Positions(0, m)
             r == Positions(p, m)
  <1>1. s \in Seq(Nat) /\ Len(s) = m /\ \A k \in 1..m : s[k] = k
    BY PositionsFacts
  <1>2. r \in Seq(Nat) /\ Len(r) = m - p /\ \A k \in 1..(m - p) : r[k] = p + k
    <2>1. p \in Nat /\ p <= m
      OBVIOUS
    <2> QED
      BY <2>1, PositionsFacts
  <1> HIDE DEF s, r
  <1>3. /\ Drop(s, p) \in Seq(Nat) /\ Len(Drop(s, p)) = m - p
        /\ \A k \in 1..(m - p) : Drop(s, p)[k] = s[p + k] /\ p + k \in 1..m
    BY <1>1, DropFacts
  <1>4. \A k \in 1..(m - p) : Drop(s, p)[k] = r[k]
    BY <1>1, <1>2, <1>3
  <1>5. Drop(s, p) = r
    BY <1>2, <1>3, <1>4, SameSeq
  <1> QED
    BY <1>5 DEF s, r

LEMMA JoinAssoc ==
  ASSUME NEW s \in Seq(Nat), NEW t \in Seq(Nat), NEW u \in Seq(Nat)
  PROVE  (s \o t) \o u = s \o (t \o u)
  BY SMTT(20)

LEMMA JoinEmpty ==
  ASSUME NEW s \in Seq(Nat)
  PROVE  s \o <<>> = s /\ <<>> \o s = s
  OBVIOUS

\* Taking and dropping everything.
LEMMA TakeAll ==
  ASSUME NEW s \in Seq(Nat)
  PROVE  Take(s, Len(s)) = s /\ Drop(s, Len(s)) = <<>>
  <1>1. Len(s) \in 0..Len(s) /\ Len(s) - Len(s) = 0
    OBVIOUS
  <1>2. /\ Take(s, Len(s)) \in Seq(Nat) /\ Len(Take(s, Len(s))) = Len(s)
        /\ \A k \in 1..Len(s) : Take(s, Len(s))[k] = s[k]
    BY DEF Take
  <1>3. Drop(s, Len(s)) \in Seq(Nat) /\ Len(Drop(s, Len(s))) = 0
    BY <1>1, DropFacts
  <1>4. Take(s, Len(s)) = s
    BY <1>2, SameSeq
  <1>5. Drop(s, Len(s)) = <<>>
    BY <1>3
  <1> QED
    BY <1>4, <1>5

-----------------------------------------------------------------------------
(* The ring and the targets                                                  *)

LEMMA RingFacts ==
  ASSUME TypeOK, NEW n \in Nat
  PROVE  /\ Ring(n) \in Seq(Nat) /\ Len(Ring(n)) = Len(rx_ring) + n /\ Len(rx_ring) \in Nat
         /\ \A k \in 1..Len(rx_ring) : Ring(n)[k] = rx_ring[k]
         /\ \A k \in (Len(rx_ring) + 1)..(Len(rx_ring) + n) : Ring(n)[k] = rcvd + (k - Len(rx_ring))
  <1> DEFINE q == Positions(rcvd, rcvd + n)
  <1>1. rx_ring \in Seq(Nat) /\ rcvd \in Nat
    BY DEF TypeOK
  <1>2. q \in Seq(Nat) /\ Len(q) = n /\ \A k \in 1..n : q[k] = rcvd + k
    <2>1. rcvd + n \in Nat /\ rcvd <= rcvd + n /\ (rcvd + n) - rcvd = n
      BY <1>1
    <2> QED
      BY <1>1, <2>1, PositionsFacts
  <1> HIDE DEF q
  <1>3. /\ rx_ring \o q \in Seq(Nat) /\ Len(rx_ring \o q) = Len(rx_ring) + Len(q) /\ Len(rx_ring) \in Nat
        /\ \A k \in 1..Len(rx_ring) : (rx_ring \o q)[k] = rx_ring[k]
        /\ \A k \in (Len(rx_ring) + 1)..(Len(rx_ring) + Len(q)) :
             (rx_ring \o q)[k] = q[k - Len(rx_ring)] /\ k - Len(rx_ring) \in 1..Len(q)
    BY <1>1, <1>2, JoinFacts
  <1>4. Ring(n) = rx_ring \o q
    BY DEF Ring, q
  <1> QED
    BY <1>2, <1>3, <1>4

\* The bytes of a frame are behind all earlier ones.
LEMMA RingGrows ==
  ASSUME TypeOK, RingOrdered, NEW n \in Nat
  PROVE  Ordered(Ring(n), out, rcvd + n)
  <1> DEFINE r == Ring(n)
             l == Len(rx_ring)
  <1>1. /\ r \in Seq(Nat) /\ Len(r) = l + n /\ l \in Nat
        /\ \A k \in 1..l : r[k] = rx_ring[k]
        /\ \A k \in (l + 1)..(l + n) : r[k] = rcvd + (k - l)
    BY RingFacts
  <1>2. rcvd \in Nat /\ out \in Seq(Seq(Nat)) /\ rx_ring \in Seq(Nat)
    BY DEF TypeOK
  <1>3. /\ \A a \in 1..l : rx_ring[a] \in Nat /\ rx_ring[a] <= rcvd
        /\ \A a, b \in 1..l : a < b => rx_ring[a] < rx_ring[b]
        /\ \A i \in 1..Len(out) : \A a \in 1..Len(out[i]) : out[i][a] \in Nat /\ out[i][a] <= rcvd
        /\ \A i \in 1..Len(out) : \A a \in 1..Len(out[i]) : \A b \in 1..l : out[i][a] < rx_ring[b]
    <2>1. \A i \in 1..Len(out) : \A a \in 1..Len(out[i]) : out[i][a] \in Nat
      BY <1>2
    <2> QED
      BY <1>2, <2>1, SMTT(20) DEF RingOrdered, Ordered
  <1> HIDE DEF r, l
  <1>4. \A a \in 1..(l + n) : (a \in 1..l) \/ (a \in (l + 1)..(l + n))
    BY <1>1
  <1>10. ASSUME NEW b \in (l + 1)..(l + n) PROVE r[b] \in Nat /\ r[b] > rcvd /\ r[b] <= rcvd + n
    <2>1. b - l \in 1..n
      BY <1>1
    <2>2. r[b] = rcvd + (b - l)
      BY <1>1
    <2> QED
      BY <1>2, <2>1, <2>2
  <1>5. \A a \in 1..Len(r) : r[a] <= rcvd + n
    <2> SUFFICES ASSUME NEW a \in 1..(l + n) PROVE r[a] <= rcvd + n
      BY <1>1
    <2>1. CASE a \in 1..l
      <3>1. r[a] \in Nat /\ r[a] <= rcvd
        BY <1>1, <1>3, <2>1
      <3> QED
        BY <1>2, <3>1
    <2>2. CASE a \in (l + 1)..(l + n)
      BY <1>10, <2>2
    <2> QED
      BY <1>4, <2>1, <2>2
  <1>6. \A a, b \in 1..Len(r) : a < b => r[a] < r[b]
    <2> SUFFICES ASSUME NEW a \in 1..(l + n), NEW b \in 1..(l + n), a < b PROVE r[a] < r[b]
      BY <1>1
    <2>1. CASE a \in 1..l /\ b \in 1..l
      BY <1>1, <1>3, <2>1
    <2>2. CASE a \in 1..l /\ b \in (l + 1)..(l + n)
      <3>1. r[a] \in Nat /\ r[a] <= rcvd
        BY <1>1, <1>3, <2>2
      <3>2. r[b] \in Nat /\ r[b] > rcvd
        BY <1>10, <2>2
      <3> QED
        BY <1>2, <3>1, <3>2
    <2>3. CASE a \in (l + 1)..(l + n) /\ b \in (l + 1)..(l + n)
      BY <1>1, <1>2, <2>3
    <2> QED
      BY <1>1, <1>4, <2>1, <2>2, <2>3
  <1>7. \A i \in 1..Len(out) : \A a \in 1..Len(out[i]) : out[i][a] <= rcvd + n
    BY <1>2, <1>3
  <1>8. \A i \in 1..Len(out) : \A a \in 1..Len(out[i]) : \A b \in 1..Len(r) : out[i][a] < r[b]
    <2> SUFFICES ASSUME NEW i \in 1..Len(out), NEW a \in 1..Len(out[i]), NEW b \in 1..(l + n)
                 PROVE  out[i][a] < r[b]
      BY <1>1
    <2>0. out[i][a] \in Nat /\ out[i][a] <= rcvd
      BY <1>3
    <2>1. CASE b \in 1..l
      BY <1>1, <1>3, <2>1
    <2>2. CASE b \in (l + 1)..(l + n)
      <3>1. r[b] \in Nat /\ r[b] > rcvd
        BY <1>10, <2>2
      <3> QED
        BY <1>2, <2>0, <3>1, SMTT(20)
    <2> QED
      BY <1>4, <2>1, <2>2
  <1>9. Ordered(r, out, rcvd + n)
    BY <1>5, <1>6, <1>7, <1>8 DEF Ordered
  <1> QED
    BY <1>9 DEF r

\* What is popped leaves the rest in order.
LEMMA DropOrdered ==
  ASSUME NEW r \in Seq(Nat), NEW p \in 0..Len(r), NEW o \in Seq(Seq(Nat)), NEW m \in Nat, Ordered(r, o, m)
  PROVE  Ordered(Drop(r, p), o, m)
  <1> DEFINE s == Drop(r, p)
             l == Len(r) - p
  <1>1. /\ s \in Seq(Nat) /\ Len(s) = l
        /\ \A k \in 1..l : s[k] = r[p + k] /\ p + k \in 1..Len(r)
    BY DropFacts
  <1>2. l \in Nat
    OBVIOUS
  <1> HIDE DEF s, l
  <1>3. \A a \in 1..Len(s) : s[a] <= m
    BY <1>1 DEF Ordered
  <1>4. \A a, b \in 1..Len(s) : a < b => s[a] < s[b]
    <2> SUFFICES ASSUME NEW a \in 1..l, NEW b \in 1..l, a < b PROVE s[a] < s[b]
      BY <1>1
    <2>1. p + a < p + b
      BY <1>2
    <2> QED
      BY <1>1, <2>1 DEF Ordered
  <1>5. \A i \in 1..Len(o) : \A a \in 1..Len(o[i]) : \A b \in 1..Len(s) : o[i][a] < s[b]
    BY <1>1 DEF Ordered
  <1>6. Ordered(s, o, m)
    BY <1>3, <1>4, <1>5 DEF Ordered
  <1> QED
    BY <1>6 DEF s

\* What moves from the ring to a target is behind all that the targets have.
LEMMA MoveOrdered ==
  ASSUME NEW r \in Seq(Nat), NEW n \in 0..Len(r), NEW o \in Seq(Seq(Nat)), NEW m \in Nat,
         Ordered(r, o, m), InOrderOf(o), NEW i \in 1..Len(o)
  PROVE  LET t == [o EXCEPT ![i] = o[i] \o Take(r, n)]
         IN  t \in Seq(Seq(Nat)) /\ Len(t) = Len(o) /\ Ordered(Drop(r, n), t, m) /\ InOrderOf(t)
  <1> DEFINE t == [o EXCEPT ![i] = o[i] \o Take(r, n)]
  <1> DEFINE x == Take(r, n)
             s == Drop(r, n)
             L == Len(o)
  <1>0. L \in Nat /\ i \in 1..L
    OBVIOUS
  <1>1. x \in Seq(Nat) /\ Len(x) = n /\ \A k \in 1..n : x[k] = r[k] /\ k \in 1..Len(r)
    BY TakeFacts
  <1>2. /\ s \in Seq(Nat) /\ Len(s) = Len(r) - n
        /\ \A k \in 1..(Len(r) - n) : s[k] = r[n + k] /\ n + k \in 1..Len(r)
    BY DropFacts
  <1>3. o[i] \in Seq(Nat) /\ Len(o[i]) \in Nat
    OBVIOUS
  <1> DEFINE y == o[i] \o x
             k0 == Len(o[i])
  <1>4. /\ y \in Seq(Nat) /\ Len(y) = k0 + n
        /\ \A k \in 1..k0 : y[k] = o[i][k]
        /\ \A k \in (k0 + 1)..(k0 + n) : y[k] = x[k - k0] /\ k - k0 \in 1..n
    <2> DEFINE z == o[i]
    <2>1. z \in Seq(Nat) /\ k0 = Len(z)
      BY <1>3
    <2> HIDE DEF x, z, k0
    <2>2. /\ z \o x \in Seq(Nat) /\ Len(z \o x) = k0 + n
          /\ \A k \in 1..k0 : (z \o x)[k] = z[k]
          /\ \A k \in (k0 + 1)..(k0 + n) : (z \o x)[k] = x[k - k0] /\ k - k0 \in 1..n
      <3>1. /\ z \o x \in Seq(Nat) /\ Len(z \o x) = Len(z) + Len(x)
            /\ \A k \in 1..Len(z) : (z \o x)[k] = z[k]
            /\ \A k \in (Len(z) + 1)..(Len(z) + Len(x)) : (z \o x)[k] = x[k - Len(z)] /\ k - Len(z) \in 1..Len(x)
        BY <1>1, <2>1, JoinFacts
      <3> QED
        BY <1>1, <2>1, <3>1
    <2> QED
      BY <2>2 DEF z
  <1> HIDE DEF x, y, s
  <1>5. t = [o EXCEPT ![i] = y]
    BY DEF y, x
  <1> HIDE DEF t
  <1>6. t \in Seq(Seq(Nat)) /\ Len(t) = L
    <2> DEFINE S == Seq(Nat)
    <2>1. y \in S /\ o \in Seq(S)
      BY <1>4
    <2> HIDE DEF S
    <2>2. [o EXCEPT ![i] = y] \in Seq(S) /\ Len([o EXCEPT ![i] = y]) = Len(o)
      BY <2>1, ReplaceFacts
    <2> QED
      BY <1>5, <2>2 DEF S
  <1>7. t[i] = y /\ \A j \in 1..L : j # i => t[j] = o[j]
    BY <1>5
  <1>8. Ordered(s, o, m)
    BY DropOrdered DEF s
  <1>9. \A k \in 1..Len(r) : r[k] \in Nat
    OBVIOUS
  \* A byte of a target was there, or comes from the head of the ring.
  <1>10. ASSUME NEW j \in 1..L, NEW a \in 1..Len(t[j])
         PROVE  \/ a \in 1..Len(o[j]) /\ t[j][a] = o[j][a]
                \/ j = i /\ a > k0 /\ a - k0 \in 1..n /\ t[j][a] = r[a - k0]
    <2>1. CASE j # i
      BY <1>7, <2>1
    <2>2. CASE j = i
      <3>1. a \in 1..(k0 + n)
        BY <1>4, <1>7, <2>2
      <3>2. CASE a \in 1..k0
        BY <1>4, <1>7, <2>2, <3>2
      <3>3. CASE a \in (k0 + 1)..(k0 + n)
        <4>1. a > k0 /\ a - k0 \in 1..n /\ y[a] = x[a - k0]
          <5>1. k0 \in Nat /\ a \in (k0 + 1)..(k0 + n)
            BY <1>3, <3>3
          <5>2. y[a] = x[a - k0] /\ a - k0 \in 1..n
            BY <1>4, <3>3
          <5> HIDE DEF k0
          <5>3. a > k0
            BY <5>1
          <5> QED
            BY <5>2, <5>3
        <4> QED
          BY <1>1, <1>7, <2>2, <4>1
      <3>4. a \in 1..k0 \/ a \in (k0 + 1)..(k0 + n)
        BY <1>3, <3>1
      <3> QED
        BY <3>2, <3>3, <3>4
    <2> QED
      BY <2>1, <2>2
  <1>11. \A j \in 1..L : \A a \in 1..Len(o[j]) : o[j][a] \in Nat
    OBVIOUS
  <1> HIDE DEF k0, L
  <1>12. Len(o) = L
    BY DEF L
  <1>13. \A j \in 1..Len(t) : \A a \in 1..Len(t[j]) : t[j][a] <= m
    <2> SUFFICES ASSUME NEW j \in 1..L, NEW a \in 1..Len(t[j]) PROVE t[j][a] <= m
      BY <1>6
    <2>1. CASE a \in 1..Len(o[j]) /\ t[j][a] = o[j][a]
      BY <1>12, <2>1 DEF Ordered
    <2>2. CASE a - k0 \in 1..n /\ t[j][a] = r[a - k0]
      BY <1>1, <2>2 DEF Ordered
    <2> QED
      BY <1>10, <2>1, <2>2
  <1>14. \A j \in 1..Len(t) : \A a \in 1..Len(t[j]) : \A b \in 1..Len(s) : t[j][a] < s[b]
    <2> SUFFICES ASSUME NEW j \in 1..L, NEW a \in 1..Len(t[j]), NEW b \in 1..(Len(r) - n) PROVE t[j][a] < s[b]
      BY <1>2, <1>6
    <2>1. CASE a \in 1..Len(o[j]) /\ t[j][a] = o[j][a]
      BY <1>2, <1>8, <1>12, <2>1 DEF Ordered
    <2>2. CASE a - k0 \in 1..n /\ t[j][a] = r[a - k0]
      <3>1. a - k0 \in 1..Len(r) /\ n + b \in 1..Len(r) /\ a - k0 < n + b
        <4>1. a - k0 \in 1..Len(r) /\ n + b \in 1..Len(r)
          BY <1>1, <1>2, <2>2
        <4> DEFINE e == a - k0
        <4>2. e \in 1..n
          BY <2>2
        <4> HIDE DEF e
        <4>3. e < n + b
          BY <4>2
        <4> QED
          BY <4>1, <4>3 DEF e
      <3> QED
        BY <1>2, <2>2, <3>1 DEF Ordered
    <2> QED
      BY <1>10, <2>1, <2>2
  <1>15. Ordered(s, t, m)
    BY <1>8, <1>13, <1>14 DEF Ordered
  <1>16. InOrderOf(t)
    <2> SUFFICES ASSUME NEW j \in 1..L, NEW l \in 1..L, NEW a \in 1..Len(t[j]), NEW b \in 1..Len(t[l])
                 PROVE  /\ (j = l /\ a < b) => t[j][a] < t[l][b]
                        /\ j # l => t[j][a] # t[l][b]
      BY <1>6 DEF InOrderOf
    <2>1. CASE a \in 1..Len(o[j]) /\ t[j][a] = o[j][a] /\ b \in 1..Len(o[l]) /\ t[l][b] = o[l][b]
      BY <1>12, <2>1 DEF InOrderOf
    <2>2. CASE /\ a \in 1..Len(o[j]) /\ t[j][a] = o[j][a]
               /\ l = i /\ b > k0 /\ b - k0 \in 1..n /\ t[l][b] = r[b - k0]
      <3>1. b - k0 \in 1..Len(r)
        BY <1>1, <2>2
      <3>2. o[j][a] < r[b - k0] /\ o[j][a] \in Nat /\ r[b - k0] \in Nat
        BY <1>9, <1>11, <1>12, <2>2, <3>1 DEF Ordered
      <3> DEFINE u == t[j][a]
                 v == t[l][b]
      <3>4. u \in Nat /\ v \in Nat /\ u < v
        BY <2>2, <3>2
      <3> HIDE DEF u, v
      <3>5. u < v /\ u # v
        BY <3>4
      <3>3. t[j][a] < t[l][b] /\ t[j][a] # t[l][b]
        BY <3>5 DEF u, v
      <3> QED
        BY <3>3
    <2>3. CASE /\ j = i /\ a > k0 /\ a - k0 \in 1..n /\ t[j][a] = r[a - k0]
               /\ b \in 1..Len(o[l]) /\ t[l][b] = o[l][b]
      <3>1. a - k0 \in 1..Len(r)
        BY <1>1, <2>3
      <3>2. o[l][b] < r[a - k0] /\ o[l][b] \in Nat /\ r[a - k0] \in Nat
        BY <1>9, <1>11, <1>12, <2>3, <3>1 DEF Ordered
      <3>3. j = l => b <= k0
        BY <2>3 DEF k0
      <3>4. k0 \in Nat /\ a \in Nat /\ b \in Nat
        BY <1>3, <2>3 DEF k0
      <3> DEFINE u == t[j][a]
                 v == t[l][b]
      <3>7. u \in Nat /\ v \in Nat /\ v < u
        BY <2>3, <3>2
      <3> HIDE DEF u, v
      <3>8. u # v
        BY <3>7
      <3>5. t[j][a] # t[l][b]
        BY <3>8 DEF u, v
      <3>6. j = l => ~ (a < b)
        BY <2>3, <3>3, <3>4
      <3> QED
        BY <3>5, <3>6
    <2>4. CASE /\ j = i /\ a > k0 /\ a - k0 \in 1..n /\ t[j][a] = r[a - k0]
               /\ l = i /\ b > k0 /\ b - k0 \in 1..n /\ t[l][b] = r[b - k0]
      <3>1. a - k0 \in 1..Len(r) /\ b - k0 \in 1..Len(r)
        BY <1>1, <2>4
      <3>2. k0 \in Nat /\ a \in Nat /\ b \in Nat
        BY <1>3, <1>6, <2>4 DEF k0
      <3>3. a < b => a - k0 < b - k0
        BY <3>2
      <3> QED
        BY <2>4, <3>1, <3>3 DEF Ordered
    <2> QED
      BY <1>10, <2>1, <2>2, <2>3, <2>4
  <1> QED
    BY <1>6, <1>12, <1>15, <1>16 DEF s, t

\* A target that has nothing yet.
LEMMA NewTargetOrdered ==
  ASSUME NEW r \in Seq(Nat), NEW o \in Seq(Seq(Nat)), NEW m \in Nat, Ordered(r, o, m), InOrderOf(o)
  PROVE  /\ Append(o, <<>>) \in Seq(Seq(Nat)) /\ Len(Append(o, <<>>)) = Len(o) + 1
         /\ Append(o, <<>>)[Len(o) + 1] = <<>>
         /\ Ordered(r, Append(o, <<>>), m) /\ InOrderOf(Append(o, <<>>))
  <1> DEFINE t == Append(o, <<>>)
             L == Len(o)
             S == Seq(Nat)
  <1>0. o \in Seq(S) /\ <<>> \in S
    OBVIOUS
  <1> HIDE DEF S
  <1>1. /\ t \in Seq(S) /\ Len(t) = L + 1 /\ t[L + 1] = <<>> /\ L \in Nat
        /\ \A j \in 1..L : t[j] = o[j]
    BY <1>0
  <1> HIDE DEF t
  <1>2. ASSUME NEW j \in 1..Len(t), NEW a \in 1..Len(t[j]) PROVE j \in 1..L /\ t[j] = o[j] /\ a \in 1..Len(o[j])
    <2>1. CASE j \in 1..L
      BY <1>1, <2>1
    <2>2. CASE j = L + 1
      <3>1. Len(t[j]) = 0
        BY <1>1, <2>2
      <3> QED
        BY <3>1
    <2> QED
      BY <1>1, <2>1, <2>2
  <1>3. Ordered(r, t, m)
    <2>1. \A j \in 1..Len(t) : \A a \in 1..Len(t[j]) : t[j][a] <= m
      BY <1>2 DEF Ordered
    <2>2. \A j \in 1..Len(t) : \A a \in 1..Len(t[j]) : \A b \in 1..Len(r) : t[j][a] < r[b]
      BY <1>2 DEF Ordered
    <2> QED
      BY <2>1, <2>2 DEF Ordered
  <1>4. InOrderOf(t)
    <2> SUFFICES ASSUME NEW j \in 1..Len(t), NEW l \in 1..Len(t), NEW a \in 1..Len(t[j]), NEW b \in 1..Len(t[l])
                 PROVE  /\ (j = l /\ a < b) => t[j][a] < t[l][b]
                        /\ j # l => t[j][a] # t[l][b]
      BY DEF InOrderOf
    <2>1. j \in 1..L /\ t[j] = o[j] /\ a \in 1..Len(o[j])
      BY <1>2
    <2>2. l \in 1..L /\ t[l] = o[l] /\ b \in 1..Len(o[l])
      BY <1>2
    <2> QED
      BY <2>1, <2>2 DEF InOrderOf
  <1> QED
    BY <1>1, <1>3, <1>4 DEF t, S

\* Bytes that arrive without being kept.
LEMMA LaterOrdered ==
  ASSUME NEW r \in Seq(Nat), NEW o \in Seq(Seq(Nat)), NEW m \in Nat, NEW n \in Nat, Ordered(r, o, m)
  PROVE  Ordered(r, o, m + n)
  <1>1. \A a \in 1..Len(r) : r[a] <= m + n
    <2> SUFFICES ASSUME NEW a \in 1..Len(r) PROVE r[a] <= m + n
      OBVIOUS
    <2>1. r[a] \in Nat /\ r[a] <= m
      BY DEF Ordered
    <2> QED
      BY <2>1
  <1>2. \A i \in 1..Len(o) : \A a \in 1..Len(o[i]) : o[i][a] <= m + n
    <2> SUFFICES ASSUME NEW i \in 1..Len(o), NEW a \in 1..Len(o[i]) PROVE o[i][a] <= m + n
      OBVIOUS
    <2>1. o[i][a] \in Nat /\ o[i][a] <= m
      BY DEF Ordered
    <2> QED
      BY <2>1
  <1> QED
    BY <1>1, <1>2 DEF Ordered

-----------------------------------------------------------------------------
(* The window                                                                *)

LEMMA Sizes ==
  /\ V4 \in Nat /\ V6 \in Nat /\ Port \in Nat /\ MaxWindow \in Nat /\ Word \in Nat \ {0} /\ RingSize \in Nat
  /\ Names \subseteq Nat /\ 1 < V4 /\ V4 < V6 /\ MaxWindow > 0 /\ MaxWindow < Word
  BY Socks5Assumption

\* What Credit adds to the window it adds to the credit, both modulo 2^32, and
\* whatever handle_ss5 has reported.
LEMMA CreditCounts ==
  ASSUME TypeOK, CreditInv, stream = "ESTABLISHED", pc = "run",
         NEW n \in Nat, n <= recv_window, NEW nret \in Nat, Credit(n, nret),
         window' = window, sent' = sent, rcvd' = rcvd + n
  PROVE  /\ recv_window' \in 0..(Word - 1) /\ credit' \in Nat
         /\ \E q \in Int : window' + credit' + (sent' - rcvd') = recv_window' + q * Word
  <1>1. /\ recv_window \in 0..(Word - 1) /\ window \in Nat /\ credit \in Nat /\ sent \in Nat /\ rcvd \in Nat
        /\ Word \in Nat \ {0} /\ MaxWindow \in Nat
    BY Sizes DEF TypeOK
  <1>2. PICK q \in Int : window + credit + (sent - rcvd) = recv_window + q * Word
    BY DEF CreditInv
  <1> DEFINE rw == recv_window - n
             delta == (MaxWindow - nret - rw) % Word
             y == q * Word
  <1>3. rw \in Nat /\ rw <= Word - 1 /\ y \in Int
    BY <1>1
  <1>4. delta \in 0..(Word - 1)
    BY <1>1, <1>3, Remainder
  <1>5. CASE recv_window' = rw /\ credit' = credit
    <2>1. window' + credit' + (sent' - rcvd') = recv_window' + y
      BY <1>1, <1>2, <1>3, <1>5
    <2>2. \E p \in Int : window' + credit' + (sent' - rcvd') = recv_window' + p * Word
      BY <2>1
    <2> HIDE DEF rw
    <2>3. recv_window' \in 0..(Word - 1) /\ credit' \in Nat
      BY <1>1, <1>3, <1>5
    <2> QED
      BY <2>2, <2>3
  <1>6. CASE recv_window' = (rw + delta) % Word /\ credit' = (credit + delta) % Word
    <2> HIDE DEF rw, delta
    <2>1. rw + delta \in Int /\ credit + delta \in Int
      BY <1>1, <1>3, <1>4
    <2>2. recv_window' \in 0..(Word - 1) /\ credit' \in 0..(Word - 1)
      BY <1>1, <1>6, <2>1, Remainder
    <2>3. PICK k1 \in Int : rw + delta = k1 * Word + recv_window'
      BY <1>1, <1>6, <2>1, Remainder
    <2>4. PICK k2 \in Int : credit + delta = k2 * Word + credit'
      BY <1>1, <1>6, <2>1, Remainder
    <2> DEFINE z1 == k1 * Word
               z2 == k2 * Word
               k == (q + k1) - k2
    <2>5. k \in Int /\ k * Word = (y + z1) - z2 /\ z1 \in Int /\ z2 \in Int
      BY <1>1
    <2>6. rw + delta = z1 + recv_window' /\ credit + delta = z2 + credit'
      BY <2>3, <2>4
    <2>7. window + credit + (sent - rcvd) = recv_window + y /\ rw = recv_window - n
      BY <1>2 DEF rw
    <2>8. delta \in Int /\ rw \in Int /\ recv_window' \in Int /\ credit' \in Int /\ credit' \in Nat
      BY <1>1, <1>3, <1>4, <2>2
    <2> HIDE DEF y, z1, z2, k
    <2>9. window' + credit' + (sent' - rcvd') = recv_window' + ((y + z1) - z2)
      <3>1. y \in Int /\ z1 \in Int /\ z2 \in Int
        BY <1>3, <2>5
      <3>2. /\ window \in Int /\ credit \in Int /\ sent \in Int /\ rcvd \in Int /\ recv_window \in Int /\ n \in Int
        BY <1>1
      <3>3. window' = window /\ sent' = sent /\ rcvd' = rcvd + n
        OBVIOUS
      <3>4. sent - rcvd \in Int /\ sent' - rcvd' = (sent - rcvd) - n
        BY <3>2, <3>3
      <3>5. (recv_window - n) + delta = z1 + recv_window' /\ credit + delta = z2 + credit'
        BY <2>6, <2>7
      <3>6. window + credit' + ((sent - rcvd) - n) = recv_window' + ((y + z1) - z2)
        <4> DEFINE f == sent - rcvd
                   c2 == credit'
                   r2 == recv_window'
        <4>1. f \in Int /\ c2 \in Int /\ r2 \in Int /\ delta \in Int
          BY <2>8, <3>4
        <4>2. window + credit + f = recv_window + y
          BY <2>7
        <4>3. (recv_window - n) + delta = z1 + r2 /\ credit + delta = z2 + c2
          BY <3>5
        <4> HIDE DEF f, c2, r2
        <4>4. window + c2 + (f - n) = r2 + ((y + z1) - z2)
          BY <3>1, <3>2, <4>1, <4>2, <4>3
        <4> QED
          BY <4>4 DEF f, c2, r2
      <3> QED
        BY <3>3, <3>4, <3>6
    <2>10. window' + credit' + (sent' - rcvd') = recv_window' + k * Word
      BY <2>5, <2>9
    <2> QED
      BY <2>2, <2>5, <2>8, <2>10
  <1> QED
    BY <1>5, <1>6 DEF Credit

-----------------------------------------------------------------------------
(* Each action keeps SInv                                                    *)

LEMMA InitSInv == Init => SInv
  <1> SUFFICES ASSUME Init PROVE SInv
    OBVIOUS
  <1>1. /\ ss = "INIT" /\ stream = "ESTABLISHED" /\ bevs = <<>> /\ local_proxy_bev = 0 /\ out = <<>>
        /\ rx_ring = <<>> /\ recv_window = MaxWindow - 1 /\ toClient = <<>> /\ window = MaxWindow - 1
        /\ credit = 0 /\ sent = 0 /\ rcvd = 0 /\ kind \in Kinds /\ name \in Names /\ offset = 0
        /\ again = FALSE /\ pc = "run"
    BY DEF Init
  <1>2. TypeOK
    <2>1. recv_window \in 0..(Word - 1) /\ window \in Nat
      BY <1>1, Sizes
    <2>2. /\ bevs \in Seq({"connecting", "open", "freed"}) /\ out \in Seq(Seq(Nat)) /\ Len(out) = Len(bevs)
          /\ local_proxy_bev \in 0..Len(bevs) /\ rx_ring \in Seq(Nat) /\ toClient \in Seq(Nat)
      BY <1>1
    <2> QED
      BY <1>1, <2>1, <2>2 DEF TypeOK
  <1>3. CreditInv
    <2>1. window + credit + (sent - rcvd) = recv_window + 0 * Word
      BY <1>1, Sizes
    <2> QED
      BY <2>1 DEF CreditInv
  <1>4. Len(out) = 0 /\ Len(rx_ring) = 0 /\ Len(toClient) = 0
    BY <1>1
  <1>5. InOrderOf(out) /\ RingOrdered /\ FinLast
    BY <1>4 DEF InOrderOf, RingOrdered, Ordered, FinLast
  <1>6. BeforeTarget
    <2>1. rx_ring = Positions(0, rcvd)
      <3>1. /\ Positions(0, 0) \in Seq(Nat) /\ Len(Positions(0, 0)) = 0
        BY PositionsFacts
      <3> QED
        BY <1>1, <3>1
    <2> QED
      BY <1>1, <2>1 DEF BeforeTarget
  <1>7. OneTarget
    BY <1>1 DEF OneTarget
  <1> QED
    BY <1>2, <1>3, <1>5, <1>6, <1>7 DEF SInv

LEMMA OrderStays ==
  ASSUME InOrderOf(out), out' = out, rcvd' = rcvd
  PROVE  InOrderOf(out)'
  BY DEF InOrderOf

\* The parts of SInv that only speak of the ring and the targets.
LEMMA RingStays ==
  ASSUME SInv, UNCHANGED <<rx_ring, out, rcvd>>
  PROVE  InOrderOf(out)' /\ RingOrdered'
  <1>1. InOrderOf(out) /\ RingOrdered
    BY DEF SInv
  <1>2. rx_ring' = rx_ring /\ out' = out /\ rcvd' = rcvd
    OBVIOUS
  <1>3. InOrderOf(out)'
    BY <1>1, <1>2, OrderStays
  <1>4. RingOrdered'
    BY <1>1, <1>2 DEF RingOrdered, Ordered
  <1> QED
    BY <1>3, <1>4

LEMMA TargetStays ==
  ASSUME SInv, UNCHANGED <<ss, stream, target, rx_ring, rcvd, offset, again, pc>>
  PROVE  BeforeTarget' /\ OneTarget'
  BY DEF SInv, BeforeTarget, OneTarget, FirstGone, target

LEMMA UserSendKeeps ==
  ASSUME SInv, NEW n \in 1..MaxBytes, UserSend(n)
  PROVE  SInv'
  <1>1. /\ TypeOK /\ CreditInv /\ FinLast
    BY DEF SInv
  <1>2. /\ \A k \in 1..Len(toClient) : toClient[k] # 0
        /\ stream # "REMOTE_CLOSE" /\ n <= window
        /\ toClient' = Append(toClient, n) /\ window' = window - n /\ sent' = sent + n
        /\ UNCHANGED <<ss, stream, bevs, local_proxy_bev, out, rx_ring, recv_window, credit, kind, name, rcvd,
                       offset, again, pc>>
    BY DEF UserSend, Sending, target
  <1>3. n \in Nat /\ n > 0
    BY Socks5Assumption
  <1>4. toClient \in Seq(Nat) /\ window \in Nat /\ sent \in Nat /\ rcvd \in Nat /\ credit \in Nat /\ recv_window \in Int
    BY <1>1, Sizes DEF TypeOK
  <1>5. TypeOK'
    <2>1. toClient' \in Seq(Nat) /\ window' \in Nat /\ sent' \in Nat
      BY <1>2, <1>3, <1>4
    <2> QED
      BY <1>1, <1>2, <2>1 DEF TypeOK
  <1>6. CreditInv'
    <2> SUFFICES ASSUME stream = "ESTABLISHED", pc = "run"
                 PROVE  \E q \in Int : window' + credit' + (sent' - rcvd') = recv_window' + q * Word
      BY <1>2 DEF CreditInv
    <2>1. window' + credit' + (sent' - rcvd') = window + credit + (sent - rcvd)
      BY <1>2, <1>3, <1>4
    <2> QED
      BY <1>1, <1>2, <2>1 DEF CreditInv
  <1>7. FinLast'
    <2>1. \A k \in 1..Len(toClient') : toClient'[k] # 0
      <3>1. /\ Len(toClient') = Len(toClient) + 1 /\ toClient'[Len(toClient) + 1] = n
            /\ \A k \in 1..Len(toClient) : toClient'[k] = toClient[k]
        BY <1>2, <1>3, <1>4
      <3>2. Len(toClient) \in Nat
        BY <1>4
      <3> QED
        BY <1>2, <1>3, <3>1, <3>2
    <2> QED
      BY <2>1 DEF FinLast
  <1> QED
    BY <1>2, <1>5, <1>6, <1>7, RingStays, TargetStays DEF SInv, target

LEMMA UserFinKeeps ==
  ASSUME SInv, UserFin
  PROVE  SInv'
  <1>1. /\ TypeOK /\ CreditInv /\ FinLast
    BY DEF SInv
  <1>2. /\ \A k \in 1..Len(toClient) : toClient[k] # 0
        /\ stream # "REMOTE_CLOSE"
        /\ toClient' = Append(toClient, 0)
        /\ UNCHANGED <<ss, stream, bevs, local_proxy_bev, out, rx_ring, recv_window, window, credit, sent, kind, name,
                       rcvd, offset, again, pc>>
    BY DEF UserFin, Sending, target, user
  <1>3. toClient \in Seq(Nat)
    BY <1>1 DEF TypeOK
  <1>4. TypeOK'
    <2>1. toClient' \in Seq(Nat)
      BY <1>2, <1>3
    <2> QED
      BY <1>1, <1>2, <2>1 DEF TypeOK
  <1>5. CreditInv'
    BY <1>1, <1>2 DEF CreditInv
  <1>6. FinLast'
    <2>1. /\ Len(toClient') = Len(toClient) + 1 /\ Len(toClient) \in Nat
          /\ \A k \in 1..Len(toClient) : toClient'[k] = toClient[k]
      BY <1>2, <1>3
    <2> QED
      BY <1>2, <2>1 DEF FinLast
  <1> QED
    BY <1>2, <1>4, <1>5, <1>6, RingStays, TargetStays DEF SInv, target

LEMMA PeerCreditKeeps ==
  ASSUME SInv, PeerCredit
  PROVE  SInv'
  <1>1. /\ TypeOK /\ CreditInv /\ FinLast
    BY DEF SInv
  <1>2. /\ window' = (window + credit) % Word /\ credit' = 0
        /\ UNCHANGED <<ss, stream, bevs, local_proxy_bev, out, rx_ring, recv_window, toClient, sent, kind, name,
                       rcvd, offset, again, pc>>
    BY DEF PeerCredit, target, user
  <1>3. window \in Int /\ credit \in Int /\ sent \in Int /\ rcvd \in Int /\ recv_window \in Int /\ Word \in Nat \ {0}
    BY <1>1, Sizes DEF TypeOK
  <1>4. window' \in 0..(Word - 1)
    BY <1>2, <1>3, Remainder
  <1>5. TypeOK'
    <2>1. window' \in Nat /\ credit' \in Nat
      BY <1>2, <1>3, <1>4
    <2> QED
      BY <1>1, <1>2, <2>1 DEF TypeOK
  <1>6. CreditInv'
    <2> SUFFICES ASSUME stream = "ESTABLISHED", pc = "run"
                 PROVE  \E q \in Int : window' + credit' + (sent' - rcvd') = recv_window' + q * Word
      BY <1>2 DEF CreditInv
    <2>1. PICK q \in Int : window + credit + (sent - rcvd) = recv_window + q * Word
      BY <1>1 DEF CreditInv
    <2>9. \E k \in Int : window + credit = k * Word + ((window + credit) % Word)
      <3>1. window + credit \in Int
        BY <1>3
      <3> QED
        BY <1>3, <3>1, Remainder
    <2>2. PICK k \in Int : window + credit = k * Word + window'
      BY <1>2, <2>9
    <2> DEFINE y == q * Word
               z == k * Word
               f == sent - rcvd
               w == window'
    <2>3. q - k \in Int /\ (q - k) * Word = y - z /\ y \in Int /\ z \in Int
      BY <1>3
    <2>4. w \in Int /\ f \in Int /\ y \in Int /\ z \in Int
      BY <1>3, <1>4, <2>3
    <2>5. window + credit + f = recv_window + y /\ window + credit = z + w
      BY <2>1, <2>2
    <2> HIDE DEF y, z, f, w
    <2>6. w + 0 + f = recv_window + (y - z)
      BY <1>3, <2>4, <2>5
    <2>7. window' + credit' + (sent' - rcvd') = recv_window' + (y - z)
      BY <1>2, <2>6 DEF w, f
    <2>8. window' + credit' + (sent' - rcvd') = recv_window' + (q - k) * Word
      BY <2>3, <2>7
    <2> QED
      BY <2>3, <2>8
  <1>7. FinLast'
    BY <1>1, <1>2 DEF FinLast
  <1> QED
    BY <1>2, <1>5, <1>6, <1>7, RingStays, TargetStays DEF SInv, target

LEMMA DataOverflowKeeps ==
  ASSUME SInv, NEW n \in 1..MaxBytes, DataOverflow(n)
  PROVE  SInv'
  <1>1. /\ pc = "run" /\ pc' = "read assert"
        /\ UNCHANGED <<ss, stream, bevs, local_proxy_bev, out, rx_ring, recv_window, toClient, window, credit,
                       sent, kind, name, rcvd, offset, again>>
    BY DEF DataOverflow, Data, target, user
  <1>2. TypeOK' /\ FinLast'
    BY <1>1 DEF SInv, TypeOK, FinLast
  <1>3. CreditInv' /\ BeforeTarget' /\ OneTarget'
    BY <1>1 DEF SInv, CreditInv, BeforeTarget, OneTarget, FirstGone
  <1> QED
    BY <1>1, <1>2, <1>3, RingStays DEF SInv

\* The first frame leaves the channel.
LEMMA FrameArrives ==
  ASSUME SInv, NEW n \in 1..MaxBytes, Data(n), Arrived(n)
  PROVE  /\ n \in Nat /\ n > 0 /\ toClient' \in Seq(Nat) /\ rcvd' = rcvd + n /\ rcvd \in Nat /\ rcvd' \in Nat
         /\ stream' = stream => FinLast'
  <1>1. n \in Nat /\ n > 0
    BY Socks5Assumption
  <1>2. toClient \in Seq(Nat) /\ toClient # <<>> /\ rcvd \in Nat
    BY DEF SInv, TypeOK, Data
  <1>3. toClient' = Tail(toClient) /\ rcvd' = rcvd + n
    BY DEF Arrived
  <1>4. /\ toClient' \in Seq(Nat) /\ Len(toClient') = Len(toClient) - 1 /\ Len(toClient) \in Nat
        /\ \A k \in 1..(Len(toClient) - 1) : toClient'[k] = toClient[k + 1] /\ k + 1 \in 1..Len(toClient)
    BY <1>2, <1>3
  <1>5. stream' = stream => FinLast'
    <2> SUFFICES ASSUME stream' = stream, NEW k \in 1..Len(toClient'), toClient'[k] = 0
                 PROVE  k = Len(toClient') /\ stream' # "REMOTE_CLOSE"
      BY DEF FinLast
    <2>1. k \in 1..(Len(toClient) - 1) /\ toClient[k + 1] = 0 /\ k + 1 \in 1..Len(toClient)
      BY <1>4
    <2>2. k + 1 = Len(toClient) /\ stream # "REMOTE_CLOSE"
      BY <2>1 DEF SInv, FinLast
    <2> QED
      BY <1>4, <2>1, <2>2
  <1>6. rcvd' \in Nat
    BY <1>1, <1>2, <1>3
  <1> QED
    BY <1>1, <1>2, <1>3, <1>4, <1>5, <1>6

LEMMA DataKeptKeeps ==
  ASSUME SInv, NEW n \in 1..MaxBytes, DataKept(n)
  PROVE  SInv'
  <1>1. /\ Data(n) /\ Arrived(n) /\ stream # "ESTABLISHED"
        /\ rx_ring' = IF stream = "freed" THEN rx_ring ELSE Ring(n)
        /\ UNCHANGED <<ss, stream, bevs, local_proxy_bev, out, recv_window, window, credit, sent, kind, name,
                       offset, again, pc>>
    BY DEF DataKept, target, user
  <1>2. /\ n \in Nat /\ toClient' \in Seq(Nat) /\ rcvd' = rcvd + n /\ rcvd \in Nat /\ rcvd' \in Nat /\ FinLast'
    BY <1>1, FrameArrives
  <1>3. TypeOK
    BY DEF SInv
  <1>4. rx_ring' \in Seq(Nat)
    <2>1. rx_ring \in Seq(Nat) /\ Ring(n) \in Seq(Nat)
      BY <1>2, <1>3, RingFacts DEF TypeOK
    <2> QED
      BY <1>1, <2>1
  <1>5. TypeOK'
    BY <1>1, <1>2, <1>3, <1>4 DEF TypeOK
  <1>6. CreditInv' /\ BeforeTarget' /\ OneTarget'
    BY <1>1 DEF SInv, CreditInv, BeforeTarget, OneTarget
  <1>7. InOrderOf(out)'
    BY <1>1 DEF SInv, InOrderOf
  <1>8. RingOrdered'
    <2>1. CASE stream = "freed"
      <3>1. Ordered(rx_ring, out, rcvd + n)
        BY <1>2, <1>3, LaterOrdered DEF SInv, RingOrdered, TypeOK
      <3> QED
        BY <1>1, <1>2, <2>1, <3>1 DEF RingOrdered
    <2>2. CASE stream # "freed"
      <3>1. Ordered(Ring(n), out, rcvd + n)
        BY <1>2, <1>3, RingGrows DEF SInv
      <3> QED
        BY <1>1, <1>2, <2>2, <3>1 DEF RingOrdered
    <2> QED
      BY <2>1, <2>2
  <1> QED
    BY <1>2, <1>5, <1>6, <1>7, <1>8 DEF SInv

\* The first byte stays where it is, or gone.
LEMMA FirstGoneGrows ==
  ASSUME TypeOK, NEW n \in Nat
  PROVE  /\ FirstGone => \A k \in 1..Len(Ring(n)) : Ring(n)[k] > 1
         /\ rx_ring = Positions(0, rcvd) => Ring(n) = Positions(0, rcvd + n)
  <1>0. rcvd \in Nat
    BY DEF TypeOK
  <1>1. ASSUME FirstGone, NEW k \in 1..Len(Ring(n)) PROVE Ring(n)[k] > 1
    <2> DEFINE l == Len(rx_ring)
    <2>1. /\ Len(Ring(n)) = l + n /\ l \in Nat
          /\ \A j \in 1..l : Ring(n)[j] = rx_ring[j]
          /\ \A j \in (l + 1)..(l + n) : Ring(n)[j] = rcvd + (j - l)
      BY RingFacts
    <2>2. rcvd > 0 /\ \A j \in 1..l : rx_ring[j] > 1
      BY <1>1 DEF FirstGone
    <2> HIDE DEF l
    <2>3. CASE k \in 1..l
      BY <2>1, <2>2, <2>3
    <2>4. CASE k \in (l + 1)..(l + n)
      <3>1. k - l >= 1 /\ k - l \in Int /\ Ring(n)[k] = rcvd + (k - l)
        BY <2>1, <2>4
      <3> QED
        BY <1>0, <2>2, <3>1
    <2>5. k \in 1..l \/ k \in (l + 1)..(l + n)
      BY <1>1, <2>1
    <2> QED
      BY <2>3, <2>4, <2>5
  <1>2. ASSUME rx_ring = Positions(0, rcvd) PROVE Ring(n) = Positions(0, rcvd + n)
    <2>1. rcvd <= rcvd + n /\ rcvd + n \in Nat /\ 0 <= rcvd
      BY <1>0
    <2>2. Positions(0, rcvd) \o Positions(rcvd, rcvd + n) = Positions(0, rcvd + n)
      BY <1>0, <2>1, PositionsJoin
    <2> QED
      BY <1>2, <2>2 DEF Ring
  <1> QED
    BY <1>1, <1>2

LEMMA WaitKeeps ==
  ASSUME SInv, NEW n \in 1..MaxBytes, Wait(n)
  PROVE  SInv'
  <1>1. /\ Data(n) /\ Arrived(n) /\ stream = "ESTABLISHED" /\ pc = "run" /\ n <= recv_window /\ ss = "INIT"
        /\ rx_ring' = Ring(n) /\ Credit(n, 0)
        /\ UNCHANGED <<ss, stream, bevs, local_proxy_bev, out, window, sent, kind, name, offset, again, pc>>
    BY DEF Wait, Handled, Data, target, user
  <1>2. /\ n \in Nat /\ toClient' \in Seq(Nat) /\ rcvd' = rcvd + n /\ rcvd \in Nat /\ rcvd' \in Nat /\ FinLast'
        /\ n > 0
    BY <1>1, FrameArrives
  <1>3. TypeOK /\ CreditInv
    BY DEF SInv
  <1>4. /\ recv_window' \in 0..(Word - 1) /\ credit' \in Nat
        /\ \E q \in Int : window' + credit' + (sent' - rcvd') = recv_window' + q * Word
    BY <1>1, <1>2, <1>3, CreditCounts
  <1>5. TypeOK'
    <2>1. Ring(n) \in Seq(Nat)
      BY <1>2, <1>3, RingFacts
    <2> QED
      BY <1>1, <1>2, <1>3, <1>4, <2>1 DEF TypeOK
  <1>6. CreditInv'
    BY <1>4 DEF CreditInv
  <1>7. InOrderOf(out)'
    BY <1>1 DEF SInv, InOrderOf
  <1>8. RingOrdered'
    <2>1. Ordered(Ring(n), out, rcvd + n)
      BY <1>2, <1>3, RingGrows DEF SInv
    <2> QED
      BY <1>1, <1>2, <2>1 DEF RingOrdered
  <1>9. /\ FirstGone => FirstGone'
        /\ rx_ring = Positions(0, rcvd) => rx_ring' = Positions(0, rcvd')
    <2>1. FirstGone => \A k \in 1..Len(Ring(n)) : Ring(n)[k] > 1
      BY <1>2, <1>3, FirstGoneGrows
    <2>2. rx_ring = Positions(0, rcvd) => Ring(n) = Positions(0, rcvd + n)
      BY <1>2, <1>3, FirstGoneGrows
    <2>3. rcvd' > 0
      BY <1>2
    <2> QED
      BY <1>1, <1>2, <2>1, <2>2, <2>3 DEF FirstGone
  <1>10. BeforeTarget'
    BY <1>1, <1>9 DEF SInv, BeforeTarget
  <1>11. OneTarget'
    <2> SUFFICES ASSUME ~ again, offset > 0
                 PROVE  /\ Len(bevs) = 1 /\ local_proxy_bev = 1 /\ offset <= rcvd' /\ FirstGone'
                        /\ out[1] \o Ring(n) = Positions(offset, rcvd + n)
      BY <1>1, <1>2 DEF OneTarget
    <2>1. /\ Len(bevs) = 1 /\ local_proxy_bev = 1 /\ offset <= rcvd /\ FirstGone
          /\ out[1] \o rx_ring = Positions(offset, rcvd)
      BY <1>1 DEF SInv, OneTarget
    <2>2. offset \in Nat /\ out[1] \in Seq(Nat) /\ rx_ring \in Seq(Nat)
      <3>1. /\ offset \in Nat /\ rx_ring \in Seq(Nat)
            /\ out \in Seq(Seq(Nat)) /\ Len(out) = 1
        BY <1>3, <2>1 DEF TypeOK
      <3>2. out[1] \in Seq(Nat)
        BY <3>1, FirstTarget
      <3> QED
        BY <3>1, <3>2
    <2>3. offset <= rcvd' /\ rcvd + n \in Nat /\ rcvd <= rcvd + n
      BY <1>2, <2>1, <2>2
    <2> DEFINE a == out[1]
               b == Positions(rcvd, rcvd + n)
               x == rx_ring
    <2>4. a \in Seq(Nat) /\ b \in Seq(Nat) /\ x \in Seq(Nat)
      BY <1>2, <2>2, <2>3, PositionsFacts
    <2>5. a \o x = Positions(offset, rcvd)
      BY <2>1
    <2>6. Positions(offset, rcvd) \o b = Positions(offset, rcvd + n)
      BY <1>2, <2>1, <2>2, <2>3, PositionsJoin
    <2> HIDE DEF a, b, x
    <2>7. (a \o x) \o b = a \o (x \o b)
      BY <2>4, JoinAssoc
    <2>8. a \o (x \o b) = Positions(offset, rcvd + n)
      BY <2>5, <2>6, <2>7
    <2>9. out[1] \o Ring(n) = Positions(offset, rcvd + n)
      BY <2>8 DEF a, b, x, Ring
    <2> QED
      BY <1>9, <2>1, <2>3, <2>9
  <1> QED
    BY <1>2, <1>5, <1>6, <1>7, <1>8, <1>10, <1>11 DEF SInv

LEMMA ForwardKeeps ==
  ASSUME SInv, NEW n \in 1..MaxBytes, Forward(n)
  PROVE  SInv'
  <1>1. /\ Data(n) /\ Arrived(n) /\ stream = "ESTABLISHED" /\ pc = "run" /\ n <= recv_window /\ ss = "ESTABLISHED"
        /\ UNCHANGED <<ss, stream, bevs, local_proxy_bev, window, sent, kind, name, offset, again>>
        /\ \/ /\ local_proxy_bev = 0 /\ pc' = "bev assert"
              /\ UNCHANGED <<out, rx_ring, recv_window, credit>>
           \/ /\ local_proxy_bev # 0 /\ pc' = pc
              /\ out' = [out EXCEPT ![local_proxy_bev] = out[local_proxy_bev] \o Take(Ring(n), n)]
              /\ rx_ring' = Drop(Ring(n), n)
              /\ Credit(n, n)
    BY DEF Forward, Handled, Data, user
  <1>2. /\ n \in Nat /\ toClient' \in Seq(Nat) /\ rcvd' = rcvd + n /\ rcvd \in Nat /\ rcvd' \in Nat /\ FinLast'
        /\ n > 0
    BY <1>1, FrameArrives
  <1>3. TypeOK /\ CreditInv /\ RingOrdered /\ InOrderOf(out) /\ BeforeTarget /\ OneTarget
    BY DEF SInv
  <1>4. BeforeTarget'
    BY <1>1, <1>3 DEF BeforeTarget
  <1>5. CASE local_proxy_bev = 0
    <2>1. UNCHANGED <<out, rx_ring, recv_window, credit>> /\ pc' = "bev assert"
      BY <1>1, <1>5
    <2>2. TypeOK'
      BY <1>1, <1>2, <1>3, <2>1 DEF TypeOK
    <2>3. CreditInv' /\ OneTarget'
      <3>1. ~ (~ again /\ offset > 0)
        <4>1. stream \in {"ESTABLISHED", "REMOTE_CLOSE"} /\ local_proxy_bev # 1 /\ OneTarget
          <5>1. stream = "ESTABLISHED"
            BY <1>1
          <5>2. local_proxy_bev # 1
            BY <1>5
          <5> QED
            BY <1>3, <5>1, <5>2
        <4> QED
          BY <4>1 DEF OneTarget
      <3>2. OneTarget'
        BY <1>1, <3>1 DEF OneTarget
      <3> QED
        BY <2>1, <3>2 DEF CreditInv
    <2>4. InOrderOf(out)'
      <3>1. InOrderOf(out) /\ out' = out
        BY <1>3, <2>1
      <3> QED
        BY <3>1 DEF InOrderOf
    <2>5. RingOrdered'
      <3>1. Ordered(rx_ring, out, rcvd + n)
        BY <1>2, <1>3, LaterOrdered DEF RingOrdered, TypeOK
      <3> QED
        BY <1>2, <2>1, <3>1 DEF RingOrdered
    <2> QED
      BY <1>2, <1>4, <2>2, <2>3, <2>4, <2>5 DEF SInv
  <1>6. CASE local_proxy_bev # 0
    <2>1. /\ pc' = "run" /\ rx_ring' = Drop(Ring(n), n) /\ Credit(n, n)
          /\ out' = [out EXCEPT ![local_proxy_bev] = out[local_proxy_bev] \o Take(Ring(n), n)]
      BY <1>1, <1>6
    <2>2. /\ recv_window' \in 0..(Word - 1) /\ credit' \in Nat
          /\ \E q \in Int : window' + credit' + (sent' - rcvd') = recv_window' + q * Word
      BY <1>1, <1>2, <1>3, <2>1, CreditCounts
    <2>3. Ring(n) \in Seq(Nat) /\ Len(Ring(n)) = Len(rx_ring) + n /\ Len(rx_ring) \in Nat
      BY <1>2, <1>3, RingFacts
    <2>4. n \in 0..Len(Ring(n)) /\ rcvd + n \in Nat
      BY <1>2, <2>3
    <2>5. out \in Seq(Seq(Nat)) /\ Len(out) = Len(bevs) /\ local_proxy_bev \in 1..Len(out)
      <3>1. out \in Seq(Seq(Nat)) /\ Len(out) = Len(bevs) /\ local_proxy_bev \in 0..Len(bevs)
        BY <1>3 DEF TypeOK
      <3> QED
        BY <1>6, <3>1
    <2>6. Ordered(Ring(n), out, rcvd + n)
      BY <1>2, <1>3, RingGrows
    <2>7. out' \in Seq(Seq(Nat)) /\ Len(out') = Len(out) /\ Ordered(Drop(Ring(n), n), out', rcvd + n) /\ InOrderOf(out')
      <3> DEFINE r == Ring(n)
                 o == out
                 i == local_proxy_bev
                 m == rcvd + n
                 t == out'
      <3>1. /\ r \in Seq(Nat) /\ n \in 0..Len(r) /\ o \in Seq(Seq(Nat)) /\ m \in Nat /\ Ordered(r, o, m) /\ InOrderOf(o)
            /\ i \in 1..Len(o) /\ t = [o EXCEPT ![i] = o[i] \o Take(r, n)]
        BY <1>3, <2>1, <2>3, <2>4, <2>5, <2>6
      <3> HIDE DEF r, o, i, m, t
      <3>2. t \in Seq(Seq(Nat)) /\ Len(t) = Len(o) /\ Ordered(Drop(r, n), t, m) /\ InOrderOf(t)
        <4>1. r \in Seq(Nat)
          BY <3>1
        <4>2. n \in 0..Len(r)
          BY <3>1
        <4>3. o \in Seq(Seq(Nat))
          BY <3>1
        <4>4. m \in Nat
          BY <3>1
        <4>5. Ordered(r, o, m)
          BY <3>1
        <4>6. InOrderOf(o)
          BY <3>1
        <4>7. i \in 1..Len(o)
          BY <3>1
        <4>8. t = [o EXCEPT ![i] = o[i] \o Take(r, n)]
          BY <3>1
        <4> DEFINE e == [o EXCEPT ![i] = o[i] \o Take(r, n)]
        <4>9. e \in Seq(Seq(Nat)) /\ Len(e) = Len(o) /\ Ordered(Drop(r, n), e, m) /\ InOrderOf(e)
          BY <4>1, <4>2, <4>3, <4>4, <4>5, <4>6, <4>7, MoveOrdered
        <4> QED
          BY <4>8, <4>9
      <3> QED
        BY <3>2 DEF r, o, m, t
    <2>8. rx_ring' \in Seq(Nat)
      BY <2>1, <2>3, <2>4, DropFacts
    <2>9. TypeOK'
      BY <1>1, <1>2, <1>3, <2>2, <2>5, <2>7, <2>8 DEF TypeOK
    <2>10. CreditInv'
      BY <2>2 DEF CreditInv
    <2>11. InOrderOf(out)'
      BY <2>7 DEF InOrderOf
    <2>12. RingOrdered'
      BY <1>2, <2>1, <2>7 DEF RingOrdered
    <2>13. OneTarget'
      <3> SUFFICES ASSUME ~ again, offset > 0
                   PROVE  /\ Len(bevs) = 1 /\ local_proxy_bev = 1 /\ offset <= rcvd' /\ FirstGone'
                          /\ rx_ring' = <<>> /\ out'[1] \o rx_ring' = Positions(offset, rcvd + n)
        BY <1>1, <1>2, <2>1 DEF OneTarget
      <3>1. /\ Len(bevs) = 1 /\ local_proxy_bev = 1 /\ offset <= rcvd
            /\ out[1] \o rx_ring = Positions(offset, rcvd) /\ rx_ring = <<>>
        BY <1>1, <1>3 DEF OneTarget
      <3>2. offset \in Nat
        BY <1>3 DEF TypeOK
      <3>3. offset <= rcvd' /\ rcvd' > 0 /\ rcvd <= rcvd + n
        BY <1>2, <3>1, <3>2
      <3> DEFINE q == Positions(rcvd, rcvd + n)
                 o1 == out[1]
      <3>4. q \in Seq(Nat) /\ Len(q) = n /\ o1 \in Seq(Nat)
        <4>1. (rcvd + n) - rcvd = n
          BY <1>2
        <4>2. q \in Seq(Nat) /\ Len(q) = n
          BY <1>2, <2>4, <3>3, <4>1, PositionsFacts
        <4>3. o1 \in Seq(Nat)
          BY <2>5, <3>1
        <4> QED
          BY <4>2, <4>3
      <3>5. Positions(offset, rcvd) \o q = Positions(offset, rcvd + n)
        BY <1>2, <2>4, <3>1, <3>2, <3>3, PositionsJoin
      <3>6. o1 \o <<>> = Positions(offset, rcvd)
        BY <3>1
      <3>7. Ring(n) = <<>> \o q
        BY <3>1 DEF Ring
      <3>8. out'[1] = o1 \o Take(Ring(n), n)
        BY <2>1, <2>5, <3>1
      <3> HIDE DEF q, o1
      <3>9. Ring(n) = q /\ o1 = Positions(offset, rcvd)
        BY <3>4, <3>6, <3>7, JoinEmpty
      <3>10. Take(q, n) = q /\ Drop(q, n) = <<>>
        BY <3>4, TakeAll
      <3>11. rx_ring' = <<>>
        BY <2>1, <3>9, <3>10
      <3>12. out'[1] = Positions(offset, rcvd + n)
        BY <3>5, <3>8, <3>9, <3>10
      <3>13. Positions(offset, rcvd + n) \in Seq(Nat)
        BY <2>4, <3>2, <3>3, <1>2, PositionsFacts
      <3>14. out'[1] \o rx_ring' = Positions(offset, rcvd + n)
        BY <3>11, <3>12, <3>13, JoinEmpty
      <3>15. FirstGone'
        BY <3>3, <3>11 DEF FirstGone
      <3> QED
        BY <3>1, <3>3, <3>11, <3>14, <3>15
    <2> QED
      BY <1>2, <1>4, <2>9, <2>10, <2>11, <2>12, <2>13 DEF SInv
  <1> QED
    BY <1>5, <1>6

LEMMA PoppedFacts ==
  ASSUME NEW k \in Kinds, NEW l \in Names, NEW n \in Nat
  PROVE  Popped(k, l, n) \in Nat /\ Popped(k, l, n) > 0
  <1>1. l \in Nat /\ V4 \in Nat /\ V4 > 0 /\ V6 \in Nat /\ V6 > 0 /\ Port \in Nat
    BY Sizes
  <1>2. 2 + l + Port \in Nat /\ 2 + l + Port > 0
    BY <1>1
  <1>3. CASE ~ Parses(k, l, n)
    BY <1>3 DEF Popped
  <1>4. CASE Parses(k, l, n)
    <2>1. k = "v4" \/ k = "v6" \/ k = "name"
      BY <1>4 DEF Parses
    <2>2. CASE k = "v4"
      BY <1>1, <1>4, <2>2 DEF Popped
    <2>3. CASE k = "v6"
      BY <1>1, <1>4, <2>3 DEF Popped
    <2>4. CASE k = "name"
      BY <1>2, <1>4, <2>4 DEF Popped
    <2> QED
      BY <2>1, <2>2, <2>3, <2>4
  <1> QED
    BY <1>3, <1>4

\* What is left of the ring when p bytes have been popped from its head.
LEMMA PopFacts ==
  ASSUME SInv, NEW n \in Nat, n > 0, NEW p \in Nat, p > 0, p <= Len(Ring(n))
  PROVE  /\ Drop(Ring(n), p) \in Seq(Nat) /\ Ordered(Drop(Ring(n), p), out, rcvd + n)
         /\ rx_ring = Positions(0, rcvd) =>
              /\ Drop(Ring(n), p) = Positions(p, rcvd + n) /\ p <= rcvd + n
              /\ \A k \in 1..Len(Drop(Ring(n), p)) : Drop(Ring(n), p)[k] > 1
  <1>0. TypeOK /\ RingOrdered
    BY DEF SInv
  <1>1. Ring(n) \in Seq(Nat) /\ Len(Ring(n)) \in Nat
    <2>1. Ring(n) \in Seq(Nat)
      BY <1>0, RingFacts
    <2> QED
      BY <2>1
  <1>2. p \in 0..Len(Ring(n)) /\ rcvd \in Nat /\ rcvd + n \in Nat /\ out \in Seq(Seq(Nat))
    <2>1. rcvd \in Nat /\ out \in Seq(Seq(Nat))
      BY <1>0 DEF TypeOK
    <2> QED
      BY <1>1, <2>1
  <1>3. Drop(Ring(n), p) \in Seq(Nat)
    BY <1>1, <1>2, DropFacts
  <1>4. Ordered(Drop(Ring(n), p), out, rcvd + n)
    <2>1. Ordered(Ring(n), out, rcvd + n)
      BY <1>0, RingGrows
    <2> QED
      BY <1>1, <1>2, <2>1, DropOrdered
  <1>5. ASSUME rx_ring = Positions(0, rcvd)
        PROVE  /\ Drop(Ring(n), p) = Positions(p, rcvd + n) /\ p <= rcvd + n
               /\ \A k \in 1..Len(Drop(Ring(n), p)) : Drop(Ring(n), p)[k] > 1
    <2> DEFINE m == rcvd + n
    <2>1. Ring(n) = Positions(0, m)
      BY <1>0, <1>5, FirstGoneGrows
    <2>2. Len(Positions(0, m)) = m /\ m \in Nat
      <3>1. m \in Nat /\ 0 <= m /\ m - 0 = m
        BY <1>2
      <3>2. Len(Positions(0, m)) = m - 0
        BY <3>1, PositionsFacts
      <3> QED
        BY <3>1, <3>2
    <2> HIDE DEF m
    <2>3. p <= m
      BY <2>1, <2>2
    <2>4. p \in 0..m
      BY <2>2, <2>3
    <2>5. Drop(Ring(n), p) = Positions(p, m)
      BY <2>1, <2>2, <2>4, PositionsDrop
    <2>6. /\ Len(Positions(p, m)) = m - p
          /\ \A k \in 1..(m - p) : Positions(p, m)[k] = p + k
      BY <2>2, <2>3, PositionsFacts
    <2>7. ASSUME NEW k \in 1..Len(Drop(Ring(n), p)) PROVE Drop(Ring(n), p)[k] > 1
      <3>1. k \in 1..(m - p) /\ Positions(p, m)[k] = p + k
        BY <2>5, <2>6
      <3> QED
        BY <2>5, <3>1
    <2> QED
      BY <2>3, <2>5, <2>7 DEF m
  <1> QED
    BY <1>3, <1>4, <1>5

\* The head of the ring is the user's first byte only before anything was
\* popped.
LEMMA FirstParse ==
  ASSUME SInv, NEW n \in Nat, n > 0, stream = "ESTABLISHED", pc = "run", ~ again, Head(Ring(n)) = 1
  PROVE  offset = 0 /\ bevs = <<>> /\ ss = "INIT" /\ rx_ring = Positions(0, rcvd)
  <1>1. TypeOK
    BY DEF SInv
  <1>2. Ring(n) \in Seq(Nat) /\ Len(Ring(n)) = Len(rx_ring) + n /\ Len(rx_ring) \in Nat
    BY <1>1, RingFacts
  <1>3. 1 \in 1..Len(Ring(n)) /\ Head(Ring(n)) = Ring(n)[1]
    <2> DEFINE r == Ring(n)
    <2>1. r \in Seq(Nat) /\ Len(r) > 0
      BY <1>2
    <2> HIDE DEF r
    <2>2. 1 \in 1..Len(r) /\ Head(r) = r[1]
      BY <2>1
    <2> QED
      BY <2>2 DEF r
  <1>4. ~ FirstGone
    <2>1. FirstGone => Ring(n)[1] > 1
      BY <1>1, <1>3, FirstGoneGrows
    <2> QED
      BY <1>3, <2>1
  <1>5. offset = 0
    <2>1. offset \in Nat
      BY <1>1 DEF TypeOK
    <2>2. ~ (offset > 0)
      BY <1>4 DEF SInv, OneTarget
    <2> QED
      BY <2>1, <2>2
  <1> QED
    BY <1>4, <1>5 DEF SInv, BeforeTarget

LEMMA ParseKeeps ==
  ASSUME SInv, NEW n \in 1..MaxBytes, NEW k \in Kinds, NEW l \in Names, NEW c \in BOOLEAN, Parse(n, k, l, c)
  PROVE  SInv'
  <1> DEFINE p == Popped(k, l, n)
             first == Head(Ring(n)) = 1
  <1>1. /\ Data(n) /\ Arrived(n) /\ stream = "ESTABLISHED" /\ pc = "run" /\ n <= recv_window /\ ss = "INIT"
        /\ again' = (again \/ ~ first)
        /\ UNCHANGED <<ss, stream, window, sent, kind, name>>
    BY DEF Parse, Handled, Data, user
  <1>2. \/ /\ pc' = "pop assert"
           /\ UNCHANGED <<bevs, local_proxy_bev, out, rx_ring, recv_window, credit, offset>>
        \/ /\ p <= Len(Ring(n)) /\ pc' = pc /\ rx_ring' = Drop(Ring(n), p) /\ Credit(n, p)
           /\ bevs' = Append(bevs, "connecting") /\ out' = Append(out, <<>>)
           /\ local_proxy_bev' = Len(bevs) + 1
           /\ offset' = IF first THEN p ELSE offset
        \/ /\ p <= Len(Ring(n)) /\ pc' = pc /\ rx_ring' = Drop(Ring(n), p) /\ Credit(n, 0)
           /\ local_proxy_bev' \in {0, local_proxy_bev}
           /\ UNCHANGED <<bevs, out, offset>>
    BY DEF Parse, Connects, Starts, target
  <1>3. /\ n \in Nat /\ toClient' \in Seq(Nat) /\ rcvd' = rcvd + n /\ rcvd \in Nat /\ rcvd' \in Nat /\ FinLast'
        /\ n > 0
    BY <1>1, FrameArrives
  <1>4. TypeOK /\ CreditInv /\ RingOrdered /\ InOrderOf(out) /\ BeforeTarget /\ OneTarget
    BY DEF SInv
  <1>5. p \in Nat /\ p > 0
    BY <1>3, PoppedFacts
  <1>6. again' \in BOOLEAN
    BY <1>1
  <1>7. ~ again' => ~ again /\ first
    BY <1>1
  <1>8. ~ again' => offset = 0 /\ bevs = <<>> /\ rx_ring = Positions(0, rcvd)
    BY <1>1, <1>3, <1>7, FirstParse
  <1> HIDE DEF p, first
  <1>9. CASE /\ pc' = "pop assert"
             /\ UNCHANGED <<bevs, local_proxy_bev, out, rx_ring, recv_window, credit, offset>>
    <2>1. TypeOK'
      BY <1>1, <1>3, <1>4, <1>6, <1>9 DEF TypeOK
    <2>2. CreditInv'
      BY <1>9 DEF CreditInv
    <2>3. OneTarget'
      <3>0. offset' = offset
        BY <1>9
      <3>1. ~ again' => ~ (offset' > 0)
        BY <1>8, <3>0
      <3> QED
        BY <3>1 DEF OneTarget
    <2>4. BeforeTarget'
      BY <1>1, <1>8, <1>9 DEF BeforeTarget
    <2>5. InOrderOf(out)'
      <3>1. InOrderOf(out) /\ out' = out
        BY <1>4, <1>9
      <3> QED
        BY <3>1 DEF InOrderOf
    <2>6. RingOrdered'
      <3>1. Ordered(rx_ring, out, rcvd + n)
        BY <1>3, <1>4, LaterOrdered DEF RingOrdered, TypeOK
      <3>2. rx_ring' = rx_ring /\ out' = out /\ rcvd' = rcvd + n
        BY <1>3, <1>9
      <3> QED
        BY <3>1, <3>2 DEF RingOrdered
    <2> QED
      BY <1>3, <2>1, <2>2, <2>3, <2>4, <2>5, <2>6 DEF SInv
  <1>10. CASE /\ p <= Len(Ring(n)) /\ pc' = pc /\ rx_ring' = Drop(Ring(n), p) /\ Credit(n, p)
              /\ bevs' = Append(bevs, "connecting") /\ out' = Append(out, <<>>)
              /\ local_proxy_bev' = Len(bevs) + 1
              /\ offset' = IF first THEN p ELSE offset
    <2>1. /\ recv_window' \in 0..(Word - 1) /\ credit' \in Nat
          /\ \E q \in Int : window' + credit' + (sent' - rcvd') = recv_window' + q * Word
      BY <1>1, <1>3, <1>4, <1>5, <1>10, CreditCounts
    <2>2. /\ rx_ring' \in Seq(Nat) /\ Ordered(rx_ring', out, rcvd')
          /\ rx_ring = Positions(0, rcvd) =>
               /\ rx_ring' = Positions(p, rcvd') /\ p <= rcvd'
               /\ \A j \in 1..Len(rx_ring') : rx_ring'[j] > 1
      BY <1>3, <1>5, <1>10, PopFacts
    <2>3. /\ out' \in Seq(Seq(Nat)) /\ Len(out') = Len(out) + 1 /\ out'[Len(out) + 1] = <<>>
          /\ Ordered(rx_ring', out', rcvd') /\ InOrderOf(out')
      <3> DEFINE r == rx_ring'
                 m == rcvd'
      <3>1. r \in Seq(Nat) /\ m \in Nat /\ out \in Seq(Seq(Nat)) /\ Ordered(r, out, m) /\ InOrderOf(out)
        BY <1>3, <1>4, <2>2 DEF TypeOK
      <3> HIDE DEF r, m
      <3>2. /\ Append(out, <<>>) \in Seq(Seq(Nat)) /\ Len(Append(out, <<>>)) = Len(out) + 1
            /\ Append(out, <<>>)[Len(out) + 1] = <<>>
            /\ Ordered(r, Append(out, <<>>), m) /\ InOrderOf(Append(out, <<>>))
        BY <3>1, NewTargetOrdered
      <3> QED
        BY <1>10, <3>2 DEF r, m
    <2>4. /\ bevs' \in Seq({"connecting", "open", "freed"}) /\ Len(bevs') = Len(bevs) + 1
          /\ Len(out) = Len(bevs) /\ local_proxy_bev' \in 0..Len(bevs')
      <3>1. bevs \in Seq({"connecting", "open", "freed"}) /\ Len(out) = Len(bevs)
        BY <1>4 DEF TypeOK
      <3>2. bevs' = Append(bevs, "connecting") /\ local_proxy_bev' = Len(bevs) + 1
        BY <1>10
      <3>3. bevs' \in Seq({"connecting", "open", "freed"}) /\ Len(bevs') = Len(bevs) + 1 /\ Len(bevs) \in Nat
        BY <3>1, <3>2
      <3> QED
        BY <3>1, <3>2, <3>3
    <2>5. offset' \in Nat
      BY <1>4, <1>5, <1>10 DEF TypeOK
    <2>6. TypeOK'
      BY <1>1, <1>3, <1>4, <1>6, <2>1, <2>2, <2>3, <2>4, <2>5 DEF TypeOK
    <2>7. CreditInv'
      BY <2>1 DEF CreditInv
    <2>8. InOrderOf(out)' /\ RingOrdered'
      BY <2>3 DEF InOrderOf, RingOrdered
    <2>9. ~ again' => offset' = p /\ offset' > 0
      BY <1>5, <1>7, <1>10
    <2>10. BeforeTarget'
      BY <2>5, <2>9 DEF BeforeTarget
    <2>11. OneTarget'
      <3> SUFFICES ASSUME ~ again'
                   PROVE  /\ pc' = "run" /\ Len(bevs') = 1 /\ local_proxy_bev' = 1
                          /\ offset' <= rcvd' /\ FirstGone' /\ ss' = "INIT" /\ stream' = "ESTABLISHED"
                          /\ out'[1] \o rx_ring' = Positions(offset', rcvd')
        BY DEF OneTarget
      <3>1. Len(bevs) = 0
        BY <1>8
      <3>2. Len(bevs') = 1 /\ local_proxy_bev' = 1 /\ out'[1] = <<>>
        BY <1>10, <2>3, <2>4, <3>1
      <3>3. /\ rx_ring' = Positions(p, rcvd') /\ p <= rcvd' /\ \A j \in 1..Len(rx_ring') : rx_ring'[j] > 1
        BY <1>8, <2>2
      <3>4. <<>> \o rx_ring' = rx_ring'
        BY <2>2, JoinEmpty
      <3>5. rcvd' > 0
        BY <1>3
      <3>6. FirstGone'
        BY <3>3, <3>5 DEF FirstGone
      <3> QED
        BY <1>1, <1>10, <2>9, <3>2, <3>3, <3>4, <3>6
    <2> QED
      BY <1>3, <2>6, <2>7, <2>8, <2>10, <2>11 DEF SInv
  <1>11. CASE /\ p <= Len(Ring(n)) /\ pc' = pc /\ rx_ring' = Drop(Ring(n), p) /\ Credit(n, 0)
              /\ local_proxy_bev' \in {0, local_proxy_bev}
              /\ UNCHANGED <<bevs, out, offset>>
    <2>1. /\ recv_window' \in 0..(Word - 1) /\ credit' \in Nat
          /\ \E q \in Int : window' + credit' + (sent' - rcvd') = recv_window' + q * Word
      BY <1>1, <1>3, <1>4, <1>11, CreditCounts
    <2>2. /\ rx_ring' \in Seq(Nat) /\ Ordered(rx_ring', out, rcvd')
          /\ rx_ring = Positions(0, rcvd) => \A j \in 1..Len(rx_ring') : rx_ring'[j] > 1
      BY <1>3, <1>5, <1>11, PopFacts
    <2>3. local_proxy_bev' \in 0..Len(bevs')
      <3>1. local_proxy_bev \in 0..Len(bevs) /\ bevs \in Seq({"connecting", "open", "freed"})
        BY <1>4 DEF TypeOK
      <3>2. 0 \in 0..Len(bevs)
        BY <3>1
      <3> QED
        BY <1>11, <3>1, <3>2
    <2>4. TypeOK'
      BY <1>1, <1>3, <1>4, <1>6, <1>11, <2>1, <2>2, <2>3 DEF TypeOK
    <2>5. CreditInv'
      BY <2>1 DEF CreditInv
    <2>6. InOrderOf(out)'
      <3>1. InOrderOf(out) /\ out' = out
        BY <1>4, <1>11
      <3> QED
        BY <3>1 DEF InOrderOf
    <2>7. RingOrdered'
      <3>1. out' = out
        BY <1>11
      <3> QED
        BY <2>2, <3>1 DEF RingOrdered
    <2>8. OneTarget'
      <3>1. ~ again' => ~ (offset' > 0)
        BY <1>8, <1>11
      <3> QED
        BY <3>1 DEF OneTarget
    <2>9. BeforeTarget'
      <3> SUFFICES ASSUME ~ again' PROVE bevs' = <<>> /\ ss' = "INIT" /\ FirstGone'
        BY DEF BeforeTarget
      <3>1. rcvd' > 0
        BY <1>3
      <3>2. \A j \in 1..Len(rx_ring') : rx_ring'[j] > 1
        BY <1>8, <2>2
      <3> QED
        BY <1>1, <1>8, <1>11, <3>1, <3>2 DEF FirstGone
    <2> QED
      BY <1>3, <2>4, <2>5, <2>6, <2>7, <2>8, <2>9 DEF SInv
  <1> QED
    BY <1>2, <1>9, <1>10, <1>11

LEMMA HandleFinKeeps ==
  ASSUME SInv, HandleFin
  PROVE  SInv'
  <1>1. /\ toClient # <<>> /\ Head(toClient) = 0 /\ toClient' = Tail(toClient)
        /\ stream' = IF stream = "ESTABLISHED" THEN "REMOTE_CLOSE" ELSE "freed"
        /\ bevs' = IF stream = "LOCAL_CLOSE" /\ local_proxy_bev # 0
                   THEN [bevs EXCEPT ![local_proxy_bev] = "freed"] ELSE bevs
        /\ UNCHANGED <<ss, local_proxy_bev, out, rx_ring, recv_window, window, credit, sent, kind, name,
                       rcvd, offset, again, pc>>
    BY DEF HandleFin, user
  <1>2. TypeOK /\ FinLast /\ BeforeTarget /\ OneTarget
    BY DEF SInv
  <1>3. toClient \in Seq(Nat) /\ Len(toClient) = 1 /\ stream # "REMOTE_CLOSE"
    <2>1. toClient \in Seq(Nat)
      BY <1>2 DEF TypeOK
    <2>2. 1 \in 1..Len(toClient) /\ toClient[1] = 0
      BY <1>1, <2>1
    <2> QED
      BY <1>2, <2>1, <2>2 DEF FinLast
  <1>4. toClient' \in Seq(Nat) /\ Len(toClient') = 0
    BY <1>1, <1>3
  <1>5. bevs \in Seq({"connecting", "open", "freed"}) /\ local_proxy_bev \in 0..Len(bevs) /\ Len(out) = Len(bevs)
    BY <1>2 DEF TypeOK
  <1>6. bevs' \in Seq({"connecting", "open", "freed"}) /\ Len(bevs') = Len(bevs)
    <2>1. CASE stream = "LOCAL_CLOSE" /\ local_proxy_bev # 0
      <3>1. local_proxy_bev \in 1..Len(bevs) /\ bevs' = [bevs EXCEPT ![local_proxy_bev] = "freed"]
        BY <1>1, <1>5, <2>1
      <3> QED
        BY <1>5, <3>1, ReplaceFacts
    <2>2. CASE ~ (stream = "LOCAL_CLOSE" /\ local_proxy_bev # 0)
      BY <1>1, <1>5, <2>2
    <2> QED
      BY <2>1, <2>2
  <1>7. TypeOK'
    BY <1>1, <1>2, <1>4, <1>5, <1>6 DEF TypeOK
  <1>8. CreditInv'
    BY <1>1 DEF CreditInv
  <1>9. FinLast'
    BY <1>4 DEF FinLast
  <1>10. BeforeTarget'
    <2> SUFFICES ASSUME ~ again, offset = 0 PROVE bevs' = <<>> /\ ss' = "INIT"
      BY <1>1 DEF BeforeTarget
    <2>1. bevs = <<>> /\ ss = "INIT"
      BY <1>2 DEF BeforeTarget
    <2> QED
      BY <1>1, <1>5, <1>6, <2>1
  <1>11. OneTarget'
    <2> SUFFICES ASSUME ~ again, offset > 0
                 PROVE  /\ pc' \in {"run", "read assert"} /\ Len(bevs') = 1
                        /\ stream' \in {"ESTABLISHED", "REMOTE_CLOSE"} => local_proxy_bev' = 1
                        /\ stream' \in {"LOCAL_CLOSE", "freed"} => bevs'[1] = "freed"
                        /\ stream' # "ESTABLISHED"
      BY <1>1 DEF OneTarget
    <2>1. /\ pc \in {"run", "read assert"} /\ Len(bevs) = 1
          /\ stream \in {"ESTABLISHED", "REMOTE_CLOSE"} => local_proxy_bev = 1
          /\ stream \in {"LOCAL_CLOSE", "freed"} => bevs[1] = "freed"
      BY <1>2 DEF OneTarget
    <2>2. stream \in {"ESTABLISHED", "LOCAL_CLOSE", "freed"}
      BY <1>2, <1>3 DEF TypeOK
    <2>3. CASE stream = "ESTABLISHED"
      BY <1>1, <1>6, <2>1, <2>3
    <2>4. CASE stream \in {"LOCAL_CLOSE", "freed"}
      <3>1. bevs[1] = "freed"
        BY <2>1, <2>4
      <3>20. Len(bevs) = 1
        BY <2>1
      <3>21. local_proxy_bev \in 0..1
        BY <1>5, <3>20
      <3>2. 1 \in 1..Len(bevs) /\ (local_proxy_bev # 0 => local_proxy_bev = 1)
        BY <3>20, <3>21
      <3>3. bevs' = bevs \/ bevs' = [bevs EXCEPT ![1] = "freed"]
        BY <1>1, <3>2
      <3>6. bevs'[1] = "freed"
        <4>1. CASE bevs' = bevs
          BY <3>1, <4>1
        <4>2. CASE bevs' = [bevs EXCEPT ![1] = "freed"]
          BY <1>5, <3>2, <4>2, ReplaceFacts
        <4> QED
          BY <3>3, <4>1, <4>2
      <3> QED
        BY <1>1, <1>6, <2>1, <2>4, <3>6
    <2> QED
      BY <2>2, <2>3, <2>4
  <1> QED
    BY <1>1, <1>7, <1>8, <1>9, <1>10, <1>11, RingStays DEF SInv

LEMMA BevOrphanKeeps ==
  ASSUME SInv, NEW i \in 1..Len(bevs), BevOrphan(i)
  PROVE  SInv'
  <1>1. /\ bevs[i] \in {"connecting", "open"} /\ stream = "freed" /\ pc' = "use after free"
        /\ UNCHANGED <<ss, stream, bevs, local_proxy_bev, out, rx_ring, recv_window, toClient, window, credit,
                       sent, kind, name, rcvd, offset, again>>
    BY DEF BevOrphan, Live, target, user
  <1>2. TypeOK /\ OneTarget /\ BeforeTarget /\ FinLast
    BY DEF SInv
  <1>3. TypeOK' /\ FinLast'
    BY <1>1, <1>2 DEF TypeOK, FinLast
  <1>4. ~ (~ again /\ offset > 0)
    <2> SUFFICES ASSUME ~ again, offset > 0 PROVE FALSE
      OBVIOUS
    <2>1. Len(bevs) = 1 /\ bevs[1] = "freed"
      BY <1>1, <1>2 DEF OneTarget
    <2>2. i = 1
      BY <2>1
    <2> QED
      BY <1>1, <2>1, <2>2
  <1>5. OneTarget'
    BY <1>1, <1>4 DEF OneTarget
  <1>6. BeforeTarget' /\ CreditInv'
    BY <1>1, <1>2 DEF BeforeTarget, CreditInv
  <1> QED
    BY <1>1, <1>3, <1>5, <1>6, RingStays DEF SInv

LEMMA BevClosedKeeps ==
  ASSUME SInv, NEW i \in 1..Len(bevs), BevClosed(i)
  PROVE  SInv'
  <1>1. /\ bevs[i] \in {"connecting", "open"} /\ stream # "freed"
        /\ UNCHANGED <<ss, out, rx_ring, recv_window, toClient, window, credit, sent, kind, name, rcvd,
                       offset, again, pc>>
    BY DEF BevClosed, Live, user
  <1>2. \/ /\ stream = "ESTABLISHED" /\ stream' = "LOCAL_CLOSE"
           /\ bevs' = [bevs EXCEPT ![i] = "freed"] /\ local_proxy_bev' = 0
        \/ /\ stream # "ESTABLISHED" /\ stream' = "freed" /\ local_proxy_bev' = local_proxy_bev
           /\ bevs' = IF local_proxy_bev = 0 THEN bevs ELSE [bevs EXCEPT ![local_proxy_bev] = "freed"]
    BY DEF BevClosed
  <1>3. TypeOK /\ OneTarget /\ BeforeTarget /\ FinLast
    BY DEF SInv
  <1>4. bevs \in Seq({"connecting", "open", "freed"}) /\ local_proxy_bev \in 0..Len(bevs) /\ Len(out) = Len(bevs)
    BY <1>3 DEF TypeOK
  <1>5. bevs' \in Seq({"connecting", "open", "freed"}) /\ Len(bevs') = Len(bevs) /\ local_proxy_bev' \in 0..Len(bevs)
    <2>1. CASE bevs' = [bevs EXCEPT ![i] = "freed"] /\ local_proxy_bev' = 0
      <3>1. Len(bevs) \in Nat
        BY <1>4
      <3> QED
        BY <1>4, <2>1, <3>1, ReplaceFacts
    <2>2. CASE bevs' = bevs /\ local_proxy_bev' = local_proxy_bev
      BY <1>4, <2>2
    <2>3. CASE local_proxy_bev # 0 /\ bevs' = [bevs EXCEPT ![local_proxy_bev] = "freed"] /\ local_proxy_bev' = local_proxy_bev
      <3>1. local_proxy_bev \in 1..Len(bevs)
        BY <1>4, <2>3
      <3> QED
        BY <1>4, <2>3, <3>1, ReplaceFacts
    <2> QED
      BY <1>2, <2>1, <2>2, <2>3
  <1>6. stream' \in {"LOCAL_CLOSE", "freed"}
    BY <1>2
  <1>7. TypeOK'
    BY <1>1, <1>3, <1>4, <1>5, <1>6 DEF TypeOK
  <1>8. CreditInv' /\ FinLast'
    BY <1>1, <1>3, <1>6 DEF CreditInv, FinLast
  <1>9. BeforeTarget'
    <2> SUFFICES ASSUME ~ again, offset = 0 PROVE bevs' = <<>> /\ ss' = "INIT"
      BY <1>1, <1>6 DEF BeforeTarget
    <2>1. bevs = <<>>
      BY <1>3 DEF BeforeTarget
    <2> QED
      BY <2>1
  <1>10. OneTarget'
    <2> SUFFICES ASSUME ~ again, offset > 0
                 PROVE  pc' \in {"run", "read assert"} /\ Len(bevs') = 1 /\ bevs'[1] = "freed"
      BY <1>1, <1>6 DEF OneTarget
    <2>1. /\ pc \in {"run", "read assert"} /\ Len(bevs) = 1
          /\ stream \in {"ESTABLISHED", "REMOTE_CLOSE"} => local_proxy_bev = 1
          /\ stream \in {"LOCAL_CLOSE", "freed"} => bevs[1] = "freed"
      BY <1>3 DEF OneTarget
    <2>11. Len(bevs) = 1
      BY <2>1
    <2>2. i = 1 /\ 1 \in 1..Len(bevs)
      BY <2>11
    <2>3. stream \in {"ESTABLISHED", "REMOTE_CLOSE"} /\ local_proxy_bev = 1
      BY <1>1, <1>3, <2>1, <2>2 DEF TypeOK
    <2>4. bevs' = [bevs EXCEPT ![1] = "freed"]
      BY <1>2, <2>2, <2>3
    <2>5. bevs'[1] = "freed"
      BY <1>4, <2>2, <2>4, ReplaceFacts
    <2> QED
      BY <1>1, <1>5, <2>1, <2>5
  <1> QED
    BY <1>1, <1>7, <1>8, <1>9, <1>10, RingStays DEF SInv

\* The connected event: what waited in the ring goes to the target in one piece.
LEMMA FlushMoves ==
  ASSUME SInv, local_proxy_bev # 0, Flush
  PROVE  /\ out' \in Seq(Seq(Nat)) /\ Len(out') = Len(out) /\ local_proxy_bev \in 1..Len(out)
         /\ Ordered(<<>>, out', rcvd) /\ InOrderOf(out')
         /\ out'[local_proxy_bev] = out[local_proxy_bev] \o rx_ring
  <1>1. /\ out \in Seq(Seq(Nat)) /\ Len(out) = Len(bevs) /\ local_proxy_bev \in 0..Len(bevs) /\ rx_ring \in Seq(Nat)
        /\ rcvd \in Nat
    BY DEF SInv, TypeOK
  <1>2. out' = [out EXCEPT ![local_proxy_bev] = out[local_proxy_bev] \o rx_ring]
    BY DEF Flush
  <1> DEFINE r == rx_ring
             n == Len(rx_ring)
             o == out
             i == local_proxy_bev
             m == rcvd
             t == out'
             e == [o EXCEPT ![i] = o[i] \o Take(r, n)]
  <1>3. Take(r, n) = r /\ Drop(r, n) = <<>>
    BY <1>1, TakeAll
  <1>4. r \in Seq(Nat) /\ n \in 0..Len(r) /\ m \in Nat
    BY <1>1
  <1>5. o \in Seq(Seq(Nat))
    BY <1>1
  <1>6. i \in 1..Len(o)
    BY <1>1
  <1>7. Ordered(r, o, m) /\ InOrderOf(o)
    BY DEF SInv, RingOrdered
  <1>8. t = e
    BY <1>2, <1>3
  <1>9. t[i] = o[i] \o r
    BY <1>2, <1>5, <1>6
  <1> HIDE DEF r, n, o, i, m, t
  <1>10. e \in Seq(Seq(Nat)) /\ Len(e) = Len(o) /\ Ordered(Drop(r, n), e, m) /\ InOrderOf(e)
    BY <1>4, <1>5, <1>6, <1>7, MoveOrdered
  <1>11. t \in Seq(Seq(Nat)) /\ Len(t) = Len(o) /\ Ordered(<<>>, t, m) /\ InOrderOf(t)
    BY <1>3, <1>8, <1>10
  <1> QED
    BY <1>6, <1>9, <1>11 DEF r, o, i, m, t

LEMMA BevConnectedKeeps ==
  ASSUME SInv, NEW i \in 1..Len(bevs), BevConnected(i)
  PROVE  SInv'
  <1>1. /\ bevs[i] = "connecting" /\ stream # "freed" /\ pc = "run" /\ ss' = "ESTABLISHED"
        /\ bevs' = [bevs EXCEPT ![i] = "open"]
        /\ UNCHANGED <<stream, local_proxy_bev, recv_window, toClient, window, credit, sent, kind, name, rcvd,
                       offset, again>>
    BY DEF BevConnected, Live, user
  <1>2. \/ rx_ring = <<>> /\ UNCHANGED <<out, rx_ring, pc>>
        \/ rx_ring # <<>> /\ local_proxy_bev # 0 /\ Flush /\ UNCHANGED pc
        \/ rx_ring # <<>> /\ local_proxy_bev = 0 /\ pc' = "null bev" /\ UNCHANGED <<out, rx_ring>>
    BY DEF BevConnected
  <1>3. TypeOK /\ OneTarget /\ BeforeTarget /\ FinLast /\ RingOrdered /\ InOrderOf(out) /\ CreditInv
    BY DEF SInv
  <1>4. bevs \in Seq({"connecting", "open", "freed"}) /\ Len(out) = Len(bevs) /\ out \in Seq(Seq(Nat)) /\ rx_ring \in Seq(Nat)
    BY <1>3 DEF TypeOK
  <1>5. bevs' \in Seq({"connecting", "open", "freed"}) /\ Len(bevs') = Len(bevs)
    BY <1>1, <1>4, ReplaceFacts
  <1>6. /\ out' \in Seq(Seq(Nat)) /\ Len(out') = Len(out) /\ rx_ring' \in Seq(Nat)
        /\ InOrderOf(out)' /\ RingOrdered'
    <2>1. CASE UNCHANGED <<out, rx_ring>>
      BY <1>1, <1>4, <2>1, RingStays
    <2>2. CASE local_proxy_bev # 0 /\ Flush
      <3>1. /\ out' \in Seq(Seq(Nat)) /\ Len(out') = Len(out)
            /\ Ordered(<<>>, out', rcvd) /\ InOrderOf(out')
        BY <2>2, FlushMoves
      <3>2. rx_ring' = <<>>
        BY <2>2 DEF Flush
      <3>3. rx_ring' \in Seq(Nat)
        BY <3>2
      <3>4. InOrderOf(out)'
        BY <3>1 DEF InOrderOf
      <3>5. RingOrdered'
        BY <1>1, <3>1, <3>2 DEF RingOrdered
      <3> QED
        BY <3>1, <3>3, <3>4, <3>5
    <2> QED
      BY <1>2, <2>1, <2>2
  <1>7. TypeOK'
    BY <1>1, <1>3, <1>5, <1>6 DEF TypeOK
  <1>8. CreditInv'
    <2>1. (pc' = "run") => pc = "run"
      BY <1>1
    <2> QED
      BY <1>1, <1>3, <2>1 DEF CreditInv
  <1>9. FinLast'
    BY <1>1, <1>3 DEF FinLast
  <1>10. BeforeTarget'
    <2> SUFFICES ASSUME ~ again, offset = 0 PROVE FALSE
      BY <1>1 DEF BeforeTarget
    <2>1. bevs = <<>>
      BY <1>3 DEF BeforeTarget
    <2> QED
      BY <2>1
  <1>11. OneTarget'
    <2> SUFFICES ASSUME ~ again, offset > 0 PROVE OneTarget'
      BY <1>1 DEF OneTarget
    <2>1. /\ Len(bevs) = 1
          /\ stream \in {"ESTABLISHED", "REMOTE_CLOSE"} => local_proxy_bev = 1
          /\ stream \in {"LOCAL_CLOSE", "freed"} => bevs[1] = "freed"
      BY <1>3 DEF OneTarget
    <2>2. stream = "ESTABLISHED" => /\ offset <= rcvd /\ FirstGone
                                    /\ out[1] \o rx_ring = Positions(offset, rcvd)
      BY <1>3 DEF OneTarget
    <2>3. Len(bevs) = 1
      BY <2>1
    <2>4. i = 1
      BY <2>3
    <2>5. stream \in {"ESTABLISHED", "REMOTE_CLOSE"} /\ local_proxy_bev = 1
      BY <1>1, <1>3, <2>1, <2>4 DEF TypeOK
    <2>6. pc' = "run"
      BY <1>1, <1>2, <2>5
    <2>7. CASE rx_ring = <<>> /\ UNCHANGED <<out, rx_ring>>
      <3>1. FirstGone => FirstGone'
        BY <1>1, <2>7 DEF FirstGone
      <3> QED
        BY <1>1, <1>5, <2>2, <2>3, <2>5, <2>6, <2>7, <3>1 DEF OneTarget
    <2>8. CASE Flush
      <3>1. out'[1] = out[1] \o rx_ring
        BY <2>5, <2>8, FlushMoves
      <3>2. rx_ring' = <<>>
        BY <2>8 DEF Flush
      <3>3. stream = "ESTABLISHED" => FirstGone'
        BY <1>1, <2>2, <3>2 DEF FirstGone
      <3>4. stream = "ESTABLISHED" => out'[1] \o rx_ring' = Positions(offset, rcvd)
        <4> SUFFICES ASSUME stream = "ESTABLISHED" PROVE out'[1] \o rx_ring' = Positions(offset, rcvd)
          OBVIOUS
        <4>1. out'[1] = Positions(offset, rcvd)
          BY <2>2, <3>1
        <4>2. offset \in Nat /\ rcvd \in Nat /\ offset <= rcvd
          BY <1>3, <2>2 DEF TypeOK
        <4>3. Positions(offset, rcvd) \in Seq(Nat)
          BY <4>2, PositionsFacts
        <4> QED
          BY <3>2, <4>1, <4>3, JoinEmpty
      <3> QED
        BY <1>1, <1>5, <2>2, <2>3, <2>5, <2>6, <3>2, <3>3, <3>4 DEF OneTarget
    <2> QED
      BY <1>2, <2>5, <2>7, <2>8
  <1> QED
    BY <1>6, <1>7, <1>8, <1>9, <1>10, <1>11 DEF SInv

-----------------------------------------------------------------------------
(* Every step keeps the invariant                                            *)

LEMMA NextSInv == SInv /\ [Next]_vars => SInv'
  <1> SUFFICES ASSUME SInv, [Next]_vars PROVE SInv'
    OBVIOUS
  <1>1. ASSUME NEW n \in 1..MaxBytes, UserSend(n) PROVE SInv'
    BY <1>1, UserSendKeeps
  <1>2. CASE UserFin
    BY <1>2, UserFinKeeps
  <1>3. CASE PeerCredit
    BY <1>3, PeerCreditKeeps
  <1>4. CASE HandleFrame
    <2>1. ASSUME NEW n \in 1..MaxBytes, DataOverflow(n) PROVE SInv'
      BY <2>1, DataOverflowKeeps
    <2>2. ASSUME NEW n \in 1..MaxBytes, DataKept(n) PROVE SInv'
      BY <2>2, DataKeptKeeps
    <2>3. ASSUME NEW n \in 1..MaxBytes, Forward(n) PROVE SInv'
      BY <2>3, ForwardKeeps
    <2>4. ASSUME NEW n \in 1..MaxBytes, Wait(n) PROVE SInv'
      BY <2>4, WaitKeeps
    <2>5. ASSUME NEW n \in 1..MaxBytes, NEW k \in Kinds, NEW l \in Names, NEW c \in BOOLEAN, Parse(n, k, l, c)
          PROVE  SInv'
      BY <2>5, ParseKeeps
    <2>6. CASE HandleFin
      BY <2>6, HandleFinKeeps
    <2> QED
      BY <1>4, <2>1, <2>2, <2>3, <2>4, <2>5, <2>6 DEF HandleFrame
  <1>5. CASE BevEvent
    <2>1. PICK i \in 1..Len(bevs) : BevOrphan(i) \/ BevConnected(i) \/ BevClosed(i)
      BY <1>5 DEF BevEvent
    <2> QED
      BY <2>1, BevOrphanKeeps, BevConnectedKeeps, BevClosedKeeps
  <1>6. CASE UNCHANGED vars
    <2>1. UNCHANGED <<ss, stream, bevs, local_proxy_bev, out, rx_ring, recv_window, toClient, window, credit,
                      sent, kind, name, rcvd, offset, again, pc>>
      BY <1>6 DEF vars, user, target
    <2>2. TypeOK' /\ CreditInv' /\ FinLast'
      BY <2>1 DEF SInv, TypeOK, CreditInv, FinLast
    <2>3. BeforeTarget' /\ OneTarget'
      BY <2>1, TargetStays DEF target
    <2>4. InOrderOf(out)' /\ RingOrdered'
      BY <2>1, RingStays
    <2> QED
      BY <2>2, <2>3, <2>4 DEF SInv
  <1> QED
    BY <1>1, <1>2, <1>3, <1>4, <1>5, <1>6 DEF Next

-----------------------------------------------------------------------------
(* Theorems                                                                  *)

\* SInv holds in every state handle_ss5, recv_cb and xfrp_proxy_event_cb of a
\* socks5 stream can reach, however the user's bytes are cut into frames.
THEOREM Socks5Invariance == Spec => []SInv
  <1>1. Init => SInv
    BY InitSInv
  <1>2. SInv /\ [Next]_vars => SInv'
    BY NextSInv
  <1> QED
    BY <1>1, <1>2, PTL DEF Spec

\* The receive window that send_window_update keeps for a socks5 stream is what
\* frps may send, has been granted and has under way, modulo 2^32, even after
\* an address that is longer than the frame it came with.
THEOREM CreditAlwaysAgrees == Spec => []CreditAgrees
  <1>1. SInv => CreditAgrees
    <2> SUFFICES ASSUME SInv, stream = "ESTABLISHED", pc = "run"
                 PROVE  recv_window = (window + credit + (sent - rcvd)) % Word
      BY DEF CreditAgrees
    <2>1. PICK q \in Int : window + credit + (sent - rcvd) = recv_window + q * Word
      BY DEF SInv, CreditInv
    <2>2. /\ recv_window \in 0..(Word - 1) /\ window \in Nat /\ credit \in Nat /\ sent \in Nat /\ rcvd \in Nat
      BY DEF SInv, TypeOK
    <2>3. Word \in Nat \ {0}
      BY Sizes
    <2> DEFINE x == window + credit + (sent - rcvd)
    <2>4. x \in Int /\ x = recv_window + q * Word
      BY <2>1, <2>2
    <2> HIDE DEF x
    <2>5. x % Word = recv_window
      BY <2>2, <2>3, <2>4, RemainderUnique
    <2> QED
      BY <2>5 DEF x
  <1> QED
    BY <1>1, Socks5Invariance, PTL

\* handle_ss5 and the connected event never give a byte to two targets, twice or
\* out of order; and as long as the user's bytes are parsed once, as what they
\* are, the one target gets exactly what follows the address.
THEOREM AlwaysForwardsExactly == Spec => []ForwardsExactly
  <1>1. SInv => ForwardsExactly
    <2> SUFFICES ASSUME SInv PROVE ForwardsExactly
      OBVIOUS
    <2>1. InOrder
      BY DEF SInv, InOrderOf, InOrder
    <2>2. Len(out) = Len(bevs)
      BY DEF SInv, TypeOK
    <2>3. OneTarget
      BY DEF SInv
    <2>4. ASSUME ~ again, offset > 0
          PROVE  /\ pc \in {"run", "read assert"} /\ Len(out) = 1
                 /\ stream = "ESTABLISHED" => /\ out[1] \o rx_ring = Positions(offset, rcvd)
                                              /\ ss = "ESTABLISHED" => rx_ring = <<>>
      BY <2>2, <2>3, <2>4 DEF OneTarget
    <2>5. ASSUME ~ again, offset > 0 PROVE Len(out) <= 1
      <3>1. Len(out) = 1
        BY <2>4, <2>5
      <3> QED
        BY <3>1
    <2> QED
      BY <2>1, <2>4, <2>5 DEF ForwardsExactly
  <1> QED
    BY <1>1, Socks5Invariance, PTL

=============================================================================
