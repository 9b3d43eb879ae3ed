----------------------------- MODULE ConfigProofs -----------------------------
(* For any services, lines and number of connections: what Config says of    *)
(* the order of the lines and of the services announced.                     *)
EXTENDS Config, TLAPS

\* A sequence of whatever values.
IsSeq(f) == Len(f) \in Nat /\ f = [k \in 1..Len(f) |-> f[k]]

Fields == Options \cup {"name"}

\* The services are stored under names of their own.
TableInv ==
  /\ IsSeq(all_ps)
  /\ \A k \in 1..Len(all_ps) : DOMAIN all_ps[k] = Fields /\ all_ps[k].name \in Services
  /\ \A j, k \in 1..Len(all_ps) : all_ps[j].name = all_ps[k].name => j = k

\* Nothing has been said of a service that is not stored.
Values(f) ==
  /\ DOMAIN f = Services
  /\ \A s \in Services : DOMAIN f[s] = Options
  /\ \A s \in Services, o \in Options :
       IsSeq(f[s][o]) /\ \A k \in 1..Len(f[s][o]) : f[s][o][k] # NULL

SaidInv == Values(said) /\ \A s \in Services, o \in Options : ~ Known(s) => said[s][o] = <<>>

PhaseInv ==
  /\ phase = "common" => all_ps = <<>>
  /\ phase # "running" => announced = <<>>

\* The fields of a service whose type is, or will be, that given, f being what
\* has been said.
AsGiven(f, ps) ==
  LET s == ps.name
      type == LastOf(f[s]["type"], NULL)
  IN /\ \A o \in {"local_ip", "custom_domains", "subdomain", "locations", "http_user"} :
          ps[o] = LastOf(f[s][o], NULL)
     /\ ps.group = LastOf(f[s]["group"], IF type = "socks5" THEN "chatgptd" ELSE NULL)
     /\ ps.remote_port = (IF type = "socks5" /\ LastOf(f[s]["remote_port"], -1) = 0
                          THEN DEFAULT_SOCKS5_PORT ELSE LastOf(f[s]["remote_port"], -1))
     /\ ps.local_port = (IF type = "mstsc" /\ LastOf(f[s]["local_port"], -1) = 0
                         THEN DEFAULT_MSTSC_PORT ELSE LastOf(f[s]["local_port"], -1))

OrderOf(f, ps) == Len(f[ps.name]["type"]) <= 1 =>
                    ps.type = LastOf(f[ps.name]["type"], NULL) /\ AsGiven(f, ps)

OrderInv == phase = "services" => \A k \in 1..Len(all_ps) : OrderOf(said, all_ps[k])

\* dump_all_ps has made the services without a type tcp.
TypedOf(f, ps) == Len(f[ps.name]["type"]) <= 1 =>
                    /\ AsGiven(f, ps)
                    /\ \/ ps.type = LastOf(f[ps.name]["type"], NULL)
                       \/ LastOf(f[ps.name]["type"], NULL) = NULL /\ ps.type = "tcp"

TypedInv == (phase = "running" /\ announced = <<>>) => \A k \in 1..Len(all_ps) : TypedOf(said, all_ps[k])

\* A local port that is still -1 was given no other value.
PortOf(f, ps) == ps.local_port = -1 => LastOf(f[ps.name]["local_port"], -1) = -1

PortInv == phase # "exited" => \A k \in 1..Len(all_ps) : PortOf(said, all_ps[k])

\* What the lines read so far have made of a service.
Told(f, ps) == OrderOf(f, ps) /\ PortOf(f, ps)

ValidInv == phase = "running" => \A k \in 1..Len(all_ps) : validate_proxy(all_ps[k])

\* What was announced is what would be announced now, but for the locations.
But(m) == [m EXCEPT !.locations = NULL]

AnnInv ==
  /\ IsSeq(announced)
  /\ \A c \in 1..Len(announced) :
       /\ Len(announced[c]) = Len(all_ps)
       /\ \A k \in 1..Len(all_ps) :
            IF all_ps[k].type = "mstsc" THEN announced[c][k] = NULL
            ELSE announced[c][k].name = all_ps[k].name /\ But(announced[c][k]) = But(Marshal(all_ps[k]))

CInv == TableInv /\ SaidInv /\ PhaseInv /\ OrderInv /\ TypedInv /\ PortInv /\ ValidInv /\ AnnInv

-----------------------------------------------------------------------------
(* Sequences                                                                 *)

LEMMA MadeSeq ==
  ASSUME NEW n \in Nat, NEW f, f = [k \in 1..n |-> f[k]]
  PROVE  Len(f) = n /\ IsSeq(f)
  <1> DEFINE S == {f[k] : k \in 1..n}
  <1>1. \A k \in 1..n : f[k] \in S
    OBVIOUS
  <1> HIDE DEF S
  <1>2. f \in [1..n -> S]
    BY <1>1
  <1>3. f \in Seq(S) /\ Len(f) = n
    BY <1>2
  <1> QED
    BY <1>3 DEF IsSeq

LEMMA EmptySeq == IsSeq(<<>>) /\ Len(<<>>) = 0
  <1>1. <<>> \in Seq({}) /\ Len(<<>>) = 0
    OBVIOUS
  <1>2. <<>> = [k \in 1..0 |-> <<>>[k]]
    BY <1>1
  <1> QED
    BY <1>1, <1>2 DEF IsSeq

LEMMA AppendSeq ==
  ASSUME NEW f, IsSeq(f), NEW a
  PROVE  /\ IsSeq(Append(f, a)) /\ Len(Append(f, a)) = Len(f) + 1 /\ Len(f) \in Nat
         /\ Append(f, a)[Len(f) + 1] = a
         /\ \A k \in 1..Len(f) : Append(f, a)[k] = f[k]
  <1> DEFINE n == Len(f)
             S == {f[k] : k \in 1..n} \cup {a}
             g == Append(f, a)
  <1>1. n \in Nat /\ f = [k \in 1..n |-> f[k]]
    BY DEF IsSeq
  <1>2. a \in S /\ \A k \in 1..n : f[k] \in S
    OBVIOUS
  <1> HIDE DEF S, n
  <1>3. f \in [1..n -> S]
    BY <1>1, <1>2
  <1>4. f \in Seq(S) /\ Len(f) = n
    BY <1>1, <1>3
  <1>5. /\ g \in Seq(S) /\ Len(g) = n + 1 /\ g[n + 1] = a
        /\ \A k \in 1..n : g[k] = f[k]
    BY <1>1, <1>2, <1>4
  <1> HIDE DEF g
  <1>6. IsSeq(g)
    BY <1>5 DEF IsSeq
  <1> QED
    BY <1>1, <1>5, <1>6 DEF g, n

-----------------------------------------------------------------------------
(* A line of a service                                                       *)

\* g is f with one more value given.
OneMore(f, g, s, opt, v) ==
  /\ Len(g[s][opt]) = Len(f[s][opt]) + 1
  /\ \A d : LastOf(g[s][opt], d) = v
  /\ \A o \in Options : o # opt => g[s][o] = f[s][o]
  /\ \A r \in Services : r # s => g[r] = f[r]
  /\ Values(g) /\ g[s][opt] # <<>>

LEMMA SaidMore ==
  ASSUME NEW f, Values(f), NEW s \in Services, NEW opt \in Options, NEW v, v # NULL,
         NEW g, g = [f EXCEPT ![s][opt] = Append(@, v)]
  PROVE  OneMore(f, g, s, opt, v)
  <1>1. DOMAIN f = Services /\ \A r \in Services : DOMAIN f[r] = Options
    BY DEF Values
  <1>2. /\ g[s][opt] = Append(f[s][opt], v)
        /\ \A o \in Options : o # opt => g[s][o] = f[s][o]
        /\ \A r \in Services : r # s => g[r] = f[r]
        /\ DOMAIN g = Services /\ DOMAIN g[s] = Options
    BY <1>1
  <1> DEFINE x == f[s][opt]
             y == g[s][opt]
  <1>3. IsSeq(x) /\ \A k \in 1..Len(x) : x[k] # NULL
    BY DEF Values
  <1>4. /\ IsSeq(y) /\ Len(y) = Len(x) + 1 /\ Len(x) \in Nat /\ y[Len(x) + 1] = v
        /\ \A k \in 1..Len(x) : y[k] = x[k]
    BY <1>2, <1>3, AppendSeq
  <1>5. y # <<>>
    <2> HIDE DEF x, y
    <2>1. Len(y) # 0
      BY <1>4
    <2> QED
      BY <2>1, EmptySeq
  <1>6. ASSUME NEW d PROVE LastOf(y, d) = v
    BY <1>4, <1>5 DEF LastOf
  <1>7. \A k \in 1..Len(y) : y[k] # NULL
    <2> HIDE DEF x, y
    <2>1. \A k \in 1..Len(y) : k \in 1..Len(x) \/ k = Len(x) + 1
      BY <1>4
    <2> QED
      BY <1>3, <1>4, <2>1
  <1>8. ASSUME NEW r \in Services, NEW o \in Options
        PROVE  IsSeq(g[r][o]) /\ \A k \in 1..Len(g[r][o]) : g[r][o][k] # NULL
    <2>1. CASE r = s /\ o = opt
      BY <1>4, <1>7, <2>1
    <2>2. CASE ~ (r = s /\ o = opt)
      <3>1. g[r][o] = f[r][o]
        BY <1>2, <2>2
      <3> QED
        BY <3>1 DEF Values
    <2> QED
      BY <2>1, <2>2
  <1>9. \A r \in Services : DOMAIN g[r] = Options
    BY <1>1, <1>2
  <1>10. Values(g)
    BY <1>2, <1>8, <1>9 DEF Values
  <1> QED
    BY <1>2, <1>4, <1>5, <1>6, <1>10 DEF OneMore

LEMMA DefaultsFacts ==
  ASSUME NEW ps, DOMAIN ps = Fields, NEW opt, NEW q, q = Defaults(ps, opt)
  PROVE  /\ DOMAIN q = Fields /\ q.name = ps.name /\ q.type = ps.type
         /\ \A o \in {"local_ip", "custom_domains", "subdomain", "locations", "http_user"} : q[o] = ps[o]
         /\ q.group = IF ps.type = "socks5" /\ ps.group = NULL THEN "chatgptd" ELSE ps.group
         /\ q.remote_port = IF ps.type = "socks5" /\ ps.remote_port = 0 THEN DEFAULT_SOCKS5_PORT ELSE ps.remote_port
         /\ q.local_port = IF ps.type = "mstsc" /\ ps.local_port = 0 THEN DEFAULT_MSTSC_PORT ELSE ps.local_port
  BY DEF Defaults, Fields, Options

LEMMA StoredFacts ==
  ASSUME NEW ps, DOMAIN ps = Fields, NEW opt \in Options, NEW v, NEW q, q = [ps EXCEPT ![opt] = v]
  PROVE  /\ DOMAIN q = Fields /\ q[opt] = v /\ \A o \in Fields : o # opt => q[o] = ps[o]
         /\ q.name = ps.name
  BY DEF Fields, Options

LEMMA NoLength ==
  ASSUME NEW f, IsSeq(f), Len(f) = 0
  PROVE  f = <<>>
  <1>1. f = [k \in 1..0 |-> f[k]]
    BY DEF IsSeq
  <1>2. <<>> = [k \in 1..0 |-> <<>>[k]]
    BY EmptySeq DEF IsSeq
  <1>3. 1..0 = {}
    OBVIOUS
  <1> QED
    BY <1>1, <1>2, <1>3

\* What was given last, if anything, is a value.
ValueOrNone(x) == (\A d : LastOf(x, d) = d) \/ (\E w : w # NULL /\ \A d : LastOf(x, d) = w)

LEMMA LastFacts ==
  ASSUME NEW f, Values(f), NEW s \in Services, NEW o \in Options
  PROVE  (Len(f[s][o]) = 0 => \A d : LastOf(f[s][o], d) = d) /\ ValueOrNone(f[s][o])
  <1> DEFINE x == f[s][o]
  <1>1. IsSeq(x) /\ \A k \in 1..Len(x) : x[k] # NULL
    BY DEF Values
  <1>2. Len(x) \in Nat
    BY <1>1 DEF IsSeq
  <1>3. Len(x) = 0 => x = <<>>
    BY <1>1, NoLength
  <1>4. x = <<>> => \A d : LastOf(x, d) = d
    BY DEF LastOf
  <1>5. x # <<>> => \A d : LastOf(x, d) = x[Len(x)]
    BY DEF LastOf
  <1> HIDE DEF x
  <1>6. Len(x) # 0 => x[Len(x)] # NULL
    BY <1>1, <1>2
  <1> QED
    BY <1>3, <1>4, <1>5, <1>6 DEF x, ValueOrNone

\* With the type given once at most, a line keeps its service as given: m is the
\* service with the value stored, q with its defaults.
LEMMA LineKeeps ==
  ASSUME NEW f, Values(f), NEW g, NEW s \in Services, NEW opt \in Options, NEW v, v # NULL,
         OneMore(f, g, s, opt, v),
         NEW ps, ps.name = s, OrderOf(f, ps), Len(g[s]["type"]) <= 1,
         NEW m, DOMAIN m = Fields, m[opt] = v, \A o \in Fields : o # opt => m[o] = ps[o],
         NEW q, q = Defaults(m, opt)
  PROVE  OrderOf(g, q) /\ q.name = s /\ DOMAIN q = Fields
  <1>   /\ Len(g[s][opt]) = Len(f[s][opt]) + 1 /\ \A d : LastOf(g[s][opt], d) = v
        /\ \A o \in Options : o # opt => g[s][o] = f[s][o]
    BY DEF OneMore
  <1> DEFINE five == {"local_ip", "custom_domains", "subdomain", "locations", "http_user"}
  <1>1. /\ DOMAIN q = Fields /\ q.name = m.name /\ q.type = m.type
        /\ \A o \in five : q[o] = m[o]
        /\ q.group = IF m.type = "socks5" /\ m.group = NULL THEN "chatgptd" ELSE m.group
        /\ q.remote_port = IF m.type = "socks5" /\ m.remote_port = 0 THEN DEFAULT_SOCKS5_PORT ELSE m.remote_port
        /\ q.local_port = IF m.type = "mstsc" /\ m.local_port = 0 THEN DEFAULT_MSTSC_PORT ELSE m.local_port
    BY DefaultsFacts
  <1>2. /\ \A o \in five : o \in Options /\ o \in Fields
        /\ \A o \in {"type", "group", "remote_port", "local_port"} : o \in Options /\ o \in Fields
        /\ "name" \in Fields /\ "name" \notin Options
    BY DEF Options, Fields
  <1>3. q.name = s
    BY <1>1, <1>2
  <1>4. Len(f[s]["type"]) \in Nat
    BY <1>2 DEF Values, IsSeq
  <1>5. Len(f[s]["type"]) <= 1 /\ (opt = "type" => Len(f[s]["type"]) = 0)
    BY <1>2, <1>4
  <1>6. ps.type = LastOf(f[s]["type"], NULL) /\ AsGiven(f, ps)
    BY <1>5 DEF OrderOf
  <1>7. /\ \A o \in five : ps[o] = LastOf(f[s][o], NULL)
        /\ ps.group = LastOf(f[s]["group"], IF ps.type = "socks5" THEN "chatgptd" ELSE NULL)
        /\ ps.remote_port = (IF ps.type = "socks5" /\ LastOf(f[s]["remote_port"], -1) = 0
                             THEN DEFAULT_SOCKS5_PORT ELSE LastOf(f[s]["remote_port"], -1))
        /\ ps.local_port = (IF ps.type = "mstsc" /\ LastOf(f[s]["local_port"], -1) = 0
                            THEN DEFAULT_MSTSC_PORT ELSE LastOf(f[s]["local_port"], -1))
    BY <1>6 DEF AsGiven
  <1>8. NULL # "socks5" /\ NULL # "mstsc" /\ DEFAULT_SOCKS5_PORT # 0 /\ DEFAULT_MSTSC_PORT # 0
    BY ConfigAssumption DEF valid_types, DEFAULT_SOCKS5_PORT, DEFAULT_MSTSC_PORT
  <1>9. opt = "type" => ps.type = NULL
    BY <1>2, <1>5, <1>6, LastFacts
  <1>10. opt # "type" => m.type = ps.type
    BY <1>2
  <1>11. \A o \in five : q[o] = LastOf(g[s][o], NULL)
    BY <1>1, <1>2, <1>7
  <1>12. q.type = LastOf(g[s]["type"], NULL)
    <2>1. CASE opt = "type"
      BY <1>1, <2>1
    <2>2. CASE opt # "type"
      BY <1>1, <1>2, <1>6, <1>10, <2>2
    <2> QED
      BY <2>1, <2>2
  <1>13. \A d : (q.type = "socks5" => d = "chatgptd") /\ (q.type # "socks5" => d = NULL)
                => q.group = LastOf(g[s]["group"], d)
    <2>1. CASE opt = "group"
      BY <1>1, <2>1
    <2>2. CASE opt # "group"
      <3>1. m.group = ps.group /\ \A d : LastOf(g[s]["group"], d) = LastOf(f[s]["group"], d)
        BY <1>2, <2>2
      <3>2. (\A d : LastOf(f[s]["group"], d) = d) \/ (\E w : w # NULL /\ \A d : LastOf(f[s]["group"], d) = w)
        <4>1. "group" \in Options
          BY <1>2
        <4>2. ValueOrNone(f[s]["group"])
          BY <4>1, LastFacts
        <4> QED
          BY <4>2 DEF ValueOrNone
      <3>3. CASE opt = "type"
        <4>1. ps.group = LastOf(f[s]["group"], NULL)
          BY <1>7, <1>8, <1>9, <3>3
        <4> QED
          BY <1>1, <3>1, <3>2, <4>1
      <3>4. CASE opt # "type"
        BY <1>1, <1>7, <1>10, <3>1, <3>2, <3>4
      <3> QED
        BY <3>3, <3>4
    <2> QED
      BY <2>1, <2>2
  <1>14. q.remote_port = (IF q.type = "socks5" /\ LastOf(g[s]["remote_port"], -1) = 0
                          THEN DEFAULT_SOCKS5_PORT ELSE LastOf(g[s]["remote_port"], -1))
    <2>1. CASE opt = "remote_port"
      BY <1>1, <2>1
    <2>2. CASE opt # "remote_port"
      <3>1. m.remote_port = ps.remote_port /\ LastOf(g[s]["remote_port"], -1) = LastOf(f[s]["remote_port"], -1)
        BY <1>2, <2>2
      <3> QED
        BY <1>1, <1>7, <1>8, <1>9, <1>10, <3>1
    <2> QED
      BY <2>1, <2>2
  <1>15. q.local_port = (IF q.type = "mstsc" /\ LastOf(g[s]["local_port"], -1) = 0
                         THEN DEFAULT_MSTSC_PORT ELSE LastOf(g[s]["local_port"], -1))
    <2>1. CASE opt = "local_port"
      BY <1>1, <2>1
    <2>2. CASE opt # "local_port"
      <3>1. m.local_port = ps.local_port /\ LastOf(g[s]["local_port"], -1) = LastOf(f[s]["local_port"], -1)
        BY <1>2, <2>2
      <3> QED
        BY <1>1, <1>7, <1>8, <1>9, <1>10, <3>1
    <2> QED
      BY <2>1, <2>2
  <1>16. AsGiven(g, q)
    <2>1. q.group = LastOf(g[s]["group"], IF q.type = "socks5" THEN "chatgptd" ELSE NULL)
      BY <1>13
    <2> QED
      BY <1>3, <1>11, <1>12, <1>14, <1>15, <2>1 DEF AsGiven
  <1> QED
    BY <1>1, <1>3, <1>12, <1>16 DEF OrderOf

-----------------------------------------------------------------------------
(* The steps                                                                 *)

LEMMA InitHolds == Init => CInv
  <1> SUFFICES ASSUME Init PROVE CInv
    OBVIOUS
  <1>1. /\ phase = "common" /\ all_ps = <<>> /\ announced = <<>>
        /\ said = [s \in Services |-> [o \in Options |-> <<>>]]
    BY DEF Init
  <1>2. IsSeq(<<>>) /\ Len(<<>>) = 0
    BY EmptySeq
  <1>3. TableInv
    BY <1>1, <1>2 DEF TableInv
  <1>4. SaidInv
    BY <1>1, <1>2 DEF SaidInv, Values
  <1>5. PhaseInv /\ OrderInv /\ TypedInv /\ PortInv /\ ValidInv
    BY <1>1, <1>2 DEF PhaseInv, OrderInv, TypedInv, PortInv, ValidInv
  <1>6. AnnInv
    BY <1>1, <1>2 DEF AnnInv
  <1> QED
    BY <1>3, <1>4, <1>5, <1>6 DEF CInv

\* A step that leaves the services alone.
LEMMA TableStays ==
  ASSUME CInv, UNCHANGED <<all_ps, said, announced>>,
         phase' = phase \/ (phase = "common" /\ phase' \in {"services", "exited"})
  PROVE  CInv'
  <1>1. all_ps' = all_ps /\ said' = said /\ announced' = announced
    OBVIOUS
  <1>2. TableInv'
    BY <1>1 DEF CInv, TableInv
  <1>3. SaidInv'
    BY <1>1 DEF CInv, SaidInv, Known
  <1>4. PhaseInv'
    BY <1>1 DEF CInv, PhaseInv
  <1>5. phase = "common" => Len(all_ps) = 0
    BY EmptySeq DEF CInv, PhaseInv
  <1>6. OrderInv'
    <2> SUFFICES ASSUME phase' = "services", NEW k \in 1..Len(all_ps) PROVE OrderOf(said, all_ps[k])
      BY <1>1 DEF OrderInv
    <2>1. phase = "services"
      BY <1>5
    <2> QED
      BY <2>1 DEF CInv, OrderInv
  <1>7. TypedInv'
    BY <1>1 DEF CInv, TypedInv
  <1>8. ValidInv'
    BY <1>1 DEF CInv, ValidInv
  <1>9. AnnInv'
    BY <1>1 DEF CInv, AnnInv
  <1>10. PortInv'
    <2> SUFFICES ASSUME phase' # "exited", NEW k \in 1..Len(all_ps) PROVE PortOf(said, all_ps[k])
      BY <1>1 DEF PortInv
    <2>1. phase # "exited"
      OBVIOUS
    <2> QED
      BY <2>1 DEF CInv, PortInv
  <1> QED
    BY <1>2, <1>3, <1>4, <1>6, <1>7, <1>8, <1>9, <1>10 DEF CInv

LEMMA NewServiceFacts ==
  ASSUME SaidInv, NEW s \in Services, ~ Known(s), NEW ps, ps = new_proxy_service(s)
  PROVE  DOMAIN ps = Fields /\ ps.name = s /\ Told(said, ps)
  <1>1. /\ DOMAIN ps = Fields /\ ps.name = s /\ ps.type = NULL /\ ps.group = NULL
        /\ ps.remote_port = -1 /\ ps.local_port = -1
        /\ \A o \in {"local_ip", "custom_domains", "subdomain", "locations", "http_user"} : ps[o] = NULL
    BY DEF new_proxy_service, Fields, Options
  <1>2. \A o \in Options : \A d : LastOf(said[s][o], d) = d
    BY DEF SaidInv, LastOf
  <1>3. \A o \in {"type", "group", "remote_port", "local_port", "local_ip", "custom_domains", "subdomain",
                  "locations", "http_user"} : \A d : LastOf(said[s][o], d) = d
    BY <1>2 DEF Options
  <1>4. NULL # "socks5" /\ NULL # "mstsc"
    BY ConfigAssumption DEF valid_types
  <1>5. LastOf(said[s]["type"], NULL) = NULL
    BY <1>3
  <1>6. AsGiven(said, ps)
    BY <1>1, <1>3, <1>4, <1>5 DEF AsGiven
  <1>7. PortOf(said, ps)
    BY <1>1, <1>3 DEF PortOf
  <1> QED
    BY <1>1, <1>5, <1>6, <1>7 DEF OrderOf, Told

\* The table with the service a line is about.
Entry(s) == IF Known(s) THEN Index(s) ELSE Len(Table(s))

\* t is the services, s among them as entry e.
HoldsAt(t, e, s) ==
  /\ IsSeq(t) /\ e \in 1..Len(t) /\ t[e].name = s
  /\ \A j \in 1..Len(t) : DOMAIN t[j] = Fields /\ t[j].name \in Services /\ Told(said, t[j])
  /\ \A i, j \in 1..Len(t) : t[i].name = t[j].name => i = j
  /\ \A r : Known(r) => \E j \in 1..Len(t) : t[j].name = r

LEMMA TableFacts ==
  ASSUME CInv, phase = "services", NEW s \in Services, NEW t, t = Table(s), NEW e, e = Entry(s)
  PROVE  HoldsAt(t, e, s)
  <1>1. /\ IsSeq(all_ps) /\ Len(all_ps) \in Nat
        /\ \A k \in 1..Len(all_ps) : DOMAIN all_ps[k] = Fields /\ all_ps[k].name \in Services
        /\ \A j, k \in 1..Len(all_ps) : all_ps[j].name = all_ps[k].name => j = k
        /\ \A k \in 1..Len(all_ps) : Told(said, all_ps[k])
    BY DEF CInv, TableInv, OrderInv, PortInv, Told, IsSeq
  <1>2. CASE Known(s)
    <2>1. t = all_ps /\ e = Index(s)
      BY <1>2 DEF Table, Entry
    <2>2. \E k \in 1..Len(all_ps) : all_ps[k].name = s
      BY <1>2 DEF Known
    <2>3. e \in 1..Len(all_ps) /\ all_ps[e].name = s
      BY <2>1, <2>2 DEF Index
    <2> QED
      BY <1>1, <2>1, <2>3 DEF Known, HoldsAt
  <1>3. CASE ~ Known(s)
    <2> DEFINE n == Len(all_ps)
               ps == new_proxy_service(s)
    <2>1. t = Append(all_ps, ps)
      BY <1>3 DEF Table
    <2>2. DOMAIN ps = Fields /\ ps.name = s /\ Told(said, ps)
      BY <1>3, NewServiceFacts DEF CInv
    <2> HIDE DEF ps
    <2>3. /\ IsSeq(t) /\ Len(t) = n + 1 /\ n \in Nat /\ t[n + 1] = ps
          /\ \A k \in 1..n : t[k] = all_ps[k]
      BY <1>1, <2>1, AppendSeq
    <2>4. e = n + 1
      BY <1>3, <2>3 DEF Entry
    <2>5. \A k \in 1..n : all_ps[k].name # s
      BY <1>3 DEF Known
    <2> HIDE DEF n
    <2>6. \A j \in 1..Len(t) : j \in 1..n \/ j = n + 1
      BY <2>3
    <2>7. \A j \in 1..Len(t) : DOMAIN t[j] = Fields /\ t[j].name \in Services /\ Told(said, t[j])
      <3> SUFFICES ASSUME NEW j \in 1..Len(t)
                   PROVE  DOMAIN t[j] = Fields /\ t[j].name \in Services /\ Told(said, t[j])
        OBVIOUS
      <3>1. CASE j = n + 1
        BY <2>2, <2>3, <3>1
      <3>2. CASE j \in 1..n
        <4>1. t[j] = all_ps[j] /\ DOMAIN all_ps[j] = Fields /\ all_ps[j].name \in Services /\ Told(said, all_ps[j])
          BY <1>1, <2>3, <3>2 DEF n
        <4> QED
          BY <4>1
      <3> QED
        BY <2>6, <3>1, <3>2
    <2>8. \A i, j \in 1..Len(t) : t[i].name = t[j].name => i = j
      BY <1>1, <2>2, <2>3, <2>5, <2>6 DEF n
    <2>9. \A r : Known(r) => \E j \in 1..Len(t) : t[j].name = r
      <3>1. \A j \in 1..n : j \in 1..Len(t)
        BY <2>3
      <3> QED
        BY <2>3, <3>1 DEF Known, n
    <2>10. e \in 1..Len(t) /\ t[e].name = s
      BY <2>2, <2>3, <2>4
    <2> QED
      BY <2>3, <2>7, <2>8, <2>9, <2>10 DEF HoldsAt
  <1> QED
    BY <1>2, <1>3

LEMMA SaidKeeps ==
  ASSUME SaidInv, NEW s \in Services, NEW opt \in Options, NEW v, OneMore(said, said', s, opt, v),
         Known(s)', \A r \in Services : Known(r) => Known(r)'
  PROVE  SaidInv'
  <1>1. /\ Values(said')
        /\ \A r \in Services : r # s => said'[r] = said[r]
    BY DEF OneMore
  <1>2. ASSUME NEW r \in Services, NEW o \in Options, ~ Known(r)' PROVE said'[r][o] = <<>>
    <2>1. r # s /\ ~ Known(r)
      BY <1>2
    <2> QED
      BY <1>1, <2>1 DEF SaidInv
  <1> QED
    BY <1>1, <1>2 DEF SaidInv

\* What a line does to the other invariants, given what it does to the table.
LEMMA LineStep ==
  ASSUME CInv, phase = "services", announced' = announced, phase' \in {"services", "exited"},
         TableInv', SaidInv',
         phase' = "services" => \A k \in 1..Len(all_ps') : Told(said', all_ps'[k])
  PROVE  CInv'
  <1>1. announced = <<>> /\ Len(announced) = 0
    BY EmptySeq DEF CInv, PhaseInv
  <1>2. OrderInv' /\ PortInv'
    BY DEF OrderInv, PortInv, Told
  <1>3. PhaseInv' /\ TypedInv' /\ ValidInv'
    BY <1>1 DEF PhaseInv, TypedInv, ValidInv
  <1>4. AnnInv'
    BY <1>1, EmptySeq DEF AnnInv
  <1> QED
    BY <1>2, <1>3, <1>4 DEF CInv

\* An option that is not known, or a type that is not supported.
LEMMA ServiceOnlyKeeps ==
  ASSUME CInv, phase = "services", NEW s \in Services, NEW opt, NEW v, v # NULL,
         NEW t, t = Table(s), all_ps' = t, announced' = announced,
         \/ said' = said /\ phase' = phase
         \/ opt \in Options /\ said' = [said EXCEPT ![s][opt] = Append(@, v)] /\ phase' = "exited"
  PROVE  CInv'
  <1> DEFINE e == Entry(s)
  <1>1. /\ IsSeq(t) /\ e \in 1..Len(t) /\ t[e].name = s
        /\ \A j \in 1..Len(t) : DOMAIN t[j] = Fields /\ t[j].name \in Services /\ Told(said, t[j])
        /\ \A i, j \in 1..Len(t) : t[i].name = t[j].name => i = j
        /\ \A r : Known(r) => \E j \in 1..Len(t) : t[j].name = r
    BY TableFacts DEF HoldsAt
  <1>2. all_ps' = t
    OBVIOUS
  <1> HIDE DEF e
  <1>3. TableInv'
    BY <1>1, <1>2 DEF TableInv
  <1>4. Known(s)' /\ \A r \in Services : Known(r) => Known(r)'
    <2>1. \A r : Known(r)' <=> \E j \in 1..Len(t) : t[j].name = r
      BY <1>2 DEF Known
    <2> QED
      BY <1>1, <2>1
  <1>5. CASE said' = said /\ phase' = phase
    <2>1. SaidInv'
      BY <1>4, <1>5 DEF CInv, SaidInv
    <2>4. \A k \in 1..Len(all_ps') : Told(said', all_ps'[k])
      BY <1>1, <1>2, <1>5
    <2> QED
      BY <1>3, <1>5, <2>1, <2>4, LineStep
  <1>6. CASE opt \in Options /\ said' = [said EXCEPT ![s][opt] = Append(@, v)] /\ phase' = "exited"
    <2>1. OneMore(said, said', s, opt, v)
      BY <1>6, SaidMore DEF CInv, SaidInv
    <2>2. SaidInv'
      BY <1>4, <1>6, <2>1, SaidKeeps DEF CInv
    <2> QED
      BY <1>3, <1>6, <2>2, LineStep
  <1> QED
    BY <1>5, <1>6

\* A line stores an option of the service ps.
LEMMA LineOrder ==
  ASSUME NEW f, Values(f), NEW g, NEW s \in Services, NEW opt \in Options, NEW v, v # NULL,
         OneMore(f, g, s, opt, v),
         NEW ps, DOMAIN ps = Fields, ps.name = s, Told(f, ps),
         NEW q, q = Defaults([ps EXCEPT ![opt] = v], opt)
  PROVE  DOMAIN q = Fields /\ q.name = s /\ Told(g, q)
  <1> DEFINE m == [ps EXCEPT ![opt] = v]
  <1>1. DOMAIN m = Fields /\ m[opt] = v /\ m.name = s /\ \A o \in Fields : o # opt => m[o] = ps[o]
    BY DEF Fields, Options
  <1>2. q = Defaults(m, opt)
    OBVIOUS
  <1> HIDE DEF m
  <1>3. DOMAIN q = Fields /\ q.name = s
    <2>1. q.name = m.name /\ DOMAIN q = Fields
      BY <1>1, <1>2, DefaultsFacts
    <2> QED
      BY <1>1, <2>1
  <1>4. OrderOf(g, q)
    <2>1. CASE Len(g[s]["type"]) <= 1
      <3>1. OrderOf(f, ps)
        BY DEF Told
      <3> QED
        BY <1>1, <1>2, <2>1, <3>1, LineKeeps
    <2>2. CASE ~ Len(g[s]["type"]) <= 1
      BY <1>3, <2>2 DEF OrderOf
    <2> QED
      BY <2>1, <2>2
  <1>5. PortOf(g, q)
    <2>1. q.local_port = m.local_port \/ q.local_port = DEFAULT_MSTSC_PORT
      BY <1>1, <1>2, DefaultsFacts
    <2>2. DEFAULT_MSTSC_PORT # -1
      BY DEF DEFAULT_MSTSC_PORT
    <2>3. "local_port" \in Options /\ "local_port" \in Fields
      BY DEF Options, Fields
    <2>4. CASE opt = "local_port"
      <3>1. m.local_port = v /\ LastOf(g[s]["local_port"], -1) = v
        BY <1>1, <2>4 DEF OneMore
      <3> QED
        BY <1>3, <2>1, <2>2, <3>1 DEF PortOf
    <2>5. CASE opt # "local_port"
      <3>1. m.local_port = ps.local_port /\ g[s]["local_port"] = f[s]["local_port"]
        BY <1>1, <2>3, <2>5 DEF OneMore
      <3>2. ps.local_port = -1 => LastOf(f[s]["local_port"], -1) = -1
        BY DEF Told, PortOf
      <3> QED
        BY <1>3, <2>1, <2>2, <3>1, <3>2 DEF PortOf
    <2> QED
      BY <2>4, <2>5
  <1> QED
    BY <1>3, <1>4, <1>5 DEF Told

Replaced(t, e, q, u) ==
  IsSeq(u) /\ Len(u) = Len(t) /\ u[e] = q /\ \A j \in 1..Len(t) : j # e => u[j] = t[j]

LEMMA EntryChanged ==
  ASSUME NEW t, IsSeq(t), NEW e \in 1..Len(t), NEW q, NEW u, u = [t EXCEPT ![e] = q]
  PROVE  Replaced(t, e, q, u)
  <1>1. Len(t) \in Nat /\ t = [k \in 1..Len(t) |-> t[k]]
    BY DEF IsSeq
  <1>2. u = [k \in 1..Len(t) |-> u[k]]
    BY <1>1
  <1>3. u[e] = q /\ \A j \in 1..Len(t) : j # e => u[j] = t[j]
    BY <1>1
  <1> QED
    BY <1>1, <1>2, <1>3, MadeSeq DEF Replaced

\* The entry e of the table t becomes q.
LEMMA OptionKeeps ==
  ASSUME CInv, phase = "services", NEW s \in Services, NEW opt \in Options, NEW v,
         OneMore(said, said', s, opt, v), announced' = announced, phase' = phase,
         NEW t, NEW e, HoldsAt(t, e, s),
         NEW q, DOMAIN q = Fields, q.name = s, Told(said', q), Replaced(t, e, q, all_ps')
  PROVE  CInv'
  <1>   /\ IsSeq(all_ps') /\ Len(all_ps') = Len(t) /\ all_ps'[e] = q
        /\ \A j \in 1..Len(t) : j # e => all_ps'[j] = t[j]
    BY DEF Replaced
  <1>   /\ e \in 1..Len(t) /\ t[e].name = s
        /\ \A j \in 1..Len(t) : DOMAIN t[j] = Fields /\ t[j].name \in Services /\ Told(said, t[j])
        /\ \A i, j \in 1..Len(t) : t[i].name = t[j].name => i = j
        /\ \A r : Known(r) => \E j \in 1..Len(t) : t[j].name = r
    BY DEF HoldsAt
  <1>1. \A j \in 1..Len(t) : all_ps'[j].name = t[j].name /\ DOMAIN all_ps'[j] = Fields
    OBVIOUS
  <1>2. TableInv'
    <2>1. \A k \in 1..Len(all_ps') : DOMAIN all_ps'[k] = Fields /\ all_ps'[k].name \in Services
      BY <1>1
    <2>2. \A j, k \in 1..Len(all_ps') : all_ps'[j].name = all_ps'[k].name => j = k
      BY <1>1
    <2> QED
      BY <2>1, <2>2 DEF TableInv
  <1>3. Known(s)' /\ \A r \in Services : Known(r) => Known(r)'
    <2>1. \A r : Known(r)' <=> \E j \in 1..Len(t) : t[j].name = r
      BY <1>1 DEF Known
    <2> QED
      BY <2>1
  <1>4. SaidInv'
    BY <1>3, SaidKeeps DEF CInv
  <1>5. ASSUME NEW j \in 1..Len(t), j # e PROVE Told(said', t[j])
    <2>1. t[j].name # s /\ t[j].name \in Services /\ Told(said, t[j])
      BY <1>5
    <2>2. said'[t[j].name] = said[t[j].name]
      BY <2>1 DEF OneMore
    <2> QED
      BY <2>1, <2>2 DEF Told, OrderOf, PortOf, AsGiven
  <1>6. \A k \in 1..Len(all_ps') : Told(said', all_ps'[k])
    BY <1>5
  <1> QED
    BY <1>2, <1>4, <1>6, LineStep

LEMMA proxy_service_handlerKeeps ==
  ASSUME CInv, NEW s \in Services, NEW opt, NEW v, v # NULL, proxy_service_handler(s, opt, v)
  PROVE  CInv'
  <1> DEFINE bad == opt = "type" /\ v \notin valid_types
             t == Table(s)
             e == Entry(s)
             q == Defaults([t[e] EXCEPT ![opt] = v], opt)
  <1>1. /\ phase = "services" /\ announced' = announced
        /\ phase' = IF bad THEN "exited" ELSE phase
        /\ all_ps' = IF opt \in Options /\ ~ bad THEN [t EXCEPT ![e] = q] ELSE t
        /\ said' = IF opt \in Options THEN [said EXCEPT ![s][opt] = Append(@, v)] ELSE said
    BY DEF proxy_service_handler, Entry
  <1>2. HoldsAt(t, e, s)
    BY <1>1, TableFacts
  <1>3. bad => opt \in Options
    BY DEF Options
  <1>4. t = Table(s)
    OBVIOUS
  <1>5. q = Defaults([t[e] EXCEPT ![opt] = v], opt)
    OBVIOUS
  <1> HIDE DEF t, e, q, bad
  <1>6. CASE opt \notin Options \/ bad
    <2>1. all_ps' = t
      BY <1>1, <1>6
    <2>2. \/ said' = said /\ phase' = phase
          \/ opt \in Options /\ said' = [said EXCEPT ![s][opt] = Append(@, v)] /\ phase' = "exited"
      BY <1>1, <1>3, <1>6
    <2> QED
      BY <1>1, <1>4, <2>1, <2>2, ServiceOnlyKeeps
  <1>7. CASE opt \in Options /\ ~ bad
    <2>1. said' = [said EXCEPT ![s][opt] = Append(@, v)] /\ all_ps' = [t EXCEPT ![e] = q] /\ phase' = phase
      BY <1>1, <1>7
    <2>2. opt \in Options
      BY <1>7
    <2>3. Values(said)
      BY DEF CInv, SaidInv
    <2>4. OneMore(said, said', s, opt, v)
      BY <2>1, <2>2, <2>3, SaidMore
    <2>5. DOMAIN q = Fields /\ q.name = s /\ Told(said', q)
      BY <1>2, <1>5, <2>2, <2>3, <2>4, LineOrder DEF HoldsAt
    <2>6. Replaced(t, e, q, all_ps')
      BY <1>2, <2>1, EntryChanged DEF HoldsAt
    <2> QED
      BY <1>1, <1>2, <2>1, <2>2, <2>4, <2>5, <2>6, OptionKeeps
  <1> QED
    BY <1>6, <1>7

LEMMA TypedFacts ==
  ASSUME NEW ps, DOMAIN ps = Fields, NEW q, q = Typed(ps)
  PROVE  /\ DOMAIN q = Fields /\ \A o \in Fields : o # "type" => q[o] = ps[o]
         /\ q.name = ps.name
         /\ q.type = ps.type \/ (ps.type = NULL /\ q.type = "tcp")
  BY DEF Typed, Fields, Options

LEMMA TypedOrder ==
  ASSUME NEW f, NEW ps, DOMAIN ps = Fields, OrderOf(f, ps), NEW q, q = Typed(ps)
  PROVE  TypedOf(f, q)
  <1>1. /\ \A o \in Fields : o # "type" => q[o] = ps[o]
        /\ q.name = ps.name
        /\ q.type = ps.type \/ (ps.type = NULL /\ q.type = "tcp")
    BY TypedFacts
  <1>2. AsGiven(f, ps) => AsGiven(f, q)
    <2>1. /\ \A o \in {"local_ip", "custom_domains", "subdomain", "locations", "http_user"} : q[o] = ps[o]
          /\ q.group = ps.group /\ q.remote_port = ps.remote_port /\ q.local_port = ps.local_port
      BY <1>1 DEF Fields, Options
    <2> QED
      BY <1>1, <2>1 DEF AsGiven
  <1> QED
    BY <1>1, <1>2 DEF OrderOf, TypedOf

\* A step that changes the services in place and keeps their names.
LEMMA InPlace ==
  ASSUME TableInv, SaidInv, said' = said, all_ps' = [k \in 1..Len(all_ps) |-> all_ps'[k]],
         \A k \in 1..Len(all_ps) : DOMAIN all_ps'[k] = Fields /\ all_ps'[k].name = all_ps[k].name
  PROVE  TableInv' /\ SaidInv' /\ Len(all_ps') = Len(all_ps)
  <1>1. Len(all_ps) \in Nat
    BY DEF TableInv, IsSeq
  <1>2. Len(all_ps') = Len(all_ps) /\ IsSeq(all_ps')
    BY <1>1, MadeSeq
  <1>3. TableInv'
    BY <1>2 DEF TableInv
  <1>4. \A r : Known(r)' <=> Known(r)
    BY <1>2 DEF Known
  <1>5. SaidInv'
    BY <1>4 DEF SaidInv
  <1> QED
    BY <1>2, <1>3, <1>5

LEMMA dump_all_psKeeps ==
  ASSUME CInv, dump_all_ps
  PROVE  CInv'
  <1>1. /\ phase = "services" /\ said' = said /\ announced' = announced
        /\ all_ps' = [k \in 1..Len(all_ps) |-> Typed(all_ps[k])]
    BY DEF dump_all_ps
  <1>2. \A k \in 1..Len(all_ps) : all_ps'[k] = Typed(all_ps[k])
    BY <1>1
  <1>3. \A k \in 1..Len(all_ps) : DOMAIN all_ps[k] = Fields /\ OrderOf(said, all_ps[k])
    BY <1>1 DEF CInv, TableInv, OrderInv
  <1>4. \A k \in 1..Len(all_ps) : DOMAIN all_ps'[k] = Fields /\ all_ps'[k].name = all_ps[k].name
    BY <1>2, <1>3, TypedFacts
  <1>5. TableInv' /\ SaidInv' /\ Len(all_ps') = Len(all_ps)
    BY <1>1, <1>4, InPlace DEF CInv
  <1>6. phase' = IF \A k \in 1..Len(all_ps') : validate_proxy(all_ps'[k]) THEN "running" ELSE "exited"
    <2>1. phase' = IF \A k \in 1..Len([i \in 1..Len(all_ps) |-> Typed(all_ps[i])]) :
                         validate_proxy([i \in 1..Len(all_ps) |-> Typed(all_ps[i])][k])
                   THEN "running" ELSE "exited"
      BY DEF dump_all_ps
    <2> QED
      BY <1>1, <2>1
  <1>7. announced' = <<>>
    BY <1>1 DEF CInv, PhaseInv
  <1>8. PhaseInv' /\ OrderInv' /\ ValidInv'
    BY <1>6, <1>7 DEF PhaseInv, OrderInv, ValidInv
  <1>9. TypedInv'
    <2>1. \A k \in 1..Len(all_ps) : TypedOf(said, all_ps'[k])
      BY <1>2, <1>3, TypedOrder
    <2> QED
      BY <1>1, <1>5, <2>1 DEF TypedInv
  <1>10. AnnInv'
    BY <1>7, EmptySeq DEF AnnInv
  <1>11. PortInv'
    <2>1. \A k \in 1..Len(all_ps) : all_ps'[k].local_port = all_ps[k].local_port
      <3>1. "local_port" \in Fields
        BY DEF Fields, Options
      <3> QED
        BY <1>2, <1>3, <3>1, TypedFacts
    <2>2. \A k \in 1..Len(all_ps) : PortOf(said, all_ps[k])
      BY <1>1 DEF CInv, PortInv
    <2>3. \A k \in 1..Len(all_ps) : PortOf(said, all_ps'[k])
      BY <1>4, <2>1, <2>2 DEF PortOf
    <2> QED
      BY <1>1, <1>5, <2>3 DEF PortInv
  <1> QED
    BY <1>5, <1>8, <1>9, <1>10, <1>11 DEF CInv

LEMMA CutFacts ==
  ASSUME NEW ps, DOMAIN ps = Fields, NEW q, q = Cut(ps)
  PROVE  /\ DOMAIN q = Fields /\ \A o \in Fields : o # "locations" => q[o] = ps[o]
         /\ q.name = ps.name /\ q.type = ps.type
  BY DEF Cut, Fields, Options

\* A service is as valid with its locations cut, and its message is the same but
\* for them.
LEMMA SameButLocations ==
  ASSUME NEW ps, NEW q, \A o \in Fields : o # "locations" => q[o] = ps[o]
  PROVE  /\ validate_proxy(q) = validate_proxy(ps)
         /\ But(Marshal(q)) = But(Marshal(ps))
         /\ Marshal(q).name = q.name
  <1>1. /\ q.name = ps.name /\ q.type = ps.type /\ q.local_ip = ps.local_ip
        /\ q.local_port = ps.local_port /\ q.remote_port = ps.remote_port
        /\ q.custom_domains = ps.custom_domains /\ q.subdomain = ps.subdomain
        /\ q.group = ps.group /\ q.http_user = ps.http_user
    BY DEF Fields, Options
  <1>2. validate_proxy(q) = validate_proxy(ps)
    BY <1>1 DEF validate_proxy
  <1>3. But(Marshal(q)) = But(Marshal(ps))
    BY <1>1 DEF But, Marshal
  <1> QED
    BY <1>2, <1>3 DEF Marshal

LEMMA start_proxy_servicesKeeps ==
  ASSUME CInv, start_proxy_services
  PROVE  CInv'
  <1> DEFINE row == [k \in 1..Len(all_ps) |-> Announcement(all_ps[k])]
             n == Len(announced)
  <1>1. /\ phase = "running" /\ phase' = phase /\ said' = said
        /\ announced' = Append(announced, row)
        /\ all_ps' = [k \in 1..Len(all_ps) |->
                        IF all_ps[k].type = "mstsc" THEN all_ps[k] ELSE Cut(all_ps[k])]
    BY DEF start_proxy_services
  <1>2. Len(all_ps) \in Nat /\ \A k \in 1..Len(all_ps) : DOMAIN all_ps[k] = Fields
    BY DEF CInv, TableInv, IsSeq
  <1>3. \A k \in 1..Len(all_ps) : all_ps'[k] = all_ps[k] \/ all_ps'[k] = Cut(all_ps[k])
    BY <1>1
  <1>4. \A k \in 1..Len(all_ps) :
          /\ DOMAIN all_ps'[k] = Fields /\ \A o \in Fields : o # "locations" => all_ps'[k][o] = all_ps[k][o]
          /\ all_ps'[k].name = all_ps[k].name /\ all_ps'[k].type = all_ps[k].type
    BY <1>2, <1>3, CutFacts
  <1>5. TableInv' /\ SaidInv' /\ Len(all_ps') = Len(all_ps)
    BY <1>1, <1>4, InPlace DEF CInv
  <1>6. \A k \in 1..Len(all_ps) :
          /\ validate_proxy(all_ps'[k]) = validate_proxy(all_ps[k])
          /\ But(Marshal(all_ps'[k])) = But(Marshal(all_ps[k]))
    BY <1>4, SameButLocations
  <1>7. ValidInv'
    BY <1>1, <1>5, <1>6 DEF CInv, ValidInv
  <1>8. /\ IsSeq(announced') /\ Len(announced') = n + 1 /\ n \in Nat /\ announced'[n + 1] = row
        /\ \A c \in 1..n : announced'[c] = announced[c]
    BY <1>1, AppendSeq DEF CInv, AnnInv
  <1>9. Len(row) = Len(all_ps) /\ \A k \in 1..Len(all_ps) : row[k] = Announcement(all_ps[k])
    BY <1>2, MadeSeq
  <1> HIDE DEF row, n
  <1>10. announced' # <<>>
    <2>1. Len(announced') # 0
      BY <1>8
    <2> QED
      BY <2>1, EmptySeq
  <1>11. PhaseInv' /\ OrderInv' /\ TypedInv'
    BY <1>1, <1>10 DEF PhaseInv, OrderInv, TypedInv
  <1>12. ASSUME NEW c \in 1..(n + 1)
         PROVE  /\ Len(announced'[c]) = Len(all_ps')
                /\ \A k \in 1..Len(all_ps') :
                     IF all_ps'[k].type = "mstsc" THEN announced'[c][k] = NULL
                     ELSE /\ announced'[c][k].name = all_ps'[k].name
                          /\ But(announced'[c][k]) = But(Marshal(all_ps'[k]))
    <2>1. CASE c = n + 1
      <3>1. announced'[c] = row
        BY <1>8, <2>1
      <3>2. \A k \in 1..Len(all_ps) : Marshal(all_ps[k]).name = all_ps[k].name
        BY DEF Marshal
      <3> QED
        BY <1>4, <1>5, <1>6, <1>9, <3>1, <3>2 DEF Announcement
    <2>2. CASE c \in 1..n
      <3>1. announced'[c] = announced[c]
        BY <1>8, <2>2
      <3>2. /\ Len(announced[c]) = Len(all_ps)
            /\ \A k \in 1..Len(all_ps) :
                 IF all_ps[k].type = "mstsc" THEN announced[c][k] = NULL
                 ELSE /\ announced[c][k].name = all_ps[k].name
                      /\ But(announced[c][k]) = But(Marshal(all_ps[k]))
        BY <2>2 DEF CInv, AnnInv, n
      <3> QED
        BY <1>4, <1>5, <1>6, <3>1, <3>2
    <2> QED
      BY <1>8, <2>1, <2>2
  <1>13. AnnInv'
    BY <1>8, <1>12 DEF AnnInv
  <1>14. PortInv'
    <2>1. \A k \in 1..Len(all_ps) : all_ps'[k].local_port = all_ps[k].local_port
      <3>1. "local_port" \in Fields
        BY DEF Fields, Options
      <3> QED
        BY <1>4, <3>1
    <2>2. \A k \in 1..Len(all_ps) : PortOf(said, all_ps[k])
      BY <1>1 DEF CInv, PortInv
    <2>3. \A k \in 1..Len(all_ps) : PortOf(said, all_ps'[k])
      BY <1>4, <2>1, <2>2 DEF PortOf
    <2> QED
      BY <1>1, <1>5, <2>3 DEF PortInv
  <1> QED
    BY <1>5, <1>7, <1>11, <1>13, <1>14 DEF CInv

LEMMA NextKeeps == CInv /\ [Next]_vars => CInv'
  <1> SUFFICES ASSUME CInv, [Next]_vars PROVE CInv'
    OBVIOUS
  <1>1. CASE \E l \in CommonLines : common_handler(l[1], l[2])
    BY <1>1, TableStays DEF common_handler
  <1>2. CASE CommonRead
    BY <1>2, TableStays DEF CommonRead
  <1>3. CASE \E s \in Services, l \in ServiceLines : proxy_service_handler(s, l[1], l[2])
    <2>1. PICK s \in Services, l \in ServiceLines : proxy_service_handler(s, l[1], l[2])
      BY <1>3
    <2>2. l[2] # NULL
      BY ConfigAssumption
    <2> QED
      BY <2>1, <2>2, proxy_service_handlerKeeps
  <1>4. CASE dump_all_ps
    BY <1>4, dump_all_psKeeps
  <1>5. CASE start_proxy_services
    BY <1>5, start_proxy_servicesKeeps
  <1>6. CASE UNCHANGED vars
    BY <1>6, TableStays DEF vars
  <1> QED
    BY <1>1, <1>2, <1>3, <1>4, <1>5, <1>6 DEF Next

-----------------------------------------------------------------------------
(* The theorems                                                              *)

\* The strengthening behind the properties of load_config and
\* start_proxy_services: services stored under names of their own with the last
\* values given (proxy_service_handler), valid once the client runs
\* (validate_proxy), and announced as they would be announced again.
THEOREM ConfigInvariance == Spec => []CInv
  <1>1. Init => CInv
    BY InitHolds
  <1>2. CInv /\ [Next]_vars => CInv'
    BY NextKeeps
  <1> QED
    BY <1>1, <1>2, PTL DEF Spec

LEMMA OrderFollows == CInv => OrderIndependent
  <1> SUFFICES ASSUME CInv, phase \in {"services", "running"}, announced = <<>>, NEW k \in 1..Len(all_ps),
                      Len(said[all_ps[k].name]["type"]) <= 1
               PROVE  LET ps == all_ps[k]
                          type == Last(ps.name, "type", NULL)
                          given(o, d) == Last(ps.name, o, d)
                          port(o, t, default) == said[ps.name][o] # <<>> =>
                            ps[o] = IF type = t /\ given(o, 0) = 0 THEN default ELSE given(o, 0)
                      IN /\ ps.type = type \/ (type = NULL /\ ps.type = "tcp" /\ phase = "running")
                         /\ \A o \in {"local_ip", "custom_domains", "subdomain", "locations", "http_user"} :
                              ps[o] = given(o, NULL)
                         /\ ps.group = given("group", IF type = "socks5" THEN "chatgptd" ELSE NULL)
                         /\ port("remote_port", "socks5", DEFAULT_SOCKS5_PORT)
                         /\ port("local_port", "mstsc", DEFAULT_MSTSC_PORT)
    BY DEF OrderIndependent
  <1>1. AsGiven(said, all_ps[k])
    BY DEF CInv, OrderInv, TypedInv, OrderOf, TypedOf
  <1>2. \/ all_ps[k].type = LastOf(said[all_ps[k].name]["type"], NULL)
        \/ LastOf(said[all_ps[k].name]["type"], NULL) = NULL /\ all_ps[k].type = "tcp" /\ phase = "running"
    BY DEF CInv, OrderInv, TypedInv, OrderOf, TypedOf
  <1>3. \A o : said[all_ps[k].name][o] # <<>> =>
                 LastOf(said[all_ps[k].name][o], -1) = LastOf(said[all_ps[k].name][o], 0)
    BY DEF LastOf
  <1> QED
    BY <1>1, <1>2, <1>3 DEF AsGiven, Last

\* The order of the lines of a service does not matter (proxy_service_handler):
\* with its type given once at most, every field the file gives is the last value
\* given, or for a port given as 0 the default of the type.
THEOREM AlwaysOrderIndependent == Spec => []OrderIndependent
  BY ConfigInvariance, OrderFollows, PTL

LEMMA TargetFollows == CInv => TunnelsHaveTarget
  <1> SUFFICES ASSUME CInv, NEW c \in 1..Len(announced), NEW k \in 1..Len(announced[c]), announced[c][k] # NULL,
                      NEW s, s = announced[c][k].name
               PROVE  /\ Known(s)
                      /\ all_ps[Index(s)].type # "socks5" =>
                           /\ all_ps[Index(s)].local_ip # NULL
                           /\ Last(s, "local_port", -1) # -1 => all_ps[Index(s)].local_port \notin {-1, 0}
    BY DEF TunnelsHaveTarget
  <1>1. /\ k \in 1..Len(all_ps)
        /\ all_ps[k].type # "mstsc" /\ s = all_ps[k].name
    BY DEF CInv, AnnInv
  <1>2. Known(s)
    BY <1>1 DEF Known
  <1>3. Index(s) = k
    <2>1. Index(s) \in 1..Len(all_ps) /\ all_ps[Index(s)].name = s
      BY <1>2 DEF Index, Known
    <2> QED
      BY <1>1, <2>1 DEF CInv, TableInv
  <1>4. phase = "running"
    <2>1. announced # <<>>
      BY EmptySeq
    <2> QED
      BY <2>1 DEF CInv, PhaseInv
  <1>5. validate_proxy(all_ps[k])
    BY <1>1, <1>4 DEF CInv, ValidInv
  <1>6. all_ps[k].type # "socks5" => all_ps[k].local_ip # NULL /\ all_ps[k].local_port # 0
    BY <1>1, <1>5 DEF validate_proxy
  <1>7. Last(s, "local_port", -1) # -1 => all_ps[k].local_port # -1
    BY <1>1, <1>4 DEF CInv, PortInv, PortOf, Last
  <1> QED
    BY <1>2, <1>3, <1>6, <1>7

\* A service that was announced is found again by its name; it has an address
\* to connect to and, if its local_port is given, a port that is neither 0 nor
\* -1 (validate_proxy before start_proxy_services).
THEOREM TunnelsAlwaysHaveTarget == Spec => []TunnelsHaveTarget
  BY ConfigInvariance, TargetFollows, PTL

LEMMA ReannouncedFollows == CInv => Reannounced
  <1> SUFFICES ASSUME CInv, NEW c \in 1..Len(announced) PROVE
         /\ Len(announced[c]) = Len(all_ps)
         /\ \A k \in 1..Len(all_ps) :
              IF all_ps[k].type = "mstsc" THEN announced[c][k] = NULL
              ELSE /\ But(announced[c][k]) = But(announced[1][k])
                   /\ \A j \in 1..Len(all_ps) :
                        announced[c][j] # NULL /\ announced[c][j].name = announced[c][k].name => j = k
    BY DEF Reannounced, But
  <1>1. Len(announced) \in Nat
    BY DEF CInv, AnnInv, IsSeq
  <1>2. 1 \in 1..Len(announced)
    BY <1>1
  <1>3. \A d \in 1..Len(announced) :
          /\ Len(announced[d]) = Len(all_ps)
          /\ \A k \in 1..Len(all_ps) :
               IF all_ps[k].type = "mstsc" THEN announced[d][k] = NULL
               ELSE announced[d][k].name = all_ps[k].name /\ But(announced[d][k]) = But(Marshal(all_ps[k]))
    BY DEF CInv, AnnInv
  <1>4. \A j, k \in 1..Len(all_ps) : all_ps[j].name = all_ps[k].name => j = k
    BY DEF CInv, TableInv
  <1> QED
    BY <1>2, <1>3, <1>4

\* Every connection announces the same services, each as before but for the
\* locations that strtok_r cuts (start_proxy_services after a reconnection).
THEOREM AlwaysReannounced == Spec => []Reannounced
  BY ConfigInvariance, ReannouncedFollows, PTL
=============================================================================
