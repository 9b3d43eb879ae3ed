------------------------------- MODULE Config -------------------------------
(* load_config (config.c) over a file ini_parse has cut into lines, and what *)
(* start_proxy_services announces of the services afterwards (msg.c), once   *)
(* per connection. The file is read twice, for [common] and for the          *)
(* services, whose lines do not touch each other: it is a sequence of lines  *)
(* of the first kind and one of the second, chosen one at a time.            *)
(*                                                                           *)
(* A list of names is a sequence. http_user stands for every option that is  *)
(* stored and announced as it is (http_pwd, host_header_rewrite, group_key,  *)
(* use_encryption, use_compression).                                         *)
EXTENDS Integers, Sequences

CONSTANTS
  Services,        \* names of sections
  CommonLines,     \* lines of [common]: pairs of an option and a value
  ServiceLines,    \* lines of a service
  NULL,
  MaxLines,        \* bound: lines of services
  MaxConns         \* bound: connections to frps

DEFAULT_SOCKS5_PORT == 1980
DEFAULT_MSTSC_PORT == 3389
valid_types == {"tcp", "mstsc", "socks5", "http", "https"}

\* The value of a line is a string or what atoi makes of it.
ASSUME ConfigAssumption == NULL \notin valid_types /\ \A l \in ServiceLines : l[2] # NULL

VARIABLES
  phase,        \* "common", "services", "running" or "exited"
  c_conf,       \* heartbeat_interval, heartbeat_timeout, tcp_mux
  all_ps,       \* the services, in the order of their first lines
  lines,        \* lines of services read
  said,         \* history: per service and option, the values given, in order
  announced     \* history: per connection and service, the NewProxy message

vars == <<phase, c_conf, all_ps, lines, said, announced>>

Options == {"type", "local_ip", "local_port", "remote_port", "custom_domains", "subdomain",
            "locations", "group", "http_user"}

-----------------------------------------------------------------------------
(* [common]                                                                  *)

init_common_conf == [heartbeat_interval |-> 30, heartbeat_timeout |-> 90, tcp_mux |-> 1]

Init == /\ phase = "common" /\ c_conf = init_common_conf
        /\ all_ps = <<>> /\ lines = 0
        /\ said = [s \in Services |-> [o \in Options |-> <<>>]]
        /\ announced = <<>>

\* !! of what atoi returns
Truth(v) == IF v = 0 THEN 0 ELSE 1

common_handler(opt, v) ==
  /\ phase = "common"
  /\ c_conf' = [c_conf EXCEPT ![opt] = IF opt = "tcp_mux" THEN Truth(v) ELSE v]
  /\ UNCHANGED <<phase, all_ps, lines, said, announced>>

HeartbeatValid == /\ c_conf.heartbeat_interval > 0
                  /\ c_conf.heartbeat_timeout >= c_conf.heartbeat_interval

CommonRead == /\ phase = "common"
              /\ phase' = IF HeartbeatValid THEN "services" ELSE "exited"
              /\ UNCHANGED <<c_conf, all_ps, lines, said, announced>>

-----------------------------------------------------------------------------
(* Services                                                                  *)

new_proxy_service(s) ==
  [name |-> s, type |-> NULL, local_ip |-> NULL, local_port |-> -1, remote_port |-> -1,
   custom_domains |-> NULL, subdomain |-> NULL, locations |-> NULL, group |-> NULL,
   http_user |-> NULL]

Known(s) == \E k \in 1..Len(all_ps) : all_ps[k].name = s
Index(s) == CHOOSE k \in 1..Len(all_ps) : all_ps[k].name = s

\* HASH_FIND_STR, and HASH_ADD_KEYPTR of a new service.
Table(s) == IF Known(s) THEN all_ps ELSE Append(all_ps, new_proxy_service(s))

\* What every line of a service ends with. Mutant: only the line that gives
\* the type.
DefaultsOfType(ps, opt) ==
  IF opt # "type" THEN ps ELSE
  [ps EXCEPT !.remote_port = IF ps.type = "socks5" /\ @ = 0 THEN DEFAULT_SOCKS5_PORT ELSE @,
             !.group = IF ps.type = "socks5" /\ @ = NULL THEN "chatgptd" ELSE @,
             !.local_port = IF ps.type = "mstsc" /\ @ = 0 THEN DEFAULT_MSTSC_PORT ELSE @]
Defaults(ps, opt) ==
  [ps EXCEPT !.remote_port = IF ps.type = "socks5" /\ @ = 0 THEN DEFAULT_SOCKS5_PORT ELSE @,
             !.group = IF ps.type = "socks5" /\ @ = NULL THEN "chatgptd" ELSE @,
             !.local_port = IF ps.type = "mstsc" /\ @ = 0 THEN DEFAULT_MSTSC_PORT ELSE @]

\* A type that is not supported ends the process; an option that is not known
\* leaves a service with its defaults behind and is passed over.
proxy_service_handler(s, opt, v) ==
  LET t == Table(s)
      k == IF Known(s) THEN Index(s) ELSE Len(t)
      known == opt \in Options
      bad == opt = "type" /\ v \notin valid_types
  IN
  /\ phase = "services" /\ lines < MaxLines
  /\ phase' = IF bad THEN "exited" ELSE phase
  /\ all_ps' = IF known /\ ~ bad THEN [t EXCEPT ![k] = Defaults([@ EXCEPT ![opt] = v], opt)] ELSE t
  /\ said' = IF known THEN [said EXCEPT ![s][opt] = Append(@, v)] ELSE said
  /\ lines' = lines + 1
  /\ UNCHANGED <<c_conf, announced>>

\* Ports are compared with 0, which they are only if the file says so.
\* Mutant: an address is not asked for.
ValidPorts(ps) == CASE ps.type = "socks5" -> ps.remote_port # 0
                    [] ps.type \in {"mstsc", "tcp"} -> ps.remote_port # 0 /\ ps.local_port # 0
                    [] OTHER -> /\ ps.local_port # 0
                                /\ (ps.custom_domains = NULL) # (ps.subdomain = NULL)
validate_proxy(ps) ==
  CASE ps.type = "socks5" -> ps.remote_port # 0
    [] ps.type = "mstsc" -> ps.remote_port # 0 /\ ps.local_port # 0
    [] ps.type = "tcp" -> ps.remote_port # 0 /\ ps.local_port # 0 /\ ps.local_ip # NULL
    [] OTHER -> /\ ps.local_port # 0 /\ ps.local_ip # NULL
                /\ (ps.custom_domains = NULL) # (ps.subdomain = NULL)

\* dump_proxy_service: a service without a type is of type tcp.
Typed(ps) == IF ps.type = NULL THEN [ps EXCEPT !.type = "tcp"] ELSE ps

\* dump_all_ps: the first service that is not valid ends the process.
dump_all_ps == LET t == [k \in 1..Len(all_ps) |-> Typed(all_ps[k])] IN
  /\ phase = "services"
  /\ all_ps' = t
  /\ phase' = IF \A k \in 1..Len(t) : validate_proxy(t[k]) THEN "running" ELSE "exited"
  /\ UNCHANGED <<c_conf, lines, said, announced>>

-----------------------------------------------------------------------------
(* Announcing the services                                                   *)

\* new_proxy_service_marshal: the message. A port that was never given is null,
\* and so is that of a service with domains.
Marshal(ps) ==
  [name |-> ps.name,
   type |-> IF ps.type \in {"socks5", "mstsc"} THEN "tcp" ELSE ps.type,
   group |-> IF ps.type = "mstsc" THEN NULL ELSE ps.group,
   custom_domains |-> ps.custom_domains,
   remote_port |-> IF ps.custom_domains # NULL \/ ps.remote_port = -1 THEN NULL
                   ELSE ps.remote_port,
   subdomain |-> ps.subdomain, locations |-> ps.locations, http_user |-> ps.http_user]

\* strtok_r has put an end behind the first of the locations;
\* fill_custom_domains works on a copy. Mutant: it does not.
CutDomains(ps) == [ps EXCEPT !.custom_domains = IF @ = NULL THEN @ ELSE SubSeq(@, 1, 1)]
Cut(ps) == [ps EXCEPT !.locations = IF @ = NULL THEN @ ELSE SubSeq(@, 1, 1)]

\* start_proxy_services skips mstsc: nothing is sent.
Announcement(ps) == IF ps.type = "mstsc" THEN NULL ELSE Marshal(ps)

start_proxy_services ==
  /\ phase = "running" /\ Len(announced) < MaxConns
  /\ announced' = Append(announced, [k \in 1..Len(all_ps) |-> Announcement(all_ps[k])])
  /\ all_ps' = [k \in 1..Len(all_ps) |->
                  IF all_ps[k].type = "mstsc" THEN all_ps[k] ELSE Cut(all_ps[k])]
  /\ UNCHANGED <<phase, c_conf, lines, said>>

-----------------------------------------------------------------------------

Next == \/ \E l \in CommonLines : common_handler(l[1], l[2])
        \/ CommonRead
        \/ \E s \in Services, l \in ServiceLines : proxy_service_handler(s, l[1], l[2])
        \/ dump_all_ps
        \/ start_proxy_services

Spec == Init /\ [][Next]_vars

-----------------------------------------------------------------------------
(* Properties                                                                *)

LastOf(f, default) == IF f = <<>> THEN default ELSE f[Len(f)]
Last(s, o, default) == LastOf(said[s][o], default)

\* The order of the lines of a service does not matter: if its type is given
\* once at most, every field the file gives has the last value given for it, a
\* port given as 0 has the default of the type, and what is not given is null,
\* but for the group of socks5. What a port is that is not given at all is the
\* subject of PortsFound.
OrderIndependent ==
  phase \in {"services", "running"} /\ announced = <<>> =>
    \A k \in 1..Len(all_ps) :
      LET ps == all_ps[k]
          type == Last(ps.name, "type", NULL)
          given(o, d) == Last(ps.name, o, d)
          port(o, t, default) == said[ps.name][o] # <<>> =>
            ps[o] = IF type = t /\ given(o, 0) = 0 THEN default ELSE given(o, 0)
      IN Len(said[ps.name]["type"]) <= 1 =>
           /\ ps.type = type \/ (type = NULL /\ ps.type = "tcp" /\ phase = "running")
           /\ \A o \in {"local_ip", "custom_domains", "subdomain", "locations", "http_user"} :
                ps[o] = given(o, NULL)
           /\ ps.group = given("group", IF type = "socks5" THEN "chatgptd" ELSE NULL)
           /\ port("remote_port", "socks5", DEFAULT_SOCKS5_PORT)
           /\ port("local_port", "mstsc", DEFAULT_MSTSC_PORT)

\* Whatever service frps names in a StartWorkConn, get_proxy_service finds it,
\* and if the file gives its local_port, start_xfrp_tunnel has somewhere to
\* connect to: an address, and a port that is neither 0 nor the -1 of a new
\* service (a socks5 service has no target of its own). A port that is not given
\* is the subject of PortsFound.
TunnelsHaveTarget ==
  \A c \in 1..Len(announced) : \A k \in 1..Len(announced[c]) :
    LET s == announced[c][k].name IN
    announced[c][k] # NULL =>
      /\ Known(s)
      /\ all_ps[Index(s)].type # "socks5" =>
           /\ all_ps[Index(s)].local_ip # NULL
           /\ Last(s, "local_port", -1) # -1 => all_ps[Index(s)].local_port \notin {-1, 0}

\* Every connection announces the same services, each under a name of its own,
\* all but those of type mstsc, and each as it was announced before a
\* reconnection, but for its locations, which strtok_r has cut in the service
\* itself.
Reannounced ==
  \A c \in 1..Len(announced) :
    /\ Len(announced[c]) = Len(all_ps)
    /\ \A k \in 1..Len(all_ps) :
         IF all_ps[k].type = "mstsc" THEN announced[c][k] = NULL
         ELSE /\ [announced[c][k] EXCEPT !.locations = NULL] =
                   [announced[1][k] EXCEPT !.locations = NULL]
              /\ \A j \in 1..Len(all_ps) :
                   announced[c][j] # NULL /\ announced[c][j].name = announced[c][k].name => j = k

-----------------------------------------------------------------------------
(* A claim of the repository that the code does not keep.                    *)

\* The ports validate_proxy asks for.
Needs(type) == CASE type = "socks5" -> {"remote_port"}
                 [] type \in {"tcp", "mstsc"} -> {"remote_port", "local_port"}
                 [] OTHER -> {"local_port"}

\* A client that runs has every port its services need. config.c:338 and 345
\* say that the port of socks5 and of mstsc that "is not set" is set to 1980
\* or 3389, and validate_proxy refuses a service whose port is "not found"
\* (config.c:229, 234, 239, 244). Both look for 0, and a port that is not set
\* is -1.
PortsFound == phase = "running" =>
  \A k \in 1..Len(all_ps) : \A o \in Needs(all_ps[k].type) : all_ps[k][o] # -1
=============================================================================
