------------------------------ MODULE TcpRedir ------------------------------
(* The worker thread of one mstsc service (tcp_redir.c): a listener on the   *)
(* local port and ONE bufferevent to the remote port, bev_xfrps, made before *)
(* any user has connected. accept_cb pairs every accepted connection with it *)
(* by the arguments of their callbacks; read_cb moves what one side has read *)
(* to the output of its partner, event_cb frees both.                        *)
(*                                                                           *)
(* A byte is the user who sent it and its position. The service behind the   *)
(* remote port (external) echoes what it gets, so that a reply tells whose   *)
(* it is.                                                                    *)
EXTENDS Naturals, Sequences

CONSTANTS
  Users,       \* connections to the local port, each made once
  NoUser,
  MaxBytes     \* bound: bytes a user sends

ASSUME RedirAssumption == NoUser \notin Users /\ MaxBytes \in Nat

VARIABLES
  xfrps,       \* bev_xfrps: "connecting", "open" or "freed"
  partner,     \* argument of its callbacks: the bev_in of this user
  bev_in,      \* per user: "none", "open" or "freed"
  input,       \* per user: read from the user, read_cb has not run
  output,      \* per user: waits to be written to the user
  xinput, xoutput,   \* the same of bev_xfrps
  server,      \* bytes the remote port has got
  echoed,      \* how many of them it has answered
  got,         \* per user: replies received
  sent,        \* per user: bytes sent
  ended,       \* connections the other end has closed or broken
  pc           \* "run" or "use after free"

xfrpsVars == <<xfrps, partner, xinput, xoutput>>
userVars == <<bev_in, input, output>>
ends == <<server, echoed, got, sent, ended>>
vars == <<xfrpsVars, userVars, ends, pc>>

\* tcp_redir_worker has made bev_xfrps, started to connect it and listens.
Init == /\ xfrps = "connecting" /\ partner = NoUser
        /\ bev_in = [u \in Users |-> "none"]
        /\ input = [u \in Users |-> <<>>] /\ output = [u \in Users |-> <<>>]
        /\ xinput = <<>> /\ xoutput = <<>>
        /\ server = <<>> /\ echoed = 0
        /\ got = [u \in Users |-> <<>>] /\ sent = [u \in Users |-> 0]
        /\ ended = {}
        /\ pc = "run"

\* A callback that uses a freed bufferevent is the last step of a behaviour.
AfterUse(bev) == IF bev = "freed" THEN "use after free" ELSE pc

-----------------------------------------------------------------------------
(* The callbacks                                                             *)

accept_cb(u) ==
  /\ pc = "run" /\ bev_in[u] = "none"
  /\ bev_in' = [bev_in EXCEPT ![u] = "open"]
  /\ partner' = u
  /\ pc' = AfterUse(xfrps)
  /\ UNCHANGED <<xfrps, xinput, xoutput, input, output, ends>>

\* evbuffer_add_buffer. Mutants: in front of what waits, copied, or dropped.
AddBefore(out, in) == in \o out
AddNothing(out, in) == out
AddBuffer(out, in) == out \o in
CopyInput(in) == in
EmptyInput(in) == <<>>

\* read_cb of a user's bufferevent: its partner is always bev_xfrps.
ReadUser(u) ==
  /\ pc = "run" /\ bev_in[u] = "open" /\ input[u] # <<>>
  /\ xoutput' = AddBuffer(xoutput, input[u])
  /\ input' = [input EXCEPT ![u] = EmptyInput(@)]
  /\ pc' = AfterUse(xfrps)
  /\ UNCHANGED <<xfrps, partner, xinput, bev_in, output, ends>>

\* read_cb of bev_xfrps: its partner is the user accepted last.
ReadXfrps ==
  /\ pc = "run" /\ xfrps = "open" /\ xinput # <<>> /\ partner # NoUser
  /\ output' = [output EXCEPT ![partner] = AddBuffer(@, xinput)]
  /\ xinput' = EmptyInput(xinput)
  /\ pc' = AfterUse(bev_in[partner])
  /\ UNCHANGED <<xfrps, partner, xoutput, bev_in, input, ends>>

\* event_cb frees the bufferevent and its partner, with what they hold.
\* Mutant: only the bufferevent.
FreeUserOnly(u) == bev_in' = [bev_in EXCEPT ![u] = "freed"] /\ UNCHANGED xfrps
FreePair(u) == bev_in' = [bev_in EXCEPT ![u] = "freed"] /\ xfrps' = "freed"

\* libevent runs the read callback before it reports the end.
EventUser(u) ==
  /\ pc = "run" /\ bev_in[u] = "open" /\ u \in ended /\ input[u] = <<>>
  /\ FreePair(u)
  /\ pc' = AfterUse(xfrps)
  /\ UNCHANGED <<partner, xinput, xoutput, input, output, ends>>

\* bev_xfrps has callbacks once a user was accepted.
EventXfrps ==
  /\ pc = "run" /\ xfrps # "freed" /\ NoUser \in ended /\ xinput = <<>> /\ partner # NoUser
  /\ FreePair(partner)
  /\ pc' = AfterUse(bev_in[partner])
  /\ UNCHANGED <<partner, xinput, xoutput, input, output, ends>>

-----------------------------------------------------------------------------
(* libevent and the network (external); NoUser stands for the remote port    *)

Connected == /\ pc = "run" /\ xfrps = "connecting" /\ NoUser \notin ended
             /\ xfrps' = "open"
             /\ UNCHANGED <<partner, xinput, xoutput, userVars, ends, pc>>

WriteXfrps == /\ pc = "run" /\ xfrps = "open" /\ xoutput # <<>> /\ NoUser \notin ended
              /\ server' = Append(server, Head(xoutput)) /\ xoutput' = Tail(xoutput)
              /\ UNCHANGED <<xfrps, partner, xinput, userVars, echoed, got, sent, ended, pc>>

WriteUser(u) == /\ pc = "run" /\ bev_in[u] = "open" /\ output[u] # <<>>
                /\ got' = [got EXCEPT ![u] = Append(@, Head(output[u]))]
                /\ output' = [output EXCEPT ![u] = Tail(@)]
                /\ UNCHANGED <<xfrpsVars, bev_in, input, server, echoed, sent, ended, pc>>

UserSend(u) == /\ pc = "run" /\ bev_in[u] = "open" /\ u \notin ended /\ sent[u] < MaxBytes
               /\ sent' = [sent EXCEPT ![u] = @ + 1]
               /\ input' = [input EXCEPT ![u] = Append(@, [user |-> u, pos |-> sent[u] + 1])]
               /\ UNCHANGED <<xfrpsVars, bev_in, output, server, echoed, got, ended, pc>>

Echo == /\ pc = "run" /\ xfrps = "open" /\ NoUser \notin ended /\ echoed < Len(server)
        /\ xinput' = Append(xinput, server[echoed + 1])
        /\ echoed' = echoed + 1
        /\ UNCHANGED <<xfrps, partner, xoutput, userVars, server, got, sent, ended, pc>>

\* A peer closes, or its connection breaks or is refused.
End(p) == /\ pc = "run" /\ p \notin ended
          /\ p # NoUser => bev_in[p] = "open"
          /\ ended' = ended \cup {p}
          /\ UNCHANGED <<xfrpsVars, userVars, server, echoed, got, sent, pc>>

-----------------------------------------------------------------------------

Loop == \/ \E u \in Users : ReadUser(u) \/ EventUser(u) \/ WriteUser(u)
        \/ ReadXfrps \/ EventXfrps \/ WriteXfrps

Next == \/ \E u \in Users : accept_cb(u) \/ UserSend(u) \/ End(u)
        \/ Loop \/ Connected \/ Echo \/ End(NoUser)

Spec == Init /\ [][Next]_vars

\* The loop of the worker runs what is ready, and a connection to the remote
\* port that is not refused is made.
FairSpec == /\ Spec /\ WF_vars(Connected)
            /\ \A u \in Users : WF_vars(ReadUser(u)) /\ WF_vars(WriteUser(u))
            /\ WF_vars(ReadXfrps) /\ WF_vars(WriteXfrps)

-----------------------------------------------------------------------------
(* Properties                                                                *)

Of(u, s) == SelectSeq(s, LAMBDA b : b.user = u)
Accepted == {u \in Users : bev_in[u] # "none"}

\* Whatever the order of accepts and ends, read_cb and event_cb of bev_xfrps
\* never meet a freed user: event_cb of any user has freed bev_xfrps as well.
PartnerLives == xfrps # "freed" /\ partner # NoUser => bev_in[partner] = "open"

\* The bytes of every user reach the output of bev_xfrps, and the remote port,
\* in order and once, also when users share it; the rest wait for read_cb.
Upstream == server \o xoutput
Moved(u) == sent[u] - Len(input[u])

UpstreamInOrder ==
  \A u \in Users :
    /\ Len(input[u]) <= sent[u]
    /\ \A k \in 1..Len(input[u]) : input[u][k] = [user |-> u, pos |-> Moved(u) + k]
    /\ \A k \in 1..Moved(u) : \E i \in 1..Len(Upstream) : Upstream[i] = [user |-> u, pos |-> k]
    /\ \A i \in 1..Len(Upstream) : Upstream[i].user = u =>
         /\ Upstream[i].pos \in 1..Moved(u)
         /\ \A j \in 1..Len(Upstream) : i < j /\ Upstream[j].user = u => Upstream[i].pos < Upstream[j].pos

\* A single user gets exactly the replies, in order, and no callback meets a
\* freed bufferevent until somebody else connects.
SoleUserExact ==
  \A u \in Users : Accepted = {u} =>
    /\ pc = "run"
    /\ got[u] \o output[u] \o xinput = SubSeq(server, 1, echoed)

\* What the only user sends arrives at the remote port, unless a side ends.
SoleUserServed ==
  \A u \in Users : \A n \in 1..MaxBytes :
    (sent[u] = n) ~> (Len(Of(u, server)) >= n \/ ended # {} \/ Accepted # {u})
=============================================================================
