# A TLA+ model of xfrpc

xfrpc is a client for the frp reverse proxy. It keeps one connection to the
server (frps), logs in, registers the proxy services of its configuration, and
carries the bytes of remote users to local services and back, multiplexed over
that connection in the yamux protocol (`tcp_mux = 1`) or over one more
connection per user (`tcp_mux = 0`). It is a single-threaded libevent program
(but for the redirection workers): every callback runs to its end, so the
interleavings that matter are those of callbacks, of frames under way and of
what frps and the local services do meanwhile.

The program is the C files at the top of the repository. `thirdparty/`
(OpenSSL, libevent, json-c, zlib) and `uthash.h` are vendored libraries, nearly
all of the repository's lines, and environment here.

## Inventory

| Component | State | Operations | Hard part |
|---|---|---|---|
| ring buffer (`tcpmux.c`) | `cur`, `end`, `sz`, `data` | append, read, pop, write | loops that leave early, wrap-around |
| work stream (`tcpmux.c`, `client.c`, `proxy_tcp.c`) | `struct tmux_stream`, `struct proxy_client`, EV_READ of the local bufferevent | SYN, write, data, window update, close, flags, tunnel start | flow control, closing from both sides, lifetime of the client |
| frame reassembly (`control.c` `recv_cb`) | `cur_stream`, static `tmux_hdr`, `stream_len`, `abandon_stream` | header, payload, rest of a payload | frames cut anywhere, streams freed meanwhile, reconnection |
| control connection (`control.c`, `login.c`, `crypto.c`) | `main_ctl`, `is_login`, `client_connected`, `pong_time`, coders and contexts, `g_session_id`, `all_pc` | connect, login, IV, ReqWorkConn, NewProxyResp, Pong, heartbeat, clear and restart | what must not survive a reconnection, timeouts |
| SOCKS5 (`proxy_tcp.c`) | `client->state`, `remote_addr` | `handle_ss5`, connected event | partial requests, bytes that come before the target is connected |
| plain connections (`tcp_mux = 0`) | one `ctl_bev` per client, `data_tail`, `local_proxy_bev` | `client_start_event_cb`, `recv_cb`, `handle_login_response`, `tcp_proxy_s2c_cb`, `xfrp_worker_event_cb` | coalesced messages, connections that outlive the client they call back with |
| redirection (`tcp_redir.c`) | one bufferevent to the remote port, one per user, a thread | accept, read, event | users who share the remote end, ends freed in either order |
| FTP (`proxy_ftp.c`) | – | unreachable (`PREDICT_FALSE` is 0) | – |
| configuration (`config.c`, `ini.c`, `commandline.c`) | `c_conf`, `all_ps` | parse, default, validate, announce | order of lines, what announcing changes |
| messages, ciphers, zip, utilities | – | conversions | – |

How they interact: libevent calls `recv_cb` on the control bufferevent; it
reads frames and calls `handle_tcp_mux_stream`, which updates the stream and
calls `process_data` or `incr_send_window`. Payload of the control stream, and
of a work stream without a tunnel, goes to `handle_frps_msg`; payload of a
tunnel goes to the local bufferevent. The local bufferevent calls
`tcp_proxy_c2s_cb` and `xfrp_proxy_event_cb`, which write frames. A timer calls
`hb_sender_cb`. The loss of the connection, and a heartbeat timeout, call
`clear_main_control` and `run_control`.

## Modules

| Module | Models | Uses |
|---|---|---|
| `ByteQueue` | what a ring promises: a bounded FIFO of bytes | |
| `RingBuffer` | `struct ring_buffer`, one step per loop iteration | refines `ByteQueue` |
| `TmuxStream` | one work stream with its client, the local service and frps | rings as byte queues |
| `RecvFraming` | `recv_cb` with `tcp_mux` on | |
| `Control` | the control connection, with `tcp_mux` on | |
| `PlainControl` | the control connection and the work connections with `tcp_mux` off | |
| `Socks5` | `handle_ss5` and the connected event of one work stream of a socks5 service | rings as byte queues |
| `TcpRedir` | the worker of one mstsc service | |
| `Config` | `load_config` over the lines of a file, and what is announced of the services | |
| `RingBufferProofs`, `TmuxStreamProofs`, `RecvFramingProofs`, `ControlProofs`, `Socks5Proofs`, `TcpRedirProofs`, `PlainControlProofs`, `ConfigProofs` | theorems | the module of that name |
| `MC...` | the instances TLC checks; `MCTmuxStream` also holds the liveness properties of a stream and a claim of the repository about it | |

The modules are layers. `RingBuffer` justifies the byte queues of
`TmuxStream`; `RecvFraming` justifies the whole frames of `TmuxStream` and the
whole messages of `Control`; `TmuxStream` justifies that `Control` treats a
work stream as an id. Where a lower layer breaks its promise (the findings
below), the upper one says nothing about what follows.

**RingBuffer.** The variables `cur`, `end`, `sz`, `data` are the fields of the
struct; `op`, `src`, `len`, `i` are the call in progress. Each operation is a
`Start...` action (entry tests and clamping), a `...Byte` action (one iteration
with its early exit) and a `...Done` action (the loop ends and returns).
Several early exits are taken on `cur == end`, which means *full* in
`tx_ring_buffer_append` and `rx_ring_buffer_read` and *empty* in
`tx_ring_buffer_write`.

**TmuxStream.** `state`, `send_window`, `recv_window`, `tx_ring`, `rx_ring` are
the fields of the stream. `pc` says whether the proxy client is listed, freed,
or how the process ended; `bev` is `local_proxy_bev`. Actions: `Open`
(`new_client_connect`), `LocalRead` (`tcp_proxy_c2s_cb` with
`tmux_stream_write`), `LocalEvent` (`xfrp_proxy_event_cb` with
`tmux_stream_close`), `HandleWinUpdate` (`incr_send_window`), the
`HandleData...` actions (`tmux_stream_read`, `handle_tcp_mux_stream`,
`process_data`, `send_window_update`, `start_xfrp_tunnel`), `HandleAbandoned`,
`ConnectionCleared` (`clear_all_proxy_client`). `tmux_stream_write` keeps the
code's three branches, including the count of the second one, which is wrong
when the ring is not empty; `FramesHonest` shows that state is not reached.
The `Peer...` actions are frps: yamux accepts or resets, credits what it has
read when that is half a window, sends at most its copy buffer and its window,
and resets a half-closed stream after its timeout.

**RecvFraming.** A byte is named by connection, frame and position, so that a
misplaced byte is visible. `Arrive` is libevent reading any number of bytes;
`ReadHeader`, `ReadRest`, `LoopEnds` are the branches of the loop, `Dispatch`
and `Abandon` what a complete frame leads to. `stream` is the state of every
stream: SYN_SEND, ESTABLISHED (before and after StartWorkConn, which makes it a
tunnel or a socks5 client), LOCAL_CLOSE, REMOTE_CLOSE, freed. `StreamsAfter` is
`process_flags` with the outcomes of the handler, `LocalClose` is
`tmux_stream_close`: an ESTABLISHED stream stays listed in LOCAL_CLOSE, one in
LOCAL_CLOSE or REMOTE_CLOSE is freed, and so is one in LOCAL_CLOSE by FIN or RST.
`Receiver` and `Taken` say who gets the payload: all of it goes to the handler or
the local service of an ESTABLISHED stream, `handle_ss5` takes any number of
bytes from the front of the ring, and a stream that is not ESTABLISHED keeps what
it has read. `bevs` counts the bufferevents that can still report to a client;
only `handle_ss5` makes more than one, and only then can a second close free a
stream within a frame. What `handle_ss5` takes when, its asserts and its NULL
bufferevent are the module `Socks5`; windows are `TmuxStream`. `Reconnect` is `clear_main_control`, which leaves `cur_stream`, `tmux_hdr` and
`stream_len` alone.

**Control.** Time passes in units (`PassTime`); `ticker` is the ping timer and
`age` the time since `pong_time`. `coders` holds the IV of each of the four
static coders and cipher contexts, and every encrypted message carries the IV
it was encrypted under. The network may lose the connection, stall and heal;
frps may refuse a login. `Init` has session id 3 for the first control stream
because `close_main_control` calls `clear_main_control` before the loop starts.
A timeout in `hb_sender_cb` comes after a ping, which is lost with the
connection.

**PlainControl.** `conn`, `is_login`, `client_connected`, `decoder` and
`stream_state` are the control connection; `listed`, `ctl`, `local`,
`data_tail` and `out` are the proxy clients, numbered in the order of their
creation and never reused, so that a callback with a freed client is visible.
`fate` says how the process ended, if it did. A read takes any number of whole
messages: `LoginAlone`, `LoginWithIV` and `LoginWithCommand` are the ways
LoginResp can come, `RecvIV` and `RecvCommand` what follows. `WorkConnected`,
`WorkFails` (`client_start_event_cb`), `RecvBeforeLogin`, `RecvStart`,
`RecvUnknown` (`recv_cb` with a client), `tcp_proxy_s2c_cb` and `WorkEnds`
(`xfrp_worker_event_cb`) are the work connection; `LocalConnected`, `LocalData`
and `LocalEnds` the local service. A use of freed memory ends the behaviour,
except that `send_client_data_tail` finds where its tail was either the bytes
or others. The user's bytes are taken to spell no command and `stale`, `early`,
`left` and `dropped` are history. A client of a socks5 service has no local
end here, and its first bytes fail `assert(partner)`.

**Socks5.** A byte is its position in what the user sends, so `out` shows which
bytes each target got. `Data`, `Handled` and `Credit` are the path of
`TmuxStream` for a frame; `Forward`, `Wait` and `Parse` are the branches of
`handle_ss5`. `Parse` takes the head of the ring for an address: the user's
request if its first byte is there, anything otherwise. Windows are counted
modulo `Word`, because the length of an address may exceed that of the frame it
ended with. The history variable `again` says that payload was parsed as an
address; the properties that need a request parsed once are conditional on it.
Targets answer through `tcp_proxy_c2s_cb`, which is in `TmuxStream`.

**TcpRedir.** `xfrps` is `bev_xfrps`, `partner` the argument of its callbacks,
`bev_in` the bufferevents of the users. A byte is a record of its user and its
position, so that `UpstreamInOrder` can speak of any two positions of what
arrived. `accept_cb`, `ReadUser`/`ReadXfrps`
(`read_cb`) and `EventUser`/`EventXfrps` (`event_cb`) are the callbacks; a
callback that uses a freed bufferevent ends the behaviour. libevent runs a
pending read callback before it reports the end of a connection.

**Config.** One step per line handed to `common_handler` and
`proxy_service_handler`; `CommonRead` and `dump_all_ps` are the checks between
and after the two passes. `start_proxy_services` announces the table once per
connection; a row of `announced` has an entry per service, `NULL` for one of
type mstsc, of which nothing is sent. `said` keeps what the file said, for the reference meaning in
`OrderIndependent`, which speaks of the ports the file gives; a port it does not
give is the finding `config_ports`. `Control` assumes a positive heartbeat interval and no shorter
timeout, which is what `HeartbeatValid` lets through.

## Runs

| Run | Checks |
|---|---|
| `ring` | `TypeOK`, `IndicesAgree`, `NoTruncation`, `ImplementsQueue`: ring of 3 bytes, two byte values, transfers up to 4, so that every loop wraps, fills and empties |
| `stream` | `TypeOK`, `NoLostWakeup`, `WakesTooLateOnly`, `TxRingFits`, `FramesHonest`, `FinIsLast`, `SendCreditConserved`, `UplinkExact`, `WindowStaysOpen`, `RecvCreditConserved`, `DownlinkExact`, and under `FairSpec` `ReadResumes`, `ClosedIsFreed`: window 12, reads of 2, 16 bytes up and 14 down, so that both windows close or would, the ring is used and credit comes back |
| `framing` | `FramingExact`, `RingsExact`: headers of 2, payloads up to 2, rings of 3, 7 frames and 4 on the second connection, every cut: enough for a work stream to be opened, get its tunnel or its socks5 client, be closed locally, and overflow its ring |
| `control` | `CryptoAgrees`, `RegistersFirst`, `StreamIdsFresh`, `RequestsAnswered`, `SilenceNoticed`, `NoFalseTimeout`, and under `FairSpec` `Recovers`: 2 services, 3 work connections per connection, 3 faults, deadlock checked |
| `plain` | `RequestsServed`, `ClientOutlivesUse`, `TunnelIntact`, and under `FairSpec` `LogsInAgain`: 2 services, 1 fault, 1 work connection more than logins, 1 user with 2 bytes |
| `socks5` | `ForwardsExactly`, `CreditAgrees`, and under `FairSpec` `EarlyBytesLeave`: addresses of 3 to 5 bytes, 9 bytes in any frames, a ring of 6 and a window of 12 |
| `redir` | `PartnerLives`, `UpstreamInOrder`, `SoleUserExact`, and under `FairSpec` `SoleUserServed`: 2 users, 2 bytes each |
| `config` | `OrderIndependent`, `TunnelsHaveTarget`, `Reannounced`: 2 services, every sequence of 4 lines out of 16, 2 connections |
| `tail_stranded`, `torn_frame`, `socks5_early_data`, `config_ports` | expected violations, see Findings |

Bounds. Sizes keep the proportions of the code: a window of at least twice ring
plus read (256K, 32K, 4K or 16K), a ring of two reads. The bytes sent exceed a
window, so that its second half, its end and its renewal are all reached; in
`stream` a behaviour uses one direction to its bound and the other for
`MaxMinor` bytes, since the directions share only the state of the stream. Two
connections suffice for what survives from one to the next; three faults allow
a fault on the connection that follows a fault. In `plain` the first connection
is always lost (see below), so one fault gives a third one, with a client of
the second still about. `CHECK_DEADLOCK FALSE` stands
where a stream really ends or all bytes of the bound have been sent.

Fairness. libevent runs every callback that is due, so handling a frame that
has arrived, a due timer and the passage of time are weakly fair. frps reads
what it was sent, answers a FIN and lets its close timeout expire; nothing is
assumed of the user or of the local service: they may stop sending at any
time. In `Control` faults are finite and everything else is weakly fair. In
`PlainControl` faults are finite, an attempt to connect has an outcome, the
close of a connection by frps is noticed, and frps reads and answers; new
requests, users and local services are free to stay away. In
`Socks5` an attempt to connect a target ends, one way or the other; in
`TcpRedir` a connection to the remote port that is not refused is made, and
the loop reads and writes what is ready.

## Findings

* `config_ports` (`PortsFound`): the comments at `config.c:338` and `345` say that
  the port of a socks5 or mstsc service that "is not set" is set to 1980 or 3389,
  and `validate_proxy` reports a port as "not found"; both look for 0, and
  `new_proxy_service` sets -1. A section with nothing but its type passes. The
  other two properties of `Config` about ports (`OrderIndependent`,
  `TunnelsHaveTarget`) claim nothing of a port that is not given.
* `tail_stranded` (`TailNotStranded`): `incr_send_window` does not flush
  `tx_ring` either; the last bytes of a service that then waits for an answer
  are never sent. (`tmux_stream_close` does not flush the ring either: what
  waits there when the local service closes is lost.)
* `torn_frame` (`HeadersAligned`): a connection that ends within a DATA frame
  leaves the parser in the middle of it, and the next connection is misread.
* `socks5_early_data` (`EarlyDataForwarded`): until the target is connected
  `handle_ss5` takes every frame of at least 7 bytes for a new address; payload
  the user sent early is popped and lost, or opens another connection.

One more is met within the passing run `framing`, as an exception of
`FramingExact` (`KnownEnd`): payload for a stream whose local service has closed
is put into `rx_ring` and never removed, although the log message says it is
discarded (`tcpmux.c:451`). When the ring, 32K against a window of 256K, is full,
the assertion `assert(nr == stream_len)` or `assert(nr == len)` of `recv_cb`
fails. TLC reaches this end (`pc = "read_assert"` with the stream in
LOCAL_CLOSE), and `FramingAlwaysExact` proves that no stream meets it but a
half-closed one and a socks5 client's. The other exception of `KnownEnd` is a
socks5 client with two bufferevents whose second close frees the stream that
`cur_stream` points to.

The sequence diagram of the repository's README.md (lines 55-66) draws NewWorkConn
before NewProxy. The code registers the services first, as the comment at
`control.c:460` demands ("start proxy services must first send"), and
`RegistersFirst` states the order of the code.

Behaviour the models show that no statement of the repository denies clearly
enough for a run of its own: a request whose name comes without its port fails
the assertion of `rx_ring_buffer_pop` (`pc = "pop assert"` in `Socks5`); a
second user of an mstsc service takes over the replies of the first, and when
either closes the other and the next `accept_cb` use a freed bufferevent
(`TcpRedir`); `strtok_r` cuts the locations of a service at its first
announcement (`Config`).

With `tcp_mux` off (`PlainControl`): `send_window_update` puts a yamux header in
front of the first Login, since it does not look at `tcp_mux`, and a server that
expects Login closes that connection; the next ones are clean. When LoginResp
and IV come in one read without a command, `assert(nret > 0)` fails. Of several
messages in one read only the first is handled. A work connection begun before
a reconnection that comes up after it marks the client as connected, so that
the services may never be announced. `clear_all_proxy_client` frees clients
whose connections go on calling back with them, and `xfrp_worker_event_cb` frees
`ctl_bev` under a client that goes on writing to it. Bytes that come with
StartWorkConn are read from freed memory and may be overtaken by later ones.
The close of a local service is not reported to frps. The properties of the run
`plain` say what holds nevertheless, and name these cases as their exceptions.

An excused fault is not caught. The properties of `plain`, `redir` and `socks5`
hold because the cases just listed are outside their conditions
(`ClientOutlivesUse` ends with the first failure or the first user who leaves,
`RequestsServed` leaves out what was dropped, stale or early, `TunnelIntact` the
tail behind StartWorkConn, the redirection properties the replies of shared users
and their use of a freed `bev_xfrps`), and so is the exit on an immediate connect
failure outside `Recovers` and the cut of the locations outside `Reannounced`.
They show that nothing else goes wrong. The hazards in `PROJECT.json` that are
met only this way say so in a note.

## Proofs

All for every value of the constants that meets the named assumptions.

`RingBufferProofs`. The inductive invariant is `TypeOK`, `IndicesAgree`
(`end` is `sz` bytes after `cur`) and `CallInv`: what a call in progress has
moved so far, and that what is left fits. `CallInv` is what makes each early
exit coincide with the end of the transfer: without it `cur = end` might be met
halfway. From it: `TypeCorrect`, `IndicesAlwaysAgree`, `TransfersComplete`, and
the refinement `RingImplementsQueue`, where storing a byte is shown to append
to the contents and taking one to remove the head.

`TmuxStreamProofs`. From `SizesAssumption` (two reads fit into the ring, a
frame fits into it, half a window covers ring and read) the invariant `IInv`
joins: `TypeOK`; `PeerFrames` (credit comes in halves of a window at least);
`Handshake` (an unanswered stream is untouched, the answer to the SYN comes
first) and `SynFirst`; `RingInv` (bytes enter `tx_ring` only with the window at
zero, and what the window then grows by covers ring and next read);
`FinInv` (after FIN the bufferevent is gone and the state past ESTABLISHED);
`NoLostWakeup`, `FramesHonest`, `WindowStaysOpen`. None of these is inductive
alone: `FramesHonest` needs `RingInv` to exclude the second branch of
`tmux_stream_write` with a ring in use, `RingInv` needs `PeerFrames` for the
size of a credit and `NoLostWakeup` for the moment it arrives. From it:
`StreamTypeCorrect`, `NeverLosesWakeup`, `TxRingAlwaysFits`,
`FramesAlwaysHonest`, `WindowAlwaysOpen`, `FinAlwaysLast`. `WakesAreTooLateOnly`
takes `WakeInv` besides: the window is open until the tunnel is (from
`Handshake`), and a listed stream without its bufferevent is in LOCAL_CLOSE.

The four conservation laws of the stream (`SendCreditConserved`,
`RecvCreditConserved`, `UplinkExact`, `DownlinkExact`) speak of the bytes and the
credit in a channel. These sums are not recursions: `Total(w, n)` is the size of
the disjoint union of the sets `{k} \X 1..w[k]`, so that appending a frame, taking
the first one and renumbering follow from the theorems about cardinality, without
induction over the channel (`TotalStep`, `TotalShift`, `TotalSame`,
`ChannelAppend`, `ChannelTail`). `FlowInv` joins the laws with `SideInv`, and is
proved inductive relative to `IInv`: `WindowSide` (frps does not overdraw its
window); `SynSide` (a SYN carries no credit); `FreshSide` (before the SYN nothing
was read or sent); `FinSide` (behind the FIN that frps has read nothing travels);
`TunnelSide` (nothing reached the local service before the tunnel, and the tunnel
waits for StartWorkConn); `RxSide` (`rx_ring` is empty when a frame arrives);
`StartSide` and `NumberSide` (nothing of the user travels before StartWorkConn,
and what travels are the last bytes frps has sent). `NumberSide` is what
`DownlinkExact` lacks: that law starts to hold with the tunnel, and the bytes
already behind StartWorkConn must be known to be numbered then. One lemma per
action (`...Ledger`) states what the action moves between windows, channels and
rings, once; the four laws cite it. From it: `SendCreditAlwaysConserved`,
`RecvCreditAlwaysConserved`, `UplinkAlwaysExact`, `DownlinkAlwaysExact`.

`RecvFramingProofs`. From `FramingAssumption`. `FInv` says that unless a frame
was torn by a reconnection (the finding `torn_frame`) these hold: `TypeOK`;
`SentInv` (frps acknowledges a stream before it uses it and says nothing behind
FIN or RST); `StreamInv` (which state a stream can be in after the frames
handled); `HandledInv` (what has been handled, and by whom); `EndInv` (how the
process may have ended, and that `cur_stream` is freed only under a client with a
bufferevent left); `RunInv` (every ring is a run of bytes read for its stream, in
order and without a gap up to the last); `HeldInv` (the ring of a stream that
keeps nothing is exactly the frame begun, or empty); and
`FrameInv`, the heart of it: from every byte under way the rest of its frame
follows and then the first byte of the next frame, and the parser (`cur_stream`,
`tmux_hdr`, `stream_len`) stands where the first of these bytes says. It is
stated of any two positions of the channel and not as a concatenation of frames,
so that the proof needs no induction over the bytes of a read; `Advance` is the
lemma that taking any number of bytes within a frame keeps it. From it:
`FramingAlwaysExact`, `RingsAlwaysExact`.

`ControlProofs`. From `ControlAssumption`. `CInv` joins types; `Idle` and
`Fresh` (nothing of an earlier connection is left in a connection not yet made
or just made); `LoginInv` (the one Login comes before all else); `DownInv` and
`UpInv` (in each direction the IV precedes whatever is encrypted under it);
`SynInv` (stream ids used or on their way are below `g_session_id` and differ);
`RegInv` (services on their way follow those registered without a gap, and
precede any NewWorkConn); `CountInv` (the requests are those under way and the
clients made, by cardinality); `TimeInv` (`age` and `ticker` together are
bounded, and a ping is answered before time passes). `CryptoAgrees` alone is
not inductive: that a coder still has the IV of the message it will meet
needs `LoginInv` and `Idle` across a reconnection; `RegistersFirst` needs the
adjacency in `RegInv`, `RequestsAnswered` the count. From it:
`CryptoAlwaysAgrees`, `AlwaysRegistersFirst`, `StreamIdsAlwaysFresh`,
`RequestsAlwaysAnswered`, `SilenceAlwaysNoticed`, and the action property
`NeverFalseTimeout`.

`Socks5Proofs`. From `Socks5Assumption`. `SInv` joins `TypeOK`; `CreditInv`
(the window of frps, the credit on its way back and the bytes under way are
`recv_window`, as a congruence modulo `Word`, because an address may be longer
than the frame it ended with); `InOrderOf(out)` and `RingOrdered` (the targets
and the ring hold distinct bytes in the user's order); `FinLast`;
`BeforeTarget` (until a request is parsed there is no target, and the ring holds
all the user sent, unless it has lost its head); `OneTarget` (afterwards, while
no payload is taken for an address, there is one target, and its bytes and the
ring's are the payload without a gap). From it: `CreditAlwaysAgrees`,
`AlwaysForwardsExactly`.

`TcpRedirProofs`. From `RedirAssumption`. `RInv` joins `TypeOK`,
`PartnerLives`, `UpstreamInOrder`, `Unaccepted` (a user not yet accepted has left
no trace), `SolePair` (a user alone is the partner of
`bev_xfrps` and lives no longer) and `SoleUserExact`. From it: `PartnerAlwaysLives`,
`UpstreamAlwaysInOrder`, `SoleUserAlwaysExact`.

`PlainControlProofs`. From `PlainAssumption` (the bounds are natural numbers).
`PInv` joins types; `BoundInv` (the bounds cover the clients that can still be
made); `LoginInv` (LoginResp, IV and ReqWorkConn come in this order, and nothing
else before them); `AnnounceInv` and `CountInv` (by cardinality, the services
announced and the requests answered); `CalmInv` (until a failure, or a user
leaving, every client with a connection is listed, and a connection with a
tunnel is not freed); `WireInv` (what is unread on a work connection is the end
of StartWorkConn, the bytes 1 to `sent`, and EOF once it is closed);
`TunnelInv` (what was written to a local service and what is unread make up what
was sent; until the local service is connected the tail waits and none of it is
written). `TunnelIntact` is not inductive: it does not say that the tail still
to come is written in one piece, nor where StartWorkConn stands; `RequestsServed`
needs the order of the three messages to know that the first command is the
request. From it: `RequestsAlwaysServed`, `ClientAlwaysOutlivesUse`,
`TunnelAlwaysIntact`.

`ConfigProofs`. From `ConfigAssumption` (a line gives a value, and `NULL` is
no type). `CInv` joins `TableInv` (services are stored under names of their
own); `SaidInv` (nothing was said of a service that is not stored); `PhaseInv`;
`OrderInv` and `TypedInv` (the fields are those given, before and after
`dump_all_ps` makes a service without a type tcp); `PortInv` (a local port
that is still -1 was given no other value); `ValidInv` (while running
every service is valid); `AnnInv` (what was announced on any connection is what
would be announced now, but for the locations). `OrderIndependent` needs
`SaidInv`: the first line about a service must meet the values
`new_proxy_service` sets, and the line that gives the type must find that none
was given before; `Reannounced` needs `AnnInv`, because it compares
connections between which the table was cut. From it:
`AlwaysOrderIndependent`, `TunnelsAlwaysHaveTarget`, `AlwaysReannounced`.

Model-checked only: the liveness properties (`ReadResumes`, `ClosedIsFreed`, and
those of the other runs), because fairness is outside the prover's reach. Every
safety invariant and action property that a passing run checks is also a theorem.

## Not modelled

The vendored libraries are not part of the program. FTP is unreachable;
`handle_socks5` with its handshake and zip are called by nothing. JSON, AES, PBKDF2, MD5,
interface lookup and logging are conversions without control state. frps, the
network, libevent and the local services are environment: what the code relies
on, and no more. An undefined outcome (a client used after `start_xfrp_tunnel`
freed it, `bufferevent_enable` on NULL) ends a behaviour in an abort value of
`pc` or goes on, as the build may do. SYN and DATA flags frps never combines
are left out, as are session-level PING answers, which change no state.

## Plan

Done: the modules above. Next, in this order:

1. The tables of clients and streams as one module composed with `Control`.
