------------------------------ MODULE Streams ------------------------------
(***************************************************************************)
(* The byte streams of a Sister and the commands that use them: the        *)
(* listeners of misaka-network, the Sister's stream handler (greeting,     *)
(* echo, tunnel with its authorization), and `misaka stream-test`,         *)
(* `connect`, `tunnel`, `ssh` and `ps`.  File transfers over the same      *)
(* streams are in Transfer, the Iroh session layer is in Sessions, what a  *)
(* signature means is in Credentials.                                      *)
(*                                                                         *)
(* One Sister of Network 1 listens.  A link is one client connection with  *)
(* the command, or the proxy task of a tunnel, that owns it.  A stream     *)
(* carries units: the greeting, the tunnel preamble, a tunnel request, or  *)
(* payload (the first unit of a payload is its four-byte preamble).        *)
(*                                                                         *)
(* plan, chosen in the initial state, says what the Sister is configured   *)
(* for, which commands run and what the environment may do.                *)
(***************************************************************************)
EXTENDS Credentials, FiniteSets, FiniteSetsExt

CONSTANTS
  Plans,        \* the scenarios
  MaxTime,      \* the clock stops here
  Capacity,     \* units a stream buffers in one direction
  MaxRounds,    \* exchanges of a sustained or stability probe
  LargeSize     \* units of a large probe

ASSUME StreamsAssumption ==
  /\ MaxTime \in Nat /\ Capacity \in Nat \ {0} /\ MaxRounds \in Nat /\ LargeSize \in Nat

VARIABLES
  plan,
  now,      \* the clock both sides read
  server,   \* the listening process: its accept loop, registry and revocations
  nonces,   \* used-command-nonces.json
  link,     \* the client side of each link
  conn,     \* the connection of each link
  serve,    \* the handler of each link
  dials,    \* history: the remote connections the Sister opened
  path,     \* the selected path of an Iroh connection and its telemetry
  ps,       \* the probes of `misaka ps`
  inbox     \* a contract at its verifier

vars == <<plan, now, server, nonces, link, conn, serve, dials, path, ps, inbox>>

Links == {1, 2}
Cmd(l) == plan.cmds[l]

WORLD == 91
TUNNEL_MAGIC == 92
REQUEST == 93
Payload == <<1, 2>>

Ended == {"off", "ok", "error", "killed"}

-----------------------------------------------------------------------------
(* Streams *)

NoConn == [stage |-> "none", up |-> <<>>, down |-> <<>>, upFin |-> FALSE,
           downFin |-> FALSE, client |-> FALSE, server |-> FALSE]

NoRemote == [data |-> <<>>, got |-> <<>>, fin |-> FALSE]

NoHandler == [pc |-> "none", id |-> None, rx |-> 0, tx |-> 0, receivedAt |-> None,
              revokedThen |-> FALSE, verifiedAt |-> None, remote |-> NoRemote]

\* What the Sister writes to a client that is gone is lost.
Down(c, x) == IF c.client THEN [c EXCEPT !.down = Append(@, x)] ELSE c

UpEof(l) == conn[l].up = <<>> /\ (conn[l].upFin \/ ~conn[l].client)
DownEof(l) == conn[l].down = <<>> /\ (conn[l].downFin \/ ~conn[l].server)

\* NetworkStream counts what is read and written through it.
poll_read(h) == [h EXCEPT !.rx = @ + 1]
poll_write(h) == [h EXCEPT !.tx = @ + 1]

-----------------------------------------------------------------------------
(* The listeners *)

\* DirectTcpListener and DirectTcpBackend: the hello of each side names the protocol
\* and the Network.
DirectTcpHandshake(c) == ~c.certificate /\ c.network = Home.network_id

\* Mutual TLS, without a hello: each side trusts the certificates it was given.
client_config(c) == c.pinned
server_config(c) == c.trusted
TlsHandshake(c) == c.certificate /\ client_config(c) /\ server_config(c)

\* An Iroh stream has the hello, and then each side proves its membership; a
\* stream-test names no Sister.
IrohHandshake(c) ==
  /\ c.network = Home.network_id
  /\ c.member
  /\ c.kind # "test" => c.row = plan.sister

validate_handshake(c) ==
  CASE plan.backend = "tcp" -> DirectTcpHandshake(c)
    [] plan.backend = "tls" -> TlsHandshake(c)
    [] plan.backend = "iroh" -> IrohHandshake(c)

\* A session whose handler is spawned, or a connection that is dropped.
Admitted(l, ok) ==
  /\ conn' = [conn EXCEPT ![l].stage = IF ok THEN "open" ELSE "closed", ![l].server = ok]
  /\ serve' = [serve EXCEPT ![l] = IF ok THEN [NoHandler EXCEPT !.pc = "spawned"] ELSE @]

\* stream_accept_loop takes one connection at a time through its handshake.
Accept ==
  /\ server.up /\ server.accepting = None /\ server.backlog # <<>>
  /\ plan.backend # "iroh"
  /\ server' = [server EXCEPT !.accepting = Head(server.backlog),
                              !.backlog = Tail(@)]
  /\ UNCHANGED <<plan, now, nonces, link, conn, serve, dials, path, ps, inbox>>

AcceptHandshake(l) ==
  /\ server.accepting = l
  /\ Cmd(l).kind # "silent"
  /\ Admitted(l, validate_handshake(Cmd(l)))
  /\ server' = [server EXCEPT !.accepting = None]
  /\ UNCHANGED <<plan, now, nonces, link, dials, path, ps, inbox>>


\* HANDSHAKE_TIMEOUT, or the end of a connection that said nothing.
AcceptTimeout(l) ==
  /\ server.accepting = l
  /\ Cmd(l).kind = "silent"
  /\ Admitted(l, FALSE)
  /\ server' = [server EXCEPT !.accepting = None]
  /\ UNCHANGED <<plan, now, nonces, link, dials, path, ps, inbox>>

\* An Iroh stream reaches its task, which authenticates it, whatever the others do.
IrohAccept(l) ==
  /\ server.up /\ plan.backend = "iroh" /\ conn[l].stage = "backlog"
  /\ Admitted(l, validate_handshake(Cmd(l)))
  /\ server' = [server EXCEPT !.backlog = SelectSeq(@, LAMBDA x : x # l)]
  /\ UNCHANGED <<plan, now, nonces, link, dials, path, ps, inbox>>

-----------------------------------------------------------------------------
(* The stream handler of the Sister *)

\* StreamRegistry::register, and the Drop of the registration (ids count from 1
\* here).
register(s) == [s EXCEPT !.next_id = @ + 1, !.entries = @ \cup {s.next_id}]
deregister(s, id) == [s EXCEPT !.entries = @ \ {id}]

\* What the registry says of the streams in it.
snapshot ==
  {[link |-> l, stream_id |-> serve[l].id, rx_bytes |-> serve[l].rx, tx_bytes |-> serve[l].tx] :
     l \in {x \in Links : serve[x].id \in server.entries}}

summary ==
  [streams |-> Cardinality(server.entries),
   rx_bytes |-> FoldSet(LAMBDA x, n : n + x.rx_bytes, 0, snapshot),
   tx_bytes |-> FoldSet(LAMBDA x, n : n + x.tx_bytes, 0, snapshot)]

HandlerUnchanged == UNCHANGED <<plan, now, link, path, ps, inbox>>

\* The handler returns: the stream is closed and leaves the registry.
End(l) ==
  /\ serve' = [serve EXCEPT ![l] = [NoHandler EXCEPT !.pc = "ended"]]
  /\ conn' = [conn EXCEPT ![l].server = FALSE]
  /\ server' = deregister(server, serve[l].id)

\* log_and_echo_stream registers the stream, echo_stream greets.  An Iroh stream is
\* greeted first and registered once its service is named.
echo_stream(l) ==
  /\ serve[l].pc = "spawned"
  /\ conn' = [conn EXCEPT ![l] = Down(@, WORLD)]
  /\ IF plan.backend = "iroh"
       THEN /\ serve' = [serve EXCEPT ![l].pc = "prefix"]
            /\ UNCHANGED server
       ELSE /\ serve' = [serve EXCEPT ![l] = poll_write([@ EXCEPT !.pc = "preamble",
                                                                  !.id = server.next_id])]
            /\ server' = register(server)
  /\ UNCHANGED <<nonces, dials>>
  /\ HandlerUnchanged

\* read_service_prefix; prepend gives the four bytes back to a new NetworkStream.
serve_iroh_stream(l) ==
  /\ serve[l].pc = "prefix"
  /\ \/ /\ conn[l].up # <<>>
        /\ serve' = [serve EXCEPT ![l].pc = "preamble", ![l].id = server.next_id]
        /\ server' = register(server)
        /\ UNCHANGED conn
     \/ End(l)
  /\ UNCHANGED <<nonces, dials>>
  /\ HandlerUnchanged

\* echo_stream_after_greeting: the preamble selects the service.
ReadPreamble(l) ==
  /\ serve[l].pc = "preamble"
  /\ \/ UpEof(l) /\ End(l)
     \/ /\ conn[l].up # <<>> /\ Head(conn[l].up) = TUNNEL_MAGIC
        /\ IF plan.probe_only
             THEN End(l)
             ELSE /\ serve' = [serve EXCEPT ![l] = poll_read([@ EXCEPT !.pc = "request"])]
                  /\ conn' = [conn EXCEPT ![l].up = Tail(@)]
                  /\ UNCHANGED server
     \/ /\ conn[l].up # <<>> /\ Head(conn[l].up) # TUNNEL_MAGIC
        /\ Len(conn[l].down) < Capacity
        /\ serve' = [serve EXCEPT ![l] = poll_write(poll_read([@ EXCEPT !.pc = "echo"]))]
        /\ conn' = [conn EXCEPT ![l] = Down([@ EXCEPT !.up = Tail(@)], Head(conn[l].up))]
        /\ UNCHANGED server
  /\ UNCHANGED <<nonces, dials>>
  /\ HandlerUnchanged

Echo(l) ==
  /\ serve[l].pc = "echo"
  /\ \/ UpEof(l) /\ End(l)
     \/ /\ conn[l].up # <<>> /\ Len(conn[l].down) < Capacity
        /\ serve' = [serve EXCEPT ![l] = poll_write(poll_read(@))]
        /\ conn' = [conn EXCEPT ![l] = Down([@ EXCEPT !.up = Tail(@)], Head(conn[l].up))]
        /\ UNCHANGED server
  /\ UNCHANGED <<nonces, dials>>
  /\ HandlerUnchanged

\* A read or a write on a stream whose client is gone fails.
BrokenStream(l) ==
  /\ serve[l].pc \in {"prefix", "preamble", "echo", "request", "copy"}
  /\ ~conn[l].client
  /\ End(l)
  /\ UNCHANGED <<nonces, dials>>
  /\ HandlerUnchanged

-----------------------------------------------------------------------------
(* A tunnel at the Sister *)

Request(l) == link[l].request
Authorization(l) == Request(l).authorization

ReadTunnelRequest(l) ==
  /\ serve[l].pc = "request"
  /\ \/ UpEof(l) /\ End(l)
     \/ /\ conn[l].up # <<>>
        /\ serve' = [serve EXCEPT ![l] = poll_read([@ EXCEPT !.pc = "authorize",
                       !.receivedAt = now, !.revokedThen = server.revoked])]
        /\ conn' = [conn EXCEPT ![l].up = Tail(@)]
        /\ UNCHANGED server
  /\ UNCHANGED <<nonces, dials>>
  /\ HandlerUnchanged

require_stream_authorization(authorization) ==
  authorization # <<>> \/ plan.allow_unauthenticated_operations

authorization_bound_to_local(a) == a.target = plan.sister

\* What authorize_stream_operation asks of an authorization before its nonce.
StreamAuthorizationValid(a, constraints) ==
  /\ plan.authority
  /\ a.permission \in {"FileSend", "TunnelOpen", "ShellOpen"}
  /\ authorization_bound_to_local(a)
  /\ a.network_id = Home.network_id
  /\ CommandAuthorization_verify(a, Home, now)
  /\ a.constraints = constraints
  /\ ~server.revoked

\* receive_tunnel_with_node calls authorize_stream_operation, up to the nonce lock.
authorize_stream_operation(l) ==
  /\ serve[l].pc = "authorize"
  /\ IF \/ ~require_stream_authorization(Authorization(l))
        \/ /\ Authorization(l) # <<>>
           /\ ~StreamAuthorizationValid(Authorization(l)[1], <<Request(l).remote>>)
       THEN End(l)
       ELSE /\ serve' = [serve EXCEPT ![l].verifiedAt = now,
                           ![l].pc = IF Authorization(l) = <<>> THEN "dial" ELSE "nonce"]
            /\ UNCHANGED <<conn, server>>
  /\ UNCHANGED <<nonces, dials>>
  /\ HandlerUnchanged

\* AuthorizationNonceStore::record, under the nonce lock and with a clock of its own.
Compacted == [nonces EXCEPT !.entries = {e \in @ : e.expires_at >= now}]

Recorded(a) ==
  [Compacted EXCEPT !.entries = @ \cup {[nonce |-> a.nonce, expires_at |-> a.expires_at]}]

\* Mutant: the nonce is stored without looking whether it is there already.
record_unchecked(l) ==
  /\ serve[l].pc = "nonce" /\ ~nonces.torn
  /\ nonces' = Recorded(Authorization(l)[1])
  /\ serve' = [serve EXCEPT ![l].pc = "dial", ![l].verifiedAt = now]
  /\ UNCHANGED <<conn, server, dials>>
  /\ HandlerUnchanged

record(l) ==
  /\ serve[l].pc = "nonce"
  /\ LET a == Authorization(l)[1]
     IN  IF nonces.torn \/ \E e \in Compacted.entries : e.nonce = a.nonce
           THEN End(l) /\ UNCHANGED nonces
           ELSE /\ nonces' = Recorded(a)
                /\ serve' = [serve EXCEPT ![l].pc = "dial", ![l].verifiedAt = now]
                /\ UNCHANGED <<conn, server>>
  /\ UNCHANGED dials
  /\ HandlerUnchanged

\* The address is parsed, and dialled for at most ten seconds.
DialRemote(l) ==
  /\ serve[l].pc = "dial"
  /\ \/ End(l) /\ UNCHANGED dials
     \/ /\ Request(l).remote # None
        /\ serve' = [serve EXCEPT ![l].pc = "copy"]
        /\ dials' = Append(dials,
             [remote |-> Request(l).remote, authorization |-> Authorization(l),
              receivedAt |-> serve[l].receivedAt, revokedThen |-> serve[l].revokedThen,
              recordedAt |-> serve[l].verifiedAt])
        /\ UNCHANGED <<conn, server>>
  /\ UNCHANGED nonces
  /\ HandlerUnchanged

\* copy_bidirectional between the stream and a remote service that sends back what
\* it gets: remote.data is what it has not sent back yet.
CopyRemote(l) ==
  /\ serve[l].pc = "copy"
  /\ LET r == serve[l].remote
     IN  \/ /\ conn[l].up # <<>> /\ Len(r.data) < Capacity
            /\ conn' = [conn EXCEPT ![l].up = Tail(@)]
            /\ serve' = [serve EXCEPT ![l] = poll_read([@ EXCEPT
                           !.remote.data = Append(@, Head(conn[l].up)),
                           !.remote.got = Append(@, Head(conn[l].up))])]
            /\ UNCHANGED server
         \/ /\ UpEof(l) /\ ~r.fin
            /\ serve' = [serve EXCEPT ![l].remote.fin = TRUE]
            /\ UNCHANGED <<conn, server>>
         \/ /\ r.data # <<>> /\ Len(conn[l].down) < Capacity
            /\ conn' = [conn EXCEPT ![l] = Down(@, Head(r.data))]
            /\ serve' = [serve EXCEPT ![l] = poll_write([@ EXCEPT !.remote.data = Tail(@)])]
            /\ UNCHANGED server
         \/ /\ r.fin /\ r.data = <<>> /\ ~conn[l].downFin
            /\ conn' = [conn EXCEPT ![l].downFin = TRUE]
            /\ UNCHANGED <<serve, server>>
         \/ r.fin /\ conn[l].downFin /\ End(l)
  /\ UNCHANGED <<nonces, dials>>
  /\ HandlerUnchanged

-----------------------------------------------------------------------------
(* The commands: reaching a Sister *)

ClientUnchanged == UNCHANGED <<plan, now, nonces, serve, dials, ps, inbox>>

NoLink == [pc |-> "start", k |-> 1, rounds |-> 0, sent |-> <<>>, got |-> <<>>, wrote |-> 0,
           read |-> 0, request |-> [remote |-> None, authorization |-> <<>>],
           eof |-> FALSE, switches |-> 0]

\* The command returns, or the proxy task ends, and its stream is dropped.
Finish(l, result) ==
  /\ link' = [link EXCEPT ![l].pc = result]
  /\ conn' = [conn EXCEPT ![l].client = FALSE]

\* IrohTransportOptions
reachable(options) == options.advertise_host \/ options.relay = "remote"
target_needs_reachable(endpoint) == endpoint.remote
bind_iroh_backend(options) == options.relay_only => options.relay # "none"

\* What stops a stream-test, or connect_peer_stream, before it dials.
run_stream_test_refuses(c, e) ==
  \/ e.kind = "iroh" /\ c.certificate
  \/ e.kind = "iroh" /\ ~reachable(c.options) /\ target_needs_reachable(e)
  \/ e.kind = "iroh" /\ ~bind_iroh_backend(c.options)

connect_peer_stream_refuses(c, e) ==
  \/ target_needs_reachable(e) /\ ~reachable(c.options)
  \/ e.kind = "iroh" /\ c.certificate
  \/ e.kind = "iroh" /\ ~bind_iroh_backend(c.options)

\* run_connect goes on to the next endpoint of the Sister's row; a stream-test has
\* one endpoint and a tunnel takes the first.
AttemptFails(l) ==
  IF Cmd(l).kind = "connect" /\ link[l].k < Len(Cmd(l).endpoints)
    THEN /\ link' = [link EXCEPT ![l].k = @ + 1, ![l].pc = "start"]
         /\ conn' = [conn EXCEPT ![l].client = FALSE]
    ELSE Finish(l, "error")

\* The endpoint this attempt dials.
Endpoint(l) == Cmd(l).endpoints[link[l].k]

Connect(l) ==
  /\ link[l].pc = "start"
  /\ Cmd(l).again => link[1].request.remote # None
  /\ IF Cmd(l).endpoints = <<>>
       THEN Finish(l, "error") /\ UNCHANGED server
       ELSE LET e == Endpoint(l)
            IN  IF \/ e.kind = "bad"
                   \/ Cmd(l).kind = "test" /\ run_stream_test_refuses(Cmd(l), e)
                   \/ Cmd(l).kind # "test" /\ connect_peer_stream_refuses(Cmd(l), e)
                   \/ ~e.live
                   \/ ~server.up
                  THEN AttemptFails(l) /\ UNCHANGED server
                  ELSE /\ link' = [link EXCEPT ![l].pc = "dialing"]
                       /\ conn' = [conn EXCEPT ![l] = [NoConn EXCEPT !.stage = "backlog",
                                                         !.client = TRUE, !.server = TRUE]]
                       /\ server' = [server EXCEPT !.backlog = Append(@, l)]
  /\ UNCHANGED path
  /\ ClientUnchanged

\* The dial ends: the stream is open (an Iroh stream starts its path telemetry), the
\* Sister dropped it, or the five or ten seconds of the command are over.
IrohPathTelemetry_new == [path EXCEPT !.seen = path.real, !.last = path.real,
                                      !.switches = 0, !.changes = 0]

Dialled(l) ==
  /\ link[l].pc = "dialing"
  /\ \/ /\ conn[l].stage = "open"
        /\ link' = [link EXCEPT ![l].pc = "greeting"]
        /\ path' = IF plan.backend = "iroh" /\ l = 1 THEN IrohPathTelemetry_new ELSE path
        /\ UNCHANGED conn
     \/ AttemptFails(l) /\ UNCHANGED path
  /\ UNCHANGED server
  /\ ClientUnchanged

-----------------------------------------------------------------------------
(* stream-test and connect *)

\* What comes after the greeting.
AfterGreeting(l) ==
  CASE Cmd(l).kind \in {"tunnel", "ssh"} -> "authorize"
    [] Cmd(l).kind = "test" /\ Cmd(l).mode = "connect" -> "ok"
    [] Cmd(l).kind = "test" /\ Cmd(l).mode = "large" -> "large"
    [] OTHER -> "between"

\* The path is looked at first, for a report with no exchange to wait for.
ReadGreeting(l) ==
  /\ link[l].pc = "greeting"
  /\ conn[l].down # <<>> /\ Head(conn[l].down) = WORLD
  /\ link' = [link EXCEPT ![l].pc = AfterGreeting(l), ![l].read = @ + 1,
                          ![l].switches = path.switches]
  /\ conn' = [conn EXCEPT ![l].down = Tail(@), ![l].client = AfterGreeting(l) # "ok"]
  /\ UNCHANGED <<server, path>>
  /\ ClientUnchanged

\* exchange, first half: the payload is written.  A hold exchanges every two seconds
\* for as long as it runs.
exchange(l) ==
  /\ link[l].pc = "between"
  /\ link[l].rounds < IF Cmd(l).mode = "bidirectional" THEN 1 ELSE MaxRounds
  /\ Len(conn[l].up) + Len(Payload) <= Capacity
  /\ conn' = [conn EXCEPT ![l].up = @ \o Payload]
  /\ link' = [link EXCEPT ![l].pc = "read", ![l].sent = @ \o Payload,
                          ![l].wrote = @ + Len(Payload)]
  /\ UNCHANGED <<server, path>>
  /\ ClientUnchanged

\* Second half: as many bytes are read back and compared.
exchange_read(l) ==
  /\ link[l].pc = "read"
  /\ Len(conn[l].down) >= Len(Payload)
  /\ LET echoed == SubSeq(conn[l].down, 1, Len(Payload))
     IN  IF echoed # Payload
           THEN Finish(l, "error")
           ELSE /\ conn' = [conn EXCEPT ![l].down = SubSeq(@, Len(Payload) + 1, Len(@))]
                /\ link' = [link EXCEPT ![l].pc = "between", ![l].rounds = @ + 1,
                              ![l].got = @ \o echoed, ![l].read = @ + Len(Payload)]
  /\ UNCHANGED <<server, path>>
  /\ ClientUnchanged

\* Success, with the path of the stream as it is at the end.
Finished(l) ==
  /\ link' = [link EXCEPT ![l].pc = "ok", ![l].switches = path.switches]
  /\ conn' = [conn EXCEPT ![l].client = FALSE]

\* The deadline of sustained and stability; bidirectional and connect exchange once.
ProbeEnds(l) ==
  /\ link[l].pc = "between"
  /\ \/ Cmd(l).mode = "bidirectional" /\ link[l].rounds = 1 /\ Finished(l)
     \/ Cmd(l).mode = "sustained" /\ link[l].rounds >= 2 /\ Finished(l)
     \/ Cmd(l).mode = "sustained" /\ link[l].rounds < 2 /\ Finish(l, "error")
     \/ Cmd(l).mode = "stability" /\ Finished(l)
  /\ UNCHANGED <<server, path>>
  /\ ClientUnchanged

\* large: a writer task and a reader; the reader joins the writer before it compares.
LargeWrite(l) ==
  /\ link[l].pc = "large" /\ ~conn[l].upFin
  /\ IF Len(link[l].sent) < LargeSize
       THEN /\ Len(conn[l].up) < Capacity
            /\ link' = [link EXCEPT ![l].sent = Append(@, Len(@) + 1), ![l].wrote = @ + 1]
            /\ conn' = [conn EXCEPT ![l].up = Append(@, Len(link[l].sent) + 1)]
       ELSE /\ conn' = [conn EXCEPT ![l].upFin = TRUE]
            /\ UNCHANGED link
  /\ UNCHANGED <<server, path>>
  /\ ClientUnchanged

LargeRead(l) ==
  /\ link[l].pc = "large"
  /\ Len(link[l].got) < LargeSize /\ conn[l].down # <<>>
  /\ link' = [link EXCEPT ![l].got = Append(@, Head(conn[l].down)), ![l].read = @ + 1]
  /\ conn' = [conn EXCEPT ![l].down = Tail(@)]
  /\ UNCHANGED <<server, path>>
  /\ ClientUnchanged

large_stream(l) ==
  /\ link[l].pc = "large"
  /\ Len(link[l].got) = LargeSize /\ conn[l].upFin
  /\ IF link[l].got = link[l].sent THEN Finished(l) ELSE Finish(l, "error")
  /\ UNCHANGED <<server, path>>
  /\ ClientUnchanged

\* A bounded read or write that is not served in time, and a stream that ends.
ReadFails(l) ==
  /\ \/ link[l].pc = "greeting" /\ (Cmd(l).kind = "test" \/ DownEof(l))
     \/ link[l].pc \in {"read", "large"}
     \/ link[l].pc = "between" /\ Cmd(l).mode = "hold" /\ DownEof(l)
  /\ IF link[l].pc = "greeting" THEN AttemptFails(l) ELSE Finish(l, "error")
  /\ UNCHANGED <<server, path>>
  /\ ClientUnchanged

-----------------------------------------------------------------------------
(* tunnel and ssh *)

\* The human material of the device: nothing, a part of it, or what a membership
\* issued by the Authority says.
human_membership(h) ==
  HumanMembershipCertificate_issue(Home, 11, HumanIdentity(1, "name", 31), h.role, 1,
                                   h.expires_at, 5)

\* Each local connection asks for an authorization of its own; nonces are fresh.
CliAuthorization(l) ==
  CommandAuthorization_issue(
    [network_id |-> Home.network_id, issuer |-> HumanIdentity(1, "name", 31),
     membership |-> human_membership(Cmd(l).human), role |-> Cmd(l).human.role,
     permission |-> IF Cmd(l).kind = "ssh" THEN "ShellOpen" ELSE "TunnelOpen",
     target |-> Cmd(l).row, constraints |-> <<Cmd(l).remote>>, issued_at |-> now,
     expires_at |-> now + 1, nonce |-> l], 31)

\* load_cli_authorization: an Option, or an error.
load_cli_authorization(l) ==
  LET h == Cmd(l).human
  IN  CASE h.material = "none" -> [ok |-> TRUE, value |-> <<>>]
        [] h.material = "partial" -> [ok |-> FALSE, value |-> <<>>]
        [] OTHER -> [ok |-> HumanMembershipCertificate_verify(human_membership(h), Home, now)
                            /\ ~h.revoked,
                     value |-> <<CliAuthorization(l)>>]

\* proxy_tunnel sends the preamble, then the request, and starts to copy.  A request
\* that arrives again, on the second link, carries the authorization of the first.
proxy_tunnel(l) ==
  /\ link[l].pc = "authorize"
  /\ LET a == IF Cmd(l).again THEN [ok |-> TRUE, value |-> link[1].request.authorization]
                              ELSE load_cli_authorization(l)
     IN  IF a.ok
           THEN /\ link' = [link EXCEPT ![l].pc = "request", ![l].wrote = @ + 1,
                              ![l].request = [remote |-> Cmd(l).remote,
                                              authorization |-> a.value]]
                /\ conn' = [conn EXCEPT ![l].up = Append(@, TUNNEL_MAGIC)]
           ELSE Finish(l, "error")
  /\ UNCHANGED <<server, path>>
  /\ ClientUnchanged

WriteTunnelRequest(l) ==
  /\ link[l].pc = "request"
  /\ link' = [link EXCEPT ![l].pc = "proxy", ![l].wrote = @ + 1]
  /\ conn' = [conn EXCEPT ![l].up = Append(@, REQUEST)]
  /\ UNCHANGED <<server, path>>
  /\ ClientUnchanged

\* The local program sends Cmd(l).units units and reads.
LocalProgram(l) ==
  /\ link[l].pc = "proxy" /\ ~conn[l].upFin
  /\ IF Len(link[l].sent) < Cmd(l).units
       THEN /\ Len(conn[l].up) < Capacity
            /\ link' = [link EXCEPT ![l].sent = Append(@, Len(@) + 1), ![l].wrote = @ + 1]
            /\ conn' = [conn EXCEPT ![l].up = Append(@, Len(link[l].sent) + 1)]
       ELSE conn' = [conn EXCEPT ![l].upFin = TRUE] /\ UNCHANGED link
  /\ UNCHANGED <<server, path>>
  /\ ClientUnchanged

ProxyDown(l) ==
  /\ link[l].pc = "proxy" /\ ~link[l].eof
  /\ \/ /\ conn[l].down # <<>>
        /\ link' = [link EXCEPT ![l].got = Append(@, Head(conn[l].down)), ![l].read = @ + 1]
        /\ conn' = [conn EXCEPT ![l].down = Tail(@)]
     \/ /\ DownEof(l)
        /\ link' = [link EXCEPT ![l].eof = TRUE]
        /\ UNCHANGED conn
  /\ UNCHANGED <<server, path>>
  /\ ClientUnchanged

\* copy_bidirectional ends when both directions have, or when one fails.
ProxyEnds(l) ==
  /\ link[l].pc = "proxy"
  /\ \/ link[l].eof /\ conn[l].upFin /\ Finish(l, "ok")
     \/ ~conn[l].server /\ Finish(l, "error")
  /\ UNCHANGED <<server, path>>
  /\ ClientUnchanged

\* run_ssh stops its tunnel when ssh exits; the proxies end with the process.
run_ssh(l) ==
  /\ Cmd(l).kind = "ssh" /\ link[l].pc = "proxy"
  /\ Finish(l, "ok")
  /\ UNCHANGED <<server, path>>
  /\ ClientUnchanged

-----------------------------------------------------------------------------
(* The path of an Iroh connection *)

\* Iroh selects another path, or for a while none (None).
SelectPath ==
  /\ plan.paths > path.events
  /\ \E p \in {None, 1, 2} \ {path.real} :
       path' = [path EXCEPT !.real = p, !.events = @ + 1,
                  !.last = IF p = None THEN @ ELSE p,
                  !.changes = IF p # None /\ path.last \notin {None, p} THEN @ + 1 ELSE @]
  /\ UNCHANGED <<plan, now, server, nonces, link, conn, serve, dials, ps, inbox>>

\* The observer task reads the current list, whatever happened since it last did.
ObservePath ==
  /\ link[1].pc \notin Ended /\ path.real \notin {None, path.seen}
  /\ path' = [path EXCEPT !.seen = path.real,
                !.switches = IF path.seen # None THEN @ + 1 ELSE @]
  /\ UNCHANGED <<plan, now, server, nonces, link, conn, serve, dials, ps, inbox>>

-----------------------------------------------------------------------------
(* misaka ps *)

\* The rows that are probed: each Sister once, and not this one.
Probed == {i \in DOMAIN plan.known :
             /\ plan.known[i].id # plan.sister
             /\ \A j \in 1 .. i - 1 : plan.known[j].id # plan.known[i].id}

\* One Iroh client, bound only if it can be of use.
PsBackend ==
  /\ plan.member
  /\ \E i \in DOMAIN plan.known : plan.known[i].iroh # <<>>
  /\ bind_iroh_backend(plan.options)

\* probe_peer_liveness: the Iroh endpoints in turn and no other transport, or TCP.
\* A Sister that is up answers Ping with Pong, in time or not.
probe_peer_liveness(i) ==
  LET row == plan.known[i]
      k == ps.tried[i] + 1
      iroh == PsBackend /\ row.iroh # <<>>
      Done(online) == ps' = [ps EXCEPT !.order = Append(@, [index |-> i, online |-> online]),
                               !.answered = IF online THEN @ \cup {row.id} ELSE @]
  IN  \/ iroh /\ k > Len(row.iroh) /\ Done(FALSE)
      \/ /\ iroh /\ k <= Len(row.iroh)
         /\ \/ ps' = [ps EXCEPT !.tried[i] = k]
            \/ /\ reachable(plan.options) \/ ~target_needs_reachable(row.iroh[k])
               /\ row.id \in ps.alive
               /\ Done(TRUE)
      \/ ~iroh /\ Done(FALSE)
      \/ ~iroh /\ row.addr /\ row.id \in ps.alive /\ Done(TRUE)

Probe(i) ==
  /\ ps.rows = <<>> /\ \A x \in ToSet(ps.order) : x.index # i
  /\ probe_peer_liveness(i)
  /\ UNCHANGED <<plan, now, server, nonces, link, conn, serve, dials, path, inbox>>


\* The probes are joined in the order they end; the rows keep the order of the store.
network_ps ==
  /\ plan.known # <<>> /\ ps.rows = <<>>
  /\ {x.index : x \in ToSet(ps.order)} = Probed
  /\ ps' = [ps EXCEPT !.rows =
       <<[id |-> plan.sister, online |-> TRUE]>>
       \o [n \in 1 .. Len(ps.order) |->
             LET x == SortSeq(ps.order, LAMBDA a, b : a.index < b.index)[n]
             IN  [id |-> plan.known[x.index].id, online |-> x.online]]]
  /\ UNCHANGED <<plan, now, server, nonces, link, conn, serve, dials, path, inbox>>

\* ps --introspect: the Sister lists its streams, and then counts them, with the
\* registry unlocked in between.
introspection_snapshot ==
  /\ plan.introspect /\ server.up
  /\ \/ ps.view = "none" /\ ps' = [ps EXCEPT !.view = "streams", !.streams = snapshot]
     \/ ps.view = "streams" /\ ps' = [ps EXCEPT !.view = "summary", !.summary = <<summary>>]
  /\ UNCHANGED <<plan, now, server, nonces, link, conn, serve, dials, path, inbox>>

\* The loopback server of the Sister answers a connection with the snapshot.
handle ==
  /\ plan.introspect /\ ps.view = "summary"
  /\ ps' = [ps EXCEPT !.view = "answered"]
  /\ UNCHANGED <<plan, now, server, nonces, link, conn, serve, dials, path, inbox>>

\* The command shows the answer, or fails: no connection, or two seconds without one.
fetch_introspection ==
  /\ plan.introspect
  /\ \/ ps.view = "answered" /\ ps' = [ps EXCEPT !.view = "shown"]
     \/ /\ ps.view \in {"streams", "summary"} \/ (ps.view = "none" /\ ~server.up)
        /\ ps' = [ps EXCEPT !.view = "failed"]
  /\ UNCHANGED <<plan, now, server, nonces, link, conn, serve, dials, path, inbox>>

SisterStops ==
  /\ plan.known # <<>>
  /\ \E p \in ps.alive : ps' = [ps EXCEPT !.alive = @ \ {p}]
  /\ UNCHANGED <<plan, now, server, nonces, link, conn, serve, dials, path, inbox>>

-----------------------------------------------------------------------------
(* The environment *)

Tick ==
  /\ "tick" \in plan.env /\ now < MaxTime
  /\ now' = now + 1
  /\ UNCHANGED <<plan, server, nonces, link, conn, serve, dials, path, ps, inbox>>

\* The human's membership is revoked at this Sister.
Revoke ==
  /\ "revoke" \in plan.env /\ ~server.revoked
  /\ server' = [server EXCEPT !.revoked = TRUE]
  /\ UNCHANGED <<plan, now, nonces, link, conn, serve, dials, path, ps, inbox>>

\* A client process dies with all of its links.
Kill(p) ==
  /\ "kill" \in plan.env /\ server.faults = 0
  /\ \E l \in Links : Cmd(l).process = p /\ link[l].pc \notin Ended
  /\ link' = [l \in Links |-> IF Cmd(l).process = p /\ link[l].pc \notin Ended
                                THEN [link[l] EXCEPT !.pc = "killed"] ELSE link[l]]
  /\ conn' = [l \in Links |-> IF Cmd(l).process = p
                                THEN [conn[l] EXCEPT !.client = FALSE] ELSE conn[l]]
  /\ server' = [server EXCEPT !.faults = 1]
  /\ UNCHANGED <<plan, now, nonces, serve, dials, path, ps, inbox>>

\* The Sister shuts down (its accept loop aborts every session) or crashes: every
\* stream is closed.  A crash may hit the write of the nonce file.
Stop ==
  /\ "stop" \in plan.env /\ server.faults = 0 /\ server.up
  /\ server' = [server EXCEPT !.up = FALSE, !.faults = 1, !.accepting = None,
                              !.backlog = <<>>, !.next_id = 1, !.entries = {}]
  /\ conn' = [l \in Links |-> IF conn[l].stage = "none" THEN conn[l]
                              ELSE [conn[l] EXCEPT !.server = FALSE, !.stage = "closed"]]
  /\ serve' = [l \in Links |-> IF serve[l].pc = "none" THEN NoHandler
                               ELSE [NoHandler EXCEPT !.pc = "ended"]]
  /\ \/ UNCHANGED nonces
     \/ /\ \E l \in Links : serve[l].pc = "nonce"
        /\ nonces' = [nonces EXCEPT !.torn = TRUE]
  /\ ps' = [ps EXCEPT !.view = IF @ \in {"streams", "summary"} THEN "failed" ELSE @]
  /\ UNCHANGED <<plan, now, link, dials, path, inbox>>

Restart ==
  /\ ~server.up
  /\ server' = [server EXCEPT !.up = TRUE]
  /\ UNCHANGED <<plan, now, nonces, link, conn, serve, dials, path, ps, inbox>>

\* A contract, or an Invite Code, reaches its verifier.
Verify ==
  /\ inbox.verdict = "none" /\ inbox.kind # "none"
  /\ inbox' = [inbox EXCEPT !.verdict =
       CASE inbox.kind = "code" -> EnrollmentInvite_decode_code(inbox.contract).error
         [] inbox.kind = "payload" -> "Ok"
         [] OTHER -> IF Accepts(inbox.kind, inbox.contract) THEN "Ok" ELSE "refused"]
  /\ UNCHANGED <<plan, now, server, nonces, link, conn, serve, dials, path, ps>>

-----------------------------------------------------------------------------
Init ==
  /\ plan \in Plans
  /\ now = 1
  /\ server = [up |-> TRUE, accepting |-> None, backlog |-> <<>>, next_id |-> 1,
               entries |-> {}, revoked |-> FALSE, faults |-> 0]
  /\ nonces = [entries |-> {}, torn |-> FALSE]
  /\ link = [l \in Links |-> [NoLink EXCEPT !.pc = IF Cmd(l).kind = "off" THEN "off"
                                                   ELSE "start"]]
  /\ conn = [l \in Links |-> NoConn]
  /\ serve = [l \in Links |-> NoHandler]
  /\ dials = <<>>
  /\ path = [real |-> plan.path, last |-> plan.path, seen |-> None, switches |-> 0,
             changes |-> 0, events |-> 0]
  /\ ps = [tried |-> [i \in DOMAIN plan.known |-> 0], order |-> <<>>, answered |-> {},
           alive |-> {plan.known[i].id : i \in DOMAIN plan.known}, rows |-> <<>>,
           view |-> "none", streams |-> {}, summary |-> <<>>]
  /\ LET Arrived(kind, c) == inbox = [kind |-> kind, contract |-> c, verdict |-> "none"]
     IN  \/ ~plan.contracts /\ Arrived("none", None)
         \/ plan.contracts /\ \E c \in Presented : Arrived(c.kind, c.contract)
         \/ plan.contracts /\ \E c \in Codes : Arrived("code", c)
         \/ plan.contracts /\ \E p \in Payloads : Arrived("payload", p)

Handler(l) ==
  \/ echo_stream(l) \/ serve_iroh_stream(l) \/ ReadPreamble(l) \/ Echo(l)
  \/ BrokenStream(l) \/ ReadTunnelRequest(l) \/ authorize_stream_operation(l)
  \/ record(l) \/ DialRemote(l) \/ CopyRemote(l)

AcceptStep ==
  Accept \/ \E l \in Links : AcceptHandshake(l) \/ AcceptTimeout(l) \/ IrohAccept(l)

Client(l) ==
  \/ Connect(l) \/ Dialled(l) \/ ReadGreeting(l) \/ exchange(l) \/ exchange_read(l)
  \/ ProbeEnds(l) \/ LargeWrite(l) \/ LargeRead(l) \/ large_stream(l)
  \/ ReadFails(l) \/ proxy_tunnel(l) \/ WriteTunnelRequest(l) \/ ProxyDown(l) \/ ProxyEnds(l)

PsStep ==
  network_ps \/ introspection_snapshot \/ handle \/ fetch_introspection
  \/ \E i \in Probed : Probe(i)

Next ==
  \/ \E l \in Links : Handler(l) \/ Client(l) \/ LocalProgram(l) \/ run_ssh(l)
  \/ AcceptStep
  \/ PsStep
  \/ SelectPath \/ ObservePath \/ SisterStops
  \/ Tick \/ Revoke \/ Stop \/ Restart \/ Verify
  \/ \E p \in Links : Kill(p)

\* Tasks are scheduled and timers fire.  Nothing is asked of local programs, of a
\* client that stays silent, or of the environment.
Fairness ==
  /\ WF_vars(AcceptStep)
  /\ \A l \in Links : WF_vars(Handler(l)) /\ WF_vars(Cmd(l).kind # "silent" /\ Client(l))
  /\ WF_vars(PsStep)

Spec == Init /\ [][Next]_vars /\ Fairness

-----------------------------------------------------------------------------
(* Properties *)

\* Authorizations that the CLI of the human issued.
IssuedByHuman ==
  UNION {ToSet(link[l].request.authorization) : l \in {x \in Links : ~Cmd(x).again}}

\* Every connection the Sister opens for a tunnel was asked for by a human the
\* Authority gave a role that allows it, for this Sister and exactly this address,
\* with an authorization and a membership that were valid and not revoked when the
\* request arrived; and while an authorization is valid it opens one tunnel, however
\* often its request arrives and although the Sister restarts.  A probe-only Sister
\* opens none, and only a development Sister opens one for nobody
\* (authorize_stream_operation, receive_tunnel_with_node).
DialsAuthorized ==
  /\ \A i \in DOMAIN dials :
       /\ ~plan.probe_only
       /\ dials[i].authorization = <<>> => plan.allow_unauthenticated_operations
       /\ \A a \in ToSet(dials[i].authorization) :
            /\ a \in IssuedByHuman
            /\ a.target = plan.sister
            /\ a.constraints = <<dials[i].remote>>
            /\ Role_allows(a.membership.role, a.permission)
            /\ a.issued_at <= dials[i].receivedAt /\ dials[i].receivedAt <= a.expires_at
            /\ a.membership.expires_at # None =>
                 dials[i].receivedAt <= a.membership.expires_at
            /\ ~dials[i].revokedThen
  /\ \A i, j \in DOMAIN dials :
       \A a \in ToSet(dials[i].authorization) \cap ToSet(dials[j].authorization) :
         (dials[i].recordedAt <= a.expires_at /\ dials[j].recordedAt <= a.expires_at)
           => i = j


\* Whatever a verifier accepts was issued as it stands, by the key that may say so and
\* in its time; an Invite Code that is accepted is the only text of what it carries,
\* and the code of an invite brings that invite back (the verify functions of
\* misaka-core; decode_code and encode_code).
Genuine ==
  inbox.verdict = "Ok" =>
    /\ inbox.kind \in DOMAIN Issued => inbox.contract \in Issued[inbox.kind]
    /\ Vouched(inbox.kind, inbox.contract)
    /\ CodeFaithful(inbox.kind, inbox.contract)

\* A command whose waits are bounded ends, and once a client has ended or died its
\* handler ends and its stream leaves the registry, and the accept loop is free again:
\* however the two ends, a silent neighbour and a stop of the Sister interleave.
Quiet ==
  /\ server.accepting = None
  /\ \A l \in Links :
       /\ Cmd(l).kind \in {"test", "connect"} /\ Cmd(l).mode # "hold" => link[l].pc \in Ended
       /\ link[l].pc \in Ended => serve[l].pc \in {"none", "ended"}


=============================================================================
