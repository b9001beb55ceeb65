------------------------------ MODULE Sessions ------------------------------
(***************************************************************************)
(* Iroh sessions and the logical streams on them: how a Sister dials       *)
(* another one, authenticates, is given a service and loses it again.      *)
(* A call is one logical operation (control_channel::send, a CLI stream,   *)
(* ConnectionManager::open_stream, an enrollment dial); it dials session   *)
(* number c when it needs one of its own, and owns one stream.             *)
(*                                                                         *)
(* Bytes are counted in messages: the client sends 1 the NetworkId         *)
(* handshake, 2 its ClientHello, 3 the service prefix, 4 the control frame *)
(* or the service's data; the server answers 1 handshake, 2 ServerHello,   *)
(* 3 the "world" greeting, 4 the control response.                         *)
(***************************************************************************)
EXTENDS Naturals, FiniteSets

CONSTANTS
  Sisters,      \* Sister processes; each one is also the Iroh endpoint it binds
  Calls,        \* 1..n, the calls a plan may name
  MaxSessions,  \* MAX_IROH_SESSIONS
  MaxStreams,   \* MAX_IROH_STREAMS
  Plans         \* what the Sisters are and do, one of them chosen initially

ASSUME SessionsAssumption ==
  /\ Calls \subseteq Nat \ {0}
  /\ MaxSessions \in Nat
  /\ MaxStreams \in Nat

\* A handler sends with control_channel::send, never through the manager, and the managed
\* calls are the ones to the Sister whose entry of the manager is modelled.
ASSUME PlansAssumption ==
  \A p \in Plans :
    /\ DOMAIN p.call \subseteq Calls
    /\ \A c \in DOMAIN p.call :
         p.call[c].next # 0 => /\ p.call[c].next \in DOMAIN p.call
                               /\ p.call[p.call[c].next].kind # "managed"
    /\ \A c, d \in DOMAIN p.call :
         p.call[c].kind = "managed" /\ p.call[d].kind = "managed" =>
           p.call[c].to = p.call[d].to /\ p.call[c].want = p.call[d].want

VARIABLES
  plan,     \* the scenario: calls, credentials and the faults it allows
  pc,       \* pc[c]: where the client of call c stands
  via,      \* via[c]: the session the stream of c is on, 0 for Direct TCP
  sent,     \* sent[c]: messages the client has written
  answered, \* answered[c]: messages the server has written
  srv,      \* srv[c]: the server's end of the stream
  sess,     \* sess[k]: the QUIC connection dialed by call k
  loop,     \* loop[k]: the task that serves it
  free,     \* free[t]: permits left in session_slots and stream_slots
  run,      \* run[t]: the runtime of t
  mgr,      \* the ConnectionManager of plan.owner, for one Sister
  revoked,  \* revoked[t]: Sisters in t's revocation store
  stuck,    \* calls whose process hangs with the connection alive
  faults    \* hangs and lost connections left

world == <<plan, run, revoked, stuck, faults>>
client == <<pc, via, sent>>
server == <<answered, srv, loop, free>>
vars == <<world, client, server, sess, mgr>>

-----------------------------------------------------------------------------
(* Plans *)

\* kind: "hello" (control request with a reply, answered before its handler
\* pushes peer records), "request" (control request without a reply whose
\* handler sends before it ends), "send" (the same with nothing to send), "raw"
\* (CLI stream), "managed" (ConnectionManager) or "enroll".
Call(c) == plan.call[c]
Live == DOMAIN plan.call
From(c) == Call(c).from
To(c) == Call(c).to

\* The calls that handlers start.
Nested == {Call(c).next : c \in Live} \ {0}

Over(c) == pc[c] \in {"done", "failed", "refused"}

\* ConnectionManager::new: no state is kept for the Sister, and none is Disconnected.
NewManager == [state |-> "Disconnected", session |-> 0]

Init ==
  /\ plan \in Plans
  /\ pc = [c \in Calls |-> "off"]
  /\ via = [c \in Calls |-> 0]
  /\ sent = [c \in Calls |-> 0]
  /\ answered = [c \in Calls |-> 0]
  /\ srv = [c \in Calls |-> "none"]
  /\ sess = [k \in Calls |-> "none"]
  /\ loop = [k \in Calls |-> "none"]
  /\ free = [t \in Sisters |-> [sessions |-> MaxSessions, streams |-> MaxStreams]]
  /\ run = [t \in Sisters |-> IF t \in plan.boot THEN "boot" ELSE "run"]
  /\ mgr = NewManager
  /\ revoked = [t \in Sisters |-> {}]
  /\ stuck = {}
  /\ faults = plan.faults

-----------------------------------------------------------------------------
(* Authentication: a hello carries the sender's membership certificate and    *)
(* its transport binding, signed, with a fresh nonce.                         *)

\* cert[s]: the Network and the Sister the certificate names, whether it is
\* inside its validity window, and the endpoint its binding names.
Cert(s) == plan.cert[s]

membership_is_revoked(t, s) == Cert(s).id \in revoked[t]

endpoint_matches_binding(s) == Cert(s).bound = s

\* The handshake of a stream carries the NetworkId of its sender.
validate_network_id(c) == Cert(From(c)).net = Cert(To(c)).net

validate_local(s) == Cert(s).valid /\ ~membership_is_revoked(s, s)

validate_client(t, c) ==
  LET peer == Cert(From(c)) IN
  /\ peer.net = Cert(t).net
  /\ peer.valid
  /\ ~membership_is_revoked(t, From(c))
  /\ endpoint_matches_binding(From(c))

\* Mutant: the responder is not pinned to the Sister the caller wants.
validate_server_any(c) ==
  LET peer == Cert(To(c)) IN
  /\ peer.net = Cert(From(c)).net
  /\ peer.valid
  /\ ~membership_is_revoked(From(c), To(c))
  /\ endpoint_matches_binding(To(c))

validate_server(c) ==
  LET peer == Cert(To(c)) IN
  /\ peer.net = Cert(From(c)).net
  /\ peer.id = Call(c).want
  /\ peer.valid
  /\ ~membership_is_revoked(From(c), To(c))
  /\ endpoint_matches_binding(To(c))

-----------------------------------------------------------------------------
(* Clients *)

\* The hangs considered are those of the process that made the call, never of a
\* Sister that others wait for.
MayHang(c) ==
  /\ faults.stall > 0
  /\ c \notin Nested
  /\ Call(c).kind \in {"send", "raw", "managed", "enroll"}

Step(c, at) == pc[c] = at /\ c \notin stuck

\* The stream cannot carry another byte to the client.
Dead(c) == srv[c] = "gone" \/ (via[c] # 0 /\ sess[via[c]] = "closed")

\* read_exact for message n fails: the peer ended the stream before writing it,
\* or the connection closed, with what was still in flight.
ReadFails(c, n) ==
  \/ Dead(c) /\ answered[c] < n
  \/ via[c] # 0 /\ sess[via[c]] = "closed"

DialTo(c) ==
  /\ pc' = [pc EXCEPT ![c] = "dial"]
  /\ via' = [via EXCEPT ![c] = c]
  /\ sess' = [sess EXCEPT ![c] = "incoming"]

\* connect_session_for_network.  Hellos to bootstrap peers are sent before the
\* runtime runs, other control requests by its background tasks.
Connect(c) ==
  /\ c \in Live \ Nested
  /\ Step(c, "off")
  /\ Call(c).kind # "managed"
  /\ Call(c).kind = "hello" => run[From(c)] \in {"boot", "run"}
  /\ Call(c).kind \in {"request", "send"} => run[From(c)] = "run"
  /\ DialTo(c)
  /\ UNCHANGED <<world, server, sent, mgr>>

\* Mutant: a failed attempt leaves the manager Connecting.
FailNoReset(c) ==
  /\ pc' = [pc EXCEPT ![c] = "failed"]
  /\ mgr' = mgr

\* The call returns an error; open_stream resets its state first.
Fail(c) ==
  /\ pc' = [pc EXCEPT ![c] = "failed"]
  /\ mgr' = IF Call(c).kind = "managed"
            THEN [mgr EXCEPT !.state = "Disconnected"] ELSE mgr

ConnectFails(c) ==
  /\ Step(c, "dial")
  /\ sess[c] = "closed" \/ run[To(c)] = "stopped"
  /\ Fail(c)
  /\ UNCHANGED <<world, server, via, sent, sess>>

\* IrohSession::open_stream: the stream appears at the peer with the first bytes
\* of the handshake; a process that hangs here may have written only part of it.
OpenStream(c) ==
  /\ Step(c, "dial")
  /\ sess[c] = "up"
  /\ Call(c).kind # "enroll"
  /\ pc' = [pc EXCEPT ![c] = "open"]
  /\ srv' = [srv EXCEPT ![c] = "opened"]
  /\ \/ /\ sent' = [sent EXCEPT ![c] = 1]
        /\ UNCHANGED <<stuck, faults>>
     \/ /\ MayHang(c)
        /\ faults' = [faults EXCEPT !.stall = @ - 1]
        /\ stuck' = stuck \cup {c}
        /\ sent' = sent
  /\ UNCHANGED <<plan, via, answered, sess, loop, free, run, mgr, revoked>>

\* The handshake is answered within HANDSHAKE_TIMEOUT; authenticate_client then
\* signs and writes its ClientHello.
WriteHello(c) ==
  /\ Step(c, "open")
  /\ answered[c] >= 1
  /\ validate_local(From(c))
  /\ pc' = [pc EXCEPT ![c] = "auth"]
  /\ sent' = [sent EXCEPT ![c] = 2]
  /\ UNCHANGED <<world, server, via, sess, mgr>>

OpenStreamFails(c) ==
  /\ Step(c, "open")
  /\ answered[c] < 1 \/ Dead(c) \/ ~validate_local(From(c))
  /\ Fail(c)
  /\ UNCHANGED <<world, server, via, sent, sess>>

\* authenticate_client returns the stream; the manager keeps the session.
Authenticated(c) ==
  /\ Step(c, "auth")
  /\ answered[c] >= 2
  /\ IF validate_server(c)
     THEN /\ pc' = [pc EXCEPT ![c] = "greet"]
          /\ mgr' = IF Call(c).kind = "managed"
                    THEN [state |-> "Connected", session |-> c] ELSE mgr
     ELSE Fail(c)
  /\ UNCHANGED <<world, server, via, sent, sess>>

AuthenticateFails(c) ==
  /\ Step(c, "auth")
  /\ ReadFails(c, 2)
  /\ Fail(c)
  /\ UNCHANGED <<world, server, via, sent, sess>>

\* The client has read "world"; it names its service and writes the control
\* frame, after which a request without a reply is over, or the first data of a
\* stream its owner now uses.  A process that hangs here has written the prefix.
WriteRequest(c) ==
  /\ Step(c, "greet")
  /\ answered[c] >= 3
  /\ \/ /\ sent' = [sent EXCEPT ![c] = 4]
        /\ pc' = [pc EXCEPT ![c] =
             CASE Call(c).kind = "hello" -> "reply"
               [] Call(c).kind \in {"request", "send"} -> "done"
               [] OTHER -> "using"]
        /\ UNCHANGED <<stuck, faults>>
     \/ /\ MayHang(c)
        /\ faults' = [faults EXCEPT !.stall = @ - 1]
        /\ stuck' = stuck \cup {c}
        /\ sent' = [sent EXCEPT ![c] = 3]
        /\ pc' = pc
  /\ UNCHANGED <<server, plan, via, sess, run, mgr, revoked>>

ReadReply(c) ==
  /\ Step(c, "reply")
  /\ answered[c] = 4
  /\ pc' = [pc EXCEPT ![c] = "done"]
  /\ UNCHANGED <<world, server, via, sent, sess, mgr>>

SendFails(c) ==
  /\ Call(c).kind # "managed"
  /\ \/ Step(c, "greet") /\ ReadFails(c, 3)
     \/ Step(c, "reply") /\ ReadFails(c, 4)
     \/ Step(c, "using") /\ ReadFails(c, 4)
  /\ pc' = [pc EXCEPT ![c] = "failed"]
  /\ UNCHANGED <<world, server, via, sent, sess, mgr>>

\* An owner is done with its stream.
Close(c) ==
  /\ Step(c, "using")
  /\ pc' = [pc EXCEPT ![c] = "done"]
  /\ UNCHANGED <<world, server, via, sent, sess, mgr>>

\* The caller of a managed stream reports that it broke.
mark_disconnected(c) ==
  /\ Call(c).kind = "managed"
  /\ \E at \in {"greet", "using"} : Step(c, at)
  /\ Dead(c)
  /\ pc' = [pc EXCEPT ![c] = "done"]
  /\ mgr' = [mgr EXCEPT !.state = "Disconnected"]
  /\ UNCHANGED <<world, server, via, sent, sess>>

\* The enrollment client has its session; the exchange itself is Enrollment's.
EnrollDialed(c) ==
  /\ Step(c, "dial")
  /\ Call(c).kind = "enroll"
  /\ sess[c] = "up"
  /\ pc' = [pc EXCEPT ![c] = "using"]
  /\ UNCHANGED <<world, server, via, sent, sess, mgr>>

\* The deferred push of peer records gives up after five seconds.
PushTimesOut(c) ==
  /\ \E h \in Live : Call(h).kind = "hello" /\ Call(h).next = c
  /\ pc[c] # "off" /\ ~Over(c)
  /\ pc' = [pc EXCEPT ![c] = "failed"]
  /\ UNCHANGED <<world, server, via, sent, sess, mgr>>

-----------------------------------------------------------------------------
(* ConnectionManager::open_stream *)

\* The peer table names the Sister with an endpoint that parses.
has_endpoint(c) == Call(c).want \in plan.known

\* The callers are numbered in the order in which they call.
OpenManaged(c) ==
  /\ c \in Live
  /\ Call(c).kind = "managed"
  /\ Step(c, "off")
  /\ \A d \in Live : d < c => pc[d] # "off"
  /\ \/ /\ mgr.state = "Connecting"
        /\ pc' = [pc EXCEPT ![c] = "refused"]
        /\ UNCHANGED <<via, sent, srv, sess, mgr>>
     \/ /\ mgr.state # "Connecting"
        /\ mgr.session # 0
        /\ sess[mgr.session] # "closed"
        /\ mgr' = [mgr EXCEPT !.state = "Connecting"]
        /\ pc' = [pc EXCEPT ![c] = "reuse"]
        /\ via' = [via EXCEPT ![c] = mgr.session]
        /\ sent' = [sent EXCEPT ![c] = 1]
        /\ srv' = [srv EXCEPT ![c] = "opened"]
        /\ sess' = sess
     \/ /\ mgr.state # "Connecting"
        /\ mgr.session # 0 => sess[mgr.session] = "closed"
        /\ has_endpoint(c)
        /\ mgr' = [state |-> "Connecting", session |-> 0]
        /\ DialTo(c)
        /\ UNCHANGED <<sent, srv>>
     \/ /\ mgr.state # "Connecting"
        /\ mgr.session # 0 => sess[mgr.session] = "closed"
        /\ ~has_endpoint(c)
        /\ mgr' = [state |-> "Disconnected", session |-> 0]
        /\ pc' = [pc EXCEPT ![c] = "failed"]
        /\ UNCHANGED <<via, sent, srv, sess>>
  /\ UNCHANGED <<world, answered, loop, free>>

\* The stream on the cached session is handed out after its handshake.
Reused(c) ==
  /\ Step(c, "reuse")
  /\ answered[c] >= 1
  /\ mgr' = [mgr EXCEPT !.state = "Connected"]
  /\ pc' = [pc EXCEPT ![c] = "greet"]
  /\ UNCHANGED <<world, server, via, sent, sess>>

\* The handshake failed or timed out: close and evict, then connect afresh.
ReuseFails(c) ==
  /\ Step(c, "reuse")
  /\ answered[c] < 1
  /\ mgr' = [mgr EXCEPT !.session = 0]
  /\ pc' = [pc EXCEPT ![c] = "dial"]
  /\ sess' = [sess EXCEPT ![via[c]] = "closed", ![c] = "incoming"]
  /\ via' = [via EXCEPT ![c] = c]
  /\ sent' = [sent EXCEPT ![c] = 0]
  /\ srv' = [srv EXCEPT ![c] = "none"]
  /\ UNCHANGED <<world, answered, loop, free>>

\* stream_accept_loop: a Direct TCP stream gets a task without a permit, and no
\* authentication, and is greeted by its service.
ServeTcp(c) ==
  /\ run[To(c)] = "run"
  /\ srv' = [srv EXCEPT ![c] = "service"]
  /\ answered' = [answered EXCEPT ![c] = 3]

\* connect_to_sister_with_session races the Sister's candidates: a Direct TCP
\* one that answers first wins and the Iroh attempt is dropped.
RaceTcp(c) ==
  /\ Call(c).kind = "managed"
  /\ plan.tcp
  /\ \E at \in {"dial", "open"} : Step(c, at)
  /\ srv[c] \in {"none", "opened"}
  /\ validate_network_id(c)
  /\ ServeTcp(c)
  /\ pc' = [pc EXCEPT ![c] = "greet"]
  /\ via' = [via EXCEPT ![c] = 0]
  /\ sess' = [sess EXCEPT ![c] = "closed"]
  /\ mgr' = [mgr EXCEPT !.state = "Connected"]
  /\ UNCHANGED <<world, sent, loop, free>>

-----------------------------------------------------------------------------
(* Servers *)

HasPermit(c) == srv[c] \in {"auth", "prefix", "control", "dispatch", "service"}
                  /\ via[c] # 0

\* Handlers that are dropped take the send they await with them.
Cancelled(X) == {Call(c).next : c \in {x \in X : srv[x] = "dispatch"}}

\* The tasks of the streams X of Sister t end, on their own or aborted.
EndStreams(t, X, sessions) ==
  /\ srv' = [c \in Calls |-> IF c \in X THEN "gone" ELSE srv[c]]
  /\ free' = [free EXCEPT ![t] =
       [sessions |-> @.sessions + sessions,
        streams  |-> @.streams + Cardinality({c \in X : HasPermit(c)})]]
  /\ pc' = [c \in Calls |->
       IF c \in Cancelled(X) /\ ~Over(c) THEN "failed" ELSE pc[c]]

EndStream(c) == EndStreams(To(c), {c}, 0)

\* A connection is accepted: its session gets a permit and a task, or is closed.
AcceptSession(k) ==
  LET t == To(k) IN
  /\ sess[k] = "incoming"
  /\ run[t] = "run"
  /\ IF free[t].sessions = 0
     THEN /\ sess' = [sess EXCEPT ![k] = "closed"]
          /\ UNCHANGED <<loop, free>>
     ELSE \/ /\ Call(k).kind = "enroll" => t \in plan.authority
             /\ sess' = [sess EXCEPT ![k] = "up"]
             /\ loop' = [loop EXCEPT ![k] =
                  IF Call(k).kind = "enroll" THEN "enroll" ELSE "accept"]
             /\ free' = [free EXCEPT ![t].sessions = @ - 1]
          \/ /\ Call(k).kind = "enroll" /\ t \notin plan.authority
             /\ sess' = [sess EXCEPT ![k] = "closed"]
             /\ UNCHANGED <<loop, free>>
  /\ UNCHANGED <<world, client, answered, srv, mgr>>

\* The caller hangs or is gone: its connection handshake times out.
AcceptSessionFails(k) ==
  /\ sess[k] = "incoming"
  /\ run[To(k)] = "run"
  /\ k \in stuck \/ Over(k)
  /\ sess' = [sess EXCEPT ![k] = "closed"]
  /\ UNCHANGED <<world, client, server, mgr>>

\* Leaving the loop aborts every stream of the session.  Whether dropping the
\* server's handle closes the connection is up to Iroh, while a client holds it.
EndSession(k) ==
  /\ EndStreams(To(k), {c \in Live : via[c] = k /\ HasPermit(c)}, 1)
  /\ loop' = [loop EXCEPT ![k] = "ended"]
  /\ \E after \in {sess[k], "closed"} :
       /\ Over(k) /\ mgr.session # k => after = "closed"
       /\ sess' = [sess EXCEPT ![k] = after]
  /\ UNCHANGED <<world, via, sent, answered, mgr>>

\* Mutant: a stream that finds no permit is kept instead of dropped.
AcceptStreamKeeps(k, c) ==
  /\ loop[k] = "accept"
  /\ sess[k] = "up"
  /\ via[c] = k /\ srv[c] = "opened"
  /\ sent[c] >= 1
  /\ validate_network_id(c)
  /\ answered' = [answered EXCEPT ![c] = 1]
  /\ IF free[To(c)].streams > 0
     THEN /\ srv' = [srv EXCEPT ![c] = "auth"]
          /\ free' = [free EXCEPT ![To(c)].streams = @ - 1]
     ELSE UNCHANGED <<srv, free>>
  /\ UNCHANGED <<world, client, sess, loop, mgr>>

\* iroh_session_loop: the next stream's handshake is read and answered, then the
\* stream gets a permit and a task, or is dropped.
AcceptStream(k, c) ==
  /\ loop[k] = "accept"
  /\ sess[k] = "up"
  /\ via[c] = k /\ srv[c] = "opened"
  /\ sent[c] >= 1
  /\ validate_network_id(c)
  /\ answered' = [answered EXCEPT ![c] = 1]
  /\ IF free[To(c)].streams > 0
     THEN /\ srv' = [srv EXCEPT ![c] = "auth"]
          /\ free' = [free EXCEPT ![To(c)].streams = @ - 1]
     ELSE /\ srv' = [srv EXCEPT ![c] = "gone"]
          /\ free' = free
  /\ UNCHANGED <<world, client, sess, loop, mgr>>

\* The handshake names another Network or is not completed in time: accept_stream
\* fails, and with it the session.
AcceptStreamFails(k, c) ==
  /\ loop[k] = "accept"
  /\ via[c] = k /\ srv[c] = "opened"
  /\ sent[c] = 0 \/ ~validate_network_id(c)
  /\ EndSession(k)

\* Mutant: accept_stream waits for the next stream without a bound.
AcceptStreamTimesOutNever(k) ==
  /\ loop[k] = "accept"
  /\ sess[k] = "closed"
  /\ EndSession(k)

\* No further stream within HANDSHAKE_TIMEOUT: accept_stream fails.
AcceptStreamTimesOut(k) ==
  /\ loop[k] = "accept"
  /\ EndSession(k)

\* The connection is closed or the runtime is shutting down.
SessionLoopBreaks(k) ==
  /\ loop[k] \in {"accept", "enroll"}
  /\ sess[k] = "closed" \/ run[To(k)] = "drain"
  /\ EndSession(k)

\* serve_session returns: served, refused or timed out.
EnrollmentServed(k) ==
  /\ loop[k] = "enroll"
  /\ EndSession(k)

\* authenticate_server, then the greeting of serve_iroh_stream.
AuthenticateServer(c) ==
  /\ srv[c] = "auth"
  /\ sent[c] >= 2
  /\ IF validate_local(To(c)) /\ validate_client(To(c), c)
     THEN /\ srv' = [srv EXCEPT ![c] = "prefix"]
          /\ answered' = [answered EXCEPT ![c] = 3]
          /\ UNCHANGED <<pc, free>>
     ELSE EndStream(c) /\ answered' = answered
  /\ UNCHANGED <<world, via, sent, sess, loop, mgr>>

\* The client did not write a ClientHello within AUTH_HANDSHAKE_TIMEOUT.
AuthenticateTimesOut(c) ==
  /\ srv[c] = "auth"
  /\ sent[c] < 2
  /\ EndStream(c)
  /\ UNCHANGED <<world, via, sent, answered, sess, loop, mgr>>

Control(c) == Call(c).kind \in {"hello", "request", "send"}

read_service_prefix(c) ==
  /\ srv[c] = "prefix"
  /\ sent[c] >= 3
  /\ srv' = [srv EXCEPT ![c] = IF Control(c) THEN "control" ELSE "service"]
  /\ UNCHANGED <<world, client, answered, sess, loop, free, mgr>>

\* No prefix within SERVICE_PREFIX_TIMEOUT.
PrefixTimesOut(c) ==
  /\ srv[c] = "prefix"
  /\ sent[c] < 3
  /\ EndStream(c)
  /\ UNCHANGED <<world, via, sent, answered, sess, loop, mgr>>

\* control_channel::serve: no frame within CONTROL_READ_TIMEOUT.
FrameTimesOut(c) ==
  /\ srv[c] = "control"
  /\ sent[c] < 4
  /\ EndStream(c)
  /\ UNCHANGED <<world, via, sent, answered, sess, loop, mgr>>

StartNested(c) ==
  IF Call(c).next = 0 THEN UNCHANGED <<pc, via, sess>> ELSE DialTo(Call(c).next)

\* Hello: the peer is remembered and answered; the push of peer records is a
\* task of its own.
DispatchHello(c) ==
  /\ srv[c] = "control"
  /\ sent[c] = 4
  /\ Call(c).kind = "hello"
  /\ answered' = [answered EXCEPT ![c] = 4]
  /\ srv' = [srv EXCEPT ![c] = "gone"]
  /\ free' = [free EXCEPT ![To(c)].streams = @ + 1]
  /\ StartNested(c)
  /\ UNCHANGED <<world, sent, loop, mgr>>

\* JobRequest or a forwarded Job: the handler awaits its own send; other requests
\* are handled at once.
DispatchRequest(c) ==
  /\ srv[c] = "control"
  /\ sent[c] = 4
  /\ Call(c).kind = "request"
  /\ srv' = [srv EXCEPT ![c] = "dispatch"]
  /\ StartNested(c)
  /\ UNCHANGED <<world, sent, answered, loop, free, mgr>>

DispatchSend(c) ==
  /\ srv[c] = "control"
  /\ sent[c] = 4
  /\ Call(c).kind = "send"
  /\ EndStream(c)
  /\ UNCHANGED <<world, via, sent, answered, sess, loop, mgr>>

DispatchEnds(c) ==
  /\ srv[c] = "dispatch"
  /\ Over(Call(c).next)
  /\ EndStream(c)
  /\ UNCHANGED <<world, via, sent, answered, sess, loop, mgr>>

\* A transfer, tunnel or echo ends when its client ends it (the far end of a
\* tunnel counts as the client here).
ServiceEnds(c) ==
  /\ srv[c] = "service"
  /\ Over(c)
  /\ EndStream(c)
  /\ UNCHANGED <<world, via, sent, answered, sess, loop, mgr>>

-----------------------------------------------------------------------------
(* Runtimes and faults *)

\* SisterRuntime::run starts its loops once the bootstrap hellos have returned.
Run(t) ==
  /\ run[t] = "boot"
  /\ \A c \in Live \ Nested : From(c) = t /\ Call(c).kind = "hello" => Over(c)
  /\ run' = [run EXCEPT ![t] = "run"]
  /\ UNCHANGED <<client, server, plan, sess, mgr, revoked, stuck, faults>>

Shutdown(t) ==
  /\ t \in plan.stops
  /\ run[t] = "run"
  /\ run' = [run EXCEPT ![t] = "drain"]
  /\ UNCHANGED <<client, server, plan, sess, mgr, revoked, stuck, faults>>

\* The loops are drained or shutdown_timeout has passed; the endpoint closes and
\* the process exits.
Stop(t) ==
  /\ run[t] = "drain"
  /\ run' = [run EXCEPT ![t] = "stopped"]
  /\ sess' = [k \in Calls |->
       IF k \in Live /\ t \in {From(k), To(k)} /\ sess[k] \in {"incoming", "up"}
       THEN "closed" ELSE sess[k]]
  /\ loop' = [k \in Calls |->
       IF k \in Live /\ To(k) = t /\ loop[k] # "none" THEN "ended" ELSE loop[k]]
  /\ srv' = [c \in Calls |->
       IF c \in Live /\ To(c) = t /\ srv[c] # "none" THEN "gone" ELSE srv[c]]
  /\ free' = [free EXCEPT ![t] = [sessions |-> MaxSessions, streams |-> MaxStreams]]
  /\ pc' = [c \in Calls |->
       IF c \in Live /\ From(c) = t /\ Control(c) /\ ~Over(c) THEN "failed" ELSE pc[c]]
  /\ UNCHANGED <<plan, via, sent, answered, mgr, revoked, stuck, faults>>

\* A client process hangs; its connection stays up.
Stall(c) ==
  /\ MayHang(c)
  /\ pc[c] # "off" /\ ~Over(c)
  /\ c \notin stuck
  /\ stuck' = stuck \cup {c}
  /\ faults' = [faults EXCEPT !.stall = @ - 1]
  /\ UNCHANGED <<client, server, plan, sess, run, mgr, revoked>>

\* The connection is lost.  (One closed because the client is gone is the same
\* to the server as no further stream.)
ConnectionCloses(k) ==
  /\ sess[k] = "up"
  /\ faults.cut > 0
  /\ faults' = [faults EXCEPT !.cut = @ - 1]
  /\ sess' = [sess EXCEPT ![k] = "closed"]
  /\ UNCHANGED <<client, server, plan, run, mgr, revoked, stuck>>

\* `misaka network revoke` on the device of t.
Revoke(t, s) ==
  /\ <<t, s>> \in plan.revokes
  /\ s \notin revoked[t]
  /\ revoked' = [revoked EXCEPT ![t] = @ \cup {s}]
  /\ UNCHANGED <<client, server, plan, sess, run, mgr, stuck, faults>>

-----------------------------------------------------------------------------
(* Specification *)

Client(c) ==
  \/ ConnectFails(c) \/ OpenStream(c) \/ WriteHello(c) \/ OpenStreamFails(c)
  \/ Authenticated(c) \/ AuthenticateFails(c) \/ WriteRequest(c)
  \/ ReadReply(c) \/ SendFails(c) \/ mark_disconnected(c) \/ EnrollDialed(c)
  \/ PushTimesOut(c) \/ Reused(c) \/ ReuseFails(c)

Server(c) ==
  \/ AuthenticateServer(c) \/ AuthenticateTimesOut(c) \/ read_service_prefix(c)
  \/ PrefixTimesOut(c) \/ FrameTimesOut(c) \/ DispatchHello(c)
  \/ DispatchRequest(c) \/ DispatchSend(c) \/ DispatchEnds(c) \/ ServiceEnds(c)

Accept(k) == AcceptSession(k) \/ AcceptSessionFails(k)

SessionLoop(k) ==
  \/ \E c \in Live : AcceptStream(k, c) \/ AcceptStreamFails(k, c)
  \/ AcceptStreamTimesOut(k)
  \/ SessionLoopBreaks(k)
  \/ EnrollmentServed(k)

Next ==
  \/ \E c \in Live : \/ Connect(c) \/ OpenManaged(c) \/ RaceTcp(c) \/ Close(c)
                     \/ Client(c) \/ Server(c) \/ Accept(c) \/ SessionLoop(c)
                     \/ Stall(c) \/ ConnectionCloses(c)
  \/ \E t \in Sisters : Run(t) \/ Shutdown(t) \/ Stop(t)
  \/ \E t, s \in Sisters : Revoke(t, s)

\* Every client that does not hang goes on, every task is polled, and every
\* timer fires.
Fairness ==
  /\ \A c \in Calls : /\ WF_vars(c \in Live /\ Client(c))
                      /\ WF_vars(c \in Live /\ Server(c))
                      /\ WF_vars(c \in Live /\ Accept(c))
                      /\ WF_vars(c \in Live /\ SessionLoop(c))
  /\ \A t \in Sisters : WF_vars(Run(t) \/ Stop(t))

Spec == Init /\ [][Next]_vars /\ Fairness

-----------------------------------------------------------------------------
(* Properties *)

\* The two ends of an authenticated stream are who they take each other for: a
\* client goes past authenticate_client only with the Sister it wanted, and a
\* stream reaches a service only for the certified Sister that opened it, also
\* when an endpoint on file now answers for another Sister.
MutualIdentity ==
  \A c \in Live : via[c] # 0 =>
    /\ pc[c] \in {"greet", "reply", "using"} /\ Call(c).kind # "enroll"
         => Cert(To(c)).id = Call(c).want
    /\ srv[c] \in {"prefix", "control", "dispatch", "service"} =>
         /\ Cert(From(c)).net = Cert(To(c)).net
         /\ Cert(From(c)).bound = From(c)

\* The manager is Connecting only while a call is opening a stream: no way out
\* of open_stream leaves every later call refused as AlreadyConnecting.
NotWedged ==
  mgr.state = "Connecting" =>
    \E c \in Live : Call(c).kind = "managed"
                      /\ pc[c] \in {"dial", "open", "reuse", "auth"}

\* Every dial, send and open comes to an end, although the client waits for
\* hellos, greetings and replies without a timeout: the server's bounds and its
\* refusals at capacity unblock it, also when handlers of two Sisters send to
\* each other and when a Sister greets before it accepts.
CallsEnd ==
  \A c \in Calls : []<>(pc[c] \in {"off", "using"} \/ Over(c) \/ c \in stuck)

\* All permits come back, whatever hung, broke, was refused or shut down.
SlotsReturn ==
  \A t \in Sisters :
    <>[](free[t] = [sessions |-> MaxSessions, streams |-> MaxStreams])

\* "dispatches its logical streams independently": a service in use is cut only
\* by its own client, by the connection or by a shutdown.
StreamsIndependent ==
  [][\A c \in Live : srv[c] = "service" /\ srv'[c] = "gone" =>
       \/ Over(c)
       \/ via[c] # 0 /\ sess[via[c]] = "closed"
       \/ run[To(c)] # "run"]_vars

=============================================================================
