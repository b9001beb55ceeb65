----------------------------- MODULE Enrollment -----------------------------
(***************************************************************************)
(* How a device becomes a member of a Network, down to the files of its     *)
(* data directory: `network init`, `invite`, `join`, `invite-legacy`,       *)
(* `join-legacy`, `revoke` and `human init`, `start` up to the running      *)
(* Sister, the stores they use, and the enrollment exchange between a       *)
(* joining device and the Sister that holds the Authority key.              *)
(*                                                                          *)
(* A device runs at most one command line process ("cli") and one Sister    *)
(* ("sister") at a time.  A process is a program, one step per store access *)
(* or message; it may die between any two steps, and in the middle of a     *)
(* std::fs::write, which leaves the file torn.  A rename is atomic.         *)
(* All devices read one clock.  Ids and keys are numbers that are never     *)
(* drawn twice: a certificate names the key that signed it, and verifies    *)
(* under that key alone.  0 stands for "none".                              *)
(***************************************************************************)
EXTENDS Naturals, Sequences, FiniteSets

CONSTANTS
    Devices,      \* a set of small numbers
    Plans,        \* what the operators do: see the fields used below
    MaxIssued,    \* bound on the memberships of one behaviour
    MaxSerial,    \* u64::MAX
    Ttl           \* lifetime of an invite, in ticks

VARIABLES
    plan,         \* the operators' plan
    disk,         \* the data directory of each device
    proc,         \* the two processes of each device
    conn,         \* the enrollment stream of each joining device
    invites,      \* the invite codes handed out
    legacy,       \* the legacy invite files handed out
    issued,       \* every Sister membership signed, in order
    drawn,        \* how many ids and keys each device has generated
    now,
    faults,       \* faults still to come
    torn          \* a write has been torn

vars == <<plan, disk, proc, conn, invites, legacy, issued, drawn, now, faults, torn>>
handed == <<invites, legacy>>

Files == {"network-id", "identity", "sister-key", "iroh-key", "endpoint", "binding",
          "network", "authority-key", "membership", "serial", "records", "human-key",
          "human", "human-membership", "revocations", "layout", "token"}
Missing == [state |-> "missing"]
Torn == [state |-> "torn"]
Whole(v) == [state |-> "whole", val |-> v]

SupportedLayout == 1

StartProgram == <<"network-id", "identity", "sister-key", "iroh-key", "endpoint", "binding",
                  "session", "enrollment", "layout", "token", "running">>
InitProgram == <<"network-id", "authority-key", "descriptor", "identity", "sister-key",
                 "owner", "serial", "membership">>
JoinProgram == <<"verify", "identity", "sister-key", "dial", "exchange", "guard",
                 "rename network-id", "rename network", "rename membership", "rename records">>
LegacyJoinProgram == <<"legacy", "identity", "sister-key", "match", "network-id", "install",
                       "legacy membership", "records">>
HumanInitProgram == <<"human-key", "human", "human-membership">>
Program == [start |-> StartProgram, init |-> InitProgram, join |-> JoinProgram,
            legacy |-> LegacyJoinProgram, human |-> HumanInitProgram]

NoCert == [net |-> 0, auth |-> 0, sister |-> 0, key |-> 0, serial |-> 0, at |-> 0, until |-> 0]
NoInvite == [net |-> 0, auth |-> 0, at |-> 0, until |-> 0, dev |-> 0, sister |-> 0, iroh |-> 0]
\* What a process holds in memory.
NoMemory == [net |-> 0, id |-> 0, key |-> 0, iroh |-> 0, auth |-> 0, serial |-> 0, human |-> 0,
             token |-> 0, member |-> FALSE, serves |-> FALSE, cert |-> NoCert,
             invite |-> NoInvite]
Idle == [prog |-> "none", pc |-> 0, mem |-> NoMemory]
NoConn == [stage |-> "none", to |-> 0, cert |-> NoCert]

File(p, f) == disk[p[1]][f]
Readable(d, f) == disk[d][f].state = "whole"
At(p, label) == proc[p].prog # "none" /\ Program[proc[p].prog][proc[p].pc] = label
Memory(p) == proc[p].mem
Running(d) == At(<<d, "sister">>, "running")
Draw(p) == 100 * p[1] + drawn[p[1]] + 1

-----------------------------------------------------------------------------
(* The ways a step ends.                                                    *)

\* The process goes on, k steps further, or was at its last step and is done.
Go(p, k, m) ==
    proc' = [proc EXCEPT ![p] = IF @.pc + k > Len(Program[@.prog]) THEN Idle
                                ELSE [@ EXCEPT !.pc = @ + k, !.mem = m]]

Pass(p, k, m) == Go(p, k, m) /\ UNCHANGED <<disk, conn, faults, torn>>

\* The process is gone; so are the streams it held.
Gone(p) ==
    /\ proc' = [proc EXCEPT ![p] = Idle]
    /\ conn' = [j \in Devices |->
                  IF p = <<j, "cli">> THEN NoConn
                  ELSE IF p[2] = "sister" /\ conn[j].to = p[1]
                    THEN [conn[j] EXCEPT !.stage = "broken"]
                    ELSE conn[j]]

\* The command returns an error.
Fail(p) == Gone(p) /\ UNCHANGED <<disk, faults, torn>>

\* std::fs::write: truncate, then write.
Write(p, f, v, m) ==
    \/ /\ disk' = [disk EXCEPT ![p[1]][f] = Whole(v)]
       /\ Go(p, 1, m)
       /\ UNCHANGED <<conn, faults, torn>>
    \/ /\ faults.tear > 0
       /\ disk' = [disk EXCEPT ![p[1]][f] = Torn]
       /\ Gone(p)
       /\ faults' = [faults EXCEPT !.tear = @ - 1]
       /\ torn' = TRUE

\* A temporary file renamed over f.
Replace(p, f, v, m) ==
    /\ disk' = [disk EXCEPT ![p[1]][f] = Whole(v)]
    /\ Go(p, 1, m)
    /\ UNCHANGED <<conn, faults, torn>>

Keeps == UNCHANGED <<plan, handed, issued, now>>

-----------------------------------------------------------------------------
(* The stores.                                                              *)

\* Mutant: a key that cannot be read is generated again.
LoadOrInitKeyAgain(p, f, field) ==
    \/ /\ File(p, f).state = "whole"
       /\ Pass(p, 1, [Memory(p) EXCEPT ![field] = File(p, f).val])
       /\ UNCHANGED drawn
    \/ /\ File(p, f).state # "whole"
       /\ Write(p, f, Draw(p), [Memory(p) EXCEPT ![field] = Draw(p)])
       /\ drawn' = [drawn EXCEPT ![p[1]] = @ + 1]

\* A key file of 32 bytes, or the control token: any other length is an error.
LoadOrInitKey(p, f, field) ==
    \/ /\ File(p, f).state = "torn"
       /\ Fail(p)
       /\ UNCHANGED drawn
    \/ /\ File(p, f).state = "whole"
       /\ Pass(p, 1, [Memory(p) EXCEPT ![field] = File(p, f).val])
       /\ UNCHANGED drawn
    \/ /\ File(p, f).state = "missing"
       /\ Write(p, f, Draw(p), [Memory(p) EXCEPT ![field] = Draw(p)])
       /\ drawn' = [drawn EXCEPT ![p[1]] = @ + 1]

SisterKey(p) == At(p, "sister-key") /\ LoadOrInitKey(p, "sister-key", "key") /\ Keeps
IrohKey(p) == At(p, "iroh-key") /\ LoadOrInitKey(p, "iroh-key", "iroh") /\ Keeps
ControlToken(p) == At(p, "token") /\ LoadOrInitKey(p, "token", "token") /\ Keeps

\* NetworkIdStore::load_or_init; mem.net is the NetworkId asked for.
NetworkIdLoadOrInit(p) ==
    LET m == Memory(p)
        f == File(p, "network-id")
        fresh == IF m.net = 0 THEN Draw(p) ELSE m.net
    IN
    /\ At(p, "network-id")
    /\ \/ /\ f.state = "torn" \/ (f.state = "whole" /\ m.net \notin {0, f.val})
          /\ Fail(p)
          /\ UNCHANGED drawn
       \/ /\ f.state = "whole" /\ m.net \in {0, f.val}
          /\ Pass(p, 1, [m EXCEPT !.net = f.val])
          /\ UNCHANGED drawn
       \/ /\ f.state = "missing"
          /\ Write(p, "network-id", fresh, [m EXCEPT !.net = fresh])
          /\ drawn' = IF m.net = 0 THEN [drawn EXCEPT ![p[1]] = @ + 1] ELSE drawn
    /\ Keeps

\* IdentityStore::load_or_init: an existing identity is written again, for its port.
IdentityLoadOrInit(p) ==
    LET f == File(p, "identity") IN
    /\ At(p, "identity")
    /\ \/ /\ f.state = "torn"
          /\ Fail(p)
          /\ UNCHANGED drawn
       \/ /\ f.state = "whole"
          /\ Write(p, "identity", f.val, [Memory(p) EXCEPT !.id = f.val])
          /\ UNCHANGED drawn
       \/ /\ f.state = "missing"
          /\ Write(p, "identity", Draw(p), [Memory(p) EXCEPT !.id = Draw(p)])
          /\ drawn' = [drawn EXCEPT ![p[1]] = @ + 1]
    /\ Keeps

\* NetworkAuthorityStore::load_with_key of a directory: the Authority, 0 when the
\* descriptor or the key is missing, "error" when one cannot be read or they differ.
LoadWithKey(d) ==
    LET n == disk[d]["network"]
        k == disk[d]["authority-key"]
    IN CASE n.state = "missing" -> [net |-> 0, auth |-> 0, error |-> FALSE]
         [] n.state = "torn" -> [net |-> 0, auth |-> 0, error |-> TRUE]
         [] k.state = "missing" -> [net |-> 0, auth |-> 0, error |-> FALSE]
         [] k.state = "torn" -> [net |-> 0, auth |-> 0, error |-> TRUE]
         [] OTHER -> [net |-> n.val.net, auth |-> n.val.auth, error |-> n.val.auth # k.val]
HoldsAuthority(d) == ~LoadWithKey(d).error /\ LoadWithKey(d).auth # 0

\* MembershipCertificate::issue, verify and is_valid_at; until = 0 is "no expiry".
Certificate(net, auth, sister, key, serial, until) ==
    [net |-> net, auth |-> auth, sister |-> sister, key |-> key, serial |-> serial,
     at |-> now, until |-> until]
Verifies(cert, auth) == cert.auth = auth
ValidAt(cert, t) == cert.at <= t /\ (cert.until # 0 => t <= cert.until)

\* MembershipSerialStore::open and allocate: saturating_add, written before it is used.
OpenSerial(d) == IF Readable(d, "serial") THEN disk[d]["serial"].val ELSE 0
Allocate(current) == IF current = MaxSerial THEN MaxSerial ELSE current + 1

\* RevocationStore::is_revoked, by kind and serial.
IsRevoked(d, kind, serial) ==
    /\ Readable(d, "revocations")
    /\ [kind |-> kind, serial |-> serial] \in disk[d]["revocations"].val

-----------------------------------------------------------------------------
(* misaka start                                                             *)

\* bind_iroh_backend, then the endpoint address is saved whatever was there.
SaveEndpoint(p) ==
    /\ At(p, "endpoint")
    /\ Write(p, "endpoint", Memory(p).iroh, Memory(p))
    /\ UNCHANGED drawn /\ Keeps

\* TransportBindingStore::load_or_update
BindTransport(p) ==
    LET m == Memory(p)
        f == File(p, "binding")
        Bound(seq) == [net |-> m.net, id |-> m.id, key |-> m.key, iroh |-> m.iroh, seq |-> seq]
    IN
    /\ At(p, "binding")
    /\ \/ /\ \/ f.state = "torn"
             \/ f.state = "whole" /\ <<f.val.net, f.val.id, f.val.key>> # <<m.net, m.id, m.key>>
          /\ Fail(p)
       \/ /\ f.state = "whole"
          /\ f.val = Bound(f.val.seq)
          /\ Pass(p, 1, m)
       \/ /\ \/ f.state = "missing"
             \/ /\ f.state = "whole" /\ f.val.iroh # m.iroh
                /\ f.val = [Bound(f.val.seq) EXCEPT !.iroh = f.val.iroh]
          /\ Write(p, "binding", Bound(IF f.state = "missing" THEN 0 ELSE f.val.seq + 1), m)
    /\ UNCHANGED drawn /\ Keeps

\* load_authenticated_session
SessionAcceptable(d, m) ==
    LET n == disk[d]["network"].val
        c == disk[d]["membership"].val
    IN /\ n.net = m.net /\ c.sister = m.id /\ c.key = m.key
       /\ Verifies(c, n.auth) /\ ValidAt(c, now)
       /\ disk[d]["revocations"].state # "torn"
       /\ ~IsRevoked(d, "sister", c.serial)
LoadSession(p) ==
    LET d == p[1]
        m == Memory(p)
        states == <<disk[d]["network"].state, disk[d]["membership"].state>>
    IN
    /\ At(p, "session")
    /\ \/ /\ states = <<"missing", "missing">>
          /\ Pass(p, 1, m)
       \/ /\ states = <<"whole", "whole">> /\ SessionAcceptable(d, m)
          /\ Pass(p, 1, [m EXCEPT !.member = TRUE, !.cert = disk[d]["membership"].val])
       \/ /\ states # <<"missing", "missing">>
          /\ ~(states = <<"whole", "whole">> /\ SessionAcceptable(d, m))
          /\ Fail(p)
    /\ UNCHANGED drawn /\ Keeps

\* build_enrollment_server and EnrollmentServer::new
BuildEnrollmentServer(p) ==
    LET d == p[1]
        m == Memory(p)
        a == LoadWithKey(d)
    IN
    /\ At(p, "enrollment")
    /\ \/ /\ a.error \/ (a.auth # 0 /\ a.net = m.net /\ disk[d]["serial"].state = "torn")
          /\ Fail(p)
       \/ /\ ~a.error /\ (a.auth = 0 \/ a.net # m.net)
          /\ Pass(p, 1, m)
       \/ /\ ~a.error /\ a.auth # 0 /\ a.net = m.net /\ disk[d]["serial"].state # "torn"
          /\ Pass(p, 1, [m EXCEPT !.serves = TRUE, !.auth = a.auth, !.serial = OpenSerial(d)])
    /\ UNCHANGED drawn /\ Keeps

\* StateLayout::open
OpenLayout(p) ==
    LET f == File(p, "layout") IN
    /\ At(p, "layout")
    /\ \/ /\ f.state = "missing"
          /\ Replace(p, "layout", SupportedLayout, Memory(p))
       \/ /\ f.state = "whole" /\ f.val <= SupportedLayout
          /\ Pass(p, 1, Memory(p))
       \/ /\ f.state = "whole" /\ f.val > SupportedLayout
          /\ Fail(p)
    /\ UNCHANGED drawn /\ Keeps

-----------------------------------------------------------------------------
(* misaka network init                                                      *)

\* NetworkAuthorityStore::init, the key: only without a descriptor.
AuthorityKey(p) ==
    LET m == Memory(p)
        n == File(p, "network")
    IN
    /\ At(p, "authority-key")
    /\ \/ /\ n.state = "torn" \/ (n.state = "whole" /\ n.val.net # m.net)
          /\ Fail(p)
          /\ UNCHANGED drawn
       \/ /\ n.state = "whole" /\ n.val.net = m.net
          /\ Pass(p, 2, [m EXCEPT !.auth = n.val.auth])
          /\ UNCHANGED drawn
       \/ /\ n.state = "missing"
          /\ Write(p, "authority-key", Draw(p), [m EXCEPT !.auth = Draw(p)])
          /\ drawn' = [drawn EXCEPT ![p[1]] = @ + 1]
    /\ Keeps

\* NetworkAuthorityStore::init, the descriptor.
AuthorityDescriptor(p) ==
    LET m == Memory(p) IN
    /\ At(p, "descriptor")
    /\ Write(p, "network", [net |-> m.net, auth |-> m.auth], m)
    /\ UNCHANGED drawn /\ Keeps

\* An existing membership is kept when it is this Sister's, and refused otherwise.
OwnerMembership(p) ==
    LET m == Memory(p)
        f == File(p, "membership")
        Own == f.val.net = m.net /\ f.val.sister = m.id /\ f.val.key = m.key /\ Verifies(f.val, m.auth)
    IN
    /\ At(p, "owner")
    /\ \/ /\ f.state = "torn" \/ (f.state = "whole" /\ ~Own)
          /\ Fail(p)
       \/ /\ f.state = "whole" /\ Own
          /\ Pass(p, 3, m)
       \/ /\ f.state = "missing"
          /\ Pass(p, 1, m)
    /\ UNCHANGED drawn /\ Keeps

OwnerSerial(p) ==
    LET next == Allocate(OpenSerial(p[1])) IN
    /\ At(p, "serial")
    /\ \/ /\ File(p, "serial").state = "torn"
          /\ Fail(p)
       \/ /\ File(p, "serial").state # "torn"
          /\ Write(p, "serial", next, [Memory(p) EXCEPT !.serial = next])
    /\ UNCHANGED drawn /\ Keeps

IssueOwner(p) ==
    LET m == Memory(p)
        k == File(p, "authority-key")
        cert == Certificate(m.net, k.val, m.id, m.key, m.serial, 0)
    IN
    /\ At(p, "membership")
    /\ \/ /\ k.state # "whole"
          /\ Fail(p)
          /\ UNCHANGED issued
       \/ /\ k.state = "whole"
          /\ Write(p, "membership", cert, m)
          /\ issued' = Append(issued, cert)
    /\ UNCHANGED <<plan, handed, drawn, now>>

-----------------------------------------------------------------------------
(* Invites.                                                                 *)

\* current_enrollment_locator: identity, key, endpoint and binding must be there.
HasLocator(d) == \A f \in {"identity", "sister-key", "endpoint", "binding"} : Readable(d, f)

\* EnrollmentInvite::verify
InviteVerifies(i, t) == i.at <= t /\ t <= i.until

\* EnrollmentInvite::issue
IssueInvite(d) ==
    LET a == LoadWithKey(d) IN
    [net |-> a.net, auth |-> a.auth, at |-> now, until |-> now + Ttl, dev |-> d,
     sister |-> disk[d]["identity"].val, iroh |-> disk[d]["endpoint"].val]

\* misaka network invite.  The operator mints a new code when the others are over.
Invite(d) ==
    /\ "invite" \in plan.does[d]
    /\ HoldsAuthority(d) /\ HasLocator(d)
    /\ \A i \in invites : i.dev = d => ~InviteVerifies(i, now)
    /\ invites' = invites \cup {IssueInvite(d)}
    /\ UNCHANGED <<plan, disk, proc, conn, legacy, issued, drawn, now, faults, torn>>

\* misaka network invite-legacy for a Sister whose id and key the operator copied.
LegacyInvite(d, j) ==
    LET a == LoadWithKey(d)
        cert == Certificate(a.net, a.auth, disk[j]["identity"].val, disk[j]["sister-key"].val,
                            IF now = 0 THEN 1 ELSE now, now + Ttl)
    IN
    /\ "invite-legacy" \in plan.does[d]
    /\ HoldsAuthority(d) /\ HasLocator(d)
    /\ Readable(j, "identity") /\ Readable(j, "sister-key")
    /\ \A l \in legacy : l.cert.sister # cert.sister
    /\ legacy' = legacy \cup {[net |-> a.net, auth |-> a.auth, at |-> now, until |-> now + Ttl,
                               cert |-> cert]}
    /\ issued' = Append(issued, cert)
    /\ UNCHANGED <<plan, disk, proc, conn, invites, drawn, now, faults, torn>>

\* RevocationStore::append; nothing is written for a record that is there.
AppendRevocation(f, record) ==
    Whole((IF f.state = "whole" THEN f.val ELSE {}) \cup {record})

\* misaka network revoke
Revoke(d, serial) ==
    LET f == disk[d]["revocations"]
        record == [kind |-> "sister", serial |-> serial]
    IN
    /\ "revoke" \in plan.does[d]
    /\ HoldsAuthority(d)
    /\ f.state # "torn" /\ f # AppendRevocation(f, record)
    /\ \/ /\ disk' = [disk EXCEPT ![d]["revocations"] = AppendRevocation(f, record)]
          /\ UNCHANGED <<faults, torn>>
       \/ /\ faults.tear > 0
          /\ disk' = [disk EXCEPT ![d]["revocations"] = Torn]
          /\ faults' = [faults EXCEPT !.tear = @ - 1]
          /\ torn' = TRUE
    /\ UNCHANGED <<plan, proc, conn, handed, issued, drawn, now>>

-----------------------------------------------------------------------------
(* misaka network join: the exchange.                                       *)

VerifyInvite(p) ==
    LET i == Memory(p).invite IN
    /\ At(p, "verify")
    /\ \/ /\ InviteVerifies(i, now) /\ i.net = Memory(p).net
          /\ Pass(p, 1, Memory(p))
       \/ /\ ~(InviteVerifies(i, now) /\ i.net = Memory(p).net)
          /\ Fail(p)
    /\ UNCHANGED drawn /\ Keeps

\* connect_session_with_alpn to the endpoint in the invite's locator.
Dial(p) ==
    LET i == Memory(p).invite
        server == <<i.dev, "sister">>
        Reached == Running(i.dev) /\ Memory(server).iroh = i.iroh /\ Memory(server).serves
    IN
    /\ At(p, "dial")
    /\ \/ /\ Reached
          /\ Go(p, 1, Memory(p))
          /\ conn' = [conn EXCEPT ![p[1]] = [stage |-> "request", to |-> i.dev, cert |-> NoCert]]
          /\ UNCHANGED <<disk, faults, torn>>
       \/ /\ ~Reached
          /\ Fail(p)
    /\ UNCHANGED drawn /\ Keeps

\* EnrollmentServer::evaluate
Evaluate(i, m) ==
    /\ InviteVerifies(i, now)
    /\ i.net = m.net /\ i.auth = m.auth
    /\ i.sister = m.id /\ i.iroh = m.iroh

\* serve_stream up to its first reply; the proof that answers a challenge is the joiner's
\* key's, and redeem sends it at once.
ServeRequest(j) ==
    LET m == Memory(<<conn[j].to, "sister">>)
        i == Memory(<<j, "cli">>).invite
    IN
    /\ conn[j].stage = "request"
    /\ conn' = [conn EXCEPT ![j].stage = IF Evaluate(i, m) THEN "proof" ELSE "rejected"]
    /\ UNCHANGED <<plan, disk, proc, handed, issued, drawn, now, faults, torn>>

\* EnrollmentServer::issue_membership: no expiry.
IssueMembership(m, client, serial) ==
    Certificate(m.net, m.auth, client.id, client.key, serial, 0)

\* Mutant: the serial is counted in memory only.
ServeProofUnsaved(j) ==
    LET server == <<conn[j].to, "sister">>
        m == Memory(server)
        next == Allocate(m.serial)
        cert == IssueMembership(m, Memory(<<j, "cli">>), next)
    IN
    /\ conn[j].stage = "proof"
    /\ proc' = [proc EXCEPT ![server].mem.serial = next]
    /\ conn' = [conn EXCEPT ![j].stage = "response", ![j].cert = cert]
    /\ issued' = Append(issued, cert)
    /\ UNCHANGED <<plan, disk, handed, drawn, now, faults, torn>>

\* serve_stream after the proof: allocate, issue_membership, and the response is sent.
ServeProof(j) ==
    LET a == conn[j].to
        server == <<a, "sister">>
        m == Memory(server)
        next == Allocate(m.serial)
        cert == IssueMembership(m, Memory(<<j, "cli">>), next)
    IN
    /\ conn[j].stage = "proof"
    /\ \/ /\ disk' = [disk EXCEPT ![a]["serial"] = Whole(next)]
          /\ proc' = [proc EXCEPT ![server].mem.serial = next]
          /\ conn' = [conn EXCEPT ![j].stage = "response", ![j].cert = cert]
          /\ issued' = Append(issued, cert)
          /\ UNCHANGED <<faults, torn>>
       \/ /\ faults.tear > 0
          /\ disk' = [disk EXCEPT ![a]["serial"] = Torn]
          /\ Gone(server)
          /\ faults' = [faults EXCEPT !.tear = @ - 1]
          /\ torn' = TRUE
          /\ UNCHANGED issued
    /\ UNCHANGED <<plan, handed, drawn, now>>

\* allocate's write fails (a full disk): the server keeps its serial and answers
\* IssuanceFailed.
AllocateFails(j) ==
    /\ faults.io > 0
    /\ conn[j].stage = "proof"
    /\ conn' = [conn EXCEPT ![j].stage = "rejected"]
    /\ faults' = [faults EXCEPT !.io = @ - 1]
    /\ UNCHANGED <<plan, disk, proc, handed, issued, drawn, now, torn>>

\* The stream breaks, or one side waits longer than ENROLLMENT_TIMEOUT.
StreamLost(j) ==
    /\ faults.cut > 0
    /\ conn[j].stage \notin {"none", "broken"}
    /\ conn' = [conn EXCEPT ![j].stage = "broken"]
    /\ faults' = [faults EXCEPT !.cut = @ - 1]
    /\ UNCHANGED <<plan, disk, proc, handed, issued, drawn, now, torn>>

\* EnrollmentResponse::validate_received, with the clock as it is when the answer is here.
ValidateReceived(p, cert, t) ==
    LET m == Memory(p) IN
    /\ cert.auth = m.invite.auth /\ cert.net = m.net
    /\ cert.sister = m.id /\ cert.key = m.key
    /\ ValidAt(cert, t)

\* The end of redeem, and validate_received.
ReceiveResponse(p) ==
    LET d == p[1]
        c == conn[d].cert
    IN
    /\ At(p, "exchange")
    /\ \/ /\ \/ conn[d].stage \in {"rejected", "broken"}
             \/ conn[d].stage = "response" /\ ~ValidateReceived(p, c, now)
          /\ Fail(p)
       \/ /\ conn[d].stage = "response" /\ ValidateReceived(p, c, now)
          /\ Go(p, 1, [Memory(p) EXCEPT !.cert = c])
          /\ conn' = [conn EXCEPT ![d] = NoConn]
          /\ UNCHANGED <<disk, faults, torn>>
    /\ UNCHANGED <<plan, handed, issued, drawn, now>>

-----------------------------------------------------------------------------
(* misaka network join: join_transaction::install.                          *)

Foreign(f, net) == f.state = "whole" /\ f.val # net
\* Mutant: whatever is in place is a conflict.
GuardFreshOnly(d, net) ==
    disk[d]["network-id"].state = "missing" /\ disk[d]["network"].state = "missing"

\* The NetworkId and the descriptor in place may not be another Network's.
GuardExistingNetwork(d, net) ==
    /\ ~Foreign(disk[d]["network-id"], net)
    /\ Readable(d, "network") => disk[d]["network"].val.net = net

\* guard_existing_network, then everything is staged and verified in a directory of its own.
InstallGuard(p) ==
    LET d == p[1]
        Unreadable == "torn" \in {disk[d]["network-id"].state, disk[d]["network"].state}
    IN
    /\ At(p, "guard")
    /\ \/ /\ Unreadable \/ ~GuardExistingNetwork(d, Memory(p).net)
          /\ Fail(p)
       \/ /\ ~Unreadable /\ GuardExistingNetwork(d, Memory(p).net)
          /\ Pass(p, 1, Memory(p))
    /\ UNCHANGED <<plan, handed, issued, drawn, now>>

\* Mutant: the membership goes first.
CommitMembershipFirst(p) ==
    LET m == Memory(p) IN
    /\ \/ At(p, "rename network-id") /\ Replace(p, "membership", m.cert, m)
       \/ At(p, "rename network") /\ Replace(p, "network-id", m.net, m)
       \/ At(p, "rename membership")
          /\ Replace(p, "network", [net |-> m.net, auth |-> m.cert.auth], m)
       \/ At(p, "rename records") /\ Replace(p, "records", {m.invite.sister}, m)
    /\ UNCHANGED drawn /\ Keeps

\* commit_staged: the staged files, renamed one after the other.
CommitStaged(p) ==
    LET m == Memory(p) IN
    /\ \/ At(p, "rename network-id") /\ Replace(p, "network-id", m.net, m)
       \/ At(p, "rename network")
          /\ Replace(p, "network", [net |-> m.net, auth |-> m.cert.auth], m)
       \/ At(p, "rename membership") /\ Replace(p, "membership", m.cert, m)
       \/ At(p, "rename records") /\ Replace(p, "records", {m.invite.sister}, m)
    /\ UNCHANGED drawn /\ Keeps

-----------------------------------------------------------------------------
(* misaka network join-legacy: the ordinary stores, nothing staged.         *)

\* NetworkInvite::verify.  The NetworkId asked for is the invite's.
VerifyLegacy(p) ==
    LET m == Memory(p) IN
    /\ At(p, "legacy")
    /\ \/ /\ InviteVerifies(m.invite, now) /\ ValidAt(m.cert, now)
          /\ Pass(p, 1, m)
       \/ /\ ~(InviteVerifies(m.invite, now) /\ ValidAt(m.cert, now))
          /\ Fail(p)
    /\ UNCHANGED drawn /\ Keeps

MatchLegacy(p) ==
    LET m == Memory(p) IN
    /\ At(p, "match")
    /\ \/ m.cert.sister = m.id /\ m.cert.key = m.key /\ Pass(p, 1, m)
       \/ ~(m.cert.sister = m.id /\ m.cert.key = m.key) /\ Fail(p)
    /\ UNCHANGED drawn /\ Keeps

\* NetworkAuthorityStore::install_descriptor
InstallDescriptor(p) ==
    LET m == Memory(p)
        f == File(p, "network")
        authority == [net |-> m.net, auth |-> m.cert.auth]
    IN
    /\ At(p, "install")
    /\ \/ (f.state = "torn" \/ (f.state = "whole" /\ f.val # authority)) /\ Fail(p)
       \/ f.state = "whole" /\ f.val = authority /\ Pass(p, 1, m)
       \/ f.state = "missing" /\ Write(p, "network", authority, m)
    /\ UNCHANGED drawn /\ Keeps

SaveLegacyMembership(p) ==
    LET m == Memory(p)
        f == File(p, "membership")
    IN
    /\ At(p, "legacy membership")
    /\ \/ (f.state = "torn" \/ (f.state = "whole" /\ f.val # m.cert)) /\ Fail(p)
       \/ f.state = "whole" /\ f.val = m.cert /\ Pass(p, 1, m)
       \/ f.state = "missing" /\ Write(p, "membership", m.cert, m)
    /\ UNCHANGED drawn /\ Keeps

SaveRecords(p) ==
    /\ At(p, "records")
    /\ Write(p, "records", {Memory(p).invite.sister}, Memory(p))
    /\ UNCHANGED drawn /\ Keeps

-----------------------------------------------------------------------------
(* misaka human init                                                        *)

\* HumanIdentityStore::load_or_init, the key: both files or neither.
HumanKey(p) ==
    LET k == File(p, "human-key")
        h == File(p, "human")
        Neither == k = Missing /\ h = Missing
        Both == k.state = "whole" /\ h.state = "whole" /\ h.val = k.val
    IN
    /\ At(p, "human-key")
    /\ \/ /\ ~HoldsAuthority(p[1]) \/ (~Neither /\ ~Both)
          /\ Fail(p)
          /\ UNCHANGED drawn
       \/ /\ HoldsAuthority(p[1]) /\ Both
          /\ Pass(p, 2, [Memory(p) EXCEPT !.human = h.val, !.auth = LoadWithKey(p[1]).auth])
          /\ UNCHANGED drawn
       \/ /\ HoldsAuthority(p[1]) /\ Neither
          /\ Write(p, "human-key", Draw(p),
                   [Memory(p) EXCEPT !.human = Draw(p), !.auth = LoadWithKey(p[1]).auth])
          /\ drawn' = [drawn EXCEPT ![p[1]] = @ + 1]
    /\ Keeps

HumanDescriptor(p) ==
    /\ At(p, "human")
    /\ Write(p, "human", Memory(p).human, Memory(p))
    /\ UNCHANGED drawn /\ Keeps

HumanMembership(p) ==
    LET m == Memory(p)
        f == File(p, "human-membership")
        cert == [human |-> m.human, auth |-> m.auth, serial |-> 1]
    IN
    /\ At(p, "human-membership")
    /\ \/ (f.state = "torn" \/ (f.state = "whole" /\ f.val # cert)) /\ Fail(p)
       \/ f.state = "whole" /\ f.val = cert /\ Pass(p, 1, m)
       \/ f.state = "missing" /\ Write(p, "human-membership", cert, m)
    /\ UNCHANGED drawn /\ Keeps

-----------------------------------------------------------------------------
(* Operators, and faults.                                                   *)

Spawn(p, prog, m) ==
    /\ proc[p] = Idle
    /\ proc' = [proc EXCEPT ![p] = [prog |-> prog, pc |-> 1, mem |-> m]]
    /\ UNCHANGED <<plan, disk, conn, handed, issued, drawn, now, faults, torn>>

\* The first command on a fresh device runs alone; in the plans that are not `early` it
\* is not `start`.
RunStart(d) ==
    /\ "start" \in plan.does[d]
    /\ \/ plan.early /\ proc[<<d, "cli">>] = Idle
       \/ disk[d]["sister-key"].state # "missing" /\ disk[d]["network-id"].state # "missing"
    /\ Spawn(<<d, "sister">>, "start", [NoMemory EXCEPT !.net = plan.flag[d]])

RunInit(d) ==
    /\ "init" \in plan.does[d] /\ ~Readable(d, "membership")
    /\ Spawn(<<d, "cli">>, "init", [NoMemory EXCEPT !.net = plan.flag[d]])

RunJoin(d, i) ==
    /\ "join" \in plan.does[d] /\ (plan.again \/ ~Readable(d, "membership"))
    /\ InviteVerifies(i, now) /\ Len(issued) < MaxIssued
    /\ Spawn(<<d, "cli">>, "join", [NoMemory EXCEPT !.net = i.net, !.invite = i])

RunLegacyJoin(d, l) ==
    /\ "join-legacy" \in plan.does[d] /\ ~Readable(d, "records")
    /\ Spawn(<<d, "cli">>, "legacy",
             [NoMemory EXCEPT !.net = l.net, !.cert = l.cert,
                              !.invite = [NoInvite EXCEPT !.net = l.net, !.auth = l.auth,
                                                          !.at = l.at, !.until = l.until]])

RunHuman(d) ==
    /\ "human" \in plan.does[d] /\ ~Readable(d, "human-membership")
    /\ Spawn(<<d, "cli">>, "human", NoMemory)

\* A Sister that started before its device was a member is restarted.
Stop(d) ==
    /\ Running(d) /\ ~Memory(<<d, "sister">>).member /\ Readable(d, "membership")
    /\ Fail(<<d, "sister">>)
    /\ UNCHANGED drawn /\ Keeps

Crash(p) ==
    /\ proc[p] # Idle /\ faults.crash > 0 /\ p \in plan.faulty
    /\ Gone(p)
    /\ faults' = [faults EXCEPT !.crash = @ - 1]
    /\ UNCHANGED <<plan, disk, handed, issued, drawn, now, torn>>

Tick ==
    /\ now < plan.time
    /\ now' = now + 1
    /\ UNCHANGED <<plan, disk, proc, conn, handed, issued, drawn, faults, torn>>

\* A device that has run `network init` and `start` without a fault.
OwnerCert(d) == [net |-> 100 * d + 1, auth |-> 100 * d + 2, sister |-> 100 * d + 3,
                 key |-> 100 * d + 4, serial |-> 1, at |-> 0, until |-> 0]
FoundedFile(d, f) ==
    LET c == OwnerCert(d)
        contents == [
          network |-> [net |-> c.net, auth |-> c.auth],
          binding |-> [net |-> c.net, id |-> c.sister, key |-> c.key, iroh |-> 100 * d + 5, seq |-> 0],
          membership |-> c, serial |-> 1, identity |-> c.sister, endpoint |-> 100 * d + 5,
          layout |-> SupportedLayout, token |-> 100 * d + 6]
    IN CASE f = "network-id" -> Whole(c.net)
         [] f = "authority-key" -> Whole(c.auth)
         [] f = "sister-key" -> Whole(c.key)
         [] f = "iroh-key" -> Whole(100 * d + 5)
         [] f \in DOMAIN contents -> Whole(contents[f])
         [] OTHER -> Missing
FoundedSister(d) ==
    LET c == OwnerCert(d) IN
    [prog |-> "start", pc |-> Len(StartProgram),
     mem |-> [NoMemory EXCEPT !.net = c.net, !.id = c.sister, !.key = c.key, !.iroh = 100 * d + 5,
                              !.auth = c.auth, !.serial = 1, !.token = 100 * d + 6,
                              !.member = TRUE, !.serves = TRUE, !.cert = c]]

\* Devices 1..plan.founded have founded their Networks; the others are fresh, except that
\* a newer release may have left its layout there.
Init ==
    /\ plan \in Plans
    /\ disk = [d \in Devices |->
                [f \in Files |-> IF d <= plan.founded THEN FoundedFile(d, f)
                                 ELSE IF f = "layout" /\ d \in plan.newer
                                   THEN Whole(SupportedLayout + 1) ELSE Missing]]
    /\ proc = [p \in Devices \X {"cli", "sister"} |->
                IF p[2] = "sister" /\ p[1] <= plan.founded THEN FoundedSister(p[1]) ELSE Idle]
    /\ conn = [d \in Devices |-> NoConn]
    /\ invites = {} /\ legacy = {}
    /\ issued = [d \in 1..plan.founded |-> OwnerCert(d)]
    /\ drawn = [d \in Devices |-> IF d <= plan.founded THEN 6 ELSE 0]
    /\ now = 0
    /\ faults = plan.faults
    /\ torn = FALSE

Step(p) ==
    \/ NetworkIdLoadOrInit(p) \/ IdentityLoadOrInit(p) \/ SisterKey(p)
    \/ IrohKey(p) \/ SaveEndpoint(p) \/ BindTransport(p) \/ LoadSession(p)
    \/ BuildEnrollmentServer(p) \/ OpenLayout(p) \/ ControlToken(p)
    \/ AuthorityKey(p) \/ AuthorityDescriptor(p) \/ OwnerMembership(p) \/ OwnerSerial(p)
    \/ IssueOwner(p)
    \/ VerifyInvite(p) \/ Dial(p) \/ ReceiveResponse(p) \/ InstallGuard(p) \/ CommitStaged(p)
    \/ VerifyLegacy(p) \/ MatchLegacy(p) \/ InstallDescriptor(p) \/ SaveLegacyMembership(p)
    \/ SaveRecords(p)
    \/ HumanKey(p) \/ HumanDescriptor(p) \/ HumanMembership(p)

Serve(j) == ServeRequest(j) \/ ServeProof(j)

Operate(d) ==
    \/ RunStart(d) \/ RunInit(d) \/ RunHuman(d) \/ Stop(d) \/ Invite(d)
    \/ \E i \in invites : RunJoin(d, i)
    \/ \E l \in legacy : RunLegacyJoin(d, l)

Next ==
    \/ \E p \in Devices \X {"cli", "sister"} : Step(p) \/ Crash(p)
    \/ \E d \in Devices : Serve(d) \/ AllocateFails(d) \/ StreamLost(d) \/ Operate(d)
    \/ \E d, j \in Devices : LegacyInvite(d, j)
    \/ \E d \in Devices, n \in 1..Len(issued) : Revoke(d, issued[n].serial)
    \/ Tick

Spec == Init /\ [][Next]_vars

\* Processes and the network make progress; an operator repeats a command that failed,
\* restarts a Sister and hands out a new code when the old one is over.
Fairness ==
    /\ \A p \in Devices \X {"cli", "sister"} : WF_vars(Step(p))
    /\ \A d \in Devices :
         /\ WF_vars(Serve(d))
         /\ WF_vars(RunStart(d)) /\ WF_vars(RunInit(d)) /\ WF_vars(Invite(d))
         /\ WF_vars(\E i \in invites : RunJoin(d, i))
         /\ WF_vars(Stop(d))
FairSpec == Spec /\ Fairness

-----------------------------------------------------------------------------
(* Properties.                                                              *)

\* Memberships that one Authority signs never share a serial, which is what a revocation
\* names, whatever crashed between allocating and signing, however often a lost response
\* was asked for again, and with redemptions side by side (membership_serial_store.rs,
\* serve_stream, `network init`).  Legacy invites, which take the clock for a serial, are
\* left out: they carry an expiry.
SerialsUnique ==
    \A m, n \in 1..Len(issued) :
       m # n /\ issued[m].auth = issued[n].auth /\ issued[m].until = 0 /\ issued[n].until = 0
         => issued[m].serial # issued[n].serial

\* A membership that can be read belongs to the Network, the Authority and the Sister of
\* the directory it lies in: at every moment of a join, after a crash between two renames,
\* after a second join and after an attempt to join another Network
\* (join_transaction.rs, join_network_invite, `network init`).
MembershipBelongs ==
    \A d \in Devices : Readable(d, "membership") =>
       LET c == disk[d]["membership"].val IN
       /\ Readable(d, "network")
       /\ disk[d]["network"].val = [net |-> c.net, auth |-> c.auth]
       /\ Readable(d, "network-id") => disk[d]["network-id"].val = c.net
       /\ Readable(d, "identity") => disk[d]["identity"].val = c.sister
       /\ Readable(d, "sister-key") => disk[d]["sister-key"].val = c.key

\* A NetworkId, a Sister's id, its key, its Iroh key or a human's key that was written is
\* never exchanged for another one: a later command uses it or stops with an error.  The
\* Authority's key is kept from the moment its descriptor exists, because everything the
\* Network signed hangs on it.
IdentityKept ==
    [][\A d \in Devices :
         /\ \A f \in {"network-id", "identity", "sister-key", "iroh-key", "human-key"} :
              disk[d][f].state # "missing" => disk'[d][f] \in {disk[d][f], Torn}
         /\ disk[d]["network"].state # "missing"
              => disk'[d]["authority-key"] = disk[d]["authority-key"]]_vars

MemberRuns(d) == Running(d) /\ Memory(<<d, "sister">>).member
\* However often processes died between two steps of `init`, `join` and `start`, streams
\* broke and codes ran out, repeating the commands brings every device of the plan to run
\* as a member, unless a write was torn.
JoinRecovers == plan.recovers => <>[](torn \/ \A d \in plan.members : MemberRuns(d))

=============================================================================
