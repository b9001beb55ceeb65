--------------------------- MODULE PeerKnowledge ---------------------------
(***************************************************************************)
(* What a Sister knows of its peers, and how it comes to know it: the peer  *)
(* table and the signed locators of peer_service.rs with their two files,   *)
(* the Hello handshake, the State broadcast and the pushed PeerRecords of   *)
(* handler.rs, and node.rs's loops: gateway discovery, mDNS discovery,      *)
(* configured peers, heartbeat and cleanup.                                 *)
(*                                                                          *)
(* A Sister is reached at a location: it keeps one while it runs and may    *)
(* come back at another.  Location 0 is "none".  A peer row has the control *)
(* address `addr` (used by the direct-tcp backend) and the stream endpoint  *)
(* `ep` (used by the Iroh backend); a signed locator has the sequence of    *)
(* the transport binding and a location, and is `valid` or garbled.         *)
(*                                                                          *)
(* The peer timeout is longer than a handshake and some heartbeats: a row   *)
(* expires only when neither is on its way (Contact), and then sooner or    *)
(* later.                                                                   *)
(***************************************************************************)
EXTENDS Naturals, FiniteSets

CONSTANTS
    Sisters,
    Gateways,
    Scenarios,   \* the deployments: see the fields used below
    MaxLoc,      \* bound on the locations of one Sister
    None

ASSUME MaxLocAssumption == MaxLoc \in Nat
ASSUME ScenariosAssumption ==
    \A c \in Scenarios : /\ c.gateways \subseteq Gateways
                          /\ \A s \in Sisters : c.irohPeer[s] \subseteq Sisters
ASSUME NoneAssumption == None \notin [seq : Nat, loc : Nat, valid : BOOLEAN]

VARIABLES
    scen,      \* the deployment
    phase,     \* "down", "dialing" (starting with --iroh-peer) or "running"
    loc,       \* where the Sister listens
    seq,       \* the sequence of its transport binding, on disk
    table,     \* PeerStateTable
    records,   \* PeerService.records
    file,      \* peers.json
    rfile,     \* peer-records.json
    saving,    \* snapshots taken by persist and not yet written
    known,     \* gateway_loop: the sequence last bootstrapped, 0 for none
    connected, \* configured_peer_loop: the peers that answered
    merged,    \* gateway_loop: the candidates of this round still to be tried
    dial,      \* the Hello in progress of each task that says Hello
    push,      \* deferred record pushes
    inbox,     \* fire-and-forget messages sent and not yet handled, one per pair
    gw,        \* the gateways' directories
    gwDown,    \* gateways that do not answer
    cut,       \* pairs of Sisters without connectivity
    faults

vars == <<scen, phase, loc, seq, table, records, file, rfile, saving, known, connected,
          merged, dial, push, inbox, gw, gwDown, cut, faults>>
memory == <<known, connected, merged, push>>
disk == <<file, rfile>>
env == <<gwDown, cut, faults>>

Nobody == [p \in Sisters |-> None]
Loops == {"start", "gateway", "peer", "mdns"}
NoDial == [k \in Loops |-> None]
Iroh == scen.backend = "iroh"
Members == scen.members

-----------------------------------------------------------------------------
(* Addresses.                                                               *)

Linked(s, p) == {s, p} \notin cut

\* Someone accepts at location `l` of `p`.  A Sister that is still dialing its --iroh-peer
\* has not started its accept loop.
Reach(s, p, l) == phase[p] = "running" /\ loc[p] = l /\ l # 0 /\ Linked(s, p)

\* A row of the table: what the model keeps of PeerState.
PeerState(addr, ep) == [addr |-> addr, ep |-> ep]

\* addr_of.
AddrOf(s, p) == IF table[s][p] = None THEN 0 ELSE table[s][p].addr

\* iroh_peer_endpoint, with addr_of for the direct-tcp backend: where to send to a known peer.
Target(s, p) ==
    IF ~Iroh THEN AddrOf(s, p)
    ELSE IF table[s][p] # None /\ table[s][p].ep # 0 THEN table[s][p].ep
    ELSE IF records[s][p] # None THEN records[s][p].loc ELSE 0

\* listen_addr: with Iroh a fixed loopback address, which says nothing.
ListenAddr(s) == IF Iroh THEN 0 ELSE loc[s]

\* stream_endpoint and stream_addr.  Bound: a direct-tcp Sister has no stream port.
StreamEndpoint(s) == IF Iroh THEN loc[s] ELSE 0

\* What a Sister says of itself in Hello and State.
Announced(s) == PeerState(ListenAddr(s), StreamEndpoint(s))

\* The PeerRecord issued at start-up.
OwnRecord(s) == [seq |-> seq[s], loc |-> loc[s], valid |-> TRUE]

-----------------------------------------------------------------------------
(* The peer table and its file.                                             *)

\* PeerStateTable::upsert: an existing row keeps its address.
Upsert(row, new) ==
    IF row = None THEN new ELSE [row EXCEPT !.ep = IF new.ep # 0 THEN new.ep ELSE @]

\* What of a row goes to peers.json: not the observations, which the model has none of.
PeerBlueprint(row) == IF row = None THEN None ELSE PeerState(row.addr, row.ep)

\* PeerStore::save_to_dir and load_from_dir.  A missing or torn file is a table of nobody.
SaveToDir(s, snapshot) == file' = [file EXCEPT ![s] = [p \in Sisters |-> PeerBlueprint(snapshot[p])]]
LoadFromDir(s) == file[s]

\* PeerRegistry::new_seeded.
NewSeeded(s) ==
    table' = [table EXCEPT ![s] = [p \in Sisters |->
                IF LoadFromDir(s)[p] = None THEN None ELSE Upsert(None, LoadFromDir(s)[p])]]

\* remember_peer: upsert, then persist a snapshot of the table (written later: SavePeers).
RememberPeer(s, p, new) ==
    /\ table' = [table EXCEPT ![s][p] = Upsert(@, new)]
    /\ saving' = [saving EXCEPT ![s] = @ \cup {[table[s] EXCEPT ![p] = Upsert(@, new)]}]

SavePeers(s) ==
    /\ \E snapshot \in saving[s] :
         /\ SaveToDir(s, snapshot)
         /\ saving' = [saving EXCEPT ![s] = @ \ {snapshot}]
    /\ UNCHANGED <<scen, phase, loc, seq, table, records, rfile, dial, inbox, gw, memory, env>>

\* Mutant: a locator replaces any older or newer one.
RecordOfAnySequence(current, new) == IF ~new.valid THEN current ELSE new

\* remember_peer_record and upsert_peer_record: a valid locator replaces one that has no
\* higher sequence.
UpsertRecord(current, new) ==
    IF ~new.valid \/ (current # None /\ current.seq > new.seq) THEN current ELSE new

\* PeerRecordStore::save_to_dir and load_from_dir: what does not verify is not loaded.
SaveRecords(s, next) == rfile' = [rfile EXCEPT ![s] = next]
LoadRecords(s) == [p \in Sisters |-> IF rfile[s][p] # None /\ rfile[s][p].valid THEN rfile[s][p] ELSE None]

\* PeerService::new_with_network_id.
NewPeerService(s) == records' = [records EXCEPT ![s] = LoadRecords(s)]

\* The same for a batch, which the store then saves.
RememberRecords(s, batch) ==
    LET next == [p \in Sisters |-> IF batch[p] = None THEN records[s][p]
                                   ELSE UpsertRecord(records[s][p], batch[p])]
    IN  records' = [records EXCEPT ![s] = next] /\ SaveRecords(s, next)

-----------------------------------------------------------------------------
(* Start and end of a Sister.                                               *)

Dialing(s, k, p, l, q) ==
    dial' = [dial EXCEPT ![s][k] = [peer |-> p, at |-> l, seq |-> q, reply |-> None]]

\* `misaka start`, SisterNode::new and SisterRuntime::new: bind, rotate the transport binding
\* when the endpoint key is new, seed the table from peers.json and the locators from
\* peer-records.json, then dial --iroh-peer before run() accepts anything.  Bound: one such
\* peer per start.
Start(s) ==
    /\ s \in Members /\ phase[s] = "down"
    /\ \E l \in 1..MaxLoc, rekeyed \in BOOLEAN :
         /\ (loc[s] = 0 \/ ~Iroh) => l = 1 /\ ~rekeyed
         /\ rekeyed => scen.rekey /\ seq[s] = 1 /\ l # loc[s]
         /\ scen.rekey /\ l # loc[s] /\ loc[s] # 0 => rekeyed  \* Bound.
         /\ loc' = [loc EXCEPT ![s] = l]
         /\ seq' = [seq EXCEPT ![s] = IF rekeyed THEN @ + 1 ELSE @]
    /\ NewSeeded(s) /\ NewPeerService(s)
    /\ \E p \in IF scen.irohPeer[s] = {} THEN {None} ELSE scen.irohPeer[s] :
       IF p = None THEN phase' = [phase EXCEPT ![s] = "running"] /\ UNCHANGED dial
       ELSE /\ loc[p] # 0
            /\ phase' = [phase EXCEPT ![s] = "dialing"]
            /\ Dialing(s, "start", p, loc[p], 0)
    /\ UNCHANGED <<scen, saving, inbox, gw, memory, disk, env>>

\* The end of run(), or of the process: what is in memory goes.
Gone(s) ==
    /\ phase' = [phase EXCEPT ![s] = "down"]
    /\ dial' = [dial EXCEPT ![s] = NoDial]
    /\ saving' = [saving EXCEPT ![s] = {}]
    /\ inbox' = [inbox EXCEPT ![s] = Nobody]
    /\ table' = [table EXCEPT ![s] = Nobody]
    /\ records' = [records EXCEPT ![s] = Nobody]
    /\ known' = [known EXCEPT ![s] = [p \in Sisters |-> 0]]
    /\ connected' = [connected EXCEPT ![s] = {}]
    /\ merged' = [merged EXCEPT ![s] = Nobody]
    /\ push' = [push EXCEPT ![s] = {}]

\* The process ends at any point.  A file that was being written is torn, and read as empty.
Crash(s) ==
    /\ phase[s] # "down" /\ s \in scen.faulty /\ faults < scen.faults
    /\ faults' = faults + 1
    /\ Gone(s)
    /\ file' \in {file} \cup IF saving[s] = {} THEN {} ELSE {[file EXCEPT ![s] = Nobody]}
    /\ rfile' \in {rfile} \cup IF \A p \in Sisters : inbox[s][p] = None \/ inbox[s][p].type # "records"
                               THEN {} ELSE {[rfile EXCEPT ![s] = Nobody]}
    /\ UNCHANGED <<scen, loc, seq, gw, gwDown, cut>>

-----------------------------------------------------------------------------
(* The Hello handshake.                                                     *)

\* The dial fails.  Before run(), that ends the command.
HelloFails(s, k) ==
    /\ dial[s][k] # None
    /\ ~Reach(s, dial[s][k].peer, dial[s][k].at)
    /\ IF phase[s] = "dialing" THEN Gone(s)
       ELSE /\ dial' = [dial EXCEPT ![s][k] = None]
            /\ UNCHANGED <<phase, saving, inbox, table, records, memory>>
    /\ UNCHANGED <<scen, loc, seq, gw, disk, env>>

\* Mutant: the records are pushed before the reply, on the same task.
HandleHelloPushesFirst(s, k) ==
    LET p == dial[s][k].peer IN
    /\ dial[s][k] # None /\ dial[s][k].reply = None /\ Reach(s, p, dial[s][k].at)
    /\ phase[s] = "running" /\ inbox[s][p] = None
    /\ RememberPeer(p, s, Announced(s))
    /\ inbox' = [inbox EXCEPT ![s][p] =
                   [type |-> "records", batch |-> [records[p] EXCEPT ![p] = OwnRecord(p)]]]
    /\ dial' = [dial EXCEPT ![s][k].reply = Announced(p)]
    /\ UNCHANGED <<scen, phase, loc, seq, records, gw, memory, disk, env>>

\* handler.rs: remember the caller, answer, and leave the push of the records to a task.
HandleHello(s, k) ==
    LET p == dial[s][k].peer IN
    /\ dial[s][k] # None /\ dial[s][k].reply = None /\ Reach(s, p, dial[s][k].at)
    /\ RememberPeer(p, s, Announced(s))
    /\ push' = [push EXCEPT ![p] = @ \cup {s}]
    /\ dial' = [dial EXCEPT ![s][k].reply = Announced(p)]
    /\ UNCHANGED <<scen, phase, loc, seq, records, inbox, gw, known, connected, merged, disk, env>>

\* record_hello_reply, and what the caller does after it: gateway_loop keeps the record and
\* its sequence, configured_peer_loop stops dialing the peer, mdns_loop upserts once more
\* (the same row), start goes on to run().
HelloReply(s, k) ==
    LET d == dial[s][k]  p == dial[s][k].peer IN
    /\ d # None /\ d.reply # None
    /\ RememberPeer(s, p, d.reply)
    /\ dial' = [dial EXCEPT ![s][k] = None]
    /\ phase' = [phase EXCEPT ![s] = "running"]
    /\ IF k = "gateway"
         THEN /\ RememberRecords(s, [Nobody EXCEPT ![p] = [seq |-> d.seq, loc |-> d.at, valid |-> TRUE]])
              /\ known' = [known EXCEPT ![s][p] = d.seq]
         ELSE UNCHANGED <<records, rfile, known>>
    /\ connected' = [connected EXCEPT ![s] = IF k = "peer" THEN @ \cup {p} ELSE @]
    /\ UNCHANGED <<scen, loc, seq, file, merged, push, inbox, gw, env>>

\* send_fire_to_peer: the message leaves when someone accepts at the peer's address.  Bound:
\* one message per pair is on its way.
Deliverable(s, p) == Reach(s, p, Target(s, p)) /\ inbox[p][s] = None
SendFireToPeer(s, p, message) == inbox' = [inbox EXCEPT ![p][s] = message]

\* peer_records, with the Sister's own.
PeerRecords(s) == [records[s] EXCEPT ![s] = OwnRecord(s)]

\* send_peer_records, from the deferred task: all locators, with the Sister's own.  It waits
\* for a peer that is starting and gives up when the peer cannot be reached.
PushRecords(s, p) ==
    /\ p \in push[s] /\ phase[p] # "dialing"
    /\ push' = [push EXCEPT ![s] = @ \ {p}]
    /\ IF Iroh /\ Deliverable(s, p)
         THEN SendFireToPeer(s, p, [type |-> "records", batch |-> PeerRecords(s)])
         ELSE UNCHANGED inbox
    /\ UNCHANGED <<scen, phase, loc, seq, table, records, saving, known, connected, merged, dial,
                   gw, disk, env>>

-----------------------------------------------------------------------------
(* Heartbeat and cleanup.                                                   *)

\* state_broadcast_loop to one known peer; an error is ignored.
BroadcastState(s, p) ==
    /\ phase[s] = "running" /\ table[s][p] # None
    /\ Deliverable(s, p)
    /\ SendFireToPeer(s, p, [type |-> "state", row |-> Announced(s)])
    /\ UNCHANGED <<scen, phase, loc, seq, table, records, saving, dial, gw, memory, disk, env>>

\* handler.rs: State upserts the row and does not persist it, PeerRecords keeps the locators.
HandleMessage(s, p) ==
    LET m == inbox[s][p] IN
    /\ m # None
    /\ inbox' = [inbox EXCEPT ![s][p] = None]
    /\ IF m.type = "state"
         THEN table' = [table EXCEPT ![s][p] = Upsert(@, m.row)] /\ UNCHANGED <<records, rfile>>
         ELSE RememberRecords(s, m.batch) /\ UNCHANGED table
    /\ UNCHANGED <<scen, phase, loc, seq, saving, file, dial, gw, memory, env>>

\* `p` sends State to `s`, or will once its Hello returns.
Heartbeats(p, s) ==
    \/ phase[p] = "running" /\ table[p][s] # None /\ Reach(p, s, Target(p, s))
    \/ \E k \in Loops : dial[p][k] # None /\ dial[p][k].peer = s /\ dial[p][k].reply # None

\* Contact within the peer timeout, which is several heartbeats: who receives a State knows
\* where to send the next one.
Contact(s, p) == Heartbeats(s, p) \/ Heartbeats(p, s)

\* cleanup_loop finds the peer timeout exceeded.
TimedOut(s, p) == phase[s] = "running" /\ table[s][p] # None /\ ~Contact(s, p) /\ inbox[s][p] = None

\* Mutant: a row whose locator is on file is kept.
PruneWithoutRecord(s, p) ==
    /\ TimedOut(s, p) /\ records[s][p] = None
    /\ table' = [table EXCEPT ![s][p] = None]
    /\ UNCHANGED <<scen, phase, loc, seq, records, saving, dial, inbox, gw, memory, disk, env>>

\* cleanup_loop, prune_offline: the row of a peer that is not heard of goes.  The files stay.
PruneOffline(s, p) ==
    /\ TimedOut(s, p)
    /\ table' = [table EXCEPT ![s][p] = None]
    /\ UNCHANGED <<scen, phase, loc, seq, records, saving, dial, inbox, gw, memory, disk, env>>

-----------------------------------------------------------------------------
(* Discovery.                                                               *)

Idle(s, k) == phase[s] = "running" /\ dial[s][k] = None

\* peer_record_usable.
PeerRecordUsable(r) == r.valid

\* merge_gateway_candidate over what the gateways listed: the first usable record that has the
\* highest sequence, so any of these, since the gateways may be listed in any order.
MergeCandidates(listed) ==
    LET usable == {r \in listed : r # None /\ PeerRecordUsable(r)}
    IN  IF usable = {} THEN {None} ELSE {r \in usable : \A q \in usable : q.seq <= r.seq}

\* A round of gateway_loop: announce the own record to every gateway that answers (it keeps
\* one of a higher sequence), fetch what it has, and merge.  The round's candidates are then
\* dialed one after the other.
GatewayRound(s) ==
    LET up == scen.gateways \ gwDown
        told == [g \in Gateways |-> IF g \in up THEN [gw[g] EXCEPT ![s] = UpsertRecord(@, OwnRecord(s))]
                                    ELSE gw[g]]
        Fetched(p) == IF p = s THEN {None} ELSE MergeCandidates({told[g][p] : g \in up})
    IN  /\ Idle(s, "gateway") /\ scen.gateways # {} /\ merged[s] = Nobody
        /\ gw' = told
        /\ \E found \in [Sisters -> UNION {Fetched(p) : p \in Sisters}] :
             /\ \A p \in Sisters : found[p] \in Fetched(p)
             /\ merged' = [merged EXCEPT ![s] = found]
        /\ UNCHANGED <<scen, phase, loc, seq, table, records, saving, known, connected, dial, push,
                       inbox, disk, env>>


ShouldRebootstrap(s, p, q) == known[s][p] = 0 \/ q > known[s][p] \/ table[s][p] = None

\* bootstrap_peer_record: check the record again, then Hello to its endpoint.
BootstrapPeerRecord(s, p, r) ==
    IF PeerRecordUsable(r) THEN Dialing(s, "gateway", p, r.loc, r.seq) ELSE UNCHANGED dial

\* gateway_loop goes on to the next candidate: dialed unless it is known and live.
Bootstrap(s, p) ==
    LET r == merged[s][p] IN
    /\ Idle(s, "gateway") /\ r # None
    /\ merged' = [merged EXCEPT ![s][p] = None]
    /\ IF ShouldRebootstrap(s, p, r.seq) THEN BootstrapPeerRecord(s, p, r) ELSE UNCHANGED dial
    /\ UNCHANGED <<scen, phase, loc, seq, table, records, saving, known, connected, push, inbox,
                   gw, disk, env>>

\* add_known_peer: Hello to a control address.
AddKnownPeer(s, p) == Dialing(s, "peer", p, loc[p], 0)

\* configured_peer_loop dials until the peer answers once, and never again.
DialConfigured(s, p) ==
    /\ Idle(s, "peer") /\ ~Iroh /\ p \in scen.peers[s] \ connected[s]
    /\ loc[p] # 0
    /\ AddKnownPeer(s, p)
    /\ UNCHANGED <<scen, phase, loc, seq, table, records, saving, inbox, gw, memory, disk, env>>

\* advertise: the control address, and the stream endpoint where there is one.
Advertise(p) == [control_addr |-> ListenAddr(p), stream_endpoint |-> StreamEndpoint(p)]

\* instance_to_peer: the row that an advertisement describes.
InstanceToPeer(instance) ==
    PeerState(instance.control_addr, instance.stream_endpoint)

\* add_known_discovered_peer: Hello to the stream endpoint with Iroh, else to the control address.
AddKnownDiscoveredPeer(s, p, found) ==
    Dialing(s, "mdns", p, IF Iroh /\ found.ep # 0 THEN found.ep ELSE found.addr, 0)

\* mdns_loop: an advertisement that tells something new about another Sister leads to a Hello.
DialDiscovered(s, p) ==
    LET found == InstanceToPeer(Advertise(p)) IN
    /\ Idle(s, "mdns") /\ scen.mdns /\ p # s
    /\ phase[p] = "running" /\ Linked(s, p)
    /\ table[s][p] # found
    /\ AddKnownDiscoveredPeer(s, p, found)
    /\ UNCHANGED <<scen, phase, loc, seq, table, records, saving, inbox, gw, memory, disk, env>>

-----------------------------------------------------------------------------
(* The environment.                                                         *)

Cut(s, p) ==
    /\ faults < scen.faults /\ scen.cuts /\ {s, p} \subseteq Members /\ s # p /\ Linked(s, p)
    /\ faults' = faults + 1 /\ cut' = cut \cup {{s, p}}
    /\ UNCHANGED <<scen, phase, loc, seq, table, records, saving, dial, inbox, gw, gwDown, memory, disk>>

Heal ==
    /\ cut # {}
    /\ cut' = {}
    /\ UNCHANGED <<scen, phase, loc, seq, table, records, saving, dial, inbox, gw, gwDown, faults, memory, disk>>

GatewayOutage(g) ==
    /\ faults < scen.faults /\ g \in scen.gateways \ gwDown
    /\ faults' = faults + 1 /\ gwDown' = gwDown \cup {g}
    /\ UNCHANGED <<scen, phase, loc, seq, table, records, saving, dial, inbox, gw, cut, memory, disk>>

GatewayBack ==
    /\ gwDown # {}
    /\ gwDown' = {}
    /\ UNCHANGED <<scen, phase, loc, seq, table, records, saving, dial, inbox, gw, cut, faults, memory, disk>>

\* A gateway may hold a garbled record of a high sequence for a Sister.
Init ==
    /\ scen \in Scenarios
    /\ phase = [s \in Sisters |-> "down"]
    /\ loc = [s \in Sisters |-> 0] /\ seq = [s \in Sisters |-> 1]
    /\ table = [s \in Sisters |-> Nobody] /\ records = table /\ file = table /\ rfile = table
    /\ inbox = table /\ merged = table /\ dial = [s \in Sisters |-> NoDial]
    /\ saving = [s \in Sisters |-> {}] /\ push = saving /\ connected = saving
    /\ known = [s \in Sisters |-> [p \in Sisters |-> 0]]
    /\ gw = [g \in Gateways |-> [p \in Sisters |->
               IF <<g, p>> \in scen.garbled THEN [seq |-> 9, loc |-> 1, valid |-> FALSE] ELSE None]]
    /\ gwDown = {} /\ cut = {} /\ faults = 0

\* What is on its way to a disk or a handler.
Deliver(s) == SavePeers(s) \/ \E p \in Sisters : PushRecords(s, p) \/ HandleMessage(s, p)

\* What a Sister's tasks do.
Work(s) ==
    \/ GatewayRound(s)
    \/ \E k \in Loops : HelloFails(s, k) \/ HandleHello(s, k) \/ HelloReply(s, k)
    \/ \E p \in Sisters : \/ DialConfigured(s, p) \/ DialDiscovered(s, p) \/ Bootstrap(s, p)
                          \/ PruneOffline(s, p) \/ BroadcastState(s, p)

\* Bound: only a slow deployment does anything else before these arrive.
Settled ==
    scen.slow \/ \A s \in Sisters : /\ saving[s] = {} /\ inbox[s] = Nobody
                                   /\ \A p \in push[s] : phase[p] = "dialing"

Next ==
    \/ \E s \in Sisters : Deliver(s)
    \/ Settled /\ \/ \E s \in Sisters : Start(s) \/ Crash(s) \/ Work(s)
                  \/ \E s, p \in Sisters : Cut(s, p)
                  \/ \E g \in Gateways : GatewayOutage(g)
                  \/ Heal \/ GatewayBack

Spec == Init /\ [][Next]_vars

\* Every loop of a running Sister keeps ticking, and no connection stays open for ever
\* without an answer.
FairSpec ==
    /\ Spec
    /\ \A s \in Sisters :
         /\ WF_vars(Deliver(s)) /\ WF_vars(GatewayRound(s))
         /\ \A k \in Loops : WF_vars(HelloFails(s, k) \/ HandleHello(s, k) \/ HelloReply(s, k))
         /\ \A p \in Sisters \ {s} :
              /\ WF_vars(PruneOffline(s, p)) /\ WF_vars(BroadcastState(s, p))
              /\ WF_vars(Bootstrap(s, p)) /\ WF_vars(DialConfigured(s, p) \/ DialDiscovered(s, p))

-----------------------------------------------------------------------------
(* Properties.                                                              *)

\* While a Sister runs, the locator it keeps of a peer is never replaced by one of an older
\* transport binding, in whatever order gateways, pushed batches and its own file bring them
\* (upsert_peer_record).
SequenceNeverBack ==
    [][\A s, p \in Sisters :
         phase[s] # "down" /\ phase'[s] # "down" /\ records[s][p] # None =>
           records'[s][p] # None /\ records'[s][p].seq >= records[s][p].seq]_vars

\* The deployment lets the two find each other again: through a sound gateway, mDNS, --peer on both
\* sides and no partition (configured_peer_loop does not come back to a peer it reached), or
\* --iroh-peer on one side with the other side always up.
Findable(s, p) ==
    \/ \E g \in scen.gateways \ gwDown : {<<g, s>>, <<g, p>>} \cap scen.garbled = {}
    \/ scen.mdns
    \/ p \in scen.peers[s] /\ s \in scen.peers[p] /\ ~scen.cuts
    \/ scen.irohPeer[s] = {p} /\ p \notin scen.faulty
    \/ scen.irohPeer[p] = {s} /\ s \notin scen.faulty

Stable(s, p) ==
    phase[s] = "running" /\ phase[p] = "running" /\ Linked(s, p) /\ Findable(s, p)


\* A Sister that dials --iroh-peer gets past it: the callee answers before it sends anything
\* to a caller that does not accept yet, or the dial fails (handler.rs Hello, start).
BootCompletes ==
    \A s \in Sisters : []<>(phase[s] # "dialing")

\* A peer that is gone for good is gone from the table for good: neither its row in
\* peers.json, a late State nor a gateway that still lists it brings it back (cleanup_loop).
DeadPeersLeave ==
    \A s, p \in Sisters :
      s # p => (<>[](phase[s] = "running" /\ phase[p] = "down") => <>[](table[s][p] = None))
=============================================================================
