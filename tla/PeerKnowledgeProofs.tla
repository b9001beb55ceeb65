------------------------ MODULE PeerKnowledgeProofs ------------------------
(***************************************************************************)
(* The signed locator that a running Sister keeps of a peer never goes back *)
(* to an older transport binding, for any number of Sisters, gateways and   *)
(* locations, and whatever the deployment.                                  *)
(*                                                                          *)
(* Most of the work is in what carries a sequence from one Sister to        *)
(* another: gateway directories, a round's candidates, a Hello in progress, *)
(* pushed batches and the file all hold well-formed locators (Carried), so  *)
(* that the comparison of upsert_peer_record is one of numbers.             *)
(***************************************************************************)
EXTENDS PeerKnowledge, TLAPS

Locator == [seq : Nat, loc : Nat, valid : BOOLEAN]
Book == [Sisters -> Locator \cup {None}]
Row == [addr : Nat, ep : Nat]
Hello == [peer : Sisters, at : Nat, seq : Nat, reply : Row \cup {None}]
Message == [type : {"records"}, batch : Book] \cup [type : {"state"}, row : Row]

\* The inductive invariant: whatever holds or carries a locator holds a well-formed one.
Carried ==
    /\ scen \in Scenarios
    /\ phase \in [Sisters -> {"down", "dialing", "running"}]
    /\ loc \in [Sisters -> Nat]
    /\ seq \in [Sisters -> Nat]
    /\ records \in [Sisters -> Book]
    /\ rfile \in [Sisters -> Book]
    /\ merged \in [Sisters -> Book]
    /\ gw \in [Gateways -> Book]
    /\ dial \in [Sisters -> [Loops -> Hello \cup {None}]]
    /\ inbox \in [Sisters -> [Sisters -> Message \cup {None}]]

\* OwnRecord and Announced are well formed.
LEMMA OwnWellFormed ==
    ASSUME Carried, NEW s \in Sisters
    PROVE  OwnRecord(s) \in Locator /\ Announced(s) \in Row
BY DEF Carried, OwnRecord, Announced, Locator, Row, PeerState, ListenAddr, StreamEndpoint

\* upsert_peer_record gives a well-formed locator, and never one of a lower sequence.
LEMMA UpsertKeepsOrder ==
    ASSUME NEW current \in Locator \cup {None}, NEW new \in Locator
    PROVE  /\ UpsertRecord(current, new) \in Locator \cup {None}
           /\ current # None => /\ UpsertRecord(current, new) # None
                                /\ UpsertRecord(current, new).seq >= current.seq
BY NoneAssumption DEF UpsertRecord, Locator

\* remember_peer_record for a batch does the same to every locator, and saves them.
LEMMA RememberKeepsOrder ==
    ASSUME Carried, NEW s \in Sisters, NEW batch \in Book, RememberRecords(s, batch)
    PROVE  /\ records' \in [Sisters -> Book] /\ rfile' \in [Sisters -> Book]
           /\ \A t, p \in Sisters : records[t][p] # None =>
                records'[t][p] # None /\ records'[t][p].seq >= records[t][p].seq
<1> DEFINE next == [p \in Sisters |-> IF batch[p] = None THEN records[s][p]
                                      ELSE UpsertRecord(records[s][p], batch[p])]
<1>1. /\ records' = [records EXCEPT ![s] = next]
      /\ rfile' = [rfile EXCEPT ![s] = next]
  BY DEF RememberRecords, SaveRecords
<1>2. \A p \in Sisters :
         /\ next[p] \in Locator \cup {None}
         /\ records[s][p] # None => next[p] # None /\ next[p].seq >= records[s][p].seq
  <2> TAKE p \in Sisters
  <2>1. records[s][p] \in Locator \cup {None} /\ batch[p] \in Locator \cup {None}
    BY DEF Carried, Book
  <2>2. CASE batch[p] = None
    BY <2>1, <2>2 DEF Locator
  <2>3. CASE batch[p] # None
    <3>1. batch[p] \in Locator
      BY <2>1, <2>3
    <3>2. next[p] = UpsertRecord(records[s][p], batch[p])
      BY <2>3
    <3> QED
      BY Zenon, <2>1, <3>1, <3>2, UpsertKeepsOrder
  <2> QED
    BY <2>2, <2>3
<1>3. next \in Book
  BY <1>2 DEF Book
<1>4. records' \in [Sisters -> Book] /\ rfile' \in [Sisters -> Book]
  BY <1>1, <1>3 DEF Carried
<1>5. \A t, p \in Sisters : records[t][p] # None =>
         records'[t][p] # None /\ records'[t][p].seq >= records[t][p].seq
  <2> TAKE t, p \in Sisters
  <2>1. records[t][p] \in Locator \cup {None}
    BY DEF Carried, Book
  <2>2. records'[t][p] = IF t = s THEN next[p] ELSE records[t][p]
    BY <1>1 DEF Carried
  <2>3. CASE t = s
    BY <1>2, <2>2, <2>3
  <2>4. CASE t # s
    BY <2>1, <2>2, <2>4 DEF Locator
  <2> QED
    BY <2>3, <2>4
<1> QED
  BY <1>4, <1>5

\* A Hello on its way is well formed.
LEMMA DialingWellFormed ==
    ASSUME Carried, NEW s \in Sisters, NEW k \in Loops, NEW p \in Sisters, NEW l \in Nat, NEW q \in Nat,
           Dialing(s, k, p, l, q)
    PROVE  dial' \in [Sisters -> [Loops -> Hello \cup {None}]]
<1>1. [peer |-> p, at |-> l, seq |-> q, reply |-> None] \in Hello
  BY DEF Hello
<1> QED
  BY <1>1 DEF Dialing, Carried

\* Memory that goes leaves no locator, no candidate, no Hello and no message.
LEMMA GoneWellFormed ==
    ASSUME Carried, NEW s \in Sisters, Gone(s)
    PROVE  /\ phase' \in [Sisters -> {"down", "dialing", "running"}] /\ phase'[s] = "down"
           /\ records' \in [Sisters -> Book] /\ merged' \in [Sisters -> Book]
           /\ dial' \in [Sisters -> [Loops -> Hello \cup {None}]]
           /\ inbox' \in [Sisters -> [Sisters -> Message \cup {None}]]
           /\ \A t \in Sisters \ {s} : records'[t] = records[t]
<1>1. Nobody \in Book /\ Nobody \in [Sisters -> Message \cup {None}]
  BY DEF Nobody, Book
<1>2. NoDial \in [Loops -> Hello \cup {None}]
  BY DEF NoDial
<1>3. records' \in [Sisters -> Book] /\ merged' \in [Sisters -> Book]
  BY <1>1 DEF Gone, Carried
<1>4. dial' \in [Sisters -> [Loops -> Hello \cup {None}]]
  BY <1>2 DEF Gone, Carried
<1>5. inbox' \in [Sisters -> [Sisters -> Message \cup {None}]]
  BY Zenon, <1>1 DEF Gone, Carried
<1>6. phase' \in [Sisters -> {"down", "dialing", "running"}] /\ phase'[s] = "down"
  BY DEF Gone, Carried
<1>7. \A t \in Sisters \ {s} : records'[t] = records[t]
  BY DEF Gone, Carried
<1> QED
  BY <1>3, <1>4, <1>5, <1>6, <1>7

\* What a step may do to a locator of a Sister that runs before and after it.
KeepsOrder ==
    \A s, p \in Sisters :
      phase[s] # "down" /\ phase'[s] # "down" /\ records[s][p] # None =>
        records'[s][p] # None /\ records'[s][p].seq >= records[s][p].seq

\* A step that leaves the locators alone keeps their order.
LEMMA SameRecords ==
    ASSUME Carried, records' = records
    PROVE  KeepsOrder
<1> SUFFICES ASSUME NEW s \in Sisters, NEW p \in Sisters, records[s][p] # None
             PROVE  records[s][p].seq >= records[s][p].seq
  BY DEF KeepsOrder
<1>1. records[s][p] \in Locator
  BY DEF Carried, Book
<1> QED
  BY <1>1 DEF Locator

\* So does one in which only a Sister without or losing its memory changes its own.
LEMMA OthersRecords ==
    ASSUME Carried, NEW s \in Sisters, phase[s] = "down" \/ phase'[s] = "down",
           \A t \in Sisters \ {s} : records'[t] = records[t]
    PROVE  KeepsOrder
<1> SUFFICES ASSUME NEW t \in Sisters, NEW p \in Sisters, t # s, records[t][p] # None
             PROVE  records'[t][p] # None /\ records'[t][p].seq >= records[t][p].seq
  BY DEF KeepsOrder
<1>1. records[t][p] \in Locator
  BY DEF Carried, Book
<1>2. records'[t][p] = records[t][p]
  OBVIOUS
<1> QED
  BY <1>1, <1>2 DEF Locator

\* `misaka start` (SisterNode::new): what is read from the two files and the dial it begins.
LEMMA StartStep ==
    ASSUME Carried, NEW s \in Sisters, Start(s)
    PROVE  Carried' /\ KeepsOrder
<1>1. loc' \in [Sisters -> Nat] /\ seq' \in [Sisters -> Nat]
  <2>1. PICK l \in 1..MaxLoc, rekeyed \in BOOLEAN :
             /\ loc' = [loc EXCEPT ![s] = l]
             /\ seq' = [seq EXCEPT ![s] = IF rekeyed THEN @ + 1 ELSE @]
    BY Zenon DEF Start
  <2>2. l \in Nat
    BY MaxLocAssumption
  <2> QED
    BY <2>1, <2>2 DEF Carried
<1>2. LoadRecords(s) \in Book
  BY DEF LoadRecords, Carried, Book
<1>3. records' = [records EXCEPT ![s] = LoadRecords(s)]
  BY DEF Start, NewPeerService
<1>4. records' \in [Sisters -> Book]
  BY <1>2, <1>3 DEF Carried
<1>5. /\ phase' \in [Sisters -> {"down", "dialing", "running"}]
      /\ dial' \in [Sisters -> [Loops -> Hello \cup {None}]]
  <2>1. PICK p \in IF scen.irohPeer[s] = {} THEN {None} ELSE scen.irohPeer[s] :
             IF p = None THEN phase' = [phase EXCEPT ![s] = "running"] /\ UNCHANGED dial
             ELSE /\ loc[p] # 0
                  /\ phase' = [phase EXCEPT ![s] = "dialing"]
                  /\ Dialing(s, "start", p, loc[p], 0)
    BY DEF Start
  <2>2. CASE p = None
    BY Zenon, <2>1, <2>2 DEF Carried
  <2>3. CASE p # None
    <3>1. p \in Sisters
      BY <2>3, ScenariosAssumption DEF Carried
    <3>2. loc[p] \in Nat /\ 0 \in Nat /\ "start" \in Loops
      BY <3>1 DEF Carried, Loops
    <3>3. dial' \in [Sisters -> [Loops -> Hello \cup {None}]]
      BY <2>1, <2>3, <3>1, <3>2, DialingWellFormed
    <3> QED
      BY Zenon, <2>1, <2>3, <3>3 DEF Carried
  <2> QED
    BY <2>2, <2>3
<1>6. UNCHANGED <<scen, rfile, merged, gw, inbox>>
  BY DEF Start, memory, disk
<1>7. Carried'
  BY Zenon, <1>1, <1>4, <1>5, <1>6 DEF Carried
<1>8. phase[s] = "down" /\ \A t \in Sisters \ {s} : records'[t] = records[t]
  BY <1>3 DEF Start, Carried
<1> QED
  BY <1>7, <1>8, OthersRecords

\* A crash, and a Hello that fails before run().
LEMMA CrashStep ==
    ASSUME Carried, NEW s \in Sisters, Crash(s)
    PROVE  Carried' /\ KeepsOrder
<1>1. Nobody \in Book
  BY DEF Nobody, Book
<1>2. rfile' \in [Sisters -> Book]
  <2>1. rfile' = rfile \/ rfile' = [rfile EXCEPT ![s] = Nobody]
    BY DEF Crash
  <2> QED
    BY <1>1, <2>1 DEF Carried
<1>3. Gone(s) /\ UNCHANGED <<scen, loc, seq, gw>>
  BY DEF Crash
<1>4. Carried'
  BY <1>2, <1>3, GoneWellFormed DEF Carried
<1> QED
  BY <1>3, <1>4, GoneWellFormed, OthersRecords

LEMMA HelloFailsStep ==
    ASSUME Carried, NEW s \in Sisters, NEW k \in Loops, HelloFails(s, k)
    PROVE  Carried' /\ KeepsOrder
<1>1. UNCHANGED <<scen, loc, seq, gw, rfile>>
  BY DEF HelloFails, disk
<1>2. CASE phase[s] = "dialing"
  <2>1. Gone(s)
    BY Zenon, <1>2 DEF HelloFails
  <2>2. Carried'
    BY <1>1, <2>1, GoneWellFormed DEF Carried
  <2> QED
    BY <2>1, <2>2, GoneWellFormed, OthersRecords
<1>3. CASE phase[s] # "dialing"
  <2>1. dial' = [dial EXCEPT ![s][k] = None] /\ UNCHANGED <<phase, inbox, records, merged>>
    BY <1>3 DEF HelloFails, memory
  <2>2. dial' \in [Sisters -> [Loops -> Hello \cup {None}]]
    BY <2>1 DEF Carried
  <2>3. Carried'
    BY <1>1, <2>1, <2>2 DEF Carried
  <2> QED
    BY <2>1, <2>3, SameRecords
<1> QED
  BY <1>2, <1>3

\* The callee of a Hello answers with what it announces.
LEMMA HandleHelloStep ==
    ASSUME Carried, NEW s \in Sisters, NEW k \in Loops, HandleHello(s, k)
    PROVE  Carried' /\ KeepsOrder
<1>1. dial[s][k] \in Hello
  BY DEF HandleHello, Carried
<1>2. Announced(dial[s][k].peer) \in Row
  BY <1>1, OwnWellFormed DEF Hello
<1>3. dial' = [dial EXCEPT ![s][k].reply = Announced(dial[s][k].peer)]
  BY DEF HandleHello
<1>4. [dial[s][k] EXCEPT !.reply = Announced(dial[s][k].peer)] \in Hello
  BY <1>1, <1>2 DEF Hello
<1>5. dial' \in [Sisters -> [Loops -> Hello \cup {None}]]
  BY <1>3, <1>4 DEF Carried
<1>6. UNCHANGED <<scen, phase, loc, seq, records, rfile, merged, gw, inbox>>
  BY DEF HandleHello, disk
<1>7. Carried'
  BY <1>5, <1>6 DEF Carried
<1> QED
  BY <1>6, <1>7, SameRecords

\* record_hello_reply: from gateway_loop the record that was dialed is kept.
LEMMA HelloReplyStep ==
    ASSUME Carried, NEW s \in Sisters, NEW k \in Loops, HelloReply(s, k)
    PROVE  Carried' /\ KeepsOrder
<1>1. dial[s][k] \in Hello
  BY DEF HelloReply, Carried
<1>2. dial' \in [Sisters -> [Loops -> Hello \cup {None}]]
  BY Zenon DEF HelloReply, Carried
<1>3. phase' \in [Sisters -> {"down", "dialing", "running"}]
  BY Zenon DEF HelloReply, Carried
<1>4. UNCHANGED <<scen, loc, seq, merged, gw, inbox>>
  BY DEF HelloReply
<1>5. CASE k = "gateway"
  <2> DEFINE r == [seq |-> dial[s][k].seq, loc |-> dial[s][k].at, valid |-> TRUE]
             batch == [Nobody EXCEPT ![dial[s][k].peer] = r]
  <2>1. r \in Locator
    BY Zenon, <1>1 DEF Hello, Locator
  <2>2. batch \in Book
    BY Zenon, <2>1 DEF Nobody, Book
  <2>3. RememberRecords(s, batch)
    BY <1>5 DEF HelloReply
  <2>4. /\ records' \in [Sisters -> Book] /\ rfile' \in [Sisters -> Book]
        /\ KeepsOrder
    BY <2>2, <2>3, RememberKeepsOrder DEF KeepsOrder
  <2> QED
    BY Zenon, <1>2, <1>3, <1>4, <2>4 DEF Carried
<1>6. CASE k # "gateway"
  <2>1. UNCHANGED <<records, rfile>>
    BY <1>6 DEF HelloReply
  <2>2. Carried'
    BY <1>2, <1>3, <1>4, <2>1 DEF Carried
  <2> QED
    BY <2>1, <2>2, SameRecords
<1> QED
  BY Zenon, <1>5, <1>6

\* A message that is sent (send_peer_records, state_broadcast_loop) is well formed.
LEMMA SendStep ==
    ASSUME Carried, NEW s \in Sisters, NEW p \in Sisters, NEW message \in Message,
           SendFireToPeer(s, p, message),
           UNCHANGED <<scen, phase, loc, seq, records, rfile, merged, gw, dial>>
    PROVE  Carried' /\ KeepsOrder
<1>1. inbox' \in [Sisters -> [Sisters -> Message \cup {None}]]
  BY DEF SendFireToPeer, Carried
<1>2. Carried'
  BY <1>1 DEF Carried
<1> QED
  BY <1>2, SameRecords

LEMMA PushRecordsStep ==
    ASSUME Carried, NEW s \in Sisters, NEW p \in Sisters, PushRecords(s, p)
    PROVE  Carried' /\ KeepsOrder
<1>1. UNCHANGED <<scen, phase, loc, seq, records, rfile, merged, gw, dial>>
  BY Zenon DEF PushRecords, disk
<1>2. CASE Iroh /\ Deliverable(s, p)
  <2>1. PeerRecords(s) \in Book
    BY Zenon, OwnWellFormed DEF PeerRecords, Book, Carried
  <2>2. [type |-> "records", batch |-> PeerRecords(s)] \in Message
    BY <2>1 DEF Message
  <2> QED
    BY Zenon, <1>1, <1>2, <2>2, SendStep DEF PushRecords
<1>3. CASE ~(Iroh /\ Deliverable(s, p))
  <2>1. UNCHANGED inbox
    BY Zenon, <1>3 DEF PushRecords
  <2>2. Carried'
    BY Zenon, <1>1, <2>1 DEF Carried
  <2> QED
    BY Zenon, <1>1, <2>2, SameRecords
<1> QED
  BY Zenon, <1>2, <1>3

LEMMA BroadcastStateStep ==
    ASSUME Carried, NEW s \in Sisters, NEW p \in Sisters, BroadcastState(s, p)
    PROVE  Carried' /\ KeepsOrder
<1>1. UNCHANGED <<scen, phase, loc, seq, records, rfile, merged, gw, dial>>
  BY Zenon DEF BroadcastState, disk, memory
<1>2. [type |-> "state", row |-> Announced(s)] \in Message
  BY OwnWellFormed DEF Message
<1> QED
  BY Zenon, <1>1, <1>2, SendStep DEF BroadcastState

\* handler.rs: a pushed batch is remembered locator by locator.
LEMMA HandleMessageStep ==
    ASSUME Carried, NEW s \in Sisters, NEW p \in Sisters, HandleMessage(s, p)
    PROVE  Carried' /\ KeepsOrder
<1>1. inbox[s][p] \in Message
  BY Zenon DEF HandleMessage, Carried
<1>2. inbox' \in [Sisters -> [Sisters -> Message \cup {None}]]
  BY Zenon DEF HandleMessage, Carried
<1>3. UNCHANGED <<scen, phase, loc, seq, merged, gw, dial>>
  BY DEF HandleMessage, memory
<1>4. CASE inbox[s][p].type = "state"
  <2>1. UNCHANGED <<records, rfile>>
    BY Zenon, <1>4 DEF HandleMessage
  <2>2. Carried'
    BY Zenon, <1>2, <1>3, <2>1 DEF Carried
  <2> QED
    BY Zenon, <2>1, <2>2, SameRecords
<1>5. CASE inbox[s][p].type # "state"
  <2>1. inbox[s][p].batch \in Book
    BY Zenon, <1>1, <1>5 DEF Message
  <2>2. RememberRecords(s, inbox[s][p].batch)
    BY Zenon, <1>5 DEF HandleMessage
  <2>3. /\ records' \in [Sisters -> Book] /\ rfile' \in [Sisters -> Book]
        /\ KeepsOrder
    BY <2>1, <2>2, RememberKeepsOrder DEF KeepsOrder
  <2> QED
    BY Zenon, <1>2, <1>3, <2>3 DEF Carried
<1> QED
  BY Zenon, <1>4, <1>5

\* A round of gateway_loop: what the gateways keep and what is merged are locators they held.
LEMMA GatewayRoundStep ==
    ASSUME Carried, NEW s \in Sisters, GatewayRound(s)
    PROVE  Carried' /\ KeepsOrder
<1> DEFINE up == scen.gateways \ gwDown
           told == [g \in Gateways |-> IF g \in up THEN [gw[g] EXCEPT ![s] = UpsertRecord(@, OwnRecord(s))]
                                       ELSE gw[g]]
           Fetched(p) == IF p = s THEN {None} ELSE MergeCandidates({told[g][p] : g \in up})
<1>1. gw' = told
  BY Zenon DEF GatewayRound
<1>2. PICK found \in [Sisters -> UNION {Fetched(p) : p \in Sisters}] :
         /\ \A p \in Sisters : found[p] \in Fetched(p)
         /\ merged' = [merged EXCEPT ![s] = found]
  BY Zenon DEF GatewayRound
<1>3. UNCHANGED <<scen, phase, loc, seq, records, rfile, dial, inbox>>
  BY DEF GatewayRound, disk
<1>4. up \subseteq Gateways
  BY ScenariosAssumption DEF Carried
<1>5. \A g \in Gateways : told[g] \in Book
  <2> TAKE g \in Gateways
  <2>1. gw[g] \in Book /\ gw[g][s] \in Locator \cup {None}
    BY Zenon DEF Carried, Book
  <2>2. UpsertRecord(gw[g][s], OwnRecord(s)) \in Locator \cup {None}
    BY Zenon, <2>1, OwnWellFormed, UpsertKeepsOrder
  <2> QED
    BY <2>1, <2>2 DEF Book
<1>6. told \in [Gateways -> Book]
  BY <1>5
<1> HIDE DEF told, up
<1>7. \A p \in Sisters : Fetched(p) \subseteq Locator \cup {None}
  <2> TAKE p \in Sisters
  <2>1. {told[g][p] : g \in up} \subseteq Locator \cup {None}
    BY <1>4, <1>6 DEF Book
  <2>2. MergeCandidates({told[g][p] : g \in up}) \subseteq {told[g][p] : g \in up} \cup {None}
    BY DEF MergeCandidates
  <2> QED
    BY <2>1, <2>2
<1> HIDE DEF Fetched
<1>8. found \in Book
  BY <1>2, <1>7 DEF Book
<1>9. Carried'
  BY <1>1, <1>2, <1>3, <1>6, <1>8 DEF Carried
<1> QED
  BY Zenon, <1>3, <1>9, SameRecords

\* gateway_loop dials what it merged, configured_peer_loop and mdns_loop what they were told.
LEMMA BootstrapStep ==
    ASSUME Carried, NEW s \in Sisters, NEW p \in Sisters, Bootstrap(s, p)
    PROVE  Carried' /\ KeepsOrder
<1>1. UNCHANGED <<scen, phase, loc, seq, records, rfile, gw, inbox>>
  BY Zenon DEF Bootstrap, disk
<1>2. merged' \in [Sisters -> Book]
  BY Zenon DEF Bootstrap, Carried, Book
<1>3. merged[s][p] \in Locator /\ "gateway" \in Loops
  BY DEF Bootstrap, Carried, Book, Loops
<1>4. Dialing(s, "gateway", p, merged[s][p].loc, merged[s][p].seq) \/ UNCHANGED dial
  BY Zenon DEF Bootstrap, BootstrapPeerRecord
<1>5. dial' \in [Sisters -> [Loops -> Hello \cup {None}]]
  <2>1. CASE UNCHANGED dial
    BY Zenon, <2>1 DEF Carried
  <2>2. CASE Dialing(s, "gateway", p, merged[s][p].loc, merged[s][p].seq)
    <3>1. merged[s][p].loc \in Nat /\ merged[s][p].seq \in Nat
      BY Zenon, <1>3 DEF Locator
    <3> QED
      BY Zenon, <1>3, <2>2, <3>1, DialingWellFormed
  <2> QED
    BY Zenon, <1>4, <2>1, <2>2
<1>6. Carried'
  BY <1>1, <1>2, <1>5 DEF Carried
<1> QED
  BY Zenon, <1>1, <1>6, SameRecords

LEMMA DialStep ==
    ASSUME Carried, NEW s \in Sisters, NEW p \in Sisters, DialConfigured(s, p) \/ DialDiscovered(s, p)
    PROVE  Carried' /\ KeepsOrder
<1>1. UNCHANGED <<scen, phase, loc, seq, records, rfile, merged, gw, inbox>>
  BY DEF DialConfigured, DialDiscovered, disk, memory
<1>2. \E k \in Loops, l \in Nat : Dialing(s, k, p, l, 0)
  <2>1. loc[p] \in Nat /\ "peer" \in Loops /\ "mdns" \in Loops
    BY Zenon DEF Carried, Loops
  <2>2. CASE DialConfigured(s, p)
    BY <2>1, <2>2 DEF DialConfigured, AddKnownPeer
  <2>3. CASE DialDiscovered(s, p)
    <3> DEFINE found == InstanceToPeer(Advertise(p))
    <3>1. found.ep \in Nat /\ found.addr \in Nat
      BY Zenon, <2>1 DEF InstanceToPeer, Advertise, PeerState, ListenAddr, StreamEndpoint
    <3>2. AddKnownDiscoveredPeer(s, p, found)
      BY <2>3 DEF DialDiscovered
    <3> HIDE DEF found
    <3> QED
      BY Zenon, <2>1, <3>1, <3>2 DEF AddKnownDiscoveredPeer
  <2> QED
    BY Zenon, <2>2, <2>3
<1>3. dial' \in [Sisters -> [Loops -> Hello \cup {None}]]
  <2>1. PICK k \in Loops, l \in Nat : Dialing(s, k, p, l, 0)
    BY <1>2
  <2>2. 0 \in Nat
    BY Zenon
  <2> QED
    BY <2>1, <2>2, DialingWellFormed
<1>4. Carried'
  BY <1>1, <1>3 DEF Carried
<1> QED
  BY Zenon, <1>1, <1>4, SameRecords

\* The steps that touch neither a locator nor what carries one.
LEMMA OtherStep ==
    ASSUME Carried,
           UNCHANGED <<scen, phase, loc, seq, records, rfile, merged, gw, dial, inbox>>
    PROVE  Carried' /\ KeepsOrder
<1>1. Carried'
  BY DEF Carried
<1> QED
  BY Zenon, <1>1, SameRecords

\* Every step keeps the invariant and the order of the locators.
LEMMA StepKeepsOrder ==
    ASSUME Carried, [Next]_vars
    PROVE  Carried' /\ KeepsOrder
<1>1. CASE UNCHANGED vars
  BY <1>1, OtherStep DEF vars
<1>2. ASSUME NEW s \in Sisters, Deliver(s) PROVE Carried' /\ KeepsOrder
  <2>1. CASE SavePeers(s)
    <3>1. UNCHANGED <<scen, phase, loc, seq, records, rfile, merged, gw, dial, inbox>>
      BY Zenon, <2>1 DEF SavePeers, memory
    <3> QED
      BY Zenon, <3>1, OtherStep
  <2> QED
    BY <1>2, <2>1, PushRecordsStep, HandleMessageStep DEF Deliver
<1>3. ASSUME NEW s \in Sisters, Work(s) PROVE Carried' /\ KeepsOrder
  <2>1. ASSUME NEW p \in Sisters, PruneOffline(s, p) PROVE Carried' /\ KeepsOrder
    <3>1. UNCHANGED <<scen, phase, loc, seq, records, rfile, merged, gw, dial, inbox>>
      BY <2>1 DEF PruneOffline, disk, memory
    <3> QED
      BY Zenon, <3>1, OtherStep
  <2> QED
    BY Zenon, <1>3, <2>1, GatewayRoundStep, HelloFailsStep, HandleHelloStep, HelloReplyStep, DialStep,
       BootstrapStep, BroadcastStateStep DEF Work
<1>4. ASSUME \/ \E s, p \in Sisters : Cut(s, p)
             \/ \E g \in Gateways : GatewayOutage(g)
             \/ Heal \/ GatewayBack
      PROVE  Carried' /\ KeepsOrder
  <2>1. UNCHANGED <<scen, phase, loc, seq, records, rfile, merged, gw, dial, inbox>>
    BY Zenon, <1>4 DEF Cut, GatewayOutage, Heal, GatewayBack, disk, memory
  <2> QED
    BY Zenon, <2>1, OtherStep
<1> QED
  BY Zenon, <1>1, <1>2, <1>3, <1>4, StartStep, CrashStep DEF Next

\* It holds at first: nothing is known, and a gateway may hold a garbled record.
LEMMA InitCarried ==
    ASSUME Init
    PROVE  Carried
<1>1. Nobody \in Book /\ Nobody \in [Sisters -> Message \cup {None}] /\ NoDial \in [Loops -> Hello \cup {None}]
  BY Zenon DEF Nobody, Book, NoDial
<1>2. gw \in [Gateways -> Book]
  BY DEF Init, Book, Locator
<1> QED
  BY <1>1, <1>2 DEF Init, Carried

\* While a Sister runs, the locator it keeps of a peer is never replaced by one of an older
\* transport binding (upsert_peer_record), for every deployment.
THEOREM LocatorsNeverGoBack == Spec => SequenceNeverBack
<1>1. Carried /\ [Next]_vars => Carried'
  BY StepKeepsOrder
<1>2. Carried /\ [Next]_vars => [KeepsOrder]_vars
  BY StepKeepsOrder
<1>3. SequenceNeverBack <=> [][KeepsOrder]_vars
  BY DEF SequenceNeverBack, KeepsOrder
<1> QED
  BY InitCarried, <1>1, <1>2, <1>3, PTL DEF Spec
=============================================================================
