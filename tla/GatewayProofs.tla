---------------------------- MODULE GatewayProofs ---------------------------
(***************************************************************************)
(* Both hosts of the Gateway, for any Sisters, requests, handlers and      *)
(* lifetimes: no request is served twice, expired members leave the native *)
(* directory, every row on Cloudflare has an alarm that collects it, and   *)
(* both hosts implement Directory.                                         *)
(***************************************************************************)
EXTENDS Gatewayd, GatewayCloudflare, WellFoundedInduction, TLAPS

(* Clients *)

USE RequestsAssumption

\* Nonces are drawn once, and only requests that were sent are accepted.
Unique ==
  /\ \A q, r \in sent : q.nonce = r.nonce => q = r
  /\ \A n \in Nonces : accepts[n] # 0 => \E r \in sent : r.nonce = n

\* The nonce of an accepted request is blocked for longer than copies of the
\* request pass the timestamp check, or that time is over.
Blocked ==
  \A r \in sent : accepts[r.nonce] # 0 =>
    r.timestamp + NonceTtl <=
      AuthWindow + (IF nonces[r.nonce] # 0 THEN nonces[r.nonce] ELSE clock)

\* What a client signs is a request, with a nonce no request has.
LEMMA Signs ==
  ASSUME RequestsTypeOK, ClientNext
  PROVE  /\ own' \in [Sisters -> PeerRecord]
         /\ clock' = clock /\ accepts' = accepts
         /\ \E q \in Request : /\ sent' = sent \cup {q}
                              /\ \A r \in sent : r.nonce # q.nonce
<1> USE DEF RequestsTypeOK
<1>1. ASSUME NEW n \in Nonces, NEW ts \in Nat, NEW by \in Sisters,
             NEW record \in PeerRecord \cup {NoRecord}, Sign(n, ts, by, record)
      PROVE  /\ clock' = clock /\ accepts' = accepts
             /\ \E q \in Request : /\ sent' = sent \cup {q}
                                  /\ \A r \in sent : r.nonce # q.nonce
  <2>1. PICK q \in Request :
          q = [nonce |-> n, timestamp |-> ts, by |-> by, record |-> record]
    BY Zenon DEF Request
  <2> QED BY <1>1, <2>1 DEF Sign
<1>2. PICK n \in Nonces, ts \in clock..(clock + MaxSkew), s \in Sisters :
        \/ Announce(n, ts, s)
        \/ \E by \in Sisters : AnnounceOther(n, ts, by, s)
        \/ QueryPeers(n, ts, s)
  BY DEF ClientNext
<1>3. ts \in Nat /\ own[s] \in PeerRecord
  OBVIOUS
<1>4. CASE Announce(n, ts, s)
  <2>1. PICK record \in Issue(s) : Sign(n, ts, s, record) /\ own' = [own EXCEPT ![s] = record]
    BY Zenon, <1>4 DEF Announce
  <2>2. record \in PeerRecord
    BY <1>3 DEF Issue, PeerRecord
  <2> QED BY <1>1, <1>3, <2>1, <2>2
<1>5. CASE \E by \in Sisters : AnnounceOther(n, ts, by, s)
  BY <1>1, <1>3, <1>5 DEF AnnounceOther
<1>6. CASE QueryPeers(n, ts, s)
  BY <1>1, <1>3, <1>6 DEF QueryPeers
<1> QED BY <1>2, <1>4, <1>5, <1>6

\* A client adds one request, whose nonce no request has.
LEMMA ClientSigns ==
  ASSUME ClientNext
  PROVE  \E q \in sent' : /\ sent' = sent \cup {q}
                          /\ \A r \in sent : r.nonce # q.nonce
<1> SUFFICES ASSUME NEW n, NEW ts, NEW by, NEW record, Sign(n, ts, by, record)
             PROVE  \E q \in sent' : /\ sent' = sent \cup {q}
                                     /\ \A r \in sent : r.nonce # q.nonce
  BY DEF ClientNext, Announce, AnnounceOther, QueryPeers
<1> DEFINE q == [nonce |-> n, timestamp |-> ts, by |-> by, record |-> record]
<1> WITNESS q \in sent'
<1> QED
  BY Zenon DEF Sign

-----------------------------------------------------------------------------
(* The native Gateway *)

USE GatewaydAssumption

\* A handler works on a sent request, with a clock that is not too old; the one
\* about to spend a nonce has checked the timestamp against that clock, and only
\* an announce gets past the nonce.
Timely ==
  \A t \in Tasks : task[t] # Idle =>
    /\ task[t].req \in sent
    /\ task[t].now <= clock
    /\ clock <= task[t].now + MaxStall
    /\ task[t].pc = "spend" =>
         /\ task[t].now <= task[t].req.timestamp + AuthWindow
         /\ task[t].req.timestamp <= task[t].now + AuthWindow
    /\ task[t].pc # "spend" => Announces(task[t].req)

Inv == TypeOK /\ Unique /\ Timely /\ Blocked /\ NoReplay

\* A handler that is under way holds a request and a clock value.
LEMMA TaskTyped ==
  ASSUME TypeOK, NEW t \in Tasks, task[t] # Idle
  PROVE  /\ task[t] \in TaskRecord
         /\ task[t].req \in Request
         /\ task[t].req.nonce \in Nonces
         /\ task[t].now \in Nat
BY DEF TypeOK, TaskRecord, Request

\* What the clients do keeps their part of the state well typed.
LEMMA ClientTyped ==
  ASSUME TypeOK, ClientNext
  PROVE  RequestsTypeOK' /\ clock' = clock /\ accepts' = accepts
BY Signs DEF TypeOK, RequestsTypeOK

\* The requests of a Sister that announces itself carry a record of its own.
LEMMA AnnouncesTyped ==
  ASSUME NEW r \in Request, Announces(r)
  PROVE  /\ r.record \in PeerRecord
         /\ r.record.sister = r.by
         /\ r.by \in Sisters
BY DEF Request, Announces, RecordMatchesMembership

\* Handlers and the clock keep the state well typed.
LEMMA TypeStep ==
  ASSUME Inv, [Next]_vars
  PROVE  TypeOK'
<1> USE DEF Inv
<1>1. CASE ClientNext /\ UNCHANGED <<members, nonces, task>>
  BY <1>1, ClientTyped DEF TypeOK
<1>2. ASSUME NEW t \in Tasks, NEW r \in sent, Receive(t, r)
      PROVE  TypeOK'
  <2>1. [pc |-> "spend", req |-> r, now |-> clock] \in TaskRecord
    BY DEF TaskRecord, TypeOK, RequestsTypeOK
  <2> QED
    BY <1>2, <2>1 DEF Receive, TypeOK, RequestsTypeOK, clientVars
<1>3. ASSUME NEW t \in Tasks, Spend(t)
      PROVE  TypeOK'
  <2> DEFINE n == task[t].req.nonce
  <2>1. task[t] # Idle
    BY <1>3 DEF Spend, Idle
  <2>2. /\ task[t] \in TaskRecord
        /\ n \in Nonces
        /\ task[t].now \in Nat
    BY <2>1, TaskTyped
  <2>3. nonces' \in [Nonces -> Nat]
    BY <1>3, <2>2 DEF Spend, Retain, TypeOK
  <2>4. [task[t] EXCEPT !.pc = "stamp"] \in TaskRecord
    BY <2>2 DEF TaskRecord
  <2>5. task' \in [Tasks -> TaskRecord \cup {Idle}]
    BY <1>3, <2>4 DEF Spend, TypeOK
  <2>6. accepts' \in [Nonces -> 0..2]
    BY <1>3 DEF Spend, Accept, TypeOK, RequestsTypeOK
  <2> QED
    BY <1>3, <2>3, <2>5, <2>6 DEF Spend, TypeOK, RequestsTypeOK, clientVars
<1>4. ASSUME NEW t \in Tasks, Stamp(t)
      PROVE  TypeOK'
  <2>1. task[t] \in TaskRecord
    BY <1>4, TaskTyped DEF Stamp, Idle
  <2>2. [task[t] EXCEPT !.pc = "write", !.now = clock] \in TaskRecord
    BY ZenonT(60), <2>1 DEF TaskRecord, TypeOK, RequestsTypeOK
  <2>3. task' = [task EXCEPT ![t] = [task[t] EXCEPT !.pc = "write", !.now = clock]]
    BY ZenonT(60), <1>4, <2>1 DEF Stamp, TypeOK, TaskRecord
  <2> QED
    BY <1>4, <2>2, <2>3 DEF Stamp, TypeOK, RequestsTypeOK, clientVars
<1>5. ASSUME NEW t \in Tasks, Upsert(t)
      PROVE  TypeOK'
  <2>1. /\ task[t] # Idle
        /\ task[t].pc # "spend"
    BY <1>5 DEF Upsert, Idle
  <2>2. /\ task[t].req \in Request
        /\ task[t].now \in Nat
        /\ Announces(task[t].req)
    BY <2>1, TaskTyped DEF Timely
  <2>3. task[t].req.record \in PeerRecord
    BY <2>2, AnnouncesTyped
  <2>4. [record |-> task[t].req.record, expires |-> task[t].now + RecordTtl] \in Entry
    BY <2>2, <2>3 DEF Entry
  <2>5. members' \in [Sisters -> Entry \cup {NoEntry}]
    BY ZenonT(60), <1>5, <2>4 DEF Upsert, TypeOK
  <2> QED
    BY Zenon, <1>5, <2>5 DEF Upsert, TypeOK, RequestsTypeOK, clientVars
<1>6. CASE Tick
  BY <1>6 DEF Tick, TypeOK, RequestsTypeOK, clientVars
<1>7. CASE UNCHANGED vars
  BY <1>7 DEF vars, TypeOK, RequestsTypeOK, clientVars
<1> QED
  BY <1>1, <1>2, <1>3, <1>4, <1>5, <1>6, <1>7 DEF Next

\* Nonces stay unique, since a client never draws one that was sent, and a
\* handler accepts a request that was sent.
LEMMA UniqueStep ==
  ASSUME Inv, [Next]_vars
  PROVE  Unique'
<1> USE DEF Inv
<1>1. CASE ClientNext
  <2>1. PICK q \in sent' : /\ sent' = sent \cup {q}
                          /\ \A r \in sent : r.nonce # q.nonce
    BY <1>1, ClientSigns
  <2>2. accepts' = accepts
    BY <1>1, ClientTyped
  <2> QED
    BY <2>1, <2>2 DEF Unique
<1>2. ASSUME NEW t \in Tasks, Spend(t)
      PROVE  Unique'
  <2>1. /\ task[t].req \in sent
        /\ task[t].req.nonce \in Nonces
    BY <1>2, TaskTyped DEF Spend, Idle, Timely
  <2>2. sent' = sent
    BY <1>2 DEF Spend, clientVars
  <2>3. \A n \in Nonces : accepts'[n] # 0 => accepts[n] # 0 \/ n = task[t].req.nonce
    BY <1>2 DEF Spend, Accept, TypeOK, RequestsTypeOK
  <2> QED
    BY <2>1, <2>2, <2>3 DEF Unique
<1>3. CASE UNCHANGED <<sent, accepts>>
  BY <1>3 DEF Unique
<1> QED
  BY ZenonT(60), <1>1, <1>2, <1>3 DEF Next, Receive, Stamp, Upsert, Tick, vars, clientVars

\* A handler's clock stays recent because the clock waits for handlers no
\* longer than MaxStall.
LEMMA TimelyStep ==
  ASSUME Inv, [Next]_vars
  PROVE  Timely'
<1> USE DEF Inv
<1>1. CASE ClientNext /\ UNCHANGED <<members, nonces, task>>
  <2>1. sent \subseteq sent' /\ clock' = clock /\ task' = task
    BY Zenon, <1>1, ClientSigns, ClientTyped
  <2> QED
    BY <2>1 DEF Timely, Announces, RecordMatchesMembership
<1>2. ASSUME NEW t \in Tasks, NEW r \in sent, Receive(t, r)
      PROVE  Timely'
  <2>1. /\ task' = [task EXCEPT ![t] = [pc |-> "spend", req |-> r, now |-> clock]]
        /\ clock' = clock /\ sent' = sent
        /\ VerifyRequest(r, clock)
    BY <1>2 DEF Receive, clientVars
  <2> QED
    BY <2>1 DEF VerifyRequest, Timely, TypeOK, RequestsTypeOK, Announces,
      RecordMatchesMembership
<1>3. ASSUME NEW t \in Tasks, Spend(t)
      PROVE  Timely'
  <2>1. /\ clock' = clock /\ sent' = sent
        /\ task[t] # Idle
        /\ task[t] \in TaskRecord
    BY <1>3, TaskTyped DEF Spend, Idle, clientVars
  <2>2. \/ task' = [task EXCEPT ![t] = Idle]
        \/ /\ Announces(task[t].req)
           /\ task' = [task EXCEPT ![t] = [task[t] EXCEPT !.pc = "stamp"]]
    BY <1>3 DEF Spend, TypeOK
  <2> QED
    BY <2>1, <2>2 DEF Timely, TypeOK, TaskRecord, Announces, RecordMatchesMembership
<1>4. ASSUME NEW t \in Tasks, Stamp(t)
      PROVE  Timely'
  <2>1. /\ clock' = clock /\ sent' = sent
        /\ task[t] # Idle
        /\ task[t] \in TaskRecord
        /\ task[t].pc # "spend"
    BY <1>4, TaskTyped DEF Stamp, Idle, clientVars
  <2>2. task' = [task EXCEPT ![t] = [task[t] EXCEPT !.pc = "write", !.now = clock]]
    BY ZenonT(60), <1>4, <2>1 DEF Stamp, TypeOK, TaskRecord
  <2> QED
    BY <2>1, <2>2 DEF Timely, TypeOK, RequestsTypeOK, TaskRecord, Announces,
      RecordMatchesMembership
<1>5. ASSUME NEW t \in Tasks, Upsert(t)
      PROVE  Timely'
  BY Zenon, <1>5 DEF Upsert, clientVars, Timely, TypeOK, Announces, RecordMatchesMembership
<1>6. CASE Tick
  <2>1. /\ clock' = clock + 1 /\ sent' = sent /\ task' = task
        /\ \A t \in Tasks : task[t] # Idle => clock < task[t].now + MaxStall
    BY <1>6 DEF Tick, clientVars
  <2>2. \A t \in Tasks : task[t] # Idle => task[t].now \in Nat
    BY Zenon, TaskTyped
  <2> QED
    BY <2>1, <2>2 DEF Timely, TypeOK, RequestsTypeOK, Announces, RecordMatchesMembership
<1>7. CASE UNCHANGED vars
  BY <1>7 DEF vars, clientVars, Timely, Announces, RecordMatchesMembership
<1> QED
  BY Zenon, <1>1, <1>2, <1>3, <1>4, <1>5, <1>6, <1>7 DEF Next

\* A request keeps its timestamp and its nonce.
LEMMA SentTyped ==
  ASSUME TypeOK, NEW r \in sent
  PROVE  r.nonce \in Nonces /\ r.timestamp \in Nat
BY DEF TypeOK, RequestsTypeOK, Request

\* A handler that passes the nonce has a request that was not accepted before:
\* within the window its nonce is still in the table.
LEMMA SpendIsFirst ==
  ASSUME Inv, NEW t \in Tasks, task[t].pc = "spend",
         Retain(task[t].now)[task[t].req.nonce] = 0
  PROVE  accepts[task[t].req.nonce] = 0
<1> USE DEF Inv
<1> DEFINE r == task[t].req
           now == task[t].now
<1>1. task[t] # Idle
  BY DEF Idle
<1>2. /\ r \in sent /\ r.nonce \in Nonces
      /\ r.timestamp \in Nat
      /\ now \in Nat
  BY <1>1, TaskTyped, SentTyped DEF Timely
<1>3. /\ clock <= now + MaxStall
      /\ now <= r.timestamp + AuthWindow
  BY <1>1 DEF Timely
<1>4. nonces[r.nonce] <= now
  BY <1>2 DEF Retain, TypeOK
<1>5. nonces[r.nonce] \in Nat /\ clock \in Nat
  BY Zenon, <1>2 DEF TypeOK, RequestsTypeOK
<1>6. ASSUME accepts[r.nonce] # 0 PROVE FALSE
  <2>1. r.timestamp + NonceTtl <=
          AuthWindow + (IF nonces[r.nonce] # 0 THEN nonces[r.nonce] ELSE clock)
    BY SMTT(30), <1>2, <1>6 DEF Blocked
  <2> QED
    BY <1>2, <1>3, <1>4, <1>5, <2>1
<1> QED
  BY <1>6

\* An entry leaves the table only when the clock has reached its expiry.
LEMMA BlockedStep ==
  ASSUME Inv, [Next]_vars
  PROVE  Blocked'
<1> USE DEF Inv
<1>1. CASE ClientNext /\ UNCHANGED <<members, nonces, task>>
  <2>1. PICK q \in sent' : /\ sent' = sent \cup {q}
                          /\ \A r \in sent : r.nonce # q.nonce
    BY <1>1, ClientSigns
  <2>2. accepts' = accepts /\ clock' = clock /\ nonces' = nonces
    BY <1>1, ClientTyped
  <2>3. q.nonce \in Nonces
    BY <2>1, TypeStep DEF TypeOK, RequestsTypeOK, Request
  <2>4. accepts[q.nonce] = 0
    BY <2>1, <2>3 DEF Unique
  <2> QED
    BY <2>1, <2>2, <2>4 DEF Blocked
<1>2. ASSUME NEW t \in Tasks, Spend(t)
      PROVE  Blocked'
  <2> DEFINE r == task[t].req
             now == task[t].now
  <2>1. task[t] # Idle /\ task[t].pc = "spend"
    BY <1>2 DEF Spend, Idle
  <2>2. /\ r \in sent /\ r.nonce \in Nonces
        /\ now \in Nat /\ now <= clock
        /\ r.timestamp <= now + AuthWindow
    BY <2>1, TaskTyped DEF Timely
  <2>3. sent' = sent /\ clock' = clock
    BY <1>2 DEF Spend, clientVars
  <2> SUFFICES ASSUME NEW q \in sent, accepts'[q.nonce] # 0
               PROVE  q.timestamp + NonceTtl <= AuthWindow +
                        (IF nonces'[q.nonce] # 0 THEN nonces'[q.nonce] ELSE clock)
    BY <2>3 DEF Blocked
  <2>4. q.nonce \in Nonces /\ q.timestamp \in Nat
    BY Zenon, SentTyped
  <2>5. CASE q.nonce = r.nonce
    <3>1. q = r
      BY Zenon, <2>2, <2>5 DEF Unique
    <3>2. nonces'[r.nonce] = now + NonceTtl
      BY <1>2, <2>2 DEF Spend, Retain
    <3> QED
      BY <2>2, <2>4, <3>1, <3>2
  <2>6. CASE q.nonce # r.nonce
    <3>1. accepts[q.nonce] # 0
      BY Zenon, <1>2, <2>4, <2>6 DEF Spend, Accept, TypeOK, RequestsTypeOK
    <3>2. nonces'[q.nonce] = IF nonces[q.nonce] > now THEN nonces[q.nonce] ELSE 0
      BY <1>2, <2>4, <2>6 DEF Spend, Retain
    <3>3. q.timestamp + NonceTtl <=
            AuthWindow + (IF nonces[q.nonce] # 0 THEN nonces[q.nonce] ELSE clock)
      BY <3>1 DEF Blocked
    <3>4. nonces[q.nonce] \in Nat /\ clock \in Nat
      BY <2>4 DEF TypeOK, RequestsTypeOK
    <3> QED
      BY <2>2, <2>4, <3>2, <3>3, <3>4
  <2> QED
    BY <2>5, <2>6
<1>3. CASE Tick
  <2>1. /\ clock' = clock + 1 /\ clock \in Nat
        /\ UNCHANGED <<sent, nonces, accepts>>
    BY <1>3 DEF Tick, clientVars, TypeOK, RequestsTypeOK
  <2>2. \A r \in sent : r.timestamp \in Nat /\ nonces[r.nonce] \in Nat
    BY SentTyped DEF TypeOK
  <2> QED
    BY <2>1, <2>2 DEF Blocked
<1>4. CASE UNCHANGED <<sent, nonces, accepts, clock>>
  BY <1>4 DEF Blocked
<1> QED
  BY ZenonT(60), <1>1, <1>2, <1>3, <1>4 DEF Next, Receive, Stamp, Upsert, vars, clientVars

\* The invariant is inductive.
LEMMA InvStep ==
  ASSUME Inv, [Next]_vars
  PROVE  Inv'
<1>1. NoReplay'
  <2>1. ASSUME NEW t \in Tasks, Spend(t)
        PROVE  NoReplay'
    <3>1. CASE UNCHANGED accepts
      BY <3>1 DEF Inv, NoReplay
    <3>2. CASE ~UNCHANGED accepts
      <4>1. /\ Retain(task[t].now)[task[t].req.nonce] = 0
            /\ Accept(task[t].req.nonce)
            /\ task[t].pc = "spend"
        BY <2>1, <3>2 DEF Spend
      <4>2. accepts[task[t].req.nonce] = 0
        BY <4>1, SpendIsFirst
      <4> QED
        BY <4>1, <4>2 DEF Accept, Inv, NoReplay, TypeOK, RequestsTypeOK
    <3> QED
      BY <3>1, <3>2
  <2>2. ASSUME UNCHANGED accepts
        PROVE  NoReplay'
    BY <2>2 DEF Inv, NoReplay
  <2> QED
    BY ZenonT(60), <2>1, <2>2, ClientTyped DEF Inv, Next, Receive, Stamp, Upsert, Tick, vars
<1> QED
  BY SMTT(30), <1>1, TypeStep, UniqueStep, TimelyStep, BlockedStep DEF Inv

\* The initial state satisfies it.
LEMMA InvInit == Init => Inv
<1> SUFFICES ASSUME Init PROVE Inv
  OBVIOUS
<1>1. TypeOK
  BY DEF Init, RequestsInit, TypeOK, RequestsTypeOK, PeerRecord
<1> QED
  BY <1>1 DEF Inv, Init, RequestsInit, Unique, Timely, Blocked, NoReplay

\* It holds in every reachable state.
LEMMA Invariance == Spec => []Inv
<1> QED
  BY InvInit, InvStep, PTL DEF Spec

\* For every number of Sisters, requests and handlers, and at any time, the
\* native gateway serves a request at most once, provided that nonce_ttl_secs
\* exceeds twice the window plus the delay of a handler.
THEOREM NeverReplayed == Spec => []NoReplay
<1>1. Inv => NoReplay
  BY DEF Inv
<1> QED
  BY <1>1, Invariance, PTL

-----------------------------------------------------------------------------
(* Expiry *)

\* A handler's clock was within the membership when it verified the request, and
\* what it writes outlives the membership by the record's lifetime at most.
Lapsing ==
  /\ \A t \in Tasks : task[t] # Idle =>
       task[t].now <= MemberUntil[task[t].req.by] +
                        (IF task[t].pc = "write" THEN MaxStall ELSE 0)
  /\ \A s \in Sisters : members[s].expires <= MemberUntil[s] + RecordTtl + MaxStall

\* Every action keeps these bounds.
LEMMA LapsingStep ==
  ASSUME Inv, Lapsing, [Next]_vars
  PROVE  Lapsing'
<1> USE DEF Inv
<1>1. ASSUME NEW t \in Tasks, NEW r \in sent, Receive(t, r)
      PROVE  Lapsing'
  <2>1. /\ task' = [task EXCEPT ![t] = [pc |-> "spend", req |-> r, now |-> clock]]
        /\ members' = members
        /\ clock <= MemberUntil[r.by]
    BY <1>1 DEF Receive, VerifyRequest
  <2>2. MemberUntil[r.by] \in Nat
    BY DEF TypeOK, RequestsTypeOK, Request
  <2> QED
    BY <2>1, <2>2 DEF Lapsing, TypeOK
<1>2. ASSUME NEW t \in Tasks, Spend(t)
      PROVE  Lapsing'
  <2>1. task[t] # Idle /\ task[t].pc = "spend" /\ task[t] \in TaskRecord
    BY <1>2, TaskTyped DEF Spend, Idle
  <2>2. \/ task' = [task EXCEPT ![t] = Idle]
        \/ task' = [task EXCEPT ![t] = [task[t] EXCEPT !.pc = "stamp"]]
    BY <1>2 DEF Spend, TypeOK
  <2>3. members' = members
    BY <1>2 DEF Spend
  <2> QED
    BY <2>1, <2>2, <2>3 DEF Lapsing, TypeOK, TaskRecord
<1>3. ASSUME NEW t \in Tasks, Stamp(t)
      PROVE  Lapsing'
  <2>1. /\ task[t] # Idle /\ task[t] \in TaskRecord
        /\ task[t].pc = "stamp"
        /\ task[t].req \in Request /\ task[t].now \in Nat
    BY <1>3, TaskTyped DEF Stamp, Idle
  <2>2. task' = [task EXCEPT ![t] = [task[t] EXCEPT !.pc = "write", !.now = clock]]
    BY ZenonT(60), <1>3, <2>1 DEF Stamp, TypeOK, TaskRecord
  <2>3. members' = members
    BY Zenon, <1>3 DEF Stamp
  <2>4. /\ clock <= task[t].now + MaxStall
        /\ task[t].now <= MemberUntil[task[t].req.by] + 0
        /\ MemberUntil[task[t].req.by] \in Nat
        /\ clock \in Nat
    BY Zenon, <2>1 DEF Timely, Lapsing, TypeOK, RequestsTypeOK, Request
  <2>5. clock <= MemberUntil[task[t].req.by] + MaxStall
    BY <2>1, <2>4
  <2> QED
    BY <2>1, <2>2, <2>3, <2>5 DEF Lapsing, TypeOK, TaskRecord
<1>4. ASSUME NEW t \in Tasks, Upsert(t)
      PROVE  Lapsing'
  <2>1. /\ task[t] # Idle
        /\ task[t].pc = "write"
        /\ task[t].req \in Request
        /\ task[t].now \in Nat
    BY <1>4, TaskTyped DEF Upsert, Idle
  <2>2. /\ task[t].req.record.sister = task[t].req.by
        /\ task[t].req.by \in Sisters
    BY Zenon, <2>1, AnnouncesTyped DEF Timely
  <2>3. /\ task[t].now <= MemberUntil[task[t].req.by] + MaxStall
        /\ MemberUntil[task[t].req.by] \in Nat
    BY Zenon, <2>1, <2>2 DEF Lapsing
  <2>4. task[t].now + RecordTtl <= MemberUntil[task[t].req.by] + RecordTtl + MaxStall
    BY SMTT(30), <2>1, <2>3
  <2>5. \A s \in Sisters : members'[s].expires <= MemberUntil[s] + RecordTtl + MaxStall
    BY Zenon, <1>4, <2>2, <2>4 DEF Upsert, Lapsing, TypeOK
  <2>6. task' = [task EXCEPT ![t] = Idle]
    BY Zenon, <1>4 DEF Upsert
  <2> QED
    BY Zenon, <2>5, <2>6 DEF Lapsing, TypeOK
<1>5. CASE UNCHANGED <<members, task>>
  BY <1>5 DEF Lapsing
<1> QED
  BY <1>1, <1>2, <1>3, <1>4, <1>5 DEF Next, Tick, vars

\* A Sister whose membership has expired leaves the directory, whatever
\* requests of it are still on their way or under way.
THEOREM ExpiredMembersLeave == Spec => []ExpiredMemberLeaves
<1>1. Init => Lapsing
  BY DEF Init, Lapsing, NoEntry
<1>2. Inv /\ Lapsing => ExpiredMemberLeaves
  <2> SUFFICES ASSUME Inv, Lapsing, NEW s \in Sisters,
                      clock > MemberUntil[s] + RecordTtl + MaxStall
               PROVE  ~(members[s].expires > clock)
    BY DEF ExpiredMemberLeaves, Live
  <2>1. members[s].expires \in Nat /\ clock \in Nat /\ MemberUntil[s] \in Nat
    BY DEF Inv, TypeOK, RequestsTypeOK, Entry, NoEntry
  <2> QED
    BY <2>1 DEF Lapsing
<1>3. Inv /\ Lapsing /\ [Next]_vars => Lapsing'
  BY LapsingStep
<1> QED
  BY <1>1, <1>2, <1>3, Invariance, PTL DEF Spec

-----------------------------------------------------------------------------
(* Refinement *)

\* A handler past the nonce has spent it, and every entry came from an announce
\* that was accepted, of the Sister it is about.
Held ==
  /\ \A t \in Tasks : task[t] # Idle /\ task[t].pc # "spend" =>
       task[t].req.nonce \in Accepted
  /\ \A s \in Sisters : members[s] # NoEntry =>
       members[s].record \in Offered /\ members[s].record.sister = s

\* A request once announced stays offered, since requests and acceptances stay.
LEMMA OfferedGrows ==
  ASSUME Inv, [Next]_vars
  PROVE  Accepted \subseteq Accepted' /\ Offered \subseteq Offered'
<1>1. sent \subseteq sent'
  BY ZenonT(60), ClientSigns DEF Next, Receive, Spend, Stamp, Upsert, Tick, vars, clientVars
<1>2. accepts' = accepts \/ \E n : Accept(n)
  BY ZenonT(60), ClientTyped DEF Inv, Next, Receive, Spend, Stamp, Upsert, Tick, vars
<1>3. Accepted \subseteq Accepted'
  BY SMTT(30), <1>2 DEF Accept, Accepted, Inv, TypeOK, RequestsTypeOK
<1> QED
  BY SMTT(30), <1>1, <1>3 DEF Offered

\* Entries and handlers keep their origin.
LEMMA HeldStep ==
  ASSUME Inv, Held, [Next]_vars
  PROVE  Held'
<1> USE DEF Inv
<1>1. ASSUME NEW t \in Tasks, NEW r \in sent, Receive(t, r)
      PROVE  Held'
  BY <1>1, OfferedGrows DEF Receive, Held, TypeOK
<1>2. ASSUME NEW t \in Tasks, Spend(t)
      PROVE  Held'
  <2>1. /\ task[t] # Idle
        /\ task[t] \in TaskRecord
        /\ task[t].req.nonce \in Nonces
        /\ members' = members
    BY <1>2, TaskTyped DEF Spend, Idle
  <2>2. \/ task' = [task EXCEPT ![t] = Idle]
        \/ /\ task' = [task EXCEPT ![t] = [task[t] EXCEPT !.pc = "stamp"]]
           /\ task[t].req.nonce \in Accepted'
    BY <1>2, <2>1 DEF Spend, Accept, Accepted, TypeOK, RequestsTypeOK
  <2> QED
    BY <2>1, <2>2, OfferedGrows DEF Held, TypeOK, TaskRecord
<1>3. ASSUME NEW t \in Tasks, Stamp(t)
      PROVE  Held'
  <2>1. /\ task[t] # Idle /\ task[t] \in TaskRecord
        /\ task[t].pc = "stamp"
        /\ members' = members
    BY <1>3, TaskTyped DEF Stamp, Idle
  <2>2. task' = [task EXCEPT ![t] = [task[t] EXCEPT !.pc = "write", !.now = clock]]
    BY ZenonT(60), <1>3, <2>1 DEF Stamp, TypeOK, TaskRecord
  <2> QED
    BY <2>1, <2>2, OfferedGrows DEF Held, TypeOK, TaskRecord
<1>4. ASSUME NEW t \in Tasks, Upsert(t)
      PROVE  Held'
  <2> DEFINE r == task[t].req
  <2>1. /\ task[t] # Idle
        /\ task[t].pc = "write"
        /\ r \in Request
    BY <1>4, TaskTyped DEF Upsert, Idle
  <2>2. /\ r \in sent /\ Announces(r)
        /\ r.nonce \in Accepted
    BY Zenon, <2>1 DEF Timely, Held
  <2>3. r.record \in Offered
    BY Zenon, <2>2 DEF Offered, Announces, RecordMatchesMembership
  <2>4. \A s \in Sisters : members'[s] # NoEntry =>
          members'[s].record \in Offered /\ members'[s].record.sister = s
    BY Zenon, <1>4, <2>3 DEF Upsert, Held, TypeOK
  <2>5. task' = [task EXCEPT ![t] = Idle]
    BY <1>4 DEF Upsert
  <2> QED
    BY Zenon, <2>4, <2>5, OfferedGrows DEF Held, TypeOK
<1>5. CASE UNCHANGED <<members, task>>
  BY <1>5, OfferedGrows DEF Held
<1> QED
  BY <1>1, <1>2, <1>3, <1>4, <1>5 DEF Next, Tick, vars

\* A new request offers nothing before it is accepted.
LEMMA ClientOffers ==
  ASSUME Inv, ClientNext, [Next]_vars
  PROVE  Accepted' = Accepted /\ Offered' = Offered
<1> USE DEF Inv
<1>1. PICK q \in sent' : /\ sent' = sent \cup {q}
                        /\ \A r \in sent : r.nonce # q.nonce
  BY ClientSigns
<1>2. accepts' = accepts
  BY ClientTyped
<1>3. q.nonce \notin Accepted
  BY <1>1 DEF Unique, Accepted
<1>4. Accepted' = Accepted
  BY <1>2 DEF Accepted
<1> QED
  BY <1>1, <1>3, <1>4 DEF Offered

\* Serving a request: spending its nonce offers at most its own record.
LEMMA SpendServes ==
  ASSUME Inv, NEW t \in Tasks, Spend(t), [Next]_vars
  PROVE  D!Serve \/ UNCHANGED <<Shown, Accepted, Offered>>
<1> USE DEF Inv
<1> DEFINE r == task[t].req
<1>1. Shown' = Shown /\ sent' = sent
  BY DEF Spend, Shown, Live, clientVars
<1>2. CASE UNCHANGED accepts
  BY Zenon, <1>1, <1>2 DEF Accepted, Offered
<1>3. CASE ~UNCHANGED accepts
  <2>1. /\ Retain(task[t].now)[r.nonce] = 0
        /\ Accept(r.nonce)
        /\ task[t].pc = "spend"
    BY Zenon, <1>3 DEF Spend
  <2>2. r.nonce \in Nonces /\ r \in sent
    BY SMTT(30), <2>1, TaskTyped DEF Idle, Timely
  <2>3. accepts[r.nonce] = 0
    BY Zenon, <2>1, SpendIsFirst
  <2>4. r.nonce \in Nonces \ Accepted /\ Accepted' = Accepted \cup {r.nonce}
    BY <2>1, <2>2, <2>3 DEF Accept, Accepted, TypeOK, RequestsTypeOK
  <2>5. \A q \in sent : q.nonce \in Accepted' => q.nonce \in Accepted \/ q = r
    BY Zenon, <2>2, <2>4 DEF Unique
  <2>6. \A x \in Offered' \ Offered : x = r.record
    BY <1>1, <2>5 DEF Offered
  <2> QED
    BY Zenon, <1>1, <2>4, <2>6, OfferedGrows DEF D!Serve
<1> QED
  BY <1>2, <1>3

\* A write turns the directory to an announced record, unless what it writes has
\* expired already; a live entry with a higher sequence it leaves alone.
LEMMA UpsertPublishes ==
  ASSUME Inv, Held, NEW t \in Tasks, Upsert(t)
  PROVE  D!Next \/ UNCHANGED <<Shown, Accepted, Offered>>
<1> USE DEF Inv
<1>1. /\ task[t] # Idle /\ task[t].pc = "write"
      /\ task[t].req \in Request /\ task[t].now \in Nat
  BY SMTT(30), TaskTyped DEF Upsert, Idle
<1>2. PICK r \in Request, now \in Nat :
        /\ r = task[t].req /\ now = task[t].now
        /\ r \in sent /\ Announces(r)
        /\ r.nonce \in Accepted
        /\ now <= clock
  BY Zenon, <1>1 DEF Timely, Held
<1>3. PICK s \in Sisters : s = r.record.sister /\ r.record \in PeerRecord
  BY <1>2, AnnouncesTyped
<1>e. PICK e : e = [record |-> r.record, expires |-> now + RecordTtl]
  BY Zenon
<1>4. r.record \in Offered
  BY Zenon, <1>2 DEF Offered, Announces, RecordMatchesMembership
<1>5. Accepted' = Accepted /\ Offered' = Offered /\ clock' = clock
  BY Zenon DEF Upsert, Accepted, Offered, clientVars
<1>6. CASE members' = members
  BY SMTT(30), <1>5, <1>6 DEF Shown, Live
<1>7. CASE members' # members
  <2>1. ~Stale(members[s], r.record, now) /\ members' = [members EXCEPT ![s] = e]
    BY Zenon, <1>e, <1>2, <1>3, <1>7 DEF Upsert
  <2>2. \A x \in Sisters \ {s} : Shown'[x] = Shown[x]
    BY Zenon, <1>5, <2>1 DEF Shown, Live, TypeOK
  <2>3. Shown'[s] = IF e.expires > clock THEN r.record ELSE NoRecord
    BY Zenon, <1>e, <1>3, <1>5, <2>1 DEF Shown, Live, TypeOK
  <2>4. CASE e.expires > clock
    <3>1. Shown' = [Shown EXCEPT ![s] = r.record]
      BY ZenonT(60), <2>2, <2>3, <2>4 DEF Shown
    <3>2. ASSUME Shown[s] # NoRecord
          PROVE  r.record.seq >= Shown[s].seq
      <4>1. members[s].expires > clock /\ Shown[s] = members[s].record
        BY Zenon, <1>3, <3>2 DEF Shown, Live
      <4>2. members[s] \in Entry /\ clock \in Nat
        BY SMTT(30), <1>3, <4>1 DEF TypeOK, RequestsTypeOK, NoEntry
      <4>3. members[s].expires > now
        <5>1. members[s].expires \in Nat
          BY SMTT(30), <4>2 DEF Entry
        <5> QED
          BY SMTT(30), <1>2, <4>1, <4>2, <5>1
      <4>4. ~(members[s].record.seq > r.record.seq)
        BY ZenonT(60), <2>1, <4>3 DEF Stale
      <4> QED
        BY SMTT(30), <1>3, <4>1, <4>2, <4>4 DEF Entry, PeerRecord
    <3>3. D!Publish(s)
      BY ZenonT(60), <1>3, <1>4, <1>5, <3>1, <3>2 DEF D!Publish
    <3> QED
      BY SMTT(30), <1>3, <1>5, <3>3 DEF D!Next, D!Refresh
  <2>5. CASE ~(e.expires > clock)
    <3>1. Shown' = [x \in Sisters |-> IF x \in {s} THEN NoRecord ELSE Shown[x]]
      BY <2>2, <2>3, <2>5 DEF Shown
    <3> QED
      BY ZenonT(60), <1>3, <1>5, <3>1 DEF D!Next, D!Lapse
  <2> QED
    BY Zenon, <2>4, <2>5
<1> QED
  BY Zenon, <1>6, <1>7

\* The passing of time only removes records.
LEMMA TickLapses ==
  ASSUME Inv, Tick
  PROVE  D!Next
<1> DEFINE gone == {s \in Sisters : ~(members[s].expires > clock')}
<1>1. Accepted' = Accepted /\ Offered' = Offered
  BY Zenon DEF Tick, Accepted, Offered, clientVars
<1>2. ASSUME NEW s \in Sisters
      PROVE  Shown'[s] = IF s \in gone THEN NoRecord ELSE Shown[s]
  <2>1. members[s].expires \in Nat /\ clock \in Nat /\ clock' = clock + 1
    BY DEF Inv, Tick, TypeOK, RequestsTypeOK, Entry, NoEntry
  <2>2. members' = members
    BY Zenon DEF Tick
  <2> QED
    BY <2>1, <2>2 DEF Shown, Live
<1>3. Shown' = [s \in Sisters |-> IF s \in gone THEN NoRecord ELSE Shown[s]]
  BY <1>2 DEF Shown
<1> QED
  BY ZenonT(60), <1>1, <1>3 DEF D!Next, D!Lapse

\* The native gateway implements Directory for every value of the constants:
\* a served request is new, a shown record was announced by its Sister, and
\* it does not go back to a lower sequence while it is shown.
THEOREM NativeImplementsDirectory == Spec => ImplementsDirectory
<1>1. Init => D!Init /\ Held
  <2> SUFFICES ASSUME Init PROVE D!Init /\ Held
    BY Zenon
  <2>1. Accepted = {} /\ Offered = {}
    BY DEF Init, RequestsInit, Accepted, Offered
  <2>2. Shown = [s \in Sisters |-> NoRecord]
    BY DEF Init, RequestsInit, Shown, Live, NoEntry
  <2> QED
    BY <2>1, <2>2 DEF D!Init, Held, Init
<1>2. ASSUME Inv, Held, [Next]_vars
      PROVE  [D!Next]_<<Shown, Accepted, Offered>>
  <2>1. CASE ClientNext /\ UNCHANGED <<members, nonces, task>>
    <3>1. clock' = clock
      BY <1>2, <2>1, ClientTyped DEF Inv
    <3> QED
      BY <1>2, <2>1, <3>1, ClientOffers DEF Shown, Live
  <2>2. CASE \E t \in Tasks : Spend(t)
    BY <1>2, <2>2, SpendServes DEF D!Next
  <2>3. CASE \E t \in Tasks : Upsert(t)
    BY <1>2, <2>3, UpsertPublishes
  <2>4. CASE Tick
    BY Zenon, <1>2, <2>4, TickLapses
  <2>5. CASE UNCHANGED <<clock, members, accepts, sent>>
    BY <2>5 DEF Shown, Live, Accepted, Offered
  <2> QED
    BY ZenonT(60), <1>2, <2>1, <2>2, <2>3, <2>4, <2>5 DEF Next, Receive, Stamp, vars, clientVars
<1>3. Inv /\ Held /\ [Next]_vars => Held'
  BY HeldStep
<1> QED
  BY <1>1, <1>2, <1>3, Invariance, PTL DEF Spec, ImplementsDirectory, D!Spec, D!vars

-----------------------------------------------------------------------------
(* The Durable Object *)

HIDE GatewaydAssumption
USE CloudflareAssumption

Row == [record : PeerRecord, expires : Nat \ {0}]

WorkerTypeOK ==
  /\ RequestsTypeOK
  /\ peers \in [Sisters -> Row \cup {NoEntry}]
  /\ nonces \in [Nonces -> Nat]
  /\ alarm \in Nat

\* Every row came from an announce that was accepted, of the Sister it is about.
RowHeld ==
  \A s \in Sisters : peers[s] # NoEntry =>
    peers[s].record \in Offered /\ peers[s].record.sister = s

WorkerInv == WorkerTypeOK /\ Unique /\ Blocked /\ NoReplay /\ RowHeld /\ PeersCollected

\* A request that no handler has served changes nothing the host relies on.
LEMMA WorkerClientStep ==
  ASSUME WorkerInv, ClientNext, UNCHANGED <<peers, nonces, alarm>>
  PROVE  WorkerInv' /\ Accepted' = Accepted /\ Offered' = Offered /\ clock' = clock
<1> USE DEF WorkerInv
<1>1. PICK q \in Request : /\ sent' = sent \cup {q}
                           /\ \A r \in sent : r.nonce # q.nonce
  BY Signs DEF WorkerTypeOK
<1>2. clock' = clock /\ accepts' = accepts
  BY Zenon, Signs DEF WorkerTypeOK
<1>3. WorkerTypeOK'
  BY <1>1, <1>2, Signs DEF WorkerTypeOK, RequestsTypeOK
<1>4. q.nonce \in Nonces /\ accepts[q.nonce] = 0
  BY Zenon, <1>1 DEF Request, Unique
<1>5. Unique'
  BY Zenon, <1>1, <1>2 DEF Unique
<1>6. Blocked'
  BY <1>1, <1>2, <1>4 DEF Blocked
<1>7. Accepted' = Accepted
  BY Zenon, <1>2 DEF Accepted
<1>8. Offered' = Offered
  BY Zenon, <1>1, <1>4, <1>7 DEF Offered, Accepted
<1>9. RowHeld' /\ NoReplay' /\ PeersCollected'
  BY <1>2, <1>8 DEF RowHeld, NoReplay, PeersCollected
<1> QED BY Zenon, <1>2, <1>3, <1>5, <1>6, <1>7, <1>8, <1>9

-----------------------------------------------------------------------------
(* The alarm *)

\* A set of numbers that is not empty has a least one.
LEMMA LeastExists ==
  ASSUME NEW S \in SUBSET Nat, S # {}
  PROVE  \E e \in S : \A d \in S : e <= d
<1> DEFINE R == OpToRel(<, Nat)
<1>1. \E x \in S : \A y \in S : ~(<<y, x>> \in R)
  <2> HIDE DEF R
  <2>1. IsWellFoundedOn(R, Nat)
    BY Zenon, NatLessThanWellFounded DEF R
  <2> QED BY Zenon, <2>1, WFMin
<1>2. \A x, y \in Nat : x < y => <<x, y>> \in R
  BY DEF OpToRel
<1> HIDE DEF R
<1>3. PICK x \in S : \A y \in S : ~(<<y, x>> \in R)
  BY <1>1
<1>4. \A y \in S : ~(y < x)
  BY Zenon, <1>2, <1>3
<1> QED BY <1>4

\* After schedule_alarm an alarm is set for every row of the directory.
LEMMA Scheduled ==
  ASSUME clock \in Nat, NEW rows \in [Sisters -> Row \cup {NoEntry}],
         NEW spent \in [Nonces -> Nat], NEW current \in Nat
  PROVE  LET at == ScheduleAlarm(rows, spent, current) IN
         /\ at \in Nat
         /\ \A s \in Sisters : rows[s] # NoEntry =>
              at # 0 /\ (at <= rows[s].expires \/ at <= clock)
<1> DEFINE expiries == ({rows[s].expires : s \in Sisters} \cup {spent[n] : n \in Nonces}) \ {0}
           soonest  == CHOOSE e \in expiries : \A d \in expiries : e <= d
           at == ScheduleAlarm(rows, spent, current)
<1>1. \A s \in Sisters : rows[s].expires \in Nat
  BY DEF Row, NoEntry
<1>2. expiries \in SUBSET Nat
  BY <1>1
<1>3. \A s \in Sisters : rows[s] # NoEntry => rows[s].expires \in expiries
  BY DEF Row
<1>4. at = IF expiries = {} THEN current ELSE IF soonest > clock THEN soonest ELSE clock
  BY DEF ScheduleAlarm
<1>5. ASSUME expiries # {}
      PROVE  /\ soonest \in Nat \ {0}
             /\ \A d \in expiries : soonest <= d
  <2> HIDE DEF expiries
  <2>1. \E e \in expiries : \A d \in expiries : e <= d
    BY <1>2, <1>5, LeastExists
  <2>2. soonest \in expiries /\ \A d \in expiries : soonest <= d
    BY <2>1
  <2>3. 0 \notin expiries
    BY DEF expiries
  <2> QED BY Zenon, <1>2, <2>2, <2>3
<1> HIDE DEF expiries, soonest, at
<1>6. at \in Nat /\ (expiries # {} => at # 0)
  BY <1>4, <1>5
<1>7. ASSUME NEW s \in Sisters, rows[s] # NoEntry
      PROVE  at # 0 /\ (at <= rows[s].expires \/ at <= clock)
  <2>1. soonest \in Nat \ {0} /\ soonest <= rows[s].expires /\ expiries # {}
    BY <1>3, <1>5, <1>7
  <2> QED BY <1>4, <1>6, <2>1
<1> QED BY <1>6, <1>7 DEF at

-----------------------------------------------------------------------------
(* Requests *)

\* A request that passes the checks and whose nonce has no row is served for the
\* first time.
LEMMA RowSpendIsFirst ==
  ASSUME WorkerInv, NEW r \in sent, VerifyRequest(r, clock), nonces[r.nonce] = 0
  PROVE  accepts[r.nonce] = 0
<1>1. r.nonce \in Nonces /\ r.timestamp \in Nat /\ clock \in Nat
  BY DEF WorkerInv, WorkerTypeOK, RequestsTypeOK, Request
<1>2. clock <= r.timestamp + AuthWindow
  BY DEF VerifyRequest
<1>3. accepts[r.nonce] # 0 => r.timestamp + NonceTtl <= AuthWindow + clock
  BY Zenon DEF WorkerInv, Blocked
<1> QED BY <1>1, <1>2, <1>3

\* Serving a request spends its nonce and offers at most its own record.
LEMMA Serving ==
  ASSUME WorkerInv, NEW r \in sent, VerifyRequest(r, clock), SpendNonce(r.nonce),
         clock' = clock, sent' = sent
  PROVE  /\ accepts' \in [Nonces -> 0..2] /\ nonces' \in [Nonces -> Nat]
         /\ Unique' /\ Blocked' /\ NoReplay'
         /\ r.nonce \in Nonces \ Accepted
         /\ Accepted' = Accepted \cup {r.nonce}
         /\ Offered \subseteq Offered'
         /\ \A x \in Offered' \ Offered : x = r.record
         /\ r.record # NoRecord /\ RecordMatchesMembership(r) => r.record \in Offered'
<1> USE DEF WorkerInv
<1>1. r.nonce \in Nonces /\ r.timestamp \in Nat /\ clock \in Nat
  BY Zenon DEF WorkerTypeOK, RequestsTypeOK, Request
<1>2. accepts[r.nonce] = 0 /\ accepts \in [Nonces -> 0..2]
  BY RowSpendIsFirst DEF SpendNonce, WorkerTypeOK, RequestsTypeOK
<1>3. accepts' = [accepts EXCEPT ![r.nonce] = 1]
  BY <1>1, <1>2 DEF SpendNonce, Accept
<1>4. nonces' = [nonces EXCEPT ![r.nonce] = clock + NonceTtl]
  BY DEF SpendNonce
<1>5. nonces' \in [Nonces -> Nat] /\ accepts' \in [Nonces -> 0..2]
  BY <1>1, <1>2, <1>3, <1>4 DEF WorkerTypeOK
<1>6. Unique'
  BY <1>2, <1>3 DEF Unique
<1>7. NoReplay'
  BY <1>2, <1>3 DEF NoReplay
<1>8. Blocked'
  <2> SUFFICES ASSUME NEW q \in sent, accepts'[q.nonce] # 0
               PROVE  q.timestamp + NonceTtl <= AuthWindow +
                        (IF nonces'[q.nonce] # 0 THEN nonces'[q.nonce] ELSE clock)
    BY DEF Blocked
  <2>1. q.nonce \in Nonces /\ q.timestamp \in Nat
    BY Zenon DEF WorkerTypeOK, RequestsTypeOK, Request
  <2>2. CASE q.nonce = r.nonce
    <3>1. q = r
      BY Zenon, <2>2 DEF Unique
    <3>2. nonces'[q.nonce] = clock + NonceTtl
      BY Zenon, <1>1, <1>4, <2>2 DEF WorkerTypeOK
    <3>3. r.timestamp <= clock + AuthWindow
      BY Zenon DEF VerifyRequest
    <3> QED BY <1>1, <3>1, <3>2, <3>3
  <2>3. CASE q.nonce # r.nonce
    <3>1. accepts[q.nonce] # 0 /\ nonces'[q.nonce] = nonces[q.nonce]
      BY Zenon, <1>2, <1>3, <1>4, <2>1, <2>3 DEF WorkerTypeOK
    <3> QED BY Zenon, <3>1 DEF Blocked
  <2> QED BY Zenon, <2>2, <2>3
<1>9. r.nonce \in Nonces \ Accepted /\ Accepted' = Accepted \cup {r.nonce}
  BY SMTT(30), <1>1, <1>2, <1>3 DEF Accepted
<1>10. Offered \subseteq Offered'
  BY Zenon, <1>9 DEF Offered
<1>11. \A q \in sent : q.nonce \in Accepted' => q.nonce \in Accepted \/ q = r
  BY Zenon, <1>9 DEF Unique
<1>12. \A x \in Offered' \ Offered : x = r.record
  BY Zenon, <1>11 DEF Offered
<1>13. r.record # NoRecord /\ RecordMatchesMembership(r) => r.record \in Offered'
  BY Zenon, <1>9 DEF Offered, RecordMatchesMembership
<1> QED BY Zenon, <1>5, <1>6, <1>7, <1>8, <1>9, <1>10, <1>12, <1>13

\* The upsert keeps a row of the Sister, announced and not older, and live.
LEMMA Upserted ==
  ASSUME WorkerInv, NEW s \in Sisters, NEW record \in PeerRecord, record.sister = s,
         NEW row, row = UpsertRow(peers[s], record)
  PROVE  /\ row \in Row
         /\ row.record \in {record, peers[s].record} /\ row.record.sister = s
         /\ row.record = record \/ peers[s] # NoEntry
         /\ peers[s] # NoEntry => row.record.seq >= peers[s].record.seq
         /\ row = peers[s] \/ row.expires > clock
<1> USE DEF WorkerInv
<1>1. clock \in Nat /\ record.seq \in Nat
  BY Zenon DEF WorkerTypeOK, RequestsTypeOK, PeerRecord
<1>2. CASE peers[s] = NoEntry
  <2>1. row = [record |-> record, expires |-> clock + RecordTtl]
    BY Zenon, <1>2 DEF UpsertRow
  <2> QED BY <1>1, <1>2, <2>1 DEF Row
<1>3. CASE peers[s] # NoEntry
  <2>1. peers[s] \in Row /\ peers[s].record.sister = s
    BY Zenon, <1>3 DEF WorkerTypeOK, RowHeld
  <2>2. peers[s].record \in PeerRecord /\ peers[s].record.seq \in Nat
    BY Zenon, <2>1 DEF Row, PeerRecord
  <2>3. CASE record.seq > peers[s].record.seq
    <3>1. row = [record |-> record, expires |-> clock + RecordTtl]
      BY Zenon, <2>3 DEF UpsertRow
    <3> QED BY <1>1, <1>3, <2>2, <2>3, <3>1 DEF Row
  <2>4. CASE record.seq = peers[s].record.seq
    <3>1. row = [peers[s] EXCEPT !.expires = clock + RecordTtl]
      BY <1>3, <1>1, <2>4 DEF UpsertRow
    <3>2. row = [record |-> peers[s].record, expires |-> clock + RecordTtl]
      BY Zenon, <2>1, <3>1 DEF Row
    <3> QED BY <1>1, <1>3, <2>1, <2>2, <3>2 DEF Row
  <2>5. CASE record.seq < peers[s].record.seq
    <3>1. row = peers[s]
      BY <1>1, <1>3, <2>2, <2>5 DEF UpsertRow
    <3> QED BY <1>3, <2>1, <2>2, <3>1
  <2> QED BY SMTT(30), <1>1, <2>2, <2>3, <2>4, <2>5
<1> QED BY Zenon, <1>2, <1>3

\* What the host is shown to do in a step, towards Directory and the invariant.
LEMMA PeersStep ==
  ASSUME WorkerInv, NEW r \in sent, HandlePeers(r)
  PROVE  WorkerInv' /\ W!Next
<1> USE DEF WorkerInv
<1>1. clock' = clock /\ sent' = sent /\ own' = own /\ peers' = peers
  BY DEF HandlePeers, clientVars
<1>2. VerifyRequest(r, clock) /\ SpendNonce(r.nonce)
  BY Zenon DEF HandlePeers
<1>3. /\ accepts' \in [Nonces -> 0..2] /\ nonces' \in [Nonces -> Nat]
      /\ Unique' /\ Blocked' /\ NoReplay'
      /\ Offered \subseteq Offered'
  BY Zenon, <1>1, <1>2, Serving
<1>4. PICK spent \in [Nonces -> Nat] : spent = nonces'
  BY <1>3
<1>5. alarm' = ScheduleAlarm(peers, spent, alarm)
  BY Zenon, <1>4 DEF HandlePeers
<1>6. alarm' \in Nat /\ PeersCollected'
  BY Zenon, <1>1, <1>5, Scheduled DEF WorkerTypeOK, RequestsTypeOK, PeersCollected
<1>7. WorkerTypeOK'
  BY Zenon, <1>1, <1>3, <1>6 DEF WorkerTypeOK, RequestsTypeOK
<1>8. RowHeld'
  BY Zenon, <1>1, <1>3 DEF RowHeld
<1>9. W!Serve
  <2>1. RowsShown' = RowsShown
    BY Zenon, <1>1 DEF RowsShown, RowLive
  <2>2. \E n \in Nonces \ Accepted : Accepted' = Accepted \cup {n}
    BY Zenon, <1>1, <1>2, Serving
  <2>3. \A x \in Offered' \ Offered : x = r.record
    BY Zenon, <1>1, <1>2, Serving
  <2> QED BY Zenon, <1>3, <2>1, <2>2, <2>3 DEF W!Serve
<1> QED BY Zenon, <1>3, <1>6, <1>7, <1>8, <1>9 DEF W!Next

LEMMA AnnounceStep ==
  ASSUME WorkerInv, NEW r \in sent, HandleAnnounce(r)
  PROVE  WorkerInv' /\ W!Next
<1> USE DEF WorkerInv
<1>1. clock' = clock /\ sent' = sent /\ own' = own
  BY Zenon DEF HandleAnnounce, clientVars
<1>2. VerifyRequest(r, clock) /\ SpendNonce(r.nonce) /\ r.record # NoRecord
  BY Zenon DEF HandleAnnounce
<1>3. /\ accepts' \in [Nonces -> 0..2] /\ nonces' \in [Nonces -> Nat]
      /\ Unique' /\ Blocked' /\ NoReplay'
      /\ Offered \subseteq Offered'
  BY Zenon, <1>1, <1>2, Serving
<1>4. \E n \in Nonces \ Accepted : Accepted' = Accepted \cup {n}
  BY Zenon, <1>1, <1>2, Serving
<1>5. \A x \in Offered' \ Offered : x = r.record
  BY Zenon, <1>1, <1>2, Serving
<1>6. CASE ~RecordMatchesMembership(r)
  <2>1. peers' = peers /\ alarm' = alarm
    BY Zenon, <1>6 DEF HandleAnnounce
  <2>2. WorkerTypeOK' /\ RowHeld' /\ PeersCollected'
    BY Zenon, <1>1, <1>3, <2>1 DEF WorkerTypeOK, RequestsTypeOK, RowHeld, PeersCollected
  <2>3. RowsShown' = RowsShown
    BY Zenon, <1>1, <2>1 DEF RowsShown, RowLive
  <2>4. W!Serve
    BY Zenon, <1>3, <1>4, <1>5, <2>3 DEF W!Serve
  <2> QED BY Zenon, <1>3, <2>2, <2>4 DEF W!Next
<1>7. CASE RecordMatchesMembership(r)
  <2>1. r.record \in PeerRecord /\ r.record.sister \in Sisters /\ r.record \in Offered'
    BY Zenon, <1>1, <1>2, <1>7, Serving DEF WorkerTypeOK, RequestsTypeOK, Request, PeerRecord
  <2>2. PICK s \in Sisters : s = r.record.sister
    BY <2>1
  <2>3. PICK row : row = UpsertRow(peers[s], r.record)
    BY Zenon
  <2>4. /\ row \in Row
        /\ row.record \in {r.record, peers[s].record} /\ row.record.sister = s
        /\ row.record = r.record \/ peers[s] # NoEntry
        /\ peers[s] # NoEntry => row.record.seq >= peers[s].record.seq
        /\ row = peers[s] \/ row.expires > clock
    BY SMTT(30), <2>1, <2>2, <2>3, Upserted
  <2>5. peers' = [peers EXCEPT ![s] = row]
    BY Zenon, <1>7, <2>2, <2>3 DEF HandleAnnounce, WorkerTypeOK
  <2>6. peers' \in [Sisters -> Row \cup {NoEntry}]
    BY Zenon, <2>4, <2>5 DEF WorkerTypeOK
  <2>7. \A x \in Sisters : peers'[x] = IF x = s THEN row ELSE peers[x]
    BY Zenon, <2>5 DEF WorkerTypeOK
  <2>8. row.record \in Offered'
    BY Zenon, <1>3, <2>1, <2>4 DEF RowHeld
  <2>9. RowHeld'
    BY Zenon, <1>3, <2>4, <2>7, <2>8 DEF RowHeld
  <2>10. alarm' \in Nat /\ PeersCollected'
    <3>1. PICK rows \in [Sisters -> Row \cup {NoEntry}], spent \in [Nonces -> Nat] :
            rows = peers' /\ spent = nonces'
      BY Zenon, <1>3, <2>6
    <3>2. alarm' = ScheduleAlarm(rows, spent, alarm)
      BY Zenon, <1>7, <3>1 DEF HandleAnnounce
    <3> QED BY Zenon, <1>1, <3>1, <3>2, Scheduled DEF WorkerTypeOK, RequestsTypeOK, PeersCollected
  <2>11. WorkerTypeOK'
    BY Zenon, <1>1, <1>3, <2>6, <2>10 DEF WorkerTypeOK, RequestsTypeOK
  <2>12. RowsShown' = RowsShown \/ W!Publish(s)
    <3>1. CASE row = peers[s]
      BY SMTT(30), <1>1, <2>7, <3>1 DEF RowsShown, RowLive
    <3>2. CASE row.expires > clock
      <4>1. RowsShown' = [RowsShown EXCEPT ![s] = row.record]
        BY Zenon, <1>1, <2>7, <3>2 DEF RowsShown, RowLive
      <4>2. ASSUME RowsShown[s] # NoRecord
            PROVE  row.record.seq >= RowsShown[s].seq
        <5>1. RowLive(s) /\ RowsShown[s] = peers[s].record
          BY Zenon, <4>2 DEF RowsShown
        <5>2. peers[s] # NoEntry
          BY <5>1 DEF RowLive, NoEntry, WorkerTypeOK, RequestsTypeOK
        <5> QED BY Zenon, <2>4, <5>1, <5>2
      <4> QED BY Zenon, <2>4, <2>8, <4>1, <4>2 DEF W!Publish
    <3> QED BY Zenon, <2>4, <3>1, <3>2
  <2>13. W!Serve
    BY Zenon, <1>3, <1>4, <1>5, <2>12 DEF W!Serve
  <2> QED BY Zenon, <1>3, <2>9, <2>10, <2>11, <2>13 DEF W!Next
<1> QED BY Zenon, <1>6, <1>7

-----------------------------------------------------------------------------
(* The alarm and the clock *)

LEMMA AlarmStep ==
  ASSUME WorkerInv, Alarm
  PROVE  WorkerInv' /\ UNCHANGED <<RowsShown, Accepted, Offered>>
<1> USE DEF WorkerInv
<1>1. clock' = clock /\ sent' = sent /\ own' = own /\ accepts' = accepts
  BY Zenon DEF Alarm, clientVars
<1>2. /\ peers' = [s \in Sisters |-> IF peers[s].expires <= clock THEN NoEntry ELSE peers[s]]
      /\ nonces' = [n \in Nonces |-> IF nonces[n] <= clock THEN 0 ELSE nonces[n]]
  BY DEF Alarm
<1>3. peers' \in [Sisters -> Row \cup {NoEntry}] /\ nonces' \in [Nonces -> Nat]
  BY Zenon, <1>2 DEF WorkerTypeOK
<1>4. alarm' \in Nat /\ PeersCollected'
  <2>1. PICK rows \in [Sisters -> Row \cup {NoEntry}], spent \in [Nonces -> Nat] :
          rows = peers' /\ spent = nonces'
    BY Zenon, <1>3
  <2>2. alarm' = ScheduleAlarm(rows, spent, 0)
    BY Zenon, <2>1 DEF Alarm
  <2> QED BY Zenon, <1>1, <2>1, <2>2, Scheduled DEF WorkerTypeOK, RequestsTypeOK, PeersCollected
<1>5. WorkerTypeOK'
  BY Zenon, <1>1, <1>3, <1>4 DEF WorkerTypeOK, RequestsTypeOK
<1>6. Accepted' = Accepted /\ Offered' = Offered
  BY Zenon, <1>1 DEF Accepted, Offered
<1>7. Unique' /\ NoReplay'
  BY Zenon, <1>1 DEF Unique, NoReplay
<1>8. RowHeld'
  BY Zenon, <1>2, <1>6 DEF RowHeld
<1>9. Blocked'
  <2> SUFFICES ASSUME NEW r \in sent, accepts[r.nonce] # 0
               PROVE  r.timestamp + NonceTtl <= AuthWindow +
                        (IF nonces'[r.nonce] # 0 THEN nonces'[r.nonce] ELSE clock)
    BY Zenon, <1>1 DEF Blocked
  <2>1. /\ r.nonce \in Nonces /\ r.timestamp \in Nat /\ clock \in Nat
        /\ nonces[r.nonce] \in Nat
    BY Zenon DEF WorkerTypeOK, RequestsTypeOK, Request
  <2>2. nonces'[r.nonce] = IF nonces[r.nonce] <= clock THEN 0 ELSE nonces[r.nonce]
    BY Zenon, <1>2, <2>1
  <2>3. r.timestamp + NonceTtl <=
          AuthWindow + (IF nonces[r.nonce] # 0 THEN nonces[r.nonce] ELSE clock)
    BY Zenon DEF Blocked
  <2> QED BY SMTT(30), <2>1, <2>2, <2>3
<1>10. RowsShown' = RowsShown
  <2>1. \A s \in Sisters : peers[s].expires \in Nat /\ clock \in Nat
    BY DEF WorkerTypeOK, RequestsTypeOK, Row, NoEntry
  <2> QED BY SMTT(30), <1>1, <1>2, <2>1 DEF RowsShown, RowLive, NoEntry
<1> QED BY Zenon, <1>4, <1>5, <1>6, <1>7, <1>8, <1>9, <1>10

LEMMA TickStep ==
  ASSUME WorkerInv, WorkerTick
  PROVE  WorkerInv' /\ W!Next
<1> USE DEF WorkerInv
<1>1. /\ clock' = clock + 1 /\ clock \in Nat
      /\ UNCHANGED <<sent, own, accepts, peers, nonces, alarm>>
  BY Zenon DEF WorkerTick, clientVars, WorkerTypeOK, RequestsTypeOK
<1>2. WorkerTypeOK'
  BY SMTT(30), <1>1 DEF WorkerTypeOK, RequestsTypeOK
<1>3. Accepted' = Accepted /\ Offered' = Offered
  BY Zenon, <1>1 DEF Accepted, Offered
<1>4. Unique' /\ NoReplay' /\ RowHeld'
  BY Zenon, <1>1, <1>3 DEF Unique, NoReplay, RowHeld
<1>5. \A r \in sent : r.timestamp \in Nat /\ nonces[r.nonce] \in Nat
  BY Zenon DEF WorkerTypeOK, RequestsTypeOK, Request
<1>6. Blocked'
  BY <1>1, <1>5 DEF Blocked
<1>7. \A s \in Sisters : peers[s].expires \in Nat
  BY DEF WorkerTypeOK, Row, NoEntry
<1>8. PeersCollected'
  BY <1>1, <1>7 DEF PeersCollected, WorkerTypeOK
<1>9. W!Lapse
  <2> DEFINE gone == {s \in Sisters : ~(peers[s].expires > clock')}
  <2>1. RowsShown' = [s \in Sisters |-> IF s \in gone THEN NoRecord ELSE RowsShown[s]]
    BY SMTT(30), <1>1, <1>7 DEF RowsShown, RowLive
  <2> QED BY Zenon, <1>3, <2>1 DEF W!Lapse
<1> QED BY Zenon, <1>2, <1>4, <1>6, <1>8, <1>9 DEF W!Next

-----------------------------------------------------------------------------
(* Every behaviour *)

LEMMA InitInv ==
  ASSUME WorkerInit
  PROVE  WorkerInv /\ W!Init
<1>1. WorkerTypeOK
  BY SMTT(30) DEF WorkerInit, RequestsInit, WorkerTypeOK, RequestsTypeOK, PeerRecord
<1>2. Accepted = {} /\ Offered = {}
  BY Zenon DEF WorkerInit, RequestsInit, Accepted, Offered
<1>3. RowsShown = [s \in Sisters |-> NoRecord]
  BY SMTT(30) DEF WorkerInit, RequestsInit, RowsShown, RowLive, NoEntry
<1> QED BY SMTT(30), <1>1, <1>2, <1>3 DEF WorkerInit, RequestsInit, WorkerInv, Unique, Blocked, NoReplay, RowHeld,
                                PeersCollected, W!Init

LEMMA NextInv ==
  ASSUME WorkerInv, [WorkerNext]_workerVars
  PROVE  WorkerInv' /\ [W!Next]_<<RowsShown, Accepted, Offered>>
<1>1. CASE ClientNext /\ UNCHANGED <<peers, nonces, alarm>>
  BY Zenon, <1>1, WorkerClientStep DEF RowsShown, RowLive
<1>2. CASE UNCHANGED workerVars
  BY <1>2 DEF workerVars, clientVars, WorkerInv, WorkerTypeOK, RequestsTypeOK, Unique, Blocked, NoReplay, RowHeld,
              PeersCollected, RowsShown, RowLive, Accepted, Offered
<1> QED BY Zenon, <1>1, <1>2, PeersStep, AnnounceStep, AlarmStep, TickStep DEF WorkerNext

LEMMA Always == WorkerSpec => []WorkerInv
<1>1. WorkerInv /\ [WorkerNext]_workerVars => WorkerInv'
  BY NextInv
<1>2. WorkerInit => WorkerInv
  BY InitInv
<1> QED BY <1>1, <1>2, PTL DEF WorkerSpec

\* The Durable Object serves a request at most once, at whatever time copies of
\* it arrive, provided that NONCE_TTL_SECS exceeds twice the window.
THEOREM NeverServedTwice == WorkerSpec => []NoReplay
<1>1. WorkerInv => NoReplay
  BY DEF WorkerInv
<1> QED BY <1>1, Always, PTL

\* For every row of the directory an alarm is set, not later than its expiry or
\* due already: schedule_alarm, run at the end of a request and of the alarm
\* itself, forgets none, although a refused announce returns before it.
THEOREM RowsAreCollected == WorkerSpec => []PeersCollected
<1>1. WorkerInv => PeersCollected
  BY DEF WorkerInv
<1> QED BY <1>1, Always, PTL

\* The Durable Object implements Directory for every value of the constants: its
\* conditional upsert shows only announced records, and none goes back.
THEOREM CloudflareImplementsDirectory == WorkerSpec => WorkerImplementsDirectory
<1>1. WorkerInit => W!Init
  BY InitInv
<1>2. WorkerInv /\ [WorkerNext]_workerVars => [W!Next]_<<RowsShown, Accepted, Offered>>
  BY NextInv
<1> QED BY <1>1, <1>2, Always, PTL DEF WorkerSpec, WorkerImplementsDirectory, W!Spec, W!vars
=============================================================================
