-------------------------- MODULE GatewayCloudflare --------------------------
(***************************************************************************)
(* The Gateway on Cloudflare: one Durable Object per Network over two SQL  *)
(* tables.  A request runs from its clock read to its last statement       *)
(* without giving way, and the tables survive the object.  An alarm, the   *)
(* platform's only timer, collects expired rows.                           *)
(***************************************************************************)
EXTENDS GatewayRequests

ASSUME CloudflareAssumption ==
  /\ RecordTtl \in Nat \ {0}
  /\ NonceTtl > 2 * AuthWindow

\* nonces[n] is expires_at of the row of n, 0 without row.
VARIABLES
  peers,    \* peers[s]: the row of s, or NoEntry
  alarm     \* when the alarm will fire, 0 if none is set

workerVars == <<clock, clientVars, accepts, peers, nonces, alarm>>

WorkerInit ==
  /\ RequestsInit
  /\ peers = [s \in Sisters |-> NoEntry]
  /\ nonces = [n \in Nonces |-> 0]
  /\ alarm = 0

-----------------------------------------------------------------------------
\* schedule_alarm: the soonest expiry of both tables, now if that has passed.
\* With nothing to collect the alarm is left as it is.
ScheduleAlarm(rows, spent, current) ==
  LET expiries == ({rows[s].expires : s \in Sisters} \cup {spent[n] : n \in Nonces}) \ {0}
      soonest  == CHOOSE e \in expiries : \A d \in expiries : e <= d
  IN  IF expiries = {} THEN current
      ELSE IF soonest > clock THEN soonest ELSE clock

\* Mutant: a row about to expire no longer blocks its nonce.
SpendNonceExpired(n) ==
  /\ nonces[n] <= clock + AuthWindow
  /\ nonces' = [nonces EXCEPT ![n] = clock + NonceTtl]
  /\ Accept(n)

\* The primary key refuses a nonce as long as its row is there.
SpendNonce(n) ==
  /\ nonces[n] = 0
  /\ nonces' = [nonces EXCEPT ![n] = clock + NonceTtl]
  /\ Accept(n)

\* ON CONFLICT: a higher sequence replaces the row, an equal one renews it, a
\* lower one is ignored, whether or not the row has expired.
UpsertRow(row, record) ==
  IF row = NoEntry \/ record.seq > row.record.seq
  THEN [record |-> record, expires |-> clock + RecordTtl]
  ELSE IF record.seq = row.record.seq
  THEN [row EXCEPT !.expires = clock + RecordTtl]
  ELSE row

\* An announce refused for its record has spent its nonce and returns before
\* the alarm is scheduled.  A replayed request changes nothing.
HandleAnnounce(r) ==
  /\ r.record # NoRecord
  /\ VerifyRequest(r, clock)
  /\ SpendNonce(r.nonce)
  /\ IF RecordMatchesMembership(r)
     THEN /\ peers' = [peers EXCEPT ![r.record.sister] = UpsertRow(@, r.record)]
          /\ alarm' = ScheduleAlarm(peers', nonces', alarm)
     ELSE UNCHANGED <<peers, alarm>>
  /\ UNCHANGED <<clock, clientVars>>

HandlePeers(r) ==
  /\ r.record = NoRecord
  /\ VerifyRequest(r, clock)
  /\ SpendNonce(r.nonce)
  /\ alarm' = ScheduleAlarm(peers, nonces', alarm)
  /\ UNCHANGED <<clock, clientVars, peers>>

\* Mutant: the alarm is not set again.
AlarmOnce ==
  /\ alarm # 0
  /\ alarm <= clock
  /\ peers' = [s \in Sisters |-> IF peers[s].expires <= clock THEN NoEntry ELSE peers[s]]
  /\ nonces' = [n \in Nonces |-> IF nonces[n] <= clock THEN 0 ELSE nonces[n]]
  /\ alarm' = 0
  /\ UNCHANGED <<clock, clientVars, accepts>>

\* The alarm is spent when it fires, at or after its time.
Alarm ==
  /\ alarm # 0
  /\ alarm <= clock
  /\ peers' = [s \in Sisters |-> IF peers[s].expires <= clock THEN NoEntry ELSE peers[s]]
  /\ nonces' = [n \in Nonces |-> IF nonces[n] <= clock THEN 0 ELSE nonces[n]]
  /\ alarm' = ScheduleAlarm(peers', nonces', 0)
  /\ UNCHANGED <<clock, clientVars, accepts>>

WorkerTick ==
  /\ clock < MaxNow
  /\ clock' = clock + 1
  /\ UNCHANGED <<clientVars, accepts, peers, nonces, alarm>>

WorkerNext ==
  \/ ClientNext /\ UNCHANGED <<peers, nonces, alarm>>
  \/ \E r \in sent : HandleAnnounce(r) \/ HandlePeers(r)
  \/ Alarm
  \/ WorkerTick

WorkerSpec == WorkerInit /\ [][WorkerNext]_workerVars

-----------------------------------------------------------------------------
(* Properties *)

\* handle_peers selects the rows that have not expired.
RowLive(s) == peers[s].expires > clock

RowsShown == [s \in Sisters |-> IF RowLive(s) THEN peers[s].record ELSE NoRecord]

W == INSTANCE Directory WITH dir <- RowsShown, accepted <- Accepted, offered <- Offered

\* The Durable Object is a Directory as well, by its conditional upsert.
WorkerImplementsDirectory == W!Spec

\* A directory row is collected: an alarm is set, not later than its expiry or
\* due already.
PeersCollected ==
  \A s \in Sisters : peers[s] # NoEntry =>
    alarm # 0 /\ (alarm <= peers[s].expires \/ alarm <= clock)

=============================================================================
