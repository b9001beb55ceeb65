------------------------------ MODULE Gatewayd ------------------------------
(***************************************************************************)
(* The native Gateway (misaka-gatewayd): handler tasks of a multi-threaded *)
(* server over two mutex-protected maps.  A handler reads the clock before *)
(* it takes a lock, so other handlers and time may pass in between, at     *)
(* most MaxStall seconds between a clock read and the last use of it.      *)
(***************************************************************************)
EXTENDS GatewayRequests

CONSTANTS
  Tasks,       \* concurrent handlers
  MaxStall     \* scheduling delay of a handler, in seconds

ASSUME GatewaydAssumption ==
  /\ MaxStall \in Nat
  /\ NonceTtl > 2 * AuthWindow + MaxStall

VARIABLES
  members,   \* members[s]: the DirectoryEntry of s, or NoEntry
  task       \* task[t]: a handler between two locks

vars == <<clock, clientVars, accepts, members, nonces, task>>

Entry == [record : PeerRecord, expires : Nat]
Idle == [pc |-> "idle"]
TaskRecord == [pc : {"spend", "stamp", "write"}, req : Request, now : Nat]

TypeOK ==
  /\ RequestsTypeOK
  /\ members \in [Sisters -> Entry \cup {NoEntry}]
  /\ nonces \in [Nonces -> Nat]
  /\ task \in [Tasks -> TaskRecord \cup {Idle}]

Init ==
  /\ RequestsInit
  /\ members = [s \in Sisters |-> NoEntry]
  /\ nonces = [n \in Nonces |-> 0]
  /\ task = [t \in Tasks |-> Idle]

-----------------------------------------------------------------------------
(* authenticate reads the clock, verifies, then locks the nonces. *)

Receive(t, r) ==
  /\ task[t] = Idle
  /\ VerifyRequest(r, clock)
  /\ task' = [task EXCEPT ![t] = [pc |-> "spend", req |-> r, now |-> clock]]
  /\ UNCHANGED <<clock, clientVars, members, nonces, accepts>>

\* The nonces left after the expired ones were dropped.
Retain(now) == [n \in Nonces |-> IF nonces[n] > now THEN nonces[n] ELSE 0]

\* Mutant: a nonce is blocked for the window on one side only.
SpendOneWindow(t) ==
  LET r    == task[t].req
      kept == Retain(task[t].now)
  IN
  /\ task[t].pc = "spend"
  /\ nonces' = [kept EXCEPT ![r.nonce] = task[t].now + AuthWindow]
  /\ IF kept[r.nonce] # 0
     THEN /\ task' = [task EXCEPT ![t] = Idle]
          /\ UNCHANGED accepts
     ELSE /\ task' = [task EXCEPT ![t] =
               IF Announces(r) THEN [@ EXCEPT !.pc = "stamp"] ELSE Idle]
          /\ Accept(r.nonce)
  /\ UNCHANGED <<clock, clientVars, members>>

\* insert overwrites the entry of a replayed nonce as well, and refuses.
Spend(t) ==
  LET r    == task[t].req
      kept == Retain(task[t].now)
  IN
  /\ task[t].pc = "spend"
  /\ nonces' = [kept EXCEPT ![r.nonce] = task[t].now + NonceTtl]
  /\ IF kept[r.nonce] # 0
     THEN /\ task' = [task EXCEPT ![t] = Idle]
          /\ UNCHANGED accepts
     ELSE /\ task' = [task EXCEPT ![t] =
               IF Announces(r) THEN [@ EXCEPT !.pc = "stamp"] ELSE Idle]
          /\ Accept(r.nonce)
  /\ UNCHANGED <<clock, clientVars, members>>

\* upsert reads the clock again before it locks the directory.
Stamp(t) ==
  /\ task[t].pc = "stamp"
  /\ task' = [task EXCEPT ![t].pc = "write", ![t].now = clock]
  /\ UNCHANGED <<clock, clientVars, members, nonces, accepts>>

\* Mutant: the last announce wins.
StaleNever(e, record, now) == FALSE

\* A live entry with a higher sequence is not replaced.
Stale(e, record, now) == e.expires > now /\ e.record.seq > record.seq

Upsert(t) ==
  LET record == task[t].req.record
      now    == task[t].now
  IN
  /\ task[t].pc = "write"
  /\ members' =
       IF Stale(members[record.sister], record, now) THEN members
       ELSE [members EXCEPT ![record.sister] =
               [record |-> record, expires |-> now + RecordTtl]]
  /\ task' = [task EXCEPT ![t] = Idle]
  /\ UNCHANGED <<clock, clientVars, nonces, accepts>>

Tick ==
  /\ clock < MaxNow
  /\ \A t \in Tasks : task[t] # Idle => clock < task[t].now + MaxStall
  /\ clock' = clock + 1
  /\ UNCHANGED <<clientVars, members, nonces, task, accepts>>

Next ==
  \/ ClientNext /\ UNCHANGED <<members, nonces, task>>
  \/ \E t \in Tasks, r \in sent : Receive(t, r)
  \/ \E t \in Tasks : Spend(t) \/ Stamp(t) \/ Upsert(t)
  \/ Tick

Spec == Init /\ [][Next]_vars

-----------------------------------------------------------------------------
(* Properties *)

\* What a peers query returns for s: live_records drops expired entries.
Live(s) == members[s].expires > clock

Shown == [s \in Sisters |-> IF Live(s) THEN members[s].record ELSE NoRecord]

D == INSTANCE Directory WITH dir <- Shown, accepted <- Accepted, offered <- Offered

\* The native gateway is a Directory: what live_records shows was announced by
\* the Sister it is about, and upsert never replaces a live record by an older.
ImplementsDirectory == D!Spec

\* A Sister whose membership has expired can no longer renew its record, and
\* disappears from the directory after the record's lifetime (plus the delay of
\* a handler that was under way).
ExpiredMemberLeaves ==
  \A s \in Sisters : clock > MemberUntil[s] + RecordTtl + MaxStall => ~Live(s)

=============================================================================
