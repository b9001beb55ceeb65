--------------------------- MODULE GatewayRequests ---------------------------
(***************************************************************************)
(* The Sisters as clients of a Gateway, the wall clock, and the stateless  *)
(* part of serving a request, which both hosts share (core/gateway.rs).    *)
(*                                                                         *)
(* Signatures are ideal.  A record is what distinguishes two locators of a *)
(* Sister: the sequence of its transport binding and its address.  A       *)
(* request stays in sent: it may arrive late, repeatedly or never.         *)
(***************************************************************************)
EXTENDS Naturals

CONSTANTS
  Sisters,
  Addrs,         \* endpoint addresses
  Nonces,        \* request nonces, each drawn once
  NoRecord,      \* a peers query, which carries no record
  MemberUntil,   \* MemberUntil[s]: expires_at of the membership of s
  AuthWindow,    \* auth_window_secs
  NonceTtl,      \* nonce_ttl_secs, NONCE_TTL_SECS
  RecordTtl,     \* record_ttl_secs, RECORD_TTL_SECS
  MaxSkew,       \* bound: how far a client's clock runs ahead
  MaxSeq,        \* bound: endpoint identity changes of a Sister
  MaxNow         \* bound: seconds the clock runs

ASSUME RequestsAssumption ==
  /\ MemberUntil \in [Sisters -> Nat]
  /\ AuthWindow \in Nat
  /\ NonceTtl \in Nat \ {0}
  /\ RecordTtl \in Nat
  /\ MaxSkew \in Nat
  /\ MaxSeq \in Nat
  /\ MaxNow \in Nat

VARIABLES
  clock,   \* the Gateway's clock
  own,     \* own[s]: the record s issued last
  sent,    \* requests sent so far
  nonces,  \* nonces[n]: when the host's entry of n expires, 0 without entry
  accepts  \* history: how often n was accepted (2 stands for "again")

clientVars == <<own, sent>>

NoEntry == [expires |-> 0]   \* no locator of a Sister

PeerRecord == [sister : Sisters, seq : Nat, addr : Addrs]

\* by is the Sister of the membership certificate and of the signature.
Request ==
  [nonce : Nonces, timestamp : Nat, by : Sisters, record : PeerRecord \cup {NoRecord}]

RequestsTypeOK ==
  /\ clock \in Nat
  /\ own \in [Sisters -> PeerRecord]
  /\ sent \subseteq Request
  /\ accepts \in [Nonces -> 0..2]

RequestsInit ==
  /\ clock = 0
  /\ \E addr \in Addrs :
       own = [s \in Sisters |-> [sister |-> s, seq |-> 0, addr |-> addr]]
  /\ sent = {}
  /\ accepts = [n \in Nonces |-> 0]

-----------------------------------------------------------------------------
(* Sisters *)

\* The records a process of s may announce.  A restart keeps the sequence of the
\* transport binding unless the endpoint identity has changed, and issues the
\* record anew for the current address.
Issue(s) ==
  [sister : {s}, seq : {own[s].seq, own[s].seq + 1} \cap 0..MaxSeq, addr : Addrs]

\* A request is signed with a nonce of its own and the time on the client's
\* clock.  A clock that runs behind makes a request as if it were delayed.
Sign(n, ts, by, record) ==
  /\ \A r \in sent : r.nonce # n
  /\ sent' = sent \cup
       {[nonce |-> n, timestamp |-> ts, by |-> by, record |-> record]}
  /\ UNCHANGED <<clock, accepts>>

Announce(n, ts, s) ==
  \E record \in Issue(s) :
    /\ Sign(n, ts, s, record)
    /\ own' = [own EXCEPT ![s] = record]

\* A member passes on the record of another Sister; hosts must refuse it.
AnnounceOther(n, ts, by, s) ==
  /\ by # s
  /\ Sign(n, ts, by, own[s])
  /\ UNCHANGED own

QueryPeers(n, ts, s) ==
  /\ Sign(n, ts, s, NoRecord)
  /\ UNCHANGED own

-----------------------------------------------------------------------------
(* Stateless verification *)

\* Mutant: the membership's validity is not looked at.
VerifyRequestAnyTime(r, now) ==
  /\ now <= r.timestamp + AuthWindow
  /\ r.timestamp <= now + AuthWindow

\* Timestamp within the window on either side, membership valid now.
VerifyRequest(r, now) ==
  /\ now <= r.timestamp + AuthWindow
  /\ r.timestamp <= now + AuthWindow
  /\ now <= MemberUntil[r.by]

\* Mutant: any member's record will do.
RecordMatchesAny(r) == TRUE

RecordMatchesMembership(r) == r.record.sister = r.by

\* An announce that passes all checks on its record.
Announces(r) == r.record # NoRecord /\ RecordMatchesMembership(r)

Accept(n) == accepts' = [accepts EXCEPT ![n] = IF @ = 0 THEN 1 ELSE 2]

Accepted == {n \in Nonces : accepts[n] # 0}

\* The records Sisters have announced for themselves.
Offered ==
  {r.record : r \in {q \in sent : /\ q.nonce \in Accepted
                                /\ q.record # NoRecord
                                /\ q.record.sister = q.by}}

\* "A nonce is accepted once within its window": no request is served twice, at
\* whatever time copies of it arrive and however handlers interleave.
NoReplay == \A n \in Nonces : accepts[n] <= 1

-----------------------------------------------------------------------------
ClientNext ==
  \E n \in Nonces, ts \in clock..(clock + MaxSkew), s \in Sisters :
    \/ Announce(n, ts, s)
    \/ \E by \in Sisters : AnnounceOther(n, ts, by, s)
    \/ QueryPeers(n, ts, s)
=============================================================================
