------------------------------ MODULE Directory ------------------------------
(***************************************************************************)
(* What a Misaka Gateway promises its Network, whatever hosts it: a request *)
(* is served for a nonce that was not served before, what the directory    *)
(* shows of a Sister was announced by that Sister, and while a Sister is   *)
(* shown the sequence of its record does not go back.                      *)
(***************************************************************************)
EXTENDS Naturals

CONSTANTS
  Sisters,
  Nonces,
  NoRecord    \* the Sister is not listed

VARIABLES
  dir,        \* dir[s]: the record a peers query returns for s, or NoRecord
  accepted,   \* the nonces of the requests served so far
  offered     \* the records Sisters have announced for themselves

vars == <<dir, accepted, offered>>

Init ==
  /\ dir = [s \in Sisters |-> NoRecord]
  /\ accepted = {}
  /\ offered = {}

\* The directory turns to a record s has announced, not older than the shown one.
Publish(s) ==
  \E r \in offered' :
    /\ r.sister = s
    /\ dir[s] # NoRecord => r.seq >= dir[s].seq
    /\ dir' = [dir EXCEPT ![s] = r]

\* A request is served: its nonce is spent, and an announce brings one record.
Serve ==
  /\ \E n \in Nonces \ accepted : accepted' = accepted \cup {n}
  /\ offered \subseteq offered'
  /\ \A q, r \in offered' \ offered : q = r
  /\ dir' = dir \/ \E s \in Sisters : Publish(s)

\* What was announced is shown later than it was accepted.
Refresh ==
  /\ UNCHANGED <<accepted, offered>>
  /\ \E s \in Sisters : Publish(s)

\* Records that were not renewed disappear.
Lapse ==
  /\ UNCHANGED <<accepted, offered>>
  /\ \E gone \in SUBSET Sisters :
       dir' = [s \in Sisters |-> IF s \in gone THEN NoRecord ELSE dir[s]]

Next == Serve \/ Refresh \/ Lapse

Spec == Init /\ [][Next]_vars
=============================================================================
