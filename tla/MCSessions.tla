----------------------------- MODULE MCSessions -----------------------------
(***************************************************************************)
(* Instances of Sessions for TLC: a plan is a handful of calls between two *)
(* or three Sisters and the faults that may strike them.                   *)
(***************************************************************************)
EXTENDS Sessions, TLC

MCSisters == 1..3
MCCalls == 1..4

\* Sister s presents its own certificate, bound to its own endpoint.
Good == [s \in MCSisters |-> [net |-> 1, id |-> s, valid |-> TRUE, bound |-> s]]

C(kind, from, to, next) ==
  [kind |-> kind, from |-> from, to |-> to, want |-> to, next |-> next]

NoFault == [stall |-> 0, cut |-> 0]

P(call, allowed) ==
  [call |-> call, faults |-> allowed, cert |-> Good, boot |-> {}, tcp |-> FALSE,
   authority |-> {2}, known |-> MCSisters,
   stops |-> {}, revokes |-> {}]

\* Handlers of two Sisters that send to each other, at capacity.
Crossing ==
  P(<<C("request", 1, 2, 2), C("send", 2, 1, 0), C("request", 2, 1, 4),
      C("send", 1, 2, 0)>>, NoFault)

\* A Sister greets a peer before its own accept loop runs.
Bootstrap ==
  [P(<<C("hello", 1, 2, 2), C("send", 2, 1, 0)>>,
     [NoFault EXCEPT !.cut = 1]) EXCEPT !.boot = {1}, !.stops = {2}]

\* Callers of one ConnectionManager, on cached and fresh sessions.
Managed ==
  P(<<C("managed", 1, 2, 0), C("managed", 1, 2, 0), C("managed", 1, 2, 0)>>,
    NoFault)

ManagedRace ==
  [P(<<C("managed", 1, 2, 0), C("managed", 1, 2, 0)>>,
     [NoFault EXCEPT !.cut = 1]) EXCEPT !.tcp = TRUE, !.stops = {2}]

Unknown == [P(<<C("managed", 1, 2, 0)>>, NoFault) EXCEPT !.known = {}]

\* Clients that hang, on the streams and sessions of one Sister.
Hanging ==
  P(<<C("raw", 1, 2, 0), C("send", 3, 2, 0)>>, [NoFault EXCEPT !.stall = 2])

Crowd ==
  P(<<C("raw", 1, 2, 0), C("enroll", 3, 2, 0), C("enroll", 1, 3, 0)>>,
    [NoFault EXCEPT !.stall = 1])

\* An endpoint on file that now answers for another Sister, on either side.
Moved ==
  [P(<<[C("hello", 1, 2, 0) EXCEPT !.want = 3], C("hello", 1, 2, 0)>>, NoFault)
     EXCEPT !.revokes = {<<1, 2>>}]

\* A client of another Network, a binding for a former endpoint, an expired
\* membership; a membership revoked meanwhile.
Strangers ==
  {[P(<<C("raw", 3, 2, 0), C("send", 1, 2, 0)>>, NoFault)
      EXCEPT !.cert = cert, !.revokes = {<<2, 3>>, <<3, 3>>}] :
     cert \in {Good, [Good EXCEPT ![3].net = 2], [Good EXCEPT ![3].bound = 1],
               [Good EXCEPT ![3].valid = FALSE]}}

\* A Sister shuts down while it serves and while its handler sends.
Stopping ==
  [P(<<C("request", 1, 2, 2), C("send", 2, 3, 0), C("raw", 3, 2, 0)>>, NoFault)
     EXCEPT !.stops = {2}]

MCPlans ==
  {Crossing, Bootstrap, Managed, ManagedRace, Unknown, Hanging, Crowd,
   Moved, Stopping}
  \cup Strangers
=============================================================================
