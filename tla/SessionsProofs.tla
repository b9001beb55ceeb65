--------------------------- MODULE SessionsProofs ---------------------------
(***************************************************************************)
(* Who is at the other end of a stream, and that the ConnectionManager is   *)
(* never left Connecting, for any Sisters, calls, certificates, capacities  *)
(* and faults.                                                              *)
(*                                                                          *)
(* MutualIdentity is not inductive: a stream on a cached session is handed  *)
(* out without authenticate_client.  Vetted adds what makes that sound: the *)
(* session the manager keeps was authenticated by the call that dialed it.  *)
(***************************************************************************)
EXTENDS Sessions, TLAPS

Pcs ==
  {"off", "dial", "open", "auth", "greet", "reply", "using", "reuse", "done", "failed", "refused"}

Srvs == {"none", "opened", "auth", "prefix", "control", "dispatch", "service", "gone"}

Typed ==
  /\ plan \in Plans
  /\ pc \in [Calls -> Pcs]
  /\ via \in [Calls -> Calls \cup {0}]
  /\ srv \in [Calls -> Srvs]
  /\ mgr \in [state : {"Disconnected", "Connecting", "Connected"}, session : Calls \cup {0}]

\* The Sister that answers call c is the one its caller wants.
Trusted(c) == Cert(To(c)).id = Call(c).want

\* The Sister that calls is a member of the Network and calls from its own endpoint.
Certified(c) == Cert(From(c)).net = Cert(To(c)).net /\ Cert(From(c)).bound = From(c)

Opening == {"dial", "open", "reuse", "auth"}

Vetted ==
  /\ mgr.session # 0 =>
       mgr.session \in Live /\ Call(mgr.session).kind = "managed" /\ Trusted(mgr.session)
  /\ \A c \in Live :
       /\ pc[c] = "off" /\ Call(c).kind = "managed" => srv[c] \in {"none", "gone"}
       /\ pc[c] = "reuse" => Call(c).kind = "managed" /\ Trusted(c)
       /\ pc[c] \in {"greet", "reply", "using"} /\ Call(c).kind # "enroll" /\ via[c] # 0 =>
            Trusted(c)
       /\ srv[c] \in {"prefix", "control", "dispatch", "service"}
            /\ (Call(c).kind # "managed" \/ via[c] # 0) => Certified(c)

Inv == Typed /\ Vetted /\ NotWedged

-----------------------------------------------------------------------------
(* Plans *)

LEMMA PlanFacts ==
  ASSUME Typed
  PROVE  /\ Live \subseteq Calls /\ 0 \notin Calls
         /\ \A c \in Live : Call(c).next # 0 =>
              Call(c).next \in Live /\ Call(Call(c).next).kind # "managed"
         /\ \A c, d \in Live : Call(c).kind = "managed" /\ Call(d).kind = "managed" =>
              To(c) = To(d) /\ Call(c).want = Call(d).want
BY PlansAssumption, SessionsAssumption DEF Typed, Live, Call, To

\* Trust, certificates and calls are of the plan.
LEMMA PlanKept ==
  ASSUME plan' = plan
  PROVE  /\ Live' = Live
         /\ \A c \in Live : Call(c)' = Call(c) /\ Trusted(c)' = Trusted(c)
                            /\ Certified(c)' = Certified(c)
BY DEF Live, Call, Trusted, Certified, Cert, To, From

\* Steps that change neither clients nor servers nor the manager.
LEMMA Still ==
  ASSUME Inv, plan' = plan, pc' = pc, via' = via, srv' = srv, mgr' = mgr
  PROVE  Inv'
BY PlanKept DEF Inv, Typed, Vetted, NotWedged

\* A call goes on to `at`.
LEMMA Goes ==
  ASSUME Inv, NEW c \in Live, NEW at \in Pcs \ {"off", "reuse"}, pc' = [pc EXCEPT ![c] = at],
         plan' = plan, via' = via, srv' = srv, mgr' = mgr,
         at \in {"greet", "reply", "using"} /\ Call(c).kind # "enroll" =>
           pc[c] \in {"greet", "reply", "using"},
         Call(c).kind = "managed" => pc[c] \notin Opening \/ at \in Opening
  PROVE  Inv'
<1>1. Live \subseteq Calls
  BY PlanFacts DEF Inv
<1>2. Typed'
  BY <1>1 DEF Inv, Typed
<1>3. \A d \in Live : pc'[d] = IF d = c THEN at ELSE pc[d]
  BY <1>1 DEF Inv, Typed
<1>4. Vetted'
  BY <1>3, PlanKept DEF Inv, Vetted
<1>5. NotWedged'
  BY <1>3, PlanKept DEF Inv, NotWedged, Opening
<1> QED BY <1>2, <1>4, <1>5 DEF Inv

\* A call returns an error.
LEMMA Fails ==
  ASSUME Inv, NEW c \in Live, Fail(c), plan' = plan, via' = via, srv' = srv
  PROVE  Inv'
<1>1. Live \subseteq Calls
  BY PlanFacts DEF Inv
<1>2. Typed'
  BY <1>1 DEF Inv, Typed, Fail, Pcs
<1>3. \A d \in Live : pc'[d] = IF d = c THEN "failed" ELSE pc[d]
  BY <1>1 DEF Inv, Typed, Fail
<1>4. mgr'.session = mgr.session /\ (mgr'.state = "Connecting" => mgr' = mgr)
  BY DEF Fail, Inv, Typed
<1>5. Vetted'
  BY <1>3, <1>4, PlanKept DEF Inv, Vetted
<1>6. NotWedged'
  <2>1. CASE Call(c).kind = "managed"
    BY <2>1 DEF Fail, Inv, Typed, NotWedged
  <2>2. CASE Call(c).kind # "managed"
    BY <1>3, <1>4, <2>2, PlanKept DEF Inv, NotWedged
  <2> QED BY <2>1, <2>2
<1> QED BY <1>2, <1>5, <1>6 DEF Inv

\* A call that does not use the manager dials.
LEMMA Dials ==
  ASSUME Inv, NEW c \in Live, Call(c).kind # "managed", DialTo(c), plan' = plan,
         mgr' = mgr, srv' \in [Calls -> Srvs],
         \A x \in Live : \/ srv'[x] = srv[x]
                         \/ srv[x] = "control" /\ srv'[x] \in {"dispatch", "gone"}
  PROVE  Inv'
<1>1. Live \subseteq Calls
  BY PlanFacts DEF Inv
<1>2. Typed'
  BY Zenon, <1>1 DEF Inv, Typed, DialTo, Pcs
<1>3. \A x \in Live : /\ pc'[x] = IF x = c THEN "dial" ELSE pc[x]
                      /\ via'[x] = IF x = c THEN c ELSE via[x]
  BY <1>1 DEF Inv, Typed, DialTo
<1>4. Vetted'
  BY <1>3, PlanKept DEF Inv, Vetted
<1>5. NotWedged'
  BY <1>3, PlanKept DEF Inv, NotWedged
<1> QED BY <1>2, <1>4, <1>5 DEF Inv

\* The tasks of streams end, and the sends their handlers await with them.
LEMMA Ends ==
  ASSUME Inv, NEW t, NEW X \in SUBSET Live, NEW n, EndStreams(t, X, n),
         plan' = plan, via' = via, mgr' = mgr
  PROVE  Inv'
<1>1. Live \subseteq Calls
  BY PlanFacts DEF Inv
<1>2. Typed'
  BY DEF Inv, Typed, EndStreams, Pcs, Srvs
<1>3. \A x \in Live : Call(x).kind = "managed" => x \notin Cancelled(X)
  <2> SUFFICES ASSUME NEW x \in Live, Call(x).kind = "managed", x \in Cancelled(X)
               PROVE  FALSE
    OBVIOUS
  <2>1. PICK c \in X : x = Call(c).next
    BY DEF Cancelled
  <2> QED BY <1>1, <2>1, PlanFacts DEF Inv
<1>4. \A x \in Live : /\ pc'[x] \in {pc[x], "failed"}
                      /\ srv'[x] \in {srv[x], "gone"}
                      /\ Call(x).kind = "managed" => pc'[x] = pc[x]
  BY <1>1, <1>3 DEF EndStreams
<1>5. Vetted'
  BY <1>4, PlanKept DEF Inv, Vetted
<1>6. NotWedged'
  BY <1>4, PlanKept DEF Inv, NotWedged
<1> QED BY <1>2, <1>5, <1>6 DEF Inv

\* A stream goes on at its server: past authenticate_server only when its opener
\* is certified.
LEMMA Serves ==
  ASSUME Inv, NEW c \in Live, NEW at \in Srvs, srv' = [srv EXCEPT ![c] = at],
         plan' = plan, pc' = pc, via' = via, mgr' = mgr,
         srv[c] \notin {"none", "gone"},
         at \in {"prefix", "control", "dispatch", "service"} =>
           Certified(c) \/ srv[c] \in {"prefix", "control", "dispatch", "service"}
  PROVE  Inv'
<1>1. Live \subseteq Calls
  BY PlanFacts DEF Inv
<1>2. Typed'
  BY <1>1 DEF Inv, Typed
<1>3. \A d \in Live : srv'[d] = IF d = c THEN at ELSE srv[d]
  BY <1>1 DEF Inv, Typed
<1>4. Vetted'
  BY <1>3, PlanKept DEF Inv, Vetted
<1>5. NotWedged'
  BY PlanKept DEF Inv, NotWedged
<1> QED BY <1>2, <1>4, <1>5 DEF Inv

-----------------------------------------------------------------------------
(* Clients *)

LEMMA ClientSteps ==
  ASSUME Inv, NEW c \in Live, Client(c) \/ Connect(c) \/ Close(c)
  PROVE  Inv'
<1> USE DEF Step, world, server, client
<1>1. CASE Connect(c)
  BY Zenon, <1>1, Dials DEF Connect, Inv, Typed
<1>2. CASE ConnectFails(c) \/ OpenStreamFails(c) \/ AuthenticateFails(c)
  BY <1>2, Fails DEF ConnectFails, OpenStreamFails, AuthenticateFails
<1>3. CASE OpenStream(c)
  <2>1. Live \subseteq Calls
    BY PlanFacts DEF Inv
  <2>2. /\ pc[c] = "dial" /\ pc' = [pc EXCEPT ![c] = "open"]
        /\ srv' = [srv EXCEPT ![c] = "opened"]
        /\ plan' = plan /\ via' = via /\ mgr' = mgr
    BY <1>3 DEF OpenStream
  <2>3. Typed'
    BY <2>1, <2>2 DEF Inv, Typed, Pcs, Srvs
  <2>4. \A d \in Live : /\ pc'[d] = IF d = c THEN "open" ELSE pc[d]
                        /\ srv'[d] = IF d = c THEN "opened" ELSE srv[d]
    BY <2>1, <2>2 DEF Inv, Typed
  <2>5. Vetted'
    BY <2>2, <2>4, PlanKept DEF Inv, Vetted
  <2>6. NotWedged'
    BY <2>2, <2>4, PlanKept DEF Inv, NotWedged
  <2> QED BY <2>3, <2>5, <2>6 DEF Inv
<1>4. CASE WriteHello(c)
  BY Zenon, <1>4, Goes DEF WriteHello, Pcs, Opening
<1>5. CASE Authenticated(c)
  <2>1. CASE ~validate_server(c)
    BY <1>5, <2>1, Fails DEF Authenticated
  <2>2. CASE validate_server(c)
    <3>1. Live \subseteq Calls /\ 0 \notin Calls
      BY PlanFacts DEF Inv
    <3>2. Trusted(c)
      BY <2>2 DEF validate_server, Trusted
    <3>3. /\ pc' = [pc EXCEPT ![c] = "greet"]
          /\ plan' = plan /\ via' = via /\ srv' = srv
          /\ mgr' = IF Call(c).kind = "managed"
                    THEN [state |-> "Connected", session |-> c] ELSE mgr
      BY <1>5, <2>2 DEF Authenticated
    <3>4. Typed'
      BY <3>1, <3>3 DEF Inv, Typed, Pcs
    <3>5. \A d \in Live : pc'[d] = IF d = c THEN "greet" ELSE pc[d]
      BY <3>1, <3>3 DEF Inv, Typed
    <3>6. Vetted'
      BY <3>2, <3>3, <3>5, PlanKept DEF Inv, Vetted
    <3>7. NotWedged'
      BY <3>3, <3>5, PlanKept DEF Inv, NotWedged
    <3> QED BY <3>4, <3>6, <3>7 DEF Inv
  <2> QED BY <2>1, <2>2
<1>6. CASE WriteRequest(c)
  <2>1. PICK at \in {"reply", "done", "using", "greet"} :
          pc[c] = "greet" /\ pc' = [pc EXCEPT ![c] = at]
    <3>1. pc = [pc EXCEPT ![c] = pc[c]]
      BY DEF Inv, Typed
    <3> QED BY <1>6, <3>1 DEF WriteRequest
  <2>2. plan' = plan /\ via' = via /\ srv' = srv /\ mgr' = mgr
    BY <1>6 DEF WriteRequest
  <2> QED BY Zenon, <2>1, <2>2, Goes DEF Pcs, Opening
<1>7. CASE ReadReply(c) \/ Close(c)
  BY <1>7, Goes DEF ReadReply, Close, Pcs, Opening
<1>8. CASE SendFails(c)
  BY Zenon, <1>8, Goes DEF SendFails, Pcs
<1>9. CASE mark_disconnected(c)
  <2>1. /\ pc[c] \in {"greet", "using"} /\ pc' = [pc EXCEPT ![c] = "done"]
        /\ plan' = plan /\ via' = via /\ srv' = srv
        /\ mgr' = [mgr EXCEPT !.state = "Disconnected"]
    BY <1>9 DEF mark_disconnected
  <2>2. Live \subseteq Calls
    BY PlanFacts DEF Inv
  <2>3. Typed'
    BY <2>1, <2>2 DEF Inv, Typed, Pcs
  <2>4. \A d \in Live : pc'[d] = IF d = c THEN "done" ELSE pc[d]
    BY <2>1, <2>2 DEF Inv, Typed
  <2>5. mgr'.session = mgr.session /\ mgr'.state = "Disconnected"
    BY <2>1 DEF Inv, Typed
  <2>6. Vetted'
    BY <2>1, <2>4, <2>5, PlanKept DEF Inv, Vetted
  <2>7. NotWedged'
    BY <2>5 DEF NotWedged
  <2> QED BY <2>3, <2>6, <2>7 DEF Inv
<1>10. CASE EnrollDialed(c)
  BY Zenon, <1>10, Goes DEF EnrollDialed, Pcs
<1>11. CASE PushTimesOut(c)
  <2>1. Call(c).kind # "managed"
    BY <1>11, PlanFacts DEF PushTimesOut, Inv
  <2> QED BY Zenon, <1>11, <2>1, Goes DEF PushTimesOut, Pcs
<1>12. CASE Reused(c)
  <2>1. /\ pc[c] = "reuse" /\ pc' = [pc EXCEPT ![c] = "greet"]
        /\ plan' = plan /\ via' = via /\ srv' = srv
        /\ mgr' = [mgr EXCEPT !.state = "Connected"]
    BY <1>12 DEF Reused
  <2>2. Live \subseteq Calls
    BY PlanFacts DEF Inv
  <2>3. Typed'
    BY <2>1, <2>2 DEF Inv, Typed, Pcs
  <2>4. \A d \in Live : pc'[d] = IF d = c THEN "greet" ELSE pc[d]
    BY <2>1, <2>2 DEF Inv, Typed
  <2>5. mgr'.session = mgr.session /\ mgr'.state = "Connected"
    BY <2>1 DEF Inv, Typed
  <2>6. Vetted'
    BY <2>1, <2>4, <2>5, PlanKept DEF Inv, Vetted
  <2>7. NotWedged'
    BY <2>5 DEF NotWedged
  <2> QED BY <2>3, <2>6, <2>7 DEF Inv
<1>13. CASE ReuseFails(c)
  <2>1. /\ pc[c] = "reuse" /\ pc' = [pc EXCEPT ![c] = "dial"]
        /\ via' = [via EXCEPT ![c] = c] /\ srv' = [srv EXCEPT ![c] = "none"]
        /\ plan' = plan /\ mgr' = [mgr EXCEPT !.session = 0]
    BY <1>13 DEF ReuseFails
  <2>2. Live \subseteq Calls
    BY PlanFacts DEF Inv
  <2>3. Typed'
    BY <2>1, <2>2 DEF Inv, Typed, Pcs, Srvs
  <2>4. \A d \in Live : /\ pc'[d] = IF d = c THEN "dial" ELSE pc[d]
                        /\ via'[d] = IF d = c THEN c ELSE via[d]
                        /\ srv'[d] = IF d = c THEN "none" ELSE srv[d]
    BY <2>1, <2>2 DEF Inv, Typed
  <2>5. mgr'.session = 0 /\ mgr'.state = mgr.state
    BY <2>1 DEF Inv, Typed
  <2>6. Vetted'
    BY <2>1, <2>4, <2>5, PlanKept DEF Inv, Vetted
  <2>7. NotWedged'
    BY <2>1, <2>4, <2>5, PlanKept DEF Inv, NotWedged
  <2> QED BY <2>3, <2>6, <2>7 DEF Inv
<1> QED BY <1>1, <1>2, <1>3, <1>4, <1>5, <1>6, <1>7, <1>8, <1>9, <1>10, <1>11, <1>12, <1>13
        DEF Client

-----------------------------------------------------------------------------
(* The manager *)

LEMMA ManagerSteps ==
  ASSUME Inv, NEW c \in Live, OpenManaged(c) \/ RaceTcp(c)
  PROVE  Inv'
<1> USE DEF Step
<1>1. Live \subseteq Calls /\ 0 \notin Calls
  BY PlanFacts DEF Inv
<1>2. Call(c).kind = "managed" /\ plan' = plan
  BY DEF OpenManaged, RaceTcp, world
<1>3. ASSUME OpenManaged(c), mgr.state = "Connecting"
      PROVE  Inv'
  BY <1>2, <1>3, Goes DEF OpenManaged, Pcs, Opening
<1>4. ASSUME OpenManaged(c), mgr.state # "Connecting", mgr.session # 0,
             sess[mgr.session] # "closed"
      PROVE  Inv'
  <2>1. /\ pc[c] = "off" /\ pc' = [pc EXCEPT ![c] = "reuse"]
        /\ via' = [via EXCEPT ![c] = mgr.session] /\ srv' = [srv EXCEPT ![c] = "opened"]
        /\ mgr' = [mgr EXCEPT !.state = "Connecting"]
    BY Zenon, <1>4 DEF OpenManaged
  <2>2. Trusted(c)
    BY <1>2, <1>4, PlanFacts DEF Inv, Vetted, Trusted
  <2>3. Typed'
    BY <1>1, <1>2, <2>1 DEF Inv, Typed, Pcs, Srvs
  <2>4. \A d \in Live : /\ pc'[d] = IF d = c THEN "reuse" ELSE pc[d]
                        /\ via'[d] = IF d = c THEN mgr.session ELSE via[d]
                        /\ srv'[d] = IF d = c THEN "opened" ELSE srv[d]
    BY <1>1, <2>1 DEF Inv, Typed
  <2>5. mgr'.session = mgr.session
    BY <2>1 DEF Inv, Typed
  <2>6. Vetted'
    BY <1>2, <2>2, <2>4, <2>5, PlanKept DEF Inv, Vetted
  <2>7. NotWedged'
    BY Zenon, <1>2, <2>4, PlanKept DEF NotWedged
  <2> QED BY <2>3, <2>6, <2>7 DEF Inv
<1>5. ASSUME OpenManaged(c), mgr.state # "Connecting",
             mgr.session = 0 \/ sess[mgr.session] = "closed", has_endpoint(c)
      PROVE  Inv'
  <2>1. /\ pc[c] = "off" /\ DialTo(c) /\ srv' = srv
        /\ mgr' = [state |-> "Connecting", session |-> 0]
    BY <1>5 DEF OpenManaged
  <2>2. Typed'
    BY <1>1, <1>2, <2>1 DEF Inv, Typed, Pcs, DialTo
  <2>3. \A d \in Live : /\ pc'[d] = IF d = c THEN "dial" ELSE pc[d]
                        /\ via'[d] = IF d = c THEN c ELSE via[d]
    BY Zenon, <1>1, <2>1 DEF Inv, Typed, DialTo
  <2>4. Vetted'
    BY Zenon, <1>2, <2>1, <2>3, PlanKept DEF Inv, Vetted
  <2>5. NotWedged'
    BY Zenon, <1>2, <2>3, PlanKept DEF NotWedged
  <2> QED BY <2>2, <2>4, <2>5 DEF Inv
<1>6. ASSUME OpenManaged(c), mgr.state # "Connecting",
             mgr.session = 0 \/ sess[mgr.session] = "closed", ~has_endpoint(c)
      PROVE  Inv'
  <2>1. /\ pc' = [pc EXCEPT ![c] = "failed"] /\ via' = via /\ srv' = srv
        /\ mgr' = [state |-> "Disconnected", session |-> 0]
    BY <1>6 DEF OpenManaged
  <2>2. Typed'
    BY <1>1, <1>2, <2>1 DEF Inv, Typed, Pcs
  <2>3. \A d \in Live : pc'[d] = IF d = c THEN "failed" ELSE pc[d]
    BY Zenon, <1>1, <2>1 DEF Inv, Typed
  <2>4. Vetted'
    BY <1>2, <2>1, <2>3, PlanKept DEF Inv, Vetted
  <2>5. NotWedged'
    BY <2>1 DEF NotWedged
  <2> QED BY <2>2, <2>4, <2>5 DEF Inv
<1>7. CASE RaceTcp(c)
  <2>1. /\ pc' = [pc EXCEPT ![c] = "greet"] /\ via' = [via EXCEPT ![c] = 0]
        /\ srv' = [srv EXCEPT ![c] = "service"]
        /\ mgr' = [mgr EXCEPT !.state = "Connected"]
    BY <1>7 DEF RaceTcp, ServeTcp
  <2>2. Typed'
    BY <1>1, <1>2, <2>1 DEF Inv, Typed, Pcs, Srvs
  <2>3. \A d \in Live : /\ pc'[d] = IF d = c THEN "greet" ELSE pc[d]
                        /\ via'[d] = IF d = c THEN 0 ELSE via[d]
                        /\ srv'[d] = IF d = c THEN "service" ELSE srv[d]
    BY <1>1, <2>1 DEF Inv, Typed
  <2>4. mgr'.session = mgr.session /\ mgr'.state = "Connected"
    BY Zenon, <2>1 DEF Inv, Typed
  <2>5. Vetted'
    BY <1>2, <2>3, <2>4, PlanKept DEF Inv, Vetted
  <2>6. NotWedged'
    BY <2>4 DEF NotWedged
  <2> QED BY <2>2, <2>5, <2>6 DEF Inv
<1> QED BY <1>3, <1>4, <1>5, <1>6, <1>7

-----------------------------------------------------------------------------
(* Servers *)

LEMMA NestedDial ==
  ASSUME Inv, NEW c \in Live, NEW at \in {"dispatch", "gone"}, srv[c] = "control",
         srv' = [srv EXCEPT ![c] = at], StartNested(c), plan' = plan, mgr' = mgr
  PROVE  Inv'
<1>1. CASE Call(c).next = 0
  BY Zenon, <1>1, Serves DEF StartNested, Srvs
<1>2. CASE Call(c).next # 0
  <2>1. /\ Call(c).next \in Live /\ Call(Call(c).next).kind # "managed"
        /\ Live \subseteq Calls
    BY <1>2, PlanFacts DEF Inv
  <2>2. DialTo(Call(c).next)
    BY <1>2 DEF StartNested
  <2>3. srv' \in [Calls -> Srvs]
    BY Zenon DEF Inv, Typed, Srvs
  <2>4. \A x \in Live : \/ srv'[x] = srv[x]
                        \/ srv[x] = "control" /\ srv'[x] \in {"dispatch", "gone"}
    BY <2>1 DEF Inv, Typed
  <2> QED BY <2>1, <2>2, <2>3, <2>4, Dials
<1> QED BY Zenon, <1>1, <1>2

LEMMA ServerSteps ==
  ASSUME Inv, NEW c \in Live, Server(c)
  PROVE  Inv'
<1> USE DEF world, client
<1>1. ASSUME EndStream(c), plan' = plan, via' = via, mgr' = mgr
      PROVE  Inv'
  BY <1>1, Ends DEF EndStream
<1>2. CASE AuthenticateServer(c)
  <2>1. CASE validate_local(To(c)) /\ validate_client(To(c), c)
    <3>1. Certified(c)
      BY <2>1 DEF validate_client, endpoint_matches_binding, Certified
    <3> QED BY <1>2, <2>1, <3>1, Serves DEF AuthenticateServer, Srvs
  <2>2. CASE ~(validate_local(To(c)) /\ validate_client(To(c), c))
    BY Zenon, <1>1, <1>2, <2>2 DEF AuthenticateServer
  <2> QED BY <2>1, <2>2
<1>3. CASE read_service_prefix(c)
  <2>1. PICK at \in {"control", "service"} : srv' = [srv EXCEPT ![c] = at]
    BY Zenon, <1>3 DEF read_service_prefix
  <2> QED BY Zenon, <1>3, <2>1, Serves DEF read_service_prefix, Srvs
<1>4. CASE \/ AuthenticateTimesOut(c) \/ PrefixTimesOut(c) \/ FrameTimesOut(c)
           \/ DispatchSend(c) \/ DispatchEnds(c) \/ ServiceEnds(c)
  BY <1>1, <1>4 DEF AuthenticateTimesOut, PrefixTimesOut, FrameTimesOut, DispatchSend,
                    DispatchEnds, ServiceEnds
<1>5. CASE DispatchHello(c) \/ DispatchRequest(c)
  BY Zenon, <1>5, NestedDial DEF DispatchHello, DispatchRequest
<1> QED BY <1>2, <1>3, <1>4, <1>5 DEF Server

LEMMA SessionSteps ==
  ASSUME Inv, NEW k \in Live, Accept(k) \/ SessionLoop(k)
  PROVE  Inv'
<1> USE DEF world, client, server
<1>1. CASE Accept(k)
  BY <1>1, Still DEF Accept, AcceptSession, AcceptSessionFails
<1>2. ASSUME EndSession(k)
      PROVE  Inv'
  BY Zenon, <1>2, Ends DEF EndSession
<1>3. ASSUME NEW c \in Live, AcceptStream(k, c)
      PROVE  Inv'
  <2>1. PICK at \in {"auth", "gone"} : srv' = [srv EXCEPT ![c] = at]
    BY <1>3 DEF AcceptStream
  <2> QED BY Zenon, <1>3, <2>1, Serves DEF AcceptStream, Srvs
<1> QED BY Zenon, <1>1, <1>2, <1>3 DEF SessionLoop, AcceptStreamFails, AcceptStreamTimesOut,
                                SessionLoopBreaks, EnrollmentServed

-----------------------------------------------------------------------------
(* Runtimes *)

LEMMA StopStep ==
  ASSUME Inv, NEW t \in Sisters, Stop(t)
  PROVE  Inv'
<1>1. Live \subseteq Calls
  BY PlanFacts DEF Inv
<1>2. plan' = plan /\ via' = via /\ mgr' = mgr
  BY DEF Stop
<1>3. Typed'
  <2>1. pc' \in [Calls -> Pcs] /\ srv' \in [Calls -> Srvs]
    BY DEF Stop, Inv, Typed, Pcs, Srvs
  <2> QED BY <1>2, <2>1 DEF Inv, Typed
<1>4. \A x \in Live : /\ pc'[x] \in {pc[x], "failed"}
                      /\ srv'[x] \in {srv[x], "gone"}
                      /\ Call(x).kind = "managed" => pc'[x] = pc[x]
  BY <1>1 DEF Stop, Control
<1>5. Vetted'
  BY SMTT(30), <1>2, <1>4, PlanKept DEF Inv, Vetted
<1>6. NotWedged'
  BY Zenon, <1>2, <1>4, PlanKept DEF Inv, NotWedged
<1> QED BY <1>3, <1>5, <1>6 DEF Inv

-----------------------------------------------------------------------------
(* Every behaviour *)

LEMMA InitInv ==
  ASSUME Init
  PROVE  Inv
<1>1. Typed
  BY Zenon DEF Init, Typed, Pcs, Srvs, NewManager
<1>2. \A c \in Live : pc[c] = "off" /\ srv[c] = "none"
  BY Zenon, <1>1, PlanFacts DEF Init
<1> QED BY Zenon, <1>1, <1>2 DEF Init, Inv, Vetted, NotWedged, NewManager

LEMMA NextInv ==
  ASSUME Inv, [Next]_vars
  PROVE  Inv'
<1>1. CASE UNCHANGED vars
  BY <1>1, Still DEF vars, world, client, server
<1>2. ASSUME NEW c \in Live, Stall(c) \/ ConnectionCloses(c)
      PROVE  Inv'
  BY Zenon, <1>2, Still DEF Stall, ConnectionCloses, client, server
<1>3. ASSUME NEW t \in Sisters, Run(t) \/ Shutdown(t)
      PROVE  Inv'
  BY <1>3, Still DEF Run, Shutdown, client, server
<1>4. ASSUME NEW t \in Sisters, NEW s \in Sisters, Revoke(t, s)
      PROVE  Inv'
  BY <1>4, Still DEF Revoke, client, server
<1> QED BY Zenon, <1>1, <1>2, <1>3, <1>4, ClientSteps, ManagerSteps, ServerSteps, SessionSteps, StopStep
        DEF Next

LEMMA Always == Spec => []Inv
<1>1. Init => Inv
  BY InitInv
<1>2. Inv /\ [Next]_vars => Inv'
  BY NextInv
<1> QED BY <1>1, <1>2, PTL DEF Spec

\* The two ends of an authenticated stream are who they take each other for,
\* whichever calls race, whatever is reused, lost, revoked or shut down:
\* authenticate_client pins the Sister, authenticate_server the endpoint, and
\* ConnectionManager keeps only a session that passed.
THEOREM BothEndsAreKnown == Spec => []MutualIdentity
<1>1. Inv => MutualIdentity
  BY DEF Inv, Vetted, MutualIdentity, Trusted, Certified
<1> QED BY <1>1, Always, PTL

\* Every way out of ConnectionManager::open_stream, its failures and lost races
\* included, leaves Connecting, so that the Sister can be called again.
THEOREM ManagerIsNeverWedged == Spec => []NotWedged
<1>1. Inv => NotWedged
  BY DEF Inv
<1> QED BY <1>1, Always, PTL
=============================================================================
