----------------------------- MODULE MCStreams -----------------------------
(***************************************************************************)
(* The scenarios of Streams for TLC.  Each is a plan; what can differ from *)
(* the usual is varied one thing at a time.                                *)
(***************************************************************************)
EXTENDS Streams

Local == [advertise_host |-> FALSE, relay |-> "none", relay_only |-> FALSE]

Tcp == [kind |-> "tcp", live |-> TRUE, remote |-> FALSE]
Iroh == [Tcp EXCEPT !.kind = "iroh"]

Operator == [material |-> "all", role |-> "Operator", expires_at |-> None, revoked |-> FALSE]

Off ==
  [kind |-> "off", mode |-> "bidirectional", endpoints |-> <<Tcp>>, network |-> 1,
   certificate |-> FALSE, pinned |-> TRUE, trusted |-> TRUE, member |-> TRUE, row |-> 1,
   human |-> Operator, remote |-> 5, again |-> FALSE, process |-> 1, units |-> 1,
   options |-> Local]

Test(mode) == [Off EXCEPT !.kind = "test", !.mode = mode]
ConnectCmd == [Off EXCEPT !.kind = "connect"]
Tunnel == [Off EXCEPT !.kind = "tunnel"]
Again == [Tunnel EXCEPT !.again = TRUE, !.process = 2, !.units = 0]
Silent == [Off EXCEPT !.kind = "silent", !.process = 2]

Usual ==
  [backend |-> "tcp", sister |-> 1, probe_only |-> FALSE, authority |-> TRUE,
   allow_unauthenticated_operations |-> FALSE, cmds |-> <<Off, Off>>, env |-> {},
   paths |-> 0, path |-> 1, known |-> <<>>, member |-> TRUE, options |-> Local,
   introspect |-> FALSE, contracts |-> FALSE]

Run(c, d) == [Usual EXCEPT !.cmds = <<c, d>>]

\* Probes, each beside a silent connection, and with a Sister or client that stops.
Probes ==
  {Run(Test(m), Silent) : m \in {"connect", "bidirectional"}}
  \cup {[Run(Test(m), Off) EXCEPT !.env = {"stop", "kill"}] :
          m \in {"sustained", "stability", "large", "hold"}}
  \cup {[Run(Test("connect"), Test("connect")) EXCEPT !.introspect = TRUE],
        [Run(Test("bidirectional"), Off) EXCEPT !.introspect = TRUE, !.env = {"stop"}],
        Run(Test("bidirectional"), Test("sustained")),
        Run([Test("bidirectional") EXCEPT !.network = 2], Off),
        Run([Test("bidirectional") EXCEPT !.certificate = TRUE], Off)}

\* The same over TLS and Iroh.
Secure(c) == [c EXCEPT !.certificate = TRUE]

OtherBackends ==
  {[Run(c, Off) EXCEPT !.backend = "tls", !.env = {"stop"}] :
     c \in {Secure(ConnectCmd), [Secure(ConnectCmd) EXCEPT !.pinned = FALSE],
            [Secure(Test("bidirectional")) EXCEPT !.trusted = FALSE], Test("connect")}}
  \cup {[Run([c EXCEPT !.endpoints = <<Iroh>>], Off) EXCEPT !.backend = "iroh",
           !.env = {"kill"}] :
          c \in {ConnectCmd, [ConnectCmd EXCEPT !.row = 2], [ConnectCmd EXCEPT !.member = FALSE],
                 Secure(ConnectCmd), [Test("bidirectional") EXCEPT !.row = 2]}}
  \cup {[Run([Test(m) EXCEPT !.endpoints = <<Iroh>>], Off) EXCEPT !.backend = "iroh",
           !.paths = 3, !.path = p] : m \in {"connect", "large"}, p \in {None, 1}}

\* connect tries the endpoints in turn.
Rows ==
  {Run([ConnectCmd EXCEPT !.endpoints = es, !.options = o], Off) :
     es \in {<<>>, <<[Tcp EXCEPT !.kind = "bad"], Tcp>>, <<[Tcp EXCEPT !.live = FALSE], Tcp>>,
             <<[Tcp EXCEPT !.remote = TRUE]>>, <<[Iroh EXCEPT !.live = FALSE], Tcp>>},
     o \in {Local, [Local EXCEPT !.advertise_host = TRUE],
            [Local EXCEPT !.relay = "remote", !.relay_only = TRUE]}}

\* A tunnel: who asks, what the Sister is, and what comes twice.
Tunnels ==
  {[Run(Tunnel, Off) EXCEPT !.env = {"tick", "revoke", "kill"}],
   [Run([Tunnel EXCEPT !.kind = "ssh"], Off) EXCEPT !.env = {"stop"}],
   [Run(Tunnel, Off) EXCEPT !.sister = 2],
   [Run(Tunnel, Off) EXCEPT !.probe_only = TRUE],
   [Run(Tunnel, Off) EXCEPT !.authority = FALSE],
   Run([Tunnel EXCEPT !.remote = 6, !.units = 0], [Tunnel EXCEPT !.units = 0]),
   Run([Tunnel EXCEPT !.units = 0], [Again EXCEPT !.remote = 6]),
   [Run([Tunnel EXCEPT !.units = 0], Again) EXCEPT !.env = {"tick"}],
   [Run([Tunnel EXCEPT !.units = 0], Again) EXCEPT !.env = {"stop"}]}
  \cup {Run([Tunnel EXCEPT !.human = h], Off) :
          h \in {[Operator EXCEPT !.role = "Admin"], [Operator EXCEPT !.material = "none"],
                 [Operator EXCEPT !.material = "partial"], [Operator EXCEPT !.revoked = TRUE]}}
  \cup {[Run([Tunnel EXCEPT !.human.expires_at = 2], Off) EXCEPT !.env = {"tick"}],
        [Run([Tunnel EXCEPT !.human.material = "none"], Off)
           EXCEPT !.allow_unauthenticated_operations = TRUE]}

\* ps: a row of itself, a row twice, Iroh and TCP rows.
Row(id, iroh) == [id |-> id, iroh |-> iroh, addr |-> TRUE]

PsPlans ==
  {[Usual EXCEPT !.known = k, !.member = m, !.options = o] :
     k \in {<<Row(3, <<>>), Row(1, <<>>), Row(2, <<Iroh, Iroh>>)>>,
            <<Row(2, <<[Iroh EXCEPT !.remote = TRUE]>>), Row(2, <<>>),
              [Row(3, <<>>) EXCEPT !.addr = FALSE]>>},
     m \in BOOLEAN,
     o \in {Local, [Local EXCEPT !.relay_only = TRUE], [Local EXCEPT !.advertise_host = TRUE]}}

MCPlans ==
  Probes \cup OtherBackends \cup Rows \cup Tunnels \cup PsPlans
  \cup {[Usual EXCEPT !.contracts = TRUE]}

=============================================================================
