------------------------------- MODULE MCHost -------------------------------
(***************************************************************************)
(* Small instance of Host for TLC: two directories that may share a service *)
(* name and an API port, one or two terminals.                              *)
(***************************************************************************)
EXTENDS Host

Install(d, n, port, no_start) ==
    [op |-> "install", dir |-> d, name |-> n, port |-> port, no_start |-> no_start]
On(op, d, n) == [op |-> op, dir |-> d, name |-> n]
Run(d) == [op |-> "run", dir |-> d]
Sister(d, port) == [op |-> "sister", dir |-> d, port |-> port]
Interrupt(d) == [op |-> "interrupt", dir |-> d]

New == [A |-> 0, B |-> 0]

Plan(terminals, n) ==
    [manager : {"launchd", "systemd"}, shells : {terminals}, layout : {New}, faults : {n}]

\* Service commands on one name come from one terminal.  A manual Sister of B wants the port
\* of A's service; a service is restarted and removed under a running command; one is
\* installed stopped; one is started after its removal, which may have been killed half-way;
\* A's and B's services have one name; B's state is of a newer layout.
MCPlans ==
    Plan(<<<<Install("A", "one", 1, FALSE), Run("A")>>, <<Sister("B", 1), Interrupt("B")>>>>, 1)
    \cup
    Plan(<<<<Install("A", "one", 1, FALSE), On("restart", "A", "one"), On("uninstall", "A", "one")>>,
           <<Run("A")>>>>, 1)
    \cup
    Plan(<<<<Install("A", "one", 1, TRUE), On("start", "A", "one"), On("stop", "A", "one"),
             Run("A")>>>>, 2)
    \cup
    Plan(<<<<Install("A", "one", 1, FALSE), On("uninstall", "A", "one"), On("start", "A", "one"),
             On("uninstall", "A", "one")>>>>, 2)
    \cup
    Plan(<<<<Install("A", "one", 1, FALSE), Install("B", "one", 1, FALSE), On("restart", "B", "one"),
             Run("A")>>>>, 1)
    \cup
    {[manager |-> "systemd", shells |-> <<<<Install("B", "one", 1, FALSE)>>>>,
      layout |-> [A |-> 0, B |-> 2], faults |-> 1]}
=============================================================================
