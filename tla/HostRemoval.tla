---------------------------- MODULE HostRemoval -----------------------------
(***************************************************************************)
(* A service that was removed stays down, for every account in which the    *)
(* commands on one service come from one terminal.                          *)
(*                                                                          *)
(* The invariant follows the scripts of the commands: the one that removes  *)
(* a definition has waited for the process it stopped, or unloaded it, and  *)
(* nothing else can start the service meanwhile.                            *)
(***************************************************************************)
EXTENDS HostProofs

\* The manager has nothing to start for n, and what still runs of n was told to stop; or
\* nothing is left for it to wait for.
Down(n) == ~unit[n].active /\ \A p \in Slots : proc[p].pc # "off" /\ proc[p].service = n => proc[p].term
Gone(n) == Down(n) /\ unit[n].proc = 0

\* A command waits only after it stopped, and removes a definition only after that wait, or
\* after it unloaded it.
Follows(a, b) ==
    /\ b = "wait" => a = "stop"
    /\ b = "undefine" => a \in {"wait", "unload"}

Orderly(q) == \A i \in 1 .. Len(q) : i > 1 => Follows(q[i - 1], q[i])

Script(s) ==
    /\ Orderly(shell[s].steps)
    /\ Step(s) = "wait" => Down(Cmd(s).name)
    /\ Step(s) = "undefine" => Gone(Cmd(s).name)

\* The manager keeps track of every process of a service it has not told to stop.
Tended ==
    \A p \in Slots, n \in Names :
        proc[p].pc # "off" /\ proc[p].service = n => unit[n].proc = p \/ proc[p].term

Quiet ==
    /\ Tended
    /\ \A n \in Names : unit[n].definition = NoDefinition => Gone(n)
    /\ \A s \in Shells : Script(s)

\* Processes end, advance or are told to stop.
ProcsFade ==
    \A p \in Slots : proc'[p].pc # "off" => /\ proc[p].pc # "off"
                                            /\ proc'[p].service = proc[p].service
                                            /\ proc[p].term => proc'[p].term

UnitCalms(n) == (unit'[n].active => unit[n].active) /\ unit'[n].proc \in {unit[n].proc, 0}

Calm(n) == (Down(n) => Down(n)') /\ (Gone(n) => Gone(n)')

LEMMA StaysCalm ==
    ASSUME ProcsFade, NEW n \in Names, UnitCalms(n)
    PROVE  Calm(n)
BY SMTT(30) DEF ProcsFade, UnitCalms, Calm, Down, Gone

\* A step of a service command is one of a service command, which names a service.
LEMMA NamedSteps ==
    ASSUME Inv, NEW s \in Shells, Step(s) \in ServiceSteps
    PROVE  /\ shell[s].steps # <<>> /\ shell[s].done \in 1 .. Len(plan.shells[s])
           /\ Command(Cmd(s)) /\ Cmd(s).op \in ServiceOps /\ Cmd(s).name \in Names
<1>1. Typed /\ Scripted(s)
  BY DEF Inv, AllScripted
<1>2. shell[s].steps # <<>> /\ Step(s) = Head(shell[s].steps)
  BY Zenon DEF Step, ServiceSteps, LaterSteps
<1>3. Command(Cmd(s)) /\ shell[s].done \in 1 .. Len(plan.shells[s])
  BY Zenon, <1>1, <1>2, CmdIsCommand DEF Scripted
<1>4. Step(s) \in StepsOf(Cmd(s).op)
  BY <1>1, <1>2, TailTyped DEF Scripted
<1>5. Cmd(s).op \in ServiceOps
  BY SMTT(30), <1>3, <1>4 DEF Command, StepsOf, ServiceSteps, LaterSteps, ServiceOps
<1> QED BY <1>2, <1>3, <1>5 DEF Command

\* A terminal's script goes on, as long as what it has achieved lasts.
LEMMA ScriptKept ==
    ASSUME Inv, NEW t \in Shells, Script(t), NEW n, n = Cmd(t).name, plan' = plan,
           shell'[t].done = shell[t].done,
           \/ shell'[t].steps = <<>>
           \/ /\ shell'[t].steps = shell[t].steps
              /\ Step(t) \in {"wait", "undefine"} => Calm(n)
           \/ /\ shell[t].steps # <<>> /\ shell'[t].steps = Tail(shell[t].steps)
              /\ Step(t) = "stop" => Down(n)'
              /\ Step(t) \in {"wait", "unload"} => Gone(n)'
    PROVE  Script(t)'
<1>1. Cmd(t)' = Cmd(t)
  BY SMTT(30) DEF Cmd
<1>2. CASE shell'[t].steps = <<>>
  <2>1. Step(t)' = "none"
    BY SMTT(30), <1>2 DEF Step
  <2>2. Orderly(<<>>)
    BY SMTT(30) DEF Orderly
  <2> QED BY Zenon, <1>2, <2>1, <2>2 DEF Script
<1>3. CASE /\ shell'[t].steps = shell[t].steps
           /\ Step(t) \in {"wait", "undefine"} => Calm(n)
  <2>1. Step(t)' = Step(t)
    BY SMTT(30), <1>3 DEF Step
  <2>2. /\ Step(t)' = "wait" => Down(n)'
        /\ Step(t)' = "undefine" => Gone(n)'
    BY SMTT(30), <1>3, <2>1 DEF Script, Calm
  <2> QED BY Zenon, <1>1, <1>3, <2>2 DEF Script, Down, Gone
<1>4. CASE /\ shell[t].steps # <<>> /\ shell'[t].steps = Tail(shell[t].steps)
           /\ Step(t) = "stop" => Down(n)'
           /\ Step(t) \in {"wait", "unload"} => Gone(n)'
  <2>1. PICK q \in Seq(AllSteps) : q = shell[t].steps
    BY Zenon DEF Inv, Typed, ShellTyped, Shell
  <2>2. q # <<>> /\ Orderly(q) /\ Step(t) = q[1]
    BY SMTT(30), <1>4, <2>1 DEF Script, Step
  <2>3. Orderly(Tail(q))
    <3>1. Len(q) \in Nat /\ Len(Tail(q)) = Len(q) - 1
      BY SMTT(30), <2>2
    <3>2. \A i \in 1 .. Len(Tail(q)) : Tail(q)[i] = q[i + 1]
      BY SMTT(30), <2>2
    <3>3. ASSUME NEW i \in 1 .. Len(Tail(q)), i > 1 PROVE Follows(Tail(q)[i - 1], Tail(q)[i])
      <4>1. i - 1 \in 1 .. Len(Tail(q)) /\ i + 1 \in 1 .. Len(q) /\ i + 1 > 1 /\ (i + 1) - 1 = i
            /\ (i - 1) + 1 = i
        BY SMTT(30), <3>1, <3>3
      <4>2. Follows(q[i], q[i + 1])
        BY Zenon, <2>2, <4>1 DEF Orderly
      <4> QED BY Zenon, <3>2, <3>3, <4>1, <4>2
    <3> QED BY Zenon, <3>3 DEF Orderly
  <2>4. Step(t)' = IF Tail(q) = <<>> THEN "none" ELSE Head(Tail(q))
    BY Zenon, <1>4, <2>1 DEF Step
  <2>5. Tail(q) # <<>> => Follows(q[1], Head(Tail(q)))
    <3>1. Tail(q) # <<>> => Head(Tail(q)) = q[2] /\ 2 \in 1 .. Len(q) /\ 2 > 1 /\ 2 - 1 = 1
      BY SMTT(30), <2>2
    <3> QED BY Zenon, <2>2, <3>1 DEF Orderly
  <2>6. /\ Step(t)' = "wait" => Step(t) = "stop"
        /\ Step(t)' = "undefine" => Step(t) \in {"wait", "unload"}
    BY Zenon, <2>2, <2>4, <2>5 DEF Follows
  <2> QED BY Zenon, <1>1, <1>4, <2>1, <2>3, <2>6 DEF Script, Down, Gone
<1> QED BY Zenon, <1>2, <1>3, <1>4

\* A process that ends, or moves on, disturbs nothing.
LEMMA ExitQuiet ==
    ASSUME Inv, Quiet, NEW p \in Slots, NEW ok \in BOOLEAN, Exit(p, ok), plan' = plan
    PROVE  Quiet'
<1>1. proc \in [Slots -> Proc] /\ unit \in [Names -> Unit] /\ shell \in [Shells -> Shell]
  BY SMTT(30) DEF Inv, Typed, ProcTyped, UnitTyped, ShellTyped
<1>2. ProcsFade /\ \A q \in Slots : proc'[q].pc # "off" => q # p /\ proc'[q] = proc[q]
  BY Zenon, <1>1 DEF Exit, ProcsFade, Off
<1>3. ASSUME NEW n \in Names
      PROVE  /\ UnitCalms(n) /\ unit'[n].definition = unit[n].definition
             /\ unit[n].proc # p => unit'[n].proc = unit[n].proc
  <2>1. CASE unit[n].proc = p
    <3>1. PICK x \in Unit : x = unit[n]
      BY <1>1
    <3>2. PICK act : act = (x.active /\ (proc[p].term \/ (~ok /\ x.loaded.keepalive)))
      OBVIOUS
    <3>3. unit'[n] = [x EXCEPT !.proc = 0, !.active = act]
      BY Zenon, <2>1, <3>1, <3>2 DEF Exit
    <3>4. unit'[n].proc = 0 /\ unit'[n].definition = x.definition /\ unit'[n].active = act
      BY SMTT(30), <3>3 DEF Unit
    <3> QED BY Zenon, <2>1, <3>1, <3>2, <3>4 DEF UnitCalms
  <2>2. CASE unit[n].proc # p
    BY Zenon, <2>2 DEF Exit, UnitCalms
  <2> QED BY SMTT(30), <2>1, <2>2
<1>4. \A n \in Names : Calm(n)
  BY Zenon, <1>2, <1>3, StaysCalm
<1>5. Tended'
  BY SMTT(30), <1>2, <1>3 DEF Tended, Quiet
<1>6. ASSUME NEW s \in Shells PROVE Script(s)'
  <2>1. shell'[s].done = shell[s].done /\ shell'[s].steps = shell[s].steps
    BY Zenon, <1>1 DEF Exit, Shell
  <2>2. Step(s) \in {"wait", "undefine"} => Cmd(s).name \in Names
    BY NamedSteps DEF ServiceSteps, LaterSteps
  <2>3. PICK n : n = Cmd(s).name
    OBVIOUS
  <2> QED BY Zenon, <1>4, <2>1, <2>2, <2>3, ScriptKept DEF Quiet
<1> QED BY Zenon, <1>3, <1>4, <1>5, <1>6 DEF Quiet, Calm, Shells

\* Nothing of the manager's changes; processes fade; terminals go on, or give up, with steps
\* that neither stop nor wait nor unload.
LEMMA StaysQuiet ==
    ASSUME Inv, Quiet, plan' = plan, ProcsFade,
           \A n \in Names : /\ unit'[n].active = unit[n].active /\ unit'[n].proc = unit[n].proc
                            /\ unit'[n].definition = unit[n].definition,
           \A s \in Shells :
               /\ shell'[s].done = shell[s].done
               /\ \/ shell'[s].steps \in {<<>>, shell[s].steps}
                  \/ /\ shell[s].steps # <<>> /\ shell'[s].steps = Tail(shell[s].steps)
                     /\ Step(s) \notin {"stop", "wait", "unload"}
    PROVE  Quiet'
<1>1. \A n \in Names : Calm(n)
  BY SMTT(30), StaysCalm DEF UnitCalms
<1>2. Tended'
  BY ZenonT(40) DEF Tended, Quiet, ProcsFade
<1>3. ASSUME NEW s \in Shells PROVE Script(s)'
  <2>1. Step(s) \in {"wait", "undefine"} => Cmd(s).name \in Names
    BY NamedSteps DEF ServiceSteps, LaterSteps
  <2>2. PICK n : n = Cmd(s).name
    OBVIOUS
  <2>3. Step(s) \in {"wait", "undefine"} => Calm(n)
    BY <1>1, <2>1, <2>2
  <2> QED BY <2>2, <2>3, ScriptKept DEF Quiet
<1> QED BY Zenon, <1>1, <1>2, <1>3 DEF Quiet, Calm, Shells

\* A step of a Sister ends it or moves it on.
LEMMA SisterMoves ==
    ASSUME Inv, NEW p \in Slots, SisterStep(p)
    PROVE  /\ plan' = plan
           /\ \/ \E ok \in BOOLEAN : Exit(p, ok)
              \/ /\ unit' = unit /\ shell' = shell /\ proc[p].pc # "off"
                 /\ \E q \in Proc : /\ q.service = proc[p].service /\ q.term = proc[p].term
                                    /\ proc' = [proc EXCEPT ![p] = q]
<1> DEFINE Goal == /\ plan' = plan
                   /\ \/ \E ok \in BOOLEAN : Exit(p, ok)
                      \/ /\ unit' = unit /\ shell' = shell /\ proc[p].pc # "off"
                         /\ \E q \in Proc : /\ q.service = proc[p].service /\ q.term = proc[p].term
                                            /\ proc' = [proc EXCEPT ![p] = q]
<1>1. PICK x \in Proc : x = proc[p] /\ proc \in [Slots -> Proc]
  BY DEF Inv, Typed, ProcTyped
<1>2. ASSUME NEW pc \in Pcs, Becomes(p, pc), plan' = plan, unit' = unit, shell' = shell,
             proc[p].pc # "off"
      PROVE  Goal
  <2>1. [x EXCEPT !.pc = pc] \in Proc
    BY Zenon DEF Proc
  <2>2. proc' = [proc EXCEPT ![p] = [x EXCEPT !.pc = pc]]
    BY <1>1, <1>2 DEF Becomes
  <2>3. [x EXCEPT !.pc = pc].service = x.service /\ [x EXCEPT !.pc = pc].term = x.term
    BY Zenon DEF Proc
  <2> QED BY Zenon, <1>1, <1>2, <2>1, <2>2, <2>3
<1>3. ASSUME StartLoad(p) PROVE Goal
  <2>1. CASE proc[p].term \/ (proc[p].service # "" /\ dirs[proc[p].dir].service = NoService)
    <3>1. Exit(p, proc[p].term) /\ proc[p].term \in BOOLEAN
      BY Zenon, <1>1, <1>3, <2>1 DEF StartLoad, Proc
    <3> QED BY Zenon, <1>3, <3>1 DEF StartLoad
  <2>2. CASE ~(proc[p].term \/ (proc[p].service # "" /\ dirs[proc[p].dir].service = NoService))
    <3>1. proc[p].pc # "off" /\ dirs[proc[p].dir] \in Dir
      BY Zenon, <1>3 DEF StartLoad, Inv, Typed, ProcTyped, DirsTyped
    <3>2. PICK port \in Nat :
              port = IF proc[p].service = "" THEN proc[p].port ELSE dirs[proc[p].dir].service.port
      BY Zenon, <1>1, <3>1 DEF Proc, Dir
    <3>3. proc' = [proc EXCEPT ![p] = [x EXCEPT !.pc = "layout", !.port = port]]
      BY Zenon, <1>1, <1>3, <2>2, <3>2 DEF StartLoad
    <3>4. PICK q : q = [x EXCEPT !.pc = "layout", !.port = port]
      OBVIOUS
    <3>5. q \in Proc /\ q.service = x.service /\ q.term = x.term
      BY Zenon, <3>4 DEF Proc, Pcs
    <3>6. plan' = plan /\ unit' = unit /\ shell' = shell
      BY ZenonT(40), <1>3, <2>2 DEF StartLoad
    <3> QED BY Zenon, <1>1, <3>1, <3>3, <3>4, <3>5, <3>6
  <2> QED BY Zenon, <2>1, <2>2
<1>4. ASSUME StartToken(p) PROVE Goal
  <2>1. plan' = plan /\ proc[p].pc # "off"
    BY <1>4 DEF StartToken
  <2>2. ASSUME NEW k \in Nat, NEW pc \in Pcs, unit' = unit, shell' = shell,
               proc' = [proc EXCEPT ![p] = [proc[p] EXCEPT !.token = k, !.pc = pc]]
        PROVE  Goal
    <3>1. PICK q : q = [x EXCEPT !.token = k, !.pc = pc]
      OBVIOUS
    <3>2. q \in Proc /\ q.service = x.service /\ q.term = x.term
      BY Zenon, <3>1 DEF Proc
    <3> QED BY Zenon, <1>1, <2>1, <2>2, <3>1, <3>2
  <2>3. drawn + 1 \in Nat /\ dirs[proc[p].dir].token \in Nat
    <3>1. drawn \in Nat /\ dirs[proc[p].dir] \in Dir
      BY <2>1 DEF Inv, Typed, ProcTyped, DirsTyped
    <3>2. dirs[proc[p].dir].token \in Nat
      BY Zenon, <3>1 DEF Dir
    <3> QED BY <3>1, <3>2
  <2> QED BY Zenon, <1>4, <2>1, <2>2, <2>3 DEF StartToken, Pcs
<1>5. ASSUME StartLayout(p) \/ StartBind(p) \/ Drained(p) \/ RemoveMarker(p) PROVE Goal
  BY Zenon, <1>2, <1>5 DEF StartLayout, StartBind, Drained, RemoveMarker, Pcs
<1>6. ASSUME StartWriteToken(p) \/ StartMark(p) \/ Shutdown(p) PROVE Goal
  BY <1>2, <1>6 DEF StartWriteToken, StartMark, Shutdown, Pcs
<1> QED BY <1>3, <1>4, <1>5, <1>6 DEF SisterStep

LEMMA SisterQuiet ==
    ASSUME Inv, Quiet, NEW p \in Slots, SisterStep(p) \/ Crash(p)
    PROVE  Quiet'
<1>1. CASE SisterStep(p)
  <2>1. CASE \E ok \in BOOLEAN : Exit(p, ok)
    BY Zenon, <1>1, <2>1, SisterMoves, ExitQuiet
  <2>2. ASSUME unit' = unit, shell' = shell, proc[p].pc # "off", NEW q \in Proc,
               q.service = proc[p].service, q.term = proc[p].term, proc' = [proc EXCEPT ![p] = q]
        PROVE  Quiet'
    <3>1. ProcsFade
      BY <2>2 DEF ProcsFade, Inv, Typed, ProcTyped
    <3> QED BY Zenon, <1>1, <2>2, <3>1, SisterMoves, StaysQuiet
  <2> QED BY Zenon, <1>1, <2>1, <2>2, SisterMoves
<1>2. CASE Crash(p)
  BY Zenon, <1>2, ExitQuiet DEF Crash
<1> QED BY <1>1, <1>2

LEMMA SpawnQuiet ==
    ASSUME Inv, Quiet, NEW m \in Names, Spawn(m)
    PROVE  Quiet'
<1>1. PICK r \in FreshSlot : /\ proc' = [proc EXCEPT ![r] = Process(unit[m].loaded.dir, 0, m)]
                              /\ unit' = [unit EXCEPT ![m].proc = r]
  BY Zenon DEF Spawn
<1>2. /\ r \in Slots /\ proc \in [Slots -> Proc] /\ unit \in [Names -> Unit]
      /\ unit[m].active /\ unit[m].proc = 0 /\ plan' = plan /\ shell' = shell
  BY DEF FreshSlot, Fresh, Inv, Typed, ProcTyped, UnitTyped, Spawn
<1>3. /\ proc'[r].service = m
      /\ \A p \in Slots : p # r => proc'[p] = proc[p]
  BY <1>1, <1>2 DEF Process, Off
<1>4. /\ unit'[m].proc = r
      /\ \A n \in Names : /\ n # m => unit'[n] = unit[n]
                          /\ unit'[n].definition = unit[n].definition
                          /\ unit'[n].active = unit[n].active
  BY <1>1, <1>2 DEF Unit
<1>5. Tended'
  <2> SUFFICES ASSUME NEW p \in Slots, NEW n \in Names, proc'[p].pc # "off", proc'[p].service = n
               PROVE  unit'[n].proc = p \/ proc'[p].term
    BY DEF Tended
  <2>1. CASE p = r
    BY Zenon, <1>3, <1>4, <2>1
  <2>2. CASE p # r
    <3>1. unit[n].proc = p \/ proc[p].term
      BY Zenon, <1>3, <2>2 DEF Tended, Quiet
    <3>2. p # 0
      BY SlotsAssumption
    <3> QED BY Zenon, <1>2, <1>3, <1>4, <2>2, <3>1, <3>2
  <2> QED BY <2>1, <2>2
<1>6. ASSUME NEW n \in Names PROVE Calm(n)
  <2>1. CASE n = m
    BY Zenon, <1>2, <2>1 DEF Calm, Down, Gone
  <2>2. CASE n # m
    BY Zenon, <1>3, <1>4, <2>2 DEF Calm, Down, Gone
  <2> QED BY Zenon, <2>1, <2>2
<1>7. ASSUME NEW s \in Shells PROVE Script(s)'
  <2>1. PICK n : n = Cmd(s).name
    OBVIOUS
  <2>2. Step(s) \in {"wait", "undefine"} => n \in Names
    BY Zenon, <2>1, NamedSteps DEF ServiceSteps, LaterSteps
  <2>3. Script(s) /\ (Step(s) \in {"wait", "undefine"} => Calm(n))
    BY <1>6, <2>2 DEF Quiet
  <2>4. plan' = plan /\ shell'[s].done = shell[s].done /\ shell'[s].steps = shell[s].steps
    BY SMTT(30), <1>2
  <2> QED BY Zenon, <2>1, <2>3, <2>4, ScriptKept
<1> QED BY Zenon, <1>2, <1>4, <1>5, <1>6, <1>7 DEF Quiet, Calm, Shells

LEMMA RebootQuiet ==
    ASSUME Inv, Quiet, Reboot
    PROVE  Quiet'
<1>1. \A p \in Slots : proc'[p].pc = "off"
  BY Zenon DEF Reboot, Off
<1>2. ASSUME NEW n \in Names, unit'[n].definition = NoDefinition PROVE Gone(n)'
  <2>1. PICK x \in Unit : x = unit[n]
    BY DEF Inv, Typed, UnitTyped
  <2>2. PICK back, def : /\ back = (x.enabled /\ x.definition # NoDefinition)
                         /\ def = IF back \/ systemd THEN x.definition ELSE NoDefinition
    OBVIOUS
  <2>3. unit'[n] = [x EXCEPT !.proc = 0, !.active = back, !.asked = back, !.loaded = def]
    BY Zenon, <2>1, <2>2 DEF Reboot
  <2>4. unit'[n].proc = 0 /\ unit'[n].active = back /\ unit'[n].definition = x.definition
    BY SMTT(30), <2>3 DEF Unit
  <2> QED BY Zenon, <1>1, <1>2, <2>2, <2>4 DEF Gone, Down
<1>3. ASSUME NEW s \in Shells PROVE Script(s)'
  <2>1. shell'[s].steps = <<>> /\ shell'[s].done = shell[s].done
    BY Zenon DEF Reboot, Inv, Typed, ShellTyped, Shell
  <2>2. PICK n : n = Cmd(s).name
    OBVIOUS
  <2> QED BY ZenonT(40), <2>1, <2>2, ScriptKept DEF Quiet, Reboot
<1> QED BY ZenonT(40), <1>1, <1>2, <1>3 DEF Quiet, Tended, Shells, Reboot

\* Two terminals never have commands on one service under way.
LEMMA SoleTerminal ==
    ASSUME Inv, NEW s \in Shells, NEW t \in Shells, Step(s) \in ServiceSteps,
           Step(t) \in ServiceSteps, Cmd(s).name = Cmd(t).name
    PROVE  s = t
<1>1. /\ shell[s].done \in 1 .. Len(plan.shells[s]) /\ Cmd(s).op \in ServiceOps
      /\ shell[t].done \in 1 .. Len(plan.shells[t]) /\ Cmd(t).op \in ServiceOps
  BY Zenon, NamedSteps
<1>2. OneTerminal(plan.shells)
  BY SMTT(30), PlansAssumption DEF Inv, Typed
<1> QED BY Zenon, <1>1, <1>2 DEF OneTerminal, Cmd, Shells

\* A terminal takes a step of its command on service n that leaves the other services calm.
LEMMA StepQuiet ==
    ASSUME Inv, Quiet, NEW s \in Shells, NEW n \in Names, n = Cmd(s).name, plan' = plan,
           Step(s) \in ServiceSteps, shell' = [shell EXCEPT ![s] = Popped(s)],
           Tended', \A m \in Names : m # n => Calm(m),
           \A m \in Names : m # n => unit'[m].definition = unit[m].definition,
           unit'[n].definition = NoDefinition => Gone(n)',
           Step(s) = "stop" => Down(n)', Step(s) \in {"wait", "unload"} => Gone(n)'
    PROVE  Quiet'
<1>1. shell \in [Shells -> Shell] /\ shell[s] \in Shell /\ shell[s].steps # <<>>
  BY SMTT(30), NamedSteps DEF Inv, Typed, ShellTyped
<1>2. ASSUME NEW t \in Shells PROVE Script(t)'
  <2>1. CASE t = s
    <3>1. shell'[s].done = shell[s].done /\ shell'[s].steps = Tail(shell[s].steps)
      BY SMTT(30), <1>1 DEF Popped, Shell
    <3>2. Script(s)
      BY ZenonT(40) DEF Quiet
    <3> QED BY Zenon, <1>1, <2>1, <3>1, <3>2, ScriptKept
  <2>2. CASE t # s
    <3>1. shell'[t].done = shell[t].done /\ shell'[t].steps = shell[t].steps
      BY Zenon, <1>1, <2>2
    <3>2. PICK m : m = Cmd(t).name
      BY Zenon
    <3>3. Step(t) \in {"wait", "undefine"} => m \in Names /\ m # n
      BY Zenon, <2>2, <3>2, NamedSteps, SoleTerminal DEF ServiceSteps, LaterSteps
    <3>4. Script(t) /\ (Step(t) \in {"wait", "undefine"} => Calm(m))
      BY Zenon, <3>3 DEF Quiet
    <3> QED BY ZenonT(40), <3>1, <3>2, <3>4, ScriptKept
  <2> QED BY ZenonT(40), <2>1, <2>2
<1>3. ASSUME NEW m \in Names, unit'[m].definition = NoDefinition PROVE Gone(m)'
  <2>1. CASE m # n
    BY Zenon, <1>3, <2>1 DEF Quiet, Calm
  <2> QED BY Zenon, <1>3, <2>1
<1>4. Shells' = Shells
  BY Zenon DEF Shells
<1> QED BY Zenon, <1>2, <1>3, <1>4 DEF Quiet

\* One unit changes and its process may be told to stop.
LEMMA ManagerMoves ==
    ASSUME Inv, Quiet, NEW n \in Names, NEW u \in Unit, NEW k \in {0, unit[n].proc},
           unit' = [unit EXCEPT ![n] = u], proc' = Signalled(k),
           u.proc \in {unit[n].proc, 0}, u.proc = unit[n].proc \/ k = unit[n].proc
    PROVE  /\ ProcsFade /\ Tended' /\ unit'[n] = u
           /\ \A m \in Names : m # n => Calm(m) /\ unit'[m] = unit[m]
           /\ (u.active => unit[n].active) => Calm(n)
           /\ ~u.active /\ k = unit[n].proc => Down(n)'
<1>1. proc \in [Slots -> Proc] /\ unit \in [Names -> Unit] /\ k \in Slots \cup {0}
  BY Zenon DEF Inv, Typed, ProcTyped, UnitTyped, Unit
<1>2. \A p \in Slots : /\ proc'[p].pc = proc[p].pc /\ proc'[p].service = proc[p].service
                       /\ proc[p].term \/ p = k => proc'[p].term
  <2>1. CASE k = 0
    <3>1. \A p \in Slots : p # k
      BY <2>1, SlotsAssumption
    <3> QED BY Zenon, <2>1, <3>1 DEF Signalled
  <2>2. CASE k # 0
    <3>1. k \in Slots /\ proc' = [proc EXCEPT ![k].term = TRUE]
      BY <1>1, <2>2 DEF Signalled
    <3>2. PICK x \in Proc : x = proc[k]
      BY <1>1, <3>1
    <3>3. \A p \in Slots : proc'[p] = IF p = k THEN [x EXCEPT !.term = TRUE] ELSE proc[p]
      BY <1>1, <3>1, <3>2
    <3>4. PICK y : y = [x EXCEPT !.term = TRUE]
      BY Zenon
    <3>5. y.pc = x.pc /\ y.service = x.service /\ y.term
      BY Zenon, <3>4 DEF Proc
    <3> QED BY Zenon, <3>2, <3>3, <3>4, <3>5
  <2> QED BY <2>1, <2>2
<1>3. unit'[n] = u /\ \A m \in Names : m # n => unit'[m] = unit[m]
  BY <1>1
<1>4. ProcsFade
  BY SMTT(30), <1>2 DEF ProcsFade
<1>5. \A m \in Names : m # n => Calm(m)
  BY Zenon, <1>3, <1>4, StaysCalm DEF UnitCalms
<1>6. (u.active => unit[n].active) => Calm(n)
  BY Zenon, <1>3, <1>4, StaysCalm DEF UnitCalms
<1>7. ASSUME NEW p \in Slots, NEW m \in Names, proc'[p].pc # "off", proc'[p].service = m
      PROVE  unit'[m].proc = p \/ proc'[p].term
  <2>1. unit[m].proc = p \/ proc[p].term
    BY Zenon, <1>2, <1>7 DEF Quiet, Tended
  <2>2. CASE m # n
    BY Zenon, <1>2, <1>3, <2>1, <2>2
  <2>3. CASE m = n /\ u.proc = unit[n].proc
    BY Zenon, <1>2, <1>3, <2>1, <2>3
  <2>4. CASE m = n /\ k = unit[n].proc
    BY Zenon, <1>2, <1>3, <2>1, <2>4
  <2> QED BY Zenon, <2>2, <2>3, <2>4
<1>8. ~u.active /\ k = unit[n].proc => Down(n)'
  BY SMTT(30), <1>2, <1>3 DEF Down, Quiet, Tended
<1> QED BY Zenon, <1>3, <1>4, <1>5, <1>6, <1>7, <1>8 DEF Tended

LEMMA ManagerQuiet ==
    ASSUME Inv, Quiet, NEW s \in Shells, ManagerStep(s)
    PROVE  Quiet'
<1>1. PICK n : n = Cmd(s).name
  OBVIOUS
<1>2. /\ Step(s) \in ServiceSteps /\ n \in Names
      /\ plan' = plan /\ shell' = [shell EXCEPT ![s] = Popped(s)]
  <2>1. Step(s) \in ServiceSteps
    BY Zenon DEF ManagerStep, ServiceSteps, LaterSteps
  <2> QED BY ZenonT(40), <1>1, <2>1, NamedSteps DEF ManagerStep
<1>3. PICK x \in Unit : x = unit[n] /\ unit \in [Names -> Unit] /\ x.proc \in Slots \cup {0}
  BY Zenon, <1>2 DEF Inv, Typed, UnitTyped, Unit
<1>4. x.definition = NoDefinition => Gone(n) /\ ~x.active /\ x.proc = 0
  BY <1>2, <1>3 DEF Quiet, Gone, Down
<1>0. Signalled(0) = proc /\ 0 \in {0, unit[n].proc} /\ x.proc \in {0, unit[n].proc}
  BY SMTT(30), <1>3 DEF Signalled
\* A request that leaves the unit as it is, or only makes it calmer.
<1>5. ASSUME NEW u \in Unit, unit' = [unit EXCEPT ![n] = u], proc' = proc,
             u.proc = x.proc, u.definition = x.definition, u.active => x.active,
             Step(s) \notin {"stop", "wait", "unload"}
      PROVE  Quiet'
  <2>1. /\ Tended' /\ unit'[n] = u /\ Calm(n)
        /\ \A m \in Names : m # n => Calm(m) /\ unit'[m] = unit[m]
    BY Zenon, <1>0, <1>2, <1>3, <1>5, ManagerMoves
  <2>2. unit'[n].definition = NoDefinition => Gone(n)'
    BY <1>4, <1>5, <2>1 DEF Calm
  <2> QED BY Zenon, <1>1, <1>2, <1>5, <2>1, <2>2, StepQuiet
\* A request that may start a service whose definition is there.
<1>6. ASSUME NEW u \in Unit, unit' = [unit EXCEPT ![n] = u], proc' = proc,
             u.proc = x.proc, u.definition # NoDefinition,
             Step(s) \notin {"stop", "wait", "unload"}
      PROVE  Quiet'
  <2>1. /\ Tended' /\ unit'[n] = u
        /\ \A m \in Names : m # n => Calm(m) /\ unit'[m] = unit[m]
    BY Zenon, <1>0, <1>2, <1>3, <1>6, ManagerMoves
  <2> QED BY Zenon, <1>1, <1>2, <1>6, <2>1, StepQuiet
<1>7. CASE Step(s) = "start" /\ SystemdStart(n)
  <2>1. PICK current \in Definitions :
            current = IF x.active \/ x.proc # 0 THEN x.loaded ELSE x.definition
    BY DEF Unit
  <2>2. PICK known \in BOOLEAN : known = (current # NoDefinition)
    BY Zenon
  <2>3. PICK act \in BOOLEAN : act = (x.active \/ known)
    BY Zenon
  <2>4. PICK u : u = [x EXCEPT !.loaded = current, !.active = act, !.asked = known]
    OBVIOUS
  <2>5. u \in Unit /\ u.proc = x.proc /\ u.definition = x.definition /\ u.active = act
    BY Zenon, <2>4 DEF Unit
  <2>6. unit' = [unit EXCEPT ![n] = u] /\ proc' = proc
    BY Zenon, <1>3, <1>7, <2>1, <2>2, <2>3, <2>4 DEF SystemdStart, Manager
  <2>7. x.definition = NoDefinition => (act => x.active)
    BY Zenon, <1>4, <2>1, <2>2, <2>3
  <2> QED BY Zenon, <1>5, <1>6, <1>7, <2>5, <2>6, <2>7
<1>8. CASE Step(s) = "stop" /\ SystemdStop(n)
  <2>1. PICK u : u = [x EXCEPT !.active = FALSE, !.asked = FALSE]
    OBVIOUS
  <2>2. u \in Unit /\ u.proc = x.proc /\ u.definition = x.definition /\ ~u.active
    BY Zenon, <2>1 DEF Unit
  <2>3. unit' = [unit EXCEPT ![n] = u] /\ proc' = Signalled(x.proc)
    BY <1>3, <1>8, <2>1 DEF SystemdStop, Manager
  <2>4. /\ Tended' /\ unit'[n] = u /\ Calm(n) /\ Down(n)'
        /\ \A m \in Names : m # n => Calm(m) /\ unit'[m] = unit[m]
    BY ZenonT(40), <1>0, <1>2, <1>3, <2>2, <2>3, ManagerMoves
  <2>5. unit'[n].definition = NoDefinition => Gone(n)'
    BY <1>4, <2>2, <2>4 DEF Calm
  <2> QED BY Zenon, <1>1, <1>2, <1>8, <2>4, <2>5, StepQuiet
<1>9. CASE Step(s) = "wait" /\ unit[n].proc = 0 /\ UNCHANGED <<unit, proc>>
  <2>1. Gone(n)
    BY Zenon, <1>1, <1>9 DEF Quiet, Script, Gone
  <2>2. Tended' /\ Gone(n)' /\ \A m \in Names : Calm(m)
    BY SMTT(30), <1>9, <2>1 DEF Quiet, Tended, Gone, Down, Calm
  <2> QED BY ZenonT(40), <1>1, <1>2, <1>9, <2>2, StepQuiet
<1>10. ASSUME NEW on \in BOOLEAN, Step(s) \in {"enable", "disable"}, SystemdEnable(n, on)
       PROVE  Quiet'
  <2>1. PICK en \in BOOLEAN : en = IF unit[n].definition # NoDefinition THEN on ELSE x.enabled
    BY DEF Unit
  <2>2. PICK u : u = [x EXCEPT !.enabled = en]
    BY Zenon
  <2>3. u \in Unit /\ u.proc = x.proc /\ u.definition = x.definition /\ u.active = x.active
    BY ZenonT(40), <2>2 DEF Unit
  <2>4. unit' = [unit EXCEPT ![n] = u] /\ proc' = proc
    BY Zenon, <1>3, <1>10, <2>1, <2>2 DEF SystemdEnable, Manager
  <2> QED BY Zenon, <1>5, <1>10, <2>3, <2>4
<1>11. CASE Step(s) = "reload" /\ SystemdReload
  <2>1. ASSUME NEW m \in Names
        PROVE  /\ unit'[m].definition = unit[m].definition /\ unit'[m].proc = unit[m].proc
               /\ unit'[m].active = unit[m].active
    <3>1. PICK y \in Unit : y = unit[m]
      BY <1>3
    <3>2. unit'[m] = [y EXCEPT !.loaded = y.definition]
      BY Zenon, <1>11, <3>1 DEF SystemdReload
    <3> QED BY <3>1, <3>2 DEF Unit
  <2>2. Tended' /\ \A m \in Names : Calm(m)
    BY <1>11, <2>1 DEF Quiet, Tended, Gone, Down, Calm, SystemdReload
  <2>3. unit'[n].definition = NoDefinition => Gone(n)'
    BY Zenon, <1>2, <1>3, <1>4, <2>1, <2>2 DEF Calm
  <2> QED BY Zenon, <1>1, <1>2, <1>11, <2>1, <2>2, <2>3, StepQuiet
<1>12. CASE Step(s) = "load" /\ LaunchdLoad(n)
  <2>0. x.definition \in Definitions
    BY DEF Unit
  <2>1. PICK at \in BOOLEAN : x.definition # NoDefinition => at = x.definition.run_at_load
    <3>1. x.definition = NoDefinition \/ \E d \in Dirs : x.definition \in {launchd_plist(d), systemd_unit(d)}
      BY <2>0 DEF Definitions
    <3>2. \A d : launchd_plist(d).run_at_load = TRUE /\ systemd_unit(d).run_at_load = FALSE
      BY DEF launchd_plist, systemd_unit
    <3>3. x.definition # NoDefinition => x.definition.run_at_load \in BOOLEAN
      BY Zenon, <3>1, <3>2
    <3> QED BY Zenon, <3>3
  <2>2. PICK def \in Definitions : def = x.definition
    BY DEF Unit
  <2>3. PICK v, w : /\ v = [x EXCEPT !.enabled = TRUE]
                    /\ w = [x EXCEPT !.loaded = def, !.enabled = TRUE, !.active = at, !.asked = at]
    BY Zenon
  <2>4. /\ v \in Unit /\ v.proc = x.proc /\ v.definition = x.definition /\ v.active = x.active
        /\ w \in Unit /\ w.proc = x.proc /\ w.definition = x.definition
    BY Zenon, <2>3 DEF Unit
  <2>5. /\ proc' = proc
        /\ \/ unit' = [unit EXCEPT ![n] = x]
           \/ unit' = [unit EXCEPT ![n] = v]
           \/ unit' = [unit EXCEPT ![n] = w] /\ x.definition # NoDefinition
    BY ZenonT(40), <1>3, <1>12, <2>1, <2>2, <2>3 DEF LaunchdLoad, Manager
  <2> QED BY Zenon, <1>5, <1>6, <1>12, <2>4, <2>5
<1>13. CASE Step(s) = "unload" /\ LaunchdUnload(n)
  <2>1. CASE x.definition = NoDefinition
    <3>1. unit' = [unit EXCEPT ![n] = x] /\ proc' = proc
      BY Zenon, <1>3, <1>13, <2>1 DEF LaunchdUnload, Manager
    <3>2. /\ Tended' /\ unit'[n] = x /\ Calm(n)
          /\ \A m \in Names : m # n => Calm(m) /\ unit'[m] = unit[m]
      BY Zenon, <1>0, <1>2, <1>3, <3>1, ManagerMoves
    <3>3. Gone(n)'
      BY <1>4, <2>1, <3>2 DEF Calm
    <3> QED BY Zenon, <1>1, <1>2, <1>13, <3>2, <3>3, StepQuiet
  <2>2. CASE x.definition # NoDefinition
    <3>1. NoDefinition \in Definitions
      BY DEF Definitions
    <3>2. PICK u : u = [x EXCEPT !.loaded = NoDefinition, !.enabled = FALSE, !.active = FALSE,
                                 !.asked = FALSE, !.proc = 0]
      OBVIOUS
    <3>3. u \in Unit /\ u.proc = 0 /\ ~u.active /\ u.definition = x.definition
      BY Zenon, <3>1, <3>2 DEF Unit
    <3>4. unit' = [unit EXCEPT ![n] = u] /\ proc' = Signalled(x.proc)
      BY Zenon, <1>3, <1>13, <2>2, <3>2 DEF LaunchdUnload, Manager
    <3>5. /\ Tended' /\ unit'[n] = u /\ Down(n)'
          /\ \A m \in Names : m # n => Calm(m) /\ unit'[m] = unit[m]
      BY Zenon, <1>0, <1>2, <1>3, <3>3, <3>4, ManagerMoves
    <3>6. Gone(n)'
      BY Zenon, <3>3, <3>5 DEF Gone
    <3> QED BY Zenon, <1>1, <1>2, <1>13, <3>5, <3>6, StepQuiet
  <2> QED BY <2>1, <2>2
<1> QED BY Zenon, <1>1, <1>7, <1>8, <1>9, <1>10, <1>11, <1>12, <1>13 DEF ManagerStep

LEMMA FileQuiet ==
    ASSUME Inv, Quiet, NEW s \in Shells, FileStep(s)
    PROVE  Quiet'
<1>1. PICK n : n = Cmd(s).name
  OBVIOUS
<1>2. /\ Step(s) \in ServiceSteps /\ n \in Names
      /\ plan' = plan /\ proc' = proc /\ shell' = [shell EXCEPT ![s] = Popped(s)]
  <2>1. Step(s) \in ServiceSteps
    BY DEF FileStep, ServiceSteps, LaterSteps
  <2> QED BY Zenon, <1>1, <2>1, NamedSteps DEF FileStep
<1>3. PICK x \in Unit : x = unit[n] /\ unit \in [Names -> Unit]
  BY <1>2 DEF Inv, Typed, UnitTyped
<1>4. ASSUME NEW def \in Definitions, unit' = [unit EXCEPT ![n].definition = def],
             def # NoDefinition \/ Gone(n), Step(s) \in {"define", "undefine"}
      PROVE  Quiet'
  <2>1. /\ unit'[n].definition = def /\ unit'[n].proc = x.proc /\ unit'[n].active = x.active
        /\ \A m \in Names : m # n => unit'[m] = unit[m]
    <3>1. unit' = [unit EXCEPT ![n] = [x EXCEPT !.definition = def]]
      BY <1>3, <1>4
    <3>2. PICK u : u = [x EXCEPT !.definition = def]
      BY Zenon
    <3>3. u.definition = def /\ u.proc = x.proc /\ u.active = x.active
      BY Zenon, <3>2 DEF Unit
    <3> QED BY Zenon, <1>2, <1>3, <3>1, <3>2, <3>3
  <2>2. \A m \in Names : unit'[m].proc = unit[m].proc /\ unit'[m].active = unit[m].active
    BY <1>3, <2>1
  <2>3. Tended' /\ \A m \in Names : Calm(m)
    BY ZenonT(40), <1>2, <2>2 DEF Quiet, Tended, Gone, Down, Calm
  <2>4. unit'[n].definition = NoDefinition => Gone(n)'
    BY <1>2, <1>4, <2>1, <2>3 DEF Calm
  <2> QED BY Zenon, <1>1, <1>2, <1>4, <2>1, <2>3, <2>4, StepQuiet
<1>5. CASE Step(s) \in {"save", "forget"} /\ unit' = unit
  <2>1. Tended' /\ \A m \in Names : Calm(m)
    BY <1>2, <1>5 DEF Quiet, Tended, Gone, Down, Calm
  <2>2. unit'[n].definition = NoDefinition => Gone(n)'
    BY <1>2, <1>5, <2>1 DEF Quiet, Calm
  <2> QED BY Zenon, <1>1, <1>2, <1>5, <2>1, <2>2, StepQuiet
<1>6. CASE Step(s) = "undefine" /\ unit' = [unit EXCEPT ![n].definition = NoDefinition]
  <2>1. Gone(n)
    BY <1>1, <1>6 DEF Quiet, Script
  <2> QED BY Zenon, <1>4, <1>6, <2>1 DEF Definitions
<1>7. ASSUME NEW def, def \in {systemd_unit(Cmd(s).dir), launchd_plist(Cmd(s).dir)},
             Step(s) = "define", unit' = [unit EXCEPT ![n].definition = def]
      PROVE  Quiet'
  <2>1. Cmd(s).dir \in Dirs
    BY <1>2, NamedSteps DEF Command
  <2>2. def \in Definitions
    BY Zenon, <1>7, <2>1 DEF Definitions
  <2>3. def # NoDefinition
    <3>1. def.keepalive = TRUE
      BY SMTT(30), <1>7 DEF systemd_unit, launchd_plist
    <3>2. NoDefinition.keepalive = FALSE
      BY DEF NoDefinition
    <3> QED BY <3>1, <3>2
  <2> QED BY Zenon, <1>4, <1>7, <2>2, <2>3
<1> QED BY Zenon, <1>1, <1>5, <1>6, <1>7 DEF FileStep

LEMMA TerminalQuiet ==
    ASSUME Inv, Quiet, NEW s \in Shells, TerminalStep(s)
    PROVE  Quiet'
<1> DEFINE manual == {p \in Live : proc[p].dir = Cmd(s).dir /\ proc[p].service = ""}
<1>1. /\ plan' = plan /\ unit' = unit /\ shell' = [shell EXCEPT ![s] = Popped(s)]
      /\ Step(s) \in {"spawn", "signal"} /\ proc \in [Slots -> Proc]
  BY ZenonT(40) DEF TerminalStep, Inv, Typed, ProcTyped
<1>2. ASSUME NEW t \in Shells
      PROVE  /\ shell'[t].done = shell[t].done
             /\ \/ shell'[t].steps = shell[t].steps
                \/ /\ shell[t].steps # <<>> /\ shell'[t].steps = Tail(shell[t].steps)
                   /\ Step(t) \notin {"stop", "wait", "unload"}
  <2>1. shell \in [Shells -> Shell] /\ shell[s] \in Shell
    BY Zenon DEF Inv, Typed, ShellTyped
  <2>2. shell[s].steps # <<>>
    BY <1>1 DEF Step
  <2>3. Popped(s).done = shell[s].done /\ Popped(s).steps = Tail(shell[s].steps)
    BY SMTT(30), <2>1 DEF Popped, Shell
  <2> QED BY Zenon, <1>1, <2>1, <2>2, <2>3
\* Ctrl-C reaches processes that are no service's.
<1>3. CASE proc' = [p \in Slots |-> IF p \in manual THEN [proc[p] EXCEPT !.term = TRUE] ELSE proc[p]]
  <2>1. ASSUME NEW p \in Slots
        PROVE  /\ proc'[p].pc = proc[p].pc /\ proc'[p].service = proc[p].service
               /\ proc[p].term => proc'[p].term
    <3>1. PICK x \in Proc : x = proc[p]
      BY <1>1
    <3>2. PICK y : y = [x EXCEPT !.term = TRUE]
      BY Zenon
    <3>3. y.pc = x.pc /\ y.service = x.service /\ y.term
      BY Zenon, <3>2 DEF Proc
    <3>4. proc'[p] \in {x, y}
      BY Zenon, <1>3, <3>1, <3>2
    <3> QED BY Zenon, <3>1, <3>3, <3>4
  <2>2. ProcsFade
    BY <2>1 DEF ProcsFade
  <2> QED BY Zenon, <1>1, <1>2, <2>2, StaysQuiet
\* A manual Sister belongs to no service.
<1>4. ASSUME NEW r \in FreshSlot, NEW d, NEW port, proc' = [proc EXCEPT ![r] = Process(d, port, "")]
      PROVE  Quiet'
  <2>1. r \in Slots
    BY DEF FreshSlot, Fresh
  <2>2. /\ proc'[r].service = "" /\ "" \notin Names
        /\ \A p \in Slots : p # r => proc'[p] = proc[p]
    BY ZenonT(40), <1>1, <1>4, <2>1, NamesAssumption DEF Process, Off
  <2>3. Tended' /\ \A n \in Names : Calm(n)
    BY ZenonT(40), <1>1, <2>2 DEF Tended, Quiet, Calm, Down, Gone
  <2>4. ASSUME NEW t \in Shells PROVE Script(t)'
    <3>1. PICK n : n = Cmd(t).name
      OBVIOUS
    <3>2. Step(t) \in {"wait", "undefine"} => n \in Names
      BY SMTT(30), <3>1, NamedSteps DEF ServiceSteps, LaterSteps
    <3>3. Script(t) /\ (Step(t) \in {"wait", "undefine"} => Calm(n))
      BY SMTT(30), <2>3, <3>2 DEF Quiet
    <3> QED BY Zenon, <1>1, <1>2, <3>1, <3>3, ScriptKept
  <2> QED BY Zenon, <1>1, <2>3, <2>4 DEF Quiet, Calm, Shells
<1> QED BY Zenon, <1>3, <1>4 DEF TerminalStep

\* The steps of `run`, and the end of a command, ask nothing of the manager.
LEMMA ClientQuiet ==
    ASSUME Inv, Quiet, NEW s \in Shells, FindSister(s) \/ PostJob(s) \/ Answer(s) \/ Kill(s)
    PROVE  Quiet'
<1>1. PICK x \in Shell : x = shell[s] /\ shell \in [Shells -> Shell]
  BY DEF Inv, Typed, ShellTyped
<1>2. plan' = plan /\ unit' = unit /\ proc' = proc
  BY DEF FindSister, PostJob, Answer, Kill
<1>3. PICK e, q : e = Ended(s) /\ q = Popped(s)
  OBVIOUS
<1>4. e.done = x.done /\ e.steps = <<>> /\ q.done = x.done /\ q.steps = Tail(x.steps) /\ q \in
          [done : Nat, steps : {Tail(x.steps)}, port : Nat, token : Nat, at : Slots \cup {0}]
  BY Zenon, <1>1, <1>3 DEF Ended, Popped, Shell
<1>5. ASSUME NEW y, shell' = [shell EXCEPT ![s] = y], y.done = x.done,
             y.steps = <<>> \/ (/\ y.steps = Tail(x.steps)
                                /\ Step(s) \in {"addr", "token", "post", "answer"})
      PROVE  Quiet'
  <2>1. Step(s) \in {"addr", "token", "post", "answer"} => shell[s].steps # <<>>
    BY DEF Step
  <2>2. ProcsFade
    BY SMTT(30), <1>2 DEF ProcsFade
  <2> QED BY Zenon, <1>1, <1>2, <1>5, <2>1, <2>2, StaysQuiet
<1>6. CASE shell' = [shell EXCEPT ![s] = e]
  BY Zenon, <1>4, <1>5, <1>6
<1>7. ASSUME NEW v, Step(s) \in {"addr", "token", "post"},
             \/ shell' = [shell EXCEPT ![s] = [q EXCEPT !.port = v]]
             \/ shell' = [shell EXCEPT ![s] = [q EXCEPT !.token = v]]
             \/ shell' = [shell EXCEPT ![s] = [q EXCEPT !.at = v]]
      PROVE  Quiet'
  <2>1. PICK y : /\ y \in {[q EXCEPT !.port = v], [q EXCEPT !.token = v], [q EXCEPT !.at = v]}
                 /\ shell' = [shell EXCEPT ![s] = y]
    BY Zenon, <1>7
  <2>2. y.done = x.done /\ y.steps = Tail(x.steps)
    BY Zenon, <1>4, <2>1
  <2> QED BY Zenon, <1>5, <1>7, <2>1, <2>2
<1>8. CASE FindSister(s)
  BY <1>3, <1>6, <1>7, <1>8 DEF FindSister
<1>9. CASE PostJob(s)
  BY SMTT(30), <1>3, <1>6, <1>7, <1>9 DEF PostJob
<1>10. CASE Answer(s) \/ Kill(s)
  BY Zenon, <1>3, <1>6, <1>10 DEF Answer, Kill
<1> QED BY Zenon, <1>8, <1>9, <1>10

\* A fresh command starts with neither a wait nor a removal, and keeps their order.
LEMMA StepsAreOrderly ==
    ASSUME NEW c, Command(c)
    PROVE  /\ Orderly(Steps(c))
           /\ Steps(c) # <<>> => Head(Steps(c)) \notin {"wait", "undefine"}
<1>1. Steps(c) \in {<<"save", "define", "reload", "enable", "start">>,
                    <<"save", "define", "reload", "enable">>, <<"save", "define", "load">>,
                    <<"disable", "stop", "wait", "undefine", "reload", "forget">>,
                    <<"unload", "undefine", "forget">>,
                    <<"start">>, <<"load">>, <<"stop", "wait">>, <<"unload">>,
                    <<"stop", "wait", "start">>, <<"unload", "load">>,
                    <<"addr", "token", "post", "answer">>, <<"spawn">>, <<"signal">>}
  <2>1. CASE c.op = "install"
    BY <2>1 DEF Steps, InstallSteps
  <2>2. CASE c.op = "uninstall"
    BY <2>2 DEF Steps, UninstallSteps
  <2>3. CASE c.op \in {"start", "stop", "restart"}
    BY <2>3 DEF Steps, lifecycle
  <2>4. CASE c.op \in {"run", "sister", "interrupt"}
    BY SMTT(30), <2>4 DEF Steps, RunSteps
  <2> QED BY Zenon, <2>1, <2>2, <2>3, <2>4 DEF Command, ServiceOps
<1>2. ASSUME NEW q \in {<<"save", "define", "reload", "enable", "start">>,
                        <<"save", "define", "reload", "enable">>, <<"save", "define", "load">>}
      PROVE  Orderly(q) /\ Head(q) \notin {"wait", "undefine"}
  BY SMTT(30), <1>2 DEF Orderly, Follows
<1>3. ASSUME NEW q \in {<<"disable", "stop", "wait", "undefine", "reload", "forget">>,
                        <<"unload", "undefine", "forget">>}
      PROVE  Orderly(q) /\ Head(q) \notin {"wait", "undefine"}
  BY SMTT(30), <1>3 DEF Orderly, Follows
<1>4. ASSUME NEW q \in {<<"start">>, <<"load">>, <<"stop", "wait">>, <<"unload">>,
                        <<"stop", "wait", "start">>, <<"unload", "load">>}
      PROVE  Orderly(q) /\ Head(q) \notin {"wait", "undefine"}
  BY <1>4 DEF Orderly, Follows
<1>5. ASSUME NEW q \in {<<"addr", "token", "post", "answer">>, <<"spawn">>, <<"signal">>}
      PROVE  Orderly(q) /\ Head(q) \notin {"wait", "undefine"}
  BY SMTT(30), <1>5 DEF Orderly, Follows
<1> QED BY Zenon, <1>1, <1>2, <1>3, <1>4, <1>5

LEMMA NextCommandQuiet ==
    ASSUME Inv, Quiet, NEW s \in Shells, NextCommand(s)
    PROVE  Quiet'
<1>1. PICK x \in Shell : x = shell[s] /\ shell \in [Shells -> Shell]
  BY DEF Inv, Typed, ShellTyped
<1>2. plan' = plan /\ unit' = unit /\ proc' = proc
  BY DEF NextCommand
<1>3. PICK c : c = plan.shells[s][shell[s].done + 1]
  BY Zenon
<1>4. Command(c)
  <2>1. x.done \in Nat /\ x.done < Len(plan.shells[s])
    BY SMTT(30), <1>1 DEF NextCommand, Shell
  <2>2. Len(plan.shells[s]) \in Nat \/ Scripted(s)
    BY DEF Inv, AllScripted
  <2>3. x.done + 1 \in 1 .. Len(plan.shells[s])
    BY <2>1
  <2> QED BY Zenon, <1>1, <1>3, <2>3, PlansAssumption DEF Inv, Typed, Shells
<1>5. shell'[s].steps = Steps(c)
  <2>1. shell' = [shell EXCEPT ![s] = [[x EXCEPT !.done = @ + 1] EXCEPT !.steps = Steps(c)]]
    BY Zenon, <1>1, <1>3 DEF NextCommand
  <2> QED BY <1>1, <2>1 DEF Shell
<1>6. ASSUME NEW t \in Shells PROVE Script(t)'
  <2>1. CASE t = s
    <3>1. Step(s)' = IF Steps(c) = <<>> THEN "none" ELSE Head(Steps(c))
      BY Zenon, <1>5 DEF Step
    <3> QED BY Zenon, <1>4, <1>5, <2>1, <3>1, StepsAreOrderly DEF Script
  <2>2. CASE t # s
    <3>1. shell'[t] = shell[t]
      BY Zenon, <1>1, <2>2 DEF NextCommand
    <3>2. Cmd(t)' = Cmd(t) /\ Step(t)' = Step(t)
      BY <1>2, <3>1 DEF Cmd, Step
    <3>3. Script(t)
      BY Zenon DEF Quiet
    <3> QED BY Zenon, <1>2, <3>1, <3>2, <3>3 DEF Script, Down, Gone
  <2> QED BY Zenon, <2>1, <2>2
<1>7. Tended' /\ \A n \in Names : unit'[n].definition = NoDefinition => Gone(n)'
  BY <1>2 DEF Quiet, Tended, Gone, Down
<1> QED BY Zenon, <1>2, <1>6, <1>7 DEF Quiet, Shells

\* Once its definition is gone, a service stays down.
THEOREM RemovedStaysDown == Spec => []UninstalledStaysDown
<1>1. Init => Quiet
  <2> SUFFICES ASSUME Init PROVE Quiet
    OBVIOUS
  <2>1. \A p \in Slots : proc[p].pc = "off"
    BY Zenon DEF Init, Off
  <2>2. \A n \in Names : ~unit[n].active /\ unit[n].proc = 0
    BY Zenon DEF Init
  <2>3. \A s \in Shells : shell[s].steps = <<>> /\ Step(s) = "none"
    BY DEF Init, Step
  <2>4. Orderly(<<>>)
    BY DEF Orderly
  <2> QED BY Zenon, <2>1, <2>2, <2>3, <2>4 DEF Quiet, Tended, Gone, Down, Script
<1>2. Inv /\ Quiet /\ [Next]_vars => Quiet'
  <2> SUFFICES ASSUME Inv, Quiet, [Next]_vars PROVE Quiet'
    OBVIOUS
  <2>1. CASE UNCHANGED vars
    <3>1. plan' = plan /\ unit' = unit /\ proc' = proc /\ shell' = shell
      BY Zenon, <2>1 DEF vars
    <3>2. ProcsFade
      BY Zenon, <3>1 DEF ProcsFade
    <3> QED BY Zenon, <3>1, <3>2, StaysQuiet
  <2>2. ASSUME NEW s \in Shells, ShellStep(s) \/ Kill(s) PROVE Quiet'
    BY Zenon, <2>2, NextCommandQuiet, ManagerQuiet, FileQuiet, TerminalQuiet, ClientQuiet DEF ShellStep
  <2> QED BY Zenon, <2>1, <2>2, SisterQuiet, SpawnQuiet, RebootQuiet DEF Next
<1>3. Quiet => UninstalledStaysDown
  BY DEF Quiet, Gone, Down, UninstalledStaysDown, Live
<1> QED BY <1>1, <1>2, <1>3, InitInv, NextInv, PTL DEF Spec

=============================================================================
