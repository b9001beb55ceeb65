----------------------------- MODULE HostProofs -----------------------------
(***************************************************************************)
(* A command reaches, and a status report speaks of, only Sisters of its    *)
(* own config directory, for every account: any directories, service names, *)
(* terminals and commands.                                                  *)
(*                                                                          *)
(* The argument is about the control token.  Each token belongs to one      *)
(* directory for ever: the one whose Sister drew it.  Files, processes and  *)
(* commands get tokens only from each other, within one directory, so an    *)
(* answer that accepted the directory's token came from the directory.      *)
(***************************************************************************)
EXTENDS Host, TLAPS

Definitions == {launchd_plist(d) : d \in Dirs} \cup {systemd_unit(d) : d \in Dirs} \cup {NoDefinition}

Pcs == {"off", "load", "layout", "token", "write", "bind", "mark", "run", "drain", "remove"}

Dir ==
    [service : [name : Names \cup {""}, port : Nat, installed : BOOLEAN],
     marker : [instance : Slots \cup {0}, port : Nat],
     token : Nat, torn : BOOLEAN, layout : Nat]

Unit ==
    [definition : Definitions, loaded : Definitions,
     enabled : BOOLEAN, active : BOOLEAN, asked : BOOLEAN, proc : Slots \cup {0}]

Proc ==
    [dir : Dirs \cup {""}, port : Nat, service : Names \cup {""}, pc : Pcs, token : Nat,
     term : BOOLEAN]

LaterSteps ==
    {"define", "reload", "enable", "load", "start", "disable", "stop", "wait", "unload",
     "undefine", "forget"}

ServiceSteps == LaterSteps \cup {"save"}

AllSteps == ServiceSteps \cup {"spawn", "signal", "addr", "token", "post", "answer"}

Shell == [done : Nat, steps : Seq(AllSteps), port : Nat, token : Nat, at : Slots \cup {0}]

DirsTyped == dirs \in [Dirs -> Dir]
UnitTyped == unit \in [Names -> Unit]
ProcTyped ==
    /\ proc \in [Slots -> Proc]
    /\ \A p \in Slots : proc[p].pc # "off" => proc[p].dir \in Dirs
ShellTyped == shell \in [Shells -> Shell]

Typed == plan \in Plans /\ drawn \in Nat /\ DirsTyped /\ UnitTyped /\ ProcTyped /\ ShellTyped

\* The steps a command is made of.
RunTails ==
    {RunSteps, <<"token", "post", "answer">>, <<"post", "answer">>, <<"answer">>, <<>>}

StepsOf(op) ==
    CASE op = "run" -> {"addr", "token", "post", "answer"}
      [] op = "sister" -> {"spawn"}
      [] op = "interrupt" -> {"signal"}
      [] op = "install" -> ServiceSteps
      [] OTHER -> LaterSteps

\* A terminal runs what is left of its current command; one that waits for an answer is
\* connected to a live Sister of the command's directory.
Scripted(s) ==
    /\ shell[s].done <= Len(plan.shells[s])
    /\ shell[s].steps # <<>> => /\ shell[s].done \in 1 .. Len(plan.shells[s])
                                /\ shell[s].steps \in Seq(StepsOf(Cmd(s).op))
                                /\ Cmd(s).op = "run" => shell[s].steps \in RunTails
    /\ shell[s].at # 0 => /\ shell[s].steps = <<"answer">>
                          /\ proc[shell[s].at].pc # "off"
                          /\ proc[shell[s].at].dir = Cmd(s).dir

\* own[t] is the directory whose Sister drew token t.  The file of a directory, its Sisters
\* and a command about to send hold no other directory's token.
Owned(own) ==
    /\ own \in [1 .. drawn -> Dirs]
    /\ \A d \in Dirs : dirs[d].token # 0 => dirs[d].token \in 1 .. drawn /\ own[dirs[d].token] = d
    /\ \A p \in Slots : proc[p].token # 0 =>
                            proc[p].token \in 1 .. drawn /\ own[proc[p].token] = proc[p].dir
    /\ \A p \in Slots : proc[p].pc = "write" => proc[p].token # 0
    /\ \A s \in Shells : Step(s) = "post" =>
                            shell[s].token \in 1 .. drawn /\ own[shell[s].token] = Cmd(s).dir

AllScripted == \A s \in Shells : Scripted(s)

Inv == Typed /\ AllScripted /\ \E own : Owned(own)

-----------------------------------------------------------------------------
(* Lemmas                                                                  *)

\* What a terminal is typing is one of the plan's commands.
LEMMA CmdIsCommand ==
    ASSUME Typed, NEW s \in Shells, Scripted(s), shell[s].steps # <<>>
    PROVE  Command(Cmd(s))
BY PlansAssumption DEF Typed, Scripted, Cmd, Shells

\* The steps of a command are steps of its kind of command.
LEMMA StepsAreOfTheCommand ==
    ASSUME NEW c, Command(c)
    PROVE  /\ Steps(c) \in Seq(StepsOf(c.op))
           /\ Steps(c) \in Seq(AllSteps)
           /\ c.op = "run" => Steps(c) = RunSteps
<1>1. CASE c.op = "install"
  <2>1. Steps(c) = InstallSteps(c) /\ StepsOf(c.op) = ServiceSteps
    BY <1>1 DEF Steps, StepsOf
  <2>2. InstallSteps(c) \in Seq(ServiceSteps) /\ InstallSteps(c) \in Seq(AllSteps)
    <3>1. CASE systemd /\ ~c.no_start
      BY <3>1 DEF InstallSteps, LaterSteps, ServiceSteps, AllSteps
    <3>2. CASE systemd /\ c.no_start
      <4>1. InstallSteps(c) = <<"save", "define", "reload", "enable">>
        BY <3>2 DEF InstallSteps
      <4> QED BY <4>1 DEF LaterSteps, ServiceSteps, AllSteps
    <3>3. CASE ~systemd
      BY <3>3 DEF InstallSteps, LaterSteps, ServiceSteps, AllSteps
    <3> QED BY <3>1, <3>2, <3>3
  <2> QED BY <1>1, <2>1, <2>2
<1>2. CASE c.op = "uninstall"
  <2>1. Steps(c) = UninstallSteps /\ StepsOf(c.op) = LaterSteps
    BY <1>2 DEF Steps, StepsOf
  <2>2. UninstallSteps \in Seq(LaterSteps) /\ UninstallSteps \in Seq(AllSteps)
    <3>1. CASE systemd
      BY <3>1 DEF UninstallSteps, LaterSteps, ServiceSteps, AllSteps
    <3>2. CASE ~systemd
      BY <3>2 DEF UninstallSteps, LaterSteps, ServiceSteps, AllSteps
    <3> QED BY <3>1, <3>2
  <2> QED BY <1>2, <2>1, <2>2
<1>3. CASE c.op \in {"start", "stop", "restart"}
  <2>1. Steps(c) = lifecycle(c.op) /\ StepsOf(c.op) = LaterSteps
    BY <1>3 DEF Steps, StepsOf
  <2>2. lifecycle(c.op) \in Seq(LaterSteps) /\ lifecycle(c.op) \in Seq(AllSteps)
    <3>1. lifecycle(c.op) \in {<<"start">>, <<"load">>, <<"stop", "wait">>, <<"unload">>,
                               <<"stop", "wait", "start">>, <<"unload", "load">>}
      BY <1>3 DEF lifecycle
    <3>2. {<<"start">>, <<"load">>, <<"unload">>} \subseteq Seq(LaterSteps) \cap Seq(AllSteps)
      BY DEF LaterSteps, ServiceSteps, AllSteps
    <3>3. {<<"stop", "wait">>, <<"stop", "wait", "start">>, <<"unload", "load">>}
              \subseteq Seq(LaterSteps) \cap Seq(AllSteps)
      BY DEF LaterSteps, ServiceSteps, AllSteps
    <3> QED BY Zenon, <3>1, <3>2, <3>3
  <2> QED BY <1>3, <2>1, <2>2
<1>4. CASE c.op = "run"
  BY <1>4 DEF Steps, RunSteps, StepsOf, AllSteps
<1>5. CASE c.op = "sister"
  BY <1>5 DEF Steps, StepsOf, AllSteps
<1>6. CASE c.op = "interrupt"
  BY <1>6 DEF Steps, StepsOf, AllSteps
<1> QED BY <1>1, <1>2, <1>3, <1>4, <1>5, <1>6 DEF Command, ServiceOps

\* A directory changes in something other than its token.
LEMMA DirChanges ==
    ASSUME NEW d \in Dirs, NEW new \in Dir, new.token = dirs[d].token, dirs \in [Dirs -> Dir],
           dirs' = [dirs EXCEPT ![d] = new]
    PROVE  DirsTyped' /\ \A e \in Dirs : dirs'[e].token = dirs[e].token
BY DEF DirsTyped

\* A process that ends leaves the types, the terminals' scripts and the owners of tokens.
LEMMA ExitKeeps ==
    ASSUME Typed, AllScripted, NEW p \in Slots, NEW ok \in BOOLEAN, Exit(p, ok), plan' = plan
    PROVE  UnitTyped' /\ ProcTyped' /\ ShellTyped' /\ AllScripted'
<1>1. UnitTyped'
  <2>1. ASSUME NEW n \in Names PROVE unit'[n] \in Unit
    <3>1. unit[n] \in Unit
      BY SMTT(30) DEF Typed, UnitTyped
    <3>2. CASE unit[n].proc = p
      BY ZenonT(40), <3>1, <3>2 DEF Exit, Unit
    <3>3. CASE unit[n].proc # p
      BY ZenonT(40), <3>1, <3>3 DEF Exit
    <3> QED BY <3>2, <3>3
  <2> QED BY Zenon, <2>1 DEF Exit, UnitTyped
<1>2. ProcTyped'
  BY ZenonT(40) DEF Typed, ProcTyped, Proc, Pcs, Exit, Off
<1>3. ShellTyped' /\ Shells' = Shells
  BY ZenonT(40) DEF Typed, ShellTyped, Shell, Exit, Shells
<1>4. ASSUME NEW s \in Shells PROVE Scripted(s)'
  <2>1. Scripted(s) /\ shell[s] \in Shell
    BY DEF AllScripted, Typed, ShellTyped
  <2>2. shell'[s].steps = shell[s].steps /\ shell'[s].done = shell[s].done
    BY Zenon, <2>1 DEF Exit, Shell
  <2>3. Cmd(s)' = Cmd(s)
    BY SMTT(30), <2>2 DEF Cmd
  <2>4. shell'[s].at # 0 => shell'[s].at = shell[s].at /\ shell[s].at # p
    BY ZenonT(40), <2>1 DEF Exit, Shell
  <2>5. shell'[s].at # 0 => proc'[shell'[s].at] = proc[shell[s].at]
    BY Zenon, <2>1, <2>4 DEF Exit, Typed, ProcTyped, Shell
  <2> QED BY <2>1, <2>2, <2>3, <2>4, <2>5 DEF Scripted
<1> QED BY <1>1, <1>2, <1>3, <1>4 DEF AllScripted

LEMMA ExitKeepsOwners ==
    ASSUME Typed, NEW p \in Slots, NEW ok \in BOOLEAN, Exit(p, ok), plan' = plan, drawn' = drawn,
           NEW own, Owned(own), \A d \in Dirs : dirs'[d].token = dirs[d].token
    PROVE  Owned(own)'
<1>1. \A s \in Shells : /\ shell'[s].steps = shell[s].steps /\ shell'[s].done = shell[s].done
                         /\ shell'[s].token = shell[s].token
  BY ZenonT(40) DEF Typed, ShellTyped, Shell, Exit
<1>2. \A s \in Shells : Step(s)' = Step(s) /\ Cmd(s)' = Cmd(s)
  BY <1>1 DEF Step, Cmd
<1>3. \A q \in Slots : proc'[q] = IF q = p THEN Off ELSE proc[q]
  BY Zenon DEF Exit, Typed, ProcTyped
<1>4. Off.token = 0 /\ Off.pc = "off"
  BY DEF Off
<1> QED BY SMTT(30), <1>1, <1>2, <1>3, <1>4 DEF Owned, Shells

\* A process that goes on without touching the terminals.
LEMMA BecomesKeeps ==
    ASSUME Typed, AllScripted, NEW p \in Slots, NEW q \in Proc,
           q.pc # "off", q.dir = proc[p].dir, proc[p].pc # "off",
           proc' = [proc EXCEPT ![p] = q], plan' = plan, shell' = shell
    PROVE  ProcTyped' /\ ShellTyped' /\ AllScripted'
<1>1. ProcTyped'
  BY DEF Typed, ProcTyped
<1>2. ShellTyped' /\ Shells' = Shells
  BY DEF Typed, ShellTyped, Shells
<1>3. ASSUME NEW s \in Shells PROVE Scripted(s)'
  <2>1. Scripted(s) /\ shell[s].at \in Slots \cup {0}
    BY DEF AllScripted, Typed, ShellTyped, Shell
  <2>2. Cmd(s)' = Cmd(s)
    BY DEF Cmd
  <2> QED BY <2>1, <2>2 DEF Scripted, Typed, ProcTyped
<1> QED BY <1>1, <1>2, <1>3 DEF AllScripted

LEMMA BecomesKeepsOwners ==
    ASSUME Typed, NEW p \in Slots, NEW q \in Proc, q.dir = proc[p].dir,
           q.pc # "write" \/ q.token # 0,
           proc' = [proc EXCEPT ![p] = q], plan' = plan, shell' = shell, drawn' = drawn,
           NEW own, Owned(own), \A d \in Dirs : dirs'[d].token = dirs[d].token,
           q.token # 0 => q.token \in 1 .. drawn /\ own[q.token] = q.dir
    PROVE  Owned(own)'
<1>1. \A s \in Shells : Step(s)' = Step(s) /\ Cmd(s)' = Cmd(s)
  BY DEF Step, Cmd
<1>2. \A r \in Slots : proc'[r] = IF r = p THEN q ELSE proc[r]
  BY DEF Typed, ProcTyped
<1> QED BY <1>1, <1>2 DEF Owned, Shells

\* A process that ends keeps the invariant, if it leaves the tokens alone.
LEMMA Ends ==
    ASSUME Inv, NEW p \in Slots, NEW ok \in BOOLEAN, Exit(p, ok), plan' = plan, drawn' = drawn,
           DirsTyped', \A d \in Dirs : dirs'[d].token = dirs[d].token
    PROVE  Inv'
<1>1. PICK own : Owned(own)
  BY DEF Inv
<1>2. UnitTyped' /\ ProcTyped' /\ ShellTyped' /\ AllScripted'
  BY ExitKeeps DEF Inv
<1>3. Owned(own)'
  BY <1>1, ExitKeepsOwners DEF Inv
<1> QED BY <1>2, <1>3 DEF Inv, Typed

\* So does one that goes on with the token it has.
LEMMA MovesOn ==
    ASSUME Inv, NEW p \in Slots, NEW q \in Proc, q.dir = proc[p].dir, q.token = proc[p].token,
           q.pc # "off", q.pc # "write", proc[p].pc # "off", proc' = [proc EXCEPT ![p] = q],
           plan' = plan, shell' = shell, drawn' = drawn, unit' = unit,
           DirsTyped', \A d \in Dirs : dirs'[d].token = dirs[d].token
    PROVE  Inv'
<1>1. PICK own : Owned(own)
  BY DEF Inv
<1>2. ProcTyped' /\ ShellTyped' /\ AllScripted'
  BY Zenon, BecomesKeeps DEF Inv
<1>3. q.token # 0 => q.token \in 1 .. drawn /\ own[q.token] = q.dir
  BY <1>1 DEF Owned
<1>4. Owned(own)'
  BY Zenon, <1>1, <1>3, BecomesKeepsOwners DEF Inv
<1> QED BY <1>2, <1>4 DEF Inv, Typed, UnitTyped

\* In particular one that only moves to its next step.
LEMMA NextPc ==
    ASSUME Inv, NEW p \in Slots, NEW pc \in Pcs \ {"off", "write"}, Becomes(p, pc),
           proc[p].pc # "off", plan' = plan, shell' = shell, drawn' = drawn, unit' = unit,
           DirsTyped', \A d \in Dirs : dirs'[d].token = dirs[d].token
    PROVE  Inv'
<1> DEFINE q == [proc[p] EXCEPT !.pc = pc]
<1>1. proc \in [Slots -> Proc] /\ proc[p] \in Proc
  BY DEF Inv, Typed, ProcTyped
<1>2. q \in Proc /\ q.pc = pc /\ q.dir = proc[p].dir /\ q.token = proc[p].token
  BY Zenon, <1>1 DEF Proc
<1>3. proc' = [proc EXCEPT ![p] = q]
  BY <1>1 DEF Becomes
<1> HIDE DEF q
<1>4. q.pc # "off" /\ q.pc # "write"
  BY <1>2
<1> QED BY Zenon, <1>2, <1>3, <1>4, MovesOn

-----------------------------------------------------------------------------
(* The steps of a Sister                                                   *)

LEMMA StartLoadStep ==
    ASSUME Inv, NEW p \in Slots, StartLoad(p)
    PROVE  Inv'
<1> DEFINE d == proc[p].dir
           over == proc[p].term \/ (proc[p].service # "" /\ dirs[d].service = NoService)
           port == IF proc[p].service = "" THEN proc[p].port ELSE dirs[d].service.port
           q == [proc[p] EXCEPT !.pc = "layout", !.port = port]
<1>1. proc[p] \in Proc /\ proc[p].dir \in Dirs /\ dirs[d] \in Dir /\ proc[p].term \in BOOLEAN
  BY Zenon DEF Inv, Typed, ProcTyped, DirsTyped, StartLoad, Proc
<1>2. DirsTyped' /\ (\A e \in Dirs : dirs'[e].token = dirs[e].token) /\ plan' = plan /\ drawn' = drawn
  BY Zenon DEF StartLoad, Inv, Typed, DirsTyped
<1>3. CASE over
  <2>1. Exit(p, proc[p].term)
    BY Zenon, <1>3 DEF StartLoad
  <2> QED BY <1>1, <1>2, <2>1, Ends
<1>4. CASE ~over
  <2>1. q \in Proc /\ q.pc = "layout" /\ q.dir = proc[p].dir /\ q.token = proc[p].token
    BY Zenon, <1>1 DEF Proc, Pcs, Dir
  <2>2. proc' = [proc EXCEPT ![p] = q] /\ unit' = unit /\ shell' = shell /\ proc[p].pc # "off"
    BY Zenon, <1>4 DEF StartLoad, Exit
  <2> HIDE DEF q
  <2>3. q.pc # "off" /\ q.pc # "write"
    BY <2>1
  <2> QED BY Zenon, <1>2, <2>1, <2>2, <2>3, MovesOn
<1> QED BY Zenon, <1>3, <1>4

LEMMA StartLayoutStep ==
    ASSUME Inv, NEW p \in Slots, StartLayout(p)
    PROVE  Inv'
<1> DEFINE d == proc[p].dir
<1>1. d \in Dirs /\ dirs \in [Dirs -> Dir] /\ proc[p].pc # "off"
  BY DEF Inv, Typed, ProcTyped, DirsTyped, StartLayout
<1>2. CASE LayoutTooNew(d)
  <2>1. Exit(p, FALSE) /\ dirs' = dirs /\ plan' = plan /\ drawn' = drawn
    BY Zenon, <1>2 DEF StartLayout
  <2>2. DirsTyped' /\ \A e \in Dirs : dirs'[e].token = dirs[e].token
    BY <1>1, <2>1 DEF DirsTyped
  <2> QED BY Zenon, <2>1, <2>2, Ends
<1>3. CASE ~LayoutTooNew(d)
  <2>1. /\ Becomes(p, "token") /\ plan' = plan /\ drawn' = drawn /\ shell' = shell /\ unit' = unit
        /\ dirs' = [dirs EXCEPT ![d].layout = LayoutOpened(d)]
    BY <1>3 DEF StartLayout
  <2>2. LayoutOpened(d) \in Nat
    BY Zenon, <1>1 DEF LayoutOpened, Dir, CURRENT_STATE_LAYOUT_VERSION
  <2>3. DirsTyped' /\ \A e \in Dirs : dirs'[e].token = dirs[e].token
    <3> DEFINE new == [dirs[d] EXCEPT !.layout = LayoutOpened(d)]
    <3>1. new \in Dir /\ new.token = dirs[d].token
      BY ZenonT(40), <1>1, <2>2 DEF Dir
    <3>2. dirs' = [dirs EXCEPT ![d] = new]
      BY <2>1
    <3> QED BY Zenon, <1>1, <3>1, <3>2, DirChanges
  <2>4. "token" \in Pcs \ {"off", "write"}
    BY DEF Pcs
  <2> QED BY <1>1, <2>1, <2>3, <2>4, NextPc
<1> QED BY <1>2, <1>3

\* Drawing a token gives it an owner: the directory of the Sister that draws.
LEMMA StartTokenStep ==
    ASSUME Inv, NEW p \in Slots, StartToken(p)
    PROVE  Inv'
<1> DEFINE d == proc[p].dir
<1>1. PICK own : Owned(own)
  BY DEF Inv
<1>2. d \in Dirs /\ dirs \in [Dirs -> Dir] /\ proc \in [Slots -> Proc] /\ proc[p].pc # "off"
  BY DEF Inv, Typed, ProcTyped, DirsTyped, StartToken
<1>3. plan' = plan /\ dirs' = dirs
  BY DEF StartToken
<1>4. DirsTyped' /\ \A e \in Dirs : dirs'[e].token = dirs[e].token
  BY <1>2, <1>3 DEF DirsTyped
<1>5. CASE TokenUnreadable(d)
  <2>1. Exit(p, FALSE) /\ drawn' = drawn
    BY Zenon, <1>5 DEF StartToken, TokenMissing, TokenUnreadable
  <2> QED BY Zenon, <1>3, <1>4, <2>1, Ends
<1>6. CASE TokenMissing(d)
  <2> DEFINE q == [proc[p] EXCEPT !.token = drawn + 1, !.pc = "write"]
  <2>1. /\ proc' = [proc EXCEPT ![p] = q] /\ drawn' = drawn + 1
        /\ unit' = unit /\ shell' = shell
    BY Zenon, <1>6 DEF StartToken, TokenMissing, TokenUnreadable
  <2>2. drawn \in Nat /\ drawn + 1 \in Nat /\ "write" \in Pcs /\ proc[p] \in Proc
    <3>1. drawn \in Nat
      BY DEF Inv, Typed
    <3> QED BY <1>2, <3>1 DEF Pcs
  <2>3. q \in Proc /\ q.pc = "write" /\ q.token = drawn + 1 /\ q.dir = d
    <3>1. PICK t \in Nat : t = drawn + 1
      BY <2>2
    <3>2. q = [proc[p] EXCEPT !.token = t, !.pc = "write"]
      BY <3>1
    <3>3. q \in Proc /\ q.pc = "write" /\ q.token = t /\ q.dir = d
      BY Zenon, <2>2, <3>2 DEF Proc
    <3> QED BY <3>1, <3>3
  <2> HIDE DEF q
  <2>4. q.pc # "off"
    BY <2>3
  <2>5. ProcTyped' /\ ShellTyped' /\ AllScripted'
    BY Zenon, <1>2, <1>3, <2>1, <2>3, <2>4, BecomesKeeps DEF Inv
  <2>6. \A r \in Slots : proc'[r] = IF r = p THEN q ELSE proc[r]
    BY <1>2, <2>1
  <2>7. \A s \in Shells : Step(s)' = Step(s) /\ Cmd(s)' = Cmd(s) /\ shell'[s] = shell[s]
    BY <1>3, <2>1 DEF Step, Cmd
  <2>8. PICK new \in [1 .. drawn' -> Dirs] :
            /\ new[drawn + 1] = d
            /\ \A t \in 1 .. drawn : t \in 1 .. drawn' /\ new[t] = own[t]
    <3> DEFINE f == [t \in 1 .. drawn' |-> IF t = drawn + 1 THEN d ELSE own[t]]
    <3>1. /\ f \in [1 .. drawn' -> Dirs] /\ f[drawn + 1] = d
          /\ \A t \in 1 .. drawn : t \in 1 .. drawn' /\ f[t] = own[t]
      BY <1>1, <1>2, <2>1, <2>2 DEF Owned
    <3> QED BY Zenon, <3>1
  <2>9. Shells' = Shells /\ drawn + 1 \in 1 .. drawn' /\ drawn + 1 # 0
    BY <1>3, <2>1, <2>2 DEF Shells
  <2>10. Owned(new)'
    <3>1. \A e \in Dirs : dirs'[e].token # 0 =>
                             dirs'[e].token \in 1 .. drawn' /\ new[dirs'[e].token] = e
      BY <1>1, <1>3, <2>8 DEF Owned
    <3>2. ASSUME NEW r \in Slots
          PROVE  /\ proc'[r].token # 0 => /\ proc'[r].token \in 1 .. drawn'
                                          /\ new[proc'[r].token] = proc'[r].dir
                 /\ proc'[r].pc = "write" => proc'[r].token # 0
      <4>1. CASE r = p
        BY <2>3, <2>6, <2>8, <2>9, <4>1
      <4>2. CASE r # p
        BY <1>1, <2>6, <2>8, <4>2 DEF Owned
      <4> QED BY <4>1, <4>2
    <3>3. \A s \in Shells : Step(s)' = "post" => /\ shell'[s].token \in 1 .. drawn'
                                                 /\ new[shell'[s].token] = Cmd(s)'.dir
      BY <1>1, <2>7, <2>8 DEF Owned
    <3> QED BY Zenon, <2>8, <2>9, <3>1, <3>2, <3>3 DEF Owned
  <2> QED BY <1>3, <1>4, <2>1, <2>2, <2>5, <2>10 DEF Inv, Typed, UnitTyped
<1>7. CASE ~TokenUnreadable(d) /\ ~TokenMissing(d)
  <2> DEFINE q == [proc[p] EXCEPT !.token = dirs[d].token, !.pc = "bind"]
  <2>1. /\ proc' = [proc EXCEPT ![p] = q] /\ drawn' = drawn
        /\ unit' = unit /\ shell' = shell
    BY Zenon, <1>7 DEF StartToken
  <2>2. q \in Proc /\ q.pc = "bind" /\ q.token = dirs[d].token /\ q.dir = d
    BY ZenonT(40), <1>2 DEF Proc, Pcs, Dir
  <2> HIDE DEF q
  <2>3. q.pc # "off" /\ q.pc # "write"
    BY <2>2
  <2>4. ProcTyped' /\ ShellTyped' /\ AllScripted'
    BY Zenon, <1>2, <1>3, <2>1, <2>2, <2>3, BecomesKeeps DEF Inv
  <2>5. q.token # 0 => q.token \in 1 .. drawn /\ own[q.token] = q.dir
    BY <1>1, <1>2, <2>2 DEF Owned
  <2>6. Typed /\ q.dir = proc[p].dir /\ (q.pc # "write" \/ q.token # 0)
    BY <2>2, <2>3 DEF Inv
  <2>7. Owned(own)'
    BY Zenon, <1>1, <1>3, <1>4, <2>1, <2>2, <2>5, <2>6, BecomesKeepsOwners
  <2> QED BY <1>3, <1>4, <2>1, <2>4, <2>7 DEF Inv, Typed, UnitTyped
<1> QED BY <1>5, <1>6, <1>7

\* Writing the token puts it in the file of the directory it belongs to.
LEMMA StartWriteTokenStep ==
    ASSUME Inv, NEW p \in Slots, StartWriteToken(p)
    PROVE  Inv'
<1> DEFINE d == proc[p].dir
           new == [dirs[d] EXCEPT !.token = proc[p].token, !.torn = FALSE]
           q == [proc[p] EXCEPT !.pc = "bind"]
<1>1. PICK own : Owned(own)
  BY DEF Inv
<1>2. d \in Dirs /\ dirs \in [Dirs -> Dir] /\ proc \in [Slots -> Proc] /\ proc[p].pc # "off"
  BY DEF Inv, Typed, ProcTyped, DirsTyped, StartWriteToken
<1>3. /\ dirs' = [dirs EXCEPT ![d] = new] /\ proc' = [proc EXCEPT ![p] = q]
      /\ UNCHANGED <<plan, unit, shell, drawn>>
  <2>1. dirs' = [dirs EXCEPT ![d] = new]
    BY Zenon, <1>2 DEF StartWriteToken, Dir
  <2> QED BY Zenon, <1>2, <2>1 DEF StartWriteToken, Becomes
<1>4. new \in Dir /\ new.token = proc[p].token
  <2>1. proc[p].token \in Nat
    BY Zenon, <1>2 DEF Proc
  <2> QED BY Zenon, <1>2, <2>1 DEF Dir
<1>5. q \in Proc /\ q.pc = "bind" /\ q.token = proc[p].token /\ q.dir = d
  BY Zenon, <1>2 DEF Proc, Pcs
<1> HIDE DEF q, new
<1>6. q.pc # "off" /\ q.pc # "write"
  BY <1>5
<1>7. ProcTyped' /\ ShellTyped' /\ AllScripted'
  BY Zenon, <1>2, <1>3, <1>5, <1>6, BecomesKeeps DEF Inv
<1>8. DirsTyped' /\ \A e \in Dirs : dirs'[e].token = IF e = d THEN proc[p].token ELSE dirs[e].token
  BY <1>2, <1>3, <1>4 DEF DirsTyped
<1>9. \A r \in Slots : proc'[r] = IF r = p THEN q ELSE proc[r]
  BY <1>2, <1>3
<1>10. Shells' = Shells /\ \A s \in Shells : Step(s)' = Step(s) /\ Cmd(s)' = Cmd(s)
  BY Zenon, <1>3 DEF Step, Cmd, Shells
<1>11. Owned(own)'
  BY <1>1, <1>3, <1>5, <1>6, <1>8, <1>9, <1>10 DEF Owned
<1> QED BY <1>3, <1>7, <1>8, <1>11 DEF Inv, Typed, UnitTyped

LEMMA StartBindStep ==
    ASSUME Inv, NEW p \in Slots, StartBind(p)
    PROVE  Inv'
<1>1. DirsTyped' /\ (\A e \in Dirs : dirs'[e].token = dirs[e].token) /\ plan' = plan /\ drawn' = drawn
  BY DEF Inv, Typed, DirsTyped, StartBind
<1>2. CASE Listening(proc[p].port) # {}
  <2>1. Exit(p, FALSE)
    BY Zenon, <1>2 DEF StartBind
  <2> QED BY Zenon, <1>1, <2>1, Ends
<1>3. CASE Listening(proc[p].port) = {}
  <2>1. Becomes(p, "mark") /\ unit' = unit /\ shell' = shell
    BY Zenon, <1>3 DEF StartBind
  <2>2. "mark" \in Pcs \ {"off", "write"} /\ proc[p].pc # "off"
    BY Zenon DEF Pcs, StartBind
  <2> QED BY Zenon, <1>1, <2>1, <2>2, NextPc
<1> QED BY <1>2, <1>3

LEMMA StartMarkStep ==
    ASSUME Inv, NEW p \in Slots, StartMark(p)
    PROVE  Inv'
<1> DEFINE d == proc[p].dir
           new == [dirs[d] EXCEPT !.marker = RuntimeInstance(p, proc[p].port)]
<1>1. d \in Dirs /\ dirs \in [Dirs -> Dir] /\ proc[p] \in Proc /\ proc[p].pc # "off"
  BY DEF Inv, Typed, ProcTyped, DirsTyped, StartMark
<1>2. new \in Dir /\ new.token = dirs[d].token
  <2>1. PICK marker \in [instance : Slots \cup {0}, port : Nat] :
            marker = RuntimeInstance(p, proc[p].port)
    BY Zenon, <1>1 DEF Proc, RuntimeInstance
  <2>2. PICK old \in Dir : old = dirs[d]
    BY <1>1
  <2>3. new = [old EXCEPT !.marker = marker]
    BY <2>1, <2>2
  <2>4. new \in Dir /\ new.token = old.token
    BY Zenon, <2>3 DEF Dir
  <2> QED BY <2>2, <2>4
<1>3. /\ dirs' = [dirs EXCEPT ![d] = new] /\ Becomes(p, "run")
      /\ plan' = plan /\ drawn' = drawn /\ unit' = unit /\ shell' = shell
  BY DEF StartMark
<1> HIDE DEF new
<1>4. DirsTyped' /\ \A e \in Dirs : dirs'[e].token = dirs[e].token
  BY Zenon, <1>1, <1>2, <1>3, DirChanges
<1>5. "run" \in Pcs \ {"off", "write"}
  BY DEF Pcs
<1> QED BY <1>1, <1>3, <1>4, <1>5, NextPc

LEMMA ShutdownStep ==
    ASSUME Inv, NEW p \in Slots, Shutdown(p)
    PROVE  Inv'
<1>1. DirsTyped' /\ \A e \in Dirs : dirs'[e].token = dirs[e].token
  BY DEF Inv, Typed, DirsTyped, Shutdown
<1>2. "drain" \in Pcs \ {"off", "write"} /\ proc[p].pc # "off"
  BY DEF Pcs, Shutdown
<1>3. Becomes(p, "drain") /\ plan' = plan /\ drawn' = drawn /\ unit' = unit /\ shell' = shell
  BY DEF Shutdown
<1> QED BY <1>1, <1>2, <1>3, NextPc

LEMMA DrainedStep ==
    ASSUME Inv, NEW p \in Slots, Drained(p)
    PROVE  Inv'
<1>1. DirsTyped' /\ (\A e \in Dirs : dirs'[e].token = dirs[e].token) /\ plan' = plan /\ drawn' = drawn
  BY DEF Inv, Typed, DirsTyped, Drained
<1>2. CASE dirs[proc[p].dir].marker.instance = p
  <2>1. Becomes(p, "remove") /\ unit' = unit /\ shell' = shell
    BY <1>2 DEF Drained
  <2>2. "remove" \in Pcs \ {"off", "write"} /\ proc[p].pc # "off"
    BY DEF Pcs, Drained
  <2> QED BY <1>1, <2>1, <2>2, NextPc
<1>3. CASE dirs[proc[p].dir].marker.instance # p
  <2>1. Exit(p, TRUE)
    BY Zenon, <1>3 DEF Drained
  <2> QED BY Zenon, <1>1, <2>1, Ends
<1> QED BY <1>2, <1>3

LEMMA RemoveMarkerStep ==
    ASSUME Inv, NEW p \in Slots, RemoveMarker(p)
    PROVE  Inv'
<1> DEFINE d == proc[p].dir
           new == [dirs[d] EXCEPT !.marker = NoInstance]
<1>1. d \in Dirs /\ dirs \in [Dirs -> Dir]
  BY DEF Inv, Typed, ProcTyped, DirsTyped, RemoveMarker
<1>2. new \in Dir /\ new.token = dirs[d].token
  BY Zenon, <1>1 DEF Dir, NoInstance, RuntimeInstance
<1>3. dirs' = [dirs EXCEPT ![d] = new] /\ Exit(p, TRUE) /\ plan' = plan /\ drawn' = drawn
  BY Zenon DEF RemoveMarker
<1> HIDE DEF new
<1>4. DirsTyped' /\ \A e \in Dirs : dirs'[e].token = dirs[e].token
  BY Zenon, <1>1, <1>2, <1>3, DirChanges
<1> QED BY Zenon, <1>3, <1>4, Ends

LEMMA CrashStep ==
    ASSUME Inv, NEW p \in Slots, Crash(p)
    PROVE  Inv'
<1> DEFINE d == proc[p].dir
           new == [dirs[d] EXCEPT !.torn = TRUE]
<1>1. d \in Dirs /\ dirs \in [Dirs -> Dir]
  BY DEF Inv, Typed, ProcTyped, DirsTyped, Crash, Live
<1>2. new \in Dir /\ new.token = dirs[d].token
  BY Zenon, <1>1 DEF Dir
<1>3. Exit(p, FALSE) /\ plan' = plan /\ drawn' = drawn
  BY Zenon DEF Crash
<1>4. dirs' = dirs \/ dirs' = [dirs EXCEPT ![d] = new]
  BY DEF Crash
<1> HIDE DEF new
<1>5. DirsTyped' /\ \A e \in Dirs : dirs'[e].token = dirs[e].token
  <2>1. CASE dirs' = dirs
    BY <1>1, <2>1 DEF DirsTyped
  <2>2. CASE dirs' = [dirs EXCEPT ![d] = new]
    BY Zenon, <1>1, <1>2, <2>2, DirChanges
  <2> QED BY <1>4, <2>1, <2>2
<1> QED BY Zenon, <1>3, <1>5, Ends

LEMMA SisterStepKeeps ==
    ASSUME Inv, NEW p \in Slots, SisterStep(p)
    PROVE  Inv'
BY Zenon, StartLoadStep, StartLayoutStep, StartTokenStep, StartWriteTokenStep, StartBindStep,
   StartMarkStep, ShutdownStep, DrainedStep, RemoveMarkerStep DEF SisterStep

-----------------------------------------------------------------------------
(* The service manager and the terminals                                   *)

\* Whoever is running stays in its directory with its token; a new process has none.
ProcsKept ==
    \A r \in Slots :
        /\ proc[r].pc # "off" => proc'[r].pc # "off" /\ proc'[r].dir = proc[r].dir
        /\ \/ proc'[r].token = 0 /\ proc'[r].pc # "write"
           \/ /\ proc'[r].token = proc[r].token /\ proc'[r].dir = proc[r].dir
              /\ proc'[r].pc = proc[r].pc

TokensKept == \A d \in Dirs : dirs'[d].token = dirs[d].token

\* A command about to send holds a token of its directory.
Bearer(own, s) ==
    Step(s) = "post" => shell[s].token \in 1 .. drawn /\ own[shell[s].token] = Cmd(s).dir

LEMMA Frame ==
    ASSUME Inv, NEW own, Owned(own), plan' = plan, drawn' = drawn,
           DirsTyped', UnitTyped', ProcTyped', ShellTyped', TokensKept,
           \A r \in Slots : \/ proc'[r].token = 0 /\ proc'[r].pc # "write"
                            \/ /\ proc'[r].token = proc[r].token /\ proc'[r].dir = proc[r].dir
                               /\ proc'[r].pc = proc[r].pc,
           \A s \in Shells : Scripted(s)' /\ Bearer(own, s)'
    PROVE  Inv'
<1>1. Typed'
  BY DEF Inv, Typed
<1>2. Shells' = Shells
  BY DEF Shells
<1>3. AllScripted'
  BY Zenon, <1>2 DEF AllScripted
<1>4. Owned(own)'
  <2>1. \A d \in Dirs : dirs'[d].token # 0 => dirs'[d].token \in 1 .. drawn' /\ own[dirs'[d].token] = d
    BY Zenon DEF Owned, TokensKept
  <2>2. \A r \in Slots : proc'[r].token # 0 =>
                            proc'[r].token \in 1 .. drawn' /\ own[proc'[r].token] = proc'[r].dir
    BY DEF Owned
  <2>3. \A r \in Slots : proc'[r].pc = "write" => proc'[r].token # 0
    BY DEF Owned
  <2> QED BY Zenon, <1>2, <2>1, <2>2, <2>3 DEF Owned, Bearer
<1> QED BY <1>1, <1>3, <1>4 DEF Inv

\* A terminal that does nothing.
LEMMA Idle ==
    ASSUME Inv, NEW own, Owned(own), plan' = plan, drawn' = drawn, ProcsKept,
           NEW s \in Shells, shell'[s] = shell[s]
    PROVE  Scripted(s)' /\ Bearer(own, s)'
<1>1. Scripted(s) /\ shell[s].at \in Slots \cup {0}
  BY DEF Inv, AllScripted, Typed, ShellTyped, Shell
<1>2. Cmd(s)' = Cmd(s) /\ Step(s)' = Step(s)
  BY Zenon DEF Cmd, Step
<1>3. Scripted(s)'
  BY Zenon, <1>1, <1>2 DEF Scripted, ProcsKept
<1>4. Bearer(own, s)
  BY Zenon DEF Owned, Bearer
<1> QED BY Zenon, <1>2, <1>3, <1>4 DEF Bearer

\* One terminal moves.
LEMMA OneMoves ==
    ASSUME Inv, NEW own, Owned(own), plan' = plan, drawn' = drawn,
           DirsTyped', UnitTyped', ProcTyped', ProcsKept, TokensKept,
           NEW s \in Shells, NEW t \in Shell, shell' = [shell EXCEPT ![s] = t],
           Scripted(s)' /\ Bearer(own, s)'
    PROVE  Inv'
<1>1. shell \in [Shells -> Shell] /\ Shells' = Shells
  BY DEF Inv, Typed, ShellTyped, Shells
<1>2. ShellTyped'
  BY <1>1 DEF ShellTyped
<1>3. \A r \in Shells : Scripted(r)' /\ Bearer(own, r)'
  <2> SUFFICES ASSUME NEW r \in Shells, r # s PROVE Scripted(r)' /\ Bearer(own, r)'
    OBVIOUS
  <2>1. shell'[r] = shell[r]
    BY <1>1
  <2> QED BY <2>1, Idle
<1>4. \A r \in Slots : \/ proc'[r].token = 0 /\ proc'[r].pc # "write"
                       \/ /\ proc'[r].token = proc[r].token /\ proc'[r].dir = proc[r].dir
                          /\ proc'[r].pc = proc[r].pc
  BY DEF ProcsKept
<1> QED BY <1>2, <1>3, <1>4, Frame

LEMMA TailTyped ==
    ASSUME NEW S, NEW q \in Seq(S), q # <<>>
    PROVE  Tail(q) \in Seq(S) /\ Head(q) \in S
OBVIOUS

LEMMA RunTail ==
    ASSUME NEW q \in RunTails, q # <<>>
    PROVE  Tail(q) \in RunTails
<1>1. CASE q = RunSteps
  <2>1. Tail(q) = <<"token", "post", "answer">>
    BY <1>1 DEF RunSteps
  <2> QED BY <2>1 DEF RunTails
<1>2. CASE q = <<"token", "post", "answer">>
  <2>1. Tail(q) = <<"post", "answer">>
    BY <1>2
  <2> QED BY <2>1 DEF RunTails
<1>3. CASE q = <<"post", "answer">>
  <2>1. Tail(q) = <<"answer">>
    BY <1>3
  <2> QED BY <2>1 DEF RunTails
<1>4. CASE q = <<"answer">>
  <2>1. Tail(q) = <<>>
    BY <1>4
  <2> QED BY <2>1 DEF RunTails
<1> QED BY Zenon, <1>1, <1>2, <1>3, <1>4 DEF RunTails

\* What is left of a command after one more of its steps.
LEMMA PoppedScript ==
    ASSUME Inv, NEW s \in Shells, shell[s].steps # <<>>, plan' = plan,
           shell'[s].steps = Tail(shell[s].steps), shell'[s].done = shell[s].done,
           shell'[s].at = 0
    PROVE  /\ Cmd(s)' = Cmd(s)
           /\ Scripted(s)'
<1>1. Scripted(s) /\ shell[s] \in Shell
  BY DEF Inv, AllScripted, Typed, ShellTyped
<1>2. Cmd(s)' = Cmd(s)
  BY DEF Cmd
<1>3. Tail(shell[s].steps) \in Seq(StepsOf(Cmd(s).op))
  BY Zenon, <1>1, TailTyped DEF Scripted
<1>4. Cmd(s).op = "run" => Tail(shell[s].steps) \in RunTails
  BY Zenon, <1>1, RunTail DEF Scripted
<1>5. Scripted(s)'
  BY Zenon, <1>1, <1>2, <1>3, <1>4 DEF Scripted
<1> QED BY <1>2, <1>5

\* A command that is over.
LEMMA EndedScript ==
    ASSUME Inv, NEW own, NEW s \in Shells, plan' = plan,
           shell'[s].steps = <<>>, shell'[s].done = shell[s].done, shell'[s].at = 0
    PROVE  Scripted(s)' /\ Bearer(own, s)'
<1>1. Scripted(s)
  BY Zenon DEF Inv, AllScripted
<1>2. Scripted(s)'
  BY <1>1 DEF Scripted
<1>3. Step(s)' = "none"
  BY Zenon DEF Step
<1> QED BY <1>2, <1>3 DEF Bearer

\* A step that is not one of `run` leaves no answer awaited and comes before no post.
LEMMA NotARun ==
    ASSUME Inv, NEW s \in Shells, NEW own, plan' = plan,
           Step(s) \in ServiceSteps \cup {"spawn", "signal"}, shell' = [shell EXCEPT ![s] = Popped(s)]
    PROVE  /\ Command(Cmd(s)) /\ Cmd(s).op # "run"
           /\ Step(s) \in ServiceSteps => Cmd(s).op \in ServiceOps
           /\ Step(s) = "save" => Cmd(s).op = "install"
           /\ Step(s) = "spawn" => Cmd(s).op = "sister"
           /\ Popped(s) \in Shell
           /\ Scripted(s)' /\ Bearer(own, s)'
<1>1. Typed /\ Scripted(s) /\ shell[s] \in Shell /\ shell \in [Shells -> Shell]
  BY DEF Inv, AllScripted, Typed, ShellTyped
<1>2. shell[s].steps # <<>> /\ Step(s) = Head(shell[s].steps)
  BY DEF Step, LaterSteps, ServiceSteps
<1>3. Command(Cmd(s))
  BY Zenon, <1>1, <1>2, CmdIsCommand
<1>4. Step(s) \in StepsOf(Cmd(s).op)
  BY <1>1, <1>2, TailTyped DEF Scripted
<1>5. /\ Cmd(s).op # "run" /\ (Step(s) \in ServiceSteps => Cmd(s).op \in ServiceOps)
      /\ Step(s) = "save" => Cmd(s).op = "install"
      /\ Step(s) = "spawn" => Cmd(s).op = "sister"
  BY <1>3, <1>4 DEF StepsOf, LaterSteps, ServiceSteps, ServiceOps, Command
<1>6. Tail(shell[s].steps) \in Seq(AllSteps)
  <2>1. shell[s].steps \in Seq(AllSteps)
    BY Zenon, <1>1 DEF Shell
  <2> QED BY <1>2, <2>1, TailTyped
<1>7. shell[s].at = 0
  <2>1. Step(s) # "answer"
    BY DEF LaterSteps, ServiceSteps
  <2>2. Head(<<"answer">>) = "answer"
    OBVIOUS
  <2> QED BY <1>1, <1>2, <2>1, <2>2 DEF Scripted
<1>8. /\ Popped(s) \in Shell /\ Popped(s).steps = Tail(shell[s].steps)
      /\ Popped(s).done = shell[s].done /\ Popped(s).at = shell[s].at
  BY Zenon, <1>1, <1>6 DEF Popped, Shell
<1>9. shell'[s] = Popped(s)
  BY Zenon, <1>1
<1>10. Cmd(s)' = Cmd(s) /\ Scripted(s)'
  BY Zenon, <1>2, <1>7, <1>8, <1>9, PoppedScript
<1>11. Step(s)' # "post"
  <2>1. CASE Tail(shell[s].steps) = <<>>
    BY Zenon, <1>8, <1>9, <2>1 DEF Step
  <2>2. CASE Tail(shell[s].steps) # <<>>
    <3>1. Tail(shell[s].steps) \in Seq(StepsOf(Cmd(s).op))
      BY Zenon, <1>1, <1>2, TailTyped DEF Scripted
    <3>2. Head(Tail(shell[s].steps)) \in StepsOf(Cmd(s).op)
      BY Zenon, <2>2, <3>1, TailTyped
    <3>3. "post" \notin StepsOf(Cmd(s).op)
      BY Zenon, <1>3, <1>5 DEF StepsOf, LaterSteps, ServiceSteps, Command, ServiceOps
    <3> QED BY Zenon, <1>8, <1>9, <2>2, <3>2, <3>3 DEF Step
  <2> QED BY <2>1, <2>2
<1> QED BY Zenon, <1>3, <1>5, <1>8, <1>10, <1>11 DEF Bearer

\* What can happen to the processes from outside.
LEMMA SameProcs ==
    ASSUME Inv, proc' = proc
    PROVE  ProcTyped' /\ ProcsKept
BY DEF Inv, Typed, ProcTyped, ProcsKept

LEMMA NewProcess ==
    ASSUME Inv, NEW r \in FreshSlot, NEW d \in Dirs, NEW port \in Nat, NEW n \in Names \cup {""},
           proc' = [proc EXCEPT ![r] = Process(d, port, n)]
    PROVE  ProcTyped' /\ ProcsKept
<1>1. r \in Slots /\ proc[r].pc = "off" /\ proc \in [Slots -> Proc] /\ ProcTyped
  BY Zenon DEF FreshSlot, Fresh, Inv, Typed, ProcTyped
<1>2. PICK new : new = Process(d, port, n)
  BY Zenon
<1>3. new \in Proc /\ new.dir = d /\ new.pc = "load" /\ new.token = 0
  BY Zenon, <1>2 DEF Process, Off, Proc, Pcs
<1>4. \A q \in Slots : proc'[q] = IF q = r THEN new ELSE proc[q]
  BY Zenon, <1>1, <1>2
<1>5. proc' \in [Slots -> Proc]
  BY Zenon, <1>1, <1>2, <1>3
<1> QED BY Zenon, <1>1, <1>3, <1>4, <1>5 DEF ProcTyped, ProcsKept

LEMMA SignalledKeeps ==
    ASSUME Inv, NEW k \in Slots \cup {0}, proc' = Signalled(k)
    PROVE  ProcTyped' /\ ProcsKept
<1>1. CASE k = 0
  BY Zenon, <1>1, SameProcs DEF Signalled
<1>2. CASE k # 0
  <2>1. k \in Slots /\ proc \in [Slots -> Proc] /\ ProcTyped
    BY <1>2 DEF Inv, Typed, ProcTyped
  <2>2. PICK new : new = [proc[k] EXCEPT !.term = TRUE]
    BY Zenon
  <2>3. /\ new \in Proc /\ new.dir = proc[k].dir /\ new.pc = proc[k].pc
        /\ new.token = proc[k].token
    BY Zenon, <2>1, <2>2 DEF Proc
  <2>4. proc' = [proc EXCEPT ![k] = new]
    BY <1>2, <2>2 DEF Signalled
  <2>5. \A q \in Slots : proc'[q] = IF q = k THEN new ELSE proc[q]
    BY <2>1, <2>4
  <2>6. proc' \in [Slots -> Proc]
    BY Zenon, <2>1, <2>3, <2>4
  <2> QED BY <2>1, <2>3, <2>5, <2>6 DEF ProcTyped, ProcsKept
<1> QED BY <1>1, <1>2

LEMMA SpawnStep ==
    ASSUME Inv, NEW n \in Names, Spawn(n)
    PROVE  Inv'
<1>1. PICK own : Owned(own)
  BY DEF Inv
<1>2. PICK r \in FreshSlot : /\ proc' = [proc EXCEPT ![r] = Process(unit[n].loaded.dir, 0, n)]
                              /\ unit' = [unit EXCEPT ![n].proc = r]
  BY Zenon DEF Spawn
<1>3. /\ unit[n] \in Unit /\ unit \in [Names -> Unit] /\ r \in Slots
      /\ plan' = plan /\ drawn' = drawn /\ dirs' = dirs /\ shell' = shell
  BY DEF Inv, Typed, UnitTyped, Spawn, FreshSlot, Fresh
<1>4. unit[n].loaded.dir \in Dirs
  BY <1>3 DEF Spawn, Unit, Definitions, launchd_plist, systemd_unit
<1>5. ProcTyped' /\ ProcsKept
  BY Zenon, <1>2, <1>4, NewProcess
<1>6. UnitTyped'
  BY <1>2, <1>3 DEF UnitTyped, Unit
<1>7. DirsTyped' /\ TokensKept /\ ShellTyped'
  BY <1>3 DEF Inv, Typed, DirsTyped, TokensKept, ShellTyped, Shells
<1>8. \A s \in Shells : Scripted(s)' /\ Bearer(own, s)'
  BY Zenon, <1>1, <1>3, <1>5, Idle
<1>9. \A q \in Slots : \/ proc'[q].token = 0 /\ proc'[q].pc # "write"
                       \/ /\ proc'[q].token = proc[q].token /\ proc'[q].dir = proc[q].dir
                          /\ proc'[q].pc = proc[q].pc
  BY Zenon, <1>5 DEF ProcsKept
<1> QED BY Zenon, <1>1, <1>3, <1>5, <1>6, <1>7, <1>8, <1>9, Frame

LEMMA RebootStep ==
    ASSUME Inv, Reboot
    PROVE  Inv'
<1>1. PICK own : Owned(own)
  BY SMTT(30) DEF Inv
<1>2. plan' = plan /\ drawn' = drawn /\ dirs' = dirs
  BY ZenonT(40) DEF Reboot
<1>3. ProcTyped' /\ \A q \in Slots : proc'[q].token = 0 /\ proc'[q].pc # "write"
  BY ZenonT(40) DEF Reboot, Off, ProcTyped, Proc, Pcs
<1>4. UnitTyped'
  <2>1. ASSUME NEW n \in Names PROVE unit'[n] \in Unit
    <3>1. unit[n] \in Unit
      BY DEF Inv, Typed, UnitTyped
    <3>2. PICK back \in BOOLEAN : back = (unit[n].enabled /\ unit[n].definition # NoDefinition)
      BY Zenon
    <3>3. PICK def \in Definitions :
              def = IF back \/ systemd THEN unit[n].definition ELSE NoDefinition
      BY ZenonT(40), <3>1 DEF Unit, Definitions
    <3>4. unit'[n] = [unit[n] EXCEPT !.proc = 0, !.active = back, !.asked = back, !.loaded = def]
      BY Zenon, <3>2, <3>3 DEF Reboot
    <3> QED BY Zenon, <3>1, <3>4 DEF Unit
  <2> QED BY Zenon, <2>1 DEF Reboot, UnitTyped
<1>5. DirsTyped' /\ TokensKept
  BY <1>2 DEF Inv, Typed, DirsTyped, TokensKept
<1>6. \A s \in Shells : /\ shell'[s] \in Shell /\ shell'[s].steps = <<>> /\ shell'[s].at = 0
                         /\ shell'[s].done = shell[s].done
  <2> SUFFICES ASSUME NEW s \in Shells
               PROVE  /\ shell'[s] \in Shell /\ shell'[s].steps = <<>> /\ shell'[s].at = 0
                      /\ shell'[s].done = shell[s].done
    OBVIOUS
  <2>1. shell[s] \in Shell /\ <<>> \in Seq(AllSteps)
    BY DEF Inv, Typed, ShellTyped
  <2>2. shell'[s] = [shell[s] EXCEPT !.steps = <<>>, !.at = 0]
    BY Zenon DEF Reboot
  <2> QED BY ZenonT(40), <2>1, <2>2 DEF Shell
<1>7. ShellTyped'
  BY Zenon, <1>2, <1>6 DEF Reboot, ShellTyped, Shells
<1>8. \A s \in Shells : Scripted(s)' /\ Bearer(own, s)'
  BY <1>2, <1>6, EndedScript
<1> QED BY Zenon, <1>1, <1>2, <1>3, <1>4, <1>5, <1>7, <1>8, Frame

\* The requests to the manager change one unit within its type.
LEMMA ManagerKeeps ==
    ASSUME Inv, NEW n \in Names, NEW u \in Unit, unit' = [unit EXCEPT ![n] = u]
    PROVE  UnitTyped'
BY DEF Inv, Typed, UnitTyped

LEMMA SystemdRequests ==
    ASSUME Inv, NEW n \in Names, NEW on \in BOOLEAN,
           SystemdStart(n) \/ SystemdStop(n) \/ SystemdEnable(n, on) \/ SystemdReload
    PROVE  UnitTyped' /\ ProcTyped' /\ ProcsKept
<1>1. PICK x \in Unit : x = unit[n]
  BY DEF Inv, Typed, UnitTyped
<1>2. CASE SystemdStart(n)
  <2>0. PICK current \in Definitions :
            current = IF x.active \/ x.proc # 0 THEN x.loaded ELSE x.definition
    BY DEF Unit
  <2>1. PICK known \in BOOLEAN : known = (current # NoDefinition)
    BY Zenon
  <2>2. PICK act \in BOOLEAN : act = (x.active \/ known)
    BY Zenon
  <2>3. [x EXCEPT !.loaded = current, !.active = act, !.asked = known] \in Unit
    BY Zenon, <1>1, <2>0, <2>1, <2>2 DEF Unit
  <2>4. unit' = [unit EXCEPT ![n] = [x EXCEPT !.loaded = current, !.active = act, !.asked = known]]
    BY Zenon, <1>1, <1>2, <2>0, <2>1, <2>2 DEF SystemdStart, Manager
  <2>5. proc' = proc
    BY <1>2 DEF SystemdStart, Manager
  <2> QED BY Zenon, <2>3, <2>4, <2>5, ManagerKeeps, SameProcs
<1>3. CASE SystemdStop(n)
  <2>1. [x EXCEPT !.active = FALSE, !.asked = FALSE] \in Unit /\ x.proc \in Slots \cup {0}
    BY Zenon DEF Unit
  <2>2. /\ unit' = [unit EXCEPT ![n] = [x EXCEPT !.active = FALSE, !.asked = FALSE]]
        /\ proc' = Signalled(x.proc)
    BY <1>1, <1>3 DEF SystemdStop, Manager
  <2> QED BY Zenon, <2>1, <2>2, ManagerKeeps, SignalledKeeps
<1>4. CASE SystemdEnable(n, on)
  <2>1. PICK en \in BOOLEAN : en = IF unit[n].definition # NoDefinition THEN on ELSE x.enabled
    BY DEF Unit
  <2>2. [x EXCEPT !.enabled = en] \in Unit
    BY DEF Unit
  <2>3. unit' = [unit EXCEPT ![n] = [x EXCEPT !.enabled = en]] /\ proc' = proc
    BY <1>1, <1>4, <2>1 DEF SystemdEnable, Manager
  <2> QED BY Zenon, <2>2, <2>3, ManagerKeeps, SameProcs
<1>5. CASE SystemdReload
  <2>1. ASSUME NEW m \in Names PROVE unit'[m] \in Unit
    <3>1. PICK y \in Unit : y = unit[m]
      BY DEF Inv, Typed, UnitTyped
    <3>2. unit'[m] = [y EXCEPT !.loaded = y.definition]
      BY <1>5, <3>1 DEF SystemdReload
    <3> QED BY <3>2 DEF Unit
  <2> QED BY <1>5, <2>1, SameProcs DEF SystemdReload, UnitTyped
<1> QED BY <1>2, <1>3, <1>4, <1>5

LEMMA LaunchdRequests ==
    ASSUME Inv, NEW n \in Names, LaunchdLoad(n) \/ LaunchdUnload(n)
    PROVE  UnitTyped' /\ ProcTyped' /\ ProcsKept
<1>1. PICK x \in Unit : x = unit[n]
  BY DEF Inv, Typed, UnitTyped
<1>2. CASE LaunchdLoad(n)
  <2>1. proc' = proc
    BY <1>2 DEF LaunchdLoad, Manager
  <2>2. PICK u \in Unit : unit' = [unit EXCEPT ![n] = u]
    <3>1. CASE x.definition = NoDefinition
      BY Zenon, <1>1, <1>2, <3>1 DEF LaunchdLoad, Manager
    <3>2. CASE x.definition # NoDefinition /\ x.loaded # NoDefinition
      <4>1. [x EXCEPT !.enabled = TRUE] \in Unit
        BY Zenon DEF Unit
      <4> QED BY Zenon, <1>1, <1>2, <3>2, <4>1 DEF LaunchdLoad, Manager
    <3>3. CASE x.definition # NoDefinition /\ x.loaded = NoDefinition
      <4>1. PICK def \in Definitions : def = x.definition
        BY DEF Unit
      <4>2. PICK atload \in BOOLEAN : atload = def.run_at_load
        <5>1. ASSUME NEW d \in Dirs, def = launchd_plist(d) PROVE def.run_at_load \in BOOLEAN
          BY Zenon, <5>1 DEF launchd_plist
        <5>2. ASSUME NEW d \in Dirs, def = systemd_unit(d) PROVE def.run_at_load \in BOOLEAN
          BY <5>2 DEF systemd_unit
        <5>3. NoDefinition.run_at_load \in BOOLEAN
          BY DEF NoDefinition
        <5>4. \/ \E d \in Dirs : def = launchd_plist(d)
              \/ \E d \in Dirs : def = systemd_unit(d)
              \/ def = NoDefinition
          BY DEF Definitions
        <5>5. def.run_at_load \in BOOLEAN
          BY <5>1, <5>2, <5>3, <5>4
        <5> QED BY Zenon, <5>5
      <4>3. PICK u : u = [x EXCEPT !.loaded = def, !.enabled = TRUE, !.active = atload, !.asked = atload]
        OBVIOUS
      <4>4. u \in Unit
        BY Zenon, <4>3 DEF Unit
      <4>5. unit' = [unit EXCEPT ![n] = u]
        BY Zenon, <1>1, <1>2, <3>3, <4>1, <4>2, <4>3 DEF LaunchdLoad, Manager
      <4> QED BY Zenon, <4>4, <4>5
    <3> QED BY <3>1, <3>2, <3>3
  <2> QED BY Zenon, <2>1, <2>2, ManagerKeeps, SameProcs
<1>3. CASE LaunchdUnload(n)
  <2>1. CASE x.definition = NoDefinition
    <3>1. unit' = [unit EXCEPT ![n] = x] /\ proc' = proc
      BY <1>1, <1>3, <2>1 DEF LaunchdUnload, Manager
    <3> QED BY Zenon, <3>1, ManagerKeeps, SameProcs
  <2>2. CASE x.definition # NoDefinition
    <3>1. PICK u : u = [x EXCEPT !.loaded = NoDefinition, !.enabled = FALSE,
                                 !.active = FALSE, !.asked = FALSE, !.proc = 0]
      OBVIOUS
    <3>2. u \in Unit /\ x.proc \in Slots \cup {0}
      BY Zenon, <3>1 DEF Unit, Definitions
    <3>3. unit' = [unit EXCEPT ![n] = u] /\ proc' = Signalled(x.proc)
      BY <1>1, <1>3, <2>2, <3>1 DEF LaunchdUnload, Manager
    <3> QED BY Zenon, <3>2, <3>3, ManagerKeeps, SignalledKeeps
  <2> QED BY <2>1, <2>2
<1> QED BY <1>2, <1>3

LEMMA ManagerStepKeeps ==
    ASSUME Inv, NEW s \in Shells, ManagerStep(s)
    PROVE  Inv'
<1> DEFINE n == Cmd(s).name
<1>1. PICK own : Owned(own)
  BY Zenon DEF Inv
<1>2. /\ plan' = plan /\ drawn' = drawn /\ dirs' = dirs
      /\ shell' = [shell EXCEPT ![s] = Popped(s)]
  BY DEF ManagerStep
<1>3. Step(s) \in ServiceSteps
  BY Zenon DEF ManagerStep, LaterSteps, ServiceSteps
<1>4. /\ Command(Cmd(s)) /\ Cmd(s).op \in ServiceOps /\ Popped(s) \in Shell
      /\ Scripted(s)' /\ Bearer(own, s)'
  BY Zenon, <1>2, <1>3, NotARun
<1>5. n \in Names
  BY <1>4 DEF Command
<1>6. UnitTyped' /\ ProcTyped' /\ ProcsKept
  <2>1. CASE SystemdStart(n) \/ SystemdStop(n) \/ SystemdEnable(n, TRUE) \/ SystemdReload
    BY Zenon, <1>5, <2>1, SystemdRequests
  <2>2. CASE SystemdEnable(n, FALSE)
    BY Zenon, <1>5, <2>2, SystemdRequests
  <2>3. CASE LaunchdLoad(n) \/ LaunchdUnload(n)
    BY <1>5, <2>3, LaunchdRequests
  <2>4. CASE UNCHANGED <<unit, proc>>
    BY <2>4, SameProcs DEF Inv, Typed, UnitTyped
  <2> QED BY Zenon, <2>1, <2>2, <2>3, <2>4 DEF ManagerStep
<1>7. DirsTyped' /\ TokensKept
  BY <1>2 DEF Inv, Typed, DirsTyped, TokensKept
<1> QED BY Zenon, <1>1, <1>2, <1>4, <1>6, <1>7, OneMoves

LEMMA FileStepKeeps ==
    ASSUME Inv, NEW s \in Shells, FileStep(s)
    PROVE  Inv'
<1> DEFINE c == Cmd(s)
           definition == IF systemd THEN systemd_unit(c.dir) ELSE launchd_plist(c.dir)
<1>1. PICK own : Owned(own)
  BY DEF Inv
<1>2. /\ plan' = plan /\ drawn' = drawn /\ proc' = proc
      /\ shell' = [shell EXCEPT ![s] = Popped(s)]
  BY Zenon DEF FileStep
<1>3. Step(s) \in ServiceSteps
  BY DEF FileStep, LaterSteps, ServiceSteps
<1>4. /\ Command(c) /\ c.op \in ServiceOps /\ Popped(s) \in Shell
      /\ Scripted(s)' /\ Bearer(own, s)'
  BY Zenon, <1>2, <1>3, NotARun
<1>5. c.name \in Names /\ c.dir \in Dirs
  BY <1>4 DEF Command
<1>6. ProcTyped' /\ ProcsKept
  BY <1>2, SameProcs
<1>7. PICK x \in Dir : x = dirs[c.dir] /\ dirs \in [Dirs -> Dir]
  BY <1>5 DEF Inv, Typed, DirsTyped
<1>8. PICK u \in Unit : u = unit[c.name]
  BY Zenon, <1>5 DEF Inv, Typed, UnitTyped
<1>9. DirsTyped' /\ UnitTyped' /\ TokensKept
  <2>1. CASE Step(s) = "save"
    <3>1. c.port \in Nat
      BY Zenon, <1>2, <1>3, <1>4, <2>1, NotARun DEF Command
    <3>2. PICK config \in [name : Names \cup {""}, port : Nat, installed : BOOLEAN] :
              config = ServiceConfig(c.name, c.port, TRUE)
      BY Zenon, <1>5, <3>1 DEF ServiceConfig
    <3>3. PICK y : y = [x EXCEPT !.service = config]
      BY Zenon
    <3>4. y \in Dir /\ y.token = x.token
      BY Zenon, <3>3 DEF Dir
    <3>5. dirs' = [dirs EXCEPT ![c.dir] = y] /\ unit' = unit
      BY Zenon, <1>7, <2>1, <3>2, <3>3 DEF FileStep
    <3> QED BY Zenon, <1>5, <1>7, <3>4, <3>5, DirChanges DEF TokensKept, Inv, Typed, UnitTyped
  <2>2. CASE Step(s) \in {"define", "undefine"}
    <3>1. PICK def \in Definitions : unit' = [unit EXCEPT ![c.name].definition = def] /\ dirs' = dirs
      <4>1. definition \in Definitions /\ NoDefinition \in Definitions
        BY <1>5 DEF Definitions
      <4>2. CASE Step(s) = "define"
        <5>1. unit' = [unit EXCEPT ![c.name].definition = definition] /\ dirs' = dirs
          BY <4>2 DEF FileStep
        <5> QED BY Zenon, <4>1, <5>1
      <4>3. CASE Step(s) = "undefine"
        <5>1. unit' = [unit EXCEPT ![c.name].definition = NoDefinition] /\ dirs' = dirs
          BY <4>3 DEF FileStep
        <5> QED BY Zenon, <4>1, <5>1
      <4> QED BY Zenon, <2>2, <4>2, <4>3
    <3>2. PICK y : y = [u EXCEPT !.definition = def]
      BY Zenon
    <3>3. y \in Unit
      BY Zenon, <3>2 DEF Unit
    <3>4. unit' = [unit EXCEPT ![c.name] = y]
      BY <1>8, <3>1, <3>2
    <3> QED BY Zenon, <1>5, <3>1, <3>3, <3>4, ManagerKeeps DEF TokensKept, Inv, Typed, DirsTyped
  <2>3. CASE Step(s) = "forget"
    <3>1. PICK b \in BOOLEAN : b = (x.service.installed /\ x.service.name # c.name)
      BY Zenon
    <3>2. PICK y : y = [x EXCEPT !.service = [x.service EXCEPT !.installed = b]]
      BY Zenon
    <3>3. y \in Dir /\ y.token = x.token
      BY Zenon, <3>2 DEF Dir
    <3>4. dirs' = [dirs EXCEPT ![c.dir] = y] /\ unit' = unit
      BY <1>7, <2>3, <3>1, <3>2 DEF FileStep
    <3> QED BY Zenon, <1>5, <1>7, <3>3, <3>4, DirChanges DEF TokensKept, Inv, Typed, UnitTyped
  <2> QED BY <2>1, <2>2, <2>3 DEF FileStep
<1> QED BY Zenon, <1>1, <1>2, <1>4, <1>6, <1>9, OneMoves

LEMMA TerminalStepKeeps ==
    ASSUME Inv, NEW s \in Shells, TerminalStep(s)
    PROVE  Inv'
<1> DEFINE c == Cmd(s)
           manual == {p \in Live : proc[p].dir = c.dir /\ proc[p].service = ""}
<1>1. PICK own : Owned(own)
  BY DEF Inv
<1>2. /\ plan' = plan /\ drawn' = drawn /\ dirs' = dirs /\ unit' = unit
      /\ shell' = [shell EXCEPT ![s] = Popped(s)]
  BY Zenon DEF TerminalStep
<1>3. Step(s) \in {"spawn", "signal"}
  BY Zenon DEF TerminalStep
<1>4. /\ Command(c) /\ Popped(s) \in Shell /\ Scripted(s)' /\ Bearer(own, s)'
      /\ Step(s) = "spawn" => c.op = "sister"
  BY Zenon, <1>2, <1>3, NotARun
<1>5. ProcTyped' /\ ProcsKept
  <2>1. CASE Step(s) = "spawn"
    <3>1. c.dir \in Dirs /\ c.port \in Nat
      BY <1>4, <2>1 DEF Command
    <3>2. PICK r \in FreshSlot : proc' = [proc EXCEPT ![r] = Process(c.dir, c.port, "")]
      BY Zenon, <2>1 DEF TerminalStep
    <3> QED BY Zenon, <3>1, <3>2, NewProcess
  <2>2. CASE Step(s) = "signal"
    <3>1. proc \in [Slots -> Proc] /\ ProcTyped
      BY DEF Inv, Typed, ProcTyped
    <3>2. proc' = [p \in Slots |-> IF p \in manual THEN [proc[p] EXCEPT !.term = TRUE] ELSE proc[p]]
      BY Zenon, <2>2 DEF TerminalStep
    <3>3. ASSUME NEW p \in Slots
          PROVE  /\ proc'[p] \in Proc /\ proc'[p].dir = proc[p].dir /\ proc'[p].pc = proc[p].pc
                 /\ proc'[p].token = proc[p].token
      <4>1. PICK x \in Proc : x = proc[p]
        BY <3>1
      <4>2. proc'[p] = x \/ proc'[p] = [x EXCEPT !.term = TRUE]
        BY Zenon, <3>2, <4>1
      <4> QED BY Zenon, <4>1, <4>2 DEF Proc
    <3>4. proc' \in [Slots -> Proc]
      BY Zenon, <3>2, <3>3
    <3> QED BY Zenon, <3>1, <3>3, <3>4 DEF ProcTyped, ProcsKept
  <2> QED BY <1>3, <2>1, <2>2
<1>6. DirsTyped' /\ UnitTyped' /\ TokensKept
  BY <1>2 DEF Inv, Typed, DirsTyped, UnitTyped, TokensKept
<1> QED BY Zenon, <1>1, <1>2, <1>4, <1>5, <1>6, OneMoves

\* Steps of a terminal that touch nothing else.
LEMMA QuietMove ==
    ASSUME Inv, NEW own, Owned(own), NEW s \in Shells, NEW t \in Shell,
           shell' = [shell EXCEPT ![s] = t], UNCHANGED <<plan, dirs, unit, proc, drawn>>,
           Scripted(s)' /\ Bearer(own, s)'
    PROVE  Inv'
<1>1. DirsTyped' /\ UnitTyped' /\ TokensKept
  BY DEF Inv, Typed, DirsTyped, UnitTyped, TokensKept
<1>2. ProcTyped' /\ ProcsKept
  BY SameProcs
<1> QED BY Zenon, <1>1, <1>2, OneMoves

LEMMA EndedKeeps ==
    ASSUME Inv, NEW s \in Shells, shell' = [shell EXCEPT ![s] = Ended(s)],
           UNCHANGED <<plan, dirs, unit, proc, drawn>>
    PROVE  Inv'
<1>1. PICK own : Owned(own)
  BY DEF Inv
<1>2. PICK x \in Shell : x = shell[s] /\ shell \in [Shells -> Shell]
  BY DEF Inv, Typed, ShellTyped
<1>3. PICK none \in Seq(AllSteps) : none = <<>>
  <2>1. <<>> \in Seq(AllSteps)
    OBVIOUS
  <2> QED BY Zenon, <2>1
<1>4. Ended(s) = [x EXCEPT !.steps = none, !.at = 0]
  BY <1>2, <1>3 DEF Ended
<1>5. Ended(s) \in Shell /\ Ended(s).steps = none /\ Ended(s).at = 0 /\ Ended(s).done = x.done
  BY Zenon, <1>4 DEF Shell
<1>6. Scripted(s)' /\ Bearer(own, s)'
  BY <1>2, <1>3, <1>5, EndedScript
<1> QED BY Zenon, <1>1, <1>5, <1>6, QuietMove

LEMMA NextCommandStep ==
    ASSUME Inv, NEW s \in Shells, NextCommand(s)
    PROVE  Inv'
<1>1. PICK own : Owned(own)
  BY DEF Inv
<1>2. PICK x \in Shell : x = shell[s] /\ shell \in [Shells -> Shell]
  BY DEF Inv, Typed, ShellTyped
<1>3. x.steps = <<>> /\ x.done < Len(plan.shells[s]) /\ x.done \in Nat /\ Scripted(s)
  BY <1>2 DEF NextCommand, Shell, Inv, AllScripted
<1>4. PICK k \in Nat : k = x.done + 1
  BY <1>3
<1>5. PICK c : c = plan.shells[s][k]
  OBVIOUS
<1>6. k \in 1 .. Len(plan.shells[s])
  BY <1>3, <1>4
<1>7. Command(c)
  BY Zenon, <1>5, <1>6, PlansAssumption DEF Inv, Typed, Shells
<1>8. /\ Steps(c) \in Seq(StepsOf(c.op)) /\ Steps(c) \in Seq(AllSteps)
      /\ c.op = "run" => Steps(c) = RunSteps
  BY <1>7, StepsAreOfTheCommand
<1>9. PICK t : t = [x EXCEPT !.done = k, !.steps = Steps(c)]
  OBVIOUS
<1>10. t \in Shell /\ t.done = k /\ t.steps = Steps(c) /\ t.at = x.at
  BY Zenon, <1>8, <1>9 DEF Shell
<1>11. shell' = [shell EXCEPT ![s] = t]
  BY Zenon, <1>2, <1>4, <1>5, <1>9 DEF NextCommand
<1>12. UNCHANGED <<plan, dirs, unit, proc, drawn>>
  BY Zenon DEF NextCommand
<1>13. shell'[s] = t /\ Cmd(s)' = c
  BY Zenon, <1>2, <1>5, <1>10, <1>11, <1>12 DEF Cmd
<1>14. x.at = 0
  BY SMTT(30), <1>2, <1>3 DEF Scripted
<1>15. Scripted(s)'
  BY SMTT(30), <1>6, <1>8, <1>10, <1>12, <1>13, <1>14 DEF Scripted, RunTails
<1>16. Step(s)' # "post"
  <2>1. CASE c.op = "run"
    <3>1. RunSteps # <<>> /\ Head(RunSteps) = "addr"
      BY DEF RunSteps
    <3> QED BY Zenon, <1>8, <1>10, <1>13, <2>1, <3>1 DEF Step
  <2>2. CASE c.op # "run"
    <3>1. "post" \notin StepsOf(c.op)
      BY <1>7, <2>2 DEF StepsOf, LaterSteps, ServiceSteps, Command, ServiceOps
    <3>2. Steps(c) # <<>> => Head(Steps(c)) \in StepsOf(c.op)
      BY Zenon, <1>8, TailTyped
    <3> QED BY Zenon, <1>10, <1>13, <3>1, <3>2 DEF Step
  <2> QED BY Zenon, <2>1, <2>2
<1> QED BY Zenon, <1>1, <1>10, <1>11, <1>12, <1>15, <1>16, QuietMove DEF Bearer

\* The steps of `run` come in their order.
LEMMA RunOrder ==
    ASSUME Inv, NEW s \in Shells, Step(s) \in {"addr", "token", "post", "answer"}
    PROVE  /\ shell[s].steps # <<>> /\ Command(Cmd(s)) /\ Tail(shell[s].steps) \in Seq(AllSteps)
           /\ Step(s) = "addr" => shell[s].steps = RunSteps
           /\ Step(s) = "token" => shell[s].steps = <<"token", "post", "answer">>
           /\ Step(s) = "post" => shell[s].steps = <<"post", "answer">>
           /\ Step(s) = "answer" => shell[s].steps = <<"answer">>
<1>1. Typed /\ Scripted(s) /\ shell[s] \in Shell
  BY DEF Inv, AllScripted, Typed, ShellTyped
<1>2. shell[s].steps # <<>> /\ Step(s) = Head(shell[s].steps)
  BY Zenon DEF Step
<1>3. Command(Cmd(s))
  BY Zenon, <1>1, <1>2, CmdIsCommand
<1>4. Step(s) \in StepsOf(Cmd(s).op)
  BY <1>1, <1>2, TailTyped DEF Scripted
<1>5. Cmd(s).op = "run"
  BY Zenon, <1>3, <1>4 DEF StepsOf, LaterSteps, ServiceSteps, ServiceOps, Command
<1>6. shell[s].steps \in RunTails
  BY <1>1, <1>2, <1>5 DEF Scripted
<1>7. /\ Head(RunSteps) = "addr" /\ Head(<<"token", "post", "answer">>) = "token"
      /\ Head(<<"post", "answer">>) = "post" /\ Head(<<"answer">>) = "answer"
  BY DEF RunSteps
<1>8. shell[s].steps \in Seq(AllSteps)
  BY <1>1 DEF Shell
<1> QED BY Zenon, <1>2, <1>3, <1>6, <1>7, <1>8, TailTyped DEF RunTails

LEMMA FindSisterStep ==
    ASSUME Inv, NEW s \in Shells, FindSister(s)
    PROVE  Inv'
<1> DEFINE d == Cmd(s).dir
<1>1. PICK own : Owned(own)
  BY DEF Inv
<1>2. PICK x \in Shell : x = shell[s] /\ shell \in [Shells -> Shell]
  BY DEF Inv, Typed, ShellTyped
<1>3. UNCHANGED <<plan, dirs, unit, proc, drawn>> /\ Step(s) \in {"addr", "token"}
  BY DEF FindSister
<1>4. CASE shell' = [shell EXCEPT ![s] = Ended(s)]
  BY Zenon, <1>3, <1>4, EndedKeeps
<1>5. d \in Dirs /\ shell[s].steps # <<>>
  BY <1>3, RunOrder DEF Command
<1>6. PICK rest \in Seq(AllSteps) : rest = Tail(shell[s].steps)
  BY Zenon, <1>3, RunOrder
<1>7. PICK f \in Dir : f = dirs[d]
  BY Zenon, <1>5 DEF Inv, Typed, DirsTyped
<1>8. x.at = 0
  <2>1. shell[s].at # 0 => shell[s].steps = <<"answer">>
    BY DEF Inv, AllScripted, Scripted
  <2>2. Head(<<"answer">>) = "answer"
    OBVIOUS
  <2>3. Step(s) = Head(shell[s].steps)
    BY SMTT(30), <1>5 DEF Step
  <2> QED BY Zenon, <1>2, <1>3, <2>1, <2>2, <2>3
<1>9. CASE Step(s) = "addr" /\ shell' # [shell EXCEPT ![s] = Ended(s)]
  <2>1. PICK t : t = [x EXCEPT !.steps = rest, !.port = f.marker.port]
    OBVIOUS
  <2>2. t \in Shell /\ t.steps = rest /\ t.done = x.done /\ t.at = x.at
    <3>1. f.marker.port \in Nat
      BY Zenon, <1>7 DEF Dir
    <3> QED BY Zenon, <2>1, <3>1 DEF Shell
  <2>3. shell' = [shell EXCEPT ![s] = t]
    BY Zenon, <1>2, <1>6, <1>7, <1>9, <2>1 DEF FindSister, Popped
  <2>4. shell'[s] = t
    BY Zenon, <1>2, <2>3
  <2>5. Scripted(s)'
    BY Zenon, <1>2, <1>3, <1>5, <1>6, <1>8, <2>2, <2>4, PoppedScript
  <2>6. rest = <<"token", "post", "answer">>
    <3>1. rest = Tail(RunSteps)
      BY Zenon, <1>6, <1>9, RunOrder
    <3> QED BY SMTT(30), <3>1 DEF RunSteps
  <2>7. rest # <<>> /\ Head(rest) = "token"
    BY <2>6
  <2>8. Step(s)' # "post"
    BY Zenon, <2>2, <2>4, <2>7 DEF Step
  <2> QED BY Zenon, <1>1, <1>3, <2>2, <2>3, <2>5, <2>8, QuietMove DEF Bearer
<1>10. CASE Step(s) = "token" /\ shell' # [shell EXCEPT ![s] = Ended(s)]
  <2>1. PICK t : t = [x EXCEPT !.steps = rest, !.token = f.token]
    OBVIOUS
  <2>2. t \in Shell /\ t.steps = rest /\ t.done = x.done /\ t.at = x.at /\ t.token = f.token
    BY Zenon, <1>7, <2>1 DEF Shell, Dir
  <2>3. ~TokenUnreadable(d) /\ ~TokenMissing(d)
    BY <1>10 DEF FindSister
  <2>4. shell' = [shell EXCEPT ![s] = t]
    BY Zenon, <1>2, <1>6, <1>7, <1>10, <2>1, <2>3 DEF FindSister, Popped
  <2>5. shell'[s] = t
    BY <1>2, <2>4
  <2>6. Cmd(s)' = Cmd(s) /\ Scripted(s)'
    BY Zenon, <1>2, <1>3, <1>5, <1>6, <1>8, <2>2, <2>5, PoppedScript
  <2>7. f.token # 0
    BY Zenon, <1>7, <2>3 DEF TokenUnreadable, TokenMissing
  <2>8. f.token \in 1 .. drawn /\ own[f.token] = d
    BY Zenon, <1>1, <1>5, <1>7, <2>7 DEF Owned
  <2>9. Bearer(own, s)'
    BY Zenon, <1>3, <2>2, <2>5, <2>6, <2>8 DEF Bearer
  <2> QED BY Zenon, <1>1, <1>3, <2>2, <2>4, <2>6, <2>9, QuietMove
<1> QED BY Zenon, <1>3, <1>4, <1>9, <1>10

\* The heart of the argument: a Sister takes a Job only for the token it serves under, and the
\* command holds a token of its own directory.
LEMMA PostJobStep ==
    ASSUME Inv, NEW s \in Shells, PostJob(s)
    PROVE  Inv'
<1>1. PICK own : Owned(own)
  BY DEF Inv
<1>2. PICK x \in Shell : x = shell[s] /\ shell \in [Shells -> Shell]
  BY DEF Inv, Typed, ShellTyped
<1>3. UNCHANGED <<plan, dirs, unit, proc, drawn>> /\ Step(s) = "post"
  BY DEF PostJob
<1>4. CASE shell' = [shell EXCEPT ![s] = Ended(s)]
  BY Zenon, <1>3, <1>4, EndedKeeps
<1>5. CASE shell' # [shell EXCEPT ![s] = Ended(s)]
  <2>1. PICK p \in Listening(shell[s].port) :
            /\ proc[p].pc = "run" /\ Authorized(p, shell[s].token)
            /\ shell' = [shell EXCEPT ![s] = [Popped(s) EXCEPT !.at = p]]
    BY <1>5 DEF PostJob
  <2>2. p \in Slots /\ proc[p].token = x.token
    BY Zenon, <1>2, <2>1 DEF Listening, Live, Authorized
  <2>3. x.token \in 1 .. drawn /\ own[x.token] = Cmd(s).dir
    BY Zenon, <1>1, <1>2, <1>3 DEF Owned
  <2>4. proc[p].dir = Cmd(s).dir
    <3>1. x.token # 0
      <4>1. drawn \in Nat
        BY Zenon DEF Inv, Typed
      <4> QED BY <2>3, <4>1
    <3> QED BY Zenon, <1>1, <2>2, <2>3, <3>1 DEF Owned
  <2>5. shell[s].steps = <<"post", "answer">>
    BY SMTT(30), <1>3, RunOrder
  <2>6. PICK rest \in Seq(AllSteps) : rest = Tail(shell[s].steps)
    BY Zenon, <1>3, RunOrder
  <2>7. rest = <<"answer">> /\ rest # <<>> /\ Head(rest) = "answer"
    BY <2>5, <2>6
  <2>8. PICK t : t = [x EXCEPT !.steps = rest, !.at = p]
    OBVIOUS
  <2>9. t \in Shell /\ t.steps = rest /\ t.done = x.done /\ t.at = p
    BY Zenon, <2>2, <2>8 DEF Shell
  <2>10. shell' = [shell EXCEPT ![s] = t]
    BY Zenon, <1>2, <2>1, <2>6, <2>8 DEF Popped
  <2>11. shell'[s] = t
    BY Zenon, <1>2, <2>10
  <2>12. Cmd(s)' = Cmd(s)
    BY Zenon, <1>2, <1>3, <2>9, <2>11 DEF Cmd
  <2>13. /\ Scripted(s) /\ shell[s].steps # <<>>
         /\ rest \in Seq(StepsOf(Cmd(s).op)) /\ (Cmd(s).op = "run" => rest \in RunTails)
    <3>1. Scripted(s) /\ shell[s].steps # <<>>
      BY SMTT(30), <1>3, RunOrder DEF Inv, AllScripted
    <3>2. rest \in Seq(StepsOf(Cmd(s).op))
      BY Zenon, <2>6, <3>1, TailTyped DEF Scripted
    <3> QED BY Zenon, <2>7, <3>1, <3>2 DEF RunTails
  <2>14. Scripted(s)'
    BY Zenon, <1>2, <1>3, <2>1, <2>4, <2>7, <2>9, <2>11, <2>12, <2>13 DEF Scripted
  <2>15. Step(s)' # "post"
    BY Zenon, <2>7, <2>9, <2>11 DEF Step
  <2> QED BY Zenon, <1>1, <1>3, <2>9, <2>10, <2>14, <2>15, QuietMove DEF Bearer
<1> QED BY <1>4, <1>5

LEMMA ShellStepKeeps ==
    ASSUME Inv, NEW s \in Shells, ShellStep(s) \/ Kill(s)
    PROVE  Inv'
<1>1. CASE Answer(s)
  BY Zenon, <1>1, EndedKeeps DEF Answer
<1>2. CASE Kill(s)
  BY Zenon, <1>2, EndedKeeps DEF Kill
<1> QED BY Zenon, <1>1, <1>2, NextCommandStep, ManagerStepKeeps, FileStepKeeps, TerminalStepKeeps,
           FindSisterStep, PostJobStep DEF ShellStep

-----------------------------------------------------------------------------
(* Results                                                                 *)

LEMMA InitInv == Init => Inv
<1> SUFFICES ASSUME Init PROVE Inv
  BY Zenon
<1>1. plan \in Plans /\ drawn \in Nat
  BY Zenon DEF Init
<1>2. DirsTyped
  <2>1. ASSUME NEW d \in Dirs PROVE dirs[d] \in Dir
    <3>1. PICK layout \in Nat : layout = plan.layout[d]
      BY <1>1, PlansAssumption
    <3>2. PICK config \in [name : Names \cup {""}, port : Nat, installed : BOOLEAN] :
              config = NoService
      BY Zenon DEF NoService, ServiceConfig
    <3>3. PICK marker \in [instance : Slots \cup {0}, port : Nat] : marker = NoInstance
      BY Zenon DEF NoInstance, RuntimeInstance
    <3>4. dirs[d] = [service |-> config, marker |-> marker, token |-> 0, torn |-> FALSE,
                     layout |-> layout]
      BY Zenon, <3>1, <3>2, <3>3 DEF Init
    <3>5. [service |-> config, marker |-> marker, token |-> 0, torn |-> FALSE, layout |-> layout]
              \in Dir
      BY Zenon DEF Dir
    <3> QED BY Zenon, <3>4, <3>5
  <2> QED BY SMTT(30), <2>1 DEF Init, DirsTyped
<1>3. UnitTyped
  <2>1. PICK en \in BOOLEAN : en = ~systemd
    BY Zenon
  <2>2. NoDefinition \in Definitions
    BY Zenon DEF Definitions
  <2>3. ASSUME NEW n \in Names PROVE unit[n] \in Unit
    <3>1. unit[n] = [definition |-> NoDefinition, loaded |-> NoDefinition, enabled |-> en,
                     active |-> FALSE, asked |-> FALSE, proc |-> 0]
      BY SMTT(30), <2>1 DEF Init
    <3> QED BY SMTT(30), <2>2, <3>1 DEF Unit
  <2> QED BY Zenon, <2>3 DEF Init, UnitTyped
<1>4. ProcTyped /\ \A p \in Slots : proc[p].token = 0 /\ proc[p].pc = "off"
  BY ZenonT(40) DEF Init, ProcTyped, Proc, Pcs, Off
<1>5. \A s \in Shells : /\ shell[s] \in Shell /\ shell[s].steps = <<>> /\ shell[s].at = 0
                         /\ shell[s].done = 0
  <2>1. <<>> \in Seq(AllSteps)
    OBVIOUS
  <2> QED BY Zenon, <2>1 DEF Init, Shell
<1>6. ShellTyped
  BY Zenon, <1>5 DEF Init, ShellTyped
<1>7. AllScripted
  BY SMTT(30), <1>5 DEF AllScripted, Scripted
<1>8. Owned([t \in {} |-> t])
  <2>1. PICK own : own = [t \in {} |-> t]
    BY Zenon
  <2>2. own \in [1 .. drawn -> Dirs]
    BY SMTT(30), <2>1 DEF Init
  <2>3. \A d \in Dirs : dirs[d].token = 0
    BY DEF Init
  <2>4. \A s \in Shells : Step(s) = "none"
    BY <1>5 DEF Step
  <2> QED BY Zenon, <1>4, <2>1, <2>2, <2>3, <2>4 DEF Owned
<1> QED BY Zenon, <1>1, <1>2, <1>3, <1>4, <1>6, <1>7, <1>8 DEF Inv, Typed

LEMMA NextInv == Inv /\ [Next]_vars => Inv'
<1> SUFFICES ASSUME Inv, [Next]_vars PROVE Inv'
  BY Zenon
<1>1. CASE Next
  BY Zenon, <1>1, SisterStepKeeps, CrashStep, SpawnStep, ShellStepKeeps, RebootStep DEF Next
<1>2. CASE UNCHANGED vars
  <2>1. /\ plan' = plan /\ dirs' = dirs /\ unit' = unit /\ proc' = proc /\ shell' = shell
        /\ drawn' = drawn
    BY Zenon, <1>2 DEF vars
  <2>2. Typed'
    BY <2>1 DEF Inv, Typed, DirsTyped, UnitTyped, ProcTyped, ShellTyped, Shells
  <2>3. PICK own : Owned(own)
    BY DEF Inv
  <2>4. ProcsKept /\ Shells' = Shells /\ TokensKept
    BY Zenon, <2>1, SameProcs DEF Shells, TokensKept
  <2>5. \A s \in Shells : Scripted(s)' /\ Bearer(own, s)'
    BY Zenon, <2>1, <2>3, <2>4, Idle
  <2>6. \A r \in Slots : \/ proc'[r].token = 0 /\ proc'[r].pc # "write"
                         \/ /\ proc'[r].token = proc[r].token /\ proc'[r].dir = proc[r].dir
                            /\ proc'[r].pc = proc[r].pc
    BY <2>1
  <2> QED BY Zenon, <2>1, <2>2, <2>3, <2>4, <2>5, <2>6, Frame DEF Typed
<1> QED BY <1>1, <1>2

\* A `run` that a Sister took is with a Sister of its own directory.
THEOREM RunReachesHome == Spec => []RunStaysHome
<1>1. Inv => RunStaysHome
  BY Zenon DEF Inv, AllScripted, Scripted, RunStaysHome
<1> QED BY <1>1, InitInv, NextInv, PTL DEF Spec

\* What `service status` and doctor say of the local API is about a Sister of the directory.
THEOREM ReportsAreAboutHome == Spec => []HealthyMeansServing
<1>1. Inv => HealthyMeansServing
  <2> SUFFICES ASSUME Inv, NEW d \in Dirs, probe_local_control(d) = 200
               PROVE  \E p \in Live : proc[p].dir = d /\ proc[p].pc = "run"
    BY DEF HealthyMeansServing, doctor_local_control, healthy
  <2>1. PICK own : Owned(own)
    BY Zenon DEF Inv
  <2>2. ~TokenUnreadable(d) /\ ~TokenMissing(d)
    BY SMTT(30) DEF probe_local_control
  <2>3. PICK p \in Listening(dirs[d].marker.port) :
            proc[p].pc = "run" /\ Authorized(p, dirs[d].token)
    BY <2>2 DEF probe_local_control
  <2>4. p \in Live /\ p \in Slots /\ proc[p].token = dirs[d].token
    BY <2>3 DEF Listening, Live, Authorized
  <2>5. dirs[d].token # 0
    BY Zenon, <2>2 DEF TokenUnreadable, TokenMissing
  <2>6. own[dirs[d].token] = d /\ own[proc[p].token] = proc[p].dir
    BY SMTT(30), <2>1, <2>4, <2>5 DEF Owned
  <2> QED BY <2>3, <2>4, <2>6
<1> QED BY <1>1, InitInv, NextInv, PTL DEF Spec
=============================================================================
