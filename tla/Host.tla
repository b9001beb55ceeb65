-------------------------------- MODULE Host --------------------------------
(***************************************************************************)
(* One user account: the Sister processes on it, the per-user service       *)
(* manager that keeps some of them running, and the command lines that      *)
(* install, stop and remove services or talk to a running Sister.           *)
(*                                                                          *)
(* A config directory holds service.json, the runtime marker, the local     *)
(* control token and the state layout.  Service definitions are files too,  *)
(* but they are keyed by service name, not by directory.  Processes on one  *)
(* account share the loopback ports.  The service manager (launchd or       *)
(* systemd --user) is external: it is modelled by what the commands of      *)
(* service.rs ask of it.  Crashes kill one process, reboots kill them all.  *)
(* "" and 0 stand for "none".                                               *)
(***************************************************************************)
EXTENDS Naturals, Sequences, FiniteSets

CONSTANTS
    Dirs,         \* config directories
    Names,        \* service names
    Slots,        \* process slots: 1 .. n
    Plans         \* the manager, what the operator types in each terminal, the layout
                  \* version found in each directory, a bound on crashes, kills and reboots

ASSUME SlotsAssumption == Slots \subseteq Nat \ {0}
ASSUME NamesAssumption == "" \notin Names

\* What an operator can type.
ServiceOps == {"install", "uninstall", "start", "stop", "restart"}

Command(c) ==
    /\ c.op \in ServiceOps \cup {"run", "sister", "interrupt"}
    /\ c.dir \in Dirs
    /\ c.op \in ServiceOps => c.name \in Names
    /\ c.op \in {"install", "sister"} => c.port \in Nat

\* Commands on one service come from one terminal: two that overlap undo each other's steps.
OneTerminal(shells) ==
    \A s, t \in DOMAIN shells :
        \A i \in 1 .. Len(shells[s]), j \in 1 .. Len(shells[t]) :
            /\ shells[s][i].op \in ServiceOps /\ shells[t][j].op \in ServiceOps
            /\ shells[s][i].name = shells[t][j].name
            => s = t

ASSUME PlansAssumption ==
    \A pl \in Plans :
        /\ pl.layout \in [Dirs -> Nat]
        /\ \A s \in DOMAIN pl.shells : \A i \in 1 .. Len(pl.shells[s]) : Command(pl.shells[s][i])
        /\ OneTerminal(pl.shells)

VARIABLES
    plan,         \* the plan of this behaviour
    dirs,         \* what is in each config directory
    unit,         \* what the manager knows of each service name; asked: it was told to run it
    proc,         \* the Sister processes
    shell,        \* the operator's terminals
    drawn,        \* control tokens generated so far
    faults        \* crashes, kills and reboots so far

vars == <<plan, dirs, unit, proc, shell, drawn, faults>>

Shells == DOMAIN plan.shells
systemd == plan.manager = "systemd"

-----------------------------------------------------------------------------
(* Files of a config directory                                             *)

\* service.json: its name, the API port of its start options, and whether a binary is
\* recorded as installed.  A record with no name is an absent file.
ServiceConfig(name, port, installed) == [name |-> name, port |-> port, installed |-> installed]
NoService == ServiceConfig("", 0, FALSE)

\* runtime.json: the process that wrote it and the API port it bound.
RuntimeInstance(p, port) == [instance |-> p, port |-> port]
NoInstance == RuntimeInstance(0, 0)

CURRENT_STATE_LAYOUT_VERSION == 1

\* StateLayout::open: created or adopted at the current version; a newer one is refused.
LayoutTooNew(d) == dirs[d].layout > CURRENT_STATE_LAYOUT_VERSION
LayoutOpened(d) == IF dirs[d].layout = 0 THEN CURRENT_STATE_LAYOUT_VERSION ELSE dirs[d].layout

\* LocalControlTokenStore::load: a file that is there but malformed is an error.
TokenUnreadable(d) == dirs[d].torn
TokenMissing(d) == ~dirs[d].torn /\ dirs[d].token = 0

-----------------------------------------------------------------------------
(* Sister processes                                                        *)

Off == [dir |-> "", port |-> 0, service |-> "", pc |-> "off", token |-> 0, term |-> FALSE]

Live == {p \in Slots : proc[p].pc # "off"}

\* The process listening on a port: from a successful bind to the start of the drain.
Listening(port) == {p \in Live : proc[p].port = port /\ proc[p].pc \in {"mark", "run"}}

\* Instance ids are random: a slot is taken again only when no marker names it.
Fresh == {p \in Slots : proc[p].pc = "off" /\ \A d \in Dirs : dirs[d].marker.instance # p}
FreshSlot == {p \in Fresh : \A q \in Fresh : p <= q}

Process(dir, port, service) ==
    [Off EXCEPT !.dir = dir, !.port = port, !.service = service, !.pc = "load"]

\* Process p ends.  A service manager notes whether it ended well: `Restart=on-failure`
\* and KeepAlive/SuccessfulExit=false bring back the ones that did not; after one it stopped
\* it does what it was asked since.  A client waiting for p's answer sees its connection close.
Exit(p, ok) ==
    /\ proc' = [proc EXCEPT ![p] = Off]
    /\ unit' = [n \in Names |->
                    IF unit[n].proc = p
                    THEN [unit[n] EXCEPT !.proc = 0,
                                         !.active = @ /\ (proc[p].term \/ (~ok /\ unit[n].loaded.keepalive))]
                    ELSE unit[n]]
    /\ shell' = [s \in Shells |-> IF shell[s].at = p THEN [shell[s] EXCEPT !.at = 0] ELSE shell[s]]

Becomes(p, pc) == proc' = [proc EXCEPT ![p].pc = pc]

\* `service run` reads service.json and re-enters the dispatcher as `start`; everything
\* `start` does before its signal handler is installed is this step (module Enrollment
\* models the stores it opens).  A process told to stop here dies of the signal.
StartLoad(p) ==
    LET d == proc[p].dir
        config == dirs[d].service
    IN /\ proc[p].pc = "load"
       /\ IF proc[p].term \/ (proc[p].service # "" /\ config = NoService)
          THEN Exit(p, proc[p].term)
          ELSE /\ LET port == IF proc[p].service = "" THEN proc[p].port ELSE config.port
                  IN proc' = [proc EXCEPT ![p] = [proc[p] EXCEPT !.pc = "layout", !.port = port]]
               /\ UNCHANGED <<unit, shell>>
       /\ UNCHANGED <<plan, dirs, drawn, faults>>

StartLayout(p) ==
    LET d == proc[p].dir
    IN /\ proc[p].pc = "layout"
       /\ IF LayoutTooNew(d)
          THEN Exit(p, FALSE) /\ UNCHANGED dirs
          ELSE /\ dirs' = [dirs EXCEPT ![d].layout = LayoutOpened(d)]
               /\ Becomes(p, "token")
               /\ UNCHANGED <<unit, shell>>
       /\ UNCHANGED <<plan, drawn, faults>>

\* load_or_init: a missing token is generated, and written by the next step.
StartToken(p) ==
    LET d == proc[p].dir
    IN /\ proc[p].pc = "token"
       /\ \/ /\ TokenUnreadable(d)
             /\ Exit(p, FALSE)
             /\ UNCHANGED drawn
          \/ /\ TokenMissing(d)
             /\ proc' = [proc EXCEPT ![p] = [proc[p] EXCEPT !.token = drawn + 1, !.pc = "write"]]
             /\ drawn' = drawn + 1
             /\ UNCHANGED <<unit, shell>>
          \/ /\ ~TokenUnreadable(d) /\ ~TokenMissing(d)
             /\ proc' = [proc EXCEPT ![p] = [proc[p] EXCEPT !.token = dirs[d].token, !.pc = "bind"]]
             /\ UNCHANGED <<unit, shell, drawn>>
       /\ UNCHANGED <<plan, dirs, faults>>

StartWriteToken(p) ==
    /\ proc[p].pc = "write"
    /\ dirs' = [dirs EXCEPT ![proc[p].dir].token = proc[p].token, ![proc[p].dir].torn = FALSE]
    /\ Becomes(p, "bind")
    /\ UNCHANGED <<plan, unit, shell, drawn, faults>>

StartBind(p) ==
    /\ proc[p].pc = "bind"
    /\ IF Listening(proc[p].port) # {}
       THEN Exit(p, FALSE)
       ELSE Becomes(p, "mark") /\ UNCHANGED <<unit, shell>>
    /\ UNCHANGED <<plan, dirs, drawn, faults>>

\* RuntimeInstanceStore::write, then the API task and the runtime run.
StartMark(p) ==
    /\ proc[p].pc = "mark"
    /\ dirs' = [dirs EXCEPT ![proc[p].dir].marker = RuntimeInstance(p, proc[p].port)]
    /\ Becomes(p, "run")
    /\ UNCHANGED <<plan, unit, shell, drawn, faults>>

\* The signal handler cancels the shutdown token: the listener closes, answers in
\* progress are finished.
Shutdown(p) ==
    /\ proc[p].pc = "run" /\ proc[p].term
    /\ Becomes(p, "drain")
    /\ UNCHANGED <<plan, dirs, unit, shell, drawn, faults>>

\* remove_if_matches reads the marker first and removes the file in a second step.
Drained(p) ==
    /\ proc[p].pc = "drain"
    /\ \A s \in Shells : shell[s].at # p
    /\ IF dirs[proc[p].dir].marker.instance = p
       THEN Becomes(p, "remove") /\ UNCHANGED <<unit, shell>>
       ELSE Exit(p, TRUE)
    /\ UNCHANGED <<plan, dirs, drawn, faults>>

RemoveMarker(p) ==
    /\ proc[p].pc = "remove"
    /\ dirs' = [dirs EXCEPT ![proc[p].dir].marker = NoInstance]
    /\ Exit(p, TRUE)
    /\ UNCHANGED <<plan, drawn, faults>>

SisterStep(p) ==
    \/ StartLoad(p) \/ StartLayout(p) \/ StartToken(p) \/ StartWriteToken(p)
    \/ StartBind(p) \/ StartMark(p) \/ Shutdown(p) \/ Drained(p) \/ RemoveMarker(p)

\* A process dies; in the middle of write_token it leaves a malformed file.
Crash(p) ==
    /\ p \in Live /\ faults < plan.faults
    /\ faults' = faults + 1
    /\ Exit(p, FALSE)
    /\ dirs' \in {dirs} \cup IF proc[p].pc = "write"
                             THEN {[dirs EXCEPT ![proc[p].dir].torn = TRUE]} ELSE {}
    /\ UNCHANGED <<plan, drawn>>

-----------------------------------------------------------------------------
(* The service manager                                                     *)

\* What the two definition files say: which directory's service they run (through
\* MISAKA_CONFIG_DIR), whether loading starts it, whether a failed process is restarted.
launchd_plist(d) == [dir |-> d, run_at_load |-> TRUE, keepalive |-> TRUE]
\* Mutant: the unit has no Restart=on-failure.
systemd_unitNoRestart(d) == [dir |-> d, run_at_load |-> FALSE, keepalive |-> FALSE]
systemd_unit(d) == [dir |-> d, run_at_load |-> FALSE, keepalive |-> TRUE]
NoDefinition == [dir |-> "", run_at_load |-> FALSE, keepalive |-> FALSE]

\* The manager starts what should be active and has no process: after `start` or `load`,
\* and again, RestartSec later, when the process failed.
Spawn(n) ==
    /\ unit[n].active /\ unit[n].proc = 0 /\ unit[n].loaded # NoDefinition
    /\ \E p \in FreshSlot :
          /\ proc' = [proc EXCEPT ![p] = Process(unit[n].loaded.dir, 0, n)]
          /\ unit' = [unit EXCEPT ![n].proc = p]
    /\ UNCHANGED <<plan, dirs, shell, drawn, faults>>

\* SIGTERM to a process of a service.
Signalled(p) == IF p = 0 THEN proc ELSE [proc EXCEPT ![p].term = TRUE]

Manager(n, u, procs) ==
    /\ unit' = [unit EXCEPT ![n] = u]
    /\ proc' = procs

\* systemctl --user <action> <unit>: an unknown unit is an error nobody looks at.  systemd
\* keeps a unit in memory while it runs and reads its file again to start one that does not;
\* enabling and disabling work on the file.
SystemdStart(n) ==
    LET held == unit[n].active \/ unit[n].proc # 0
        current == IF held THEN unit[n].loaded ELSE unit[n].definition
        known == current # NoDefinition
    IN Manager(n, [unit[n] EXCEPT !.loaded = current, !.active = @ \/ known, !.asked = known], proc)
SystemdStop(n) ==
    Manager(n, [unit[n] EXCEPT !.active = FALSE, !.asked = FALSE], Signalled(unit[n].proc))
SystemdEnable(n, on) ==
    Manager(n, [unit[n] EXCEPT !.enabled = IF unit[n].definition # NoDefinition THEN on ELSE @],
            proc)
SystemdReload ==
    /\ unit' = [n \in Names |-> [unit[n] EXCEPT !.loaded = unit[n].definition]]
    /\ UNCHANGED proc

\* launchctl load/unload -w <plist>: loading a loaded job and unloading a file that is not
\* there are errors nobody looks at.  Unloading does not wait for the process.
LaunchdLoad(n) ==
    LET u == unit[n]
    IN Manager(n, IF u.definition = NoDefinition THEN u
                  ELSE IF u.loaded # NoDefinition THEN [u EXCEPT !.enabled = TRUE]
                  ELSE [u EXCEPT !.loaded = u.definition, !.enabled = TRUE,
                                 !.active = u.definition.run_at_load,
                                 !.asked = u.definition.run_at_load], proc)
LaunchdUnload(n) ==
    LET u == unit[n]
    IN IF u.definition = NoDefinition
       THEN Manager(n, u, proc)
       ELSE Manager(n, [u EXCEPT !.loaded = NoDefinition, !.enabled = FALSE,
                                 !.active = FALSE, !.asked = FALSE, !.proc = 0], Signalled(u.proc))

\* All processes and commands are gone.  At the next login the manager reads the
\* definitions and starts the enabled ones.
Reboot ==
    /\ faults < plan.faults /\ Live # {}
    /\ faults' = faults + 1
    /\ proc' = [p \in Slots |-> Off]
    /\ shell' = [s \in Shells |-> [shell[s] EXCEPT !.steps = <<>>, !.at = 0]]
    /\ unit' = [n \in Names |->
                   LET u == unit[n]
                       back == u.enabled /\ u.definition # NoDefinition
                   IN [u EXCEPT !.proc = 0, !.active = back, !.asked = back,
                                !.loaded = IF back \/ systemd THEN u.definition ELSE NoDefinition]]
    /\ UNCHANGED <<plan, dirs, drawn>>

-----------------------------------------------------------------------------
(* Commands.  A command is a record: op, dir (MISAKA_CONFIG_DIR) and, where  *)
(* the operation has one, name, port and no_start.  It is a sequence of steps. *)

InstallSteps(c) ==
    IF ~systemd THEN <<"save", "define", "load">>
    ELSE IF c.no_start THEN <<"save", "define", "reload", "enable">>
    ELSE <<"save", "define", "reload", "enable", "start">>

\* Mutant: the running service is not stopped before its definition is removed.
UninstallStepsNoStop ==
    IF systemd THEN <<"disable", "undefine", "reload", "forget">> ELSE <<"undefine", "forget">>

UninstallSteps ==
    IF systemd THEN <<"disable", "stop", "wait", "undefine", "reload", "forget">>
    ELSE <<"unload", "undefine", "forget">>

lifecycle(action) ==
    CASE action = "start" -> IF systemd THEN <<"start">> ELSE <<"load">>
      [] action = "stop" -> IF systemd THEN <<"stop", "wait">> ELSE <<"unload">>
      [] action = "restart" -> IF systemd THEN <<"stop", "wait", "start">> ELSE <<"unload", "load">>

\* `misaka run`: find the running Sister, read the control token, post, wait.
RunSteps == <<"addr", "token", "post", "answer">>

Steps(c) ==
    CASE c.op = "install" -> InstallSteps(c)
      [] c.op = "uninstall" -> UninstallSteps
      [] c.op \in {"start", "stop", "restart"} -> lifecycle(c.op)
      [] c.op = "run" -> RunSteps
      [] c.op = "sister" -> <<"spawn">>
      [] c.op = "interrupt" -> <<"signal">>

Cmd(s) == plan.shells[s][shell[s].done]
Step(s) == IF shell[s].steps = <<>> THEN "none" ELSE Head(shell[s].steps)
Popped(s) == [shell[s] EXCEPT !.steps = Tail(@)]
Ended(s) == [shell[s] EXCEPT !.steps = <<>>, !.at = 0]

NextCommand(s) ==
    /\ shell[s].steps = <<>> /\ shell[s].done < Len(plan.shells[s])
    /\ shell' = [shell EXCEPT ![s].done = @ + 1,
                              ![s].steps = Steps(plan.shells[s][shell[s].done + 1])]
    /\ UNCHANGED <<plan, dirs, unit, proc, drawn, faults>>

\* The steps that ask something of the manager; run_argv looks at no exit status.
ManagerStep(s) ==
    LET n == Cmd(s).name
    IN /\ \/ Step(s) = "start" /\ SystemdStart(n)
          \/ Step(s) = "stop" /\ SystemdStop(n)
          \/ Step(s) = "wait" /\ unit[n].proc = 0 /\ UNCHANGED <<unit, proc>>
          \/ Step(s) = "enable" /\ SystemdEnable(n, TRUE)
          \/ Step(s) = "disable" /\ SystemdEnable(n, FALSE)
          \/ Step(s) = "reload" /\ SystemdReload
          \/ Step(s) = "load" /\ LaunchdLoad(n)
          \/ Step(s) = "unload" /\ LaunchdUnload(n)
       /\ shell' = [shell EXCEPT ![s] = Popped(s)]
       /\ UNCHANGED <<plan, dirs, drawn, faults>>

\* The steps on files: ServiceConfigStore::save (a rename), the definition file, and, at the
\* end of an uninstall, the record of the installed binary if it is this service's.
FileStep(s) ==
    LET c == Cmd(s)
        definition == IF systemd THEN systemd_unit(c.dir) ELSE launchd_plist(c.dir)
    IN /\ \/ /\ Step(s) = "save"
             /\ dirs' = [dirs EXCEPT ![c.dir].service = ServiceConfig(c.name, c.port, TRUE)]
             /\ UNCHANGED unit
          \/ /\ Step(s) = "define"
             /\ unit' = [unit EXCEPT ![c.name].definition = definition]
             /\ UNCHANGED dirs
          \/ /\ Step(s) = "undefine"
             /\ unit' = [unit EXCEPT ![c.name].definition = NoDefinition]
             /\ UNCHANGED dirs
          \/ /\ Step(s) = "forget"
             /\ dirs' = [dirs EXCEPT ![c.dir].service.installed = @ /\ dirs[c.dir].service.name # c.name]
             /\ UNCHANGED unit
       /\ shell' = [shell EXCEPT ![s] = Popped(s)]
       /\ UNCHANGED <<plan, proc, drawn, faults>>

\* `misaka start` in a terminal of its own, and Ctrl-C in it.
TerminalStep(s) ==
    LET c == Cmd(s)
        manual == {p \in Live : proc[p].dir = c.dir /\ proc[p].service = ""}
    IN /\ \/ /\ Step(s) = "spawn"
             /\ \E p \in FreshSlot : proc' = [proc EXCEPT ![p] = Process(c.dir, c.port, "")]
          \/ /\ Step(s) = "signal"
             /\ proc' = [p \in Slots |-> IF p \in manual THEN [proc[p] EXCEPT !.term = TRUE]
                                         ELSE proc[p]]
       /\ shell' = [shell EXCEPT ![s] = Popped(s)]
       /\ UNCHANGED <<plan, dirs, unit, drawn, faults>>

-----------------------------------------------------------------------------
(* The local control API and its client                                    *)

\* Mutant: the guard only wants a bearer token to be there.
AuthorizedAny(p, token) == token # 0

\* The router's guard: every /api/v1 route wants the token of the process that serves it.
Authorized(p, token) == proc[p].token = token

\* Mutant: any answer at the marker's port counts.
probe_local_controlAny(d) ==
    LET there == {p \in Listening(dirs[d].marker.port) : proc[p].pc = "run"}
    IN IF TokenUnreadable(d) \/ TokenMissing(d) \/ there = {} THEN 0 ELSE 200

\* probe_local_control: the status of GET /api/v1/overview at the marker's port, 0 for none.
probe_local_control(d) ==
    LET there == {p \in Listening(dirs[d].marker.port) : proc[p].pc = "run"}
    IN IF TokenUnreadable(d) \/ TokenMissing(d) \/ there = {} THEN 0
       ELSE IF \E p \in there : Authorized(p, dirs[d].token) THEN 200
       ELSE 401

\* running_sister_api_addr and LocalControlClient::for_config_dir: no marker is "no local
\* Sister", an unreadable or missing token a failure; both end the command.
FindSister(s) ==
    LET d == Cmd(s).dir
    IN /\ \/ /\ Step(s) = "addr"
             /\ shell' = [shell EXCEPT ![s] = IF dirs[d].marker = NoInstance THEN Ended(s)
                                              ELSE [Popped(s) EXCEPT !.port = dirs[d].marker.port]]
          \/ /\ Step(s) = "token"
             /\ shell' = [shell EXCEPT ![s] = IF TokenUnreadable(d) \/ TokenMissing(d) THEN Ended(s)
                                              ELSE [Popped(s) EXCEPT !.token = dirs[d].token]]
       /\ UNCHANGED <<plan, dirs, unit, proc, drawn, faults>>

\* http_post_json and submit_job: nobody listens, 401, or the Sister takes the Job.
PostJob(s) ==
    LET there == Listening(shell[s].port)
    IN /\ Step(s) = "post"
       /\ \/ /\ there = {}
             /\ shell' = [shell EXCEPT ![s] = Ended(s)]
          \/ \E p \in there :
               /\ proc[p].pc = "run"
               /\ shell' = [shell EXCEPT ![s] = IF Authorized(p, shell[s].token)
                                                THEN [Popped(s) EXCEPT !.at = p] ELSE Ended(s)]
       /\ UNCHANGED <<plan, dirs, unit, proc, drawn, faults>>

\* The answer arrives, the connection has closed, or the result deadline passes.
Answer(s) ==
    /\ Step(s) = "answer"
    /\ shell' = [shell EXCEPT ![s] = Ended(s)]
    /\ UNCHANGED <<plan, dirs, unit, proc, drawn, faults>>

ShellStep(s) ==
    \/ NextCommand(s) \/ ManagerStep(s) \/ FileStep(s) \/ TerminalStep(s)
    \/ FindSister(s) \/ PostJob(s) \/ Answer(s)

\* A command is killed between two of its steps.
Kill(s) ==
    /\ shell[s].steps # <<>> /\ faults < plan.faults
    /\ faults' = faults + 1
    /\ shell' = [shell EXCEPT ![s] = Ended(s)]
    /\ UNCHANGED <<plan, dirs, unit, proc, drawn>>

-----------------------------------------------------------------------------
(* What the commands report                                                *)

\* manager_state: launchd knows loaded jobs, systemd has a state of its own.
manager_state(n) ==
    IF ~systemd THEN IF unit[n].loaded # NoDefinition THEN "running" ELSE "stopped"
    ELSE IF unit[n].proc # 0 THEN "active"
    ELSE IF unit[n].active THEN "activating" ELSE "inactive"

\* `service status` of name n, asked in directory d.
healthy(d, n) ==
    /\ unit[n].definition # NoDefinition
    /\ manager_state(n) = "running"
    /\ dirs[d].marker # NoInstance
    /\ probe_local_control(d) = 200

\* The check of `doctor` on the local API.
doctor_local_control(d) ==
    IF dirs[d].marker = NoInstance THEN "skip"
    ELSE CASE probe_local_control(d) = 200 -> "ok"
           [] probe_local_control(d) = 401 -> "error"
           [] OTHER -> "warn"

-----------------------------------------------------------------------------
Init ==
    /\ plan \in Plans
    /\ dirs = [d \in Dirs |-> [service |-> NoService, marker |-> NoInstance, token |-> 0,
                               torn |-> FALSE, layout |-> plan.layout[d]]]
    /\ unit = [n \in Names |-> [definition |-> NoDefinition, loaded |-> NoDefinition,
                                enabled |-> ~systemd, active |-> FALSE, asked |-> FALSE,
                                proc |-> 0]]
    /\ proc = [p \in Slots |-> Off]
    /\ shell = [s \in Shells |-> [done |-> 0, steps |-> <<>>, port |-> 0, token |-> 0, at |-> 0]]
    /\ drawn = 0
    /\ faults = 0

Next ==
    \/ \E p \in Slots : SisterStep(p) \/ Crash(p)
    \/ \E n \in Names : Spawn(n)
    \/ \E s \in Shells : ShellStep(s) \/ Kill(s)
    \/ Reboot

\* Processes are scheduled, the manager acts on what it promised, commands proceed.
Fairness ==
    /\ \A p \in Slots : WF_vars(SisterStep(p))
    /\ \A n \in Names : WF_vars(Spawn(n))
    /\ WF_vars(\E s \in Shells : ShellStep(s))

Spec == Init /\ [][Next]_vars /\ Fairness

-----------------------------------------------------------------------------
(* Properties                                                              *)

\* `misaka run` reaches only a Sister of its own config directory, even when its marker is
\* stale and the port has been taken by another directory's Sister (the guard of the API).
RunStaysHome ==
    \A s \in Shells : shell[s].at # 0 => proc[shell[s].at].dir = Cmd(s).dir

\* When `service status` says healthy, or doctor that the authenticated API responds, a
\* Sister of this very directory is serving: not another one on a reused port, nor another
\* directory's service of the same name.
HealthyMeansServing ==
    \A d \in Dirs :
        doctor_local_control(d) = "ok" \/ (\E n \in Names : healthy(d, n)) =>
            \E p \in Live : proc[p].dir = d /\ proc[p].pc = "run"

\* A service whose definition is gone has no process but one on its way out, and none comes
\* back: not by a restart that was pending, not at login, not by a command that was killed
\* half-way or the next one on it.
UninstalledStaysDown ==
    \A n \in Names :
        unit[n].definition = NoDefinition =>
            /\ ~unit[n].active
            /\ \A p \in Live : proc[p].service = n => proc[p].term

\* A service the manager was told to run and whose port nobody else wants serves again and again,
\* whatever crashed, as long as its directory can be opened.
Wanted(n) ==
    LET d == unit[n].loaded.dir
    IN /\ unit[n].asked
       /\ dirs[d].service # NoService /\ ~dirs[d].torn /\ ~LayoutTooNew(d)
       /\ \A p \in Live : proc[p].service # n => proc[p].port # dirs[d].service.port

Served(n) == unit[n].proc # 0 /\ proc[unit[n].proc].pc = "run"

ServiceComesBack == \A n \in Names : <>[]Wanted(n) => []<>Served(n)

=============================================================================
