---------------------------- MODULE MCEnrollment ----------------------------
(***************************************************************************)
(* Small instance of Enrollment for TLC: devices 1 and 2 found a Network,   *)
(* 3 and 4 join.                                                            *)
(***************************************************************************)
EXTENDS Doctor

Nothing == [d \in Devices |-> {}]
Founder == {"init", "start", "invite"}
Joiner == {"join", "start"}
NoFault == [crash |-> 0, tear |-> 0, cut |-> 0, io |-> 0]
Base == [does |-> [Nothing EXCEPT ![1] = Founder, ![3] = Joiner],
         flag |-> [d \in Devices |-> 0], members |-> {1, 3}, newer |-> {},
         early |-> FALSE, again |-> FALSE, recovers |-> TRUE, time |-> 0, founded |-> 0,
         faulty |-> Devices \X {"cli", "sister"}, faults |-> NoFault]

Crashes(n) == [NoFault EXCEPT !.crash = n]
Tears(n) == [NoFault EXCEPT !.tear = n]
Only(p) == {p}

Legacy == [Base EXCEPT !.founded = 1, !.does[1] = {"invite-legacy"},
                       !.does[3] = {"start", "join-legacy"}, !.early = TRUE,
                       !.flag = [d \in Devices |-> 101], !.recovers = FALSE]

MCPlans == {
    \* found a Network and join it, with crashes anywhere, or with one torn write
    [Base EXCEPT !.does[3] = {}, !.members = {1}, !.faults = Crashes(2)],
    [Base EXCEPT !.founded = 1, !.faults = Crashes(2)],
    [Base EXCEPT !.faults = Tears(1)],
    \* the exchange: lost streams, a full disk, codes that run out
    [Base EXCEPT !.founded = 1, !.time = 2, !.faults = [NoFault EXCEPT !.cut = 1, !.io = 1]],
    \* two devices join while the Authority's Sister dies
    [Base EXCEPT !.founded = 1, !.does[3] = {"join"}, !.does[4] = {"join"}, !.recovers = FALSE,
                 !.faults = Crashes(1), !.faulty = Only(<<1, "sister">>)],
    \* a second join, of the same or of another Network, and `init` on the joining device
    [Base EXCEPT !.founded = 2, !.does[2] = Founder, !.again = TRUE, !.recovers = FALSE,
                 !.faults = Crashes(1), !.faulty = Only(<<3, "cli">>)],
    [Base EXCEPT !.founded = 1, !.does[3] = {"join", "init"}, !.recovers = FALSE,
                 !.faults = Crashes(1), !.faulty = Only(<<3, "cli">>)],
    \* the legacy files, for a device that was started with --network-id
    [Legacy EXCEPT !.time = 2],
    [Legacy EXCEPT !.faults = Crashes(1), !.faulty = Only(<<3, "cli">>)],
    [Legacy EXCEPT !.faults = Tears(1)],
    \* the human identity, revocation, and a layout that is too new
    [Base EXCEPT !.does[1] = {"init", "human", "revoke"}, !.does[3] = {}, !.recovers = FALSE,
                 !.faults = [NoFault EXCEPT !.crash = 1, !.tear = 1]],
    [Base EXCEPT !.does[1] = {"init", "start"}, !.does[3] = {}, !.recovers = FALSE,
                 !.newer = {1}, !.faults = Tears(1)],
    [Base EXCEPT !.founded = 1, !.does[1] = {"revoke", "start"}, !.does[3] = {}, !.recovers = FALSE,
                 !.faults = [NoFault EXCEPT !.crash = 1, !.tear = 1]] }

=============================================================================
