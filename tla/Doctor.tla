------------------------------- MODULE Doctor -------------------------------
(***************************************************************************)
(* `misaka doctor` on the data directories of Enrollment: what each of its  *)
(* checks says of the files that commands, crashes and torn writes left.    *)
(* A check is "ok", "warn", "error" or "skip", and the report is healthy    *)
(* when none is "error".  Permissions, the running Sister and the external  *)
(* services are other checks (the local API is in module Host).             *)
(***************************************************************************)
EXTENDS Enrollment

\* A store that only tells absent, malformed and well-formed files apart.
Stored(d, f, absent) ==
    CASE disk[d][f].state = "whole" -> "ok"
      [] disk[d][f].state = "missing" -> absent
      [] disk[d][f].state = "torn" -> "error"

DoctorLayout(d) ==
    IF Readable(d, "layout") /\ disk[d]["layout"].val > SupportedLayout THEN "error"
    ELSE Stored(d, "layout", "warn")

DoctorToken(d) == Stored(d, "token", "warn")
DoctorIdentity(d) == Stored(d, "identity", "skip")
DoctorSisterKey(d) == Stored(d, "sister-key", "warn")
DoctorIrohKey(d) == Stored(d, "iroh-key", "ok")
DoctorNetworkId(d) == Stored(d, "network-id", "skip")

\* The descriptor, and on the device that owns it, the key and the serial allocator: an
\* allocator that cannot be read is a warning.
DoctorAuthority(d) == Stored(d, "network", "skip")
DoctorOwnerKey(d) ==
    IF Readable(d, "network") /\ LoadWithKey(d).error THEN "error" ELSE "ok"
DoctorSerial(d) ==
    IF Readable(d, "network") /\ disk[d]["authority-key"].state # "missing"
       /\ disk[d]["serial"].state = "torn"
    THEN "warn" ELSE "ok"

\* The membership, where there is a descriptor to verify it with; revocations that cannot
\* be read are a warning.
MembershipProblems(d) ==
    LET c == disk[d]["membership"].val
    IN \/ ~Verifies(c, disk[d]["network"].val.auth)
       \/ ~ValidAt(c, now)
       \/ /\ Readable(d, "identity") /\ Readable(d, "sister-key")
          /\ <<c.sister, c.key>> # <<disk[d]["identity"].val, disk[d]["sister-key"].val>>
       \/ IsRevoked(d, "sister", c.serial)

\* Mutant: the certificate is looked at, not the list of revocations.
DoctorMembershipUnrevoked(d) ==
    IF ~Readable(d, "network") THEN "skip"
    ELSE IF Readable(d, "membership")
            /\ ~(/\ Verifies(disk[d]["membership"].val, disk[d]["network"].val.auth)
                 /\ ValidAt(disk[d]["membership"].val, now)) THEN "error"
    ELSE Stored(d, "membership", "skip")

DoctorMembership(d) ==
    IF ~Readable(d, "network") THEN "skip"
    ELSE IF Readable(d, "membership") /\ MembershipProblems(d) THEN "error"
    ELSE Stored(d, "membership", "skip")

DoctorBinding(d) == Stored(d, "binding", "skip")

\* Identity, key and membership of a human: all there, all absent, or a problem.
DoctorHuman(d) ==
    LET states == {disk[d][f].state : f \in {"human", "human-key", "human-membership"}}
    IN CASE states = {"missing"} -> "skip"
         [] "torn" \in states -> "error"
         [] states = {"missing", "whole"} -> "warn"
         [] OTHER -> IF ~Readable(d, "network") THEN "warn"
                     ELSE IF disk[d]["human-membership"].val.auth = disk[d]["network"].val.auth
                       THEN "ok" ELSE "error"

DoctorReport(d) ==
    {DoctorLayout(d), DoctorToken(d), DoctorIdentity(d), DoctorSisterKey(d), DoctorIrohKey(d),
     DoctorNetworkId(d), DoctorAuthority(d), DoctorOwnerKey(d), DoctorSerial(d),
     DoctorMembership(d), DoctorBinding(d), DoctorHuman(d)}
DoctorHealthy(d) == "error" \notin DoctorReport(d)

-----------------------------------------------------------------------------
\* What stops a Sister and is no error in the report: the allocator or the revocations
\* cannot be read (warnings), or a command was interrupted between the descriptor and the
\* membership.
Silent(d) ==
    \/ DoctorSerial(d) = "warn"
    \/ disk[d]["revocations"].state = "torn"
    \/ Readable(d, "network") /\ disk[d]["membership"].state = "missing"

\* A `start` that gives up on the files of its directory leaves a directory that doctor
\* calls a problem, but for the three cases it is silent about: whatever sequence of
\* interrupted commands, torn writes, revocations and expiries led there (`doctor::run`
\* against the stores that `start` opens).
DoctorExplains ==
    [][\A d \in Devices :
         LET p == <<d, "sister">> IN
         /\ proc[p].prog = "start" /\ ~Running(d) /\ proc'[p] = Idle
         /\ faults' = faults /\ plan.flag[d] = 0
         => ~DoctorHealthy(d) \/ Silent(d)]_vars
=============================================================================
