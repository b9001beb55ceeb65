----------------------------- MODULE MCTransfer -----------------------------
(***************************************************************************)
(* Small instance of Transfer for TLC.  A plan is one or two commands; each *)
(* run starts from one of them.                                             *)
(***************************************************************************)
EXTENDS Transfer

MCContents == {<<"a1", "a2">>, <<"c1">>}
MCInitial == [A |-> <<"a1", "a2">>, C |-> <<"c1">>]
MCRagged == {<<"a1", "a2">>}

Cp(version, from, to) == [version |-> version, from |-> from, to |-> to]

\* A parallel copy in two chunks; one content to two destinations, which share its object;
\* a resumable and a plain copy, alone and on one destination.
MCPlans ==
    { <<Cp("v2", "A", "d1")>>,
      <<Cp("v2", "C", "d1"), Cp("v2", "C", "d2")>>,
      <<Cp("v1", "A", "d1")>>,
      <<Cp("v0", "A", "d1")>>,
      <<Cp("v0", "C", "d1"), Cp("v1", "C", "d1")>> }

MCMaxFaults(p) == IF Len(p) = 1 THEN 2 ELSE 1

=============================================================================
