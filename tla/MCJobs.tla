------------------------------- MODULE MCJobs -------------------------------
(***************************************************************************)
(* Instances of Jobs for TLC.  Job ids and handler tasks are always        *)
(* interchangeable; Sisters are when none of them runs in development mode. *)
(***************************************************************************)
EXTENDS Jobs, TLC

Symmetry == Permutations(Tasks) \cup Permutations(JobIds)

SymmetrySecure == Symmetry \cup Permutations(Sisters)
=============================================================================
