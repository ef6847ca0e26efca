---------------------------- MODULE MCWaitTable ----------------------------
(***************************************************************************)
(* WaitTable for TLC.                                                      *)
(***************************************************************************)
EXTENDS WaitTable, TLC

\* Tasks are interchangeable.
Symmetry == Permutations(Tasks)
=============================================================================
