------------------------------ MODULE MCRuntime ------------------------------
(***************************************************************************)
(* Runtime for TLC.                                                        *)
(***************************************************************************)
EXTENDS Runtime, TLC

\* Workers and threads are interchangeable, and so are the tasks but the main one.
Symmetry == Permutations(Workers) \cup Permutations(Threads)
            \cup Permutations(Tasks \ {MainTask})
=============================================================================
