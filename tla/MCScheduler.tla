----------------------------- MODULE MCScheduler -----------------------------
(* Small instances of Scheduler for TLC. *)
EXTENDS Scheduler, TLC

\* Workers are interchangeable, and so are the tasks other than the main task.
Symmetry == Permutations(Workers) \cup Permutations(Tasks \ {Main})
=============================================================================
