--------------------------- MODULE MCKqueuePoller ---------------------------
(* The instance of KqueuePoller for TLC, which KqueuePoller.cfg describes.  Tasks are
   interchangeable, but liveness is checked and symmetry would be unsound. *)
EXTENDS KqueuePoller
=============================================================================
