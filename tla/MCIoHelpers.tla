---------------------------- MODULE MCIoHelpers -----------------------------
(* The instance of IoHelpers for TLC, which IoHelpers.cfg describes.  Tasks are
   interchangeable, but liveness is checked and symmetry would be unsound. *)
EXTENDS IoHelpers
=============================================================================
