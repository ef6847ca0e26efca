--------------------------- MODULE MCEpollPoller ----------------------------
(* The instance of EpollPoller for TLC, which EpollPoller.cfg describes.  Tasks are
   interchangeable, but liveness is checked and symmetry would be unsound. *)
EXTENDS EpollPoller
=============================================================================
