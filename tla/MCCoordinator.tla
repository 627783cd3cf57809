--------------------------- MODULE MCCoordinator ---------------------------
(***************************************************************************)
(* Coordinator for TLC, with three workers: one may hold a lock, one wait  *)
(* for it and one give up.  Two UIDs, and a third entry that is allocated  *)
(* while the others are in use.                                            *)
(***************************************************************************)
EXTENDS Coordinator
=============================================================================
