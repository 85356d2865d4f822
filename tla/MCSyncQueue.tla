---------------------------- MODULE MCSyncQueue ----------------------------
(***************************************************************************)
(* The instance of SyncQueue for TLC.  The threads are model values; there *)
(* is no symmetry because the run also checks liveness.                    *)
(***************************************************************************)
EXTENDS SyncQueue
=============================================================================
