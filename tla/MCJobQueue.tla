----------------------------- MODULE MCJobQueue -----------------------------
(***************************************************************************)
(* Three jobs, for TLC.                                                    *)
(***************************************************************************)
EXTENDS JobQueue
=============================================================================
