---------------------------- MODULE MCUpdateJob ----------------------------
(***************************************************************************)
(* UpdateJob for TLC.  MCUpdateJob_jobs: a job, staged again once, and two *)
(* events.  MCUpdateJob_overlap: one job and one event.                    *)
(***************************************************************************)
EXTENDS UpdateJob
=============================================================================
