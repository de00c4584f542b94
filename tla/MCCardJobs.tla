------------------------------ MODULE MCCardJobs ------------------------------
(* Small instances of CardJobs for TLC.                                    *)
EXTENDS CardJobs
=============================================================================
