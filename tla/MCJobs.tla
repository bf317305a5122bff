------------------------------- MODULE MCJobs -------------------------------
(* Instances of the operation store for TLC. *)
EXTENDS Jobs
=============================================================================
