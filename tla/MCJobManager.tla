---------------------------- MODULE MCJobManager ----------------------------
(* The instance of JobManager that TLC checks: one lane for all jobs.       *)
EXTENDS JobManager

OneLane == [j \in Jobs |-> "lane"]
=============================================================================
