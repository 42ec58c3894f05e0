---------------------------- MODULE MCDurableJobs ----------------------------
(* Instances of DurableJobs for TLC. *)
EXTENDS DurableJobs

\* Every job may be tried twice.
Two == [j \in Jobs |-> 2]
==============================================================================
