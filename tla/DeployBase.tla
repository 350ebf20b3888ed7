------------------------------ MODULE DeployBase ------------------------------
(* The identities shared by the tables of deployment records and tickets. *)
EXTENDS Naturals

CONSTANTS
  Project,      \* project keys
  Approval,     \* ids of approval tickets
  NoProject,    \* lock_key IS NULL, or no project
  NoApproval    \* approval_id = 0: a deployment without a ticket

ASSUME NullAssumption ==
  /\ NoProject  \notin Project
  /\ NoApproval \notin Approval
=============================================================================
