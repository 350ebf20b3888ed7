---------------------------- MODULE DeployRecords ----------------------------
(***************************************************************************)
(* The table cd_deploy_logs and the SQL statements of                      *)
(* backend/deploy_run.py that write it.  Every operator below that         *)
(* constrains logs' is one statement, hence one atomic step: the row       *)
(* lookup of an UPDATE is part of the UPDATE.                              *)
(*                                                                         *)
(* A row is one deployment.  Its column lock_key carries the project lock: *)
(* a unique index admits one row per non-NULL value.  runner and           *)
(* heartbeat_at tell which process executes the row and whether it is      *)
(* known to be alive; the heartbeat is abstracted to fresh / not fresh,    *)
(* which is all that recover_stale_running distinguishes.                  *)
(*                                                                         *)
(* RecordSpec is the table under ANY interleaving of those statements, by  *)
(* clients that are free to misuse it: what it guarantees holds whatever   *)
(* the executors, the requests and the sweeps above it do.                 *)
(***************************************************************************)
EXTENDS DeployBase

CONSTANTS
  Instance,     \* server processes (INSTANCE_ID)
  MaxLog,       \* bound: rows ever inserted
  NoRunner,     \* runner IS NULL
  Gone          \* the INSTANCE_ID of a process that has ended: it embeds a
                \* random segment, so no later process carries it again

ASSUME MaxLogAssumption == MaxLog \in Nat \ {0}
ASSUME RunnerAssumption ==
  /\ NoRunner   \notin Instance
  /\ Gone       \notin Instance

VARIABLE logs   \* cd_deploy_logs: id -> row, Absent if not inserted yet

LogId == 1..MaxLog

Finished  == {"ok", "failed", "partial"}         \* written by a run that ended
LogStatus == {"absent", "pending", "running", "terminated", "interrupted",
              "rejected", "cancelled"} \cup Finished

Row == [st       : LogStatus,
        lock     : Project \cup {NoProject},
        project  : Project \cup {NoProject},
        approval : Approval \cup {NoApproval},
        runner   : Instance \cup {NoRunner, Gone},
        fresh    : BOOLEAN]

Absent == [st |-> "absent", lock |-> NoProject, project |-> NoProject,
           approval |-> NoApproval, runner |-> NoRunner, fresh |-> FALSE]

RecordInit == logs = [r \in LogId |-> Absent]

-----------------------------------------------------------------------------
(* Rows selected by a WHERE clause. *)

RowsOf(a)      == {r \in LogId : logs[r].st # "absent" /\ logs[r].approval = a}
PendingOf(a)   == {r \in RowsOf(a) : logs[r].st = "pending"}
RunningOf(a)   == {r \in RowsOf(a) : logs[r].st = "running"}

\* The unique index idx_cdl_lock_key would refuse a second row with this key.
Locked(p) == \E r \in LogId : logs[r].lock = p

\* find_running_deploy: the check made before the lock is taken.
Busy(p) == \E r \in LogId : logs[r].project = p /\ logs[r].st = "running"

\* The id the next INSERT gets.
NextId(r) == /\ logs[r].st = "absent"
             /\ \A q \in LogId : q < r => logs[q].st # "absent"

\* ORDER BY id DESC LIMIT 1
Latest(S, r) == r \in S /\ \A q \in S : q <= r

\* Mutant of Release: the key is kept.
ReleaseKeepsKey(S, s) ==
  logs' = [r \in LogId |-> IF r \in S THEN [logs[r] EXCEPT !.st = s] ELSE logs[r]]

\* UPDATE ... SET st, lock_key = NULL WHERE id IN S.  runner and heartbeat_at
\* are read of running rows only and written anew by each claim, so the model
\* forgets them.
Release(S, s) ==
  logs' = [r \in LogId |-> IF r \in S
                           THEN [logs[r] EXCEPT !.st = s, !.lock = NoProject,
                                                !.runner = NoRunner, !.fresh = FALSE]
                           ELSE logs[r]]

-----------------------------------------------------------------------------
(* The statements. *)

\* Mutants of InsertRunning: without the unique index, and taking the project
\* over from a row without heartbeat in the same statement.
InsertRunningNoIndex(r, p, a, i) ==
  /\ NextId(r)
  /\ logs' = [logs EXCEPT ![r] =
       [st |-> "running", lock |-> p, project |-> p, approval |-> a,
        runner |-> i, fresh |-> TRUE]]
InsertRunningTakesOver(r, p, a, i) ==
  /\ NextId(r)
  /\ \A q \in LogId : logs[q].lock = p => ~logs[q].fresh
  /\ logs' = [q \in LogId |->
       IF q = r THEN [st |-> "running", lock |-> p, project |-> p, approval |-> a,
                      runner |-> i, fresh |-> TRUE]
       ELSE IF logs[q].lock = p THEN [logs[q] EXCEPT !.st = "interrupted", !.lock = NoProject]
       ELSE logs[q]]

\* start_deploy_record: a row that is running from the start.
InsertRunning(r, p, a, i) ==
  /\ NextId(r)
  /\ ~Locked(p)
  /\ logs' = [logs EXCEPT ![r] =
       [st |-> "running", lock |-> p, project |-> p, approval |-> a,
        runner |-> i, fresh |-> TRUE]]

\* create_pending_deploy_record: the row a ticket is filed with; it takes no lock.
InsertPending(r, p, a) ==
  /\ NextId(r)
  /\ logs' = [logs EXCEPT ![r] =
       [Absent EXCEPT !.st = "pending", !.project = p, !.approval = a]]

\* Mutant of ClaimPending: the key is not subject to the index.
ClaimPendingNoIndex(r, p, a, i) ==
  /\ Latest(PendingOf(a), r)
  /\ logs' = [logs EXCEPT ![r] =
       [@ EXCEPT !.st = "running", !.lock = p, !.project = p,
                 !.runner = i, !.fresh = TRUE]]

\* claim_pending_deploy_record, when the ticket has a pending row and the
\* index accepts the key.
ClaimPending(r, p, a, i) ==
  /\ Latest(PendingOf(a), r)
  /\ ~Locked(p)
  /\ logs' = [logs EXCEPT ![r] =
       [@ EXCEPT !.st = "running", !.lock = p, !.project = p,
                 !.runner = i, !.fresh = TRUE]]

\* reset_pending_deploy_record
ResetPending(a) == Release(RunningOf(a), "pending")

\* mark_approval_log_terminal
MarkTerminal(a, s) ==
  /\ s \in {"rejected", "cancelled"}
  /\ Release(PendingOf(a), s)

\* Mutant of Finish: every outcome is written unconditionally.
FinishAlways(r, s) == logs[r].st # "absent" /\ Release({r}, s)

\* finish_deploy_record: "terminated" is written unconditionally, the other
\* outcomes only over a row that is still running.
Finish(r, s) ==
  /\ s \in Finished \cup {"terminated"}
  /\ logs[r].st # "absent"
  /\ IF s = "terminated" \/ logs[r].st = "running"
     THEN Release({r}, s)
     ELSE UNCHANGED logs

\* mark_deploy_cancelled, its UPDATE
Terminate(r) == Release({q \in {r} : logs[q].st = "running"}, "terminated")

\* _heartbeat_loop, one pass of process i over the deployments it has registered
Beat(i, S) ==
  logs' = [r \in LogId |->
             IF r \in S /\ logs[r].runner = i /\ logs[r].st = "running"
             THEN [logs[r] EXCEPT !.fresh = TRUE]
             ELSE logs[r]]

\* Time passes: the last heartbeat of a running row is now older than
\* stale_seconds.  (No statement: heartbeat_at stays, the clock moves.)
Lapse(r) ==
  /\ logs[r].st = "running"
  /\ logs[r].fresh
  /\ logs' = [logs EXCEPT ![r].fresh = FALSE]

\* A process ends; its INSTANCE_ID stays in the rows but names nobody.
Orphan(i) ==
  logs' = [r \in LogId |->
             IF logs[r].runner = i THEN [logs[r] EXCEPT !.runner = Gone]
                                   ELSE logs[r]]

\* Mutants of Stale: only rows without a runner, and every running row.
StaleNoRunner == {r \in LogId : logs[r].st = "running" /\ logs[r].runner = NoRunner}
StaleAll      == {r \in LogId : logs[r].st = "running"}

\* recover_stale_running
Stale == {r \in LogId : logs[r].st = "running" /\ ~logs[r].fresh}
RecoverStale == Release(Stale, "interrupted")

\* recover_on_startup, its last UPDATE: tickets' interrupted rows are runnable again
Requeue == Release({r \in LogId : /\ logs[r].st = "interrupted"
                                  /\ logs[r].approval # NoApproval}, "pending")

-----------------------------------------------------------------------------
RecordNext ==
  \/ \E r \in LogId, p \in Project, i \in Instance :
       \/ \E a \in Approval \cup {NoApproval} : InsertRunning(r, p, a, i)
       \/ \E a \in Approval : ClaimPending(r, p, a, i)
  \/ \E r \in LogId, p \in Project, a \in Approval : InsertPending(r, p, a)
  \/ \E a \in Approval :
       \/ ResetPending(a)
       \/ \E s \in {"rejected", "cancelled"} : MarkTerminal(a, s)
  \/ \E r \in LogId :
       \/ \E s \in Finished \cup {"terminated"} : Finish(r, s)
       \/ Terminate(r)
       \/ Lapse(r)
  \/ \E i \in Instance : Orphan(i) \/ \E S \in SUBSET LogId : Beat(i, S)
  \/ RecoverStale
  \/ Requeue

RecordSpec == RecordInit /\ [][RecordNext]_logs

-----------------------------------------------------------------------------
RecordTypeOK == logs \in [LogId -> Row]

\* lock_key is set on exactly the running rows, to their own project
\* (database/init_mysql.sql:159: "only a running record is non-NULL").  A row
\* that ends, or is sent back to pending, without giving up its key would lock
\* its project for good; a running row without one would not keep others out.
LockIffRunning ==
  \A r \in LogId :
    logs[r].lock = IF logs[r].st = "running" THEN logs[r].project ELSE NoProject

\* At most one deployment of a project is running (deploy_run.py:6).  Neither
\* the check of find_running_deploy nor the claim of a ticket's row excludes a
\* second one by itself: only the unique index does, and only while
\* LockIffRunning holds.
OneRunningPerProject ==
  \A r, q \in LogId :
    /\ logs[r].st = "running" /\ logs[q].st = "running"
    /\ logs[r].project = logs[q].project
    => r = q

\* What a step may do to a row that has ended.  A cancelled run stays
\* terminated for good; a row that ended otherwise can only be overwritten as
\* terminated (the unconditional branch of finish_deploy_record, a run that
\* notices late that it lost its row); an interrupted row without a ticket is
\* never made runnable again.
EndedRowStep ==
  \A r \in LogId :
    logs'[r].st # logs[r].st =>
      /\ logs[r].st # "terminated"
      /\ logs[r].st \in Finished \cup {"rejected", "cancelled"}
           => logs'[r].st = "terminated"
      /\ logs[r].st = "interrupted" /\ logs[r].approval = NoApproval
           => logs'[r].st = "terminated"
EndedRowsStay == [][EndedRowStep]_logs

\* Seen as locks, the running rows implement ProjectLock: every statement takes
\* one free lock, gives some up, or touches none (deploy_run.py:6 and the
\* unique index; no statement hands a project from one row to another).
HolderOf == [p \in Project |->
  IF Busy(p) THEN CHOOSE r \in LogId : logs[r].st = "running" /\ logs[r].project = p
             ELSE 0]
Lock == INSTANCE ProjectLock WITH Holder <- LogId, Free <- 0, holder <- HolderOf
ImplementsProjectLock == Lock!LockSpec
=============================================================================
