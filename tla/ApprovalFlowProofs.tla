--------------------------- MODULE ApprovalFlowProofs ---------------------------
(***************************************************************************)
(* Every step of ApprovalFlow is, to each of the two tables, one of its    *)
(* statements or nothing.  What is proved of the tables under any          *)
(* interleaving of their statements therefore holds of the system, for any *)
(* number of workers, processes, tickets, rows and projects, with crashes, *)
(* missed heartbeats and failing statements.  Most steps call a statement  *)
(* with arguments the worker carries along; FlowInv says these are what    *)
(* the worker's place in the code requires.                                *)
(***************************************************************************)
EXTENDS ApprovalFlow, TLAPS

-----------------------------------------------------------------------------
(***************************************************************************)
(* What the table cd_deploy_logs guarantees under any interleaving of the  *)
(* statements of deploy_run.py, for any number of rows, projects, tickets  *)
(* and processes.  RecordInv is inductive: the unique index keeps a second *)
(* lock_key out, and LockIffRunning is what turns that into one running    *)
(* row per project.                                                        *)
(***************************************************************************)

RecordInv == RecordTypeOK /\ LockIffRunning /\ OneRunningPerProject

\* Any statement that ends rows or sends them back keeps the invariant,
\* because it gives up their keys in the same UPDATE.
LEMMA ReleaseInv ==
  ASSUME RecordInv, NEW S, NEW s \in LogStatus \ {"running"}, Release(S, s)
  PROVE  RecordInv'
<1> USE DEF RecordInv, RecordTypeOK, Release
<1>1. RecordTypeOK'
  BY DEF Row
<1>2. LockIffRunning'
  BY DEF LockIffRunning, Row
<1>3. OneRunningPerProject'
  BY DEF OneRunningPerProject, Row
<1> QED BY <1>1, <1>2, <1>3

\* start_deploy_record keeps the invariant, because of the unique index.
LEMMA InsertRunningInv ==
  ASSUME RecordInv, NEW r \in LogId, NEW p \in Project,
         NEW a \in Approval \cup {NoApproval}, NEW i \in Instance,
         InsertRunning(r, p, a, i)
  PROVE  RecordInv'
<1> USE DEF RecordInv, RecordTypeOK, InsertRunning
<1>1. RecordTypeOK'
  BY DEF Row, LogStatus
<1>2. LockIffRunning'
  BY DEF LockIffRunning, Row
<1>3. OneRunningPerProject'
  BY DEF OneRunningPerProject, LockIffRunning, Locked, Row
<1> QED BY <1>1, <1>2, <1>3

\* create_pending_deploy_record keeps the invariant: it takes no key.
LEMMA InsertPendingInv ==
  ASSUME RecordInv, NEW r \in LogId, NEW p \in Project, NEW a \in Approval,
         InsertPending(r, p, a)
  PROVE  RecordInv'
<1> USE DEF RecordInv, RecordTypeOK, InsertPending, Absent
<1>1. RecordTypeOK'
  BY DEF Row, LogStatus
<1>2. LockIffRunning'
  BY DEF LockIffRunning, Row
<1>3. OneRunningPerProject'
  BY DEF OneRunningPerProject, Row
<1> QED BY <1>1, <1>2, <1>3

\* claim_pending_deploy_record keeps the invariant, because of the unique index.
LEMMA ClaimPendingInv ==
  ASSUME RecordInv, NEW r \in LogId, NEW p \in Project, NEW a \in Approval,
         NEW i \in Instance, ClaimPending(r, p, a, i)
  PROVE  RecordInv'
<1> USE DEF RecordInv, RecordTypeOK, ClaimPending
<1>1. RecordTypeOK'
  BY DEF Row, LogStatus
<1>2. LockIffRunning'
  BY DEF LockIffRunning, Row
<1>3. OneRunningPerProject'
  BY DEF OneRunningPerProject, LockIffRunning, Locked, Row
<1> QED BY <1>1, <1>2, <1>3

\* Heartbeats, their age and the end of a process touch neither status nor key.
ColumnStep ==
  \/ \E i \in Instance : Orphan(i) \/ \E S \in SUBSET LogId : Beat(i, S)
  \/ \E r \in LogId : Lapse(r)

\* Such a step leaves status, key, project and ticket of every row alone.
LEMMA ColumnsOnly ==
  ASSUME RecordTypeOK, ColumnStep
  PROVE  /\ RecordTypeOK'
         /\ \A r \in LogId : /\ logs'[r].st       = logs[r].st
                             /\ logs'[r].lock     = logs[r].lock
                             /\ logs'[r].project  = logs[r].project
                             /\ logs'[r].approval = logs[r].approval
<1> USE DEF RecordTypeOK, Row
<1>1. CASE \E i \in Instance : Orphan(i)
  BY <1>1 DEF Orphan
<1>2. CASE \E i \in Instance, S \in SUBSET LogId : Beat(i, S)
  BY <1>2 DEF Beat
<1>3. CASE \E r \in LogId : Lapse(r)
  <2>1. PICK r \in LogId : Lapse(r)
    BY <1>3
  <2>2. logs' = [logs EXCEPT ![r].fresh = FALSE]
    BY <2>1 DEF Lapse
  <2> QED BY <2>2
<1> QED BY <1>1, <1>2, <1>3 DEF ColumnStep

\* Hence it keeps the invariant.
LEMMA ColumnInv ==
  ASSUME RecordInv, ColumnStep
  PROVE  RecordInv'
<1>1. LockIffRunning'
  BY ColumnsOnly DEF RecordInv, LockIffRunning
<1>2. OneRunningPerProject'
  BY ColumnsOnly DEF RecordInv, OneRunningPerProject
<1> QED BY <1>1, <1>2, ColumnsOnly DEF RecordInv

\* Every statement of deploy_run.py keeps the invariant.
LEMMA RecordNextInv == RecordInv /\ [RecordNext]_logs => RecordInv'
<1> SUFFICES ASSUME RecordInv, [RecordNext]_logs PROVE RecordInv'
  OBVIOUS
<1>1. ASSUME NEW r \in LogId, NEW p \in Project, NEW i \in Instance,
             NEW a \in Approval \cup {NoApproval}, InsertRunning(r, p, a, i)
      PROVE  RecordInv'
  BY <1>1, InsertRunningInv
<1>2. ASSUME NEW r \in LogId, NEW p \in Project, NEW i \in Instance,
             NEW a \in Approval, ClaimPending(r, p, a, i)
      PROVE  RecordInv'
  BY <1>2, ClaimPendingInv
<1>3. ASSUME NEW r \in LogId, NEW p \in Project, NEW a \in Approval,
             InsertPending(r, p, a)
      PROVE  RecordInv'
  BY <1>3, InsertPendingInv
<1>4. ASSUME NEW a \in Approval, ResetPending(a)
      PROVE  RecordInv'
  BY <1>4, ReleaseInv DEF ResetPending, LogStatus
<1>5. ASSUME NEW a \in Approval, NEW s \in {"rejected", "cancelled"}, MarkTerminal(a, s)
      PROVE  RecordInv'
  BY <1>5, ReleaseInv DEF MarkTerminal, LogStatus
<1>6. ASSUME UNCHANGED logs
      PROVE  RecordInv'
  BY <1>6 DEF RecordInv, RecordTypeOK, LockIffRunning, OneRunningPerProject
<1>7. ASSUME NEW r \in LogId, NEW s \in Finished \cup {"terminated"}, Finish(r, s)
      PROVE  RecordInv'
  <2>1. s \in LogStatus \ {"running"}
    BY DEF LogStatus, Finished
  <2>2. Release({r}, s) \/ UNCHANGED logs
    BY <1>7 DEF Finish
  <2> QED BY <2>1, <2>2, <1>6, ReleaseInv
<1>8. ASSUME NEW r \in LogId, Terminate(r)
      PROVE  RecordInv'
  BY <1>8, ReleaseInv DEF Terminate, LogStatus
<1>9. ASSUME ColumnStep
      PROVE  RecordInv'
  BY <1>9, ColumnInv
<1>10. ASSUME RecoverStale \/ Requeue
       PROVE  RecordInv'
  BY <1>10, ReleaseInv DEF RecoverStale, Requeue, LogStatus
<1> QED
  BY <1>1, <1>2, <1>3, <1>4, <1>5, <1>6, <1>7, <1>8, <1>9, <1>10 DEF RecordNext, ColumnStep

\* The empty table satisfies the invariant.
LEMMA RecordInitInv == RecordInit => RecordInv
  BY DEF RecordInit, RecordInv, RecordTypeOK, LockIffRunning, OneRunningPerProject,
         Absent, Row, LogStatus

\* Under any interleaving of the statements the table is well typed, lock_key is
\* set on exactly the running rows, and a project has at most one of these.
THEOREM RecordSafety == RecordSpec => []RecordInv
<1>1. RecordInit => RecordInv
  BY RecordInitInv
<1>2. RecordInv /\ [RecordNext]_logs => RecordInv'
  BY RecordNextInv
<1> QED BY <1>1, <1>2, PTL DEF RecordSpec

\* At most one deployment of a project is running (deploy_run.py:6).
THEOREM RecordOneRunning == RecordSpec => []OneRunningPerProject
<1>1. RecordInv => OneRunningPerProject
  BY DEF RecordInv
<1> QED BY <1>1, RecordSafety, PTL

\* lock_key is held by exactly the running rows (init_mysql.sql:159).
THEOREM RecordLockIffRunning == RecordSpec => []LockIffRunning
<1>1. RecordInv => LockIffRunning
  BY DEF RecordInv
<1> QED BY <1>1, RecordSafety, PTL

-------------------------------------------------------------------------------
(* Rows that have ended. *)

\* Ending a set of rows that are running, pending, or interrupted with a ticket
\* changes no row that has ended.
LEMMA ReleaseEnded ==
  ASSUME RecordTypeOK, NEW S, NEW s \in LogStatus, Release(S, s),
         \/ s = "terminated" /\ \A r \in S \cap LogId : logs[r].st # "absent"
         \/ \A r \in S \cap LogId : \/ logs[r].st \in {"running", "pending"}
                                    \/ /\ logs[r].st = "interrupted"
                                       /\ logs[r].approval # NoApproval
  PROVE  EndedRowStep
<1>1. \A r \in LogId : logs'[r].st = IF r \in S THEN s ELSE logs[r].st
  BY DEF Release, RecordTypeOK, Row
<1> QED BY <1>1 DEF EndedRowStep, Finished

\* A terminated row stays so, a row with another outcome can at most become
\* terminated, and an interrupted row without a ticket is never run again:
\* whatever order executors, requests and sweeps write in.
THEOREM RecordEnded == RecordSpec => EndedRowsStay
<1>1. RecordTypeOK /\ [RecordNext]_logs => [EndedRowStep]_logs
  <2> SUFFICES ASSUME RecordTypeOK, RecordNext PROVE EndedRowStep
    OBVIOUS
  <2>1. ASSUME NEW r \in LogId, logs[r].st \in {"absent", "pending"},
               \A q \in LogId : q # r => logs'[q].st = logs[q].st
        PROVE  EndedRowStep
    BY <2>1 DEF EndedRowStep, Finished
  <2>2. ASSUME NEW r \in LogId, NEW p \in Project, NEW a \in Approval \cup {NoApproval},
               \/ \E i \in Instance : InsertRunning(r, p, a, i) \/ ClaimPending(r, p, a, i)
               \/ InsertPending(r, p, a)
        PROVE  EndedRowStep
    <3>1. logs[r].st \in {"absent", "pending"}
      BY <2>2 DEF InsertRunning, ClaimPending, InsertPending, NextId, Latest, PendingOf
    <3>2. \A q \in LogId : q # r => logs'[q].st = logs[q].st
      BY <2>2 DEF InsertRunning, ClaimPending, InsertPending, RecordTypeOK
    <3> QED BY <3>1, <3>2, <2>1
  <2>3. ASSUME NEW a \in Approval,
               ResetPending(a) \/ \E s \in {"rejected", "cancelled"} : MarkTerminal(a, s)
        PROVE  EndedRowStep
    BY <2>3, ReleaseEnded
       DEF ResetPending, MarkTerminal, RunningOf, PendingOf, LogStatus
  <2>4. ASSUME NEW r \in LogId, NEW s \in Finished \cup {"terminated"}, Finish(r, s)
        PROVE  EndedRowStep
    <3>1. CASE UNCHANGED logs
      BY <3>1 DEF EndedRowStep
    <3>2. CASE Release({r}, s) /\ (s = "terminated" \/ logs[r].st = "running")
      BY <2>4, <3>2, ReleaseEnded DEF Finish, LogStatus
    <3> QED BY <2>4, <3>1, <3>2 DEF Finish
  <2>5. ASSUME NEW r \in LogId, Terminate(r)
        PROVE  EndedRowStep
    BY <2>5, ReleaseEnded DEF Terminate, LogStatus
  <2>6. ASSUME ColumnStep
        PROVE  EndedRowStep
    BY <2>6, ColumnsOnly DEF EndedRowStep
  <2>7. ASSUME RecoverStale \/ Requeue
        PROVE  EndedRowStep
    BY <2>7, ReleaseEnded DEF RecoverStale, Requeue, Stale, LogStatus
  <2> QED
    BY <2>2, <2>3, <2>4, <2>5, <2>6, <2>7 DEF RecordNext, ColumnStep
<1>2. RecordInv => RecordTypeOK
  BY DEF RecordInv
<1> QED BY <1>1, <1>2, RecordSafety, PTL DEF RecordSpec, EndedRowsStay

-------------------------------------------------------------------------------
(* The running rows as project locks. *)

Holds(l, r, p) == l[r].st = "running" /\ l[r].project = p
HolderIn(l) == [p \in Project |->
  IF \E r \in LogId : Holds(l, r, p) THEN CHOOSE r \in LogId : Holds(l, r, p) ELSE 0]
OneHolder(l) == \A r, q \in LogId, p \in Project : Holds(l, r, p) /\ Holds(l, q, p) => r = q

\* HolderIn names the running row of a project, and 0 if it has none.
LEMMA HolderMeaning ==
  ASSUME NEW l, OneHolder(l)
  PROVE  \A p \in Project :
           \/ HolderIn(l)[p] \in LogId /\ Holds(l, HolderIn(l)[p], p)
           \/ HolderIn(l)[p] = 0 /\ \A r \in LogId : ~Holds(l, r, p)
  BY DEF HolderIn, OneHolder

\* A running row of the project is the row HolderIn names.
LEMMA HolderIs ==
  ASSUME NEW l, OneHolder(l), NEW p \in Project, NEW r \in LogId, Holds(l, r, p)
  PROVE  HolderIn(l)[p] = r
  BY HolderMeaning DEF OneHolder

\* HolderOf is HolderIn of the table, before and after a step.
LEMMA HolderOfIn == /\ HolderOf = HolderIn(logs)
                    /\ HolderOf' = HolderIn(logs')
  BY DEF HolderOf, HolderIn, Busy, Holds

\* A step after which every running row was running before, for the same
\* project, gives up locks and takes none.
LEMMA OnlyDrops ==
  ASSUME OneHolder(logs), OneHolder(logs'),
         \A r \in LogId, p \in Project : Holds(logs', r, p) => Holds(logs, r, p)
  PROVE  \E S \in SUBSET Project : Lock!Drop(S)
<1> DEFINE S == {p \in Project : \A r \in LogId : ~Holds(logs', r, p)}
<1>1. \A p \in Project : HolderOf'[p] = IF p \in S THEN 0 ELSE HolderOf[p]
  <2> TAKE p \in Project
  <2>1. CASE p \in S
    BY <2>1, HolderMeaning, HolderOfIn, MaxLogAssumption DEF LogId
  <2>2. CASE p \notin S
    <3>1. PICK r \in LogId : Holds(logs', r, p)
      BY <2>2
    <3>2. HolderOf'[p] = r
      BY <3>1, HolderIs, HolderOfIn
    <3>3. HolderOf[p] = r
      BY <3>1, HolderIs, HolderOfIn
    <3> QED BY <2>2, <3>2, <3>3
  <2> QED BY <2>1, <2>2
<1>2. HolderOf' = [p \in Project |-> IF p \in S THEN 0 ELSE HolderOf[p]]
  BY <1>1 DEF HolderOf
<1> QED BY <1>2 DEF Lock!Drop

\* A step that makes row r the running row of a free project takes its lock.
LEMMA OnlyTakes ==
  ASSUME OneHolder(logs), OneHolder(logs'), NEW r \in LogId, NEW p \in Project,
         \A q \in LogId : ~Holds(logs, q, p),
         \A x \in Project : ~Holds(logs, r, x),
         Holds(logs', r, p),
         \A q \in LogId, x \in Project :
           x # p => (Holds(logs', q, x) <=> Holds(logs, q, x))
  PROVE  Lock!Take(p, r)
<1>1. HolderOf[p] = 0
  BY HolderMeaning, HolderOfIn
<1>2. \A x \in Project : HolderOf[x] # r
  BY HolderMeaning, HolderOfIn, MaxLogAssumption DEF LogId
<1>3. HolderOf'[p] = r
  BY HolderIs, HolderOfIn
<1>4. \A x \in Project \ {p} : HolderOf'[x] = HolderOf[x]
  <2> TAKE x \in Project \ {p}
  <2>1. CASE \E q \in LogId : Holds(logs, q, x)
    <3>1. PICK q \in LogId : Holds(logs, q, x)
      BY <2>1
    <3>2. HolderIn(logs)[x] = q
      BY <3>1, HolderIs
    <3>3. HolderIn(logs')[x] = q
      BY <3>1, HolderIs
    <3> QED BY <3>2, <3>3, HolderOfIn
  <2>2. CASE \A q \in LogId : ~Holds(logs, q, x)
    BY <2>2, HolderMeaning, HolderOfIn
  <2> QED BY <2>1, <2>2
<1>5. HolderOf' = [HolderOf EXCEPT ![p] = r]
  <2>1. /\ HolderOf  = [x \in Project |-> HolderOf[x]]
        /\ HolderOf' = [x \in Project |-> HolderOf'[x]]
    BY DEF HolderOf
  <2> HIDE DEF HolderOf
  <2> QED BY <2>1, <1>3, <1>4
<1> QED BY <1>1, <1>2, <1>5 DEF Lock!Take

\* The table implements a lock per project: whatever the executors, requests
\* and sweeps do, a project passes from one deployment to another only by being
\* free in between.
THEOREM RecordsImplementLock == RecordSpec => ImplementsProjectLock
<1>1. RecordInit => Lock!LockInit
  BY DEF RecordInit, Absent, Lock!LockInit, HolderOf, Busy
<1>2. RecordInv /\ RecordInv' /\ [RecordNext]_logs => [Lock!LockNext]_HolderOf
  <2> SUFFICES ASSUME RecordInv, RecordInv', [RecordNext]_logs
               PROVE  [Lock!LockNext]_HolderOf
    OBVIOUS
  <2>1. OneHolder(logs) /\ OneHolder(logs')
    BY DEF RecordInv, OneRunningPerProject, OneHolder, Holds
  <2>2. ASSUME \A r \in LogId, p \in Project : Holds(logs', r, p) => Holds(logs, r, p)
        PROVE  Lock!LockNext
    BY <2>1, <2>2, OnlyDrops DEF Lock!LockNext
  <2>3. CASE UNCHANGED logs
    BY <2>3, HolderOfIn
  <2>4. ASSUME NEW S, NEW s \in LogStatus \ {"running"}, Release(S, s)
        PROVE  Lock!LockNext
    BY <2>2, <2>4 DEF Release, Holds, RecordInv, RecordTypeOK, Row
  <2>5. ASSUME NEW r \in LogId, NEW p \in Project, ~Locked(p), logs[r].st # "running",
               logs'[r].st = "running", logs'[r].project = p,
               \A q \in LogId \ {r} : logs'[q] = logs[q]
        PROVE  Lock!LockNext
    <3>1. Lock!Take(p, r)
      <4>1. \A q \in LogId : ~Holds(logs, q, p)
        BY <2>5 DEF Holds, Locked, RecordInv, LockIffRunning
      <4>2. \A q \in LogId, x \in Project :
               x # p => (Holds(logs', q, x) <=> Holds(logs, q, x))
        BY <2>5 DEF Holds
      <4>3. Holds(logs', r, p) /\ \A x \in Project : ~Holds(logs, r, x)
        BY <2>5 DEF Holds
      <4> QED BY <2>1, <4>1, <4>2, <4>3, OnlyTakes
    <3> QED BY <3>1 DEF Lock!LockNext
  <2>6. ASSUME NEW r \in LogId, NEW p \in Project, NEW i \in Instance,
               \/ \E a \in Approval \cup {NoApproval} : InsertRunning(r, p, a, i)
               \/ \E a \in Approval : ClaimPending(r, p, a, i)
        PROVE  Lock!LockNext
    <3>1. ~Locked(p) /\ logs[r].st # "running"
      BY <2>6 DEF InsertRunning, ClaimPending, NextId, Latest, PendingOf
    <3>2. logs'[r].st = "running" /\ logs'[r].project = p
      <4>1. CASE \E a \in Approval \cup {NoApproval} : InsertRunning(r, p, a, i)
        BY <4>1 DEF InsertRunning, RecordInv, RecordTypeOK
      <4>2. CASE \E a \in Approval : ClaimPending(r, p, a, i)
        BY <4>2 DEF ClaimPending, RecordInv, RecordTypeOK, Row
      <4> QED BY <2>6, <4>1, <4>2
    <3>3. \A q \in LogId \ {r} : logs'[q] = logs[q]
      BY <2>6 DEF InsertRunning, ClaimPending, RecordInv, RecordTypeOK
    <3> QED BY <3>1, <3>2, <3>3, <2>5
  <2>7. ASSUME NEW r \in LogId, NEW p \in Project, NEW a \in Approval,
               InsertPending(r, p, a)
        PROVE  Lock!LockNext
    BY <2>2, <2>7 DEF InsertPending, Absent, Holds, RecordInv, RecordTypeOK, Row
  <2>8. ASSUME ColumnStep
        PROVE  Lock!LockNext
    BY <2>2, <2>8, ColumnsOnly DEF Holds, RecordInv
  <2>9. ASSUME NEW a \in Approval,
               ResetPending(a) \/ \E s \in {"rejected", "cancelled"} : MarkTerminal(a, s)
        PROVE  Lock!LockNext
    BY <2>4, <2>9 DEF ResetPending, MarkTerminal, LogStatus
  <2>10. ASSUME NEW r \in LogId,
                Terminate(r) \/ \E s \in Finished \cup {"terminated"} : Finish(r, s)
         PROVE  [Lock!LockNext]_HolderOf
    BY <2>3, <2>4, <2>10 DEF Terminate, Finish, LogStatus, Finished
  <2>11. ASSUME RecoverStale \/ Requeue
         PROVE  Lock!LockNext
    BY <2>4, <2>11 DEF RecoverStale, Requeue, LogStatus
  <2>12. ASSUME RecordNext
         PROVE  [Lock!LockNext]_HolderOf
    <3> HIDE DEF HolderOf
    <3>1. CASE \E r \in LogId, p \in Project, i \in Instance :
                 \/ \E a \in Approval \cup {NoApproval} : InsertRunning(r, p, a, i)
                 \/ \E a \in Approval : ClaimPending(r, p, a, i)
      BY <2>6, <3>1
    <3>2. CASE \E r \in LogId, p \in Project, a \in Approval : InsertPending(r, p, a)
      BY <2>7, <3>2
    <3>3. CASE ColumnStep
      BY <2>8, <3>3
    <3>4. CASE \E a \in Approval :
                 ResetPending(a) \/ \E s \in {"rejected", "cancelled"} : MarkTerminal(a, s)
      BY <2>9, <3>4
    <3>5. CASE \E r \in LogId :
                 Terminate(r) \/ \E s \in Finished \cup {"terminated"} : Finish(r, s)
      BY <2>10, <3>5
    <3>6. CASE RecoverStale \/ Requeue
      BY <2>11, <3>6
    <3> QED BY <2>12, <3>1, <3>2, <3>3, <3>4, <3>5, <3>6 DEF RecordNext, ColumnStep
  <2> QED BY <2>3, <2>12
<1> QED BY <1>1, <1>2, RecordSafety, PTL DEF RecordSpec, ImplementsProjectLock, Lock!LockSpec
-----------------------------------------------------------------------------
(***************************************************************************)
(* What the table cd_approvals guarantees under any interleaving of the    *)
(* statements of approval_service.py, for any number of tickets and users. *)
(* The invariant speaks of one ticket at a time, and so does each step:    *)
(* it is proved statement by statement for the tickets they write.         *)
(***************************************************************************)

\* Four eyes for one ticket, strengthened by what Approve and Reject rely on
\* (before the decision nobody is entered as approver) and by what the flow
\* relies on (a filed ticket has a project).
Sound(t) ==
  /\ t.st # "none" => t.project \in Project
  /\ t.st \in {"none", "pending"} => t.approver = NoUser
  /\ t.ruled /\ t.st \in {"approved", "deploying", "deployed", "failed", "rejected"}
       => t.approver \in Approver /\ t.approver # t.requester
TicketInv == TicketTypeOK /\ \A a \in Approval : Sound(tickets[a])

\* TicketStep for one ticket.
Moves(t, s) ==
  /\ s.st # t.st => <<t.st, s.st>> \in Edges
  /\ t.st # "none" => s.requester = t.requester /\ s.project = t.project
  /\ t.approver # NoUser => s.approver = t.approver

\* What each statement is to be shown to do to the ticket t it turns into s.
Fine(t, s) == s \in Ticket /\ Sound(s) /\ Moves(t, s)

\* If every ticket's change is fine, the invariant is kept and the step is a
\* TicketStep.
LEMMA FineEach ==
  ASSUME TicketInv, NEW t, tickets' = [a \in Approval |-> t[a]],
         \A a \in Approval : Fine(tickets[a], t[a])
  PROVE  TicketInv' /\ TicketStep
  BY DEF TicketInv, TicketTypeOK, TicketStep, Fine, Moves

\* The same where one ticket changes.
LEMMA FineOne ==
  ASSUME TicketInv, NEW a \in Approval, NEW t,
         tickets' = [tickets EXCEPT ![a] = t], Fine(tickets[a], t)
  PROVE  TicketInv' /\ TicketStep
<1>1. tickets' = [b \in Approval |-> IF b = a THEN t ELSE tickets[b]]
  BY DEF TicketInv, TicketTypeOK
<1>2. \A b \in Approval : Fine(tickets[b], IF b = a THEN t ELSE tickets[b])
  BY DEF Fine, TicketInv, TicketTypeOK, Moves
<1> DEFINE f == [b \in Approval |-> IF b = a THEN t ELSE tickets[b]]
<1>4. tickets' = [b \in Approval |-> f[b]] /\ \A b \in Approval : Fine(tickets[b], f[b])
  BY <1>1, <1>2
<1> HIDE DEF f
<1> QED BY <1>4, FineEach

\* And where none does.
LEMMA FineNone ==
  ASSUME TicketInv, tickets' = tickets
  PROVE  TicketInv' /\ TicketStep
  BY DEF TicketInv, TicketTypeOK, TicketStep

\* A status change of a ticket that leaves its columns alone.
LEMMA FineStatus ==
  ASSUME TicketInv, NEW a \in Approval, NEW s \in TicketStatus,
         <<tickets[a].st, s>> \in Edges, tickets[a].st \in {"pending", "approved", "deploying"},
         tickets[a].st = "pending" => s = "cancelled"
  PROVE  Fine(tickets[a], [tickets[a] EXCEPT !.st = s])
<1>1. tickets[a] \in Ticket /\ Sound(tickets[a])
  BY DEF TicketInv, TicketTypeOK
<1>2. s \notin {"none", "pending"}
  BY DEF Edges
<1>3. s = "rejected" => FALSE
  BY DEF Edges
<1>4. [tickets[a] EXCEPT !.st = s] \in Ticket
  BY <1>1 DEF Ticket
<1>5. Sound([tickets[a] EXCEPT !.st = s])
  BY <1>1, <1>2, <1>3 DEF Ticket, Sound
<1>6. Moves(tickets[a], [tickets[a] EXCEPT !.st = s])
  BY <1>1 DEF Ticket, Moves
<1> QED BY <1>4, <1>5, <1>6 DEF Fine

\* Every statement of approval_service.py keeps the invariant and takes only
\* edges of the life cycle.
LEMMA TicketStepInv ==
  ASSUME TicketInv, TicketNext
  PROVE  TicketInv' /\ TicketStep
<1>1. ASSUME NEW a \in Approval, NEW u \in User, NEW p \in Project,
             NEW ruled \in BOOLEAN, File(a, u, p, ruled)
      PROVE  TicketInv' /\ TicketStep
  <2> DEFINE t == [st |-> IF ruled THEN "pending" ELSE "approved", project |-> p,
                   requester |-> u, approver |-> NoUser, ruled |-> ruled]
  <2>1. Fine(tickets[a], t)
    BY <1>1 DEF File, Fine, Ticket, TicketStatus, Sound, Moves, Edges, TicketInv
  <2> QED BY <1>1, <2>1, FineOne DEF File
<1>2. ASSUME NEW a \in Approval, NEW v \in User, Approve(a, v) \/ Reject(a, v)
      PROVE  TicketInv' /\ TicketStep
  <2> DEFINE t(s) == [tickets[a] EXCEPT !.st = s, !.approver = v]
  <2>1. tickets[a] \in Ticket /\ Sound(tickets[a]) /\ tickets[a].st = "pending"
    BY <1>2 DEF TicketInv, TicketTypeOK, Approve, Reject
  <2>2. v \in Approver /\ v # tickets[a].requester
    BY <1>2 DEF Approve, Reject, MayDecide
  <2>3. \A s \in {"approved", "rejected"} : Fine(tickets[a], t(s))
    BY <2>1, <2>2 DEF Fine, Ticket, TicketStatus, Sound, Moves, Edges
  <2>4. PICK s \in {"approved", "rejected"} : tickets' = [tickets EXCEPT ![a] = t(s)]
    BY <1>2 DEF Approve, Reject, TicketInv, TicketTypeOK
  <2> QED BY <2>3, <2>4, FineOne
<1>3. ASSUME NEW a \in Approval, NEW from, NEW s \in TicketStatus, Transition(a, from, s),
             \A f \in from : /\ <<f, s>> \in Edges
                             /\ f \in {"pending", "approved", "deploying"}
                             /\ f = "pending" => s = "cancelled"
      PROVE  TicketInv' /\ TicketStep
  <2>1. CASE tickets[a].st \notin from
    BY <1>3, <2>1, FineNone DEF Transition
  <2>2. CASE tickets[a].st \in from
    <3>1. Fine(tickets[a], [tickets[a] EXCEPT !.st = s])
      BY <1>3, <2>2, FineStatus
    <3>2. tickets' = [tickets EXCEPT ![a] = [tickets[a] EXCEPT !.st = s]]
      BY <1>3, <2>2 DEF Transition, TicketInv, TicketTypeOK
    <3> QED BY <3>1, <3>2, FineOne
  <2> QED BY <2>1, <2>2
<1>4. ASSUME NEW a \in Approval, NEW v \in User, Cancel(a, v) \/ ClaimTicket(a, v)
      PROVE  TicketInv' /\ TicketStep
  <2>1. CASE Cancel(a, v)
    BY <2>1, <1>3 DEF Cancel, Edges, TicketStatus
  <2>2. CASE ClaimTicket(a, v)
    BY <2>2, <1>3 DEF ClaimTicket, Edges, TicketStatus
  <2> QED BY <1>4, <2>1, <2>2
<1>5. ASSUME NEW a \in Approval, NEW s \in TicketStatus, Settle(a, s)
      PROVE  TicketInv' /\ TicketStep
  BY <1>5, <1>3 DEF Settle, Edges
<1>6. ASSUME NEW ok \in SUBSET Approval, NEW bad \in SUBSET Approval,
             NEW running \in SUBSET Approval, Converge(ok, bad, running)
      PROVE  TicketInv' /\ TicketStep
  <2> DEFINE to(a) == CASE a \in ok       -> "deployed"
                        [] a \in bad \ ok -> "failed"
                        [] a \in running \ (ok \cup bad) -> "deploying"
                        [] OTHER          -> "approved"
             t == [a \in Approval |-> IF tickets[a].st # "deploying" THEN tickets[a]
                                      ELSE [tickets[a] EXCEPT !.st = to(a)]]
  <2>1. tickets' = [a \in Approval |-> t[a]]
    BY <1>6 DEF Converge
  <2>2. ASSUME NEW a \in Approval
        PROVE  Fine(tickets[a], t[a])
    <3>1. tickets[a] \in Ticket /\ Sound(tickets[a])
      BY DEF TicketInv, TicketTypeOK
    <3>2. to(a) \in {"deployed", "failed", "deploying", "approved"}
      OBVIOUS
    <3> HIDE DEF to
    <3>3. CASE tickets[a].st # "deploying" \/ to(a) = "deploying"
      <4>1. t[a] = tickets[a]
        BY <3>1, <3>3 DEF Ticket
      <4> QED BY <3>1, <4>1 DEF Fine, Moves
    <3>4. CASE tickets[a].st = "deploying" /\ to(a) # "deploying"
      <4>1. t[a] = [tickets[a] EXCEPT !.st = to(a)]
        BY <3>4
      <4> QED BY <3>2, <3>4, <4>1, FineStatus DEF Edges, TicketStatus
    <3> QED BY <3>3, <3>4
  <2> HIDE DEF t
  <2> QED BY <2>1, <2>2, FineEach
<1> QED BY <1>1, <1>2, <1>4, <1>5, <1>6, TicketNext DEF TicketNext

\* Without tickets the invariant holds.
LEMMA TicketInitInv == TicketInit => TicketInv
  BY DEF TicketInit, NoTicket, TicketInv, TicketTypeOK, Ticket, TicketStatus, Sound

\* Tickets are well typed and each is Sound, whatever order the statements run in.
THEOREM TicketSafety == TicketSpec => []TicketInv
<1>1. TicketInv /\ [TicketNext]_tickets => TicketInv'
  BY TicketStepInv, FineNone
<1> QED BY <1>1, TicketInitInv, PTL DEF TicketSpec

\* Whoever was executed, failed or rejected under a rule was decided by an
\* approver other than the requester, in every order of requests, executors
\* and sweeps.
THEOREM TicketFourEyes == TicketSpec => []FourEyes
<1>1. TicketInv => FourEyes
  BY DEF TicketInv, Sound, FourEyes
<1> QED BY <1>1, TicketSafety, PTL

\* A ticket moves along the edges of the documented life cycle only, and keeps
\* requester, project and the approver once entered.
THEOREM TicketLives == TicketSpec => TicketLife
<1>1. TicketInv /\ [TicketNext]_tickets => [TicketStep]_tickets
  BY TicketStepInv
<1> QED BY <1>1, TicketSafety, PTL DEF TicketSpec, TicketLife
-----------------------------------------------------------------------------
\* A worker carries what its place in the code needs.
Equipped(t) ==
  /\ t \in WorkerState
  /\ t.pc # "idle" => t.project \in Project
  /\ t.pc \in {"claimed", "concluding", "aborting", "resetting"} => t.job \in Approval
  /\ t.pc \in {"registering", "deploying", "finishing", "cancelled"} => t.rec \in LogId
  /\ t.pc = "finishing" => t.res \in Finished

LocalInv ==
  /\ FlowTypeOK
  /\ \A w \in Worker : Equipped(workers[w])
  /\ \A a \in filing : tickets[a].st # "none"

FlowInv == RecordInv /\ TicketInv /\ LocalInv

\* A step writes each table by one statement, or not at all.
Conforms == [RecordNext]_logs /\ [TicketNext]_tickets

-----------------------------------------------------------------------------
(* The statements behind the steps. *)

\* A request about tickets writes each table by a statement of it.
LEMMA RequestsConform ==
  ASSUME FlowInv, NEW a \in Approval, TicketRequest(a)
  PROVE  Conforms
<1>1. ASSUME NEW u \in User, NEW rq \in Request, GateDeploy(a, u, rq)
      PROVE  Conforms
  <2>1. rq.project \in Project /\ rq.ruled \in BOOLEAN
    BY RequestAssumption
  <2> QED BY <1>1, <2>1 DEF GateDeploy, Conforms, TicketNext
<1>2. ASSUME NEW v \in User, ApproveTicket(a, v) \/ Withdraw(a, v)
      PROVE  Conforms
  BY <1>2 DEF ApproveTicket, Withdraw, Conforms, TicketNext
<1>3. ASSUME FileRecord(a)
      PROVE  Conforms
  <2>1. PICK r \in LogId : InsertPending(r, tickets[a].project, a)
    BY <1>3 DEF FileRecord
  <2>2. tickets[a].project \in Project
    BY <1>3 DEF FileRecord, FlowInv, LocalInv, TicketInv, Sound
  <2> QED BY <1>3, <2>1, <2>2 DEF FileRecord, Conforms, RecordNext
<1>4. ASSUME NEW s \in {"rejected", "cancelled"}, MarkRecord(a, s)
      PROVE  Conforms
  BY <1>4 DEF MarkRecord, Conforms, RecordNext
<1> QED BY <1>1, <1>2, <1>3, <1>4 DEF TicketRequest

\* So does every step of a worker, which always has the row or the ticket the
\* statement is about (Equipped).
LEMMA WorkersConform ==
  ASSUME FlowInv, NEW w \in Worker,
         \/ WorkerStep(w)
         \/ \E a \in Approval, u \in User : Claim(w, a, u)
         \/ \E rq \in Request : StartDirect(w, rq)
  PROVE  Conforms
<1>1. Equipped(workers[w]) /\ Home[w] \in Instance
  BY HomeAssumption DEF FlowInv, LocalInv
<1>2. CASE \E a \in Approval, u \in User : Claim(w, a, u)
  BY <1>2 DEF Claim, Conforms, TicketNext
<1>3. CASE UNCHANGED <<logs, tickets>>
  BY <1>3 DEF Conforms
<1>4. CASE ClaimRecord(w)
  <2>1. CASE UNCHANGED logs
    BY <1>4, <2>1 DEF ClaimRecord, Conforms
  <2>2. CASE Job(w) # NoApproval
    <3>1. Job(w) \in Approval /\ workers[w].project \in Project
      BY <1>1, <1>4, <2>2 DEF Equipped, WorkerState, ClaimRecord, At, Job
    <3>2. UNCHANGED logs \/ \E r \in LogId :
            ClaimPending(r, workers[w].project, Job(w), Home[w])
      BY <1>4 DEF ClaimRecord
    <3>3. UNCHANGED tickets
      BY <1>4 DEF ClaimRecord
    <3> QED BY <1>1, <3>1, <3>2, <3>3 DEF Conforms, RecordNext
  <2> QED BY <1>4, <2>1, <2>2 DEF ClaimRecord
<1>5. CASE InsertRecord(w)
  <2>1. Job(w) \in Approval \cup {NoApproval} /\ workers[w].project \in Project
    BY <1>1, <1>5 DEF Equipped, WorkerState, InsertRecord, At, Job
  <2>2. UNCHANGED logs \/ \E r \in LogId :
          InsertRunning(r, workers[w].project, Job(w), Home[w])
    BY <1>5 DEF InsertRecord
  <2> QED BY <1>1, <1>5, <2>1, <2>2 DEF InsertRecord, Conforms, RecordNext
<1>6. CASE FinishRecord(w) \/ FinishFails(w)
  <2>1. UNCHANGED tickets /\ workers[w].pc \in {"finishing", "cancelled"}
    BY <1>6 DEF FinishRecord, FinishFails, At
  <2>2. Rec(w) \in LogId
    BY <1>1, <2>1 DEF Equipped, Rec
  <2>3. UNCHANGED logs \/ \E s \in Finished \cup {"terminated"} : Finish(Rec(w), s)
    <3>1. CASE FinishRecord(w)
      BY <1>1, <3>1 DEF FinishRecord, At, Equipped
    <3>2. CASE FinishFails(w)
      BY <1>1, <3>2 DEF FinishFails, At, Equipped, Finished
    <3> QED BY <1>6, <3>1, <3>2
  <2> QED BY <2>1, <2>2, <2>3 DEF Conforms, RecordNext
<1>7. CASE Conclude(w) \/ Abort(w)
  <2>1. Job(w) \in Approval /\ UNCHANGED logs
    BY <1>1, <1>7 DEF Conclude, Abort, At, Job, Equipped
  <2>2. UNCHANGED tickets \/ \E s \in TicketStatus : Settle(Job(w), s)
    BY <1>7 DEF Conclude, Abort, TicketStatus
  <2> QED BY <2>1, <2>2 DEF Conforms, TicketNext
<1>8. CASE ConcludeBusy(w)
  <2>1. UNCHANGED logs
    BY <1>8 DEF ConcludeBusy
  <2>2. UNCHANGED tickets \/ (Job(w) # NoApproval /\ Settle(Job(w), "approved"))
    BY <1>8 DEF ConcludeBusy
  <2>3. Job(w) # NoApproval => Job(w) \in Approval
    BY <1>1 DEF Equipped, WorkerState, Job
  <2> QED BY <2>1, <2>2, <2>3 DEF Conforms, TicketNext, TicketStatus
<1>9. CASE ResetRecord(w)
  <2>1. Job(w) \in Approval
    BY <1>1, <1>9 DEF ResetRecord, At, Job, Equipped
  <2> QED BY <1>9, <2>1 DEF ResetRecord, Conforms, RecordNext
<1>10. \/ UNCHANGED <<logs, tickets>>
       \/ ClaimRecord(w) \/ InsertRecord(w) \/ FinishRecord(w) \/ FinishFails(w)
       \/ Conclude(w) \/ ConcludeBusy(w) \/ ResetRecord(w) \/ Abort(w)
       \/ \E a \in Approval, u \in User : Claim(w, a, u)
  BY DEF WorkerStep, StartDirect, Recheck, Refuse, CheckBusy, Register, PollCancel,
         DeployerEnds, RunFails
<1> QED BY <1>2, <1>3, <1>4, <1>5, <1>6, <1>7, <1>8, <1>9, <1>10

\* So do cancellations, heartbeats, crashes and sweeps.
LEMMA ProcessesConform ==
  ASSUME FlowInv,
         \/ \E i \in Instance, r \in LogId : SelectRunning(i, r) \/ MarkCancelled(i, r)
         \/ \E i \in Instance : Heartbeat(i) \/ Shutdown(i) \/ Crash(i)
         \/ \E r \in LogId : HeartbeatLapses(r)
         \/ SweepStale \/ SweepConverge
  PROVE  Conforms
<1>1. CASE \E i \in Instance, r \in LogId : SelectRunning(i, r) \/ MarkCancelled(i, r)
  BY <1>1 DEF SelectRunning, MarkCancelled, Conforms, RecordNext
<1>2. CASE \E i \in Instance : Heartbeat(i) \/ Shutdown(i) \/ Crash(i)
  <2>1. PICK i \in Instance : Heartbeat(i) \/ Shutdown(i) \/ Crash(i)
    BY <1>2
  <2>2. Active(i) \in SUBSET LogId
    BY DEF Active
  <2> QED BY <2>1, <2>2 DEF Heartbeat, Shutdown, Crash, Conforms, RecordNext
<1>3. CASE \E r \in LogId : HeartbeatLapses(r)
  BY <1>3 DEF HeartbeatLapses, Conforms, RecordNext
<1>4. CASE SweepStale \/ SweepConverge
  <2>1. \A s : WithRow(s) \in SUBSET Approval
    BY DEF WithRow
  <2> QED BY <1>4, <2>1 DEF SweepStale, SweepConverge, Conforms, RecordNext, TicketNext
<1> QED BY <1>1, <1>2, <1>3, <1>4

\* So does every step of the system.
LEMMA NextConforms ==
  ASSUME FlowInv, [Next]_vars
  PROVE  Conforms
<1>1. CASE UNCHANGED vars
  BY <1>1 DEF vars, Conforms
<1>2. CASE Next
  BY <1>2, RequestsConform, WorkersConform, ProcessesConform DEF Next
<1> QED BY <1>1, <1>2

-----------------------------------------------------------------------------
(* The workers carry what they need. *)

WorkersEquipped == workers \in [Worker -> WorkerState] /\ \A w \in Worker : Equipped(workers[w])

\* Replacing one worker's state by an equipped one keeps all equipped.
LEMMA SetWorker ==
  ASSUME WorkersEquipped, NEW w \in Worker, NEW t, Equipped(t),
         workers' = [workers EXCEPT ![w] = t]
  PROVE  WorkersEquipped'
<1>1. t \in WorkerState
  BY DEF Equipped
<1>2. workers' \in [Worker -> WorkerState]
  BY <1>1 DEF WorkersEquipped
<1>3. \A v \in Worker : Equipped(workers'[v])
  BY DEF WorkersEquipped
<1> QED BY <1>2, <1>3 DEF WorkersEquipped

\* An idle worker needs nothing.
LEMMA IdleEquipped == Equipped(IdleWorker)
  BY DEF Equipped, IdleWorker, WorkerState, Pc, Result

\* A worker moves on with what it has, where the next place needs no more.
LEMMA GotoEquipped ==
  ASSUME WorkersEquipped, NEW w \in Worker, NEW pc \in Pc, Goto(w, pc),
         workers[w].pc # "idle",
         pc \in {"concluding", "aborting", "resetting"} => Job(w) \in Approval,
         pc \in {"deploying", "cancelled"} => Rec(w) \in LogId,
         pc \notin {"claimed", "registering", "finishing"}
  PROVE  WorkersEquipped'
<1> DEFINE t == [workers[w] EXCEPT !.pc = pc]
<1>1. workers[w] \in WorkerState /\ Equipped(workers[w])
  BY DEF WorkersEquipped
<1>2. Equipped(t)
  BY <1>1 DEF Equipped, WorkerState, Job, Rec
<1>3. workers' = [workers EXCEPT ![w] = t]
  BY DEF Goto, WorkersEquipped
<1> QED BY <1>2, <1>3, SetWorker

\* The end of execute, with whatever result.
LEMMA ReturnEquipped ==
  ASSUME WorkersEquipped, NEW w \in Worker, NEW res \in Result, Return(w, res),
         workers[w].pc # "idle"
  PROVE  WorkersEquipped'
<1>1. workers[w] \in WorkerState /\ Equipped(workers[w])
  BY DEF WorkersEquipped
<1>2. CASE Job(w) = NoApproval
  BY <1>2, IdleEquipped, SetWorker DEF Return
<1>3. CASE Job(w) # NoApproval
  <2> DEFINE t == [workers[w] EXCEPT !.pc = "concluding", !.res = res, !.rec = 0]
  <2>1. Equipped(t)
    BY <1>1, <1>3 DEF Equipped, WorkerState, Job, Pc
  <2>2. workers' = [workers EXCEPT ![w] = t]
    BY <1>3 DEF Return, WorkersEquipped
  <2> QED BY <2>1, <2>2, SetWorker
<1> QED BY <1>2, <1>3

\* Along its program a worker gets what it needs before the place that needs it.
LEMMA WorkerStepEquipped ==
  ASSUME WorkersEquipped, NEW w \in Worker, WorkerStep(w)
  PROVE  WorkersEquipped'
<1>1. workers[w] \in WorkerState /\ Equipped(workers[w])
  BY DEF WorkersEquipped
<1>2. ASSUME Done(w) PROVE WorkersEquipped'
  BY <1>2, IdleEquipped, SetWorker DEF Done
<1>3. CASE Recheck(w)
  BY <1>2, <1>3, GotoEquipped DEF Recheck, At, Pc
<1>4. CASE Refuse(w)
  BY <1>4, ReturnEquipped DEF Refuse, At, Result, Finished
<1>5. CASE CheckBusy(w)
  BY <1>5, GotoEquipped DEF CheckBusy, At, Pc
<1>6. ASSUME NEW r \in LogId, At(w, "claiming") \/ At(w, "inserting"),
             workers' = [workers EXCEPT ![w].pc = "registering", ![w].rec = r]
      PROVE  WorkersEquipped'
  <2> DEFINE t == [workers[w] EXCEPT !.pc = "registering", !.rec = r]
  <2>1. Equipped(t)
    BY <1>1, <1>6 DEF Equipped, WorkerState, At, Pc
  <2>2. workers' = [workers EXCEPT ![w] = t]
    BY <1>6 DEF WorkersEquipped
  <2> QED BY <2>1, <2>2, SetWorker
<1>7. CASE ClaimRecord(w)
  <2>1. CASE Goto(w, "inserting") \/ Goto(w, "busy")
    BY <1>7, <2>1, GotoEquipped DEF ClaimRecord, At, Pc
  <2> QED BY <1>6, <1>7, <2>1 DEF ClaimRecord
<1>8. CASE InsertRecord(w)
  <2>1. CASE Goto(w, "busy")
    BY <1>8, <2>1, GotoEquipped DEF InsertRecord, At, Pc
  <2> QED BY <1>6, <1>8, <2>1 DEF InsertRecord
<1>9. CASE Register(w) \/ PollCancel(w)
  BY <1>1, <1>9, GotoEquipped DEF Register, PollCancel, At, Pc, Equipped, Rec
<1>10. CASE \E res \in Finished : DeployerEnds(w, res)
  <2>1. PICK res \in Finished : DeployerEnds(w, res)
    BY <1>10
  <2> DEFINE t == [workers[w] EXCEPT !.pc = "finishing", !.res = res]
  <2>2. Equipped(t)
    BY <1>1, <2>1 DEF DeployerEnds, Equipped, WorkerState, At, Pc, Result
  <2>3. workers' = [workers EXCEPT ![w] = t]
    BY <2>1 DEF DeployerEnds, WorkersEquipped
  <2> QED BY <2>2, <2>3, SetWorker
<1>11. CASE FinishRecord(w) \/ FinishFails(w)
  <2>1. workers[w].pc # "idle" /\ workers[w].res \in Result
    BY <1>1, <1>11 DEF FinishRecord, FinishFails, At, WorkerState
  <2>2. \E res \in Result : Return(w, res)
    BY <1>11, <2>1 DEF FinishRecord, FinishFails, Result, Finished
  <2> QED BY <2>1, <2>2, ReturnEquipped
<1>12. CASE Conclude(w) \/ ResetRecord(w)
  BY <1>2, <1>12 DEF Conclude, ResetRecord
<1>13. CASE ConcludeBusy(w)
  <2>1. CASE Goto(w, "resetting") /\ Job(w) # NoApproval
    BY <1>1, <1>13, <2>1, GotoEquipped DEF ConcludeBusy, At, Pc, WorkerState, Job
  <2> QED BY <1>2, <1>13, <2>1 DEF ConcludeBusy
<1>14. CASE RunFails(w)
  BY <1>1, <1>14, GotoEquipped DEF RunFails, At, Pc, WorkerState, Job, Equipped
<1>15. CASE Abort(w)
  BY <1>1, <1>15, GotoEquipped DEF Abort, At, Pc, Job, Equipped
<1> QED BY <1>3, <1>4, <1>5, <1>7, <1>8, <1>9, <1>10, <1>11, <1>12, <1>13, <1>14, <1>15
        DEF WorkerStep

\* No step of anybody else takes it away, and a crash leaves the worker idle.
LEMMA NextEquipped ==
  ASSUME WorkersEquipped, TicketInv, Next
  PROVE  WorkersEquipped'
<1>1. CASE UNCHANGED workers
  BY <1>1 DEF WorkersEquipped
<1>2. ASSUME NEW w \in Worker, NEW a \in Approval, NEW u \in User, Claim(w, a, u)
      PROVE  WorkersEquipped'
  <2> DEFINE t == [IdleWorker EXCEPT !.pc = "claimed", !.job = a,
                                     !.project = tickets[a].project]
  <2>1. tickets[a].project \in Project
    BY <1>2 DEF Claim, ClaimTicket, TicketInv, Sound
  <2>2. Equipped(t)
    BY <2>1, IdleEquipped DEF Equipped, IdleWorker, WorkerState, Pc
  <2> QED BY <1>2, <2>2, SetWorker DEF Claim
<1>3. ASSUME NEW w \in Worker, NEW rq \in Request, StartDirect(w, rq)
      PROVE  WorkersEquipped'
  <2> DEFINE t == [IdleWorker EXCEPT !.pc = "resolving", !.project = rq.project]
  <2>1. Equipped(t)
    BY RequestAssumption, IdleEquipped DEF Equipped, IdleWorker, WorkerState, Pc
  <2> QED BY <1>3, <2>1, SetWorker DEF StartDirect
<1>4. ASSUME NEW i \in Instance, Crash(i)
      PROVE  WorkersEquipped'
  BY <1>4, IdleEquipped DEF Crash, WorkersEquipped, Equipped
<1>5. ASSUME NEW a \in Approval, TicketRequest(a)
      PROVE  UNCHANGED workers
  BY <1>5 DEF TicketRequest, GateDeploy, ApproveTicket, Withdraw, FileRecord, MarkRecord,
              flowVars
<1>6. ASSUME NEW i \in Instance, NEW r \in LogId, SelectRunning(i, r) \/ MarkCancelled(i, r)
      PROVE  UNCHANGED workers
  BY <1>6 DEF SelectRunning, MarkCancelled
<1>7. ASSUME SweepStale \/ SweepConverge
      PROVE  UNCHANGED workers
  BY <1>7 DEF SweepStale, SweepConverge, flowVars
<1>8. ASSUME NEW r \in LogId, HeartbeatLapses(r)
      PROVE  UNCHANGED workers
  BY <1>8 DEF HeartbeatLapses, flowVars
<1>9. ASSUME NEW i \in Instance, Heartbeat(i) \/ Shutdown(i)
      PROVE  UNCHANGED workers
  BY <1>9 DEF Heartbeat, Shutdown, flowVars
<1> QED
  BY <1>1, <1>2, <1>3, <1>4, <1>5, <1>6, <1>7, <1>8, <1>9, WorkerStepEquipped DEF Next

-----------------------------------------------------------------------------
(* The rest of the local state is well typed. *)

EventsTypeOK == events \in [Instance -> [LogId -> {"absent", "clear", "set"}]]
RequestsTypeOK ==
  /\ filing \subseteq Approval
  /\ marking \subseteq Approval
  /\ cancels \subseteq Instance \X LogId
  /\ succeeded \subseteq Approval

\* Writing one signal keeps the table of signals well typed.
LEMMA SetEvent ==
  ASSUME EventsTypeOK, NEW i \in Instance, NEW r \in LogId,
         NEW e \in {"absent", "clear", "set"}, events' = [events EXCEPT ![i][r] = e]
  PROVE  EventsTypeOK'
  BY DEF EventsTypeOK

\* The signals stay well typed.
LEMMA NextEventsOK ==
  ASSUME EventsTypeOK, WorkersEquipped, Next
  PROVE  EventsTypeOK'
<1>1. CASE UNCHANGED events
  BY <1>1 DEF EventsTypeOK
<1>2. ASSUME NEW w \in Worker, Register(w) \/ FinishRecord(w) \/ FinishFails(w)
      PROVE  EventsTypeOK'
  <2>1. Home[w] \in Instance /\ Rec(w) \in LogId
    BY <1>2, HomeAssumption
       DEF WorkersEquipped, Equipped, Register, FinishRecord, FinishFails, At, Rec
  <2>2. \E e \in {"absent", "clear", "set"} : events' = [events EXCEPT ![Home[w]][Rec(w)] = e]
    BY <1>2 DEF Register, FinishRecord, FinishFails, Unregister
  <2> QED BY <2>1, <2>2, SetEvent
<1>3. ASSUME NEW i \in Instance, NEW r \in LogId, MarkCancelled(i, r)
      PROVE  EventsTypeOK'
  BY <1>3, SetEvent DEF MarkCancelled
<1>4. ASSUME NEW i \in Instance, Shutdown(i) \/ Crash(i)
      PROVE  EventsTypeOK'
  BY <1>4 DEF Shutdown, Crash, EventsTypeOK
<1>5. ASSUME NEW w \in Worker, WorkerStep(w), ~Register(w), ~FinishRecord(w), ~FinishFails(w)
      PROVE  UNCHANGED events
  BY <1>5 DEF WorkerStep, Recheck, Refuse, CheckBusy, ClaimRecord, InsertRecord, PollCancel,
              DeployerEnds, Conclude, ConcludeBusy, ResetRecord, RunFails, Abort
<1>6. ASSUME NEW w \in Worker,
             \/ \E a \in Approval, u \in User : Claim(w, a, u)
             \/ \E rq \in Request : StartDirect(w, rq)
      PROVE  UNCHANGED events
  BY <1>6 DEF Claim, StartDirect
<1>7. ASSUME NEW a \in Approval, TicketRequest(a)
      PROVE  UNCHANGED events
  BY <1>7 DEF TicketRequest, GateDeploy, ApproveTicket, Withdraw, FileRecord, MarkRecord,
              flowVars
<1>8. ASSUME NEW i \in Instance, Heartbeat(i) \/ \E r \in LogId : SelectRunning(i, r)
      PROVE  UNCHANGED events
  BY <1>8 DEF Heartbeat, SelectRunning, flowVars
<1>9. ASSUME SweepStale \/ SweepConverge \/ \E r \in LogId : HeartbeatLapses(r)
      PROVE  UNCHANGED events
  BY <1>9 DEF SweepStale, SweepConverge, HeartbeatLapses, flowVars
<1> QED
  BY <1>1, <1>2, <1>3, <1>4, <1>5, <1>6, <1>7, <1>8, <1>9 DEF Next

\* The requests in flight stay well typed.
LEMMA NextRequestsOK ==
  ASSUME RequestsTypeOK, WorkersEquipped, Next
  PROVE  RequestsTypeOK'
<1>1. CASE UNCHANGED <<requests, succeeded>>
  BY <1>1 DEF RequestsTypeOK, requests
<1>2. ASSUME NEW a \in Approval, TicketRequest(a)
      PROVE  RequestsTypeOK'
  BY <1>2 DEF TicketRequest, GateDeploy, ApproveTicket, Withdraw, FileRecord, MarkRecord,
              flowVars, requests, RequestsTypeOK
<1>3. ASSUME NEW i \in Instance, NEW r \in LogId, SelectRunning(i, r) \/ MarkCancelled(i, r)
      PROVE  RequestsTypeOK'
  <2>1. cancels' \subseteq cancels \cup {<<i, r>>}
    BY <1>3 DEF SelectRunning, MarkCancelled
  <2>2. UNCHANGED <<filing, marking, succeeded>>
    BY <1>3 DEF SelectRunning, MarkCancelled
  <2> QED BY <2>1, <2>2 DEF RequestsTypeOK
<1>4. ASSUME NEW i \in Instance, Crash(i)
      PROVE  RequestsTypeOK'
  BY <1>4 DEF Crash, RequestsTypeOK
<1>5. ASSUME NEW w \in Worker, NEW res \in Finished, DeployerEnds(w, res)
      PROVE  RequestsTypeOK'
  BY <1>5 DEF DeployerEnds, RequestsTypeOK, requests
<1>6. ASSUME NEW w \in Worker, WorkerStep(w), \A res \in Finished : ~DeployerEnds(w, res)
      PROVE  UNCHANGED <<requests, succeeded>>
  BY <1>6 DEF WorkerStep, Recheck, Refuse, CheckBusy, ClaimRecord, InsertRecord, Register,
              PollCancel, FinishRecord, FinishFails, Conclude, ConcludeBusy, ResetRecord,
              RunFails, Abort
<1>7. ASSUME NEW w \in Worker,
             \/ \E a \in Approval, u \in User : Claim(w, a, u)
             \/ \E rq \in Request : StartDirect(w, rq)
      PROVE  UNCHANGED <<requests, succeeded>>
  BY <1>7 DEF Claim, StartDirect
<1>8. ASSUME NEW i \in Instance, Heartbeat(i) \/ Shutdown(i)
      PROVE  UNCHANGED <<requests, succeeded>>
  BY <1>8 DEF Heartbeat, Shutdown, flowVars
<1>9. ASSUME SweepStale \/ SweepConverge \/ \E r \in LogId : HeartbeatLapses(r)
      PROVE  UNCHANGED <<requests, succeeded>>
  BY <1>9 DEF SweepStale, SweepConverge, HeartbeatLapses, flowVars
<1> QED
  BY <1>1, <1>2, <1>3, <1>4, <1>5, <1>6, <1>7, <1>8, <1>9 DEF Next

\* A ticket that is being filed exists.
LEMMA NextFilingOK ==
  ASSUME TicketInv, [TicketNext]_tickets, \A a \in filing : tickets[a].st # "none",
         filing \subseteq Approval, Next
  PROVE  \A a \in filing' : tickets'[a].st # "none"
<1>1. \A a \in Approval : tickets[a].st # "none" => tickets'[a].st # "none"
  BY TicketStepInv DEF TicketStep, Edges
<1>2. ASSUME NEW a \in Approval, TicketRequest(a)
      PROVE  \A b \in filing' : b \in filing \/ tickets'[b].st # "none"
  <2>1. CASE filing' \subseteq filing
    BY <2>1
  <2>2. ASSUME NEW u \in User, NEW rq \in Request, GateDeploy(a, u, rq)
        PROVE  \A b \in filing' : b \in filing \/ tickets'[b].st # "none"
    <3>1. tickets'[a].st # "none"
      BY <2>2 DEF GateDeploy, File, TicketInv, TicketTypeOK
    <3> QED BY <2>2, <3>1 DEF GateDeploy
  <2> QED BY <1>2, <2>1, <2>2
          DEF TicketRequest, ApproveTicket, Withdraw, FileRecord, MarkRecord, flowVars, requests
<1>3. ASSUME NEW w \in Worker,
             \/ WorkerStep(w)
             \/ \E a \in Approval, u \in User : Claim(w, a, u)
             \/ \E rq \in Request : StartDirect(w, rq)
      PROVE  UNCHANGED filing
  BY <1>3 DEF WorkerStep, Claim, StartDirect, Recheck, Refuse, CheckBusy, ClaimRecord,
              InsertRecord, Register, PollCancel, DeployerEnds, FinishRecord, FinishFails,
              Conclude, ConcludeBusy, ResetRecord, RunFails, Abort, requests
<1>4. ASSUME NEW i \in Instance, NEW r \in LogId, SelectRunning(i, r) \/ MarkCancelled(i, r)
      PROVE  UNCHANGED filing
  BY <1>4 DEF SelectRunning, MarkCancelled
<1>5. ASSUME NEW i \in Instance, Heartbeat(i) \/ Shutdown(i) \/ Crash(i)
      PROVE  UNCHANGED filing
  BY <1>5 DEF Heartbeat, Shutdown, Crash, flowVars, requests
<1>6. ASSUME SweepStale \/ SweepConverge \/ \E r \in LogId : HeartbeatLapses(r)
      PROVE  UNCHANGED filing
  BY <1>6 DEF SweepStale, SweepConverge, HeartbeatLapses, flowVars, requests
<1>7. \A b \in filing' : b \in filing \/ tickets'[b].st # "none"
  BY <1>2, <1>3, <1>4, <1>5, <1>6 DEF Next
<1> QED BY <1>1, <1>7

-----------------------------------------------------------------------------
\* The invariant, part by part.
LEMMA FlowInvParts ==
  FlowInv <=> /\ RecordInv /\ TicketInv /\ WorkersEquipped /\ EventsTypeOK
              /\ RequestsTypeOK /\ \A a \in filing : tickets[a].st # "none"
  BY DEF FlowInv, LocalInv, FlowTypeOK, WorkersEquipped, EventsTypeOK, RequestsTypeOK

\* Every step keeps the invariant: the tables' parts because the step conforms
\* to their statements, the local part by the lemmas above.
LEMMA FlowStep ==
  ASSUME FlowInv, [Next]_vars
  PROVE  FlowInv'
<1>1. CASE UNCHANGED vars
  <2>1. UNCHANGED <<logs, tickets, workers, events, filing, marking, cancels, succeeded>>
    BY <1>1 DEF vars, flowVars, requests
  <2>2. RecordInv' /\ TicketInv'
    BY <2>1, RecordNextInv, FineNone DEF FlowInv
  <2>3. LocalInv'
    BY <2>1 DEF FlowInv, LocalInv, FlowTypeOK
  <2> QED BY <2>2, <2>3 DEF FlowInv
<1>2. CASE Next
  <2>1. RecordInv' /\ TicketInv'
    BY NextConforms, RecordNextInv, TicketStepInv, FineNone DEF FlowInv, Conforms
  <2>2. WorkersEquipped' /\ EventsTypeOK' /\ RequestsTypeOK'
    BY <1>2, FlowInvParts, NextEquipped, NextEventsOK, NextRequestsOK
  <2>3. \A a \in filing' : tickets'[a].st # "none"
    BY <1>2, FlowInvParts, NextConforms, NextFilingOK DEF Conforms, RequestsTypeOK
  <2> QED BY <2>1, <2>2, <2>3
          DEF FlowInv, LocalInv, FlowTypeOK, WorkersEquipped, EventsTypeOK, RequestsTypeOK
<1> QED BY <1>1, <1>2

\* It holds initially.
LEMMA FlowInit == Init => FlowInv
<1> SUFFICES ASSUME Init PROVE FlowInv
  OBVIOUS
<1>1. RecordInv /\ TicketInv
  BY RecordInitInv, TicketInitInv DEF Init
<1>2. LocalInv
  BY IdleEquipped DEF Init, LocalInv, FlowTypeOK, Equipped
<1> QED BY <1>1, <1>2 DEF FlowInv

\* The system is well typed, and every worker carries what its place in the
\* code requires.
THEOREM FlowSafety == Spec => []FlowInv
  BY FlowInit, FlowStep, PTL DEF Spec

\* The system is well typed.
THEOREM FlowTypes == Spec => []TypeOK
<1>1. FlowInv => TypeOK
  BY DEF FlowInv, RecordInv, TicketInv, LocalInv, TypeOK
<1> QED BY <1>1, FlowSafety, PTL

\* The system writes the table of deployments by its statements only.
THEOREM FlowImplementsRecords == Spec => RecordSpec
<1>1. Init => RecordInit
  BY DEF Init
<1>2. FlowInv /\ [Next]_vars => [RecordNext]_logs
  BY NextConforms DEF Conforms
<1> QED BY <1>1, <1>2, FlowSafety, PTL DEF Spec, RecordSpec

\* And the table of tickets.
THEOREM FlowImplementsTickets == Spec => TicketSpec
<1>1. Init => TicketInit
  BY DEF Init
<1>2. FlowInv /\ [Next]_vars => [TicketNext]_tickets
  BY NextConforms DEF Conforms
<1> QED BY <1>1, <1>2, FlowSafety, PTL DEF Spec, TicketSpec

\* Whatever crashes, lapses or fails, at most one deployment of a project is
\* running.
THEOREM FlowOneRunning == Spec => []OneRunningPerProject
  BY FlowImplementsRecords, RecordOneRunning, PTL

\* The project's key is held by exactly its running row.
THEOREM FlowLockIffRunning == Spec => []LockIffRunning
  BY FlowImplementsRecords, RecordLockIffRunning, PTL

\* The deployments of the system use their projects as locks.
THEOREM FlowImplementsLock == Spec => ImplementsProjectLock
  BY FlowImplementsRecords, RecordsImplementLock, PTL

\* Rows that have ended stay ended in the system.
THEOREM FlowEndedRows == Spec => EndedRowsStay
  BY FlowImplementsRecords, RecordEnded, PTL

\* No path through executors, cancellations and sweeps goes round the decision.
THEOREM FlowFourEyes == Spec => []FourEyes
  BY FlowImplementsTickets, TicketFourEyes, PTL

\* Tickets live along the documented edges in the system.
THEOREM FlowTicketLife == Spec => TicketLife
  BY FlowImplementsTickets, TicketLives, PTL
=============================================================================
