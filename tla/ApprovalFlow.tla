---------------------------- MODULE ApprovalFlow ----------------------------
(***************************************************************************)
(* Deployments under approval: the requests that file and decide tickets,  *)
(* the threads that execute them, direct deployments, user cancellation,   *)
(* heartbeats, process crashes and restarts, and the recovery sweep, over  *)
(* the two tables of DeployRecords and ApprovalTickets.                    *)
(*                                                                         *)
(* A thread (Worker) is a request thread of POST /deploy, /approvals/../   *)
(* execute or execute-stream, or the scheduler's thread, of one process.   *)
(* Its program counter follows run_approval, execute_from_params and       *)
(* DeployService.execute / _deploy_k8s_core.  Between any two steps of a   *)
(* worker everybody else may move: each step is at most one transaction.   *)
(*                                                                         *)
(*   idle -> claimed -> resolving -> claiming [-> inserting] ->            *)
(*   registering -> deploying -> finishing | cancelled -> concluding       *)
(*   busy -> resetting, aborting -> resetting                              *)
(***************************************************************************)
EXTENDS DeployRecords, ApprovalTickets, FiniteSets

CONSTANTS
  Request,           \* deployments users ask for, with what gate_deploy finds:
                     \* does a rule match, is a time given
  Worker,
  Home,              \* [Worker -> Instance]: the process a worker belongs to
  TimelyHeartbeat,   \* TRUE: a live process never misses heartbeats for as
                     \* long as stale_seconds (120 s, eight beats of 15 s)
  Faults,            \* TRUE: a statement, or the notification after a
                     \* deployment, may fail
  MaxCancel          \* bound: cancel requests in flight at a time

ASSUME RequestAssumption ==
  Request \subseteq [project : Project, ruled : BOOLEAN, scheduled : BOOLEAN]
ASSUME HomeAssumption == Home \in [Worker -> Instance]
ASSUME SwitchAssumption ==
  TimelyHeartbeat \in BOOLEAN /\ Faults \in BOOLEAN /\ MaxCancel \in Nat

VARIABLES
  workers,    \* the worker threads' local state
  events,     \* DeployRunManager._events of each process
  filing,     \* tickets whose request has not inserted their record yet
  marking,    \* tickets decided against, record not marked yet
  cancels,    \* <<process, row>>: /deploy/cancel has found the row running
  succeeded   \* history: tickets for which a deployer has succeeded

requests == <<filing, marking, cancels>>
flowVars == <<workers, events, requests, succeeded>>
vars == <<logs, tickets, flowVars>>

Pc == {"idle", "claimed", "resolving", "claiming", "inserting", "registering",
       "deploying", "finishing", "cancelled", "concluding", "busy", "aborting",
       "resetting"}
Result == {"none", "terminated"} \cup Finished
WorkerState == [pc      : Pc,
                job     : Approval \cup {NoApproval},
                project : Project \cup {NoProject},
                rec     : LogId \cup {0},
                res     : Result]
IdleWorker == [pc |-> "idle", job |-> NoApproval, project |-> NoProject,
               rec |-> 0, res |-> "none"]

Init ==
  /\ RecordInit
  /\ TicketInit
  /\ workers   = [w \in Worker |-> IdleWorker]
  /\ events    = [i \in Instance |-> [r \in LogId |-> "absent"]]
  /\ filing    = {}
  /\ marking   = {}
  /\ cancels   = {}
  /\ succeeded = {}

At(w, pc)   == workers[w].pc = pc
Goto(w, pc) == workers' = [workers EXCEPT ![w].pc = pc]
Done(w)     == workers' = [workers EXCEPT ![w] = IdleWorker]
Job(w)      == workers[w].job
Rec(w)      == workers[w].rec

\* The end of execute for worker w: the caller of a direct deployment gets the
\* result, a ticket's goes on to the conclusion of run_approval.
Return(w, res) ==
  workers' = [workers EXCEPT ![w] =
    IF Job(w) = NoApproval THEN IdleWorker
    ELSE [@ EXCEPT !.pc = "concluding", !.res = res, !.rec = 0]]

-----------------------------------------------------------------------------
(* Requests about tickets: gate_deploy, approve, reject, cancel.  Each has   *)
(* a second transaction of its own for the record; a request that is lost    *)
(* in between is one whose second step never comes.                          *)

GateDeploy(a, u, rq) ==
  /\ rq.ruled \/ rq.scheduled
  /\ File(a, u, rq.project, rq.ruled)
  /\ filing' = filing \cup {a}
  /\ UNCHANGED <<logs, workers, events, marking, cancels, succeeded>>

FileRecord(a) ==
  /\ a \in filing
  /\ \E r \in LogId : InsertPending(r, tickets[a].project, a)
  /\ filing' = filing \ {a}
  /\ UNCHANGED <<tickets, workers, events, marking, cancels, succeeded>>

ApproveTicket(a, v) == Approve(a, v) /\ UNCHANGED <<logs, flowVars>>

Withdraw(a, v) ==
  /\ Reject(a, v) \/ Cancel(a, v)
  /\ marking' = marking \cup {a}
  /\ UNCHANGED <<logs, workers, events, filing, cancels, succeeded>>

MarkRecord(a, s) ==
  /\ a \in marking
  /\ s = tickets[a].st
  /\ MarkTerminal(a, s)
  /\ marking' = marking \ {a}
  /\ UNCHANGED <<tickets, workers, events, filing, cancels, succeeded>>

-----------------------------------------------------------------------------
(* Workers: from the claim to the deployer. *)

\* claim_for_execution.  Its early read only fails sooner: requester and
\* parameters of a ticket never change and the UPDATE re-checks the status.
Claim(w, a, u) ==
  /\ At(w, "idle")
  /\ ClaimTicket(a, u)
  /\ workers' = [workers EXCEPT ![w] =
       [IdleWorker EXCEPT !.pc = "claimed", !.job = a, !.project = tickets[a].project]]
  /\ UNCHANGED <<logs, events, requests, succeeded>>

\* run_approval reads the ticket again and gives up unless it is deploying.
Recheck(w) ==
  /\ At(w, "claimed")
  /\ IF tickets[Job(w)].st = "deploying" THEN Goto(w, "resolving") ELSE Done(w)
  /\ UNCHANGED <<logs, tickets, events, requests, succeeded>>

\* A deployment that no rule and no schedule holds back.
StartDirect(w, rq) ==
  /\ At(w, "idle")
  /\ ~rq.ruled /\ ~rq.scheduled
  /\ workers' = [workers EXCEPT ![w] =
       [IdleWorker EXCEPT !.pc = "resolving", !.project = rq.project]]
  /\ UNCHANGED <<logs, tickets, events, requests, succeeded>>

\* Permission, tag, repository or registry refused, Glue unreachable, or (after
\* the check for a running deployment) type, targets, credentials or the
\* statement refused: execute raises without a record of its own, and
\* execute_from_params answers {failed, deploy_id 0}.
Refuse(w) ==
  /\ At(w, "resolving") \/ At(w, "claiming") \/ (Faults /\ At(w, "inserting"))
  /\ Return(w, "failed")
  /\ UNCHANGED <<logs, tickets, events, requests, succeeded>>

\* The repository is resolved; find_running_deploy.
CheckBusy(w) ==
  /\ At(w, "resolving")
  /\ Goto(w, IF Busy(workers[w].project) THEN "busy" ELSE "claiming")
  /\ UNCHANGED <<logs, tickets, events, requests, succeeded>>

\* claim_pending_deploy_record.  Without a pending row it returns 0 and the
\* caller inserts a fresh one.
ClaimRecord(w) ==
  /\ At(w, "claiming")
  /\ \/ /\ Job(w) = NoApproval \/ PendingOf(Job(w)) = {}
        /\ Goto(w, "inserting")
        /\ UNCHANGED logs
     \/ /\ Job(w) # NoApproval /\ PendingOf(Job(w)) # {}
        /\ Locked(workers[w].project)
        /\ Goto(w, "busy")
        /\ UNCHANGED logs
     \/ /\ Job(w) # NoApproval
        /\ \E r \in LogId :
             /\ ClaimPending(r, workers[w].project, Job(w), Home[w])
             /\ workers' = [workers EXCEPT ![w].pc = "registering", ![w].rec = r]
  /\ UNCHANGED <<tickets, events, requests, succeeded>>

\* start_deploy_record
InsertRecord(w) ==
  /\ At(w, "inserting")
  /\ \/ /\ Locked(workers[w].project)
        /\ Goto(w, "busy")
        /\ UNCHANGED logs
     \/ \E r \in LogId :
          /\ InsertRunning(r, workers[w].project, Job(w), Home[w])
          /\ workers' = [workers EXCEPT ![w].pc = "registering", ![w].rec = r]
  /\ UNCHANGED <<tickets, events, requests, succeeded>>

\* DeployRunManager.register: a cancellation that came first is kept.
Register(w) ==
  /\ At(w, "registering")
  /\ events' = [events EXCEPT ![Home[w]][Rec(w)] =
                  IF @ = "set" THEN "set" ELSE "clear"]
  /\ Goto(w, "deploying")
  /\ UNCHANGED <<logs, tickets, requests, succeeded>>

-----------------------------------------------------------------------------
(* Workers: the deployer and what follows it. *)

\* cancel_checker_for: this process's signal, or the row is no longer running.
Cancelled(w) ==
  events[Home[w]][Rec(w)] = "set" \/ logs[Rec(w)].st # "running"

\* The deployer polls the checker between chunks of remote output: it may see
\* a cancellation, or end with a result before its next poll.
PollCancel(w) ==
  /\ At(w, "deploying")
  /\ Cancelled(w)
  /\ Goto(w, "cancelled")
  /\ UNCHANGED <<logs, tickets, events, requests, succeeded>>

DeployerEnds(w, res) ==
  /\ At(w, "deploying")
  /\ workers' = [workers EXCEPT ![w].pc = "finishing", ![w].res = res]
  /\ succeeded' = IF res = "ok" THEN succeeded \cup ({Job(w)} \cap Approval) ELSE succeeded
  /\ UNCHANGED <<logs, tickets, events, requests>>

Unregister(w) == events' = [events EXCEPT ![Home[w]][Rec(w)] = "absent"]

\* finish_deploy_record and the finally that unregisters the signal.
FinishRecord(w) ==
  /\ \E pc \in {"finishing", "cancelled"} :
       /\ At(w, pc)
       /\ LET res == IF pc = "cancelled" THEN "terminated" ELSE workers[w].res
          IN  Finish(Rec(w), res) /\ Return(w, res)
  /\ Unregister(w)
  /\ UNCHANGED <<tickets, requests, succeeded>>

\* The statement of finish_deploy_record fails, and a result's handler tries
\* once more, with failed; or the notification after it fails (the template of
\* a bot may name an unknown field), and the handler finds the row ended.
\* Either way the exception ends as {failed, deploy_id 0}.
FinishFails(w) ==
  /\ Faults
  /\ \/ At(w, "finishing") /\ \/ Finish(Rec(w), "failed")
                              \/ UNCHANGED logs
                              \/ Finish(Rec(w), workers[w].res)
     \/ At(w, "cancelled") /\ UNCHANGED logs
  /\ Unregister(w)
  /\ Return(w, "failed")
  /\ UNCHANGED <<tickets, requests, succeeded>>

\* Mutants of Conclude: the result is stored as it is, and a partial success
\* counts as one.
ConcludeUntranslated(w) ==
  /\ At(w, "concluding")
  /\ Transition(Job(w), {"deploying"}, workers[w].res)
  /\ Done(w)
  /\ UNCHANGED <<logs, events, requests, succeeded>>
ConcludePartial(w) ==
  /\ At(w, "concluding")
  /\ Settle(Job(w), CASE workers[w].res \in {"ok", "partial"} -> "deployed"
                      [] workers[w].res = "terminated"        -> "cancelled"
                      [] OTHER                                -> "failed")
  /\ Done(w)
  /\ UNCHANGED <<logs, events, requests, succeeded>>

\* run_approval's transition on the result.
Conclude(w) ==
  /\ At(w, "concluding")
  /\ Settle(Job(w), CASE workers[w].res = "ok"         -> "deployed"
                      [] workers[w].res = "terminated" -> "cancelled"
                      [] OTHER                         -> "failed")
  /\ Done(w)
  /\ UNCHANGED <<logs, events, requests, succeeded>>

\* The project is taken: the ticket goes back to approved, then its running
\* rows go back to pending.
ConcludeBusy(w) ==
  /\ At(w, "busy")
  /\ IF Job(w) = NoApproval
     THEN Done(w) /\ UNCHANGED tickets
     ELSE Settle(Job(w), "approved") /\ Goto(w, "resetting")
  /\ UNCHANGED <<logs, events, requests, succeeded>>

ResetRecord(w) ==
  /\ At(w, "resetting")
  /\ ResetPending(Job(w)) \/ (Faults /\ UNCHANGED logs)
  /\ Done(w)
  /\ UNCHANGED <<tickets, events, requests, succeeded>>

\* A statement of run_approval itself fails; the caller's handler (router:
\* failed, scheduler: approved) settles the ticket, which may fail too, and
\* then resets its rows.
RunFails(w) ==
  /\ Faults
  /\ \/ At(w, "claimed") \/ At(w, "concluding")
     \/ At(w, "busy") /\ Job(w) # NoApproval
  /\ Goto(w, "aborting")
  /\ UNCHANGED <<logs, tickets, events, requests, succeeded>>

Abort(w) ==
  /\ At(w, "aborting")
  /\ Settle(Job(w), "failed") \/ Settle(Job(w), "approved") \/ UNCHANGED tickets
  /\ Goto(w, "resetting")
  /\ UNCHANGED <<logs, events, requests, succeeded>>

-----------------------------------------------------------------------------
(* User cancellation of a running deployment, served by any process. *)

SelectRunning(i, r) ==
  /\ logs[r].st = "running"
  /\ Cardinality(cancels) < MaxCancel
  /\ cancels' = cancels \cup {<<i, r>>}
  /\ UNCHANGED <<logs, tickets, workers, events, filing, marking, succeeded>>

\* mark_deploy_cancelled: the local signal, created if absent, then the row.
MarkCancelled(i, r) ==
  /\ <<i, r>> \in cancels
  /\ events' = [events EXCEPT ![i][r] = "set"]
  /\ Terminate(r) \/ (Faults /\ UNCHANGED logs)
  /\ cancels' = cancels \ {<<i, r>>}
  /\ UNCHANGED <<tickets, workers, filing, marking, succeeded>>

-----------------------------------------------------------------------------
(* Processes: heartbeats, shutdown, crash, recovery. *)

Active(i) == {r \in LogId : events[i][r] # "absent"}    \* active_ids

Heartbeat(i) == Beat(i, Active(i)) /\ UNCHANGED <<tickets, flowVars>>

\* A row its process beats for.  A worker between its claim of the row and
\* register is a moment away from it.
Beating(r) ==
  \E i \in Instance :
    /\ logs[r].runner = i
    /\ \/ r \in Active(i)
       \/ \E w \in Worker : Home[w] = i /\ At(w, "registering") /\ Rec(w) = r

HeartbeatLapses(r) ==
  /\ TimelyHeartbeat => ~Beating(r)
  /\ Lapse(r)
  /\ UNCHANGED <<tickets, flowVars>>

\* shutdown_running_deploys: every registered deployment of i is signalled.
\* The process then ends (Crash) when they are gone or its patience is over.
Shutdown(i) ==
  /\ events' = [events EXCEPT ![i] = [r \in LogId |->
                  IF events[i][r] = "absent" THEN "absent" ELSE "set"]]
  /\ UNCHANGED <<logs, tickets, workers, requests, succeeded>>

\* The process i ends with everything it holds in memory.  Its successor starts
\* with nothing, and until it acts it is as if it had not started yet.
Crash(i) ==
  /\ workers' = [w \in Worker |-> IF Home[w] = i THEN IdleWorker ELSE workers[w]]
  /\ events'  = [events EXCEPT ![i] = [r \in LogId |-> "absent"]]
  /\ cancels' = {c \in cancels : c[1] # i}
  /\ Orphan(i)
  /\ UNCHANGED <<tickets, filing, marking, succeeded>>

\* recover_on_startup runs when a process starts and in every round of the
\* scheduler of every process: its two transactions come at any time, and with
\* several processes at it in any order.
SweepStale == RecoverStale /\ UNCHANGED <<tickets, flowVars>>

WithRow(s) == {a \in Approval : \E r \in RowsOf(a) : logs[r].st = s}

SweepConverge ==
  /\ Converge(WithRow("ok"), WithRow("failed"), WithRow("running"))
  /\ Requeue
  /\ UNCHANGED flowVars

-----------------------------------------------------------------------------
WorkerStep(w) ==
  \/ Recheck(w) \/ Refuse(w) \/ CheckBusy(w) \/ ClaimRecord(w)
  \/ InsertRecord(w) \/ Register(w) \/ PollCancel(w)
  \/ \E res \in Finished : DeployerEnds(w, res)
  \/ FinishRecord(w) \/ FinishFails(w)
  \/ Conclude(w) \/ ConcludeBusy(w) \/ ResetRecord(w) \/ RunFails(w) \/ Abort(w)

TicketRequest(a) ==
  \/ \E u \in User, rq \in Request : GateDeploy(a, u, rq)
  \/ \E v \in User : ApproveTicket(a, v) \/ Withdraw(a, v)
  \/ FileRecord(a)
  \/ \E s \in {"rejected", "cancelled"} : MarkRecord(a, s)

Next ==
  \/ \E a \in Approval : TicketRequest(a)
  \/ \E w \in Worker :
       \/ \E a \in Approval, u \in User : Claim(w, a, u)
       \/ \E rq \in Request : StartDirect(w, rq)
       \/ WorkerStep(w)
  \/ \E i \in Instance, r \in LogId : SelectRunning(i, r) \/ MarkCancelled(i, r)
  \/ \E i \in Instance : Heartbeat(i) \/ Shutdown(i) \/ Crash(i)
  \/ \E r \in LogId : HeartbeatLapses(r)
  \/ SweepStale
  \/ SweepConverge

Spec == Init /\ [][Next]_vars

\* Threads run, heartbeats that nobody writes lapse, and somebody sweeps.
\* Users need not do anything, and nothing needs to crash.
Fairness ==
  /\ \A w \in Worker : WF_vars(WorkerStep(w))
  /\ \A r \in LogId : WF_vars(~Beating(r) /\ HeartbeatLapses(r))
  /\ WF_vars(SweepStale)
  /\ WF_vars(SweepConverge)
LiveSpec == Spec /\ Fairness

-----------------------------------------------------------------------------
FlowTypeOK ==
  /\ workers \in [Worker -> WorkerState]
  /\ events \in [Instance -> [LogId -> {"absent", "clear", "set"}]]
  /\ filing \subseteq Approval
  /\ marking \subseteq Approval
  /\ cancels \subseteq Instance \X LogId
  /\ succeeded \subseteq Approval
TypeOK == RecordTypeOK /\ TicketTypeOK /\ FlowTypeOK

\* The rows and the threads of a ticket, not just the ticket, wait for the
\* decision: while a ticket that needs one has none, or was rejected, no worker
\* has it and none of its rows has ever run.  The request that files the row,
\* the one that marks it and the sweep that re-opens rows all write it without
\* looking at the ticket.
Decided(a) ==
  /\ tickets[a].approver \in Approver \ {tickets[a].requester}
  /\ tickets[a].st # "rejected"
NoRunWithoutApproval ==
  \A a \in Approval :
    \/ Decided(a)
    \/ tickets[a].st # "none" /\ ~tickets[a].ruled
    \/ /\ \A w \in Worker : Job(w) # a
       /\ \A r \in RowsOf(a) : logs[r].st \in {"pending", "rejected", "cancelled"}

\* A ticket shown as deployed stands for a deployer that ended with ok for it,
\* whoever settled it: its executor, another one, or a sweep after a crash.
DeployedMeansSucceeded ==
  \A a \in Approval : tickets[a].st = "deployed" => a \in succeeded

\* Of two deployers at work on one project, at least one has been told to stop
\* (its row is no longer running, or its signal is set): a direct deployment is
\* never cut across by one that believes itself entitled.  A swept or cancelled
\* row frees the project before its thread has noticed, so plain mutual
\* exclusion does not hold.  Two executors of one ticket share its row and are
\* another matter (OneExecutorPerTicket).
ExclusiveUnlessStopped ==
  \A w, v \in Worker :
    /\ w # v
    /\ At(w, "deploying") /\ At(v, "deploying")
    /\ workers[w].project = workers[v].project
    /\ Job(w) = NoApproval
    => Cancelled(w) \/ Cancelled(v)

\* A sweep takes no row away from a process that beats for it
\* (deploy_run.py:157, "rows of other processes are left alone").
SweepSparesLive ==
  [][\A r \in LogId : logs[r].st = "running" /\ logs'[r].st = "interrupted"
                        => ~Beating(r)]_vars

\* No ticket stays in deploying, and no row keeps its project locked: whatever
\* died in between, the sweeps return it (deploy_run.py:518,
\* approval_service.py:590).
DeployingResolves ==
  \A a \in Approval : tickets[a].st = "deploying" ~> tickets[a].st # "deploying"
LockReleased ==
  \A r \in LogId : logs[r].st = "running" ~> logs[r].st # "running"

-----------------------------------------------------------------------------
(* What the repository says and the code does not keep. *)

\* An approved ticket is executed by one executor at a time: the sweep leaves
\* alone what is being executed, "rolling it back would tear the executing
\* ticket and let the requester claim it twice" (approval_service.py:618-619).
\* The sweep only spares tickets whose row is running already.
OneExecutorPerTicket ==
  \A w, v \in Worker :
    w # v => ~(At(w, "deploying") /\ At(v, "deploying")
                 /\ Job(w) = Job(v) /\ Job(w) # NoApproval)

\* "Startup recovery no longer reopens finished deploys" (docs/CHANGELOG.md:120):
\* a ticket returns from deploying to approved only if no row of it has ended.
\* The convergence knows ok and failed, but not partial and terminated: TLC finds this
\* violated, and no run lists it.
RecoveryKeepsEnded ==
  [][\A a \in Approval :
       tickets[a].st = "deploying" /\ tickets'[a].st = "approved"
       => \A r \in RowsOf(a) : logs[r].st \notin Finished \cup {"terminated"}]_vars

\* active_ids returns "the ids of all deployments in progress in this process"
\* (deploy_run.py:140), so that a shutdown waits for nothing else.  A
\* cancellation served by a process that does not execute the deployment
\* leaves an entry that nobody removes: violated, and listed by no run.
ActiveIdsInProgress ==
  \A i \in Instance : \A r \in Active(i) :
    \E w \in Worker : Home[w] = i /\ Rec(w) = r
=============================================================================
