------------------------------ MODULE Scheduler ------------------------------
(***************************************************************************)
(* The scheduler of backend/services/approval_service.py: a thread in each *)
(* replica that, under the distributed lock, executes the approved tickets *)
(* whose time has come, and then sweeps up after crashed replicas.         *)
(*                                                                         *)
(* Of the lock only what Lease promises is used, of an execution and of    *)
(* the sweep what ApprovalFlow shows of them: one deployment of the        *)
(* project at a time, and no sweep of a live one.  All tickets are of one  *)
(* project.                                                                *)
(***************************************************************************)
EXTENDS ApprovalTickets, Lease

CONSTANTS
  Requester,    \* users who file deployments with a time, and
  Ruled,        \* the tickets for which there is a rule: inputs of the model
  MaxMishap,    \* bounds of the model: crashes, exceptions, leases outlasted; and
  MaxChange     \* changes of the requesters' accounts and of the identity service

ASSUME SchedulerAssumption ==
  /\ Project # {} /\ Requester \subseteq User /\ Ruled \subseteq Approval
  /\ {"hand", "nobody"} \cap Client = {}
  /\ MaxMishap \in Nat /\ MaxChange \in Nat

VARIABLES
  schedule,     \* cd_approvals.scheduled_at: empty, in the future, or come
  records,      \* the deployment record of each ticket
  hands,        \* tickets that are being executed by hand
  threads,      \* the scheduler thread of each replica
  identity,     \* accounts, whether Glue answers, and how often that changed
  mishaps

schedVars == <<tickets, holding, live, schedule, records, hands, threads, identity, mishaps>>

\* runner: who beats for it; nobody: nobody, or nobody any longer.
Record == [status : {"none", "pending", "running", "ok", "failed"},
           runner : Client \cup {"hand", "nobody"}]

\* todo: the rows selected; current: the ticket in hand.
Thread == [pc      : {"wait", "select", "turn", "claim", "start", "run", "clear",
                      "sweep", "release", "dead"},
           todo    : SUBSET Approval,
           current : Approval \cup {NoApproval}]
Waiting == [pc |-> "wait", todo |-> {}, current |-> NoApproval]

SchedInit ==
  /\ TicketInit /\ LeaseInit
  /\ schedule = [a \in Approval |-> "none"]
  /\ records = [a \in Approval |-> [status |-> "none", runner |-> "nobody"]]
  /\ hands = {}
  /\ threads = [c \in Client |-> Waiting]
  /\ identity = [allowed |-> User, up |-> TRUE, changes |-> 0]
  /\ mishaps = 0

-----------------------------------------------------------------------------
Doing(c, pc) == threads[c].pc = pc
Cur(c)       == threads[c].current
Goes(c, pc)  == threads' = [threads EXCEPT ![c].pc = pc]
Next1(c)     == threads' = [threads EXCEPT ![c] =
                              [pc |-> "turn", todo |-> @.todo, current |-> NoApproval]]
leaseKept    == UNCHANGED <<holding, live>>

Busy == \E a \in Approval : records[a].status = "running"

Running(a) == records[a].status = "running"
Put(a, s, r) == records' = [records EXCEPT ![a] = [status |-> s, runner |-> r]]

\* What the end of an execution, or an exception, makes of ticket and record: each
\* if it is still as the execution left it.
Ended(a, s) ==
  /\ Settle(a, s)
  /\ IF Running(a)
     THEN Put(a, CASE s = "deployed" -> "ok" [] s = "failed" -> "failed"
                   [] OTHER -> "pending", "nobody")
     ELSE UNCHANGED records

\* run_approval finds the project taken: the ticket goes back, and so would a
\* record of its own (reset_pending_deploy_record).
GoesBack(a) ==
  /\ Transition(a, {"deploying"}, "approved")
  /\ IF Running(a) THEN Put(a, "pending", "nobody") ELSE UNCHANGED records

-----------------------------------------------------------------------------
\* gate_deploy with a time: with a rule the ticket waits for its approval,
\* without one it is approved at once.
Submit(a, u) ==
  /\ u \in Requester
  /\ \E p \in Project : File(a, u, p, a \in Ruled)
  /\ schedule' = [schedule EXCEPT ![a] = "later"]
  /\ records' = [records EXCEPT ![a].status = "pending"]
  /\ leaseKept /\ UNCHANGED <<hands, threads, identity, mishaps>>

Decide(a, v) ==
  /\ Approve(a, v)
  /\ leaseKept /\ UNCHANGED <<hands, schedule, records, threads, identity, mishaps>>

Withdraw(a, v) ==
  /\ Cancel(a, v) \/ Reject(a, v)
  /\ leaseKept /\ UNCHANGED <<hands, schedule, records, threads, identity, mishaps>>

Due(a) ==
  /\ schedule[a] = "later"
  /\ schedule' = [schedule EXCEPT ![a] = "due"]
  /\ leaseKept /\ UNCHANGED <<hands, tickets, records, threads, identity, mishaps>>

\* The requester executes by hand, before the time or after.
HandStart(a) ==
  /\ identity.up /\ tickets[a].requester \in identity.allowed
  /\ ~Busy
  /\ ClaimTicket(a, tickets[a].requester)
  /\ Put(a, "running", "hand")
  /\ hands' = hands \cup {a}
  /\ leaseKept /\ UNCHANGED <<schedule, threads, identity, mishaps>>

HandEnd(a) ==
  /\ a \in hands
  /\ \E s \in {"deployed", "failed"} : Ended(a, s)
  /\ hands' = hands \ {a}
  /\ leaseKept /\ UNCHANGED <<schedule, threads, identity, mishaps>>

-----------------------------------------------------------------------------
\* _sched_run_loop: under the lock a round.
Acquire(c) ==
  /\ Doing(c, "wait")
  /\ Grant(c)
  /\ mishaps' = mishaps + (IF live' = {} THEN 1 ELSE 0)    \* granted too late
  /\ mishaps' <= MaxMishap
  /\ Goes(c, "select")
  /\ UNCHANGED <<hands, tickets, schedule, records, identity>>

\* What may outlast the lease is an execution: nothing renews it meanwhile.
LeaseOver(c) ==
  /\ c \in live /\ Doing(c, "run") /\ mishaps < MaxMishap
  /\ Expire({c})
  /\ mishaps' = mishaps + 1
  /\ UNCHANGED <<hands, tickets, schedule, records, threads, identity>>

\* Mutant of Select: the rows of the last round are not forgotten.
SelectMore(c) ==
  /\ Doing(c, "select")
  /\ threads' = [threads EXCEPT ![c] = [pc |-> "turn", current |-> NoApproval,
       todo |-> {a \in Approval : schedule[a] # "later" /\ tickets[a].st = "approved"}]]
  /\ leaseKept /\ UNCHANGED <<hands, tickets, schedule, records, identity, mishaps>>

\* run_due_scheduled: the rows to execute ...
Select(c) ==
  /\ Doing(c, "select")
  /\ threads' = [threads EXCEPT ![c] = [pc |-> "turn", current |-> NoApproval,
       todo |-> {a \in Approval : schedule[a] = "due" /\ tickets[a].st = "approved"}]]
  /\ leaseKept /\ UNCHANGED <<hands, tickets, schedule, records, identity, mishaps>>

\* ... one by one: claim_for_execution up to the check of the requester.  A ticket
\* that is no longer approved is passed over (ConflictError), a refusal and a
\* failure of the identity service alike clear the schedule (AppException).
Turn(c, a) ==
  /\ Doing(c, "turn") /\ a \in threads[c].todo
  /\ threads' = [threads EXCEPT ![c] =
       [todo |-> @.todo \ {a},
        current |-> IF tickets[a].st = "approved" THEN a ELSE NoApproval,
        pc |-> IF tickets[a].st # "approved" THEN "turn"
               ELSE IF identity.up /\ tickets[a].requester \in identity.allowed THEN "claim"
               ELSE "clear"]]
  /\ leaseKept /\ UNCHANGED <<hands, tickets, schedule, records, identity, mishaps>>

\* The claim itself: somebody may have been faster.
Claim(c) ==
  /\ Doing(c, "claim")
  /\ LET a == Cur(c)
     IN  \/ ClaimTicket(a, tickets[a].requester) /\ Goes(c, "start")
         \/ tickets[a].st # "approved" /\ Next1(c) /\ UNCHANGED tickets
  /\ leaseKept /\ UNCHANGED <<hands, schedule, records, identity, mishaps>>

\* run_approval and the execution's claim of the record.
Start(c) ==
  /\ Doing(c, "start")
  /\ LET a == Cur(c)
     IN  \/ /\ tickets[a].st = "deploying" /\ ~Busy
            /\ Put(a, "running", c)
            /\ Goes(c, "run") /\ UNCHANGED tickets
         \/ /\ tickets[a].st = "deploying" /\ Busy
            /\ GoesBack(a) /\ Next1(c)
         \/ /\ tickets[a].st # "deploying"
            /\ Next1(c) /\ UNCHANGED <<tickets, records>>
  /\ leaseKept /\ UNCHANGED <<hands, schedule, identity, mishaps>>

\* The execution ends, or throws: then the ticket goes back and the record too.
Finish(c) ==
  /\ Doing(c, "run")
  /\ \E s \in {"deployed", "failed"} : Ended(Cur(c), s)
  /\ Next1(c)
  /\ leaseKept /\ UNCHANGED <<hands, schedule, identity, mishaps>>

Throw(c) ==
  /\ Doing(c, "run") /\ mishaps < MaxMishap
  /\ Ended(Cur(c), "approved")
  /\ Next1(c)
  /\ mishaps' = mishaps + 1
  /\ leaseKept /\ UNCHANGED <<hands, schedule, identity>>

\* The schedule of a ticket that cannot be executed is cleared, if it is still
\* approved.
Clear(c) ==
  /\ Doing(c, "clear")
  /\ schedule' = IF tickets[Cur(c)].st = "approved"
                 THEN [schedule EXCEPT ![Cur(c)] = "none"] ELSE schedule
  /\ Next1(c)
  /\ leaseKept /\ UNCHANGED <<hands, tickets, records, identity, mishaps>>

RoundDone(c) ==
  /\ Doing(c, "turn") /\ threads[c].todo = {}
  /\ Goes(c, "sweep")
  /\ leaseKept /\ UNCHANGED <<hands, tickets, schedule, records, identity, mishaps>>

\* The beats of a crashed replica's execution lapse.
Lapse(a) ==
  /\ Running(a) /\ records[a].runner \in Client
  /\ Cur(records[a].runner) # a
  /\ Put(a, "running", "nobody")
  /\ leaseKept /\ UNCHANGED <<hands, tickets, schedule, threads, identity, mishaps>>

\* recover_on_startup: records nobody beats for go back, and with them the tickets that
\* are executing without a record that runs.
Sweep(c) ==
  /\ Doing(c, "sweep")
  /\ LET gone == {a \in Approval : records[a] = [status |-> "running", runner |-> "nobody"]}
         rows == [a \in Approval |-> IF a \in gone THEN [status |-> "pending", runner |-> "nobody"]
                                     ELSE records[a]]
         With(s) == {a \in Approval : rows[a].status = s}
     IN  /\ records' = rows
         /\ Converge(With("ok"), With("failed"), With("running"))
  /\ Goes(c, "release")
  /\ leaseKept /\ UNCHANGED <<hands, schedule, identity, mishaps>>

LetGo(c) ==
  /\ Doing(c, "release")
  /\ Drop(c)
  /\ Goes(c, "wait")
  /\ UNCHANGED <<hands, tickets, schedule, records, identity, mishaps>>

\* A replica dies and another takes its place, which recovers at its startup.
Perish(c) ==
  /\ mishaps < MaxMishap
  /\ threads' = [threads EXCEPT ![c] = [Waiting EXCEPT !.pc = "dead"]]
  /\ holding' = holding \ {c} /\ live' = live \ {c}
  /\ mishaps' = mishaps + 1
  /\ UNCHANGED <<hands, tickets, schedule, records, identity>>

TakePlace(c) ==
  /\ Doing(c, "dead")
  /\ Goes(c, "sweep")
  /\ leaseKept /\ UNCHANGED <<hands, tickets, schedule, records, identity, mishaps>>

\* Accounts and the identity service.
Bar(u) ==
  /\ identity.changes < MaxChange /\ u \in identity.allowed
  /\ identity' = [identity EXCEPT !.allowed = @ \ {u}, !.changes = @ + 1]
  /\ leaseKept /\ UNCHANGED <<hands, tickets, schedule, records, threads, mishaps>>

Outage ==
  /\ identity.changes < MaxChange /\ identity.up
  /\ identity' = [identity EXCEPT !.up = FALSE, !.changes = @ + 1]
  /\ leaseKept /\ UNCHANGED <<hands, tickets, schedule, records, threads, mishaps>>

Recovery ==
  /\ ~identity.up
  /\ identity' = [identity EXCEPT !.up = TRUE]
  /\ leaseKept /\ UNCHANGED <<hands, tickets, schedule, records, threads, mishaps>>

ThreadStep(c) ==
  \/ Select(c) \/ (\E a \in Approval : Turn(c, a)) \/ Claim(c) \/ Start(c) \/ Finish(c)
  \/ Clear(c) \/ RoundDone(c) \/ Sweep(c) \/ LetGo(c) \/ TakePlace(c)

SchedNext ==
  \/ \E a \in Approval, u \in User :
       Submit(a, u) \/ Decide(a, u) \/ Withdraw(a, u)
  \/ \E a \in Approval : Due(a) \/ HandStart(a) \/ HandEnd(a) \/ Lapse(a)
  \/ \E c \in Client : Acquire(c) \/ LeaseOver(c) \/ ThreadStep(c) \/ Throw(c) \/ Perish(c)
  \/ \E u \in User : Bar(u)
  \/ Outage \/ Recovery

SchedSpec == SchedInit /\ [][SchedNext]_schedVars

\* The threads run, some replica gets the lock when it is free, the beats of
\* a dead replica lapse, and executions end.
SchedFairness ==
  /\ \A c \in Client : WF_schedVars(ThreadStep(c))
  /\ WF_schedVars(\E c \in Client : Acquire(c))
  /\ \A a \in Approval : WF_schedVars(HandEnd(a)) /\ WF_schedVars(Lapse(a))

-----------------------------------------------------------------------------
\* Types; what is executed is executed under the lock, and who waits has none; an
\* execution by hand has a ticket that is deploying, as long as nothing went wrong
\* (a sweep between claim and start can take a ticket from under a scheduler).
SchedTypeOK ==
  /\ TicketTypeOK
  /\ \A c \in Client :
       /\ threads[c].pc \in {"select", "turn", "claim", "start", "run", "clear"} => c \in holding
       /\ threads[c].pc \in {"wait", "dead"} => c \notin holding
  /\ mishaps = 0 => \A a \in hands : tickets[a].st = "deploying"
  /\ holding \subseteq Client /\ live \subseteq holding
  /\ schedule \in [Approval -> {"none", "later", "due"}]
  /\ records \in [Approval -> Record] /\ hands \subseteq Approval
  /\ threads \in [Client -> Thread]
  /\ identity \in [allowed : SUBSET User, up : BOOLEAN, changes : 0..MaxChange]
  /\ mishaps \in 0..MaxMishap

\* A ticket that has come due is executed to an end, or is withdrawn, or returned
\* to its requester without a time: through conflicts over the project, crashes
\* amid its execution, and the end of a lease.
DueEnds ==
  \A a \in Approval :
    schedule[a] = "due" /\ tickets[a].st = "approved"
      ~> tickets[a].st \in Terminal \/ schedule[a] = "none"

\* What was returned to its requester the schedulers leave to him, as long as none
\* outlasted its lease.
ClearedIsLeft ==
  [][\A c \in Client, a \in Approval :
       Doing(c, "claim") /\ threads'[c].pc = "start" /\ Cur(c) = a
         => schedule[a] = "due" \/ mishaps > 0]_schedVars

\* "Permanent failures, a permission withdrawn or an account deleted, clear the
\* schedule" (approval_service.py:720-721): nothing else does.  Violated: an outage of
\* the identity service does.
ScheduleKept ==
  [][\A a \in Approval :
       schedule[a] = "due" /\ schedule'[a] = "none"
         => tickets[a].requester \notin identity.allowed]_schedVars
=============================================================================
