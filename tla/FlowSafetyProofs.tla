--------------------------- MODULE FlowSafetyProofs ---------------------------
(***************************************************************************)
(* What needs both tables and the threads at once: no row runs without the *)
(* decision its ticket needs, a ticket shown as deployed was deployed, and *)
(* direct deployments of one project do not cut across each other; for any *)
(* number of workers, processes, tickets, rows and projects, under crashes *)
(* and failing statements.                                                 *)
(*                                                                         *)
(* The invariant follows the ticket's number: from the claim into the      *)
(* worker, from there into the row it claims or inserts, and from the      *)
(* row's outcome back to the ticket.  Along the way the decision cannot be *)
(* taken back, and a row never changes its ticket or its project.          *)
(***************************************************************************)
EXTENDS ApprovalFlowProofs, FiniteSetTheorems

\* The places where a worker has a row of its own.
RowPc == {"registering", "deploying", "finishing", "cancelled"}

\* The states of a row that never ran, or that may run again.
Unrun == {"pending", "rejected", "cancelled"}

\* Ticket a of the table k may be executed.
Allowed(a, k) ==
  /\ k[a].st # "none"
  /\ \/ ~k[a].ruled
     \/ k[a].approver \in Approver \ {k[a].requester} /\ k[a].st # "rejected"

\* What a worker t carries agrees with the rows l, the tickets k, the successes s.
Carries(t, l, k, s) ==
  /\ t.job # NoApproval => Allowed(t.job, k) /\ t.project = k[t.job].project
  /\ t.pc \in RowPc => /\ l[t.rec].st # "absent" /\ l[t.rec].approval = t.job
                       /\ l[t.rec].project = t.project
  /\ t.pc \in {"finishing", "concluding"} /\ t.res = "ok" /\ t.job # NoApproval => t.job \in s

\* So does what a row x says.
Accounted(x, k, s) ==
  x.st # "absent" /\ x.approval # NoApproval =>
    /\ k[x.approval].st # "none" /\ x.project = k[x.approval].project
    /\ x.st \notin Unrun => Allowed(x.approval, k)
    /\ x.st = "ok" => x.approval \in s

\* Only executors of one ticket share a row.
Apart ==
  \A w, v \in Worker :
    w # v /\ workers[w].pc \in RowPc /\ workers[v].pc \in RowPc /\ Rec(w) = Rec(v)
    => Job(w) # NoApproval

LinkInv ==
  /\ FlowInv
  /\ \A w \in Worker : Carries(workers[w], logs, tickets, succeeded)
  /\ \A r \in LogId : Accounted(logs[r], tickets, succeeded)
  /\ Apart
  /\ DeployedMeansSucceeded

\* A row keeps its ticket and its project.
Kept(x, y) ==
  x.st # "absent" => y.st # "absent" /\ y.approval = x.approval /\ y.project = x.project

\* What every step is to be shown to do to the rows, and to the tickets.
RowsFine ==
  \A r \in LogId : Kept(logs[r], logs'[r]) /\ Accounted(logs'[r], tickets', succeeded')
DeployedFine ==
  \A a \in Approval : tickets'[a].st = "deployed" => a \in succeeded'

-----------------------------------------------------------------------------
(* What a step cannot take back. *)

\* The types of one worker, one row, one ticket.
LEMMA FlowFacts ==
  ASSUME FlowInv
  PROVE  /\ workers \in [Worker -> WorkerState] /\ \A w \in Worker : Equipped(workers[w])
         /\ \A w \in Worker : workers[w] \in WorkerState
         /\ logs \in [LogId -> Row] /\ \A r \in LogId : logs[r] \in Row
         /\ tickets \in [Approval -> Ticket]
         /\ \A a \in Approval : tickets[a] \in Ticket /\ Sound(tickets[a])
         /\ succeeded \subseteq Approval
         /\ NoApproval \notin Approval
  BY NullAssumption
     DEF FlowInv, RecordInv, RecordTypeOK, TicketInv, TicketTypeOK, LocalInv, FlowTypeOK, Equipped

\* A ticket's rule is what it was filed with.
LEMMA RuledStays ==
  ASSUME TicketInv, [TicketNext]_tickets, NEW a \in Approval, tickets[a].st # "none"
  PROVE  tickets'[a].ruled = tickets[a].ruled
<1>1. tickets \in [Approval -> Ticket]
  BY DEF TicketInv, TicketTypeOK
<1>2. ASSUME NEW b \in Approval, NEW u \in User, NEW p \in Project, NEW ruled \in BOOLEAN,
             File(b, u, p, ruled)
      PROVE  tickets'[a].ruled = tickets[a].ruled
  BY <1>1, <1>2 DEF File
<1>3. ASSUME NEW b \in Approval, NEW u \in User, Approve(b, u) \/ Reject(b, u)
      PROVE  tickets'[a].ruled = tickets[a].ruled
  BY <1>1, <1>3 DEF Approve, Reject, Ticket
<1>4. ASSUME NEW b \in Approval, NEW from, NEW to, Transition(b, from, to)
      PROVE  tickets'[a].ruled = tickets[a].ruled
  BY <1>1, <1>4 DEF Transition, Ticket
<1>5. ASSUME NEW ok, NEW bad, NEW running, Converge(ok, bad, running)
      PROVE  tickets'[a].ruled = tickets[a].ruled
  BY <1>1, <1>5 DEF Converge, Ticket
<1> QED BY <1>2, <1>3, <1>4, <1>5 DEF TicketNext, Cancel, ClaimTicket, Settle

\* Nor is a decision taken back: reject finds a ticket pending or does nothing.
LEMMA AllowedStays ==
  ASSUME TicketInv, [TicketNext]_tickets, NEW a \in Approval, tickets[a].st # "none"
  PROVE  /\ tickets'[a].st # "none" /\ tickets'[a].project = tickets[a].project
         /\ Allowed(a, tickets) => Allowed(a, tickets')
<1>1. \/ UNCHANGED tickets
      \/ /\ tickets'[a].st # tickets[a].st => <<tickets[a].st, tickets'[a].st>> \in Edges
         /\ tickets'[a].requester = tickets[a].requester
         /\ tickets'[a].project = tickets[a].project
         /\ tickets[a].approver # NoUser => tickets'[a].approver = tickets[a].approver
  BY TicketStepInv DEF TicketStep
<1>2. tickets'[a].st # "none" /\ (tickets'[a].st = "rejected" => tickets[a].st \in {"pending", "rejected"})
  BY <1>1 DEF Edges
<1>3. tickets[a].st = "pending" => tickets[a].approver = NoUser
  BY DEF TicketInv, Sound
<1>4. NoUser \notin Approver
  BY UserAssumption
<1> QED BY <1>1, <1>2, <1>3, <1>4, RuledStays DEF Allowed

\* What a worker carries stays right while others move.
LEMMA CarriesStays ==
  ASSUME FlowInv, Conforms, NEW t \in WorkerState, Equipped(t),
         \A r \in LogId : Kept(logs[r], logs'[r]), succeeded \subseteq succeeded',
         Carries(t, logs, tickets, succeeded)
  PROVE  Carries(t, logs', tickets', succeeded')
<1>1. t.job \in Approval \cup {NoApproval} /\ (t.pc \in RowPc => t.rec \in LogId)
  BY DEF WorkerState, Equipped, RowPc
<1>2. t.job # NoApproval => Allowed(t.job, tickets') /\ t.project = tickets'[t.job].project
  BY <1>1, AllowedStays DEF Carries, Conforms, FlowInv, Allowed
<1>3. t.pc \in RowPc => /\ logs'[t.rec].st # "absent" /\ logs'[t.rec].approval = t.job
                        /\ logs'[t.rec].project = t.project
  BY <1>1 DEF Carries, Kept
<1> QED BY <1>2, <1>3 DEF Carries

\* A row stays accounted for if it stays, goes back to where it may wait, or ends
\* otherwise than ok and had run or may run.
LEMMA AccountedStays ==
  ASSUME FlowInv, Conforms, NEW r \in LogId, succeeded \subseteq succeeded',
         Accounted(logs[r], tickets, succeeded),
         logs'[r].approval = logs[r].approval, logs'[r].project = logs[r].project,
         logs[r].st = "absent" => logs'[r].st = "absent",
         \/ logs'[r].st = logs[r].st
         \/ logs'[r].st \in Unrun
         \/ logs'[r].st # "ok" /\ (logs[r].st \notin Unrun \/ Allowed(logs[r].approval, tickets))
  PROVE  Accounted(logs'[r], tickets', succeeded')
<1>1. logs[r].approval \in Approval \cup {NoApproval}
  BY FlowFacts DEF Row
<1> DEFINE a == logs[r].approval
<1>2. CASE logs[r].st = "absent" \/ a = NoApproval
  BY <1>2 DEF Accounted
<1>3. CASE logs[r].st # "absent" /\ a # NoApproval
  <2>1. a \in Approval /\ tickets[a].st # "none"
    BY <1>1, <1>3 DEF Accounted
  <2>2. /\ tickets'[a].st # "none" /\ tickets'[a].project = tickets[a].project
        /\ Allowed(a, tickets) => Allowed(a, tickets')
    BY <2>1, AllowedStays DEF Conforms, FlowInv
  <2> QED BY <1>3, <2>1, <2>2 DEF Accounted, Unrun
<1> QED BY <1>2, <1>3

-----------------------------------------------------------------------------
(* A step keeps the invariant if its rows, its tickets and its worker do. *)

\* The invariant from its parts: a worker is as it was, or carries what is right.
LEMMA Links ==
  ASSUME LinkInv, Next, RowsFine, DeployedFine, Apart', succeeded \subseteq succeeded',
         \A w \in Worker : \/ workers'[w] = workers[w]
                           \/ Carries(workers'[w], logs', tickets', succeeded')
  PROVE  LinkInv'
<1>1. FlowInv' /\ Conforms
  BY FlowStep, NextConforms DEF LinkInv
<1>2. \A w \in Worker : Carries(workers'[w], logs', tickets', succeeded')
  <2> SUFFICES ASSUME NEW w \in Worker, workers'[w] = workers[w]
               PROVE  Carries(workers'[w], logs', tickets', succeeded')
    OBVIOUS
  <2>1. workers[w] \in WorkerState /\ Equipped(workers[w])
    BY FlowFacts DEF LinkInv
  <2>2. Carries(workers[w], logs', tickets', succeeded')
    BY <1>1, <2>1, CarriesStays DEF LinkInv, RowsFine
  <2> QED BY <2>2
<1>3. \A r \in LogId : Accounted(logs'[r], tickets', succeeded')
  BY DEF RowsFine
<1> QED BY <1>1, <1>2, <1>3 DEF LinkInv, DeployedFine, DeployedMeansSucceeded

\* Nobody gets a row.
LEMMA ApartKept ==
  ASSUME Apart,
         \A w \in Worker : workers'[w].pc \in RowPc =>
           /\ workers[w].pc \in RowPc
           /\ workers'[w].rec = workers[w].rec /\ workers'[w].job = workers[w].job
  PROVE  Apart'
  BY DEF Apart, Rec, Job

\* The rows where only tickets move, or where nothing does.
LEMMA RowsUnmoved ==
  ASSUME LinkInv, Next, UNCHANGED logs, succeeded \subseteq succeeded'
  PROVE  RowsFine
<1>1. FlowInv /\ Conforms
  BY NextConforms DEF LinkInv
<1> SUFFICES ASSUME NEW r \in LogId
             PROVE  Kept(logs[r], logs'[r]) /\ Accounted(logs'[r], tickets', succeeded')
  BY DEF RowsFine
<1>2. Accounted(logs[r], tickets, succeeded)
  BY DEF LinkInv
<1> QED BY <1>1, <1>2, AccountedStays DEF Kept

\* The rows under a statement that ends or releases some of them.
LEMMA RowsReleased ==
  ASSUME LinkInv, Next, NEW S \in SUBSET LogId, NEW s \in LogStatus \ {"absent"}, Release(S, s),
         UNCHANGED succeeded,
         \A r \in S : /\ logs[r].st # "absent"
                      /\ s = "ok" /\ logs[r].approval # NoApproval => logs[r].approval \in succeeded
                      /\ \/ s \in Unrun
                         \/ logs[r].st \notin Unrun
                         \/ logs[r].approval # NoApproval => Allowed(logs[r].approval, tickets)
  PROVE  RowsFine
<1>1. FlowInv /\ Conforms
  BY NextConforms DEF LinkInv
<1> SUFFICES ASSUME NEW r \in LogId
             PROVE  Kept(logs[r], logs'[r]) /\ Accounted(logs'[r], tickets', succeeded')
  BY DEF RowsFine
<1>2. Accounted(logs[r], tickets, succeeded) /\ logs[r] \in Row
  BY FlowFacts DEF LinkInv
<1>3. CASE r \notin S
  <2>1. logs'[r] = logs[r]
    BY <1>3 DEF Release
  <2> QED BY <1>1, <1>2, <2>1, AccountedStays DEF Kept
<1>4. CASE r \in S
  <2>1. logs'[r].st = s /\ logs'[r].approval = logs[r].approval /\ logs'[r].project = logs[r].project
    BY <1>2, <1>4 DEF Release, Row
  <2>2. logs[r].st # "absent" /\ Kept(logs[r], logs'[r])
    BY <1>4, <2>1 DEF Kept
  <2>3. CASE logs[r].approval = NoApproval
    BY <2>1, <2>2, <2>3 DEF Accounted
  <2>4. CASE logs[r].approval # NoApproval /\ s # "ok"
    BY <1>1, <1>2, <1>4, <2>1, <2>2, <2>4, AccountedStays
  <2>5. CASE logs[r].approval # NoApproval /\ s = "ok"
    <3> DEFINE a == logs[r].approval
    <3>1. a \in Approval /\ Allowed(a, tickets) /\ logs[r].project = tickets[a].project /\ a \in succeeded
      BY <1>2, <1>4, <2>2, <2>5 DEF Accounted, Row, Unrun
    <3>2. Allowed(a, tickets') /\ tickets'[a].st # "none" /\ tickets'[a].project = tickets[a].project
      BY <1>1, <3>1, AllowedStays DEF Allowed, Conforms, FlowInv
    <3> QED BY <2>1, <2>2, <3>1, <3>2 DEF Accounted
  <2> QED BY <2>3, <2>4, <2>5
<1> QED BY <1>3, <1>4

\* Tickets that no statement makes deployed.
LEMMA DeployedKept ==
  ASSUME LinkInv, succeeded \subseteq succeeded',
         \A a \in Approval : tickets'[a].st = "deployed" => tickets[a].st = "deployed"
  PROVE  DeployedFine
  BY DEF DeployedFine, LinkInv, DeployedMeansSucceeded

-----------------------------------------------------------------------------
(* The steps of a worker. *)

\* One worker moves.
LEMMA OneWorker ==
  ASSUME LinkInv, Next, RowsFine, DeployedFine, succeeded \subseteq succeeded',
         NEW w \in Worker, NEW t, workers' = [workers EXCEPT ![w] = t],
         Carries(t, logs', tickets', succeeded'),
         t.pc \in RowPc => /\ workers[w].pc \in RowPc
                           /\ t.rec = workers[w].rec /\ t.job = workers[w].job
  PROVE  LinkInv'
<1>1. \A v \in Worker : workers'[v] = IF v = w THEN t ELSE workers[v]
  BY FlowFacts DEF LinkInv
<1>2. Apart'
  BY <1>1, ApartKept DEF LinkInv
<1> QED BY <1>1, <1>2, Links

\* A worker without a job carries nothing.
LEMMA IdleCarries ==
  ASSUME NEW l, NEW k, NEW s
  PROVE  Carries(IdleWorker, l, k, s) /\ IdleWorker.pc \notin RowPc
  BY DEF Carries, IdleWorker, RowPc

\* What a worker carries, after the step.
LEMMA StillCarries ==
  ASSUME LinkInv, Next, RowsFine, succeeded \subseteq succeeded', NEW w \in Worker
  PROVE  /\ Carries(workers[w], logs', tickets', succeeded')
         /\ workers[w] \in WorkerState /\ Equipped(workers[w])
<1>1. FlowInv /\ Conforms /\ workers[w] \in WorkerState /\ Equipped(workers[w])
  BY NextConforms, FlowFacts DEF LinkInv
<1> QED BY <1>1, CarriesStays DEF LinkInv, RowsFine

\* A worker moves on, with what it has.
LEMMA GotoLinks ==
  ASSUME LinkInv, Next, RowsFine, DeployedFine, succeeded \subseteq succeeded',
         NEW w \in Worker, NEW pc \in Pc, Goto(w, pc), pc \notin {"finishing", "concluding"},
         pc \in RowPc => workers[w].pc \in RowPc
  PROVE  LinkInv'
<1> DEFINE t == [workers[w] EXCEPT !.pc = pc]
<1>1. Carries(workers[w], logs', tickets', succeeded') /\ workers[w] \in WorkerState
  BY StillCarries
<1>2. t.pc = pc /\ t.job = workers[w].job /\ t.project = workers[w].project /\ t.rec = workers[w].rec
  BY <1>1 DEF WorkerState
<1>3. workers' = [workers EXCEPT ![w] = t]
  BY DEF Goto
<1> HIDE DEF t
<1>4. Carries(t, logs', tickets', succeeded')
  BY <1>1, <1>2 DEF Carries
<1> QED BY <1>2, <1>3, <1>4, OneWorker

\* A worker is done.
LEMMA DoneLinks ==
  ASSUME LinkInv, Next, RowsFine, DeployedFine, succeeded \subseteq succeeded', NEW w \in Worker, Done(w)
  PROVE  LinkInv'
  BY IdleCarries, OneWorker DEF Done

\* The end of execute: only with ok if the ticket's deployer has succeeded.
LEMMA ReturnLinks ==
  ASSUME LinkInv, Next, RowsFine, DeployedFine, succeeded \subseteq succeeded',
         NEW w \in Worker, NEW res, Return(w, res),
         res = "ok" /\ Job(w) # NoApproval => Job(w) \in succeeded'
  PROVE  LinkInv'
<1>1. CASE Job(w) = NoApproval
  BY <1>1, IdleCarries, OneWorker DEF Return
<1>2. CASE Job(w) # NoApproval
  <2> DEFINE t == [workers[w] EXCEPT !.pc = "concluding", !.res = res, !.rec = 0]
  <2>1. Carries(workers[w], logs', tickets', succeeded') /\ workers[w] \in WorkerState
    BY StillCarries
  <2>2. /\ t.pc = "concluding" /\ t.job = workers[w].job /\ t.project = workers[w].project
        /\ t.res = res
    BY <2>1 DEF WorkerState
  <2>3. workers' = [workers EXCEPT ![w] = t]
    BY <1>2 DEF Return
  <2> HIDE DEF t
  <2>4. Carries(t, logs', tickets', succeeded') /\ t.pc \notin RowPc
    BY <2>1, <2>2 DEF Carries, RowPc, Job
  <2> QED BY <2>3, <2>4, OneWorker
<1> QED BY <1>1, <1>2

\* A claim carries the ticket, whose decision Sound vouches for.
LEMMA ClaimLinks ==
  ASSUME LinkInv, Next, NEW w \in Worker, NEW a \in Approval, NEW u \in User, Claim(w, a, u)
  PROVE  LinkInv'
<1>1. RowsFine /\ UNCHANGED succeeded
  BY RowsUnmoved DEF Claim
<1>2. /\ tickets[a].st = "approved" /\ Sound(tickets[a]) /\ tickets[a] \in Ticket
      /\ tickets' = [tickets EXCEPT ![a].st = "deploying"]
      /\ tickets \in [Approval -> Ticket]
  BY FlowFacts DEF Claim, ClaimTicket, Transition, LinkInv
<1>3. DeployedFine
  BY <1>1, <1>2, DeployedKept DEF Ticket
<1>4. Allowed(a, tickets') /\ tickets'[a].project = tickets[a].project
  BY <1>2 DEF Allowed, Sound, Ticket
<1> DEFINE t == [IdleWorker EXCEPT !.pc = "claimed", !.job = a, !.project = tickets[a].project]
<1>5. t.pc = "claimed" /\ t.job = a /\ t.project = tickets[a].project
  BY DEF IdleWorker
<1>6. workers' = [workers EXCEPT ![w] = t]
  BY DEF Claim
<1> HIDE DEF t
<1>7. Carries(t, logs', tickets', succeeded') /\ t.pc \notin RowPc
  BY <1>4, <1>5 DEF Carries, RowPc
<1> QED BY <1>1, <1>3, <1>6, <1>7, OneWorker

\* A direct deployment carries no ticket.
LEMMA DirectLinks ==
  ASSUME LinkInv, Next, NEW w \in Worker, NEW rq \in Request, StartDirect(w, rq)
  PROVE  LinkInv'
<1>1. RowsFine /\ UNCHANGED <<succeeded, tickets>>
  BY RowsUnmoved DEF StartDirect
<1>2. DeployedFine
  BY <1>1, DeployedKept
<1> DEFINE t == [IdleWorker EXCEPT !.pc = "resolving", !.project = rq.project]
<1>3. t.pc = "resolving" /\ t.job = NoApproval
  BY DEF IdleWorker
<1>4. workers' = [workers EXCEPT ![w] = t]
  BY DEF StartDirect
<1> HIDE DEF t
<1>5. Carries(t, logs', tickets', succeeded') /\ t.pc \notin RowPc
  BY <1>3 DEF Carries, RowPc
<1> QED BY <1>1, <1>2, <1>4, <1>5, OneWorker

\* A worker gets a row: the one it claims has its ticket's number, the one it inserts
\* is nobody's.
LEMMA RowLinks ==
  ASSUME LinkInv, Next, NEW w \in Worker, NEW r \in LogId, UNCHANGED <<succeeded, tickets>>,
         workers' = [workers EXCEPT ![w].pc = "registering", ![w].rec = r],
         \/ /\ Job(w) # NoApproval /\ ClaimPending(r, workers[w].project, Job(w), Home[w])
         \/ InsertRunning(r, workers[w].project, Job(w), Home[w])
  PROVE  LinkInv'
<1>1. /\ workers[w] \in WorkerState /\ Carries(workers[w], logs, tickets, succeeded)
      /\ FlowInv /\ Conforms /\ logs \in [LogId -> Row] /\ logs[r] \in Row
      /\ workers \in [Worker -> WorkerState]
  BY FlowFacts, NextConforms DEF LinkInv
<1>2. /\ logs'[r].st = "running" /\ logs'[r].approval = Job(w)
      /\ logs'[r].project = workers[w].project
      /\ \A q \in LogId : q # r => logs'[q] = logs[q]
      /\ logs[r].st # "absent" => logs[r].approval = Job(w) /\ Job(w) # NoApproval
  <2>1. CASE Job(w) # NoApproval /\ ClaimPending(r, workers[w].project, Job(w), Home[w])
    BY <1>1, <2>1 DEF ClaimPending, Latest, PendingOf, RowsOf, Row
  <2>2. CASE InsertRunning(r, workers[w].project, Job(w), Home[w])
    BY <1>1, <2>2 DEF InsertRunning, NextId
  <2> QED BY <2>1, <2>2
<1>3. RowsFine
  <2>1. Accounted(logs[r], tickets, succeeded)
    BY DEF LinkInv
  <2>2. Kept(logs[r], logs'[r])
    BY <1>1, <1>2, <2>1 DEF Kept, Accounted, Carries, Job
  <2>3. Accounted(logs'[r], tickets', succeeded')
    BY <1>1, <1>2 DEF Accounted, Carries, Job, Allowed
  <2>4. \A q \in LogId : q # r =>
          Kept(logs[q], logs'[q]) /\ Accounted(logs'[q], tickets', succeeded')
    BY <1>2 DEF Kept, LinkInv
  <2> QED BY <2>2, <2>3, <2>4 DEF RowsFine
<1> DEFINE t == [workers[w] EXCEPT !.pc = "registering", !.rec = r]
<1>4. t.pc = "registering" /\ t.rec = r /\ t.job = Job(w) /\ t.project = workers[w].project
  BY <1>1 DEF WorkerState, Job
<1>5. workers' = [workers EXCEPT ![w] = t]
  BY <1>1
<1> HIDE DEF t
<1>6. Carries(t, logs', tickets', succeeded')
  BY <1>1, <1>2, <1>4 DEF Carries, Job
<1>7. \A v \in Worker : workers'[v] = IF v = w THEN t ELSE workers[v]
  BY <1>1, <1>5
<1>8. Apart'
  <2>1. \A v \in Worker : v # w /\ workers[v].pc \in RowPc /\ workers[v].rec = r =>
          Job(w) # NoApproval /\ workers[v].job = Job(w)
    BY <1>2 DEF LinkInv, Carries
  <2> SUFFICES ASSUME NEW u \in Worker, NEW v \in Worker, u # v,
                      workers'[u].pc \in RowPc, workers'[v].pc \in RowPc,
                      workers'[u].rec = workers'[v].rec
               PROVE  workers'[u].job # NoApproval
    BY DEF Apart, Rec, Job
  <2>2. CASE u = w
    <3>1. workers'[u] = t /\ workers'[v] = workers[v]
      BY <1>7, <2>2
    <3> QED BY <1>4, <2>1, <2>2, <3>1
  <2>3. CASE v = w
    <3>1. workers'[v] = t /\ workers'[u] = workers[u]
      BY <1>7, <2>3
    <3> QED BY <1>4, <2>1, <2>3, <3>1
  <2>4. CASE u # w /\ v # w
    <3>1. workers'[v] = workers[v] /\ workers'[u] = workers[u]
      BY <1>7, <2>4
    <3> QED BY <3>1 DEF Apart, Rec, Job, LinkInv
  <2> QED BY <2>2, <2>3, <2>4
<1>9. DeployedFine
  BY DeployedKept
<1> QED BY <1>3, <1>6, <1>7, <1>8, <1>9, Links

\* The rows under finish_deploy_record: what is written over a row that was lost is
\* terminated, and ok only over a running one.
LEMMA FinishRows ==
  ASSUME LinkInv, Next, NEW w \in Worker, workers[w].pc \in RowPc, UNCHANGED succeeded,
         NEW s, Finish(Rec(w), s),
         s = "ok" /\ Job(w) # NoApproval => Job(w) \in succeeded
  PROVE  RowsFine
<1>1. Rec(w) \in LogId /\ Carries(workers[w], logs, tickets, succeeded)
  BY FlowFacts DEF LinkInv, Equipped, RowPc, Rec
<1>2. CASE UNCHANGED logs
  BY <1>2, RowsUnmoved
<1>3. CASE Release({Rec(w)}, s) /\ s \in Finished \cup {"terminated"}
  <2>1. logs[Rec(w)].st # "absent" /\ logs[Rec(w)].approval = Job(w)
    BY <1>1 DEF Carries, Rec, Job
  <2>2. Job(w) # NoApproval => Allowed(Job(w), tickets)
    BY <1>1 DEF Carries, Job
  <2>3. s \in LogStatus \ {"absent"} /\ {Rec(w)} \in SUBSET LogId
    BY <1>1, <1>3 DEF LogStatus, Finished
  <2> QED BY <1>3, <2>1, <2>2, <2>3, RowsReleased
<1> QED BY <1>2, <1>3 DEF Finish

\* The deployer ends: with ok, and then the ticket's number is noted.
LEMMA DeployerLinks ==
  ASSUME LinkInv, Next, NEW w \in Worker, NEW res \in Finished, DeployerEnds(w, res)
  PROVE  LinkInv'
<1>1. succeeded \subseteq succeeded' /\ UNCHANGED <<logs, tickets>>
  BY DEF DeployerEnds
<1>2. RowsFine /\ DeployedFine
  BY <1>1, RowsUnmoved, DeployedKept
<1> DEFINE t == [workers[w] EXCEPT !.pc = "finishing", !.res = res]
<1>3. Carries(workers[w], logs', tickets', succeeded') /\ workers[w] \in WorkerState
  BY <1>1, <1>2, StillCarries
<1>4. /\ t.pc = "finishing" /\ t.job = workers[w].job /\ t.project = workers[w].project
      /\ t.rec = workers[w].rec /\ t.res = res /\ workers[w].pc = "deploying"
  BY <1>3 DEF WorkerState, DeployerEnds, At
<1>5. workers' = [workers EXCEPT ![w] = t]
  BY DEF DeployerEnds
<1> HIDE DEF t
<1>6. res = "ok" /\ Job(w) # NoApproval => Job(w) \in succeeded'
  BY <1>3 DEF DeployerEnds, WorkerState, Job
<1>7. Carries(t, logs', tickets', succeeded')
  BY <1>3, <1>4, <1>6 DEF Carries, RowPc, Job
<1> QED BY <1>1, <1>2, <1>4, <1>5, <1>7, OneWorker DEF RowPc

\* Every step of a worker.
LEMMA WorkerStepLinks ==
  ASSUME LinkInv, Next, NEW w \in Worker, WorkerStep(w)
  PROVE  LinkInv'
<1>1. /\ workers[w] \in WorkerState /\ Equipped(workers[w])
      /\ Carries(workers[w], logs, tickets, succeeded)
  BY FlowFacts DEF LinkInv
<1>2. ASSUME UNCHANGED <<logs, tickets, succeeded>> PROVE RowsFine /\ DeployedFine
  BY <1>2, RowsUnmoved, DeployedKept
<1>3. CASE Recheck(w)
  BY <1>2, <1>3, GotoLinks, DoneLinks DEF Recheck, Pc, RowPc
<1>4. CASE Refuse(w)
  BY <1>2, <1>4, ReturnLinks DEF Refuse
<1>5. CASE CheckBusy(w) \/ Register(w) \/ PollCancel(w) \/ RunFails(w)
  BY <1>2, <1>5, GotoLinks DEF CheckBusy, Register, PollCancel, RunFails, At, Pc, RowPc
<1>6. CASE ClaimRecord(w)
  <2>1. CASE UNCHANGED logs /\ (Goto(w, "inserting") \/ Goto(w, "busy"))
    BY <1>2, <1>6, <2>1, GotoLinks DEF ClaimRecord, Pc, RowPc
  <2> QED BY <1>6, <2>1, RowLinks DEF ClaimRecord
<1>7. CASE InsertRecord(w)
  <2>1. CASE UNCHANGED logs /\ Goto(w, "busy")
    BY <1>2, <1>7, <2>1, GotoLinks DEF InsertRecord, Pc, RowPc
  <2> QED BY <1>7, <2>1, RowLinks DEF InsertRecord
<1>8. CASE \E res \in Finished : DeployerEnds(w, res)
  BY <1>8, DeployerLinks
<1>9. CASE FinishRecord(w)
  <2>1. PICK pc \in {"finishing", "cancelled"} :
          LET res == IF pc = "cancelled" THEN "terminated" ELSE workers[w].res
          IN  At(w, pc) /\ Finish(Rec(w), res) /\ Return(w, res)
    BY <1>9 DEF FinishRecord
  <2> DEFINE res == IF pc = "cancelled" THEN "terminated" ELSE workers[w].res
  <2>2. At(w, pc) /\ Finish(Rec(w), res) /\ Return(w, res)
    BY <2>1
  <2>3. workers[w].pc \in RowPc /\ UNCHANGED <<tickets, succeeded>>
    BY <1>9, <2>2 DEF FinishRecord, At, RowPc
  <2>4. res = "ok" /\ Job(w) # NoApproval => Job(w) \in succeeded
    BY <1>1, <2>2 DEF Carries, At, Job
  <2> HIDE DEF res
  <2>5. RowsFine /\ DeployedFine
    BY <2>2, <2>3, <2>4, FinishRows, DeployedKept
  <2> QED BY <2>2, <2>3, <2>4, <2>5, ReturnLinks
<1>10. CASE FinishFails(w)
  <2>1. workers[w].pc \in RowPc /\ UNCHANGED <<tickets, succeeded>>
    BY <1>10 DEF FinishFails, At, RowPc
  <2>2. RowsFine
    <3>1. CASE UNCHANGED logs
      BY <2>1, <3>1, RowsUnmoved
    <3>2. CASE Finish(Rec(w), "failed")
      BY <2>1, <3>2, FinishRows
    <3>3. CASE At(w, "finishing") /\ Finish(Rec(w), workers[w].res)
      BY <1>1, <2>1, <3>3, FinishRows DEF Carries, At, Job
    <3> QED BY <1>10, <3>1, <3>2, <3>3 DEF FinishFails
  <2>3. DeployedFine
    BY <2>1, DeployedKept
  <2> QED BY <1>10, <2>1, <2>2, <2>3, ReturnLinks DEF FinishFails
<1>11. CASE ResetRecord(w)
  <2>1. UNCHANGED <<tickets, succeeded>>
    BY <1>11 DEF ResetRecord
  <2>2. RowsFine
    <3>1. CASE UNCHANGED logs
      BY <2>1, <3>1, RowsUnmoved
    <3>2. CASE ResetPending(Job(w))
      <4>1. RunningOf(Job(w)) \in SUBSET LogId /\ \A r \in RunningOf(Job(w)) : logs[r].st = "running"
        BY DEF RunningOf, RowsOf
      <4>2. "pending" \in LogStatus \ {"absent"} /\ "pending" \in Unrun
        BY DEF LogStatus, Unrun
      <4> QED BY <2>1, <3>2, <4>1, <4>2, RowsReleased DEF ResetPending
    <3> QED BY <1>11, <3>1, <3>2 DEF ResetRecord
  <2>3. DeployedFine
    BY <2>1, DeployedKept
  <2> QED BY <1>11, <2>1, <2>2, <2>3, DoneLinks DEF ResetRecord
<1>12. ASSUME UNCHANGED <<logs, succeeded>>, NEW s, Settle(Job(w), s),
              s = "deployed" => Job(w) \in succeeded
       PROVE  RowsFine /\ DeployedFine
  <2>1. \A a \in Approval : tickets'[a].st = "deployed" =>
          tickets[a].st = "deployed" \/ (a = Job(w) /\ s = "deployed")
    BY <1>12, FlowFacts DEF Settle, Transition, Ticket, LinkInv
  <2> QED BY <1>12, <2>1, RowsUnmoved DEF DeployedFine, LinkInv, DeployedMeansSucceeded
<1>13. CASE Conclude(w)
  <2>1. workers[w].res = "ok" => Job(w) \in succeeded
    BY <1>1, <1>13, FlowFacts DEF Conclude, At, Carries, Job, Equipped, LinkInv
  <2>2. RowsFine /\ DeployedFine
    BY <1>12, <1>13, <2>1 DEF Conclude
  <2> QED BY <1>13, <2>2, DoneLinks DEF Conclude
<1>14. CASE ConcludeBusy(w)
  <2>1. RowsFine /\ DeployedFine /\ UNCHANGED succeeded
    BY <1>2, <1>12, <1>14 DEF ConcludeBusy
  <2> QED BY <1>14, <2>1, DoneLinks, GotoLinks DEF ConcludeBusy, Pc, RowPc
<1>15. CASE Abort(w)
  <2>1. RowsFine /\ DeployedFine /\ UNCHANGED succeeded
    BY <1>2, <1>12, <1>15 DEF Abort
  <2> QED BY <1>15, <2>1, GotoLinks DEF Abort, Pc, RowPc
<1> QED BY <1>3, <1>4, <1>5, <1>6, <1>7, <1>8, <1>9, <1>10, <1>11, <1>13, <1>14, <1>15
        DEF WorkerStep

-----------------------------------------------------------------------------
(* The steps of everybody else. *)

\* Requests about tickets: only the row a ticket is filed with is new, and it waits.
LEMMA RequestLinks ==
  ASSUME LinkInv, Next, NEW a \in Approval, TicketRequest(a)
  PROVE  LinkInv'
<1>1. UNCHANGED <<workers, succeeded>>
  BY DEF TicketRequest, GateDeploy, ApproveTicket, Withdraw, FileRecord, MarkRecord, flowVars
<1>2. DeployedFine
  <2>1. tickets \in [Approval -> Ticket]
    BY FlowFacts DEF LinkInv
  <2>2. \A b \in Approval : tickets'[b].st = "deployed" => tickets[b].st = "deployed"
    <3>1. ASSUME NEW u \in User, NEW rq \in Request, GateDeploy(a, u, rq)
          PROVE  \A b \in Approval : tickets'[b].st = "deployed" => tickets[b].st = "deployed"
      BY <2>1, <3>1 DEF GateDeploy, File
    <3>2. ASSUME NEW v \in User, ApproveTicket(a, v) \/ Withdraw(a, v)
          PROVE  \A b \in Approval : tickets'[b].st = "deployed" => tickets[b].st = "deployed"
      BY <2>1, <3>2 DEF ApproveTicket, Approve, Withdraw, Reject, Cancel, Transition, Ticket
    <3> QED BY <3>1, <3>2 DEF TicketRequest, FileRecord, MarkRecord
  <2> QED BY <1>1, <2>2, DeployedKept
<1>3. RowsFine
  <2>1. CASE UNCHANGED logs
    BY <1>1, <2>1, RowsUnmoved
  <2>2. CASE FileRecord(a)
    <3>1. PICK r \in LogId : InsertPending(r, tickets[a].project, a)
      BY <2>2 DEF FileRecord
    <3>2. /\ tickets[a].st # "none" /\ UNCHANGED <<tickets, succeeded>>
          /\ logs \in [LogId -> Row] /\ logs[r] \in Row
      BY <2>2, FlowFacts DEF FileRecord, LinkInv, FlowInv, LocalInv
    <3>3. /\ logs[r].st = "absent" /\ logs'[r].st = "pending" /\ logs'[r].approval = a
          /\ logs'[r].project = tickets[a].project
          /\ \A q \in LogId : q # r => logs'[q] = logs[q]
      BY <3>1, <3>2 DEF InsertPending, NextId, Absent
    <3>4. Kept(logs[r], logs'[r]) /\ Accounted(logs'[r], tickets', succeeded')
      BY <3>2, <3>3 DEF Kept, Accounted, Unrun
    <3>5. \A q \in LogId : q # r => Kept(logs[q], logs'[q]) /\ Accounted(logs'[q], tickets', succeeded')
      BY <3>2, <3>3 DEF Kept, LinkInv
    <3> QED BY <3>4, <3>5 DEF RowsFine
  <2>3. ASSUME NEW s \in {"rejected", "cancelled"}, MarkRecord(a, s)
        PROVE  RowsFine
    <3>1. PendingOf(a) \in SUBSET LogId /\ \A r \in PendingOf(a) : logs[r].st = "pending"
      BY DEF PendingOf, RowsOf
    <3>2. s \in LogStatus \ {"absent"} /\ s \in Unrun /\ s # "ok"
      BY DEF LogStatus, Unrun
    <3> QED BY <1>1, <2>3, <3>1, <3>2, RowsReleased DEF MarkRecord, MarkTerminal
  <2> QED BY <2>1, <2>2, <2>3 DEF TicketRequest, GateDeploy, ApproveTicket, Withdraw
<1>4. Apart'
  BY <1>1, ApartKept DEF LinkInv
<1> QED BY <1>1, <1>2, <1>3, <1>4, Links

\* Cancellations, heartbeats and crashes.
LEMMA ProcessLinks ==
  ASSUME LinkInv, Next,
         \/ \E i \in Instance, r \in LogId : SelectRunning(i, r) \/ MarkCancelled(i, r)
         \/ \E i \in Instance : Heartbeat(i) \/ Shutdown(i) \/ Crash(i)
         \/ \E r \in LogId : HeartbeatLapses(r)
  PROVE  LinkInv'
<1>1. UNCHANGED <<tickets, succeeded>>
  BY DEF SelectRunning, MarkCancelled, Heartbeat, Shutdown, Crash, HeartbeatLapses, flowVars, requests
<1>2. FlowInv /\ Conforms /\ logs \in [LogId -> Row] /\ workers \in [Worker -> WorkerState]
  BY FlowFacts, NextConforms DEF LinkInv
<1>3. RowsFine
  <2>1. ASSUME NEW i \in Instance, NEW r \in LogId, MarkCancelled(i, r)
        PROVE  RowsFine
    <3>1. CASE UNCHANGED logs
      BY <1>1, <3>1, RowsUnmoved
    <3>2. CASE Terminate(r)
      <4>1. "terminated" \in LogStatus \ {"absent"} /\ {q \in {r} : logs[q].st = "running"} \in SUBSET LogId
        BY DEF LogStatus
      <4> QED BY <1>1, <3>2, <4>1, RowsReleased DEF Terminate, Unrun
    <3> QED BY <2>1, <3>1, <3>2 DEF MarkCancelled
  <2>2. ASSUME \A r \in LogId : /\ logs'[r].st = logs[r].st /\ logs'[r].approval = logs[r].approval
                                /\ logs'[r].project = logs[r].project
        PROVE  RowsFine
    <3> SUFFICES ASSUME NEW r \in LogId
                 PROVE  Kept(logs[r], logs'[r]) /\ Accounted(logs'[r], tickets', succeeded')
      BY DEF RowsFine
    <3> QED BY <1>1, <1>2, <2>2, AccountedStays DEF Kept, LinkInv
  <2>3. ASSUME NEW i \in Instance, Heartbeat(i) \/ Crash(i)
        PROVE  RowsFine
    <3>1. \A r \in LogId : /\ logs'[r].st = logs[r].st /\ logs'[r].approval = logs[r].approval
                           /\ logs'[r].project = logs[r].project
      BY <1>2, <2>3 DEF Heartbeat, Crash, Beat, Orphan, Row
    <3> QED BY <2>2, <3>1
  <2>4. ASSUME NEW r \in LogId, HeartbeatLapses(r)
        PROVE  RowsFine
    <3>1. \A q \in LogId : /\ logs'[q].st = logs[q].st /\ logs'[q].approval = logs[q].approval
                           /\ logs'[q].project = logs[q].project
      BY <1>2, <2>4 DEF HeartbeatLapses, Lapse, Row
    <3> QED BY <2>2, <3>1
  <2>5. CASE UNCHANGED logs
    BY <1>1, <2>5, RowsUnmoved
  <2> QED BY <2>1, <2>3, <2>4, <2>5 DEF SelectRunning, Shutdown
<1>4. \A w \in Worker : workers'[w] = workers[w] \/ workers'[w] = IdleWorker
  BY <1>2 DEF SelectRunning, MarkCancelled, Heartbeat, Shutdown, Crash, HeartbeatLapses, flowVars
<1>5. Apart' /\ \A w \in Worker : workers'[w] = workers[w] \/ Carries(workers'[w], logs', tickets', succeeded')
  BY <1>4, IdleCarries, ApartKept DEF LinkInv
<1>6. DeployedFine
  BY <1>1, DeployedKept
<1> QED BY <1>1, <1>3, <1>5, <1>6, Links

\* The sweeps: a ticket becomes deployed only on a row that ended with ok.
LEMMA SweepLinks ==
  ASSUME LinkInv, Next, SweepStale \/ SweepConverge
  PROVE  LinkInv'
<1>1. UNCHANGED <<workers, succeeded>>
  BY DEF SweepStale, SweepConverge, flowVars
<1>2. RowsFine
  <2>1. CASE SweepStale
    <3>1. Stale \in SUBSET LogId /\ \A r \in Stale : logs[r].st = "running"
      BY DEF Stale
    <3>2. "interrupted" \in LogStatus \ {"absent"} /\ "running" \notin Unrun
      BY DEF LogStatus, Unrun
    <3> QED BY <1>1, <2>1, <3>1, <3>2, RowsReleased DEF SweepStale, RecoverStale
  <2>2. CASE SweepConverge
    <3>1. "pending" \in LogStatus \ {"absent"} /\ "pending" \in Unrun
      BY DEF LogStatus, Unrun
    <3> QED BY <1>1, <2>2, <3>1, RowsReleased DEF SweepConverge, Requeue
  <2> QED BY <2>1, <2>2
<1>3. DeployedFine
  <2>1. CASE SweepStale
    BY <1>1, <2>1, DeployedKept DEF SweepStale
  <2>2. CASE SweepConverge
    <3>1. \A a \in WithRow("ok") : a \in succeeded
      BY FlowFacts DEF WithRow, RowsOf, LinkInv, Accounted
    <3>2. tickets \in [Approval -> Ticket]
      BY FlowFacts DEF LinkInv
    <3>3. \A a \in Approval : tickets'[a].st = "deployed" =>
            tickets[a].st = "deployed" \/ a \in WithRow("ok")
      BY <2>2, <3>2 DEF SweepConverge, Converge, Ticket
    <3> QED BY <1>1, <3>1, <3>3 DEF DeployedFine, LinkInv, DeployedMeansSucceeded
  <2> QED BY <2>1, <2>2
<1>4. Apart'
  BY <1>1, ApartKept DEF LinkInv
<1> QED BY <1>1, <1>2, <1>3, <1>4, Links

-----------------------------------------------------------------------------
\* The invariant is inductive.
LEMMA LinkStarts == Init => LinkInv
<1> SUFFICES ASSUME Init PROVE LinkInv
  OBVIOUS
<1>1. FlowInv
  BY FlowInit
<1>2. /\ \A w \in Worker : workers[w] = IdleWorker
      /\ \A r \in LogId : logs[r].st = "absent"
      /\ \A a \in Approval : tickets[a].st = "none"
  BY DEF Init, RecordInit, Absent, TicketInit, NoTicket
<1> QED BY <1>1, <1>2, IdleCarries DEF LinkInv, Accounted, Apart, DeployedMeansSucceeded

\* Every step keeps it.
LEMMA LinkStays == LinkInv /\ [Next]_vars => LinkInv'
<1>1. ASSUME LinkInv, UNCHANGED vars PROVE LinkInv'
  <2>1. FlowInv'
    BY <1>1, FlowStep DEF LinkInv
  <2>2. UNCHANGED <<logs, tickets, workers, succeeded>>
    BY <1>1 DEF vars, flowVars
  <2> QED BY <1>1, <2>1, <2>2 DEF LinkInv, Apart, Rec, Job, DeployedMeansSucceeded
<1>2. ASSUME LinkInv, Next PROVE LinkInv'
  BY <1>2, RequestLinks, ClaimLinks, DirectLinks, WorkerStepLinks, ProcessLinks, SweepLinks DEF Next
<1> QED BY <1>1, <1>2

\* The numbers agree, whatever crashes or fails.
THEOREM FlowLinks == Spec => []LinkInv
  BY LinkStarts, LinkStays, PTL DEF Spec

\* No row of a ticket has run, and no worker has it, before its decision: the requests,
\* executors and sweeps that write the row without looking at the ticket included.
THEOREM FlowNoRunWithoutApproval == Spec => []NoRunWithoutApproval
<1>1. LinkInv => NoRunWithoutApproval
  <2> SUFFICES ASSUME LinkInv, NEW a \in Approval, ~Allowed(a, tickets)
               PROVE  /\ \A w \in Worker : Job(w) # a
                      /\ \A r \in RowsOf(a) : logs[r].st \in Unrun
    BY FlowFacts DEF NoRunWithoutApproval, Decided, Allowed, Unrun, Ticket, LinkInv
  <2>1. a # NoApproval
    BY FlowFacts DEF LinkInv
  <2> QED BY <2>1 DEF LinkInv, Carries, Accounted, Job, RowsOf
<1> QED BY <1>1, FlowLinks, PTL

\* A ticket shown as deployed was deployed, whoever settled it.
THEOREM FlowDeployed == Spec => []DeployedMeansSucceeded
<1>1. LinkInv => DeployedMeansSucceeded
  BY DEF LinkInv
<1> QED BY <1>1, FlowLinks, PTL

\* Of two deployers at work on one project, one of them direct, one has been told to
\* stop: two that have not both have the project's one running row.
THEOREM FlowExclusive == Spec => []ExclusiveUnlessStopped
<1>1. LinkInv => ExclusiveUnlessStopped
  <2> SUFFICES ASSUME LinkInv, NEW w \in Worker, NEW v \in Worker, w # v,
                      At(w, "deploying"), At(v, "deploying"),
                      workers[w].project = workers[v].project, Job(w) = NoApproval,
                      ~Cancelled(w), ~Cancelled(v)
               PROVE  FALSE
    BY DEF ExclusiveUnlessStopped
  <2>1. /\ Rec(w) \in LogId /\ Rec(v) \in LogId
        /\ workers[w].pc \in RowPc /\ workers[v].pc \in RowPc
    BY FlowFacts DEF LinkInv, Equipped, At, Rec, RowPc
  <2>2. /\ logs[Rec(w)].st = "running" /\ logs[Rec(v)].st = "running"
        /\ logs[Rec(w)].project = logs[Rec(v)].project
    BY <2>1 DEF LinkInv, Carries, Cancelled, Rec
  <2>3. Rec(w) = Rec(v)
    BY <2>1, <2>2 DEF LinkInv, FlowInv, RecordInv, OneRunningPerProject
  <2> QED BY <2>1, <2>3 DEF LinkInv, Apart
<1> QED BY <1>1, FlowLinks, PTL

-----------------------------------------------------------------------------
(* Heartbeats.  A sweep takes rows that are not fresh: those of live processes are, if     *)
(* heartbeats are timely, and if no cancellation leaves a signal behind for a row it       *)
(* failed to mark.                                                                         *)

BeatInv ==
  /\ FlowInv
  /\ \A r \in LogId : logs[r].st = "running" /\ Beating(r) => logs[r].fresh
  /\ MaxCancel = 0 => cancels = {}

\* What a step may do to row r.
Calm(r) ==
  \/ logs'[r].st # "running" \/ logs'[r].fresh \/ ~Beating(r)'
  \/ logs[r].st = "running" /\ logs'[r].fresh = logs[r].fresh /\ Beating(r)

\* A process beats for no more rows than before, if signals and registering workers
\* are no more.
LEMMA BeatsLess ==
  ASSUME NEW r \in LogId, logs'[r].runner \in {logs[r].runner, Gone}, Beating(r)',
         \A i \in Instance : r \in Active(i)' => r \in Active(i),
         \A w \in Worker : workers'[w].pc = "registering" =>
           workers[w].pc = "registering" /\ workers'[w].rec = workers[w].rec
  PROVE  Beating(r)
  BY RunnerAssumption DEF Beating, At, Rec

\* A worker goes anywhere but to the place where it registers.
LEMMA Elsewhere ==
  ASSUME workers \in [Worker -> WorkerState], NEW w \in Worker,
         \/ \E pc \in Pc \ {"registering"} : Goto(w, pc)
         \/ Done(w)
         \/ \E res : Return(w, res)
         \/ \E res : workers' = [workers EXCEPT ![w].pc = "finishing", ![w].res = res]
  PROVE  \A v \in Worker : workers'[v].pc = "registering" =>
           workers[v].pc = "registering" /\ workers'[v].rec = workers[v].rec
<1>1. PICK t : workers' = [workers EXCEPT ![w] = t] /\ t.pc # "registering"
  <2>1. workers[w] \in WorkerState
    OBVIOUS
  <2>2. CASE \E pc \in Pc \ {"registering"} : Goto(w, pc)
    <3>1. PICK pc \in Pc \ {"registering"} : Goto(w, pc)
      BY <2>2
    <3>2. [workers[w] EXCEPT !.pc = pc].pc = pc
      BY <2>1 DEF WorkerState
    <3> QED BY <3>1, <3>2 DEF Goto
  <2>3. CASE Done(w)
    <3>1. IdleWorker.pc # "registering"
      BY DEF IdleWorker
    <3> QED BY <2>3, <3>1 DEF Done
  <2>4. CASE \E res : Return(w, res)
    <3>1. PICK res : Return(w, res)
      BY <2>4
    <3>2. [workers[w] EXCEPT !.pc = "concluding", !.res = res, !.rec = 0].pc = "concluding"
          /\ IdleWorker.pc # "registering"
      BY <2>1 DEF WorkerState, IdleWorker
    <3>3. \/ workers' = [workers EXCEPT ![w] = IdleWorker]
          \/ workers' = [workers EXCEPT ![w] =
               [workers[w] EXCEPT !.pc = "concluding", !.res = res, !.rec = 0]]
      BY <3>1 DEF Return
    <3> QED BY <3>2, <3>3
  <2>5. CASE \E res : workers' = [workers EXCEPT ![w].pc = "finishing", ![w].res = res]
    <3>1. PICK res : workers' = [workers EXCEPT ![w].pc = "finishing", ![w].res = res]
      BY <2>5
    <3>2. [workers[w] EXCEPT !.pc = "finishing", !.res = res].pc = "finishing"
      BY <2>1 DEF WorkerState
    <3>3. workers' = [workers EXCEPT ![w] = [workers[w] EXCEPT !.pc = "finishing", !.res = res]]
      BY <3>1
    <3> QED BY <3>2, <3>3
  <2> QED BY <2>2, <2>3, <2>4, <2>5
<1> QED BY <1>1

\* A worker that takes row q, fresh, and touches no other.
LEMMA TakingCalm ==
  ASSUME workers \in [Worker -> WorkerState], NEW w \in Worker, NEW q \in LogId, NEW r \in LogId,
         workers' = [workers EXCEPT ![w].pc = "registering", ![w].rec = q], UNCHANGED events,
         logs'[q].fresh, r # q => logs'[r] = logs[r]
  PROVE  Calm(r)
<1>1. \A v \in Worker : workers'[v].pc = "registering" /\ workers'[v].rec = r /\ r # q =>
        workers[v].pc = "registering" /\ workers[v].rec = r
  BY DEF WorkerState
<1>2. r # q /\ Beating(r)' => Beating(r)
  BY <1>1 DEF Beating, At, Rec, Active
<1> QED BY <1>2 DEF Calm

\* The rows a worker's step leaves alone; the one it takes is fresh.
LEMMA WorkerCalm ==
  ASSUME FlowInv, NEW w \in Worker, WorkerStep(w), NEW r \in LogId
  PROVE  Calm(r)
<1>1. /\ workers \in [Worker -> WorkerState] /\ Equipped(workers[w]) /\ workers[w] \in WorkerState
      /\ logs \in [LogId -> Row] /\ Home[w] \in Instance
      /\ events \in [Instance -> [LogId -> {"absent", "clear", "set"}]]
  BY FlowFacts, HomeAssumption DEF FlowInv, LocalInv, FlowTypeOK
<1>2. ASSUME NEW q \in LogId, UNCHANGED events,
             workers' = [workers EXCEPT ![w].pc = "registering", ![w].rec = q],
             \/ ClaimPending(q, workers[w].project, Job(w), Home[w])
             \/ InsertRunning(q, workers[w].project, Job(w), Home[w])
      PROVE  Calm(r)
  <2>1. CASE ClaimPending(q, workers[w].project, Job(w), Home[w])
    <3>1. logs'[q].fresh /\ (r # q => logs'[r] = logs[r])
      BY <1>1, <2>1 DEF ClaimPending, Row
    <3> QED BY <1>1, <1>2, <3>1, TakingCalm
  <2>2. CASE InsertRunning(q, workers[w].project, Job(w), Home[w])
    <3>1. logs'[q].fresh /\ (r # q => logs'[r] = logs[r])
      BY <1>1, <2>2 DEF InsertRunning
    <3> QED BY <1>1, <1>2, <3>1, TakingCalm
  <2> QED BY <1>2, <2>1, <2>2
<1>3. ASSUME \/ \E pc \in Pc \ {"registering"} : Goto(w, pc)
             \/ Done(w)
             \/ \E res : Return(w, res)
             \/ \E res : workers' = [workers EXCEPT ![w].pc = "finishing", ![w].res = res],
             UNCHANGED logs \/ (\E S, s : Release(S, s) /\ s # "running"),
             UNCHANGED events \/ Unregister(w)
      PROVE  Calm(r)
  <2>1. \A i \in Instance : r \in Active(i)' => r \in Active(i)
    BY <1>1, <1>3 DEF Active, Unregister
  <2>2. logs'[r] = logs[r] \/ logs'[r].st # "running"
    <3>1. ASSUME NEW S, NEW s, Release(S, s), s # "running"
          PROVE  logs'[r] = logs[r] \/ logs'[r].st # "running"
      <4>1. logs[r] \in Row
        BY <1>1
      <4>2. CASE r \in S
        BY <3>1, <4>1, <4>2 DEF Release, Row
      <4>3. CASE r \notin S
        BY <3>1, <4>3 DEF Release
      <4> QED BY <4>2, <4>3
    <3> QED BY <1>3, <3>1
  <2>3. \A v \in Worker : workers'[v].pc = "registering" =>
          workers[v].pc = "registering" /\ workers'[v].rec = workers[v].rec
    BY <1>1, <1>3, Elsewhere
  <2> QED BY <2>1, <2>2, <2>3, BeatsLess DEF Calm
<1>4. CASE Register(w)
  <2>1. /\ workers' = [workers EXCEPT ![w].pc = "deploying"] /\ workers[w].pc = "registering"
        /\ UNCHANGED logs
    BY <1>4 DEF Register, Goto, At
  <2>2. \A i \in Instance : r \in Active(i)' => r \in Active(i) \/ (i = Home[w] /\ r = workers[w].rec)
    BY <1>1, <1>4 DEF Register, Active, Rec
  <2>3. \A v \in Worker : workers'[v].pc = "registering" =>
          workers[v].pc = "registering" /\ workers'[v].rec = workers[v].rec
    BY <1>1, <2>1 DEF WorkerState
  <2>4. Beating(r)' => Beating(r)
    BY <2>1, <2>2, <2>3 DEF Beating, At, Rec
  <2> QED BY <2>1, <2>4 DEF Calm
<1>5. CASE ClaimRecord(w)
  <2>1. CASE UNCHANGED logs /\ (Goto(w, "inserting") \/ Goto(w, "busy"))
    BY <1>3, <1>5, <2>1 DEF ClaimRecord, Pc
  <2> QED BY <1>2, <1>5, <2>1 DEF ClaimRecord
<1>6. CASE InsertRecord(w)
  <2>1. CASE UNCHANGED logs /\ Goto(w, "busy")
    BY <1>3, <1>6, <2>1 DEF InsertRecord, Pc
  <2> QED BY <1>2, <1>6, <2>1 DEF InsertRecord
<1>7. CASE Recheck(w) \/ CheckBusy(w) \/ PollCancel(w) \/ RunFails(w) \/ Abort(w)
            \/ Conclude(w) \/ ConcludeBusy(w) \/ Refuse(w) \/ \E res \in Finished : DeployerEnds(w, res)
  BY <1>3, <1>7 DEF Recheck, CheckBusy, PollCancel, RunFails, Abort, Conclude, ConcludeBusy,
                   Refuse, DeployerEnds, Pc
<1>8. CASE FinishRecord(w) \/ FinishFails(w)
  <2>1. UNCHANGED logs \/ \E S, s : Release(S, s) /\ s # "running"
    <3>1. \A s : Finish(Rec(w), s) => UNCHANGED logs \/ (Release({Rec(w)}, s) /\ s # "running")
      BY DEF Finish, Finished
    <3> QED BY <1>8, <3>1 DEF FinishRecord, FinishFails
  <2>2. \E res : Return(w, res)
    BY <1>8 DEF FinishRecord, FinishFails
  <2> QED BY <1>3, <1>8, <2>1, <2>2 DEF FinishRecord, FinishFails
<1>9. CASE ResetRecord(w)
  BY <1>3, <1>9 DEF ResetRecord, ResetPending
<1> QED BY <1>4, <1>5, <1>6, <1>7, <1>8, <1>9 DEF WorkerStep

\* Everybody else: a cancellation that marks its row, a heartbeat, a crash, a sweep.
LEMMA OthersCalm ==
  ASSUME BeatInv, Next, TimelyHeartbeat, Faults => MaxCancel = 0, NEW r \in LogId,
         \A w \in Worker : ~WorkerStep(w)
  PROVE  Calm(r)
<1>1. /\ workers \in [Worker -> WorkerState] /\ logs \in [LogId -> Row] /\ logs[r] \in Row
      /\ events \in [Instance -> [LogId -> {"absent", "clear", "set"}]]
  BY FlowFacts DEF FlowInv, LocalInv, FlowTypeOK, BeatInv
<1>2. ASSUME UNCHANGED <<workers, events>>,
             \/ logs'[r] = logs[r]
             \/ logs'[r].st # "running"
             \/ logs'[r].fresh
             \/ ~Beating(r) /\ logs'[r].runner = logs[r].runner
      PROVE  Calm(r)
  BY <1>2, BeatsLess DEF Calm, Active
<1>3. ASSUME NEW S, NEW s, Release(S, s), s # "running"
      PROVE  logs'[r] = logs[r] \/ logs'[r].st # "running"
  <2>1. CASE r \in S
    BY <1>1, <1>3, <2>1 DEF Release, Row
  <2>2. CASE r \notin S
    BY <1>3, <2>2 DEF Release
  <2> QED BY <2>1, <2>2
<1>4. ASSUME NEW a \in Approval, TicketRequest(a) PROVE Calm(r)
  <2>1. CASE UNCHANGED logs
    BY <1>2, <1>4, <2>1 DEF TicketRequest, GateDeploy, ApproveTicket, Withdraw, FileRecord,
       MarkRecord, flowVars
  <2>2. CASE FileRecord(a)
    <3>1. PICK q \in LogId : InsertPending(q, tickets[a].project, a)
      BY <2>2 DEF FileRecord
    <3>2. logs'[r] = logs[r] \/ logs'[r].st # "running"
      BY <1>1, <3>1 DEF InsertPending, Absent
    <3> QED BY <1>2, <2>2, <3>2 DEF FileRecord
  <2>3. CASE \E s \in {"rejected", "cancelled"} : MarkRecord(a, s)
    BY <1>2, <1>3, <2>3 DEF MarkRecord, MarkTerminal
  <2> QED BY <1>4, <2>1, <2>2, <2>3 DEF TicketRequest, GateDeploy, ApproveTicket, Withdraw
<1>5. ASSUME NEW w \in Worker,
             \/ \E a \in Approval, u \in User : Claim(w, a, u)
             \/ \E rq \in Request : StartDirect(w, rq)
      PROVE  Calm(r)
  <2>1. PICK t : workers' = [workers EXCEPT ![w] = t] /\ t.pc # "registering"
    <3>1. CASE \E a \in Approval, u \in User : Claim(w, a, u)
      <4>1. PICK a \in Approval, u \in User : Claim(w, a, u)
        BY <3>1
      <4>2. [IdleWorker EXCEPT !.pc = "claimed", !.job = a, !.project = tickets[a].project].pc = "claimed"
        BY DEF IdleWorker
      <4> QED BY <4>1, <4>2 DEF Claim
    <3>2. CASE \E rq \in Request : StartDirect(w, rq)
      <4>1. PICK rq \in Request : StartDirect(w, rq)
        BY <3>2
      <4>2. [IdleWorker EXCEPT !.pc = "resolving", !.project = rq.project].pc = "resolving"
        BY DEF IdleWorker
      <4> QED BY <4>1, <4>2 DEF StartDirect
    <3> QED BY <1>5, <3>1, <3>2
  <2>2. \A v \in Worker : workers'[v].pc = "registering" =>
          workers[v].pc = "registering" /\ workers'[v].rec = workers[v].rec
    BY <1>1, <2>1
  <2>3. UNCHANGED <<logs, events>>
    BY <1>5 DEF Claim, StartDirect
  <2> QED BY <2>2, <2>3, BeatsLess DEF Calm, Active
<1>6. ASSUME NEW i \in Instance, NEW q \in LogId, SelectRunning(i, q) PROVE Calm(r)
  BY <1>2, <1>6 DEF SelectRunning
<1>7. ASSUME NEW i \in Instance, NEW q \in LogId, MarkCancelled(i, q) PROVE Calm(r)
  <2>1. MaxCancel # 0
    BY <1>7 DEF MarkCancelled, BeatInv
  <2>2. Terminate(q) /\ events' = [events EXCEPT ![i][q] = "set"] /\ UNCHANGED workers
    BY <1>7, <2>1, SwitchAssumption DEF MarkCancelled
  <2>3. CASE r = q
    <3>1. logs'[r].st # "running"
      BY <1>1, <2>2, <2>3 DEF Terminate, Release, Row
    <3> QED BY <3>1 DEF Calm
  <2>4. CASE r # q
    <3>1. logs'[r] = logs[r]
      BY <1>1, <2>2, <2>4 DEF Terminate, Release
    <3>2. \A j \in Instance : r \in Active(j)' => r \in Active(j)
      BY <1>1, <2>2, <2>4 DEF Active
    <3> QED BY <2>2, <3>1, <3>2, BeatsLess DEF Calm
  <2> QED BY <2>3, <2>4
<1>8. ASSUME NEW i \in Instance, Heartbeat(i) PROVE Calm(r)
  <2>1. logs'[r] = logs[r] \/ logs'[r].fresh
    BY <1>1, <1>8 DEF Heartbeat, Beat, Row
  <2> QED BY <1>2, <1>8, <2>1 DEF Heartbeat, flowVars
<1>9. ASSUME NEW i \in Instance, Shutdown(i) PROVE Calm(r)
  <2>1. \A j \in Instance : r \in Active(j)' => r \in Active(j)
    BY <1>1, <1>9 DEF Shutdown, Active
  <2> QED BY <1>9, <2>1, BeatsLess DEF Shutdown, Calm
<1>10. ASSUME NEW i \in Instance, Crash(i) PROVE Calm(r)
  <2>1. \A j \in Instance : r \in Active(j)' => r \in Active(j)
    BY <1>1, <1>10 DEF Crash, Active
  <2>2. \A v \in Worker : workers'[v].pc = "registering" =>
          workers[v].pc = "registering" /\ workers'[v].rec = workers[v].rec
    BY <1>1, <1>10 DEF Crash, IdleWorker
  <2>3. /\ logs'[r].runner \in {logs[r].runner, Gone} /\ logs'[r].st = logs[r].st
        /\ logs'[r].fresh = logs[r].fresh
    BY <1>1, <1>10 DEF Crash, Orphan, Row
  <2> QED BY <2>1, <2>2, <2>3, BeatsLess DEF Calm
<1>11. ASSUME NEW q \in LogId, HeartbeatLapses(q) PROVE Calm(r)
  <2>1. CASE r = q
    BY <1>1, <1>2, <1>11, <2>1 DEF HeartbeatLapses, Lapse, flowVars, Row
  <2>2. CASE r # q
    BY <1>1, <1>2, <1>11, <2>2 DEF HeartbeatLapses, Lapse, flowVars
  <2> QED BY <2>1, <2>2
<1>12. CASE SweepStale \/ SweepConverge
  BY <1>2, <1>3, <1>12 DEF SweepStale, RecoverStale, SweepConverge, Requeue, flowVars
<1> QED BY <1>4, <1>5, <1>6, <1>7, <1>8, <1>9, <1>10, <1>11, <1>12 DEF Next

\* Rows that live processes beat for stay fresh.
LEMMA BeatStays ==
  ASSUME TimelyHeartbeat, Faults => MaxCancel = 0
  PROVE  BeatInv /\ [Next]_vars => BeatInv'
<1>1. ASSUME BeatInv, UNCHANGED vars PROVE BeatInv'
  <2>1. FlowInv'
    BY <1>1, FlowStep DEF BeatInv
  <2>2. UNCHANGED <<logs, workers, events, cancels>>
    BY <1>1 DEF vars, flowVars, requests
  <2> QED BY <1>1, <2>1, <2>2 DEF BeatInv, Beating, Active, At, Rec
<1>2. ASSUME BeatInv, Next PROVE BeatInv'
  <2>1. FlowInv'
    BY <1>2, FlowStep DEF BeatInv
  <2>2. \A r \in LogId : Calm(r)
    BY <1>2, WorkerCalm, OthersCalm DEF BeatInv
  <2>3. \A r \in LogId : logs'[r].st = "running" /\ Beating(r)' => logs'[r].fresh
    BY <1>2, <2>2 DEF Calm, BeatInv
  <2>4. MaxCancel = 0 => cancels' = {}
    <3> SUFFICES ASSUME MaxCancel = 0 PROVE cancels' = {}
      OBVIOUS
    <3>1. cancels = {}
      BY <1>2 DEF BeatInv
    <3>2. Cardinality(cancels) = 0
      BY <3>1, FS_EmptySet
    <3>3. ASSUME NEW i \in Instance, NEW r \in LogId PROVE ~SelectRunning(i, r) /\ ~MarkCancelled(i, r)
      BY <3>1, <3>2 DEF SelectRunning, MarkCancelled
    <3>4. ASSUME NEW w \in Worker,
                 \/ WorkerStep(w)
                 \/ \E a \in Approval, u \in User : Claim(w, a, u)
                 \/ \E rq \in Request : StartDirect(w, rq)
          PROVE  UNCHANGED cancels
      BY <3>4 DEF WorkerStep, Claim, StartDirect, Recheck, Refuse, CheckBusy, ClaimRecord,
                  InsertRecord, Register, PollCancel, DeployerEnds, FinishRecord, FinishFails,
                  Conclude, ConcludeBusy, ResetRecord, RunFails, Abort, requests
    <3>5. ASSUME NEW a \in Approval, TicketRequest(a) PROVE UNCHANGED cancels
      BY <3>5 DEF TicketRequest, GateDeploy, ApproveTicket, Withdraw, FileRecord, MarkRecord,
                  flowVars, requests
    <3>6. ASSUME NEW i \in Instance, Heartbeat(i) \/ Shutdown(i) \/ Crash(i) PROVE cancels' = {}
      BY <3>1, <3>6 DEF Heartbeat, Shutdown, Crash, flowVars, requests
    <3>7. ASSUME SweepStale \/ SweepConverge \/ \E r \in LogId : HeartbeatLapses(r)
          PROVE  UNCHANGED cancels
      BY <3>7 DEF SweepStale, SweepConverge, HeartbeatLapses, flowVars, requests
    <3> QED BY <1>2, <3>1, <3>3, <3>4, <3>5, <3>6, <3>7 DEF Next
  <2> QED BY <2>1, <2>3, <2>4 DEF BeatInv
<1> QED BY <1>1, <1>2

\* Of the statements only recover_stale_running interrupts, and not what is fresh.
LEMMA FreshNotInterrupted ==
  ASSUME logs \in [LogId -> Row], RecordNext, NEW r \in LogId,
         logs[r].st = "running", logs[r].fresh
  PROVE  logs'[r].st # "interrupted"
<1>1. logs[r] \in Row
  OBVIOUS
<1>2. ASSUME NEW S, NEW s, Release(S, s), s # "interrupted" \/ r \notin S
      PROVE  logs'[r].st # "interrupted"
  BY <1>1, <1>2 DEF Release, Row
<1>3. ASSUME NEW q \in LogId, NEW p \in Project, NEW i \in Instance,
             \/ \E a \in Approval \cup {NoApproval} : InsertRunning(q, p, a, i)
             \/ \E a \in Approval : ClaimPending(q, p, a, i)
      PROVE  logs'[r].st # "interrupted"
  <2>1. ASSUME NEW a \in Approval \cup {NoApproval}, InsertRunning(q, p, a, i)
        PROVE  logs'[r].st # "interrupted"
    <3>1. CASE r = q
      BY <2>1, <3>1 DEF InsertRunning, Absent, NextId
    <3>2. CASE r # q
      BY <2>1, <3>2 DEF InsertRunning
    <3> QED BY <3>1, <3>2
  <2>2. ASSUME NEW a \in Approval, ClaimPending(q, p, a, i)
        PROVE  logs'[r].st # "interrupted"
    <3>1. CASE r = q
      BY <1>1, <2>2, <3>1 DEF ClaimPending, Row
    <3>2. CASE r # q
      BY <2>2, <3>2 DEF ClaimPending
    <3> QED BY <3>1, <3>2
  <2> QED BY <1>3, <2>1, <2>2
<1>4. ASSUME NEW q \in LogId, NEW p \in Project, NEW a \in Approval, InsertPending(q, p, a)
      PROVE  logs'[r].st # "interrupted"
  BY <1>4 DEF InsertPending, NextId, Absent
<1>5. ASSUME NEW q \in LogId,
             \/ \E s \in Finished \cup {"terminated"} : Finish(q, s)
             \/ Terminate(q)
             \/ Lapse(q)
      PROVE  logs'[r].st # "interrupted"
  <2>1. CASE Lapse(q)
    BY <1>1, <2>1 DEF Lapse, Row
  <2>2. CASE UNCHANGED logs
    BY <2>2
  <2> QED BY <1>2, <1>5, <2>1, <2>2 DEF Finish, Finished, Terminate
<1>6. ASSUME NEW i \in Instance, Orphan(i) \/ \E S \in SUBSET LogId : Beat(i, S)
      PROVE  logs'[r].st # "interrupted"
  BY <1>1, <1>6 DEF Orphan, Beat, Row
<1>7. CASE RecoverStale
  BY <1>2, <1>7 DEF RecoverStale, Stale
<1>8. CASE Requeue \/ \E a \in Approval : \/ ResetPending(a)
                                          \/ \E s \in {"rejected", "cancelled"} : MarkTerminal(a, s)
  BY <1>2, <1>8 DEF Requeue, ResetPending, MarkTerminal
<1> QED BY <1>3, <1>4, <1>5, <1>6, <1>7, <1>8 DEF RecordNext

\* No sweep takes a row from a process that beats for it (deploy_run.py:157): where no beat
\* is missed for as long as a row may be silent, and no cancellation fails half way.
THEOREM FlowSweepSparesLive ==
  ASSUME TimelyHeartbeat, Faults => MaxCancel = 0
  PROVE  Spec => SweepSparesLive
<1> DEFINE P == \A r \in LogId : logs[r].st = "running" /\ logs'[r].st = "interrupted" => ~Beating(r)
<1>1. Init => BeatInv
  BY FlowInit DEF Init, RecordInit, Absent, BeatInv
<1>2. BeatInv /\ [Next]_vars => BeatInv'
  BY BeatStays
<1>3. BeatInv /\ [Next]_vars => [P]_vars
  <2> SUFFICES ASSUME BeatInv, Next, NEW r \in LogId, logs[r].st = "running",
                      logs'[r].st = "interrupted", Beating(r)
               PROVE  FALSE
    OBVIOUS
  <2>1. logs[r].fresh /\ logs \in [LogId -> Row] /\ Conforms
    BY FlowFacts, NextConforms DEF BeatInv
  <2> QED BY <2>1, FreshNotInterrupted DEF Conforms
<1> QED BY <1>1, <1>2, <1>3, PTL DEF Spec, SweepSparesLive
===============================================================================
