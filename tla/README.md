# Verification of Devops_CD

TLA+ models of the deployment service in `backend/`, checked by TLC on small
instances, with theorems that the TLAPS proof system checks for every instance.
Line numbers refer to the sources of this repository.

## 1. The system

A FastAPI service, run as one or several processes over one SQL database
(SQLite or MySQL), that deploys images to hosts by SSH, compose or Kubernetes.
Each process has request threads, a scheduler thread, a heartbeat thread, an
alert checker and a registry synchroniser. Processes share nothing but tables.

| component | state | operations | what is hard | what makes it correct |
|---|---|---|---|---|
| deployment records (`deploy_run.py`) | `cd_deploy_logs`: status, `lock_key` (unique), `approval_id`, `runner`, `heartbeat_at`; per process the cancellation signals | start, create pending, claim, reset, mark, finish, cancel, heartbeat, recover | two deployments of a project, crash with the lock, zombies that write late, cancel before register | one running row per project; key iff running; outcomes stay; locks come back |
| approval tickets (`approval_service.py`) | `cd_approvals`: status, requester, approver, `scheduled_at` | file, approve, reject, cancel, claim, conclude, converge | decisions racing with execution and recovery; two transactions per decision | four eyes; documented life cycle; no run without decision; no ticket stuck |
| execution (`deploy_service.py`, `deploy_executor.py`, `k8s_deploy_service.py`, routers) | a thread's locals between transactions | refuse, check busy, claim, register, deploy, poll, finish, conclude | everybody else moves between any two steps; a failure in each | one executor; the result told is the result reached |
| scheduler (`run_due_scheduled`, `_sched_run_loop`) | `scheduled_at`, the lock `scheduled_executor` | round: due tickets, sweep | rounds longer than the lock; transient refusals | due tickets run once; schedules survive outages |
| distributed lock (`dlock.py`) | a row of `cd_config`: owner and stamp | acquire or renew, release | take-over races, re-entrance within a process | exclusive until the time to live is over |
| rollback (`rollback_service.py`) | none | choose a native command or a source record to replay | which version is meant | the version before the one rolled back |
| identity cache (`glue_identity.py`, `auth.py`) | per user and per role: last answer, times; negative cache | get, invalidate, soft fail | answers out of order, edges of windows | fail closed when the window is over |
| OIDC login (`oidc.py`, `auth.py`) | state cookie, key cache, `cd_sessions` | start, callback, logout | tabs that share a cookie, key rotation, codes redeemed twice | a session is that of who logged in in that browser |
| contract gate (`database.py`) | contract cache, schema state | resolve, invalidate | late answers, outages | closed unless the contract says enabled |
| registry sync (`registry_service.py`) | sync thread, its lock, artifacts | sync, start, restart, stop | restarts while syncing and at once, half a sync, half an answer | one worker; nothing deleted but over an answer; tables that come to hold what the registry has |
| alerting (`alert_service.py`) | start of exceeding and cooldown per rule, host, entity | check | hosts that do not answer | alert only after the duration, once per cooldown |
| CI client, webhooks, terminal | token, negative cache; none; a pump | | re-login, resend | |
| deployers (`deployers/`) | hosts, images, clusters, `daemon.json` | command by command | commands that fail half way, are retried or left running; cancelled deployments that go on without the lock; controllers that come late | a success is one |
| servers, monitoring, config, front end | rows or none | | | not modelled, see section 8 |

How they interact: a request to deploy (`routers/deploy.py`) passes
`gate_deploy`; without a matching rule and a time it deploys in the request's
thread, otherwise it leaves a ticket and a pending row. A ticket is decided by
users; the requester, or the scheduler in his name, claims it
(`claim_for_execution`) and runs it (`run_approval`), which claims the pending row
or inserts one, registers a cancellation signal, and calls a deployer that polls
signal and row. `recover_on_startup` runs when a process starts and in every
scheduler round; it ends rows without a heartbeat and converges tickets.

PROJECT.json lists the components with their sources and status, and every
hazard at its line.

## 2. Modules

    DeployBase            identities (projects, tickets)
     |- DeployRecords     cd_deploy_logs and its statements        -> ProjectLock
     |- ApprovalTickets   cd_approvals and its statements
     |   |- ApprovalFlow  threads, requests, processes, sweeps over both tables
     |   |   \- MCApprovalFlow
     |   \- Scheduler     rounds over due tickets, under a Lease
     |       \- MCScheduler
    DLock                 cd_config as a lock between processes    -> Lease
     \- MCDLock
    GlueIdentity          caches of identities and roles           MCGlueIdentity
    ContractGate          the gate, the contract, the tables       MCGate
    OidcLogin             login and sessions                       MCLogin
    Registry              the mirror of the registry, under a Lease    MCRegistry
    TargetsBase           services and tags
     |- Compose           docker-compose over SSH
     \- K8sTargets        kubectl, Helm, Argo CD, Flux, rollback
         \- MCTargets     both
    proofs: ApprovalFlowProofs (records, tickets and the flow over both), FlowSafetyProofs,
            LeaseProofs (DLock and Scheduler), GlueIdentityProofs, ContractGateProofs,
            OidcLoginProofs, RegistryProofs, TargetsProofs (Compose, K8sTargets, both)

**DeployRecords.** `logs` is the table, one record per row. One operator per SQL
statement of `deploy_run.py` (and the last UPDATE of `recover_on_startup`), each
atomic. The unique index is the guard `~Locked(p)` of the two statements that
set a key. `claim_pending_deploy_record` looks the row up and updates it under
`AND status='pending'`; if the row moved in between, the update finds nothing, as
the lookup would have a moment later, so lookup and update are one step (with two
pending rows of a ticket the code may miss the second and insert a fresh row,
which the model does only when none is pending). `heartbeat_at` is
abstracted to `fresh`: younger than `stale_seconds`. `Lapse` is the passing of
that time. `RecordSpec` lets any client issue any statement at any time.

**ApprovalTickets.** `tickets` is the table. Every status change is `_transition`
(an UPDATE that re-checks the status) or the INSERT. Who may approve is a set: the
rule, the permission and the role that `can_approve` consults are data.
`TicketSpec` again lets the statements come in any order.

**ApprovalFlow.** The system: `workers` are threads with a program counter that
follows `run_approval`, `execute_from_params` and `DeployService.execute` or
`_deploy_k8s_core`; `events` are the signals of each process; `filing`, `marking`
and `cancels` are requests between their two transactions. A step is at most one
transaction. A crash (`Crash`) takes a process's threads and signals and leaves the
rows; the successor starts empty. `FinishFails`, `RunFails`, `Abort` and the second
disjuncts under `Faults` are statements that fail. `succeeded` is a history
variable. The recovery is two steps, as in the code: `recover_stale_running`, then
the transaction of the convergence. Projects are named by their resolved key (the
row a ticket is filed with carries the name asked for, until it is claimed).

**ProjectLock** is the abstract promise of the table: locks per project, taken when
free, given up freely, never handed over. `DeployRecords` implements it under the
mapping `HolderOf` (project to the id of its running row).

**DLock.** One lock of `dlock.py`: the row (`lock`), the time (`now`) and what each
process's thread read in `acquire` (`clients`). Reading the row and writing it are
two steps (`Look`; `Insert` or `Replace`), others move in between. Each process reads a
clock up to `MaxSkew` from the time. `AcquireFails` is a statement or a commit
that fails, with or without effect; a renewal within one second may count as
failed (MySQL counts changed rows). A round ends with the row kept (`EndRound`) or
deleted (`Release`); a crash leaves it, and the restarted server is another process.
A malformed value does not occur: only `acquire` writes these keys. A process has one
thread per lock name, which holds for the scheduler and the alert checker; what the
second sync thread of a restart does with the lock of its process is in `Registry`.

**Lease** is what that promises: a client that is granted the lock has a live lease for
a while; it may go on working when the lease is over, but while a lease is live
nobody else is granted the lock. The lease counts from the moment `acquire` looked,
for `TTL - 2 * MaxSkew`.

**Scheduler.** `threads` follow `_sched_run_loop` and `run_due_scheduled`: a round under the
lock selects due tickets, takes each through claim, execution and the three
`except` clauses, and sweeps. Of the lock it uses the actions of `Lease`, of an
execution what `ApprovalFlow` has shown: one row of the project runs at a time, and a
sweep spares rows that are beaten for. Tickets may be executed by hand meanwhile
(`hands`); requesters lose their permission (`Bar`) and Glue fails (`Outage`), which the
code does not tell apart (`Turn` goes to `clear` in both cases).

**GlueIdentity.** One process, its request threads (`requests`), `_identity_cache` (`ids`),
`_perm_cache` with `_role_negative` (`perms`), and Glue, which others change. A thread asks
for the account, then for the role, and stores what it was told, each in a step of
its own, so answers arrive late and overtake each other. Times are ages, and ages
beyond `LongAgo` are one: nothing depends on more. `last` is history: when the
account was last in order, the role last granting. `Pass` does not let an exchange
take longer than `MaxLatency` (the time-out of the HTTP client).

**ContractGate.** Callers pass `cd_deploy_gate`: `_resolve_contract_state` from the cache or by
a request to Glue, then a connection, which resolves once more if the tables are not
settled and runs the script. The scripts are two tables, one column and one index in the
order in which the DDL of each driver has them; processes run them at once, are
killed amid them (`Restart`), or find what an operator imported.

**OidcLogin.** Browsers with tabs, one state cookie per browser, callback addresses that can be
opened again and elsewhere, the key cache, and `cd_sessions`. Of the identity service it
uses what `GlueIdentity` shows: an answer was true not long ago (`glue.recent`).

**Registry.** A synchronisation is a transaction (`work` until `Commit`), begun under the write lock
of the database; threads of a process hold its lease together, because `dlock.acquire`
lets an owner renew. `RestartBegin`, `RestartJoined` and `RestartEnd` are `restart_background_sync` up to
its `join(timeout=5)`, its return with the flag cleared, and the start of the new thread; no lock keeps two
requests (`Admin`) from running it at once. `procs[p].late` and `raced` record that a thread was given up and
that restarts overlapped. A repository answers in full, with some of its pages (`Listings`: a later page that is
404 or not understood is skipped, and what lies beyond `TAGS_MAX_PAGES`), with nothing, with something not
understood, or raises. Rows are kept by tag and digest and deleted by tag, as in `sync_repo`. All pages of an
answer are read in one step: what changes between two requests is one of the partial answers.

**Compose** and **K8sTargets** follow deployments command by command (`deps`, `jobs`: one entry per deployment,
several of one service may be alive). A deployment is let in when no other of its service is `held`, that is, has
the project's lock. A cancellation or a sweep frees the lock at once (`Cancel`, `CancelJob`); the thread goes on
until it looks (`Notice` in a streamed command, `Notices` at the calls of `check_cancelled`, of which `k8s.py` has
none and retries have none), and its commands land in the next deployment. A broken connection or a
cancellation leaves the command at `pc` running (`cut`), to take effect at any time later or
never. `met` records that another deployment's command has landed in the same service. Others act between any two
commands as well: registries and operators, dockerd, controllers and the cluster. In `Compose` the env file and the
list of containers are searched for substrings (`Contains`, with `site.within` the pairs of tags that contain each
other; `Kin` and `Mentions` what else is listed or written), a login or a pull may be denied
(`registry.admits`), and the copy of `daemon.json` and its write succeed or fail each by itself. Failures are
counted (`spent`, `used`). What Helm, Argo CD, Flux, docker and kubectl do is external and modelled
from what the deployers ask of them: `kubectl apply` and `set image` make a
revision only of a changed template, `rollout restart` always does, `rollout undo` goes back one.
`RollBack` and `Replay` are `prepare_rollback`. `MCTargets` runs one or the other: they
share no state.

## 3. Properties and runs

Instance of the flow runs: one project, one ticket, two processes with one thread each, two users who
are both approvers and admins, one or two rows. Two threads in two processes are the least
with races between them, their crashes and their signals; one project suffices
because rows of different projects share neither key nor ticket (the proofs,
which have no bound, confirm it for the properties they cover). With one row
(`MaxLog = 1`) a thread that would insert a second stays where it is or is
refused; the contention run has two, so that a direct deployment meets the row of
a ticket. Users are symmetric (approver and super admin sets are all of them), and
so are the processes with their threads: `MCSymmetry`. Runs with liveness use no symmetry.

| run | bounds | checks | shows |
|---|---|---|---|
| `flow_contention` | 2 rows, no cancellation requests, heartbeats may lapse, statements may fail | `LockIffRunning`, `OneRunningPerProject`, `ExclusiveUnlessStopped`, `ImplementsProjectLock` | 1.9 M states: the project's key is with exactly one running row; a direct deployment and another one are never both entitled to deploy |
| `flow_cancel` | 1 row, 1 cancellation in flight, schedules, lapses, failures | `TypeOK`, `FourEyes`, `NoRunWithoutApproval`, `DeployedMeansSucceeded`, `EndedRowsStay`, `TicketLife` | 1.2 M states: decisions bind rows and threads, not only tickets; outcomes stay |
| `flow_live` | 1 row, timely heartbeats, failures, fairness | `DeployingResolves`, `LockReleased`, `SweepSparesLive` | 0.25 M states: every claimed ticket and every lock returns; live deployments keep their row |
| `lock_lease` | 3 processes, time to live 4, clocks 1 apart, time to 5 | `LockTypeOK`, `LiveOwns`, `ImplementsLease` | 0.5 M states: nobody is let in during another's live lease; a late release spares the successor's row |
| `schedule` | 2 tickets, one of them with a rule, 2 replicas, 1 mishap (crash, exception, lease outlasted), 1 change at Glue, fairness | `ClearedIsLeft`, `DueEnds` | 0.5 M states: a due ticket ends, is withdrawn or goes back to its requester, through conflicts and crashes; what was returned to him is not executed by a round |
| `identity` | 1 user, 2 threads, window 2, grace 3, latency 1, 2 changes | `IdentityTypeOK`, `AdmittedWasMember`, `GrantWasHeld`, `RefusedForAReason` | 3.43 M states: failures and answers out of order do not extend the windows; the memory of a 404 ends |
| `gate` | 2 threads in all: in one process over SQLite or in two over MySQL; TTL 1, 2 turns (contract, outage, restart, import), fairness | `GateTypeOK`, `PassedWasEnabled`, `CreatesWithGrant`, `Provisioned`, `GateReopens` | 2.00 M states: fail closed; tables only by a grant, and complete; after outages the gate opens |
| `login` | 2 browsers, one with 2 tabs, 2 users, 2 flows, 1 session, 2 keys, 1 change | `LoginTypeOK`, `SessionIsOwn`, `RotationSurvived`, `SessionsEndForAReason` | 3.19 M states: tabs and re-opened addresses mix up no sessions; a key rotation fails no login with the new key |
| `registry` | 1 process with 2 thread slots, 2 restart requests, 1 sync request, 2 repositories, 2 tags, 2 digests, 2 events (a change, a fault, a restart or a crash each), fairness | `OneThread`, `CommitsWhatItWasTold`, `Converges` | 0.8 M states: one thread unless restarts gave it up or overlapped; nothing is deleted over an empty or failed answer; the tables get the registry's tags and artifacts |
| `targets` | 2 services, 2 tags of which one may be a part of the other; 2 deployments with compose and 3 jobs on Kubernetes; of faults, changes, edits and cancellations one each and two together; 1 lost command and 1 push, stop or cancellation on Kubernetes; 2 attempts | `TargetsTypeOK`, `NoSubstitute`, `OperatorsConfigKept`, `OkMeansDeployed`, `OkMeansRolledOut`, `OverridesKept` | 4.0 M states: a success is one, for what it was given, with the exceptions below; Docker Hub does not stand in for plain HTTP; the operator's configuration survives a write |
| `torn_execution` | 1 row, no fault | `OneExecutorPerTicket` violated | two threads deploy for one ticket, without a crash |
| `undone_restart` | 3 Kubernetes jobs, no fault | `KubectlRollsBack` violated | a rollback with kubectl succeeds and changes nothing |

Why the bounds are enough. Three processes of `lock_lease` let a second take over from the first while a
third still holds an old reading; the time allows a take-over and the end of the successor's
lease. In `identity` the window is 2, so that there are ages within it and at its edge, and the grace
is larger, so that it matters; two changes take a permission away and give it back, or
change account and role. In `gate` two turns are, for instance, an outage and a restart, or a
switch and a restart; recovery and time are free. In `login` one session is enough for two browsers to
want it; two flows let a tab replace the cookie of another. In `registry` two repositories are
needed for one that raises to end the round of the other, two digests for a tag that is pushed anew, two requests
for restarts that overlap; two events are, for instance, those two restarts, or a lost page and a crash. With one
repository and two processes (changing the .cfg) the same properties hold. In `targets` three jobs are two
deployments and a rollback, or a deployment that was cancelled, one that was let in beside it, and another; one failure at
every command in turn covers each `except`; two compose deployments of one service, of which the first is
cancelled, interleave command by command.

`torn_execution` and `undone_restart` are disagreements between the code and its own comments or
manual; PROJECT.json quotes both sides under "findings". `ExclusiveUnlessStopped`
is what remains of mutual exclusion: cancelling and sweeping free a project before
the old thread has noticed, and two executors of one ticket share its row
(`torn_execution`).

`MaxCancel` is 0 in `flow_live`: when the UPDATE of a cancellation fails after its signal was
created in a process that does not execute the row but is named as its runner
later, that process beats for a row nobody executes, and the lock stays until it
restarts. This needs a failing statement at one moment and is described as a hazard;
`FlowSweepSparesLive` states it as its assumption.

Exceptions in the properties are the code's own. `ClearedIsLeft` allows a round that outlasted its lease;
`OneThread` a thread given up amid its round, and restarts that overlapped; `CommitsWhatItWasTold` takes an answer
that lost pages for an answer, and `Converges` leaves rows of old digests. `OkMeansDeployed` allows an image the
host already had when no registry gave the tag, an env file that could not be written and names a tag of which
the wanted one is a part, a stop or another deployment's command that came in between, and services with an env file
of their own. `NoSubstitute` asks that a pull has ended without the tag, not why (a login may have failed), and allows an
answer that was lost; that plain HTTP was not the reason has no exception. `OperatorsConfigKept` is about the first
write after an edit, if the copy for the backup worked. `OkMeansRolledOut` says nothing of Argo CD and Flux, nor of
`rollout undo`, nor of a service to which another job, cancelled or cut off, sent a command in between;
`OverridesKept` allows an override that
was written between reading and patching. Each is described with its hazard.

Every property has a mutant of the code in PROJECT.json (for example: the key is
kept when a row ends; the index is missing; an approver may decide on his own
request; a restart does not wait for the old thread; a 404 is
remembered anew by whoever meets it; Docker Hub steps in whatever the error), defined next to the
definition it changes; TLC finds the property violated with it.

## 4. Fairness

* `LiveSpec` (`flow_live`) assumes that threads run (`WF` of each worker's step), that the clock
  moves (a heartbeat nobody renews lapses) and that somebody sweeps: every process
  sweeps when it starts and, holding the scheduler lock, every 30 seconds
  (`_sched_run_loop`). Users, crashes and cancellations have no fairness. Under
  `TimelyHeartbeat` a process that beats for a row does so in time: eight beats of
  15 s fit into the 120 s of `recover_stale_running`. A deployer is assumed to end: its
  commands have time-outs.
* `SchedLiveSpec`: scheduler threads run, executions by hand end, beats of the dead lapse, and some
  replica gets the lock when it is free (all of them poll). Glue need not recover.
* `GateLiveSpec`: requests are served, time passes, outages end.
* `RegLiveSpec`: threads that have the write lock go on; leases run out. A thread wakes at intervals for
  ever, and sometimes finds the lease free, CI there and the database unlocked: `SF` of these three,
  since each may be impossible in between. Requests that hold the write lock end (`WF` of `Pull` and `Commit`); restarts
  have no fairness. The antecedent of `Converges` says the rest: the registry answers in full, a thread is left in which
  no two restarts had a hand, and no request keeps the lock.

## 5. Proofs

Checked by TLAPS for any number of projects, tickets, users, processes, threads, rows,
browsers, tabs, repositories, services and tags and all windows, latencies and bounds. Every
invariant and every action property of the passing runs is the statement of a theorem; what
remains model-checked only is at the end of this section.

Assumed is what the modules name under ASSUME: null values differ from real ones (also: the
marks `"hand"` and `"nobody"` are no replicas, the empty tag `"none"` is no tag, and no set of
artifacts is `NoOne`); there is a row, a key, an attempt; the threads of a process are not
requests; `Home` and `In` map threads to processes and tabs to browsers; lengths of time and
bounds are natural numbers. One theorem, `FlowSweepSparesLive`, has hypotheses of its own.

**`ApprovalFlowProofs`**, three layers.

* Records. `RecordInv`: types, `LockIffRunning`, `OneRunningPerProject`. One running row is not
  inductive alone: a claim checks the index, that is keys, so keys must match running rows. Every
  statement is an insert, a claim, a release, or touches only runner and heartbeat; a
  lemma each. From it `RecordOneRunning`, `RecordLockIffRunning`, the action property
  `RecordEnded`, and the refinement `RecordsImplementLock` (initial state to initial state,
  every statement to `Take`, `Drop` or a stutter).
* Tickets. Types and, for each ticket, `Sound` (which statuses a ruled ticket can have without a
  proper approver). From it `TicketFourEyes`, `TicketLives`.
* The flow. The system refines both tables: each of its steps writes a table by one statement, or
  not at all (`FlowImplementsRecords`, `FlowImplementsTickets`). That needs `FlowInv`: each
  worker holds the ticket, project and row that its place requires (`Equipped`). With
  it the theorems about the tables carry over to the system: `FlowOneRunning`, `FlowLockIffRunning`,
  `FlowImplementsLock`, `FlowEndedRows`, `FlowFourEyes`, `FlowTicketLife`, `FlowTypes`.

**`FlowSafetyProofs`.** Decisions and outcomes bind threads and rows through three links that
the properties do not mention, so `LinkInv` adds them to `FlowInv`: what a worker
carries belongs together (the row it works on is of its ticket, and the ticket has been
decided: `Carries`), what a row says of its ticket is so (`Accounted`), and workers that
share a row have it of one ticket (`Apart`). From it `FlowNoRunWithoutApproval`,
`FlowDeployed` and `FlowExclusive`. `FlowSweepSparesLive` has an invariant of its own, `BeatInv`: a
running row that a process beats for is fresh. It holds only if the clock never overtakes the
beats (`TimelyHeartbeat`) and if no cancellation fails between its signal and its
UPDATE (`Faults => MaxCancel = 0`): the theorem states both, and the proof attempt without the
second is how the hazard at deploy_run.py:500 was found.

**`LeaseProofs`.** The lock and one of its users.

* `LockInv`: types, `LiveOwns`, and for each process between reading and writing that what
  it saw was free, its own or stale by its clock then (`Looked`). If the row still has that value
  when it writes, nobody else's lease can be live, because a live lease is backed by a row too
  young to look stale. From it `LockTypes`, `LockLiveOwns` and the refinement `LockImplementsLease`.
* `SchedInv`. `ClearedIsLeft` is about the moment of a claim, three steps after the schedule was
  read. The invariant says that, as long as nothing went wrong (`mishaps = 0`), one thread is in a
  round, under the live lease (`OneInRound`); that what it has to do, and is about to claim, is
  due (`RoundIsDue`), since only its own `Clear` takes a time away; and that whatever runs is run
  by it or by hand (`RunnersKnown`), without which its sweep could return a ticket under
  somebody's hands. From it `SchedTypes` and `SchedClearedIsLeft`. `SchedUsesLease` shows that
  the scheduler moves by the steps of `Lease`, which `DLock` implements.

**`GlueIdentityProofs`.** `IdentityInv`: the history is up to date, each cache entry is no younger than
the fact it records by more than an exchange (`Dated`, `PermsDated`), and so is what a thread
has heard and not yet stored (`Heard`) and what an outcome rests on (`Founded`).
From it `IdentityTypes`, `IdentityAdmitted`, `IdentityGrants`, `IdentityRefusals`. The windows add up:
an identity may be stored with permissions a window old, which is why a grant outlives a role by two
windows and two exchanges and not, as the code's comment has it, by one window.

**`ContractGateProofs`.** `GateInv`: what is kept of the contract, and what a request is about to act on
(`Entitled`), was said by Glue within the windows; what lies behind the place a script has
reached is in the schema (`Progress`, `Behind`), which other scripts only add to. From it
`GateTypes`, `GatePassed`, `GateCreates`, `GateProvisioned`.

**`OidcLoginProofs`.** `SessionIsOwn` speaks of a session that was made in the end; the tabs of a
browser, and of others, build it in several steps. `LoginInv` follows the chain: a state that a
cookie or a callback carries was drawn for this browser alone (`JarFits`, `CallFits`); whoever
is past the redemption of a code is vouched for by a spent link of such an authorization
(`Vouched`); spent links, drawn states and the users of sessions never change again
(`Grows`). `RotationSurvived` needs that keys fetched now hold the current one if nobody has
rotated since (`CallFits` of `loaded` and `fetched`), and `SessionsEndForAReason` that what
Glue has said to a tab before it revokes was true of late. From it `LoginTypes`, `LoginSessionIsOwn`, `LoginRotation`,
`LoginSessionsEnd`.

**`RegistryProofs`.** A commit is judged by what the writer was told all along its transaction, so
`RegInv` compares the uncommitted rows with the committed ones at every moment of it
(`Faithful`): what is missing is excused, what is new was answered for, and what is still to be
done has not been told. For a process that has given up no thread and in which no restarts overlapped, one restart at
most is under way (`Single`), and the thread it joins, or else `procs[p].thread`, is the only one that is not over
(`OneKnown`), which `OneThread` needs and does not say. From it `RegTypes`, `RegOneThread`,
`RegCommits`.

**`TargetsProofs`.** The two ways to deploy, and both together (`TargetsTypes`).

* `K8sInv`: types, and that a job that waits for its verdict with exit code 0, and has not met a
  command of another one, has a Deployment whose template is what it sent, or is gone (`Fits`). Controllers do not
  write that template in these modes; another job that writes it marks all of its service (`met`); a
  stop removes it, which no rollout status forgives. From it
  `K8sTypes`, `K8sOkMeansRolledOut`, `K8sOverridesKept`.
* `ComposeInv`: for each deployment, what its env file names is what it means to
  start, unless the file was not written or another deployment was met; a switch to Docker Hub had its reason; from a
  successful pull on the host has the image, no older than at the beginning; and after `up` with exit code 0 the
  container, unless another deployment has replaced it, is of that image (`DepFits`). Of `daemon.json`: before the
  first write the operator's last version is the file's, and after it the file's or the backup's if the copies worked
  (`DaemonFits`). From it `ComposeTypes`, `ComposeNoSubstitute`, `ComposeConfigKept`,
  `ComposeOkMeansDeployed`. The attempt found a flaw of an earlier model: a tag deleted and pushed
  anew had a lower version than before, so that with three changes an old container counted as new;
  versions of pushes now only grow.

Model-checked only. The liveness properties `DeployingResolves`, `LockReleased`, `DueEnds`, `GateReopens` and
`Converges`: liveness under fairness is out of the prover's reach. The statements of section 6 are
false. `OkMeansRolledOut` and the others are proved with the exceptions they state.

## 6. What the code does not keep

Statements of the code's comments and manual that the models contradict. The two runs that
expect a violation show the first two; the others are definitions in the modules that no run
lists. TLC finds each violated when it is added to the .cfg of its component (for
`PermTakesEffect` with `MayFail = FALSE` and `Grace = 0`, for `RestartOnce` with `MaxFlows = 3` and one tab).

| statement | source | what happens |
|---|---|---|
| `OneExecutorPerTicket` | approval_service.py:618 | a sweep between claim and row gives the ticket to a second executor |
| `KubectlRollsBack` | docs/ADMIN_MANUAL.md:517 | apply and restart are two revisions of one image; undo goes back to the first of them |
| `RecoveryKeepsEnded` | docs/CHANGELOG.md:120 | a ticket whose row ended as partial or terminated before a crash returns to approved |
| `ActiveIdsInProgress` | deploy_run.py:140 | a cancellation served by another process leaves a signal there, which its shutdown waits for |
| `ScheduleKept` | approval_service.py:718-722 | an outage of Glue is an `AppException` too, and clears the schedule like a withdrawn permission |
| `PermTakesEffect` | glue_identity.py:268-269 | an identity refreshed at the end of the permissions' window keeps them for its own |
| `RestartOnce` | routers/oidc.py:9 | start does not pass `retry` on, so a callback never has it: a code that never works restarts for ever |
| `LockIndexed` | deploy_run.py:291 | a fresh MySQL gets its indexes before the column `lock_key` (database.py:743-744); the error is suppressed and the index missing until a process starts again |
| `OffIsOff` | routers/registry.py:142 | a thread given up amid a round finds the stop flag cleared and goes on (registry_service.py:625-626); so does one that an overlapping restart started |
| `NoPageLost` | registry_provider.py:226 | a later page that is 404 or not understood is skipped (lines 236-238), and the tags it lists are deleted (registry_service.py:226-232) |
| `TableIsRegistry` | registry_service.py:224 | rows are unique by tag and digest and deleted by tag: a tag pushed anew keeps the row of its old digest |

Seen while modelling, and excepted by the properties: a failed login is only logged and a denied pull is not told from
a tag that is not there, so that Docker Hub steps in after both (compose.py:219-231, 260-264), though the private
registry has the image; the copy of `daemon.json` and its write are joined by `;`, so that a full disk may leave neither
(registry_insecure.py:203-207); the env file and the containers are searched for the tag as a substring
(compose.py:130, 365), so that a rollback from v1.1 to v1 whose env file cannot be written counts as done; a
cancellation frees the project's lock while the old thread goes on (deploy_run.py:498-506), so that its apply may land
after that of the next deployment, whose verdict then is about the wrong template.

Seen while modelling, and outside of what the properties say: the wait of an Argo CD rollback continues
while the application is at the revision it goes back to (k8s_argocd.py:152), where docs/CHANGELOG.md:151
speaks of one that "still matches the previous one"; Argo CD's status may still be that of before the
sync (k8s_argocd.py:301); Flux that does not react, or is suspended and never resumed, ends as a
success by the rollout status of the old pods (k8s_fluxcd.py:277, 291); `docker-compose pull` has no `--env-file`
(compose.py:238), though `up` has, so that a service with an env file of its own pulls another image and may
fall back to Docker Hub without the private registry having been asked; a native rollback is recorded with the
tag that was rolled back, and rolling back twice returns to it.

## 7. Bounds

`MaxLog` bounds the rows ever inserted, `MaxCancel` the cancellation requests in
flight at a time, `MaxTime` the clock of `DLock`; `MaxSkew` is an assumption on the clocks of the
hosts and `MaxLatency` one on exchanges with Glue. `MaxMishap`, `MaxChange(s)`, `MaxTurns`, `MaxFaults`,
`MaxEvents`, `MaxEdits`, `MaxCancels`, `MaxTroubles`, `MaxLosses` bound what the environment does, `MaxDeploys` and `MaxJobs`
the deployments, `MaxFlows`, `MaxSessions` and `MaxKeys` what a login makes. `Attempts` and `Applies` are
settings. Ages end at `LongAgo`, beyond every window. Nothing else grows.

## 8. Not modelled, and what could come next

* Alerting: one checker thread per process, with durations and cooldowns in memory that no other thread
  reads. Its hazard (an entity that leaves and returns) is listed. It would be the next module.
* Rule matching (`approval_rules`): a pure function, which could be an operator checked against a reference
  definition. In `ApprovalTickets` who may decide is a set.
* The CI client (a token, a negative cache), webhooks and notifications except that they may fail, the
  web terminal, monitoring, server listings, configuration, encryption of stored secrets, access logging and the
  front end: input, output, pure functions, or state that ends with a connection.
* Deployments by SSH scripts and ansible are one step (`Script`): the code judges them by their exit code.
* The isolation of the four statements of the convergence on MySQL is taken as serialisable, as on SQLite.
* Proofs worth adding: that executions and sweeps of `ApprovalFlow` do to ticket and row what `Scheduler`
  takes from them (a refinement between the two), and that an answer `GlueIdentity` gives is one of those
  `OidcLogin` takes from Glue.
