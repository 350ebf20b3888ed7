---------------------------- MODULE ContractGate ----------------------------
(***************************************************************************)
(* The gate before every request (cd_deploy_gate in backend/auth.py) and   *)
(* what it stands on in backend/database.py: the contract with Glue, asked *)
(* over HTTP and kept for a while, and the tables, which a process creates *)
(* at its first connection if the contract grants it.                      *)
(* Points in time are kept as ages.                                        *)
(***************************************************************************)
EXTENDS Integers, Sequences

CONSTANTS
  Process,
  Thread,
  Sites,        \* the sites to look at: the driver, and home[t], the process of thread t
  TTL,          \* CI_CONTRACT_TTL; 0: ask every time
  Warn,         \* _CONTRACT_WARN_INTERVAL, the length of a pause if TTL is 0
  MaxLatency,   \* how long a request takes to ask and to create, at most
  MaxTurns      \* bound of the model: changes of the contract, outages, restarts

ASSUME GateAssumption ==
  /\ Sites \subseteq [driver : {"sqlite", "mysql"}, home : [Thread -> Process]]
  /\ TTL \in Nat /\ Warn \in Nat \ {0} /\ MaxLatency \in Nat \ {0} /\ MaxTurns \in Nat

VARIABLES
  site,
  contract,     \* Glue's side: what it says, whether it answers, changes so far
  schema,       \* tables, columns and indexes of the database
  processes,    \* what each process keeps
  callers,      \* the requests
  told          \* history: how long ago Glue's answer was "enabled", was "auto"

gateVars == <<site, contract, schema, processes, callers, told>>

Pause   == IF TTL > 0 THEN TTL ELSE Warn     \* _mark_contract_http_down
LongAgo == TTL + 2 * MaxLatency
Age     == 0..LongAgo
Older(a) == IF a < LongAgo THEN a + 1 ELSE LongAgo

\* The contract: not enabled, or enabled with its provision.
State   == {"off", "manual", "auto"}
Enabled == {"manual", "auto"}

-----------------------------------------------------------------------------
\* What a schema consists of, by way of example: the table of deployments with
\* the column and the index of the deployment lock, and another table.
Object  == {"cd_deploy_logs", "lock_key", "idx_cdl_lock_key", "cd_approvals"}
Tables  == {"cd_deploy_logs", "cd_approvals"}

\* What a statement needs to succeed.
Needs(o) ==
  CASE o = "idx_cdl_lock_key" -> {"lock_key"}
    [] o = "lock_key"         -> {"cd_deploy_logs"}
    [] OTHER                  -> {}

\* The statements in their order: tables, indexes, columns for MySQL; for SQLite
\* each table with its columns and, of the lock, its index.
MysqlScript  == <<"cd_deploy_logs", "cd_approvals", "idx_cdl_lock_key", "lock_key">>
SqliteScript == <<"cd_deploy_logs", "lock_key", "idx_cdl_lock_key", "cd_approvals">>
Script       == [mysql |-> MysqlScript, sqlite |-> SqliteScript]

\* A database before the first start: empty, of an older release, or imported.
Found == {{}, Tables, Object}

-----------------------------------------------------------------------------
\* known: _contract_cache and its age; pause: what is left of
\* _contract_http_down_until; ensured: _tables_ensured, and by which answer.
ProcessState == [known   : State \cup {"nothing"},
                 age     : 0..TTL,
                 pause   : 0..Pause,
                 ensured : {"no", "manual", "auto"}]
Started == [known |-> "nothing", age |-> TTL, pause |-> 0, ensured |-> "no"]

\* place: what the answer is needed for: the gate itself, its connection, or the
\* connection of other work, which passes no gate (startup, background threads).
Caller == [pc     : {"idle", "resolve", "ask", "store", "create", "list",
                     "passed", "refused"},
           place  : {"gate", "list", "work"},
           answer : State,
           next   : 1..5,
           since  : 0..MaxLatency]
Idle == [pc |-> "idle", place |-> "gate", answer |-> "off", next |-> 1, since |-> 0]

Over == {"idle", "passed", "refused"}      \* refused: 503, whatever the reason

Noted(h, c) == [enabled |-> IF c.says \in Enabled THEN 0 ELSE h.enabled,
                auto    |-> IF c.says = "auto" THEN 0 ELSE h.auto]

GateInit ==
  /\ site \in Sites
  /\ contract \in [says : State, glue : {"up"}, turns : {0}]
  /\ schema \in Found
  /\ processes = [p \in Process |-> Started]
  /\ callers = [t \in Thread |-> Idle]
  /\ told = Noted([enabled |-> LongAgo, auto |-> LongAgo], contract)

-----------------------------------------------------------------------------
At(t, pc)  == callers[t].pc = pc
Mine(t)    == processes[site.home[t]]
Goes(t, c) == callers' = [callers EXCEPT ![t] = c]
Ends(t, outcome) == Goes(t, [Idle EXCEPT !.pc = outcome])

Arrive(t) ==
  /\ callers[t].pc \in Over
  /\ Goes(t, [Idle EXCEPT !.pc = "resolve"])
  /\ UNCHANGED <<site, contract, schema, processes, told>>

\* Other work connects; once settled, a connection asks nothing.
Connect(t) ==
  /\ callers[t].pc \in Over
  /\ Mine(t).ensured = "no"
  /\ Goes(t, [Idle EXCEPT !.pc = "resolve", !.place = "work"])
  /\ UNCHANGED <<site, contract, schema, processes, told>>

\* After a connection: the gate lists the tables, other work is not followed.
Connected(c) == IF c.place = "list" THEN [c EXCEPT !.pc = "list"] ELSE Idle

\* What the answer s means to a caller.  The gate lets an enabled service through
\* to its list of tables; the connection this takes creates them first, unless
\* that has been settled or is not granted.
Onward(t, s) ==
  LET c == callers[t] IN
  CASE c.place = "gate" /\ s \notin Enabled -> [Idle EXCEPT !.pc = "refused"]
    [] c.place = "gate" /\ s \in Enabled ->
         [c EXCEPT !.place = "list", !.pc = IF Mine(t).ensured = "no" THEN "resolve" ELSE "list"]
    [] c.place # "gate" /\ s = "auto" -> [c EXCEPT !.pc = "create"]
    [] OTHER -> Connected(c)

\* Mutant of Settles: a connection settles the matter whatever the answer.
SettlesAnyway(t, s) ==
  IF callers[t].place = "gate" THEN "no" ELSE IF s = "manual" THEN "manual" ELSE "auto"

\* The answer by which it settles _tables_ensured, if it does (auto: once created).
Settles(t, s) == IF callers[t].place # "gate" /\ s = "manual" THEN "manual" ELSE "no"

\* A process that has settled stays so.
Settled(p, by) == IF by = "no" THEN p ELSE [p EXCEPT !.ensured = by]

\* Mutant of Fresh: an answer counts until it is replaced.
FreshForever(p) == p.known # "nothing" /\ TTL > 0

Fresh(p) == p.known # "nothing" /\ TTL > 0 /\ p.age < TTL

\* _resolve_contract_state with an answer at hand.
Recall(t) ==
  /\ At(t, "resolve")
  /\ Fresh(Mine(t))
  /\ LET s == Mine(t).known
     IN  /\ Goes(t, Onward(t, s))
         /\ processes' = [processes EXCEPT ![site.home[t]] = Settled(@, Settles(t, s))]
  /\ UNCHANGED <<site, contract, schema, told>>

\* Without one it asks, or fails at once during a pause (_fetch_contract_http).
Resolve(t) ==
  /\ At(t, "resolve")
  /\ ~Fresh(Mine(t))
  /\ IF Mine(t).pause > 0 THEN Ends(t, "refused")
     ELSE Goes(t, [callers[t] EXCEPT !.pc = "ask"])
  /\ UNCHANGED <<site, contract, schema, processes, told>>

\* Mutant of Asked: an answer without the field enabled reads as enabled.
AskedLeniently(t) ==
  /\ At(t, "ask")
  /\ contract.glue # "down"
  /\ Goes(t, [callers[t] EXCEPT !.pc = "store",
                               !.answer = IF contract.glue = "up" THEN contract.says ELSE "auto"])
  /\ UNCHANGED <<site, contract, schema, processes, told>>

\* Glue answers.
Asked(t) ==
  /\ At(t, "ask")
  /\ contract.glue = "up"
  /\ Goes(t, [callers[t] EXCEPT !.pc = "store", !.answer = contract.says])
  /\ UNCHANGED <<site, contract, schema, processes, told>>

\* Mutant of AskFails: the pause is twice as long.
AskFailsLong(t) ==
  /\ At(t, "ask")
  /\ contract.glue # "up"
  /\ processes' = [processes EXCEPT ![site.home[t]].pause = 2 * Pause]
  /\ Ends(t, "refused")
  /\ UNCHANGED <<site, contract, schema, told>>

\* It does not: for a while nobody asks again.  An answer without the field
\* enabled is none, but no reason to pause.
AskFails(t) ==
  /\ At(t, "ask")
  /\ contract.glue # "up"
  /\ processes' = IF contract.glue = "down"
                  THEN [processes EXCEPT ![site.home[t]].pause = Pause]
                  ELSE processes
  /\ Ends(t, "refused")
  /\ UNCHANGED <<site, contract, schema, told>>

\* The answer is stored under the time of storing it, whatever was stored meanwhile.
Store(t) ==
  /\ At(t, "store")
  /\ LET s == callers[t].answer
     IN  /\ Goes(t, [Onward(t, s) EXCEPT !.answer = "off"])
         /\ processes' = [processes EXCEPT ![site.home[t]] =
              Settled([@ EXCEPT !.known = s, !.age = 0], Settles(t, s))]
  /\ UNCHANGED <<site, contract, schema, told>>

\* One statement of the script.  CREATE TABLE does nothing to an existing table;
\* what cannot be created or is there already is passed over (suppress).
Create(t) ==
  /\ At(t, "create")
  /\ callers[t].next <= Len(Script[site.driver])
  /\ LET o == Script[site.driver][callers[t].next]
     IN  schema' = IF Needs(o) \subseteq schema THEN schema \cup {o} ELSE schema
  /\ Goes(t, [callers[t] EXCEPT !.next = @ + 1])
  /\ UNCHANGED <<site, contract, processes, told>>

\* Mutant of Created: the flag is set before the script is through.
CreatedEarly(t) ==
  /\ At(t, "create")
  /\ processes' = [processes EXCEPT ![site.home[t]].ensured = "auto"]
  /\ Goes(t, Connected([callers[t] EXCEPT !.next = 1]))
  /\ UNCHANGED <<site, contract, schema, told>>

\* The script is through: it is not run again by this process.
Created(t) ==
  /\ At(t, "create")
  /\ callers[t].next > Len(Script[site.driver])
  /\ processes' = [processes EXCEPT ![site.home[t]].ensured = "auto"]
  /\ Goes(t, Connected([callers[t] EXCEPT !.next = 1]))
  /\ UNCHANGED <<site, contract, schema, told>>

\* cd_missing_tables.
List(t) ==
  /\ At(t, "list")
  /\ Ends(t, IF Tables \subseteq schema THEN "passed" ELSE "refused")
  /\ UNCHANGED <<site, contract, schema, processes, told>>

-----------------------------------------------------------------------------
Turn == contract.turns < MaxTurns

\* Glue's administrators change the contract; Glue goes down and comes back.
ChangeContract(s) ==
  /\ Turn /\ s # contract.says
  /\ contract' = [contract EXCEPT !.says = s, !.turns = @ + 1]
  /\ told' = Noted(told, contract')
  /\ UNCHANGED <<site, schema, processes, callers>>

Outage(kind) ==
  /\ Turn /\ contract.glue = "up"
  /\ contract' = [contract EXCEPT !.glue = kind, !.turns = @ + 1]
  /\ UNCHANGED <<site, schema, processes, callers, told>>

Recovery ==
  /\ contract.glue # "up"
  /\ contract' = [contract EXCEPT !.glue = "up"]
  /\ UNCHANGED <<site, schema, processes, callers, told>>

\* An operator imports init_mysql.sql.
Import ==
  /\ Turn /\ schema # Object
  /\ schema' = Object
  /\ contract' = [contract EXCEPT !.turns = @ + 1]
  /\ UNCHANGED <<site, processes, callers, told>>

\* A process is killed, perhaps amid its script, and started again.
Restart(p) ==
  /\ Turn
  /\ processes' = [processes EXCEPT ![p] = Started]
  /\ callers' = [t \in Thread |-> IF site.home[t] = p THEN Idle ELSE callers[t]]
  /\ contract' = [contract EXCEPT !.turns = @ + 1]
  /\ UNCHANGED <<site, schema, told>>

Pass ==
  /\ \A t \in Thread : callers[t].pc \in Over \/ callers[t].since < MaxLatency
  /\ callers' = [t \in Thread |-> IF callers[t].pc \in Over THEN Idle
                                  ELSE [callers[t] EXCEPT !.since = @ + 1]]
  /\ processes' = [p \in Process |->
       [processes[p] EXCEPT !.age = IF @ < TTL THEN @ + 1 ELSE TTL, !.pause = IF @ > 0 THEN @ - 1 ELSE 0]]
  /\ told' = Noted([enabled |-> Older(told.enabled), auto |-> Older(told.auto)], contract)
  /\ UNCHANGED <<site, contract, schema>>

GateStep(t) ==
  \/ Arrive(t) \/ Connect(t) \/ Recall(t) \/ Resolve(t) \/ Asked(t) \/ AskFails(t)
  \/ Store(t) \/ Create(t) \/ Created(t) \/ List(t)

GateNext ==
  \/ \E t \in Thread : GateStep(t)
  \/ \E s \in State : ChangeContract(s)
  \/ \E kind \in {"down", "garbled"} : Outage(kind)
  \/ Recovery \/ Import
  \/ \E p \in Process : Restart(p)
  \/ Pass

GateSpec == GateInit /\ [][GateNext]_gateVars

\* Requests come and are served, time passes, and outages end.
GateFairness ==
  /\ \A t \in Thread : WF_gateVars(GateStep(t))
  /\ WF_gateVars(Pass)
  /\ WF_gateVars(Recovery)

-----------------------------------------------------------------------------
GateTypeOK ==
  /\ site \in Sites
  /\ contract \in [says : State, glue : {"up", "down", "garbled"}, turns : 0..MaxTurns]
  /\ schema \subseteq Object
  /\ processes \in [Process -> ProcessState]
  /\ callers \in [Thread -> Caller]
  /\ told \in [enabled : Age, auto : Age]

\* Fail closed: who passes the gate, does so on a contract that was enabled not
\* longer ago than the answer may be kept and two requests may take: the one that
\* asked, and its own.
PassedWasEnabled ==
  \A t \in Thread : At(t, "passed") => told.enabled < TTL + 2 * MaxLatency

\* No DDL without a grant (database.py:541-542, "not enabled, manual: zero DDL").
CreatesWithGrant ==
  \A t \in Thread : At(t, "create") => told.auto < TTL + 2 * MaxLatency

\* A process that ran its script has all tables and columns, whoever else ran
\* theirs, died amid it or imported the file meanwhile; with SQLite also the index.
Provisioned ==
  \A p \in Process : processes[p].ensured = "auto" =>
    /\ Tables \cup {"lock_key"} \subseteq schema
    /\ site.driver = "sqlite" => "idx_cdl_lock_key" \in schema

\* "lock_key: unique index on project, at most one running record of a project"
\* (deploy_run.py:291).  Violated: MySQL tables made by the first process to connect
\* get the index with the second one's script only.
LockIndexed ==
  \A p \in Process : processes[p].ensured = "auto" => "idx_cdl_lock_key" \in schema

\* Where Glue enables the service for good, a request passes again and again:
\* quick failures do not prolong the pause that an outage began.  Not so in a
\* process that had settled for "manual": it creates nothing until it is restarted.
GateReopens ==
  \A t \in Thread :
    <>[](contract.says = "auto" /\ Mine(t).ensured # "manual") => []<>At(t, "passed")
=============================================================================
