-------------------------- MODULE ContractGateProofs --------------------------
(***************************************************************************)
(* Who passes the contract gate and who creates tables, for any processes, *)
(* threads, time to live and latency.                                      *)
(*                                                                         *)
(* A request rests on an answer that was kept, or on its own; the          *)
(* invariant follows the age of the fact behind it from the answer through *)
(* the cache to the request.  That the tables are complete follows from    *)
(* what a request has created on its way through the script: what others   *)
(* do meanwhile only adds to it.                                           *)
(***************************************************************************)
EXTENDS ContractGate, TLAPS

\* What an answer s of that age vouches for.
Vouched(s, age) == /\ s \in Enabled => told.enabled <= age
                   /\ s = "auto"    => told.auto <= age

\* The history knows what holds now.
UpToDate == Vouched(contract.says, 0)

\* What a process keeps, as long as it is used.
Kept(p) == p.age < TTL => Vouched(p.known, p.age + MaxLatency)

\* What a request rests on.
Entitled(c) ==
  /\ c.pc = "store" => Vouched(c.answer, c.since)
  /\ c.pc \notin Over /\ c.place = "list" => told.enabled < c.since + TTL + MaxLatency
  /\ c.pc = "list"   => c.place = "list"
  /\ c.pc = "create" => c.place # "gate" /\ told.auto < c.since + TTL + MaxLatency
  /\ c.pc = "passed" => told.enabled < TTL + 2 * MaxLatency

\* The objects a request at statement n of the script has created or found.
Behind(n) ==
  IF site.driver = "mysql"
  THEN {o \in Object : (o = "cd_deploy_logs" /\ n > 1) \/ (o = "cd_approvals" /\ n > 2)
                       \/ (o = "lock_key" /\ n > 4)}
  ELSE {o \in Object : (o = "cd_deploy_logs" /\ n > 1) \/ (o = "lock_key" /\ n > 2)
                       \/ (o = "idx_cdl_lock_key" /\ n > 3) \/ (o = "cd_approvals" /\ n > 4)}
Progress(c) == IF c.pc = "create" THEN Behind(c.next) \subseteq schema ELSE c.next = 1

GateInv ==
  /\ GateTypeOK
  /\ UpToDate
  /\ \A p \in Process : Kept(processes[p])
  /\ \A t \in Thread : Entitled(callers[t]) /\ Progress(callers[t])
  /\ \A p \in Process : processes[p].ensured = "auto" => Behind(5) \subseteq schema

-----------------------------------------------------------------------------
\* The numbers, and the site.
LEMMA Ages ==
  /\ TTL \in Nat /\ Warn \in Nat /\ Warn > 0 /\ MaxLatency \in Nat /\ MaxLatency > 0
  /\ LongAgo \in Nat /\ Pause \in Nat /\ LongAgo = TTL + 2 * MaxLatency
  /\ \A s \in Sites : s.driver \in {"sqlite", "mysql"} /\ s.home \in [Thread -> Process]
  BY GateAssumption DEF LongAgo, Pause

\* A request that is over or has not begun.
LEMMA IdleTyped ==
  /\ Idle \in Caller /\ Idle.pc = "idle" /\ Idle.place = "gate" /\ Idle.next = 1
  /\ Idle.since = 0 /\ Idle.answer = "off"
  BY Ages DEF Idle, Caller, State

\* A client without a request.
LEMMA EndTyped ==
  ASSUME NEW pc \in {"idle", "resolve", "passed", "refused"}
  PROVE  LET c == [Idle EXCEPT !.pc = pc] IN
         c \in Caller /\ c.pc = pc /\ c.place = "gate" /\ c.next = 1
  BY IdleTyped DEF Caller

\* What the invariant says of one thread, in the words of the actions.
LEMMA ThreadFacts ==
  ASSUME GateInv, NEW t \in Thread
  PROVE  /\ callers[t] \in Caller /\ callers \in [Thread -> Caller]
         /\ Entitled(callers[t]) /\ Progress(callers[t])
         /\ site \in Sites /\ site.home[t] \in Process
         /\ processes \in [Process -> ProcessState] /\ Mine(t) \in ProcessState /\ Kept(Mine(t))
         /\ told.enabled \in Nat /\ told.auto \in Nat
         /\ callers[t].since \in Nat /\ callers[t].since <= MaxLatency
  BY Ages DEF GateInv, GateTypeOK, Age, Mine, Caller

\* A thread's step that claims no more than it should.
LEMMA StepInv ==
  ASSUME GateInv, NEW t \in Thread, NEW c \in Caller, Entitled(c), Progress(c),
         callers' = [callers EXCEPT ![t] = c], UNCHANGED <<site, contract, schema, told>>,
         processes' \in [Process -> ProcessState],
         \A p \in Process : Kept(processes'[p])
           /\ (processes'[p].ensured = "auto" => Behind(5) \subseteq schema)
  PROVE  GateInv'
<1>1. callers' \in [Thread -> Caller] /\ \A s \in Thread : callers'[s] = callers[s] \/ callers'[s] = c
  BY DEF GateInv, GateTypeOK
<1>2. \A s \in Thread : Entitled(callers'[s]) /\ Progress(callers'[s])
  BY <1>1 DEF GateInv
<1>3. \A s \in Thread : Entitled(callers[s])' /\ Progress(callers[s])'
  BY <1>2 DEF Entitled, Progress, Vouched, Behind
<1>4. \A p \in Process : Kept(processes[p])'
  BY DEF Kept, Vouched
<1>5. \A p \in Process : processes'[p].ensured = "auto" => Behind(5)' \subseteq schema'
  BY DEF Behind
<1>6. GateTypeOK' /\ UpToDate'
  BY <1>1 DEF GateInv, GateTypeOK, UpToDate, Vouched
<1> QED BY <1>3, <1>4, <1>5, <1>6 DEF GateInv

\* The same for a step that stores nothing.
LEMMA QuietInv ==
  ASSUME GateInv, NEW t \in Thread, NEW c \in Caller, Entitled(c), Progress(c),
         callers' = [callers EXCEPT ![t] = c], UNCHANGED <<site, contract, schema, processes, told>>
  PROVE  GateInv'
  BY StepInv DEF GateInv, GateTypeOK

\* A request ends without passing, or comes in.
LEMMA EndInv ==
  ASSUME GateInv, NEW t \in Thread, NEW pc \in {"idle", "resolve", "refused"},
         callers' = [callers EXCEPT ![t] = [Idle EXCEPT !.pc = pc]],
         UNCHANGED <<site, contract, schema, told>>,
         processes' \in [Process -> ProcessState],
         \A p \in Process : Kept(processes'[p])
           /\ (processes'[p].ensured = "auto" => Behind(5) \subseteq schema)
  PROVE  GateInv'
<1> DEFINE c == [Idle EXCEPT !.pc = pc]
<1>1. c \in Caller /\ c.pc = pc /\ c.place = "gate" /\ c.next = 1
  BY EndTyped
<1> HIDE DEF c
<1>2. Entitled(c) /\ Progress(c)
  BY <1>1 DEF Entitled, Progress
<1> USE DEF c
<1> QED BY <1>1, <1>2, StepInv

\* A request is taken on.
LEMMA ArriveInv ==
  ASSUME GateInv, NEW t \in Thread, Arrive(t)
  PROVE  GateInv'
  BY EndInv DEF Arrive, Goes, GateInv, GateTypeOK

\* It gets its connection, or no connection is to be had.
LEMMA ConnectInv ==
  ASSUME GateInv, NEW t \in Thread, Connect(t)
  PROVE  GateInv'
<1> DEFINE c == [Idle EXCEPT !.pc = "resolve", !.place = "work"]
<1>1. c \in Caller /\ c.pc = "resolve" /\ c.place = "work" /\ c.next = 1
  BY IdleTyped DEF Caller
<1> HIDE DEF c
<1>2. Entitled(c) /\ Progress(c)
  BY <1>1 DEF Entitled, Progress
<1> USE DEF c
<1> QED BY <1>1, <1>2, QuietInv DEF Connect, Goes

\* What a request goes on with rests on the answer it was given.
LEMMA OnwardEntitled ==
  ASSUME GateInv, NEW t \in Thread, callers[t].pc \in {"resolve", "store"}, NEW s \in State,
         s \in Enabled => told.enabled < callers[t].since + TTL + MaxLatency,
         s = "auto"    => told.auto < callers[t].since + TTL + MaxLatency
  PROVE  LET c == Onward(t, s) IN
         /\ c \in Caller /\ c.pc \in {"resolve", "create", "list", "idle", "refused"}
         /\ Entitled(c) /\ Progress(c)
<1> DEFINE q == callers[t]
<1>1. /\ q \in Caller /\ Entitled(q) /\ q.next = 1 /\ q.since \in Nat
      /\ q.place = "list" => told.enabled < q.since + TTL + MaxLatency
  BY ThreadFacts DEF Entitled, Progress, Over
<1>2. CASE q.place = "gate" /\ s \notin Enabled
  <2>1. Onward(t, s) = [Idle EXCEPT !.pc = "refused"]
    BY <1>2 DEF Onward
  <2> QED BY <2>1, EndTyped DEF Entitled, Progress
<1>3. CASE q.place = "gate" /\ s \in Enabled
  <2> DEFINE pc == IF Mine(t).ensured = "no" THEN "resolve" ELSE "list"
             c == [q EXCEPT !.place = "list", !.pc = pc]
  <2>1. Onward(t, s) = c
    BY <1>3 DEF Onward
  <2>2. pc \in {"resolve", "list"}
    OBVIOUS
  <2> HIDE DEF pc
  <2>3. /\ c \in Caller /\ c.pc = pc /\ c.place = "list" /\ c.next = 1 /\ c.since = q.since
    BY <1>1, <2>2 DEF Caller
  <2> HIDE DEF c
  <2>4. Entitled(c) /\ Progress(c)
    BY <1>1, <1>3, <2>2, <2>3 DEF Entitled, Progress
  <2> QED BY <2>1, <2>2, <2>3, <2>4
<1>4. CASE q.place # "gate" /\ s = "auto"
  <2> DEFINE c == [q EXCEPT !.pc = "create"]
  <2>1. Onward(t, s) = c
    BY <1>4 DEF Onward
  <2>2. c \in Caller /\ c.pc = "create" /\ c.place = q.place /\ c.next = 1 /\ c.since = q.since
    BY <1>1 DEF Caller
  <2>3. Behind(1) = {}
    BY DEF Behind
  <2> HIDE DEF c
  <2>4. Entitled(c) /\ Progress(c)
    BY <1>1, <1>4, <2>2, <2>3 DEF Entitled, Progress
  <2> QED BY <2>1, <2>2, <2>4
<1>5. CASE q.place # "gate" /\ s # "auto"
  <2> DEFINE c == [q EXCEPT !.pc = "list"]
  <2>1. Onward(t, s) = IF q.place = "list" THEN c ELSE Idle
    BY <1>5 DEF Onward, Connected
  <2>2. c \in Caller /\ c.pc = "list" /\ c.place = q.place /\ c.next = 1 /\ c.since = q.since
    BY <1>1 DEF Caller
  <2> HIDE DEF c
  <2>3. CASE q.place = "list"
    <3>1. Entitled(c) /\ Progress(c)
      BY <1>1, <2>2, <2>3 DEF Entitled, Progress
    <3> QED BY <2>1, <2>2, <2>3, <3>1
  <2>4. CASE q.place # "list"
    BY <2>1, <2>4, IdleTyped DEF Entitled, Progress, Over
  <2> QED BY <2>3, <2>4
<1> QED BY <1>2, <1>3, <1>4, <1>5

\* Settling by an answer changes nothing else, and is never by "auto".
LEMMA SettledKeeps ==
  ASSUME NEW p \in ProcessState, NEW by \in {"no", "manual"}
  PROVE  /\ Settled(p, by) \in ProcessState
         /\ Settled(p, by).known = p.known /\ Settled(p, by).age = p.age
         /\ Settled(p, by).ensured = "auto" => p.ensured = "auto"
  BY DEF Settled, ProcessState

\* The cached answer is read.
LEMMA RecallInv ==
  ASSUME GateInv, NEW t \in Thread, Recall(t)
  PROVE  GateInv'
<1> DEFINE s == Mine(t).known
           p == Settled(Mine(t), Settles(t, s))
<1>1. Mine(t) \in ProcessState /\ Fresh(Mine(t)) /\ site.home[t] \in Process /\ s \in State
  BY ThreadFacts DEF Recall, ProcessState, Fresh
<1>2. Vouched(s, Mine(t).age + MaxLatency) /\ Mine(t).age \in Nat /\ Mine(t).age < TTL
  BY <1>1, ThreadFacts, Ages DEF Kept, Fresh, ProcessState
<1>3. /\ s \in Enabled => told.enabled < callers[t].since + TTL + MaxLatency
      /\ s = "auto"    => told.auto < callers[t].since + TTL + MaxLatency
  BY <1>2, Ages, ThreadFacts DEF Vouched
<1>4. Onward(t, s) \in Caller /\ Entitled(Onward(t, s)) /\ Progress(Onward(t, s))
  BY <1>1, <1>3, OnwardEntitled DEF Recall, At
<1>5. /\ p \in ProcessState /\ p.known = Mine(t).known /\ p.age = Mine(t).age
      /\ p.ensured = "auto" => Mine(t).ensured = "auto"
  BY <1>1, SettledKeeps DEF Settles
<1>6. /\ processes' = [processes EXCEPT ![site.home[t]] = p]
      /\ callers' = [callers EXCEPT ![t] = Onward(t, s)]
      /\ UNCHANGED <<site, contract, schema, told>>
  BY DEF Recall, Goes, Mine
<1> HIDE DEF p, s
<1>7. Kept(p)
  BY <1>5, ThreadFacts DEF Kept
<1>8. /\ processes' \in [Process -> ProcessState]
      /\ \A q \in Process : Kept(processes'[q])
           /\ (processes'[q].ensured = "auto" => Behind(5) \subseteq schema)
  BY <1>1, <1>5, <1>6, <1>7 DEF GateInv, GateTypeOK, Mine
<1> QED BY <1>4, <1>6, <1>8, StepInv

\* The address of the contract is resolved, or is not configured.
LEMMA ResolveInv ==
  ASSUME GateInv, NEW t \in Thread, Resolve(t)
  PROVE  GateInv'
<1>1. CASE Mine(t).pause > 0
  BY <1>1, EndInv DEF Resolve, Ends, Goes, GateInv, GateTypeOK
<1>2. CASE ~(Mine(t).pause > 0)
  <2> DEFINE q == callers[t]
             c == [q EXCEPT !.pc = "ask"]
  <2>1. q \in Caller /\ q.pc = "resolve" /\ Entitled(q) /\ q.next = 1
    BY ThreadFacts DEF Resolve, At, Progress
  <2>2. c \in Caller /\ c.pc = "ask" /\ c.place = q.place /\ c.next = 1 /\ c.since = q.since
    BY <2>1 DEF Caller
  <2> HIDE DEF c
  <2>3. Entitled(c) /\ Progress(c)
    BY <2>1, <2>2 DEF Entitled, Progress, Over
  <2> USE DEF c
  <2> QED BY <1>2, <2>2, <2>3, QuietInv DEF Resolve, Goes
<1> QED BY <1>1, <1>2

\* An answer comes.
LEMMA AskedInv ==
  ASSUME GateInv, NEW t \in Thread, Asked(t)
  PROVE  GateInv'
<1> DEFINE q == callers[t]
           c == [q EXCEPT !.pc = "store", !.answer = contract.says]
<1>1. q \in Caller /\ q.pc = "ask" /\ Entitled(q) /\ q.next = 1 /\ q.since \in Nat
  BY ThreadFacts DEF Asked, At, Progress
<1>2. contract.says \in State /\ Vouched(contract.says, q.since)
  BY <1>1, ThreadFacts DEF GateInv, GateTypeOK, UpToDate, Vouched
<1>3. /\ c \in Caller /\ c.pc = "store" /\ c.place = q.place /\ c.next = 1 /\ c.since = q.since
      /\ c.answer = contract.says
  BY <1>1, <1>2 DEF Caller
<1> HIDE DEF c
<1>4. Entitled(c) /\ Progress(c)
  BY <1>1, <1>2, <1>3 DEF Entitled, Progress, Over
<1> USE DEF c
<1> QED BY <1>3, <1>4, QuietInv DEF Asked, Goes

\* No answer comes.
LEMMA AskFailsInv ==
  ASSUME GateInv, NEW t \in Thread, AskFails(t)
  PROVE  GateInv'
<1>1. /\ processes' \in [Process -> ProcessState]
      /\ \A p \in Process : /\ processes'[p].known = processes[p].known
                            /\ processes'[p].age = processes[p].age
                            /\ processes'[p].ensured = processes[p].ensured
  BY Ages DEF AskFails, GateInv, GateTypeOK, ProcessState
<1>2. \A p \in Process : Kept(processes'[p])
           /\ (processes'[p].ensured = "auto" => Behind(5) \subseteq schema)
  BY <1>1 DEF GateInv, Kept
<1> QED BY <1>1, <1>2, EndInv DEF AskFails, Ends, Goes

\* The answer is cached.
LEMMA StoreInv ==
  ASSUME GateInv, NEW t \in Thread, Store(t)
  PROVE  GateInv'
<1> DEFINE s == callers[t].answer
           b == [Mine(t) EXCEPT !.known = s, !.age = 0]
           p == Settled(b, Settles(t, s))
           c == [Onward(t, s) EXCEPT !.answer = "off"]
<1>1. /\ callers[t].pc = "store" /\ s \in State /\ Vouched(s, callers[t].since)
      /\ site.home[t] \in Process
  BY ThreadFacts DEF Store, At, Entitled, Caller
<1>2. /\ s \in Enabled => told.enabled < callers[t].since + TTL + MaxLatency
      /\ s = "auto"    => told.auto < callers[t].since + TTL + MaxLatency
  BY <1>1, Ages, ThreadFacts DEF Vouched
<1>3. /\ Onward(t, s) \in Caller /\ Entitled(Onward(t, s)) /\ Progress(Onward(t, s))
      /\ Onward(t, s).pc \in {"resolve", "create", "list", "idle", "refused"}
  BY <1>1, <1>2, OnwardEntitled
<1>4. /\ c \in Caller /\ c.pc = Onward(t, s).pc /\ c.place = Onward(t, s).place
      /\ c.next = Onward(t, s).next /\ c.since = Onward(t, s).since
  BY <1>3 DEF Caller, State
<1>5. b \in ProcessState /\ b.known = s /\ b.age = 0 /\ b.ensured = Mine(t).ensured
  <2>1. Mine(t) \in ProcessState /\ 0 \in 0..TTL /\ s \in State
    BY <1>1, ThreadFacts, Ages
  <2> HIDE DEF s
  <2> QED BY <2>1 DEF ProcessState
<1> HIDE DEF b
<1>6. /\ p \in ProcessState /\ p.known = s /\ p.age = 0
      /\ p.ensured = "auto" => Mine(t).ensured = "auto"
  BY <1>5, SettledKeeps DEF Settles
<1>7. /\ processes' = [processes EXCEPT ![site.home[t]] = p]
      /\ callers' = [callers EXCEPT ![t] = c]
      /\ UNCHANGED <<site, contract, schema, told>>
  BY DEF Store, Goes, Mine, b
<1> HIDE DEF p, s, c
<1>8. Kept(p)
  BY <1>1, <1>6, ThreadFacts, Ages DEF Kept, Vouched
<1>9. /\ processes' \in [Process -> ProcessState]
      /\ \A q \in Process : Kept(processes'[q])
           /\ (processes'[q].ensured = "auto" => Behind(5) \subseteq schema)
  BY <1>1, <1>6, <1>7, <1>8 DEF GateInv, GateTypeOK, Mine
<1>10. Entitled(c) /\ Progress(c)
  BY <1>3, <1>4 DEF Entitled, Progress, Over
<1> QED BY <1>4, <1>7, <1>9, <1>10, StepInv

\* A statement adds what it creates, and those before it in the script are there.
LEMMA CreateInv ==
  ASSUME GateInv, NEW t \in Thread, Create(t)
  PROVE  GateInv'
<1> DEFINE q == callers[t]
           c == [q EXCEPT !.next = @ + 1]
           o == Script[site.driver][q.next]
<1>1. /\ q \in Caller /\ Entitled(q) /\ q.pc = "create" /\ Behind(q.next) \subseteq schema
      /\ site.driver \in {"mysql", "sqlite"}
  BY ThreadFacts, Ages DEF Create, At, Progress
<1>2. q.next \in 1..4
  BY <1>1 DEF Create, Script, MysqlScript, SqliteScript, Caller
<1>3. schema \subseteq Object /\ schema \subseteq schema' /\ schema' \subseteq schema \cup {o}
      /\ (Needs(o) \subseteq schema => o \in schema')
  BY DEF Create, GateInv, GateTypeOK
<1>4. o \in Object
  BY <1>1, <1>2 DEF Script, MysqlScript, SqliteScript, Object
<1>5. Behind(q.next + 1) \subseteq schema'
  <2>1. CASE site.driver = "mysql"
    <3>1. /\ q.next = 1 => o = "cd_deploy_logs"
          /\ q.next = 2 => o = "cd_approvals"
          /\ q.next = 4 => o = "lock_key"
      BY <1>2, <2>1 DEF Script, MysqlScript
    <3>2. ASSUME NEW x \in Object, x \in Behind(q.next + 1)
          PROVE  x \in Behind(q.next) \/ x = o
      BY <1>2, <2>1, <3>1, <3>2 DEF Behind
    <3>3. o = "cd_deploy_logs" => o \in schema'
      BY <1>3 DEF Needs
    <3>4. o = "cd_approvals" => o \in schema'
      BY <1>3 DEF Needs
    <3>5. q.next = 4 => "cd_deploy_logs" \in schema
      BY <1>1, <2>1 DEF Behind, Object
    <3>6. q.next = 4 => o \in schema'
      BY <1>3, <3>1, <3>5 DEF Needs
    <3>7. q.next = 3 => Behind(q.next + 1) \subseteq Behind(q.next)
      BY <2>1 DEF Behind
    <3> QED BY <1>1, <1>2, <1>3, <3>1, <3>2, <3>3, <3>4, <3>6, <3>7 DEF Behind
  <2>2. CASE site.driver = "sqlite"
    <3>1. /\ q.next = 1 => o = "cd_deploy_logs"
          /\ q.next = 2 => o = "lock_key"
          /\ q.next = 3 => o = "idx_cdl_lock_key"
          /\ q.next = 4 => o = "cd_approvals"
      BY <1>2, <2>2 DEF Script, SqliteScript
    <3>2. ASSUME NEW x \in Object, x \in Behind(q.next + 1)
          PROVE  x \in Behind(q.next) \/ x = o
      BY <1>2, <2>2, <3>1, <3>2 DEF Behind
    <3>3. /\ q.next = 2 => "cd_deploy_logs" \in schema
          /\ q.next = 3 => "lock_key" \in schema
      BY <1>1, <2>2 DEF Behind, Object
    <3>4. o \in schema'
      BY <1>2, <1>3, <3>1, <3>3 DEF Needs
    <3> QED BY <1>1, <1>3, <3>2, <3>4 DEF Behind
  <2> QED BY <1>1, <2>1, <2>2
<1>6. /\ c \in Caller /\ c.pc = "create" /\ c.place = q.place /\ c.since = q.since
      /\ c.next = q.next + 1
  BY <1>1, <1>2 DEF Caller
<1>7. /\ callers' = [callers EXCEPT ![t] = c]
      /\ UNCHANGED <<site, contract, processes, told>>
  BY DEF Create, Goes
<1> HIDE DEF c, o
<1>8. Entitled(c)
  BY <1>1, <1>6 DEF Entitled, Over
<1>9. \A n : Behind(n) = Behind(n)'
  BY <1>7 DEF Behind
<1>10. \A s \in Thread : callers'[s] = IF s = t THEN c ELSE callers[s]
  BY <1>7 DEF GateInv, GateTypeOK
<1>11. \A s \in Thread : Entitled(callers[s])'
  BY <1>7, <1>8, <1>10 DEF GateInv, Entitled, Vouched
<1>12. \A s \in Thread : Progress(callers[s])'
  <2>1. \A s \in Thread : Progress(callers[s])
    BY DEF GateInv
  <2> QED BY <1>3, <1>5, <1>6, <1>9, <1>10, <2>1 DEF Progress
<1>13. GateTypeOK'
  BY <1>3, <1>4, <1>6, <1>7 DEF GateInv, GateTypeOK
<1>14. UpToDate' /\ \A p \in Process : Kept(processes[p])'
  BY <1>7 DEF GateInv, UpToDate, Kept, Vouched
<1>15. \A p \in Process : processes'[p].ensured = "auto" => Behind(5)' \subseteq schema'
  BY <1>3, <1>7, <1>9 DEF GateInv
<1> QED BY <1>11, <1>12, <1>13, <1>14, <1>15 DEF GateInv

\* The script is through: whoever created what, it is there.
LEMMA CreatedInv ==
  ASSUME GateInv, NEW t \in Thread, Created(t)
  PROVE  GateInv'
<1> DEFINE q == callers[t]
           c == Connected([q EXCEPT !.next = 1])
           p == [Mine(t) EXCEPT !.ensured = "auto"]
<1>1. /\ q \in Caller /\ Entitled(q) /\ q.pc = "create" /\ Behind(q.next) \subseteq schema
      /\ site.driver \in {"mysql", "sqlite"} /\ site.home[t] \in Process
      /\ Mine(t) \in ProcessState /\ Kept(Mine(t))
  BY ThreadFacts, Ages DEF Created, At, Progress
<1>2. q.next = 5
  <2>1. Len(MysqlScript) = 4 /\ Len(SqliteScript) = 4
    BY DEF MysqlScript, SqliteScript
  <2>2. Len(Script[site.driver]) = 4
    BY <1>1, <2>1 DEF Script
  <2>3. q.next \in 1..5 /\ q.next > 4
    BY <1>1, <2>2 DEF Created, Caller
  <2> QED BY <2>3
<1>3. p \in ProcessState /\ p.known = Mine(t).known /\ p.age = Mine(t).age
  <2> DEFINE m == Mine(t)
  <2>1. m \in ProcessState
    BY <1>1
  <2> HIDE DEF m
  <2>2. LET n == [m EXCEPT !.ensured = "auto"] IN
        n \in ProcessState /\ n.known = m.known /\ n.age = m.age
    BY <2>1 DEF ProcessState
  <2> QED BY <2>2 DEF m
<1>4. /\ processes' = [processes EXCEPT ![site.home[t]] = p]
      /\ callers' = [callers EXCEPT ![t] = c]
      /\ UNCHANGED <<site, contract, schema, told>>
  BY DEF Created, Goes, Mine
<1>5. c \in Caller /\ Entitled(c) /\ Progress(c)
  <2> DEFINE e == [q EXCEPT !.next = 1]
             d == [e EXCEPT !.pc = "list"]
  <2>1. e \in Caller /\ e.place = q.place /\ e.next = 1 /\ e.since = q.since
    BY <1>1 DEF Caller
  <2>2. c = IF q.place = "list" THEN d ELSE Idle
    BY <2>1 DEF Connected
  <2> HIDE DEF e
  <2>3. d \in Caller /\ d.pc = "list" /\ d.place = q.place /\ d.next = 1 /\ d.since = q.since
    BY <2>1 DEF Caller
  <2> HIDE DEF c, d
  <2>4. q.place = "list" => Entitled(d) /\ Progress(d)
    BY <1>1, <2>3 DEF Entitled, Progress, Over
  <2>5. Entitled(Idle) /\ Progress(Idle)
    BY IdleTyped DEF Entitled, Progress, Over
  <2> QED BY <2>1, <2>2, <2>3, <2>4, <2>5, IdleTyped
<1> HIDE DEF p, c
<1>6. Kept(p)
  BY <1>1, <1>3 DEF Kept
<1>7. /\ processes' \in [Process -> ProcessState]
      /\ \A r \in Process : Kept(processes'[r])
           /\ (processes'[r].ensured = "auto" => Behind(5) \subseteq schema)
  BY <1>1, <1>2, <1>3, <1>4, <1>6 DEF GateInv, GateTypeOK
<1> QED BY <1>4, <1>5, <1>7, StepInv

\* The tables are listed.
LEMMA ListInv ==
  ASSUME GateInv, NEW t \in Thread, List(t)
  PROVE  GateInv'
<1>1. /\ callers[t].pc = "list" /\ callers[t].place = "list" /\ callers[t].since <= MaxLatency
      /\ told.enabled < callers[t].since + TTL + MaxLatency
  BY ThreadFacts DEF List, At, Entitled, Over
<1>2. told.enabled < TTL + 2 * MaxLatency
  BY <1>1, ThreadFacts, Ages
<1> DEFINE pc == IF Tables \subseteq schema THEN "passed" ELSE "refused"
           c == [Idle EXCEPT !.pc = pc]
<1>3. c \in Caller /\ c.pc = pc /\ c.place = "gate" /\ c.next = 1
  BY EndTyped
<1>4. callers' = [callers EXCEPT ![t] = c] /\ UNCHANGED <<site, contract, schema, processes, told>>
  BY DEF List, Ends, Goes
<1>5. pc \in {"passed", "refused"}
  OBVIOUS
<1> HIDE DEF c, pc
<1>6. Entitled(c) /\ Progress(c)
  BY <1>2, <1>3, <1>5 DEF Entitled, Progress, Over
<1> QED BY <1>3, <1>4, <1>6, QuietInv

-----------------------------------------------------------------------------
\* Glue and the operators: the history only gets younger, the tables only more.
LEMMA OutsideInv ==
  ASSUME GateInv, UNCHANGED <<site, processes, callers>>,
         contract' \in [says : State, glue : {"up", "down", "garbled"}, turns : 0..MaxTurns],
         (told' = told /\ contract'.says = contract.says) \/ told' = Noted(told, contract'),
         schema \subseteq schema', schema' \subseteq Object
  PROVE  GateInv'
<1>1. /\ told' \in [enabled : Age, auto : Age]
      /\ told'.enabled <= told.enabled /\ told'.auto <= told.auto
      /\ told'.enabled \in Nat /\ told.enabled \in Nat /\ told'.auto \in Nat /\ told.auto \in Nat
  BY Ages DEF GateInv, GateTypeOK, Noted, Age
<1>2. GateTypeOK'
  BY <1>1 DEF GateInv, GateTypeOK
<1>3. UpToDate'
  BY Ages DEF GateInv, UpToDate, Vouched, Noted, Enabled
<1>4. \A s : \A a \in Nat : Vouched(s, a) => Vouched(s, a)'
  BY <1>1 DEF Vouched
<1>5. \A p \in Process : Kept(processes[p])'
  <2>1. \A p \in Process : processes[p].age + MaxLatency \in Nat /\ Kept(processes[p])
    BY Ages DEF GateInv, GateTypeOK, ProcessState
  <2> QED BY <1>4, <2>1 DEF Kept
<1>6. \A n : Behind(n)' = Behind(n)
  BY DEF Behind
<1>7. ASSUME NEW t \in Thread
      PROVE  Entitled(callers[t])' /\ Progress(callers[t])'
  <2>1. /\ Entitled(callers[t]) /\ Progress(callers[t]) /\ callers[t].since \in Nat
    BY ThreadFacts
  <2>2. Entitled(callers[t])'
    BY <1>1, <1>4, <2>1, Ages DEF Entitled
  <2>3. Progress(callers[t])'
    BY <1>6, <2>1 DEF Progress
  <2> QED BY <2>2, <2>3
<1>8. \A p \in Process : processes'[p].ensured = "auto" => Behind(5)' \subseteq schema'
  BY <1>6 DEF GateInv
<1> QED BY <1>2, <1>3, <1>5, <1>7, <1>8 DEF GateInv

\* A process starts anew and knows nothing.
LEMMA RestartInv ==
  ASSUME GateInv, NEW p \in Process, Restart(p)
  PROVE  GateInv'
<1>1. /\ Started \in ProcessState /\ Started.ensured = "no" /\ Kept(Started)
  BY Ages DEF Started, ProcessState, Kept
<1>2. /\ processes' \in [Process -> ProcessState]
      /\ \A q \in Process : processes'[q] = Started \/ processes'[q] = processes[q]
  BY <1>1 DEF Restart, GateInv, GateTypeOK
<1>3. /\ callers' \in [Thread -> Caller]
      /\ \A t \in Thread : callers'[t] = Idle \/ callers'[t] = callers[t]
  BY IdleTyped DEF Restart, GateInv, GateTypeOK
<1>4. contract' \in [says : State, glue : {"up", "down", "garbled"}, turns : 0..MaxTurns]
      /\ contract'.says = contract.says
  <2>1. /\ contract \in [says : State, glue : {"up", "down", "garbled"}, turns : 0..MaxTurns]
        /\ contract.turns < MaxTurns /\ contract' = [contract EXCEPT !.turns = @ + 1]
    BY DEF Restart, Turn, GateInv, GateTypeOK
  <2>2. contract.turns + 1 \in 0..MaxTurns
    BY <2>1, GateAssumption
  <2> QED BY <2>1, <2>2
<1>5. UNCHANGED <<site, schema, told>>
  BY DEF Restart
<1>6. GateTypeOK' /\ UpToDate'
  BY <1>2, <1>3, <1>4, <1>5 DEF GateInv, GateTypeOK, UpToDate, Vouched
<1>7. \A q \in Process : Kept(processes[q])'
  <2>1. \A q \in Process : Kept(processes'[q])
    BY <1>1, <1>2 DEF GateInv
  <2> QED BY <1>5, <2>1 DEF Kept, Vouched
<1>8. \A t \in Thread : Entitled(callers[t])' /\ Progress(callers[t])'
  <2>1. Entitled(Idle) /\ Progress(Idle)
    BY IdleTyped DEF Entitled, Progress, Over
  <2>2. \A t \in Thread : Entitled(callers'[t]) /\ Progress(callers'[t])
    BY <1>3, <2>1 DEF GateInv
  <2> QED BY <1>5, <2>2 DEF Entitled, Progress, Vouched, Behind
<1>9. \A q \in Process : processes'[q].ensured = "auto" => Behind(5)' \subseteq schema'
  <2>1. \A q \in Process : processes'[q].ensured = "auto" => Behind(5) \subseteq schema
    BY <1>1, <1>2 DEF GateInv
  <2> QED BY <1>5, <2>1 DEF Behind
<1> QED BY <1>6, <1>7, <1>8, <1>9 DEF GateInv

\* Time passes for the caches, the requests and the history.
LEMMA PassInv ==
  ASSUME GateInv, Pass
  PROVE  GateInv'
<1>0. told' = [enabled |-> IF contract.says \in Enabled THEN 0 ELSE Older(told.enabled),
               auto    |-> IF contract.says = "auto" THEN 0 ELSE Older(told.auto)]
  BY DEF Pass, Noted
<1>1. /\ told' \in [enabled : Age, auto : Age]
      /\ told'.enabled <= told.enabled + 1 /\ told'.auto <= told.auto + 1
      /\ told'.enabled \in Nat /\ told.enabled \in Nat /\ told'.auto \in Nat /\ told.auto \in Nat
  <2>1. \A a \in Age : Older(a) \in Age /\ Older(a) <= a + 1 /\ a \in Nat /\ Older(a) \in Nat
    BY Ages DEF Age, Older
  <2>2. told.enabled \in Age /\ told.auto \in Age /\ 0 \in Age
    BY Ages DEF GateInv, GateTypeOK, Age
  <2>3. /\ told'.enabled \in {0, Older(told.enabled)} /\ told'.auto \in {0, Older(told.auto)}
    BY <1>0
  <2>4. told'.enabled \in Age /\ told'.auto \in Age
    BY <2>1, <2>2, <2>3
  <2>5. told' \in [enabled : Age, auto : Age]
    BY <1>0, <2>1, <2>2
  <2>6. /\ told.enabled \in Nat /\ told.auto \in Nat
        /\ told'.enabled \in Nat /\ told'.auto \in Nat
    BY <2>1, <2>2, <2>4
  <2>7. told'.enabled <= told.enabled + 1 /\ told'.auto <= told.auto + 1
    BY <2>1, <2>2, <2>3, <2>6
  <2> QED BY <2>5, <2>6, <2>7
<1>2. UNCHANGED <<site, contract, schema>>
  BY DEF Pass
<1>3. ASSUME NEW p \in Process
      PROVE  /\ processes'[p] \in ProcessState /\ Kept(processes[p])'
             /\ processes'[p].ensured = processes[p].ensured
  <2> DEFINE q == processes[p]
             age == IF q.age < TTL THEN q.age + 1 ELSE TTL
             pause == IF q.pause > 0 THEN q.pause - 1 ELSE 0
             r == [q EXCEPT !.age = age, !.pause = pause]
  <2>1. q \in ProcessState /\ Kept(q)
    BY DEF GateInv, GateTypeOK
  <2>2. age \in 0..TTL /\ pause \in 0..Pause /\ q.age \in Nat
    BY <2>1, Ages DEF ProcessState
  <2>3. processes'[p] = r
    BY <2>1 DEF Pass, GateInv, GateTypeOK
  <2> HIDE DEF age, pause
  <2>4. r \in ProcessState /\ r.age = age /\ r.known = q.known /\ r.ensured = q.ensured
    BY <2>1, <2>2 DEF ProcessState
  <2>5. age < TTL => q.age < TTL /\ age = q.age + 1
    BY <2>2, Ages DEF age
  <2> HIDE DEF r, q
  <2>6. age < TTL => Vouched(q.known, q.age + MaxLatency)
    BY <2>1, <2>5 DEF Kept
  <2>7. age < TTL => /\ q.known \in Enabled => told'.enabled <= age + MaxLatency
                     /\ q.known = "auto" => told'.auto <= age + MaxLatency
    BY <1>1, <2>2, <2>5, <2>6, Ages DEF Vouched
  <2> QED BY <2>3, <2>4, <2>7 DEF Kept, Vouched, q
<1>4. ASSUME NEW t \in Thread
      PROVE  callers'[t] \in Caller /\ Entitled(callers[t])' /\ Progress(callers[t])'
  <2>1. CASE callers[t].pc \in Over
    <3>1. callers'[t] = Idle
      BY <2>1 DEF Pass, GateInv, GateTypeOK
    <3> QED BY <3>1, IdleTyped DEF Entitled, Progress, Over
  <2>2. CASE callers[t].pc \notin Over
    <3> DEFINE q == callers[t]
               r == [q EXCEPT !.since = @ + 1]
    <3>1. /\ q \in Caller /\ Entitled(q) /\ Progress(q) /\ q.since \in Nat /\ q.since < MaxLatency
          /\ q.pc # "passed"
      BY <2>2, ThreadFacts DEF Pass, Over
    <3>2. callers'[t] = r
      BY <2>2 DEF Pass, GateInv, GateTypeOK
    <3>3. /\ r \in Caller /\ r.pc = q.pc /\ r.place = q.place /\ r.next = q.next
          /\ r.since = q.since + 1 /\ r.answer = q.answer
      <4>1. q.since + 1 \in 0..MaxLatency
        BY <3>1, Ages
      <4> QED BY <3>1, <4>1 DEF Caller
    <3>4. /\ callers'[t].pc = q.pc /\ callers'[t].place = q.place /\ callers'[t].next = q.next
          /\ callers'[t].since = q.since + 1 /\ callers'[t].answer = q.answer
      BY <3>2, <3>3
    <3>5. Entitled(callers[t])'
      <4> HIDE DEF r
      <4> QED BY <1>1, <2>2, <3>1, <3>4, Ages DEF Entitled, Vouched
    <3>6. Progress(callers[t])'
      <4>1. \A n : Behind(n)' = Behind(n)
        BY <1>2 DEF Behind
      <4> HIDE DEF r
      <4> QED BY <1>2, <3>1, <3>4, <4>1 DEF Progress
    <3> QED BY <3>2, <3>3, <3>5, <3>6
  <2> QED BY <2>1, <2>2
<1>5. GateTypeOK'
  <2>1. processes' \in [Process -> ProcessState] /\ callers' \in [Thread -> Caller]
    BY <1>3, <1>4 DEF Pass
  <2> QED BY <1>1, <1>2, <2>1 DEF GateInv, GateTypeOK
<1>6. UpToDate'
  <2>1. /\ contract.says \in Enabled => told'.enabled = 0
        /\ contract.says = "auto" => told'.auto = 0
    BY <1>0
  <2> QED BY <1>2, <2>1 DEF UpToDate, Vouched
<1>7. \A p \in Process : processes'[p].ensured = "auto" => Behind(5)' \subseteq schema'
  BY <1>2, <1>3 DEF GateInv, Behind
<1> QED BY <1>3, <1>4, <1>5, <1>6, <1>7 DEF GateInv

-----------------------------------------------------------------------------
\* No process knows anything and no request has begun.
LEMMA GateStarts ==
  ASSUME GateInit
  PROVE  GateInv
<1>1. \A a \in {0, LongAgo} : a \in Age
  BY Ages DEF Age
<1>2. /\ Started \in ProcessState /\ Started.ensured = "no" /\ Kept(Started)
  BY Ages DEF Started, ProcessState, Kept
<1>3. Entitled(Idle) /\ Progress(Idle)
  BY IdleTyped DEF Entitled, Progress, Over
<1>4. /\ contract \in [says : State, glue : {"up", "down", "garbled"}, turns : 0..MaxTurns]
      /\ schema \subseteq Object
  BY GateAssumption DEF GateInit, Found, Tables, Object
<1>5. told = [enabled |-> IF contract.says \in Enabled THEN 0 ELSE LongAgo,
              auto    |-> IF contract.says = "auto" THEN 0 ELSE LongAgo]
  BY DEF GateInit, Noted
<1>6. GateTypeOK
  BY <1>1, <1>2, <1>4, <1>5, IdleTyped DEF GateInit, GateTypeOK
<1>7. UpToDate
  BY <1>5 DEF UpToDate, Vouched
<1> QED BY <1>2, <1>3, <1>6, <1>7 DEF GateInit, GateInv

\* Every step keeps the invariant.
LEMMA GateStays ==
  ASSUME GateInv, [GateNext]_gateVars
  PROVE  GateInv'
<1> DEFINE Contracts == [says : State, glue : {"up", "down", "garbled"}, turns : 0..MaxTurns]
<1>1. contract \in Contracts /\ schema \subseteq Object
  BY DEF GateInv, GateTypeOK
<1>2. contract.turns < MaxTurns => contract.turns + 1 \in 0..MaxTurns
  BY <1>1, GateAssumption
<1>3. ASSUME NEW t \in Thread, GateStep(t)
      PROVE  GateInv'
  BY <1>3, ArriveInv, ConnectInv, RecallInv, ResolveInv, AskedInv, AskFailsInv, StoreInv,
     CreateInv, CreatedInv, ListInv DEF GateStep
<1>4. ASSUME NEW s \in State, ChangeContract(s)
      PROVE  GateInv'
  <2>1. contract' = [says |-> s, glue |-> contract.glue, turns |-> contract.turns + 1]
    BY <1>1, <1>4 DEF ChangeContract
  <2>2. contract' \in Contracts
    BY <1>1, <1>2, <1>4, <2>1 DEF ChangeContract, Turn
  <2> QED BY <1>1, <1>4, <2>2, OutsideInv DEF ChangeContract
<1>5. ASSUME NEW kind \in {"down", "garbled"}, Outage(kind)
      PROVE  GateInv'
  <2>1. contract' = [says |-> contract.says, glue |-> kind, turns |-> contract.turns + 1]
    BY <1>1, <1>5 DEF Outage
  <2>2. contract' \in Contracts /\ contract'.says = contract.says
    BY <1>1, <1>2, <1>5, <2>1 DEF Outage, Turn
  <2> QED BY <1>1, <1>5, <2>2, OutsideInv DEF Outage
<1>6. CASE Recovery
  <2>1. contract' \in Contracts /\ contract'.says = contract.says
    BY <1>1, <1>6 DEF Recovery
  <2> QED BY <1>1, <1>6, <2>1, OutsideInv DEF Recovery
<1>7. CASE Import
  <2>1. contract' = [says |-> contract.says, glue |-> contract.glue, turns |-> contract.turns + 1]
    BY <1>1, <1>7 DEF Import
  <2>2. contract' \in Contracts /\ contract'.says = contract.says
    BY <1>1, <1>2, <1>7, <2>1 DEF Import, Turn
  <2> QED BY <1>1, <1>7, <2>2, OutsideInv DEF Import
<1>8. CASE UNCHANGED gateVars
  <2>1. contract' \in Contracts /\ schema \subseteq schema' /\ schema' \subseteq Object
        /\ contract'.says = contract.says
    BY <1>1, <1>8 DEF gateVars
  <2> QED BY <1>8, <2>1, OutsideInv DEF gateVars
<1> QED BY <1>3, <1>4, <1>5, <1>6, <1>7, <1>8, RestartInv, PassInv DEF GateNext

\* What is kept and what requests rest on is as recent as it has to be.
THEOREM GateHolds == GateSpec => []GateInv
<1> QED BY GateStarts, GateStays, PTL DEF GateSpec

\* Caches, requests and the history have their types, for any windows.
THEOREM GateTypes == GateSpec => []GateTypeOK
<1>1. GateInv => GateTypeOK
  BY DEF GateInv
<1> QED BY <1>1, GateHolds, PTL

\* Fail closed (cd_deploy_gate): who passes was enabled recently, whatever changes,
\* fails or restarts meanwhile.
THEOREM GatePassed == GateSpec => []PassedWasEnabled
<1>1. GateInv => PassedWasEnabled
  BY DEF GateInv, Entitled, PassedWasEnabled, At
<1> QED BY <1>1, GateHolds, PTL

\* No DDL without a recent grant (_resolve_contract_state, ensure_tables).
THEOREM GateCreates == GateSpec => []CreatesWithGrant
<1>1. GateInv => CreatesWithGrant
  <2> SUFFICES ASSUME GateInv, NEW t \in Thread, At(t, "create")
               PROVE  told.auto < TTL + 2 * MaxLatency
    BY DEF CreatesWithGrant
  <2>1. /\ told.auto < callers[t].since + TTL + MaxLatency /\ told.auto \in Nat
        /\ callers[t].since \in Nat /\ callers[t].since <= MaxLatency
    BY ThreadFacts DEF Entitled, At
  <2> QED BY <2>1, Ages
<1> QED BY <1>1, GateHolds, PTL

\* A process that has settled with "auto" has its tables, however many others
\* create, die amid the script or import the file.
THEOREM GateProvisioned == GateSpec => []Provisioned
<1>1. GateInv => Provisioned
  <2> SUFFICES ASSUME GateInv, NEW p \in Process, processes[p].ensured = "auto"
               PROVE  /\ Tables \cup {"lock_key"} \subseteq schema
                      /\ site.driver = "sqlite" => "idx_cdl_lock_key" \in schema
    BY DEF Provisioned
  <2>1. Behind(5) \subseteq schema
    BY DEF GateInv
  <2> QED BY <2>1 DEF Behind, Tables, Object
<1> QED BY <1>1, GateHolds, PTL
=============================================================================
