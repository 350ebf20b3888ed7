---------------------------- MODULE RegistryProofs ----------------------------
(***************************************************************************)
(* What the synchronisation of the image registry commits, and how many    *)
(* threads of a process are at it, for any processes, slots, repositories, *)
(* requests and bounds.                                                    *)
(*                                                                         *)
(* A commit is judged by what the writer was told, so the invariant        *)
(* compares the uncommitted rows with the committed ones all along the     *)
(* transaction.  A thread counts as given up once a restart has not seen   *)
(* it end.  Of a process whose restarts gave up none and did not overlap   *)
(* the invariant knows the only thread, and that a restart has seen it end *)
(* before it starts another.                                               *)
(***************************************************************************)
EXTENDS Registry, TLAPS

\* The uncommitted rows, and what was told of each repository.
WorkRows == [repos : SUBSET Repo, arts : [Repo -> SUBSET Artifact],
             told : [Repo -> (SUBSET Artifact) \cup {NoOne}]]

\* Why an artifact x of repository r may be missing from the rows w.
Excused(w, view, r, x) ==
  r \notin view \/ (w.told[r] \notin {NoOne, {}} /\ x.tag \notin Tags(w.told[r]))

\* The rows w agree with the committed rows t and with what was told in a
\* synchronisation that saw the mapping view and has todo before it.
Faithful(w, t, view, todo) ==
  /\ w \in WorkRows
  /\ \A r \in Repo \ w.repos : w.arts[r] = {}
  /\ \A r \in todo : w.told[r] = NoOne
  /\ \A r \in w.repos \ t.repos : w.told[r] # NoOne
  /\ \A r \in w.repos : w.arts[r] = {} => w.told[r] = {} \/ t.arts[r] = {}
  /\ \A r \in Repo : \A x \in t.arts[r] \ w.arts[r] : Excused(w, view, r, x)

WriterFaithful ==
  \A s \in Syncer : writer = s => Faithful(work, table, syncs[s].view, syncs[s].todo)

\* A thread that lives.
Active(p, k) == syncs[<<p, k>>].pc # "none"

\* At most one thread, the one known, and one restart: it waits for that thread, or has
\* seen it end.
Single(p) ==
  /\ \A k \in Slot : Active(p, k) => procs[p].thread = k
  /\ \A x, y \in Admin : restarts[x].proc = p /\ restarts[y].proc = p => x = y
  /\ \A x \in Admin : restarts[x].proc = p =>
       /\ restarts[x].pc = "join" => restarts[x].old = procs[p].thread
       /\ restarts[x].pc = "start" => \A k \in Slot : ~Active(p, k)

OneKnown ==
  /\ \A x \in Admin : restarts[x].pc # "idle" => restarts[x].proc \in Process
  /\ \A p \in Process : procs[p].late \/ procs[p].raced \/ Single(p)

RegInv == RegTypeOK /\ WriterFaithful /\ OneKnown
-----------------------------------------------------------------------------
\* The leases stay those of processes, whatever a step does with one.
LEMMA LeaseKept ==
  ASSUME holding \subseteq Process, live \subseteq holding,
         \/ \E p \in Process : Grant(p) \/ Drop(p) \/ Expire({p})
         \/ UNCHANGED <<holding, live>>
  PROVE  holding' \subseteq Process /\ live' \subseteq holding'
  BY DEF Grant, Drop, Expire

\* The threads and requests as the actions speak of them.
LEMMA SyncFacts ==
  ASSUME RegInv, NEW s \in Syncer
  PROVE  /\ syncs \in [Syncer -> Sync] /\ syncs[s] \in Sync
         /\ holding \subseteq Process /\ live \subseteq holding
         /\ syncs[s].pc = "pull" <=> writer = s
         /\ writer \in Syncer \cup {NoOne} /\ s # NoOne
         /\ IsThread(s) => s[1] \in Process /\ s[2] \in Slot /\ s = <<s[1], s[2]>>
  BY RegistryAssumption DEF RegInv, RegTypeOK, At, IsThread

\* A thread has its place among the synchronisations, apart from the requests.
LEMMA ThreadPlace ==
  ASSUME NEW p \in Process, NEW k \in Slot
  PROVE  <<p, k>> \in Syncer /\ <<p, k>> \notin Request /\ IsThread(<<p, k>>)
  BY RegistryAssumption DEF Syncer, IsThread

\* A step that starts no thread and leaves processes and restarts alone.
LEMMA OneKnownKept ==
  ASSUME OneKnown, UNCHANGED <<procs, restarts>>,
         \A p \in Process, k \in Slot : Active(p, k)' => Active(p, k)
  PROVE  OneKnown'
<1>1. ASSUME NEW p \in Process, Single(p) PROVE Single(p)'
  BY <1>1 DEF Single
<1> QED BY <1>1 DEF OneKnown

\* What happens outside of the synchronisations, and to leases.
LEMMA WorldInv ==
  ASSUME RegInv, UNCHANGED <<data, syncs, procs, restarts>>,
         mapping' \subseteq Repo, remote' \in [Repo -> SUBSET Artifact],
         answers' \in [Repo -> Answer], holding' \subseteq Process, live' \subseteq holding'
  PROVE  RegInv'
<1>1. RegTypeOK'
  BY DEF RegInv, RegTypeOK, data, At
<1>2. WriterFaithful'
  BY DEF RegInv, WriterFaithful, data
<1>3. OneKnown'
  BY OneKnownKept DEF RegInv, Active
<1> QED BY <1>1, <1>2, <1>3 DEF RegInv

\* A step of one synchronisation that does not have the write lock, before or after.
LEMMA SyncInv ==
  ASSUME RegInv, NEW s \in Syncer, NEW r \in Sync,
         syncs' = [syncs EXCEPT ![s] = r],
         syncs[s].pc # "pull", r.pc # "pull",
         IsThread(s) => r.pc = "none" \/ syncs[s].pc # "none",
         UNCHANGED <<world, data, procs, restarts>>, holding' \subseteq Process, live' \subseteq holding'
  PROVE  RegInv'
<1>1. syncs' \in [Syncer -> Sync] /\ \A u \in Syncer : syncs'[u] = IF u = s THEN r ELSE syncs[u]
  BY DEF RegInv, RegTypeOK
<1>2. RegTypeOK'
  BY <1>1 DEF RegInv, RegTypeOK, world, data, At
<1>3. WriterFaithful'
  <2> SUFFICES ASSUME NEW u \in Syncer, writer = u
      PROVE  Faithful(work, table, syncs'[u].view, syncs'[u].todo)
    BY DEF WriterFaithful, data
  <2> QED BY <1>1, SyncFacts DEF RegInv, WriterFaithful
<1>4. OneKnown'
  <2>1. ASSUME NEW p \in Process, NEW k \in Slot, Active(p, k)' PROVE Active(p, k)
    BY <1>1, <2>1, ThreadPlace DEF Active
  <2> QED BY <2>1, OneKnownKept DEF RegInv
<1> QED BY <1>2, <1>3, <1>4 DEF RegInv

\* The end of a round, wherever it was.
LEMMA RoundEnds ==
  ASSUME RegInv, NEW s \in Syncer, EndsRound(s)
  PROVE  /\ Idle(Resting(s)) \in Sync /\ Idle(Resting(s)).pc = Resting(s)
         /\ Resting(s) = IF IsThread(s) THEN "wait" ELSE "none"
         /\ syncs' = [syncs EXCEPT ![s] = Idle(Resting(s))]
         /\ holding' \subseteq Process /\ live' \subseteq holding'
<1>1. CASE IsThread(s) /\ Drop(s[1])
  BY <1>1, LeaseKept, SyncFacts DEF EndsRound, Idle, Sync, Resting
<1>2. CASE leaseKept
  BY <1>2, LeaseKept, SyncFacts DEF EndsRound, Idle, Sync, Resting, leaseKept
<1> QED BY <1>1, <1>2 DEF EndsRound

-----------------------------------------------------------------------------
\* A thread wakes, or ends.
LEMMA WakeInv ==
  ASSUME RegInv, NEW p \in Process, NEW k \in Slot, Wake(p, k) \/ Exit(p, k)
  PROVE  RegInv'
<1> DEFINE s == <<p, k>>
           r(pc) == [syncs[s] EXCEPT !.pc = pc]
<1>1. s \in Syncer /\ syncs[s] \in Sync /\ syncs[s].pc \in {"wait", "exit"}
  BY ThreadPlace, SyncFacts DEF Wake, Exit, At
<1>2. PICK pc \in {"exit", "map", "none"} : Goes(s, pc)
  BY DEF Wake, Exit, At
<1>3. r(pc) \in Sync /\ r(pc).pc = pc /\ syncs' = [syncs EXCEPT ![s] = r(pc)]
  BY <1>1, <1>2 DEF Sync, Goes
<1>4. holding' \subseteq Process /\ live' \subseteq holding'
  BY <1>1, SyncFacts, LeaseKept DEF Wake, Exit, leaseKept
<1> HIDE DEF r, s
<1> QED BY <1>1, <1>2, <1>3, <1>4, SyncInv DEF Wake, Exit

\* A request is made.
LEMMA AskInv ==
  ASSUME RegInv, NEW s \in Request, Ask(s)
  PROVE  RegInv'
<1>1. PICK whole \in BOOLEAN : syncs' = [syncs EXCEPT ![s] = [Idle("map") EXCEPT !.whole = whole]]
  BY DEF Ask
<1> DEFINE r == [Idle("map") EXCEPT !.whole = whole]
<1>2. r \in Sync /\ r.pc = "map"
  BY DEF Idle, Sync
<1>3. s \in Syncer /\ ~IsThread(s) /\ syncs[s].pc = "none"
  BY RegistryAssumption DEF Syncer, IsThread, Ask, At
<1> HIDE DEF r
<1> QED BY <1>1, <1>2, <1>3, SyncInv, SyncFacts, LeaseKept DEF Ask, leaseKept, r

\* CI is asked, which may end the round as the lock of another writer may.
LEMMA MapInv ==
  ASSUME RegInv, NEW s \in Syncer, Map(s) \/ NoMap(s) \/ Locked(s)
  PROVE  RegInv'
<1>1. CASE Map(s)
  <2>1. PICK todo \in SUBSET mapping :
          syncs' = [syncs EXCEPT ![s].pc = "clean", ![s].view = mapping, ![s].todo = todo]
    BY <1>1 DEF Map
  <2> DEFINE r == [syncs[s] EXCEPT !.pc = "clean", !.view = mapping, !.todo = todo]
  <2>2. r \in Sync /\ r.pc = "clean"
    BY SyncFacts DEF Sync, RegInv, RegTypeOK
  <2>3. syncs' = [syncs EXCEPT ![s] = r]
    BY <2>1
  <2> HIDE DEF r
  <2> QED BY <1>1, <2>2, <2>3, SyncInv, SyncFacts, LeaseKept DEF Map, At, leaseKept
<1>2. CASE NoMap(s) \/ Locked(s)
  <2>1. EndsRound(s) /\ syncs[s].pc \in {"map", "clean"} /\ UNCHANGED <<world, data, procs, restarts>>
    BY <1>2 DEF NoMap, Locked, At
  <2> QED BY <2>1, RoundEnds, SyncInv
<1> QED BY <1>1, <1>2

-----------------------------------------------------------------------------
\* The first writes of a transaction.
LEMMA CleanInv ==
  ASSUME RegInv, NEW s \in Syncer, Clean(s)
  PROVE  RegInv'
<1> DEFINE r == [syncs[s] EXCEPT !.pc = "pull"]
           kept == IF syncs[s].whole THEN table.repos \cap syncs[s].view ELSE table.repos
           hollow == {q \in kept : table.arts[q] = {} /\ (syncs[s].whole \/ q \in syncs[s].todo)}
           w == [repos |-> kept \ hollow,
                 arts  |-> [q \in Repo |-> IF q \in kept THEN table.arts[q] ELSE {}],
                 told  |-> Untold]
<1>1. /\ syncs[s] \in Sync /\ r \in Sync /\ r.pc = "pull" /\ r.view = syncs[s].view
      /\ r.todo = syncs[s].todo /\ syncs' = [syncs EXCEPT ![s] = r]
  BY SyncFacts DEF Clean, Goes, Sync
<1>2. /\ work' = w /\ writer = NoOne /\ writer' = s
      /\ UNCHANGED <<world, table, procs, restarts, holding, live>>
  BY DEF Clean, leaseKept
<1>3. table \in Rows /\ \A q \in Repo \ table.repos : table.arts[q] = {}
  BY DEF RegInv, RegTypeOK
<1>4. Faithful(w, table, r.view, r.todo)
  <2>1. w \in WorkRows
    BY <1>3 DEF Rows, WorkRows, Untold
  <2>2. \A q \in Repo : w.told[q] = NoOne /\ w.arts[q] = IF q \in kept THEN table.arts[q] ELSE {}
    BY DEF Untold
  <2>3. w.repos = kept \ hollow /\ kept \subseteq table.repos /\ table.repos \subseteq Repo
    BY <1>3 DEF Rows
  <2>4. \A q \in Repo \ w.repos : w.arts[q] = {}
    BY <2>2, <2>3
  <2>5. \A q \in Repo : \A x \in table.arts[q] \ w.arts[q] : q \notin r.view
    BY <1>1, <1>3, <2>2, <2>3
  <2>6. \A q \in r.todo : q \in Repo
    BY <1>1 DEF Sync
  <2> HIDE DEF w, r
  <2> QED BY <2>1, <2>2, <2>3, <2>4, <2>5, <2>6 DEF Faithful, Excused
<1> HIDE DEF r, w
<1>5. syncs' \in [Syncer -> Sync] /\ \A u \in Syncer : syncs'[u] = IF u = s THEN r ELSE syncs[u]
  BY <1>1, SyncFacts
<1>6. RegTypeOK'
  <2>1. \A u \in Syncer : syncs'[u].pc = "pull" <=> u = s
    BY <1>1, <1>2, <1>5, SyncFacts
  <2>2. s # NoOne
    BY SyncFacts
  <2> QED BY <1>2, <1>5, <2>1, <2>2 DEF RegInv, RegTypeOK, world, At
<1>7. WriterFaithful'
  BY <1>1, <1>2, <1>4, <1>5 DEF WriterFaithful
<1>8. OneKnown'
  <2>1. ASSUME NEW p \in Process, NEW k \in Slot, Active(p, k)' PROVE Active(p, k)
    BY <2>1, <1>1, <1>5, ThreadPlace DEF Active, Clean, At
  <2> QED BY <1>2, <2>1, OneKnownKept DEF RegInv
<1> QED BY <1>6, <1>7, <1>8 DEF RegInv

\* What Upsert makes of rows that agree with what was told.
LEMMA UpsertFaithful ==
  ASSUME NEW w, NEW t \in Rows, NEW view \in SUBSET Repo, NEW todo \in SUBSET Repo,
         NEW q \in todo, NEW a \in SUBSET Artifact, Faithful(w, t, view, todo)
  PROVE  Faithful(Upsert(w, q, a), t, view, todo \ {q})
<1> DEFINE v == Upsert(w, q, a)
           kept == {x \in w.arts[q] : a = {} \/ x.tag \in Tags(a)}
<1>1. /\ w \in WorkRows /\ q \in Repo /\ a # NoOne
  BY RegistryAssumption DEF Faithful
<1>2. /\ v.repos = w.repos \cup {q}
      /\ v.arts = [w.arts EXCEPT ![q] = kept \cup a]
      /\ v.told = [w.told EXCEPT ![q] = a]
      /\ v \in WorkRows
  BY <1>1 DEF Upsert, WorkRows
<1>3. \A r \in Repo : /\ v.arts[r] = IF r = q THEN kept \cup a ELSE w.arts[r]
                      /\ v.told[r] = IF r = q THEN a ELSE w.told[r]
  BY <1>1, <1>2 DEF WorkRows
<1> HIDE DEF v
<1>4. \A r \in Repo : \A x \in t.arts[r] \ v.arts[r] : Excused(v, view, r, x)
  <2> SUFFICES ASSUME NEW r \in Repo, NEW x \in t.arts[r] \ v.arts[r] PROVE Excused(v, view, r, x)
    OBVIOUS
  <2>1. CASE r # q
    BY <1>3, <2>1 DEF Faithful, Excused
  <2>2. CASE r = q /\ x \in w.arts[q]
    BY <1>1, <1>3, <2>2 DEF Excused
  <2>3. CASE r = q /\ x \notin w.arts[q]
    BY <2>3 DEF Faithful, Excused
  <2> QED BY <2>1, <2>2, <2>3
<1>5. \A r \in Repo \ v.repos : v.arts[r] = {}
  BY <1>1, <1>2, <1>3 DEF Faithful
<1>6. \A r \in todo \ {q} : v.told[r] = NoOne
  BY <1>3 DEF Faithful
<1>7. \A r \in v.repos \ t.repos : v.told[r] # NoOne
  BY <1>1, <1>2, <1>3 DEF Faithful, WorkRows
<1>8. \A r \in v.repos : v.arts[r] = {} => v.told[r] = {} \/ t.arts[r] = {}
  BY <1>1, <1>2, <1>3 DEF Faithful, WorkRows
<1> QED BY <1>2, <1>4, <1>5, <1>6, <1>7, <1>8 DEF Faithful, v

\* One repository is pulled.
LEMMA PullInv ==
  ASSUME RegInv, NEW s \in Syncer, NEW q \in Repo, Pull(s, q)
  PROVE  RegInv'
<1> DEFINE r == [syncs[s] EXCEPT !.todo = @ \ {q}]
<1>1. /\ syncs[s] \in Sync /\ r \in Sync /\ r.pc = "pull" /\ r.view = syncs[s].view
      /\ r.todo = syncs[s].todo \ {q} /\ syncs' = [syncs EXCEPT ![s] = r]
      /\ writer = s /\ q \in syncs[s].todo
  BY SyncFacts DEF Pull, Sync, At
<1>2. UNCHANGED <<world, table, writer, procs, restarts, holding, live>>
  BY DEF Pull, leaseKept
<1>3. Faithful(work, table, syncs[s].view, syncs[s].todo)
  BY <1>1 DEF RegInv, WriterFaithful
<1>4. Faithful(work', table, r.view, r.todo)
  <2>1. PICK a \in SUBSET Artifact : work' \in {work, Upsert(work, q, a)}
    <3>1. remote[q] \in SUBSET Artifact
      BY DEF RegInv, RegTypeOK
    <3>2. Listings(q) \subseteq SUBSET Artifact
      BY <3>1 DEF Listings
    <3> QED BY <3>2 DEF Pull
  <2>2. CASE work' = work
    BY <1>1, <1>3, <2>2 DEF Faithful
  <2>3. CASE work' = Upsert(work, q, a)
    BY <1>1, <1>3, <2>3, UpsertFaithful DEF RegInv, RegTypeOK, Sync
  <2> QED BY <2>1, <2>2, <2>3
<1> HIDE DEF r
<1>5. syncs' \in [Syncer -> Sync] /\ \A u \in Syncer : syncs'[u] = IF u = s THEN r ELSE syncs[u]
  BY <1>1, SyncFacts
<1>6. RegTypeOK'
  <2>1. \A u \in Syncer : syncs'[u].pc = "pull" <=> u = writer
    BY <1>1, <1>5, SyncFacts
  <2>2. s # NoOne
    BY SyncFacts
  <2> QED BY <1>1, <1>2, <1>5, <2>1, <2>2 DEF RegInv, RegTypeOK, world, At
<1>7. WriterFaithful'
  BY <1>1, <1>2, <1>4, <1>5 DEF WriterFaithful
<1>8. OneKnown'
  <2>1. ASSUME NEW p \in Process, NEW k \in Slot, Active(p, k)' PROVE Active(p, k)
    BY <2>1, <1>1, <1>5, ThreadPlace DEF Active, Pull, At
  <2> QED BY <1>2, <2>1, OneKnownKept DEF RegInv
<1> QED BY <1>6, <1>7, <1>8 DEF RegInv

\* The writer commits.
LEMMA CommitInv ==
  ASSUME RegInv, NEW s \in Syncer, Commit(s)
  PROVE  RegInv'
<1> DEFINE r == Idle(Resting(s))
<1>1. /\ syncs[s].pc = "pull" /\ writer = s /\ EndsRound(s)
      /\ table' = [repos |-> work.repos, arts |-> work.arts] /\ work' = NoWork /\ writer' = NoOne
      /\ UNCHANGED <<world, procs, restarts>>
  BY SyncFacts DEF Commit, At
<1>2. /\ r \in Sync /\ r.pc \in {"wait", "none"} /\ (IsThread(s) => r.pc = "wait")
      /\ syncs' = [syncs EXCEPT ![s] = r] /\ holding' \subseteq Process /\ live' \subseteq holding'
  BY <1>1, RoundEnds
<1> HIDE DEF r
<1>3. syncs' \in [Syncer -> Sync] /\ \A u \in Syncer : syncs'[u] = IF u = s THEN r ELSE syncs[u]
  BY <1>2, SyncFacts
<1>4. RegTypeOK'
  <2>1. \A u \in Syncer : syncs'[u].pc # "pull" /\ u # NoOne
    BY <1>1, <1>2, <1>3, SyncFacts
  <2>2. table' \in Rows /\ \A q \in Repo \ table'.repos : table'.arts[q] = {}
    BY <1>1 DEF RegInv, WriterFaithful, Faithful, WorkRows, Rows
  <2> QED BY <1>1, <1>2, <1>3, <2>1, <2>2 DEF RegInv, RegTypeOK, world, At
<1>5. WriterFaithful'
  BY <1>1, SyncFacts DEF WriterFaithful
<1>6. OneKnown'
  <2>1. ASSUME NEW p \in Process, NEW k \in Slot, Active(p, k)' PROVE Active(p, k)
    BY <2>1, <1>1, <1>3, ThreadPlace DEF Active
  <2> QED BY <1>1, <2>1, OneKnownKept DEF RegInv
<1> QED BY <1>4, <1>5, <1>6 DEF RegInv

-----------------------------------------------------------------------------
\* A step of a restart that starts no thread: processes and restarts keep their types.
LEMMA RestartStepInv ==
  ASSUME RegInv, procs' \in [Process -> Proc], restarts' \in [Admin -> Restart], OneKnown',
         UNCHANGED <<world, data, syncs, holding, live>>
  PROVE  RegInv'
<1>1. RegTypeOK'
  BY DEF RegInv, RegTypeOK, world, data, At
<1>2. WriterFaithful'
  BY DEF RegInv, WriterFaithful, data
<1> QED BY <1>1, <1>2 DEF RegInv

\* A restart tells the old thread to stop.
LEMMA RestartBeginInv ==
  ASSUME RegInv, NEW p \in Process, NEW x \in Admin, RestartBegin(x, p)
  PROVE  RegInv'
<1> DEFINE k == procs[p].thread
           alive == k # NoOne /\ ~At(<<p, k>>, "none")
           other == \E y \in Admin : restarts[y].proc = p
           new == [pc |-> IF alive THEN "join" ELSE "start", proc |-> p,
                   old |-> IF alive THEN k ELSE NoOne]
<1>1. /\ procs \in [Process -> Proc] /\ restarts \in [Admin -> Restart]
      /\ procs[p] \in Proc /\ restarts[x].pc = "idle"
  BY DEF RegInv, RegTypeOK, RestartBegin
<1>2. /\ restarts' = [restarts EXCEPT ![x] = new]
      /\ procs' = [procs EXCEPT ![p].stop = @ \/ alive, ![p].raced = @ \/ other]
      /\ UNCHANGED <<world, data, syncs, holding, live>>
  BY DEF RestartBegin, leaseKept
<1>3. new \in Restart /\ new.proc = p /\ new.pc = (IF alive THEN "join" ELSE "start")
      /\ new.old = IF alive THEN k ELSE NoOne
  BY <1>1 DEF Restart, Proc
<1>4. procs' \in [Process -> Proc] /\ restarts' \in [Admin -> Restart]
  BY <1>1, <1>2, <1>3 DEF Proc
<1>5. /\ \A q \in Process : procs'[q].late = procs[q].late /\ procs'[q].thread = procs[q].thread
      /\ \A q \in Process \ {p} : procs'[q] = procs[q]
      /\ procs'[p].raced = (procs[p].raced \/ other)
      /\ \A y \in Admin : restarts'[y] = IF y = x THEN new ELSE restarts[y]
  BY <1>1, <1>2 DEF Proc
<1> HIDE DEF new
<1>6. OneKnown'
  <2>1. \A y \in Admin : restarts'[y].pc # "idle" => restarts'[y].proc \in Process
    BY <1>3, <1>5 DEF RegInv, OneKnown
  <2>2. ASSUME NEW q \in Process, ~procs'[q].late, ~procs'[q].raced, q # p PROVE Single(q)'
    <3>1. Single(q)
      BY <1>5, <2>2 DEF RegInv, OneKnown
    <3>2. \A y \in Admin : restarts'[y].proc = q => restarts'[y] = restarts[y]
      BY <1>3, <1>5, <2>2
    <3>3. \A j \in Slot : Active(q, j)' = Active(q, j)
      BY <1>2 DEF Active
    <3> QED BY <1>5, <3>1, <3>2, <3>3 DEF Single
  <2>3. ASSUME ~procs'[p].late, ~procs'[p].raced PROVE Single(p)'
    <3>1. Single(p) /\ ~other
      BY <1>5, <2>3 DEF RegInv, OneKnown
    <3>2. \A y \in Admin : restarts'[y].proc = p => y = x
      BY <1>5, <3>1
    <3>3. \A j \in Slot : Active(p, j)' = Active(p, j)
      BY <1>2 DEF Active
    <3>4. ~alive => \A j \in Slot : ~Active(p, j)
      BY <3>1, RegistryAssumption DEF Single, Active, At
    <3> QED BY <1>3, <1>5, <3>1, <3>2, <3>3, <3>4 DEF Single
  <2> QED BY <2>1, <2>2, <2>3 DEF OneKnown
<1> QED BY <1>2, <1>4, <1>6, RestartStepInv

\* A restart has waited: its thread has ended, or is given up.
LEMMA RestartJoinedInv ==
  ASSUME RegInv, NEW x \in Admin, RestartJoined(x)
  PROVE  RegInv'
<1> DEFINE p == restarts[x].proc
           over == At(<<p, restarts[x].old>>, "none")
<1>1. /\ procs \in [Process -> Proc] /\ restarts \in [Admin -> Restart]
      /\ restarts[x].pc = "join" /\ p \in Process /\ procs[p] \in Proc /\ restarts[x] \in Restart
  BY DEF RegInv, RegTypeOK, RestartJoined, OneKnown
<1>2. /\ procs' = [procs EXCEPT ![p].stop = FALSE, ![p].late = @ \/ ~over]
      /\ restarts' = [restarts EXCEPT ![x].pc = "start", ![x].old = NoOne]
      /\ UNCHANGED <<world, data, syncs, holding, live>>
  BY DEF RestartJoined, leaseKept
<1>3. procs' \in [Process -> Proc] /\ restarts' \in [Admin -> Restart]
  BY <1>1, <1>2 DEF Proc, Restart
<1>4. /\ \A q \in Process : procs'[q].raced = procs[q].raced /\ procs'[q].thread = procs[q].thread
      /\ \A q \in Process \ {p} : procs'[q] = procs[q]
      /\ procs'[p].late = (procs[p].late \/ ~over)
      /\ \A y \in Admin : restarts'[y].proc = restarts[y].proc
      /\ \A y \in Admin \ {x} : restarts'[y] = restarts[y]
      /\ restarts'[x].pc = "start"
  BY <1>1, <1>2 DEF Proc, Restart
<1>5. \A q \in Process, j \in Slot : Active(q, j)' = Active(q, j)
  BY <1>2 DEF Active
<1>6. OneKnown'
  <2>1. \A y \in Admin : restarts'[y].pc # "idle" => restarts'[y].proc \in Process
    BY <1>1, <1>4 DEF RegInv, OneKnown
  <2>2. ASSUME NEW q \in Process, ~procs'[q].late, ~procs'[q].raced PROVE Single(q)'
    <3>1. Single(q)
      BY <1>4, <2>2 DEF RegInv, OneKnown
    <3>2. q = p => \A j \in Slot : ~Active(q, j)
      BY <1>1, <1>4, <2>2, <3>1 DEF Single, Active, At
    <3> QED BY <1>4, <1>5, <3>1, <3>2 DEF Single
  <2> QED BY <2>1, <2>2 DEF OneKnown
<1> QED BY <1>2, <1>3, <1>6, RestartStepInv

\* A restart starts the new thread, or none.
LEMMA RestartEndInv ==
  ASSUME RegInv, NEW x \in Admin, NEW on \in BOOLEAN, RestartEnd(x, on)
  PROVE  RegInv'
<1> DEFINE p == restarts[x].proc
<1>1. /\ procs \in [Process -> Proc] /\ restarts \in [Admin -> Restart]
      /\ restarts[x].pc = "start" /\ restarts[x].proc = p /\ p \in Process /\ procs[p] \in Proc
  BY DEF RegInv, RegTypeOK, RestartEnd, OneKnown
<1>2. PICK j \in Slot \cup {NoOne} :
        /\ procs' = [procs EXCEPT ![p].stop = procs'[p].stop, ![p].thread = j]
        /\ procs'[p].stop \in BOOLEAN
        /\ \/ /\ j \in Slot /\ At(<<p, j>>, "none")
              /\ syncs' = [syncs EXCEPT ![<<p, j>>] = Idle("wait")]
           \/ j = NoOne /\ UNCHANGED syncs
  <2>1. CASE on
    <3>1. PICK j \in Slot : /\ At(<<p, j>>, "none")
                            /\ syncs' = [syncs EXCEPT ![<<p, j>>] = Idle("wait")]
                            /\ procs' = [procs EXCEPT ![p].stop = FALSE, ![p].thread = j]
      BY <2>1 DEF RestartEnd
    <3>2. procs'[p].stop = FALSE
      BY <1>1, <3>1 DEF Proc
    <3> QED BY <3>1, <3>2
  <2>2. CASE ~on
    <3>1. procs' = [procs EXCEPT ![p].thread = NoOne] /\ UNCHANGED syncs
      BY <2>2 DEF RestartEnd
    <3>2. procs'[p].stop = procs[p].stop /\ procs[p].stop \in BOOLEAN
      BY <1>1, <3>1 DEF Proc
    <3>3. procs' = [procs EXCEPT ![p].stop = procs'[p].stop, ![p].thread = NoOne]
      BY <1>1, <3>1, <3>2 DEF Proc
    <3> QED BY <3>1, <3>2, <3>3
  <2> QED BY <2>1, <2>2
<1>3. restarts' = [restarts EXCEPT ![x] = Idler] /\ UNCHANGED <<world, data, holding, live>>
  BY DEF RestartEnd, leaseKept
<1>4. Idler \in Restart /\ Idler.pc = "idle" /\ Idler.proc = NoOne
  BY DEF Idler, Restart
<1>5. /\ procs' \in [Process -> Proc] /\ restarts' \in [Admin -> Restart]
      /\ \A q \in Process \ {p} : procs'[q] = procs[q]
      /\ procs'[p].late = procs[p].late /\ procs'[p].raced = procs[p].raced /\ procs'[p].thread = j
      /\ \A y \in Admin : restarts'[y] = IF y = x THEN Idler ELSE restarts[y]
  BY <1>1, <1>2, <1>3, <1>4 DEF Proc
<1> HIDE DEF p
<1>6. Idle("wait") \in Sync /\ Idle("wait").pc = "wait"
  BY DEF Idle, Sync
<1>7. /\ syncs' \in [Syncer -> Sync]
      /\ \A s \in Syncer : syncs'[s] = IF j \in Slot /\ s = <<p, j>> THEN Idle("wait") ELSE syncs[s]
      /\ j \in Slot => syncs[<<p, j>>].pc = "none"
  BY <1>1, <1>2, <1>6, SyncFacts, ThreadPlace, RegistryAssumption DEF At, RegInv, RegTypeOK
<1>8. RegTypeOK'
  <2>1. \A s \in Syncer : At(s, "pull")' <=> At(s, "pull")
    BY <1>6, <1>7 DEF At
  <2> QED BY <1>3, <1>5, <1>7, <2>1 DEF RegInv, RegTypeOK, world, data
<1>9. WriterFaithful'
  <2> SUFFICES ASSUME NEW s \in Syncer, writer = s
      PROVE  Faithful(work, table, syncs'[s].view, syncs'[s].todo)
    BY <1>3 DEF WriterFaithful, data
  <2>1. syncs[s].pc = "pull"
    BY SyncFacts
  <2>2. syncs'[s] = syncs[s]
    BY <1>7, <2>1
  <2> QED BY <2>2 DEF RegInv, WriterFaithful
<1>10. OneKnown'
  <2>1. \A y \in Admin : restarts'[y].pc # "idle" => restarts'[y].proc \in Process
    BY <1>4, <1>5 DEF RegInv, OneKnown
  <2>2. ASSUME NEW q \in Process, ~procs'[q].late, ~procs'[q].raced PROVE Single(q)'
    <3>1. Single(q)
      BY <1>5, <2>2 DEF RegInv, OneKnown
    <3>2. \A y \in Admin : restarts'[y].proc = q => y # x /\ restarts'[y] = restarts[y]
      BY <1>4, <1>5, RegistryAssumption
    <3>3. CASE q # p
      <4>1. \A k \in Slot : Active(q, k)' = Active(q, k)
        BY <1>7, <3>3, ThreadPlace DEF Active
      <4> QED BY <1>5, <3>1, <3>2, <3>3, <4>1 DEF Single
    <3>4. CASE q = p
      <4>1. \A k \in Slot : ~Active(q, k)
        BY <1>1, <3>1, <3>4 DEF Single
      <4>2. \A k \in Slot : Active(q, k)' => k = j
        BY <1>7, <3>4, <4>1, ThreadPlace DEF Active
      <4>3. \A y \in Admin : restarts'[y].proc # q
        BY <1>1, <3>1, <3>2, <3>4 DEF Single
      <4> QED BY <1>5, <3>4, <4>2, <4>3 DEF Single
    <3> QED BY <3>3, <3>4
  <2> QED BY <2>1, <2>2 DEF OneKnown
<1> QED BY <1>8, <1>9, <1>10 DEF RegInv

\* A process crashes and starts again.
LEMMA CrashInv ==
  ASSUME RegInv, NEW p \in Process, Crash(p)
  PROVE  RegInv'
<1> DEFINE Mine == {p} \X Slot
           new(s) == Idle(IF s[2] = First THEN "wait" ELSE "none")
<1>1. \A s : new(s) \in Sync /\ new(s).pc = IF s[2] = First THEN "wait" ELSE "none"
  BY DEF Idle, Sync
<1>2. /\ syncs' = [s \in Syncer |-> IF s \notin Mine THEN syncs[s] ELSE new(s)]
      /\ procs' = [procs EXCEPT ![p] = Fresh]
      /\ restarts' = [x \in Admin |-> IF restarts[x].proc = p THEN Idler ELSE restarts[x]]
      /\ UNCHANGED <<world, table>>
  BY DEF Crash
<1> HIDE DEF new
<1>3. /\ syncs' \in [Syncer -> Sync]
      /\ \A s \in Syncer : syncs'[s] = IF s \notin Mine THEN syncs[s] ELSE new(s)
  BY <1>1, <1>2, SyncFacts
<1>4. /\ procs' \in [Process -> Proc] /\ procs \in [Process -> Proc] /\ Fresh.thread = First
      /\ restarts' \in [Admin -> Restart] /\ Idler.proc = NoOne /\ Idler.pc = "idle"
  BY <1>2, RegistryAssumption DEF RegInv, RegTypeOK, Proc, Fresh, Restart, Idler
<1>5. holding' \subseteq Process /\ live' \subseteq holding'
  BY LeaseKept DEF Crash, RegInv, RegTypeOK
<1>6. IF writer \in Mine THEN work' = NoWork /\ writer' = NoOne ELSE UNCHANGED <<work, writer>>
  BY DEF Crash
<1>7. \A s \in Syncer : s # NoOne
  BY SyncFacts
<1>8. \A s \in Syncer : At(s, "pull")' <=> writer' = s
  <2> SUFFICES ASSUME NEW s \in Syncer PROVE syncs'[s].pc = "pull" <=> writer' = s
    BY DEF At
  <2>1. CASE s \in Mine
    BY <1>1, <1>3, <1>6, <1>7, <2>1
  <2>2. CASE s \notin Mine
    BY <1>3, <1>6, <1>7, <2>2, SyncFacts
  <2> QED BY <2>1, <2>2
<1>9. RegTypeOK'
  BY <1>2, <1>3, <1>4, <1>5, <1>6, <1>8 DEF RegInv, RegTypeOK, world
<1>10. WriterFaithful'
  <2> SUFFICES ASSUME NEW s \in Syncer, writer' = s
      PROVE  Faithful(work', table, syncs'[s].view, syncs'[s].todo)
    BY <1>2 DEF WriterFaithful
  <2>1. writer \notin Mine /\ work' = work /\ writer = s
    BY <1>6, <1>7
  <2> QED BY <1>3, <2>1 DEF RegInv, WriterFaithful
<1>11. OneKnown'
  <2>1. \A x \in Admin : restarts'[x].pc # "idle" =>
          restarts'[x] = restarts[x] /\ restarts'[x].proc \in Process \ {p}
    BY <1>2, <1>4 DEF RegInv, OneKnown
  <2>2. \A x \in Admin : restarts'[x].proc \in Process =>
          restarts'[x] = restarts[x] /\ restarts'[x].proc # p
    BY <1>2, <1>4, RegistryAssumption
  <2>3. ASSUME NEW q \in Process, ~procs'[q].late, ~procs'[q].raced, q # p PROVE Single(q)'
    <3>1. procs'[q] = procs[q] /\ Single(q)
      BY <1>2, <1>4, <2>3 DEF RegInv, OneKnown
    <3>2. \A k \in Slot : Active(q, k)' = Active(q, k)
      BY <1>3, <2>3, ThreadPlace DEF Active
    <3> QED BY <2>2, <3>1, <3>2 DEF Single
  <2>4. Single(p)'
    <3>1. \A k \in Slot : Active(p, k)' => k = First
      BY <1>1, <1>3, ThreadPlace DEF Active
    <3>2. procs'[p].thread = First
      BY <1>2, <1>4
    <3> QED BY <2>2, <3>1, <3>2 DEF Single
  <2> QED BY <2>1, <2>3, <2>4 DEF OneKnown
<1> QED BY <1>9, <1>10, <1>11 DEF RegInv

\* CI, the registry and the leases.
LEMMA OutsideInv ==
  ASSUME RegInv,
         Change \/ (\E q \in Repo, a \in Answer : Fault(q, a)) \/ \E p \in Process : LeaseOver(p)
  PROVE  RegInv'
<1>1. mapping \subseteq Repo /\ remote \in [Repo -> SUBSET Artifact] /\ answers \in [Repo -> Answer]
      /\ holding \subseteq Process /\ live \subseteq holding
  BY DEF RegInv, RegTypeOK
<1>2. CASE Change
  BY <1>1, <1>2, WorldInv, LeaseKept DEF Change, leaseKept, world
<1>3. CASE \E q \in Repo, a \in Answer : Fault(q, a)
  BY <1>1, <1>3, WorldInv, LeaseKept DEF Fault, leaseKept, world
<1>4. CASE \E p \in Process : LeaseOver(p)
  BY <1>1, <1>4, WorldInv, LeaseKept DEF LeaseOver, world
<1> QED BY <1>2, <1>3, <1>4

-----------------------------------------------------------------------------
LEMMA RegInitInv == RegInit => RegInv
<1> SUFFICES ASSUME RegInit PROVE RegInv
  OBVIOUS
<1>1. /\ Idle("wait") \in Sync /\ Idle("none") \in Sync
      /\ Idle("wait").pc = "wait" /\ Idle("none").pc = "none"
  BY DEF Idle, Sync
<1>2. /\ syncs \in [Syncer -> Sync]
      /\ \A s \in Syncer : syncs[s] = IF s \in Process \X {First} THEN Idle("wait") ELSE Idle("none")
  BY <1>1 DEF RegInit
<1>3. \A s \in Syncer : s # NoOne
  BY RegistryAssumption
<1>4. RegTypeOK
  <2>1. procs \in [Process -> Proc] /\ restarts \in [Admin -> Restart] /\ remote \in [Repo -> SUBSET Artifact]
        /\ answers \in [Repo -> Answer] /\ mapping \subseteq Repo
    BY RegistryAssumption DEF RegInit, Proc, Fresh, Answer, Restart, Idler
  <2>2. table \in Rows /\ \A q \in Repo : table.arts[q] = {}
    BY DEF RegInit, Rows
  <2>3. \A s \in Syncer : ~At(s, "pull") /\ writer # s
    BY <1>1, <1>2, <1>3 DEF At, RegInit
  <2>4. holding = {} /\ live = {} /\ writer = NoOne /\ work = NoWork
    BY DEF RegInit, LeaseInit
  <2> QED BY <1>2, <2>1, <2>2, <2>3, <2>4 DEF RegTypeOK
<1>5. WriterFaithful
  BY <1>3 DEF WriterFaithful, RegInit
<1>6. OneKnown
  <2>1. \A x \in Admin : restarts[x].pc = "idle" /\ restarts[x].proc = NoOne
    BY DEF RegInit, Idler
  <2>2. \A p \in Process : procs[p].thread = First
    BY DEF RegInit, Fresh
  <2> QED BY <1>1, <1>2, <2>1, <2>2, ThreadPlace, RegistryAssumption DEF OneKnown, Single, Active
<1> QED BY <1>4, <1>5, <1>6 DEF RegInv

LEMMA RegNextInv == RegInv /\ [RegNext]_regVars => RegInv'
<1> SUFFICES ASSUME RegInv, [RegNext]_regVars PROVE RegInv'
  OBVIOUS
<1>1. ASSUME NEW s \in Syncer, Round(s) \/ NoMap(s) PROVE RegInv'
  BY <1>1, MapInv, CleanInv, PullInv, CommitInv DEF Round
<1>2. ASSUME NEW s \in Request, Ask(s) PROVE RegInv'
  BY <1>2, AskInv
<1>3. ASSUME NEW p \in Process, NEW k \in Slot, Wake(p, k) \/ Exit(p, k) PROVE RegInv'
  BY <1>3, WakeInv
<1>4. ASSUME NEW p \in Process, Crash(p) \/ \E x \in Admin : RestartBegin(x, p)
      PROVE RegInv'
  BY <1>4, RestartBeginInv, CrashInv
<1>7. ASSUME NEW x \in Admin, RestartJoined(x) \/ \E on \in BOOLEAN : RestartEnd(x, on)
      PROVE RegInv'
  BY <1>7, RestartJoinedInv, RestartEndInv
<1>5. CASE Change \/ (\E q \in Repo, a \in Answer : Fault(q, a)) \/ \E p \in Process : LeaseOver(p)
  BY <1>5, OutsideInv
<1>6. CASE UNCHANGED regVars
  BY <1>6, WorldInv DEF regVars, world, RegInv, RegTypeOK
<1> QED BY <1>1, <1>2, <1>3, <1>4, <1>5, <1>6, <1>7 DEF RegNext

LEMMA RegHolds == RegSpec => []RegInv
  BY RegInitInv, RegNextInv, PTL DEF RegSpec

\* Types, the rows of artifacts and the writer's exclusion (registry_service.py), for any
\* number of processes and repositories.
THEOREM RegTypes == RegSpec => []RegTypeOK
  BY RegHolds, PTL DEF RegInv

\* One thread synchronises per process, unless a restart gave one up or two overlapped
\* (registry_service.py:619-640), however many restarts and crashes there are.
THEOREM RegOneThread == RegSpec => []OneThread
<1>1. RegInv => OneThread
  BY DEF RegInv, OneKnown, Single, OneThread, Alive, Active, At
<1> QED BY <1>1, RegHolds, PTL

\* What a synchronisation commits is what it was told (registry_service.py, sync_repo
\* and sync_all), for any repositories, tags and answers.
THEOREM RegCommits == RegSpec => CommitsWhatItWasTold
<1> DEFINE P == \A s \in Syncer, r \in Repo :
       At(s, "pull") /\ ~At(s, "pull")' /\ table' # table =>
         /\ r \in table'.repos \ table.repos => work.told[r] # NoOne
         /\ r \in table'.repos /\ table'.arts[r] = {} => work.told[r] = {} \/ table.arts[r] = {}
         /\ \A x \in table.arts[r] \ table'.arts[r] :
              \/ r \notin syncs[s].view
              \/ work.told[r] \notin {NoOne, {}} /\ x.tag \notin Tags(work.told[r])
<1>1. RegInv /\ [RegNext]_regVars => P
  <2> SUFFICES ASSUME RegInv, [RegNext]_regVars, NEW s \in Syncer, NEW r \in Repo,
                      At(s, "pull"), table' # table
               PROVE  /\ r \in table'.repos \ table.repos => work.told[r] # NoOne
                      /\ r \in table'.repos /\ table'.arts[r] = {} => work.told[r] = {} \/ table.arts[r] = {}
                      /\ \A x \in table.arts[r] \ table'.arts[r] : Excused(work, syncs[s].view, r, x)
    BY DEF Excused
  <2>1. PICK u \in Syncer : Commit(u)
    BY DEF RegNext, regVars, data, Round, Map, NoMap, Clean, Locked, Pull, Ask, Wake, Exit,
           LeaseOver, RestartBegin, RestartJoined, RestartEnd, Crash, Fault, Change
  <2>2. u = s /\ writer = s
    BY <2>1, SyncFacts DEF Commit, At
  <2>3. Faithful(work, table, syncs[s].view, syncs[s].todo) /\ table'.repos = work.repos /\ table'.arts = work.arts
    BY <2>1, <2>2 DEF RegInv, WriterFaithful, Commit
  <2> QED BY <2>3 DEF Faithful
<1> QED BY <1>1, RegHolds, PTL DEF RegSpec, CommitsWhatItWasTold
=============================================================================
