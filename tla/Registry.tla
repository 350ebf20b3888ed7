------------------------------ MODULE Registry ------------------------------
(***************************************************************************)
(* backend/services/registry_service.py: the tables that mirror the image  *)
(* registry, and who keeps them up: in each process a background thread    *)
(* that can be restarted with another interval, the distributed lock that  *)
(* is to keep the threads of several processes apart, and requests that    *)
(* synchronise everything or one project at once.                          *)
(*                                                                         *)
(* A synchronisation is one transaction.  Its first write keeps every      *)
(* other one out until it commits (the writer lock of SQLite, the locks of *)
(* the scanning DELETE in InnoDB), so it works on a copy of the tables.    *)
(* The registry and the mapping of projects to repositories belong to      *)
(* other systems and change at any time.                                   *)
(***************************************************************************)
EXTENDS Lease, Naturals

CONSTANTS
  Repo,         \* the repositories of the projects: (project_name, repo_name)
  Tag, Digest,
  Slot,         \* places of the threads of a process that live at a time
  Request,      \* requests to POST /api/registry/sync
  Admin,        \* requests to PUT /api/registry/config
  NoOne,
  Starting,     \* the artifacts of each repository at first
  First,        \* the slot of the thread started with the process
  MaxEvents     \* bound of the model: changes of mapping and registry and of what
                \* it answers, restarts of threads, crashes

Process == Client
Artifact == [tag : Tag, digest : Digest]
Syncer == (Process \X Slot) \cup Request

ASSUME RegistryAssumption ==
  /\ NoOne \notin Slot \cup Syncer \cup Process /\ \A S \in SUBSET Artifact : S # NoOne
  /\ (Process \X Slot) \cap Request = {}
  /\ First \in Slot /\ Starting \in [Repo -> SUBSET Artifact]
  /\ MaxEvents \in Nat

Tags(S) == {x.tag : x \in S}

VARIABLES
  mapping,      \* the repositories CI maps to a project
  remote,       \* what each repository of the registry holds
  answers,      \* how the registry answers for it: "ok"; "part": with some of its
                \* pages; "empty": 404; "odd": not understood; "raises": access
                \* denied, or not there
  table,        \* the committed tables: rows of repositories, and their artifacts
  work,         \* the writer's copy, and what it was told
  writer,       \* who holds the write lock
  syncs,        \* the synchronisations and threads
  procs,        \* each process: _sync_stop, _sync_thread
  restarts,     \* the restarts under way
  events

world   == <<mapping, remote, answers>>
data    == <<table, work, writer>>
regVars == <<world, data, syncs, procs, restarts, events, holding, live>>

Answer == {"ok", "part", "empty", "odd", "raises"}
Rows == [repos : SUBSET Repo, arts : [Repo -> SUBSET Artifact]]
Untold == [r \in Repo |-> NoOne]
NoWork == [repos |-> {}, arts |-> [r \in Repo |-> {}], told |-> Untold]

\* pc of a thread: "none" (not started, or over), "wait", the steps of a round, "exit".
Sync == [pc : {"none", "wait", "map", "clean", "pull", "exit"},
         whole : BOOLEAN, view : SUBSET Repo, todo : SUBSET Repo]
Idle(pc) == [pc |-> pc, whole |-> TRUE, view |-> {}, todo |-> {}]

\* History: late, a restart has given its thread up; raced, two restarts overlapped.
Proc == [stop : BOOLEAN, thread : Slot \cup {NoOne}, late : BOOLEAN, raced : BOOLEAN]
Fresh == [stop |-> FALSE, thread |-> First, late |-> FALSE, raced |-> FALSE]

\* A restart waits in join for the thread old, or is about to start a new one.
Restart == [pc : {"idle", "join", "start"}, proc : Process \cup {NoOne}, old : Slot \cup {NoOne}]
Idler == [pc |-> "idle", proc |-> NoOne, old |-> NoOne]

RegInit ==
  /\ mapping = Repo
  /\ remote = Starting
  /\ answers = [r \in Repo |-> "ok"]
  /\ table = [repos |-> {}, arts |-> [r \in Repo |-> {}]]
  /\ work = NoWork /\ writer = NoOne
  /\ syncs = [s \in Syncer |-> Idle(IF s \in Process \X {First} THEN "wait" ELSE "none")]
  /\ procs = [p \in Process |-> Fresh]
  /\ restarts = [x \in Admin |-> Idler]
  /\ events = 0
  /\ LeaseInit

-----------------------------------------------------------------------------
At(s, pc)    == syncs[s].pc = pc
Goes(s, pc)  == syncs' = [syncs EXCEPT ![s].pc = pc]
IsThread(s)  == s \in Process \X Slot
leaseKept    == UNCHANGED <<holding, live>>
InRound(s)   == syncs[s].pc \in {"map", "clean", "pull"}
Resting(s)   == IF IsThread(s) THEN "wait" ELSE "none"

\* The end of a round.  The lock stays behind until its time is over, but nobody
\* works under it unless another thread of the process does.
EndsRound(s) ==
  /\ syncs' = [syncs EXCEPT ![s] = Idle(Resting(s))]
  /\ IF IsThread(s) /\ \A k \in Slot : ~InRound(<<s[1], k>>) \/ k = s[2]
     THEN Drop(s[1]) ELSE leaseKept

\* _sync_worker wakes: it has been told to stop, or it asks for the lock, which
\* another thread of its process may hold.
Wake(p, k) ==
  LET s == <<p, k>>
  IN  /\ At(s, "wait")
      /\ IF procs[p].stop
         THEN Goes(s, "exit") /\ leaseKept
         ELSE Goes(s, "map") /\ Grant(p)
      /\ UNCHANGED <<world, data, procs, restarts, events>>

\* ... and releases the lock of its process when it ends.
Exit(p, k) ==
  /\ At(<<p, k>>, "exit")
  /\ Goes(<<p, k>>, "none")
  /\ Drop(p)
  /\ UNCHANGED <<world, data, procs, restarts, events>>

LeaseOver(p) ==
  /\ p \in live
  /\ Expire({p})
  /\ UNCHANGED <<world, data, syncs, procs, restarts, events>>

\* POST /api/registry/sync
Ask(s) ==
  /\ At(s, "none")
  /\ \E whole \in BOOLEAN : syncs' = [syncs EXCEPT ![s] = [Idle("map") EXCEPT !.whole = whole]]
  /\ leaseKept /\ UNCHANGED <<world, data, procs, restarts, events>>

\* _get_ci_repos; for one project its repositories only.
Map(s) ==
  /\ At(s, "map")
  /\ \E todo \in SUBSET mapping :
       /\ syncs[s].whole => todo = mapping
       /\ ~syncs[s].whole => todo # {}
       /\ syncs' = [syncs EXCEPT ![s].pc = "clean", ![s].view = mapping, ![s].todo = todo]
  /\ leaseKept /\ UNCHANGED <<world, data, procs, restarts, events>>

\* CI is not there, or none of its repositories belongs to the project.
NoMap(s) ==
  /\ At(s, "map")
  /\ EndsRound(s)
  /\ UNCHANGED <<world, data, procs, restarts, events>>

\* The first writes: repositories no longer mapped go with their artifacts (a full
\* synchronisation only), and so do rows without artifacts.
Clean(s) ==
  /\ At(s, "clean") /\ writer = NoOne
  /\ writer' = s
  /\ LET kept   == IF syncs[s].whole THEN table.repos \cap syncs[s].view ELSE table.repos
         hollow == {r \in kept : table.arts[r] = {} /\ (syncs[s].whole \/ r \in syncs[s].todo)}
     IN  work' = [repos |-> kept \ hollow,
                  arts  |-> [r \in Repo |-> IF r \in kept THEN table.arts[r] ELSE {}],
                  told  |-> Untold]
  /\ Goes(s, "pull")
  /\ leaseKept /\ UNCHANGED <<world, table, procs, restarts, events>>

\* The wait for the write lock times out; the transaction is rolled back.
Locked(s) ==
  /\ At(s, "clean") /\ writer # NoOne
  /\ EndsRound(s)
  /\ UNCHANGED <<world, data, procs, restarts, events>>

\* Mutant of Upsert: tags that are gone are not deleted.
UpsertOnly(w, r, a) ==
  [repos |-> w.repos \cup {r},
   arts  |-> [w.arts EXCEPT ![r] = @ \cup a],
   told  |-> [w.told EXCEPT ![r] = a]]

\* Mutant of Upsert: the row is made before the registry has answered, and an
\* answer without tags counts.
UpsertEager(w, r, a) ==
  [repos |-> w.repos \cup {r},
   arts  |-> [w.arts EXCEPT ![r] = a],
   told  |-> [w.told EXCEPT ![r] = a]]

\* sync_repo, told what the repository holds: the row, an upsert of each artifact,
\* and the deletion of the tags that are gone, unless the answer has none.
Upsert(w, r, a) ==
  [repos |-> w.repos \cup {r},
   arts  |-> [w.arts EXCEPT ![r] = {x \in @ : a = {} \/ x.tag \in Tags(a)} \cup a],
   told  |-> [w.told EXCEPT ![r] = a]]

\* _fetch_all_tags: what the pages read hold.  One that is missing (404), not understood
\* or beyond TAGS_MAX_PAGES is left out and the rest returned as the whole; an entry that
\* moves to another page between two requests is left out as well.
Listings(r) ==
  CASE answers[r] = "ok"    -> {remote[r]}
    [] answers[r] = "part"  -> {a \in SUBSET remote[r] : a = {} => remote[r] = {}}
    [] answers[r] = "empty" -> {{}}
    [] OTHER                -> {}

\* sync_repo.  An answer that is not understood leaves the repository as it is.
Pull(s, r) ==
  /\ At(s, "pull") /\ r \in syncs[s].todo
  /\ \/ \E a \in Listings(r) : work' = Upsert(work, r, a)
     \/ answers[r] = "odd" /\ UNCHANGED work
  /\ syncs' = [syncs EXCEPT ![s].todo = @ \ {r}]
  /\ leaseKept /\ UNCHANGED <<world, table, writer, procs, restarts, events>>

\* The end: all are done, or one answer ended it.  What was written is committed in
\* either case.
Commit(s) ==
  /\ At(s, "pull")
  /\ syncs[s].todo = {} \/ \E r \in syncs[s].todo : answers[r] = "raises"
  /\ table' = [repos |-> work.repos, arts |-> work.arts]
  /\ work' = NoWork /\ writer' = NoOne
  /\ EndsRound(s)
  /\ UNCHANGED <<world, procs, restarts, events>>

-----------------------------------------------------------------------------
\* restart_background_sync, which takes no lock: requests run it in threads of their own.
\* A thread alive is told to stop and waited for.
RestartBegin(x, p) ==
  /\ events < MaxEvents /\ restarts[x].pc = "idle"
  /\ LET k     == procs[p].thread
         alive == k # NoOne /\ ~At(<<p, k>>, "none")
         other == \E y \in Admin : restarts[y].proc = p
     IN  /\ restarts' = [restarts EXCEPT ![x] =
              [pc |-> IF alive THEN "join" ELSE "start", proc |-> p,
               old |-> IF alive THEN k ELSE NoOne]]
         /\ procs' = [procs EXCEPT ![p].stop = @ \/ alive, ![p].raced = @ \/ other]
  /\ events' = events + 1
  /\ leaseKept /\ UNCHANGED <<world, data, syncs>>

\* Mutant of RestartJoined: it does not wait for the old thread.
JoinedAtOnce(x) ==
  /\ restarts[x].pc = "join"
  /\ procs' = [procs EXCEPT ![restarts[x].proc].stop = FALSE]
  /\ restarts' = [restarts EXCEPT ![x].pc = "start", ![x].old = NoOne]
  /\ leaseKept /\ UNCHANGED <<world, data, syncs, events>>

\* join(timeout=5) returns: the thread has ended, or is given up, unless it waits and
\* finds the flag.  The flag is cleared.
RestartJoined(x) ==
  /\ restarts[x].pc = "join"
  /\ LET p == restarts[x].proc
         k == <<p, restarts[x].old>>
     IN  /\ At(k, "wait") => ~procs[p].stop
         /\ procs' = [procs EXCEPT ![p].stop = FALSE, ![p].late = @ \/ ~At(k, "none")]
  /\ restarts' = [restarts EXCEPT ![x].pc = "start", ![x].old = NoOne]
  /\ leaseKept /\ UNCHANGED <<world, data, syncs, events>>

\* start_background_sync, or, with the interval 0, none is left to know of.
RestartEnd(x, on) ==
  /\ restarts[x].pc = "start"
  /\ LET p == restarts[x].proc IN
       \/ /\ on
          /\ \E j \in Slot :
               /\ At(<<p, j>>, "none") /\ \A y \in Admin : restarts[y].proc = p => restarts[y].old # j
               /\ syncs' = [syncs EXCEPT ![<<p, j>>] = Idle("wait")]
               /\ procs' = [procs EXCEPT ![p].stop = FALSE, ![p].thread = j]
       \/ /\ ~on
          /\ procs' = [procs EXCEPT ![p].thread = NoOne]
          /\ UNCHANGED syncs
  /\ restarts' = [restarts EXCEPT ![x] = Idler]
  /\ leaseKept /\ UNCHANGED <<world, data, events>>

\* A process dies and is started again; what it was writing is rolled back.
Crash(p) ==
  /\ events < MaxEvents
  /\ events' = events + 1
  /\ syncs' = [s \in Syncer |->
       IF s \notin {p} \X Slot THEN syncs[s]
       ELSE Idle(IF s[2] = First THEN "wait" ELSE "none")]
  /\ procs' = [procs EXCEPT ![p] = Fresh]
  /\ restarts' = [x \in Admin |-> IF restarts[x].proc = p THEN Idler ELSE restarts[x]]
  /\ IF writer \in {p} \X Slot THEN work' = NoWork /\ writer' = NoOne ELSE UNCHANGED <<work, writer>>
  /\ Drop(p)
  /\ UNCHANGED <<world, table>>

\* CI and the registry.
Change ==
  /\ events < MaxEvents
  /\ events' = events + 1
  /\ \/ /\ \E r \in Repo : mapping' = IF r \in mapping THEN mapping \ {r} ELSE mapping \cup {r}
        /\ UNCHANGED remote
     \/ /\ \E r \in Repo, x \in Artifact :
             remote' = [remote EXCEPT ![r] =
               IF x \in @ THEN @ \ {x} ELSE {y \in @ : y.tag # x.tag} \cup {x}]
        /\ UNCHANGED mapping
  /\ leaseKept /\ UNCHANGED <<answers, data, syncs, procs, restarts>>

Fault(r, a) ==
  /\ answers[r] # a
  /\ a # "ok" => events < MaxEvents
  /\ answers' = [answers EXCEPT ![r] = a]
  /\ events' = events + (IF a = "ok" THEN 0 ELSE 1)
  /\ leaseKept /\ UNCHANGED <<mapping, remote, data, syncs, procs, restarts>>

Round(s) ==
  \/ Map(s) \/ Clean(s) \/ Locked(s) \/ Commit(s)
  \/ \E r \in Repo : Pull(s, r)

RegNext ==
  \/ \E s \in Syncer : Round(s) \/ NoMap(s)
  \/ \E s \in Request : Ask(s)
  \/ \E p \in Process :
       \/ \E k \in Slot : Wake(p, k) \/ Exit(p, k)
       \/ LeaseOver(p) \/ Crash(p)
  \/ \E x \in Admin :
       \/ \E p \in Process : RestartBegin(x, p)
       \/ RestartJoined(x)
       \/ \E on \in BOOLEAN : RestartEnd(x, on)
  \/ \E r \in Repo, a \in Answer : Fault(r, a)
  \/ Change

RegSpec == RegInit /\ [][RegNext]_regVars

\* Threads go on with their rounds; CI answers and the write lock is got time and
\* again, and some thread that waits gets the lease; leases run out.
RegFairness ==
  /\ SF_regVars(\E p \in Process, k \in Slot : Wake(p, k))
  /\ SF_regVars(\E s \in Process \X Slot : Map(s))
  /\ SF_regVars(\E s \in Process \X Slot : Clean(s))
  /\ WF_regVars(\E s \in Syncer : Commit(s) \/ \E r \in Repo : Pull(s, r))
  /\ WF_regVars(\E p \in Process : LeaseOver(p))

-----------------------------------------------------------------------------
\* Types; artifacts belong to a row; only the writer has uncommitted rows.
RegTypeOK ==
  /\ mapping \subseteq Repo /\ remote \in [Repo -> SUBSET Artifact]
  /\ answers \in [Repo -> Answer]
  /\ table \in Rows /\ \A r \in Repo \ table.repos : table.arts[r] = {}
  /\ writer \in Syncer \cup {NoOne} /\ (writer = NoOne => work = NoWork)
  /\ syncs \in [Syncer -> Sync] /\ procs \in [Process -> Proc] /\ restarts \in [Admin -> Restart]
  /\ \A s \in Syncer : At(s, "pull") <=> writer = s
  /\ holding \subseteq Process /\ live \subseteq holding

\* What a synchronisation commits is what it was told: a row without artifacts is one
\* whose repository answered with none ("0 Tags" rows are not left by failures), an
\* artifact disappears when CI no longer maps its repository or the answer listed others
\* and not its tag, never over an empty, failed or refused answer.  An answer that lost
\* pages counts as one (NoPageLost).
CommitsWhatItWasTold ==
  [][\A s \in Syncer, r \in Repo :
       At(s, "pull") /\ ~At(s, "pull")' /\ table' # table =>
         /\ r \in table'.repos \ table.repos => work.told[r] # NoOne
         /\ r \in table'.repos /\ table'.arts[r] = {} => work.told[r] = {} \/ table.arts[r] = {}
         /\ \A x \in table.arts[r] \ table'.arts[r] :
              \/ r \notin syncs[s].view
              \/ work.told[r] \notin {NoOne, {}} /\ x.tag \notin Tags(work.told[r])]_regVars

\* "No page is lost silently" (registry_provider.py:226): what the registry has is not
\* deleted for want of the page that lists it.  Violated: a page that is not found or not
\* understood is skipped, and its tags are deleted.
NoPageLost ==
  [][\A s \in Syncer, r \in Repo :
       At(s, "pull") /\ r \in syncs[s].todo \ syncs'[s].todo =>
         \A x \in work.arts[r] : x.tag \in Tags(remote[r]) => x \in work'.arts[r]]_regVars

\* One thread synchronises per process, unless a restart gave up a thread that had not
\* ended within five seconds, or two restarts overlapped.
Alive(p) == {k \in Slot : ~At(<<p, k>>, "none")}
OneThread ==
  \A p \in Process : procs[p].late \/ procs[p].raced \/ \A j, k \in Alive(p) : j = k

\* The tables come to agree with the registry, whatever crashed, timed out or was
\* refused before: they have its tags and its artifacts, and besides only artifacts that a
\* tag stood for earlier.  That is when CI, registry and settings stay as they are, a
\* thread is left that synchronises, which no two restarts had a hand in, no request keeps
\* the write lock from it, and every mapped repository answers in full.
Agrees(r) ==
  IF r \in mapping
  THEN remote[r] # {} =>
         remote[r] \subseteq table.arts[r] /\ Tags(table.arts[r]) = Tags(remote[r])
  ELSE table.arts[r] = {}
Working(p) ==
  /\ procs[p].thread # NoOne /\ ~procs[p].raced
  /\ \A x \in Admin : restarts[x].proc # p
Undisturbed ==
  /\ \E p \in Process : Working(p)
  /\ \A r \in mapping : answers[r] = "ok"
  /\ \A s \in Request : At(s, "none")
Converges == <>[]Undisturbed => <>[](\A r \in Repo : Agrees(r))

\* "Aligned with the source of truth" (registry_service.py:224): what is gone from the
\* registry goes from the tables.  Violated: rows are found by tag and digest and deleted
\* by tag, so that a tag pushed anew keeps the row of its old digest.
TableIsRegistry ==
  <>[]Undisturbed =>
    <>[](\A r \in mapping : remote[r] # {} => table.arts[r] = remote[r])

\* "Periodic synchronisation is off" is the answer to the interval 0
\* (routers/registry.py:142): from then on no thread of the process starts a round.
\* Violated: a thread given up in its round goes on when the flag is cleared.
OffIsOff ==
  [][\A p \in Process, k \in Slot :
       At(<<p, k>>, "wait") /\ At(<<p, k>>, "map")' => procs[p].thread # NoOne]_regVars
=============================================================================
