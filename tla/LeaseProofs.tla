----------------------------- MODULE LeaseProofs -----------------------------
(***************************************************************************)
(* The lease of the distributed lock: DLock implements it, for any         *)
(* processes, time to live and skew, and the schedulers that use it        *)
(* execute only what is due.                                               *)
(*                                                                         *)
(* LiveOwns is not inductive: it needs to know that a process about to     *)
(* replace the row found its own value or one that was stale by its clock, *)
(* that clocks are right up to MaxSkew, and that a holder's stamp is not   *)
(* older than its look.  ClearedIsLeft is about the moment of a claim: it  *)
(* needs to know, as long as nothing went wrong, that one thread is in a   *)
(* round, that what it has to do is due, and who executes what runs.       *)
(***************************************************************************)
EXTENDS DLock, Scheduler, TLAPS

\* What a process's local state says of the moment it looked.
Looked(p) ==
  /\ At(p, "inserting") \/ At(p, "replacing") \/ At(p, "held") =>
       /\ clients[p].since <= now
       /\ clients[p].since - MaxSkew <= clients[p].clock
       /\ clients[p].clock <= clients[p].since + MaxSkew
  /\ At(p, "inserting") => clients[p].seen = NoRow
  /\ At(p, "replacing") => MayReplace(p, clients[p].seen, clients[p].clock)

LockInv == /\ LockTypeOK
           /\ \A p \in Process : Looked(p)
           /\ LiveOwns

-----------------------------------------------------------------------------
\* A process replaced by another state that is sound by itself leaves the
\* others as they were.
LEMMA SetClient ==
  ASSUME LockInv, NEW p \in Process, NEW c \in ClientState, now' = now,
         clients' = [clients EXCEPT ![p] = c]
  PROVE  /\ clients' \in [Process -> ClientState]
         /\ clients'[p] = c
         /\ \A q \in Process \ {p} : clients'[q] = clients[q] /\ Looked(q)'
  BY DEF LockInv, LockTypeOK, Looked, At, MayReplace

\* A process that gives up keeps the invariant if the row is as it was, or no
\* live process but itself is concerned.
LEMMA QuitInv ==
  ASSUME LockInv, NEW p \in Process, NEW pc \in {"idle", "gone"}, Quit(p, pc),
         now' = now, lock' \in Value,
         \A q \in Live \ {p} : lock' = lock
  PROVE  LockInv'
<1> DEFINE c == [NewClient EXCEPT !.pc = pc]
<1>1. c \in ClientState /\ c.pc = pc
  BY LockAssumption DEF NewClient, ClientState, NoRow, Value, Clock
<1>2. clients' = [clients EXCEPT ![p] = c]
  BY DEF Quit
<1> HIDE DEF c
<1>3. /\ clients' \in [Process -> ClientState]
      /\ clients'[p] = c
      /\ \A q \in Process \ {p} : clients'[q] = clients[q] /\ Looked(q)'
  BY <1>1, <1>2, SetClient
<1>4. Looked(p)'
  BY <1>1, <1>3 DEF Looked, At
<1>5. LiveOwns'
  BY <1>1, <1>3 DEF LiveOwns, Live, Holding, At, LockInv
<1> QED BY <1>3, <1>4, <1>5 DEF LockInv, LockTypeOK

\* A live lease is never stale by the clock of a process about to replace it.
LEMMA LiveKeepsOut ==
  ASSUME LockInv, NEW p \in Process, At(p, "replacing"), lock = clients[p].seen
  PROVE  Live \subseteq {p}
<1> SUFFICES ASSUME NEW q \in Live, q # p PROVE FALSE
  OBVIOUS
<1>1. /\ q \in Process /\ At(q, "held")
      /\ now < clients[q].since + TTL - 2 * MaxSkew
      /\ lock = [owner |-> q, stamp |-> clients[q].clock]
  BY DEF Live, Holding, LockInv, LiveOwns
<1>2. Looked(p) /\ Looked(q)
  BY <1>1 DEF LockInv
<1>3. /\ clients[p].clock \in Int /\ clients[q].clock \in Int
      /\ clients[p].since \in Int /\ clients[q].since \in Int /\ now \in Int
  BY <1>1 DEF LockInv, LockTypeOK, ClientState, Clock
<1>4. clients[p].clock - clients[q].clock >= TTL
  <2>1. MayReplace(p, lock, clients[p].clock)
    BY <1>2 DEF Looked
  <2>2. lock.owner = q /\ lock.stamp = clients[q].clock
    BY <1>1
  <2> QED BY <2>1, <2>2 DEF MayReplace
<1>5. clients[p].clock <= now + MaxSkew /\ clients[q].since - MaxSkew <= clients[q].clock
  BY <1>1, <1>2, <1>3, LockAssumption DEF Looked
<1> QED BY <1>1, <1>2, <1>3, <1>4, <1>5, LockAssumption

\* Where there is no row there is no live lease.
LEMMA NoRowNoLease ==
  ASSUME LockInv, lock = NoRow
  PROVE  Live = {}
  BY LockAssumption DEF LockInv, LiveOwns, Live, Holding, NoRow

\* A process whose value is written while nobody else is live keeps the
\* invariant, whether it enters or gives up.
LEMMA EnterInv ==
  ASSUME LockInv, NEW p \in Process, At(p, "inserting") \/ At(p, "replacing"),
         Live \subseteq {p}, Hold(p), now' = now,
         lock' = [owner |-> p, stamp |-> clients[p].clock]
  PROVE  LockInv'
<1> DEFINE c == [clients[p] EXCEPT !.pc = "held", !.seen = NoRow]
<1>1. /\ clients[p] \in ClientState /\ clients \in [Process -> ClientState]
  BY DEF LockInv, LockTypeOK
<1>2. /\ c \in ClientState /\ c.pc = "held" /\ c.seen = NoRow
      /\ c.clock = clients[p].clock /\ c.since = clients[p].since
  <2>1. NoRow \in Value
    BY LockAssumption DEF NoRow, Value, Clock
  <2> HIDE DEF NoRow
  <2> QED BY <1>1, <2>1 DEF ClientState
<1>3. clients' = [clients EXCEPT ![p] = c]
  BY <1>1 DEF Hold
<1> HIDE DEF c
<1>4. /\ clients' \in [Process -> ClientState]
      /\ clients'[p] = c
      /\ \A q \in Process \ {p} : clients'[q] = clients[q] /\ Looked(q)'
  BY <1>2, <1>3, SetClient
<1>5. Looked(p)'
  BY <1>2, <1>4 DEF Looked, At, LockInv
<1>6. lock' \in Value
  BY <1>1 DEF ClientState, Value
<1>7. LiveOwns'
  BY <1>2, <1>4 DEF LiveOwns, Live, Holding, At
<1> QED BY <1>4, <1>5, <1>6, <1>7 DEF LockInv, LockTypeOK

\* A process that found the lock free or replaceable knows what it may do.
LEMMA LookInv ==
  ASSUME LockInv, NEW p \in Process, Look(p)
  PROVE  LockInv'
<1>1. PICK t \in Clock :
        /\ now - MaxSkew <= t /\ t <= now + MaxSkew
        /\ lock = NoRow \/ MayReplace(p, lock, t)
        /\ clients' = [clients EXCEPT ![p] =
             [pc |-> IF lock = NoRow THEN "inserting" ELSE "replacing",
              seen |-> lock, clock |-> t, since |-> now]]
  BY DEF Look
<1> DEFINE c == [pc |-> IF lock = NoRow THEN "inserting" ELSE "replacing",
                 seen |-> lock, clock |-> t, since |-> now]
<1>2. c \in ClientState
  BY DEF ClientState, LockInv, LockTypeOK
<1>3. /\ clients' \in [Process -> ClientState]
      /\ clients'[p] = c
      /\ \A q \in Process \ {p} : clients'[q] = clients[q] /\ Looked(q)'
  <2> HIDE DEF c
  <2> QED BY <1>1, <1>2, SetClient DEF Look, c
<1>4. now \in Int /\ now' = now /\ lock' = lock
  BY DEF Look, LockInv, LockTypeOK
<1>5. Looked(p)'
  <2>1. CASE lock = NoRow
    BY <2>1, <1>1, <1>3, <1>4, LockAssumption DEF Looked, At, Clock
  <2>2. CASE lock # NoRow
    BY <2>2, <1>1, <1>3, <1>4, LockAssumption DEF Looked, At, MayReplace, Clock
  <2> QED BY <2>1, <2>2
<1>6. LiveOwns'
  BY <1>3, <1>4 DEF LiveOwns, Live, Holding, At, LockInv
<1> QED BY <1>2, <1>3, <1>4, <1>5, <1>6 DEF LockInv, LockTypeOK

\* As time passes leases only end.
LEMMA TickInv ==
  ASSUME LockInv, Tick
  PROVE  LockInv' /\ Live' \subseteq Live /\ Holding' = Holding
<1>1. now \in 0..MaxTime /\ now' = now + 1 /\ now' \in 0..MaxTime /\ MaxTime \in Int
  BY LockAssumption DEF Tick, LockInv, LockTypeOK
<1>2. lock' = lock /\ clients' = clients
  BY DEF Tick
<1>3. \A p \in Process : clients[p].since \in Int
  <2>1. \A p \in Process : clients[p] \in ClientState
    BY DEF LockInv, LockTypeOK
  <2>2. \A p \in Process : clients[p].since \in 0..MaxTime
    BY <2>1 DEF ClientState
  <2>3. \A n \in 0..MaxTime : n \in Int
    OBVIOUS
  <2> QED BY ONLY <2>2, <2>3
<1>4. \A p \in Process : Looked(p)'
  BY <1>1, <1>2, <1>3 DEF Looked, At, LockInv, MayReplace
<1>5. Holding' = Holding
  BY <1>2 DEF Holding, At
<1>6. Live' \subseteq Live
  BY <1>1, <1>2, <1>3, <1>5, LockAssumption DEF Live, Holding
<1>7. LiveOwns'
  BY <1>2, <1>6 DEF LiveOwns, LockInv
<1> QED BY <1>1, <1>2, <1>4, <1>5, <1>6, <1>7 DEF LockInv, LockTypeOK

-----------------------------------------------------------------------------
\* What the steps are as steps of the lease: entering is a grant while nobody
\* else is live, giving up is a drop, and the rest changes no lease or lets
\* leases end.
Enters(p) ==
  /\ At(p, "inserting") \/ At(p, "replacing")
  /\ Live \subseteq {p}
  /\ Hold(p)
  /\ now' = now
  /\ lock' = [owner |-> p, stamp |-> clients[p].clock]
Quits(p) ==
  /\ \E pc \in {"idle", "gone"} : Quit(p, pc)
  /\ now' = now
  /\ lock' \in Value
  /\ \A q \in Live \ {p} : lock' = lock

\* acquire, the end of a round and a crash each do one of the two.
LEMMA ClientSteps ==
  ASSUME LockInv, NEW p \in Process,
         \/ Insert(p) \/ Replace(p) \/ AcquireFails(p)
         \/ EndRound(p) \/ Release(p) \/ Crash(p)
  PROVE  Enters(p) \/ Quits(p)
<1> DEFINE new == [owner |-> p, stamp |-> clients[p].clock]
<1>1. lock \in Value /\ new \in Value /\ NoRow \in Value
  BY LockAssumption DEF LockInv, LockTypeOK, ClientState, Value, NoRow, Clock
<1>2. At(p, "inserting") /\ lock = NoRow => Live \subseteq {p}
  BY NoRowNoLease
<1>3. At(p, "replacing") /\ lock = clients[p].seen => Live \subseteq {p}
  BY LiveKeepsOut
<1>4. At(p, "inserting") => clients[p].seen = NoRow
  BY DEF LockInv, Looked
<1>5. CASE Insert(p)
  BY <1>1, <1>2, <1>5 DEF Insert, Enters, Quits
<1>6. CASE Replace(p)
  BY <1>1, <1>3, <1>6 DEF Replace, Enters, Quits
<1>7. CASE AcquireFails(p)
  <2>1. CASE UNCHANGED lock
    BY <1>1, <1>7, <2>1 DEF AcquireFails, Quits
  <2>2. CASE lock = clients[p].seen /\ lock' = new
    BY <1>1, <1>2, <1>3, <1>4, <1>7, <2>2 DEF AcquireFails, Quits
  <2> QED BY <1>7, <2>1, <2>2 DEF AcquireFails
<1>8. CASE EndRound(p) \/ Crash(p)
  BY <1>1, <1>8 DEF EndRound, Crash, Quits
<1>9. CASE Release(p)
  <2>1. ASSUME NEW q \in Live \ {p} PROVE lock.owner = q
    BY <2>1 DEF LockInv, LiveOwns
  <2>2. \A q \in Live \ {p} : lock' = lock
    BY <1>9, <2>1 DEF Release
  <2> QED BY <1>1, <1>9, <2>2 DEF Release, Quits
<1> QED BY <1>5, <1>6, <1>7, <1>8, <1>9

\* Every step of dlock.py keeps the invariant.
LEMMA LockStep == LockInv /\ [Next]_lockVars => LockInv'
<1> SUFFICES ASSUME LockInv, [Next]_lockVars PROVE LockInv'
  OBVIOUS
<1>1. CASE UNCHANGED lockVars
  BY <1>1 DEF lockVars, LockInv, LockTypeOK, Looked, LiveOwns, Live, Holding, At, MayReplace
<1>2. CASE Tick
  BY <1>2, TickInv
<1>3. ASSUME NEW p \in Process, Look(p) PROVE LockInv'
  BY <1>3, LookInv
<1>4. ASSUME NEW p \in Process,
             \/ Insert(p) \/ Replace(p) \/ AcquireFails(p)
             \/ EndRound(p) \/ Release(p) \/ Crash(p)
      PROVE  LockInv'
  <2>1. CASE Enters(p)
    BY <2>1, EnterInv DEF Enters
  <2>2. CASE Quits(p)
    BY <2>2, QuitInv DEF Quits
  <2> QED BY <1>4, <2>1, <2>2, ClientSteps
<1> QED BY <1>1, <1>2, <1>3, <1>4 DEF Next

\* It holds of an empty table.
LEMMA LockInit == Init => LockInv
<1> SUFFICES ASSUME Init PROVE LockInv
  OBVIOUS
<1>1. LockTypeOK
  BY LockAssumption DEF Init, LockTypeOK, NewClient, NoRow, ClientState, Value, Clock
<1>2. \A p \in Process : Looked(p)
  BY DEF Init, Looked, At, NewClient
<1>3. LiveOwns
  BY DEF Init, LiveOwns, Live, Holding, At, NewClient
<1> QED BY <1>1, <1>2, <1>3 DEF LockInv

\* In every state the row backs the live leases, each of which saw what it had
\* to see.
THEOREM LockSafety == Spec => []LockInv
  BY LockInit, LockStep, PTL DEF Spec

\* The row and the processes are well typed: a stamp is a clock that was read.
THEOREM LockTypes == Spec => []LockTypeOK
<1>1. LockInv => LockTypeOK
  BY DEF LockInv
<1> QED BY <1>1, LockSafety, PTL

\* A live lease is backed by the row.
THEOREM LockLiveOwns == Spec => []LiveOwns
<1>1. LockInv => LiveOwns
  BY DEF LockInv
<1> QED BY <1>1, LockSafety, PTL

\* A step of a process is a step of the lease.
LEMMA LeaseStep ==
  ASSUME LockInv, [Next]_lockVars
  PROVE  [LeaseOf!LeaseNext]_<<Holding, Live>>
<1>1. clients \in [Process -> ClientState]
  BY DEF LockInv, LockTypeOK
<1>2. CASE UNCHANGED lockVars
  BY <1>2 DEF lockVars, Holding, Live, At
<1>3. CASE Tick
  <2>1. Live' \subseteq Live /\ Holding' = Holding
    BY <1>3, TickInv
  <2>2. Live \ Live' \in SUBSET Process
    BY DEF Live, Holding
  <2>3. LeaseOf!Expire(Live \ Live')
    BY <2>1 DEF LeaseOf!Expire
  <2> QED BY <2>2, <2>3 DEF LeaseOf!LeaseNext
<1>4. ASSUME NEW p \in Process, Look(p) PROVE [LeaseOf!LeaseNext]_<<Holding, Live>>
  <2>1. \A q \in Process : (At(q, "held"))' <=> At(q, "held")
    BY <1>1, <1>4 DEF Look, At
  <2>2. \A q \in Process : At(q, "held") => clients'[q] = clients[q]
    BY <1>1, <1>4 DEF Look, At
  <2>3. Holding' = Holding /\ Live' = Live
    BY <1>4, <2>1, <2>2 DEF Holding, Live, Look
  <2> QED BY <2>3
<1>5. ASSUME NEW p \in Process, Enters(p) PROVE LeaseOf!Grant(p)
  <2>1. \A q \in Process : (At(q, "held"))' <=> (At(q, "held") \/ q = p)
    BY <1>1, <1>5 DEF Enters, Hold, At
  <2>2. \A q \in Process \ {p} : clients'[q] = clients[q]
    BY <1>1, <1>5 DEF Enters, Hold
  <2>3. Holding' = Holding \cup {p}
    BY <2>1 DEF Holding
  <2>4. Live' \subseteq {p}
    BY <1>5, <2>1, <2>2 DEF Enters, Live, Holding
  <2> QED BY <1>5, <2>3, <2>4 DEF LeaseOf!Grant, Enters
<1>6. ASSUME NEW p \in Process, Quits(p) PROVE LeaseOf!Drop(p)
  <2>1. \A q \in Process : (At(q, "held"))' <=> (At(q, "held") /\ q # p)
    BY <1>1, <1>6 DEF Quits, Quit, At, NewClient
  <2>2. \A q \in Process \ {p} : clients'[q] = clients[q]
    BY <1>1, <1>6 DEF Quits, Quit
  <2>3. Holding' = Holding \ {p} /\ Live' = Live \ {p}
    BY <1>6, <2>1, <2>2 DEF Quits, Live, Holding
  <2> QED BY <2>3 DEF LeaseOf!Drop
<1> QED BY <1>2, <1>3, <1>4, <1>5, <1>6, ClientSteps DEF Next, LeaseOf!LeaseNext

\* dlock.py implements the lease, whatever the processes, the time to live and
\* the difference of their clocks: while one is live nobody else is let in.
THEOREM LockImplementsLease == Spec => ImplementsLease
<1>1. Init => LeaseOf!LeaseInit
  BY DEF Init, LeaseOf!LeaseInit, Holding, Live, At, NewClient
<1>2. LockInv /\ [Next]_lockVars => [LeaseOf!LeaseNext]_<<Holding, Live>>
  BY LeaseStep
<1>3. LeaseOf!leaseVars = <<Holding, Live>>
  BY DEF LeaseOf!leaseVars
<1> QED
  BY <1>1, <1>2, <1>3, LockSafety, PTL DEF Spec, ImplementsLease, LeaseOf!LeaseSpec, LeaseOf!leaseVars

-----------------------------------------------------------------------------
\* The scheduler, which works under the lease.

\* The ticket a thread has in hand is one, and is no longer to be done.
InHand == \A c \in Client :
  threads[c].pc \in {"claim", "start", "run", "clear"} =>
    Cur(c) \in Approval /\ Cur(c) \notin threads[c].todo

\* As long as nothing goes wrong one thread is in a round, under a live lease ...
OneInRound ==
  /\ \A c \in Client : ~Doing(c, "wait") => c \in live
  /\ \A c, d \in live : c = d

\* ... what it has to do and is about to claim is due, and it executes what it claimed ...
RoundIsDueFor(c) ==
  /\ ~Doing(c, "turn") /\ ~Doing(c, "claim") /\ ~Doing(c, "start") /\ ~Doing(c, "run")
     /\ ~Doing(c, "clear") => threads[c].todo = {}
  /\ \A a \in threads[c].todo : schedule[a] = "due" /\ tickets[a].st # "none"
  /\ Doing(c, "claim") => schedule[Cur(c)] = "due" /\ tickets[Cur(c)].st # "none"
  /\ Doing(c, "start") => tickets[Cur(c)].st = "deploying" /\ Cur(c) \notin hands
  /\ Doing(c, "run") => /\ tickets[Cur(c)].st = "deploying"
                        /\ records[Cur(c)] = [status |-> "running", runner |-> c]
RoundIsDue == \A c \in Client : RoundIsDueFor(c)

\* ... and what runs is that, or is run by hand.
RunnersKnown == \A a \in Approval :
  /\ a \in hands => /\ tickets[a].st = "deploying"
                    /\ records[a] = [status |-> "running", runner |-> "hand"]
  /\ Running(a) => \/ a \in hands
                   \/ \E c \in Client : Doing(c, "run") /\ Cur(c) = a

Calm == OneInRound /\ RoundIsDue /\ RunnersKnown
SchedInv == SchedTypeOK /\ InHand /\ (mishaps = 0 => Calm)

-----------------------------------------------------------------------------
\* What the statements on tickets leave a thread that is in a round: a ticket that
\* is filed stays so, and only its execution moves one that is deploying.
Undisturbed(S) ==
  /\ tickets' \in [Approval -> Ticket]
  /\ \A a \in Approval :
       /\ tickets[a].st # "none" => tickets'[a].st # "none"
       /\ a \in S => tickets'[a] = tickets[a]

LEMMA TicketStatements ==
  ASSUME TicketTypeOK, NEW a \in Approval
  PROVE  /\ \A u \in User, p \in Project, ruled \in BOOLEAN :
              File(a, u, p, ruled) => Undisturbed(Approval \ {a}) /\ tickets[a].st = "none"
         /\ \A u \in User : Approve(a, u) \/ Reject(a, u) \/ Cancel(a, u)
              => /\ Undisturbed(Approval \ {a})
                 /\ tickets[a].st \in {"pending", "approved"}
         /\ \A u \in User \cup {NoUser} : ClaimTicket(a, u)
              => /\ Undisturbed(Approval \ {a})
                 /\ tickets[a].st = "approved" /\ tickets'[a].st = "deploying"
         /\ \A s \in TicketStatus : Settle(a, s) => Undisturbed(Approval \ {a})
         /\ Transition(a, {"deploying"}, "approved") => Undisturbed(Approval \ {a})
<1> USE DEF TicketTypeOK, Undisturbed, Ticket, TicketStatus
<1>1. \A u \in User, p \in Project, ruled \in BOOLEAN :
        File(a, u, p, ruled) => Undisturbed(Approval \ {a}) /\ tickets[a].st = "none"
  BY DEF File
<1>2. \A u \in User : Approve(a, u) \/ Reject(a, u) \/ Cancel(a, u)
        => Undisturbed(Approval \ {a}) /\ tickets[a].st \in {"pending", "approved"}
  BY DEF Approve, Reject, Cancel, Transition
<1>3. \A u \in User \cup {NoUser} : ClaimTicket(a, u)
        => /\ Undisturbed(Approval \ {a})
           /\ tickets[a].st = "approved" /\ tickets'[a].st = "deploying"
  BY DEF ClaimTicket, Transition
<1>4. \A s \in TicketStatus : Settle(a, s) => Undisturbed(Approval \ {a})
  BY DEF Settle, Transition
<1>5. Transition(a, {"deploying"}, "approved") => Undisturbed(Approval \ {a})
  BY DEF Transition
<1> QED BY <1>1, <1>2, <1>3, <1>4, <1>5

LEMMA ConvergeUndisturbed ==
  ASSUME TicketTypeOK, NEW ok, NEW bad, NEW running, Converge(ok, bad, running)
  PROVE  Undisturbed({a \in running : a \notin ok \cup bad})
<1>1. tickets' \in [Approval -> Ticket]
  BY DEF TicketTypeOK, Converge, Ticket, TicketStatus
<1>2. ASSUME NEW a \in Approval
      PROVE  /\ tickets[a].st # "none" => tickets'[a].st # "none"
             /\ a \in running /\ a \notin ok \cup bad => tickets'[a] = tickets[a]
  BY <1>2 DEF TicketTypeOK, Converge, Ticket, TicketStatus
<1> QED BY <1>1, <1>2 DEF Undisturbed

LEMMA ThreadFacts ==
  ASSUME SchedInv, NEW c \in Client
  PROVE  /\ threads \in [Client -> Thread] /\ threads[c] \in Thread
         /\ threads[c].pc \in {"claim", "start", "run", "clear"} => Cur(c) \in Approval
         /\ TicketTypeOK /\ records \in [Approval -> Record]
  BY DEF SchedInv, SchedTypeOK, InHand

\* Steps of the users and of time: what is not filed yet has no thread.
LEMMA OutsideInv ==
  ASSUME SchedInv, UNCHANGED <<threads, hands, holding, live, mishaps>>,
         Undisturbed({a \in Approval : tickets[a].st = "deploying"}),
         schedule' \in [Approval -> {"none", "later", "due"}],
         records' \in [Approval -> Record],
         identity' \in [allowed : SUBSET User, up : BOOLEAN, changes : 0..MaxChange],
         \A a \in Approval : tickets[a].st # "none" =>
           /\ schedule[a] = "due" => schedule'[a] = "due"
           /\ records'[a] = records[a],
         \A a \in Approval : records'[a].status = "running" => records'[a] = records[a]
  PROVE  SchedInv'
<1>1. SchedTypeOK'
  BY DEF SchedInv, SchedTypeOK, TicketTypeOK, Undisturbed, Calm, RunnersKnown
<1>2. InHand'
  BY DEF SchedInv, InHand, Cur
<1>3. ASSUME mishaps' = 0 PROVE Calm'
  <2>0. Calm /\ SchedTypeOK /\ InHand
    BY <1>3 DEF SchedInv
  <2>1. OneInRound'
    BY <2>0 DEF Calm, OneInRound, Doing
  <2>2. RoundIsDue'
    <3> SUFFICES ASSUME NEW c \in Client PROVE RoundIsDueFor(c)'
      BY DEF RoundIsDue
    <3>1. /\ RoundIsDueFor(c) /\ threads[c].todo \subseteq Approval
          /\ threads[c].pc \in {"claim", "start", "run", "clear"} => Cur(c) \in Approval
      BY <2>0, ThreadFacts DEF Calm, RoundIsDue, Thread
    <3> QED BY <3>1 DEF RoundIsDueFor, Doing, Cur, Undisturbed
  <2>3. RunnersKnown'
    BY <2>0 DEF Calm, RunnersKnown, Doing, Cur, Undisturbed, Running, SchedTypeOK
  <2> QED BY <2>1, <2>2, <2>3 DEF Calm
<1> QED BY <1>1, <1>2, <1>3 DEF SchedInv

LEMMA UsersInv ==
  ASSUME SchedInv,
         \/ \E a \in Approval, u \in User : Submit(a, u) \/ Decide(a, u) \/ Withdraw(a, u)
         \/ \E a \in Approval : Due(a)
         \/ (\E u \in User : Bar(u)) \/ Outage \/ Recovery
  PROVE  SchedInv'
<1>0. /\ SchedTypeOK /\ TicketTypeOK
      /\ \A a \in Approval : tickets[a] \in Ticket
      /\ schedule \in [Approval -> {"none", "later", "due"}]
      /\ records \in [Approval -> Record]
      /\ identity \in [allowed : SUBSET User, up : BOOLEAN, changes : 0..MaxChange]
  BY DEF SchedInv, SchedTypeOK, TicketTypeOK
<1>a. ASSUME UNCHANGED tickets PROVE Undisturbed(Approval)
  BY <1>0, <1>a DEF Undisturbed, TicketTypeOK
<1>1. ASSUME NEW a \in Approval, NEW u \in User, Submit(a, u) PROVE SchedInv'
  <2>0. PICK p \in Project, r \in BOOLEAN : File(a, u, p, r)
    <3>1. (a \in Ruled) \in BOOLEAN
      OBVIOUS
    <3> QED BY <1>1, <3>1 DEF Submit
  <2>1. Undisturbed(Approval \ {a}) /\ tickets[a].st = "none"
    BY <1>0, <2>0, TicketStatements
  <2>2. Undisturbed({b \in Approval : tickets[b].st = "deploying"})
    BY <2>1 DEF Undisturbed
  <2>3. records' \in [Approval -> Record] /\ records'[a].status = "pending"
        /\ \A b \in Approval \ {a} : records'[b] = records[b] /\ schedule'[b] = schedule[b]
    BY <1>0, <1>1 DEF Submit, Record
  <2>4. schedule' \in [Approval -> {"none", "later", "due"}]
    BY <1>0, <1>1 DEF Submit
  <2> QED BY <1>0, <1>1, <2>1, <2>2, <2>3, <2>4, OutsideInv DEF Submit, leaseKept
<1>2. ASSUME NEW a \in Approval, NEW u \in User, Decide(a, u) \/ Withdraw(a, u)
      PROVE  SchedInv'
  <2>1. Undisturbed(Approval \ {a}) /\ tickets[a].st \in {"pending", "approved"}
    BY <1>0, <1>2, TicketStatements DEF Decide, Withdraw
  <2>2. Undisturbed({b \in Approval : tickets[b].st = "deploying"})
    BY <2>1 DEF Undisturbed
  <2> QED BY <1>0, <1>2, <2>2, OutsideInv DEF Decide, Withdraw, leaseKept
<1>3. ASSUME NEW a \in Approval, Due(a) PROVE SchedInv'
  <2>1. Undisturbed(Approval)
    BY <1>3, <1>a DEF Due
  <2>2. Undisturbed({b \in Approval : tickets[b].st = "deploying"})
    BY <2>1 DEF Undisturbed
  <2>3. schedule' \in [Approval -> {"none", "later", "due"}]
        /\ \A b \in Approval : schedule[b] = "due" => schedule'[b] = "due"
    BY <1>0, <1>3 DEF Due
  <2> QED BY <1>0, <1>3, <2>2, <2>3, OutsideInv DEF Due, leaseKept
<1>4. ASSUME (\E u \in User : Bar(u)) \/ Outage \/ Recovery PROVE SchedInv'
  <2>1. Undisturbed(Approval)
    BY <1>4, <1>a DEF Bar, Outage, Recovery
  <2>2. Undisturbed({b \in Approval : tickets[b].st = "deploying"})
    BY <2>1 DEF Undisturbed
  <2>3. identity' \in [allowed : SUBSET User, up : BOOLEAN, changes : 0..MaxChange]
    <3>1. /\ identity.allowed \subseteq User /\ identity.up \in BOOLEAN
          /\ identity.changes \in 0..MaxChange
      BY <1>0
    <3>2. CASE Recovery
      BY <1>0, <3>1, <3>2 DEF Recovery
    <3>3. CASE (\E u \in User : Bar(u)) \/ Outage
      <4>1. identity.changes + 1 \in 0..MaxChange
        <5>1. identity.changes < MaxChange
          BY <3>3 DEF Bar, Outage
        <5> QED BY <3>1, <5>1, SchedulerAssumption
      <4>2. \E allowed \in SUBSET User, up \in BOOLEAN :
              identity' = [allowed |-> allowed, up |-> up, changes |-> identity.changes + 1]
        <5>1. ASSUME NEW u \in User, Bar(u)
              PROVE  identity' = [allowed |-> identity.allowed \ {u}, up |-> identity.up,
                                  changes |-> identity.changes + 1]
          BY <1>0, <5>1 DEF Bar
        <5>2. ASSUME Outage
              PROVE  identity' = [allowed |-> identity.allowed, up |-> FALSE,
                                  changes |-> identity.changes + 1]
          BY <1>0, <5>2 DEF Outage
        <5> QED BY <3>1, <3>3, <5>1, <5>2
      <4> QED BY <4>1, <4>2
    <3> QED BY <1>4, <3>2, <3>3
  <2> QED BY <1>0, <1>4, <2>2, <2>3, OutsideInv DEF Bar, Outage, Recovery, leaseKept
<1> QED BY <1>1, <1>2, <1>3, <1>4

-----------------------------------------------------------------------------
\* Executions by hand.
LEMMA HandStartInv ==
  ASSUME SchedInv, NEW a \in Approval, HandStart(a)
  PROVE  SchedInv'
<1>0. /\ SchedTypeOK /\ TicketTypeOK /\ InHand
      /\ tickets \in [Approval -> Ticket] /\ records \in [Approval -> Record]
      /\ tickets[a].requester \in User \cup {NoUser}
  BY DEF SchedInv, SchedTypeOK, TicketTypeOK, Ticket
<1>1. Undisturbed(Approval \ {a}) /\ tickets[a].st = "approved" /\ tickets'[a].st = "deploying"
  BY <1>0, TicketStatements DEF HandStart
<1>2. /\ records' \in [Approval -> Record]
      /\ records'[a] = [status |-> "running", runner |-> "hand"]
      /\ \A b \in Approval \ {a} : records'[b] = records[b]
      /\ \A b \in Approval : ~Running(b)
      /\ hands' = hands \cup {a}
      /\ UNCHANGED <<threads, schedule, holding, live, identity, mishaps>>
  BY <1>0 DEF HandStart, Put, Record, Busy, Running, leaseKept
<1>3. InHand'
  BY <1>0, <1>2 DEF InHand, Cur
<1>4. ASSUME mishaps = 0 PROVE Calm'
  <2>0. Calm
    BY <1>4 DEF SchedInv
  <2>1. OneInRound'
    BY <1>2, <2>0 DEF Calm, OneInRound, Doing
  <2>2. hands = {} /\ \A c \in Client : ~Doing(c, "run")
    <3>1. hands = {}
      BY <1>0, <1>2, <2>0 DEF Calm, RunnersKnown, Running, SchedTypeOK
    <3>2. ASSUME NEW c \in Client, Doing(c, "run") PROVE FALSE
      <4>1. Cur(c) \in Approval
        BY <3>2, ThreadFacts DEF Doing
      <4>2. records[Cur(c)].status = "running"
        <5>1. RoundIsDueFor(c)
          BY <2>0 DEF Calm, RoundIsDue
        <5> QED BY <3>2, <5>1 DEF RoundIsDueFor
      <4> QED BY <1>2, <4>1, <4>2 DEF Running
    <3> QED BY <3>1, <3>2
  <2>3. RoundIsDue'
    <3> SUFFICES ASSUME NEW c \in Client PROVE RoundIsDueFor(c)'
      BY DEF RoundIsDue
    <3>1. /\ RoundIsDueFor(c) /\ threads[c].todo \subseteq Approval
          /\ threads[c].pc \in {"claim", "start", "run", "clear"} => Cur(c) \in Approval
      BY <2>0, ThreadFacts DEF Calm, RoundIsDue, Thread
    <3> QED BY <1>1, <1>2, <2>2, <3>1 DEF RoundIsDueFor, Doing, Cur, Undisturbed
  <2>4. RunnersKnown'
    BY <1>1, <1>2, <2>2 DEF RunnersKnown, Running
  <2> QED BY <2>1, <2>3, <2>4 DEF Calm
<1>5. SchedTypeOK'
  BY <1>0, <1>1, <1>2, <1>4
  DEF SchedTypeOK, TicketTypeOK, Undisturbed, Calm, RunnersKnown
<1> QED BY <1>2, <1>3, <1>4, <1>5 DEF SchedInv

LEMMA EndedFacts ==
  ASSUME TicketTypeOK, records \in [Approval -> Record], NEW a \in Approval,
         NEW s \in TicketStatus, Ended(a, s)
  PROVE  /\ Undisturbed(Approval \ {a})
         /\ records' \in [Approval -> Record] /\ records'[a].status # "running"
         /\ \A b \in Approval \ {a} : records'[b] = records[b]
<1>1. Undisturbed(Approval \ {a})
  BY TicketStatements DEF Ended
<1>2. CASE Running(a)
  <2>1. \E t \in {"ok", "failed", "pending"} : Put(a, t, "nobody")
    <3>1. CASE s = "deployed"
      BY <1>2, <3>1 DEF Ended
    <3>2. CASE s = "failed"
      BY <1>2, <3>2 DEF Ended
    <3>3. CASE s # "deployed" /\ s # "failed"
      BY <1>2, <3>3 DEF Ended
    <3> QED BY <3>1, <3>2, <3>3
  <2>2. PICK t \in {"ok", "failed", "pending"} :
          records' = [records EXCEPT ![a] = [status |-> t, runner |-> "nobody"]]
    BY <2>1 DEF Put
  <2> QED BY <1>1, <2>2 DEF Record, Running
<1>3. CASE ~Running(a)
  <2>1. records' = records
    BY <1>3 DEF Ended
  <2> QED BY <1>1, <1>3, <2>1 DEF Running
<1> QED BY <1>1, <1>2, <1>3

LEMMA HandEndInv ==
  ASSUME SchedInv, NEW a \in Approval, HandEnd(a)
  PROVE  SchedInv'
<1>0. /\ SchedTypeOK /\ TicketTypeOK /\ InHand /\ records \in [Approval -> Record]
      /\ a \in hands /\ hands' = hands \ {a}
      /\ UNCHANGED <<threads, schedule, holding, live, identity, mishaps>>
  BY DEF SchedInv, SchedTypeOK, HandEnd, leaseKept
<1>1. /\ Undisturbed(Approval \ {a})
      /\ records' \in [Approval -> Record] /\ records'[a].status # "running"
      /\ \A b \in Approval \ {a} : records'[b] = records[b]
  BY <1>0, EndedFacts DEF HandEnd, TicketStatus
<1>2. InHand'
  BY <1>0 DEF InHand, Cur
<1>3. ASSUME mishaps = 0 PROVE Calm'
  <2>0. Calm
    BY <1>3 DEF SchedInv
  <2>1. OneInRound'
    BY <1>0, <2>0 DEF Calm, OneInRound, Doing
  <2>2. records[a].runner = "hand" /\ "hand" \notin Client
    BY <1>0, <2>0, SchedulerAssumption DEF Calm, RunnersKnown
  <2>3. RoundIsDue'
    <3> SUFFICES ASSUME NEW c \in Client PROVE RoundIsDueFor(c)'
      BY DEF RoundIsDue
    <3>1. /\ RoundIsDueFor(c) /\ threads[c].todo \subseteq Approval
          /\ threads[c].pc \in {"claim", "start", "run", "clear"} => Cur(c) \in Approval
      BY <2>0, ThreadFacts DEF Calm, RoundIsDue, Thread
    <3>2. Doing(c, "run") => Cur(c) # a
      BY <2>2, <3>1 DEF RoundIsDueFor
    <3> QED BY <1>0, <1>1, <2>2, <3>1, <3>2 DEF RoundIsDueFor, Doing, Cur, Undisturbed
  <2>4. RunnersKnown'
    BY <1>0, <1>1, <2>0 DEF Calm, RunnersKnown, Running, Undisturbed, Doing, Cur, SchedTypeOK
  <2> QED BY <2>1, <2>3, <2>4 DEF Calm
<1>4. SchedTypeOK'
  BY <1>0, <1>1, <1>3 DEF SchedTypeOK, TicketTypeOK, Undisturbed, Calm, RunnersKnown
<1> QED BY <1>0, <1>2, <1>3, <1>4 DEF SchedInv

-----------------------------------------------------------------------------
\* A step of a thread that keeps its lease as it is: as long as nothing went wrong
\* the others wait.
LEMMA TurnsInv ==
  ASSUME SchedInv, NEW c \in Client, NEW t \in Thread,
         threads' = [threads EXCEPT ![c] = t],
         UNCHANGED <<hands, holding, live, identity>>,
         mishaps' \in 0..MaxMishap, mishaps' = 0 => mishaps = 0,
         tickets' \in [Approval -> Ticket], records' \in [Approval -> Record],
         schedule' \in [Approval -> {"none", "later", "due"}],
         t.pc \in {"select", "turn", "claim", "start", "run", "clear"} => c \in holding,
         t.pc \notin {"wait", "dead"}, ~Doing(c, "wait"),
         t.pc \in {"claim", "start", "run", "clear"}
           => t.current \in Approval /\ t.current \notin t.todo,
         Calm /\ mishaps' = 0 => RoundIsDueFor(c)' /\ RunnersKnown'
  PROVE  SchedInv'
<1>0. SchedTypeOK /\ InHand /\ threads \in [Client -> Thread]
  BY DEF SchedInv, SchedTypeOK
<1>1. threads' \in [Client -> Thread] /\ threads'[c] = t
      /\ \A d \in Client \ {c} : threads'[d] = threads[d]
  BY <1>0
<1>2. InHand'
  BY <1>0, <1>1 DEF InHand, Cur
<1>3. ASSUME mishaps' = 0 PROVE Calm'
  <2>0. Calm
    BY <1>3 DEF SchedInv
  <2>1. c \in live /\ \A d \in Client \ {c} : Doing(d, "wait")
    BY <2>0 DEF Calm, OneInRound
  <2>2. OneInRound'
    BY <1>1, <2>0, <2>1 DEF Calm, OneInRound, Doing
  <2>3. RoundIsDue'
    <3> SUFFICES ASSUME NEW d \in Client \ {c} PROVE RoundIsDueFor(d)'
      BY <1>3, <2>0 DEF RoundIsDue
    <3>1. RoundIsDueFor(d) /\ Doing(d, "wait")
      BY <2>0, <2>1 DEF Calm, RoundIsDue
    <3>2. threads[d].todo = {}
      BY <3>1 DEF RoundIsDueFor, Doing
    <3> QED BY <1>1, <3>1, <3>2 DEF RoundIsDueFor, Doing
  <2> QED BY <1>3, <2>0, <2>2, <2>3 DEF Calm
<1>4. SchedTypeOK'
  <2>1. \A d \in Client :
          /\ threads'[d].pc \in {"select", "turn", "claim", "start", "run", "clear"}
               => d \in holding'
          /\ threads'[d].pc \in {"wait", "dead"} => d \notin holding'
    BY <1>0, <1>1 DEF SchedTypeOK
  <2>2. mishaps' = 0 => \A a \in hands' : tickets'[a].st = "deploying"
    BY <1>0, <1>3 DEF Calm, RunnersKnown, SchedTypeOK
  <2> QED BY <1>0, <1>1, <2>1, <2>2 DEF SchedTypeOK, TicketTypeOK
<1> QED BY <1>2, <1>3, <1>4 DEF SchedInv

\* What a thread in a round knows.
LEMMA RoundFacts ==
  ASSUME SchedInv, NEW c \in Client, ~Doing(c, "wait")
  PROVE  /\ threads[c] \in Thread
         /\ threads[c] = [pc |-> threads[c].pc, todo |-> threads[c].todo,
                          current |-> Cur(c)]
         /\ threads[c].todo \subseteq Approval /\ Cur(c) \in Approval \cup {NoApproval}
         /\ threads[c].pc \in {"claim", "start", "run", "clear"}
              => Cur(c) \in Approval /\ Cur(c) \notin threads[c].todo
         /\ threads[c].pc \in {"select", "turn", "claim", "start", "run", "clear"}
              => c \in holding
         /\ TicketTypeOK /\ tickets \in [Approval -> Ticket]
         /\ records \in [Approval -> Record] /\ hands \subseteq Approval
         /\ schedule \in [Approval -> {"none", "later", "due"}]
         /\ mishaps \in 0..MaxMishap /\ holding \subseteq Client
         /\ Calm => /\ \A d \in Client \ {c} : Doing(d, "wait")
                    /\ RoundIsDueFor(c) /\ RunnersKnown
                    /\ c \in holding
                    /\ ~Doing(c, "run") => \A a \in Approval : Running(a) => a \in hands
<1>1. /\ SchedTypeOK /\ InHand /\ threads \in [Client -> Thread]
      /\ TicketTypeOK /\ tickets \in [Approval -> Ticket]
      /\ records \in [Approval -> Record] /\ hands \subseteq Approval
      /\ schedule \in [Approval -> {"none", "later", "due"}]
      /\ mishaps \in 0..MaxMishap /\ holding \subseteq Client /\ live \subseteq holding
  BY DEF SchedInv, SchedTypeOK, TicketTypeOK
<1>2. threads[c] \in Thread
  BY <1>1
<1>3. /\ threads[c] = [pc |-> threads[c].pc, todo |-> threads[c].todo, current |-> Cur(c)]
      /\ threads[c].todo \subseteq Approval /\ Cur(c) \in Approval \cup {NoApproval}
  BY <1>2 DEF Thread, Cur
<1>4. /\ threads[c].pc \in {"claim", "start", "run", "clear"}
              => Cur(c) \in Approval /\ Cur(c) \notin threads[c].todo
      /\ threads[c].pc \in {"select", "turn", "claim", "start", "run", "clear"}
              => c \in holding
  BY <1>1 DEF InHand, SchedTypeOK
<1>5. ASSUME Calm
      PROVE  /\ \A d \in Client \ {c} : Doing(d, "wait")
             /\ RoundIsDueFor(c) /\ RunnersKnown /\ c \in holding
  BY <1>1, <1>5 DEF Calm, OneInRound, RoundIsDue
<1>6. ASSUME Calm, ~Doing(c, "run") PROVE \A a \in Approval : Running(a) => a \in hands
  BY <1>5, <1>6 DEF RunnersKnown, Doing
<1> QED BY <1>1, <1>2, <1>3, <1>4, <1>5, <1>6

\* How a thread goes on.
LEMMA ThreadSet ==
  ASSUME SchedInv, NEW c \in Client
  PROVE  /\ \A pc : Goes(c, pc) => threads' = [threads EXCEPT ![c] =
              [pc |-> pc, todo |-> threads[c].todo, current |-> Cur(c)]]
         /\ Next1(c) => threads' = [threads EXCEPT ![c] =
              [pc |-> "turn", todo |-> threads[c].todo, current |-> NoApproval]]
<1>1. threads \in [Client -> Thread] /\ threads[c] \in Thread
  BY ThreadFacts
<1>2. \A x \in Thread : \A pc :
        [x EXCEPT !.pc = pc] = [pc |-> pc, todo |-> x.todo, current |-> x.current]
  BY DEF Thread
<1>3. ASSUME NEW pc, Goes(c, pc)
      PROVE  threads' = [threads EXCEPT ![c] =
               [pc |-> pc, todo |-> threads[c].todo, current |-> Cur(c)]]
  BY <1>1, <1>2, <1>3 DEF Goes, Cur
<1> QED BY <1>3 DEF Next1

LEMMA SelectInv ==
  ASSUME SchedInv, NEW c \in Client, Select(c)
  PROVE  SchedInv'
<1> DEFINE rows == {a \in Approval : schedule[a] = "due" /\ tickets[a].st = "approved"}
           t == [pc |-> "turn", todo |-> rows, current |-> NoApproval]
<1>1. ~Doing(c, "wait") /\ Doing(c, "select")
  BY DEF Select, Doing
<1>2. t \in Thread /\ threads' = [threads EXCEPT ![c] = t]
  <2>1. threads' = [threads EXCEPT ![c] = t]
    BY DEF Select
  <2> QED BY <1>1, <2>1, RoundFacts DEF Thread
<1>3. UNCHANGED <<hands, tickets, schedule, records, identity, mishaps, holding, live>>
  BY DEF Select, leaseKept
<1>4. threads'[c] = t /\ \A d \in Client \ {c} : threads'[d] = threads[d]
  BY <1>2, ThreadFacts
<1>5. ASSUME Calm PROVE RoundIsDueFor(c)' /\ RunnersKnown'
  <2>1. RoundIsDueFor(c)'
    BY <1>3, <1>4 DEF RoundIsDueFor, Doing
  <2>2. RunnersKnown'
    BY <1>1, <1>3, <1>4, <1>5, RoundFacts DEF RunnersKnown, Running, Doing, Cur
  <2> QED BY <2>1, <2>2
<1>6. c \in holding
  BY <1>1, RoundFacts DEF Doing
<1> HIDE DEF t
<1>7. t.pc = "turn"
  BY DEF t
<1> QED BY <1>1, <1>2, <1>3, <1>5, <1>6, <1>7, RoundFacts, TurnsInv

\* What a thread knows of its tickets is still so after a step that gave it t.
LEMMA DueFor ==
  ASSUME NEW c, NEW t, threads'[c] = t, RoundIsDueFor(c), t.todo \subseteq threads[c].todo,
         t.pc \in {"turn", "claim", "start", "run", "clear"} \/ t.todo = {},
         \A a \in t.todo :
           /\ schedule[a] = "due" => schedule'[a] = "due"
           /\ tickets[a].st # "none" => tickets'[a].st # "none",
         t.pc = "claim" => schedule'[t.current] = "due" /\ tickets'[t.current].st # "none",
         t.pc = "start" => tickets'[t.current].st = "deploying" /\ t.current \notin hands',
         t.pc = "run" => /\ tickets'[t.current].st = "deploying"
                         /\ records'[t.current] = [status |-> "running", runner |-> c]
  PROVE  RoundIsDueFor(c)'
<1>1. Cur(c)' = t.current /\ \A pc : Doing(c, pc)' <=> t.pc = pc
  BY DEF Cur, Doing
<1>2. /\ ~Doing(c, "turn")' /\ ~Doing(c, "claim")' /\ ~Doing(c, "start")' /\ ~Doing(c, "run")'
         /\ ~Doing(c, "clear")' => threads'[c].todo = {}
  BY <1>1
<1>3. \A a \in threads'[c].todo : schedule'[a] = "due" /\ tickets'[a].st # "none"
  BY DEF RoundIsDueFor
<1> QED BY <1>1, <1>2, <1>3 DEF RoundIsDueFor

LEMMA TurnInv ==
  ASSUME SchedInv, NEW c \in Client, NEW a \in Approval, Turn(c, a)
  PROVE  SchedInv'
<1> DEFINE pc == IF tickets[a].st # "approved" THEN "turn"
                 ELSE IF identity.up /\ tickets[a].requester \in identity.allowed THEN "claim"
                 ELSE "clear"
           t == [pc |-> pc, todo |-> threads[c].todo \ {a},
                 current |-> IF tickets[a].st = "approved" THEN a ELSE NoApproval]
<1>1. ~Doing(c, "wait") /\ Doing(c, "turn") /\ a \in threads[c].todo
  BY DEF Turn, Doing
<1>2. /\ UNCHANGED <<hands, tickets, schedule, records, identity, mishaps, holding, live>>
      /\ threads' = [threads EXCEPT ![c] = t]
  BY DEF Turn, leaseKept
<1>3. /\ pc \in {"turn", "claim", "clear"}
      /\ pc # "turn" => t.current = a /\ tickets[a].st = "approved"
  OBVIOUS
<1>4. t \in Thread /\ t.pc = pc /\ t.todo = threads[c].todo \ {a}
  BY <1>1, <1>3, RoundFacts DEF Thread
<1> HIDE DEF t, pc
<1>5. threads'[c] = t
  BY <1>2, ThreadFacts
<1>6. ASSUME Calm PROVE RoundIsDueFor(c)' /\ RunnersKnown'
  <2>1. RoundIsDueFor(c)'
    <3>1. RoundIsDueFor(c) /\ (\A b \in threads[c].todo : schedule[b] = "due")
      BY <1>1, <1>6, RoundFacts DEF RoundIsDueFor
    <3> QED BY <1>1, <1>2, <1>3, <1>4, <1>5, <3>1, DueFor
  <2>2. RunnersKnown'
    BY <1>1, <1>2, <1>6, RoundFacts DEF RunnersKnown, Running, Doing
  <2> QED BY <2>1, <2>2
<1>7. c \in holding /\ a \notin t.todo
  BY <1>1, <1>4, RoundFacts DEF Doing
<1> QED BY <1>1, <1>2, <1>3, <1>4, <1>6, <1>7, RoundFacts, TurnsInv

LEMMA ClaimInv ==
  ASSUME SchedInv, NEW c \in Client, Claim(c)
  PROVE  SchedInv'
<1> DEFINE a == Cur(c)
<1>1. ~Doing(c, "wait") /\ Doing(c, "claim") /\ a \in Approval /\ a \notin threads[c].todo
  BY RoundFacts DEF Claim, Doing
<1>2. UNCHANGED <<hands, schedule, records, identity, mishaps, holding, live>>
  BY DEF Claim, leaseKept
<1>3. c \in holding
  BY <1>1, RoundFacts DEF Doing
<1>4. CASE ClaimTicket(a, tickets[a].requester) /\ Goes(c, "start")
  <2> DEFINE t == [pc |-> "start", todo |-> threads[c].todo, current |-> a]
  <2>1. tickets[a].requester \in User \cup {NoUser}
    BY <1>1, RoundFacts DEF Ticket
  <2>2. /\ Undisturbed(Approval \ {a})
        /\ tickets[a].st = "approved" /\ tickets'[a].st = "deploying"
    BY <1>1, <1>4, <2>1, RoundFacts, TicketStatements
  <2>3. threads' = [threads EXCEPT ![c] = t] /\ t \in Thread /\ threads'[c] = t
    BY <1>1, <1>4, RoundFacts, ThreadSet, ThreadFacts DEF Thread
  <2>4. ASSUME Calm PROVE RoundIsDueFor(c)' /\ RunnersKnown'
    <3>1. a \notin hands
      BY <1>1, <2>2, <2>4, RoundFacts DEF RunnersKnown
    <3>2. RoundIsDueFor(c)'
      <4>1. RoundIsDueFor(c) /\ threads[c].todo \subseteq Approval
        BY <1>1, <2>4, RoundFacts
      <4>2. \A b \in t.todo : tickets[b].st # "none" => tickets'[b].st # "none"
        BY <2>2, <4>1 DEF Undisturbed
      <4> QED BY <1>2, <2>2, <2>3, <3>1, <4>1, <4>2, DueFor
    <3>3. RunnersKnown'
      BY <1>1, <1>2, <2>2, <2>4, <3>1, RoundFacts
      DEF RunnersKnown, Running, Doing, Undisturbed
    <3> QED BY <3>2, <3>3
  <2>5. t.pc = "start" /\ t.current = a /\ t.todo = threads[c].todo
    OBVIOUS
  <2> HIDE DEF t, a
  <2> QED BY <1>1, <1>2, <1>3, <2>2, <2>3, <2>4, <2>5, RoundFacts, TurnsInv DEF Undisturbed
<1>5. CASE tickets[a].st # "approved" /\ Next1(c) /\ UNCHANGED tickets
  <2> DEFINE t == [pc |-> "turn", todo |-> threads[c].todo, current |-> NoApproval]
  <2>1. threads' = [threads EXCEPT ![c] = t] /\ t \in Thread /\ threads'[c] = t
    BY <1>1, <1>5, RoundFacts, ThreadSet, ThreadFacts DEF Thread
  <2>2. ASSUME Calm PROVE RoundIsDueFor(c)' /\ RunnersKnown'
    <3>1. RoundIsDueFor(c)'
      <4>1. RoundIsDueFor(c)
        BY <1>1, <2>2, RoundFacts
      <4> QED BY <1>2, <1>5, <2>1, <4>1, DueFor
    <3>2. RunnersKnown'
      BY <1>1, <1>2, <1>5, <2>2, RoundFacts DEF RunnersKnown, Running, Doing
    <3> QED BY <3>1, <3>2
  <2>3. t.pc = "turn"
    OBVIOUS
  <2> HIDE DEF t, a
  <2> QED BY <1>1, <1>2, <1>3, <1>5, <2>1, <2>2, <2>3, RoundFacts, TurnsInv
<1> QED BY <1>4, <1>5 DEF Claim

LEMMA StartInv ==
  ASSUME SchedInv, NEW c \in Client, Start(c)
  PROVE  SchedInv'
<1> DEFINE a == Cur(c)
<1>1. ~Doing(c, "wait") /\ Doing(c, "start") /\ a \in Approval /\ a \notin threads[c].todo
  BY RoundFacts DEF Start, Doing
<1>2. UNCHANGED <<hands, schedule, identity, mishaps, holding, live>>
  BY DEF Start, leaseKept
<1>3. c \in holding
  BY <1>1, RoundFacts DEF Doing
<1>4. ASSUME Calm PROVE a \notin hands /\ ~Running(a)
  BY <1>1, <1>4, RoundFacts DEF RoundIsDueFor, Doing
<1>5. CASE /\ tickets[a].st = "deploying" /\ ~Busy /\ Put(a, "running", c)
           /\ Goes(c, "run") /\ UNCHANGED tickets
  <2> DEFINE t == [pc |-> "run", todo |-> threads[c].todo, current |-> a]
  <2>1. threads' = [threads EXCEPT ![c] = t] /\ t \in Thread /\ threads'[c] = t
    BY <1>1, <1>5, RoundFacts, ThreadSet, ThreadFacts DEF Thread
  <2>2. /\ records' \in [Approval -> Record]
        /\ records'[a] = [status |-> "running", runner |-> c]
        /\ \A b \in Approval \ {a} : records'[b] = records[b]
        /\ \A b \in Approval : ~Running(b)
    BY <1>1, <1>5, RoundFacts DEF Put, Record, Busy, Running
  <2>3. t.pc = "run" /\ t.current = a /\ t.todo = threads[c].todo
    OBVIOUS
  <2>4. ASSUME Calm PROVE RoundIsDueFor(c)' /\ RunnersKnown'
    <3>1. RoundIsDueFor(c)'
      <4>1. RoundIsDueFor(c)
        BY <1>1, <2>4, RoundFacts
      <4> QED BY <1>2, <1>5, <2>1, <2>2, <4>1, DueFor
    <3>2. \A b \in Approval : b \in hands => records'[b] = records[b]
      BY <1>4, <2>2, <2>4
    <3>3. RunnersKnown'
      <4> SUFFICES ASSUME NEW b \in Approval
                   PROVE  /\ b \in hands => /\ tickets'[b].st = "deploying"
                                            /\ records'[b] = [status |-> "running",
                                                              runner |-> "hand"]
                          /\ Running(b)' => \/ b \in hands
                                            \/ Doing(c, "run")' /\ Cur(c)' = b
        BY <1>2 DEF RunnersKnown
      <4>1. Running(b)' => b = a
        BY <2>2 DEF Running
      <4>2. Doing(c, "run")' /\ Cur(c)' = a
        BY <2>1 DEF Doing, Cur
      <4> QED BY <1>1, <1>5, <2>4, <3>2, <4>1, <4>2, RoundFacts DEF RunnersKnown
    <3> QED BY <3>1, <3>3
  <2> HIDE DEF t, a
  <2> QED BY <1>1, <1>2, <1>3, <1>5, <2>1, <2>2, <2>3, <2>4, RoundFacts, TurnsInv
<1>6. CASE tickets[a].st = "deploying" /\ Busy /\ GoesBack(a) /\ Next1(c)
  <2> DEFINE t == [pc |-> "turn", todo |-> threads[c].todo, current |-> NoApproval]
  <2>1. threads' = [threads EXCEPT ![c] = t] /\ t \in Thread /\ threads'[c] = t
    BY <1>1, <1>6, RoundFacts, ThreadSet, ThreadFacts DEF Thread
  <2>2. Undisturbed(Approval \ {a})
    BY <1>1, <1>6, RoundFacts, TicketStatements DEF GoesBack
  <2>3. /\ records' \in [Approval -> Record]
        /\ ~Running(a) => records' = records
    <3>1. \/ records' = [records EXCEPT ![a] = [status |-> "pending", runner |-> "nobody"]]
             /\ Running(a)
          \/ records' = records
      BY <1>6 DEF GoesBack, Put
    <3>2. records \in [Approval -> Record]
      BY <1>1, RoundFacts
    <3>3. [status |-> "pending", runner |-> "nobody"] \in Record
      BY DEF Record
    <3> HIDE DEF a
    <3> QED BY <1>1, <3>1, <3>2, <3>3
  <2>4. ASSUME Calm PROVE RoundIsDueFor(c)' /\ RunnersKnown'
    <3>1. records' = records /\ \A b \in hands : tickets'[b] = tickets[b]
      BY <1>1, <1>4, <2>2, <2>3, <2>4, RoundFacts DEF Undisturbed
    <3>2. RoundIsDueFor(c)'
      <4>1. RoundIsDueFor(c) /\ threads[c].todo \subseteq Approval
        BY <1>1, <2>4, RoundFacts
      <4>2. \A b \in t.todo : tickets[b].st # "none" => tickets'[b].st # "none"
        BY <2>2, <4>1 DEF Undisturbed
      <4> QED BY <1>2, <2>1, <4>1, <4>2, DueFor
    <3>3. RunnersKnown'
      BY <1>1, <1>2, <2>4, <3>1, RoundFacts DEF RunnersKnown, Running, Doing
    <3> QED BY <3>2, <3>3
  <2>5. t.pc = "turn"
    OBVIOUS
  <2> HIDE DEF t, a
  <2> QED BY <1>1, <1>2, <1>3, <2>1, <2>2, <2>3, <2>4, <2>5, RoundFacts, TurnsInv DEF Undisturbed
<1>7. CASE tickets[a].st # "deploying" /\ Next1(c) /\ UNCHANGED <<tickets, records>>
  <2> DEFINE t == [pc |-> "turn", todo |-> threads[c].todo, current |-> NoApproval]
  <2>1. threads' = [threads EXCEPT ![c] = t] /\ t \in Thread /\ threads'[c] = t
    BY <1>1, <1>7, RoundFacts, ThreadSet, ThreadFacts DEF Thread
  <2>2. ASSUME Calm PROVE RoundIsDueFor(c)' /\ RunnersKnown'
    <3>1. RoundIsDueFor(c)'
      <4>1. RoundIsDueFor(c)
        BY <1>1, <2>2, RoundFacts
      <4> QED BY <1>2, <1>7, <2>1, <4>1, DueFor
    <3>2. RunnersKnown'
      BY <1>1, <1>2, <1>7, <2>2, RoundFacts DEF RunnersKnown, Running, Doing
    <3> QED BY <3>1, <3>2
  <2>3. t.pc = "turn"
    OBVIOUS
  <2> HIDE DEF t, a
  <2> QED BY <1>1, <1>2, <1>3, <1>7, <2>1, <2>2, <2>3, RoundFacts, TurnsInv
<1> QED BY <1>5, <1>6, <1>7 DEF Start

\* The end of an execution in the scheduler, or an exception in it.
LEMMA EndsInv ==
  ASSUME SchedInv, NEW c \in Client, NEW s \in TicketStatus, Doing(c, "run"),
         Ended(Cur(c), s), Next1(c), mishaps' \in 0..MaxMishap,
         mishaps' = 0 => mishaps = 0,
         UNCHANGED <<hands, schedule, identity, holding, live>>
  PROVE  SchedInv'
<1> DEFINE a == Cur(c)
           t == [pc |-> "turn", todo |-> threads[c].todo, current |-> NoApproval]
<1>1. ~Doing(c, "wait") /\ a \in Approval /\ a \notin threads[c].todo /\ c \in holding
  BY RoundFacts DEF Doing
<1>2. threads' = [threads EXCEPT ![c] = t] /\ t \in Thread /\ threads'[c] = t
  BY <1>1, RoundFacts, ThreadSet, ThreadFacts DEF Thread
<1>3. /\ Undisturbed(Approval \ {a})
      /\ records' \in [Approval -> Record] /\ records'[a].status # "running"
      /\ \A b \in Approval \ {a} : records'[b] = records[b]
  BY <1>1, RoundFacts, EndedFacts
<1>4. ASSUME Calm PROVE RoundIsDueFor(c)' /\ RunnersKnown'
  <2>1. RoundIsDueFor(c)'
    <3>1. RoundIsDueFor(c) /\ threads[c].todo \subseteq Approval
      BY <1>1, <1>4, RoundFacts
    <3>2. \A b \in t.todo : tickets[b].st # "none" => tickets'[b].st # "none"
      BY <1>3, <3>1 DEF Undisturbed
    <3> QED BY <1>2, <3>1, <3>2, DueFor
  <2>2. RunnersKnown'
    <3>0. RunnersKnown /\ hands \subseteq Approval /\ \A d \in Client \ {c} : Doing(d, "wait")
      BY <1>1, <1>4, RoundFacts
    <3>1. records[a].runner = c
      <4>1. RoundIsDueFor(c)
        BY <1>1, <1>4, RoundFacts
      <4> QED BY <4>1 DEF RoundIsDueFor
    <3>2. a \notin hands
      BY <1>1, <3>0, <3>1, SchedulerAssumption DEF RunnersKnown
    <3>3. \A b \in Approval \ {a} : Running(b) => b \in hands
      BY <3>0 DEF RunnersKnown, Doing
    <3> HIDE DEF a
    <3> QED BY <1>1, <1>3, <3>0, <3>2, <3>3 DEF RunnersKnown, Running, Undisturbed
  <2> QED BY <2>1, <2>2
<1>5. t.pc = "turn"
  OBVIOUS
<1> HIDE DEF t, a
<1> QED BY <1>1, <1>2, <1>3, <1>4, <1>5, RoundFacts, TurnsInv DEF Undisturbed

LEMMA FinishInv ==
  ASSUME SchedInv, NEW c \in Client, Finish(c) \/ Throw(c)
  PROVE  SchedInv'
<1>0. mishaps \in 0..MaxMishap /\ MaxMishap \in Nat
  BY SchedulerAssumption DEF SchedInv, SchedTypeOK
<1>1. CASE Finish(c)
  BY <1>0, <1>1, EndsInv DEF Finish, leaseKept, TicketStatus
<1>2. CASE Throw(c)
  <2>1. mishaps' = mishaps + 1 /\ mishaps < MaxMishap
    BY <1>2 DEF Throw
  <2>2. mishaps' \in 0..MaxMishap /\ mishaps' # 0
    BY <1>0, <2>1
  <2> QED BY <1>2, <2>2, EndsInv DEF Throw, leaseKept, TicketStatus
<1> QED BY <1>1, <1>2

LEMMA ClearInv ==
  ASSUME SchedInv, NEW c \in Client, Clear(c)
  PROVE  SchedInv'
<1> DEFINE a == Cur(c)
           t == [pc |-> "turn", todo |-> threads[c].todo, current |-> NoApproval]
<1>1. /\ ~Doing(c, "wait") /\ ~Doing(c, "run")
      /\ a \in Approval /\ a \notin threads[c].todo /\ c \in holding
  BY RoundFacts DEF Clear, Doing
<1>2. threads' = [threads EXCEPT ![c] = t] /\ t \in Thread /\ threads'[c] = t
  BY <1>1, RoundFacts, ThreadSet, ThreadFacts DEF Thread, Clear
<1>3. UNCHANGED <<hands, tickets, records, identity, mishaps, holding, live>>
  BY DEF Clear, leaseKept
<1>4. /\ schedule' \in [Approval -> {"none", "later", "due"}]
      /\ \A b \in Approval \ {a} : schedule'[b] = schedule[b]
  BY <1>1, RoundFacts DEF Clear
<1>5. ASSUME Calm PROVE RoundIsDueFor(c)' /\ RunnersKnown'
  <2>1. RoundIsDueFor(c) /\ threads[c].todo \subseteq Approval \ {a}
    BY <1>1, <1>5, RoundFacts
  <2>2. \A b \in t.todo : schedule'[b] = schedule[b]
    BY <1>4, <2>1
  <2>3. RoundIsDueFor(c)'
    BY <1>2, <1>3, <2>1, <2>2, DueFor
  <2>4. RunnersKnown'
    BY <1>1, <1>3, <1>5, RoundFacts DEF RunnersKnown, Running
  <2> QED BY <2>3, <2>4
<1>6. t.pc = "turn"
  OBVIOUS
<1> HIDE DEF t, a
<1> QED BY <1>1, <1>2, <1>3, <1>4, <1>5, <1>6, RoundFacts, TurnsInv

LEMMA RoundDoneInv ==
  ASSUME SchedInv, NEW c \in Client, RoundDone(c)
  PROVE  SchedInv'
<1> DEFINE t == [pc |-> "sweep", todo |-> threads[c].todo, current |-> Cur(c)]
<1>1. /\ ~Doing(c, "wait") /\ ~Doing(c, "run") /\ c \in holding /\ threads[c].todo = {}
  BY RoundFacts DEF RoundDone, Doing
<1>2. threads' = [threads EXCEPT ![c] = t] /\ t \in Thread /\ threads'[c] = t
  <2>1. threads' = [threads EXCEPT ![c] = t]
    BY ThreadSet DEF RoundDone
  <2>2. threads[c].todo \subseteq Approval /\ Cur(c) \in Approval \cup {NoApproval}
    BY <1>1, RoundFacts
  <2>3. t \in Thread
    BY <2>2 DEF Thread
  <2> QED BY <2>1, <2>3, ThreadFacts
<1>3. UNCHANGED <<hands, tickets, schedule, records, identity, mishaps, holding, live>>
  BY DEF RoundDone, leaseKept
<1>4. ASSUME Calm PROVE RoundIsDueFor(c)' /\ RunnersKnown'
  <2>1. RoundIsDueFor(c)
    BY <1>1, <1>4, RoundFacts
  <2>2. RoundIsDueFor(c)'
    BY <1>1, <1>2, <1>3, <2>1, DueFor
  <2>3. RunnersKnown'
    BY <1>1, <1>3, <1>4, RoundFacts DEF RunnersKnown, Running
  <2> QED BY <2>2, <2>3
<1>5. t.pc = "sweep"
  OBVIOUS
<1> HIDE DEF t
<1> QED BY <1>1, <1>2, <1>3, <1>4, <1>5, RoundFacts, TurnsInv

LEMMA SweepInv ==
  ASSUME SchedInv, NEW c \in Client, Sweep(c)
  PROVE  SchedInv'
<1> DEFINE gone == {a \in Approval : records[a] = [status |-> "running", runner |-> "nobody"]}
           rows == [a \in Approval |-> IF a \in gone
                                       THEN [status |-> "pending", runner |-> "nobody"]
                                       ELSE records[a]]
           With(s) == {a \in Approval : rows[a].status = s}
           t == [pc |-> "release", todo |-> threads[c].todo, current |-> Cur(c)]
<1>1. ~Doing(c, "wait") /\ ~Doing(c, "run") /\ Doing(c, "sweep")
  BY DEF Sweep, Doing
<1>2. threads' = [threads EXCEPT ![c] = t] /\ t \in Thread /\ threads'[c] = t
  <2>1. threads' = [threads EXCEPT ![c] = t]
    BY ThreadSet DEF Sweep
  <2>2. threads[c].todo \subseteq Approval /\ Cur(c) \in Approval \cup {NoApproval}
    BY <1>1, RoundFacts
  <2>3. t \in Thread
    BY <2>2 DEF Thread
  <2> QED BY <2>1, <2>3, ThreadFacts
<1>3. UNCHANGED <<hands, schedule, identity, mishaps, holding, live>>
  BY DEF Sweep, leaseKept
<1>4. records' = rows /\ Converge(With("ok"), With("failed"), With("running"))
  BY DEF Sweep
<1>5. rows \in [Approval -> Record]
  <2>1. [status |-> "pending", runner |-> "nobody"] \in Record
    BY DEF Record
  <2> QED BY <1>1, <2>1, RoundFacts
<1>6. Undisturbed({a \in With("running") : a \notin With("ok") \cup With("failed")})
  <2>1. TicketTypeOK
    BY <1>1, RoundFacts
  <2> HIDE DEF With
  <2> QED BY <1>4, <2>1, ConvergeUndisturbed
<1>7. ASSUME Calm PROVE RoundIsDueFor(c)' /\ RunnersKnown'
  <2>1. /\ RoundIsDueFor(c) /\ RunnersKnown /\ threads[c].todo \subseteq Approval
        /\ hands \subseteq Approval /\ \A a \in Approval : Running(a) => a \in hands
    BY <1>1, <1>7, RoundFacts
  <2>2. \A a \in hands : records[a] = [status |-> "running", runner |-> "hand"]
    BY <2>1 DEF RunnersKnown
  <2>3. gone = {}
    BY <2>1, <2>2 DEF Running
  <2>4. \A a \in Approval : rows[a] = records[a]
    BY <2>3
  <2>5. \A a \in hands : tickets'[a] = tickets[a]
    BY <1>6, <2>1, <2>2, <2>4 DEF Undisturbed
  <2>6. threads[c].todo = {}
    BY <1>1, <2>1 DEF RoundIsDueFor, Doing
  <2>7. RoundIsDueFor(c)'
    <3>1. t.todo = {} /\ t.pc = "release"
      BY <2>6
    <3> HIDE DEF t, rows, gone, With
    <3> QED BY <1>2, <2>1, <3>1, DueFor
  <2>8. RunnersKnown'
    BY <1>3, <1>4, <2>1, <2>4, <2>5 DEF RunnersKnown, Running
  <2> QED BY <2>7, <2>8
<1>8. t.pc = "release" /\ tickets' \in [Approval -> Ticket]
  BY <1>6 DEF Undisturbed
<1> HIDE DEF t, rows, gone, With
<1> QED BY <1>1, <1>2, <1>3, <1>4, <1>5, <1>7, <1>8, RoundFacts, TurnsInv

-----------------------------------------------------------------------------
\* Leases.
LEMMA AcquireInv ==
  ASSUME SchedInv, NEW c \in Client, Acquire(c)
  PROVE  SchedInv'
<1> DEFINE t == [pc |-> "select", todo |-> threads[c].todo, current |-> Cur(c)]
<1>0. /\ SchedTypeOK /\ InHand /\ threads \in [Client -> Thread]
      /\ holding \subseteq Client /\ live \subseteq holding /\ c \notin live
      /\ mishaps \in 0..MaxMishap /\ MaxMishap \in Nat /\ Doing(c, "wait")
  BY SchedulerAssumption DEF SchedInv, SchedTypeOK, Acquire, Doing
<1>1. /\ UNCHANGED <<hands, tickets, schedule, records, identity>>
      /\ live \subseteq {c} /\ holding' = holding \cup {c} /\ live' \in {{}, {c}}
      /\ mishaps' = mishaps + (IF live' = {} THEN 1 ELSE 0) /\ mishaps' <= MaxMishap
  BY DEF Acquire, Grant
<1>2. threads' = [threads EXCEPT ![c] = t] /\ t \in Thread
  <2>1. threads' = [threads EXCEPT ![c] = t]
    BY ThreadSet DEF Acquire
  <2>2. t \in Thread
    BY <1>0 DEF Thread, Cur
  <2> QED BY <2>1, <2>2
<1>3. threads'[c] = t /\ t.pc = "select" /\ t.todo = threads[c].todo
      /\ \A d \in Client \ {c} : threads'[d] = threads[d]
  BY <1>0, <1>2
<1>4. mishaps' \in 0..MaxMishap /\ (mishaps' = 0 => mishaps = 0 /\ live' = {c})
  BY <1>0, <1>1
<1> HIDE DEF t
<1>5. InHand'
  BY <1>0, <1>3 DEF InHand, Cur
<1>6. ASSUME mishaps' = 0 PROVE Calm'
  <2>0. Calm /\ live' = {c}
    BY <1>4, <1>6 DEF SchedInv
  <2>1. \A d \in Client : Doing(d, "wait") /\ threads[d].todo = {}
    <3>1. \A d \in Client : Doing(d, "wait")
      BY <1>0, <1>1, <2>0 DEF Calm, OneInRound
    <3> QED BY <2>0, <3>1 DEF Calm, RoundIsDue, RoundIsDueFor, Doing
  <2>2. OneInRound'
    BY <1>3, <2>0, <2>1 DEF OneInRound, Doing
  <2>3. RoundIsDue'
    <3> SUFFICES ASSUME NEW d \in Client PROVE RoundIsDueFor(d)'
      BY DEF RoundIsDue
    <3>1. threads'[d].todo = {} /\ threads'[d].pc \in {"wait", "select"}
      BY <1>3, <2>1 DEF Doing
    <3> QED BY <3>1 DEF RoundIsDueFor, Doing
  <2>4. RunnersKnown'
    <3>1. RunnersKnown /\ \A a \in Approval : Running(a) => a \in hands
      BY <2>0, <2>1 DEF Calm, RunnersKnown, Doing
    <3> QED BY <1>1, <3>1 DEF RunnersKnown, Running
  <2> QED BY <2>2, <2>3, <2>4 DEF Calm
<1>7. SchedTypeOK'
  <2>1. \A d \in Client :
          /\ threads'[d].pc \in {"select", "turn", "claim", "start", "run", "clear"}
               => d \in holding'
          /\ threads'[d].pc \in {"wait", "dead"} => d \notin holding'
    BY <1>0, <1>1, <1>3 DEF SchedTypeOK
  <2> QED BY <1>0, <1>1, <1>2, <1>4, <2>1 DEF SchedTypeOK, TicketTypeOK
<1> QED BY <1>5, <1>6, <1>7 DEF SchedInv

LEMMA LetGoInv ==
  ASSUME SchedInv, NEW c \in Client, LetGo(c)
  PROVE  SchedInv'
<1> DEFINE t == [pc |-> "wait", todo |-> threads[c].todo, current |-> Cur(c)]
<1>0. /\ SchedTypeOK /\ InHand /\ threads \in [Client -> Thread]
      /\ holding \subseteq Client /\ live \subseteq holding
      /\ Doing(c, "release") /\ ~Doing(c, "wait") /\ ~Doing(c, "run")
  BY DEF SchedInv, SchedTypeOK, LetGo, Doing
<1>1. /\ UNCHANGED <<hands, tickets, schedule, records, identity, mishaps>>
      /\ holding' = holding \ {c} /\ live' = live \ {c}
  BY DEF LetGo, Drop
<1>2. threads' = [threads EXCEPT ![c] = t] /\ t \in Thread
  <2>1. threads' = [threads EXCEPT ![c] = t]
    BY ThreadSet DEF LetGo
  <2>2. t \in Thread
    BY <1>0 DEF Thread, Cur
  <2> QED BY <2>1, <2>2
<1>3. threads'[c] = t /\ t.pc = "wait" /\ t.todo = threads[c].todo
      /\ \A d \in Client \ {c} : threads'[d] = threads[d]
  BY <1>0, <1>2
<1> HIDE DEF t
<1>4. InHand'
  BY <1>0, <1>3 DEF InHand, Cur
<1>5. ASSUME mishaps' = 0 PROVE Calm'
  <2>0. Calm
    BY <1>1, <1>5 DEF SchedInv
  <2>1. /\ \A d \in Client \ {c} : Doing(d, "wait")
        /\ RunnersKnown /\ \A a \in Approval : Running(a) => a \in hands
    BY <1>0, <2>0, RoundFacts
  <2>2. \A d \in Client : threads[d].todo = {}
    BY <1>0, <2>0, <2>1 DEF Calm, RoundIsDue, RoundIsDueFor, Doing
  <2>3. OneInRound'
    BY <1>1, <1>3, <2>0, <2>1 DEF Calm, OneInRound, Doing
  <2>4. RoundIsDue'
    <3> SUFFICES ASSUME NEW d \in Client PROVE RoundIsDueFor(d)'
      BY DEF RoundIsDue
    <3>1. threads'[d].todo = {} /\ threads'[d].pc = "wait"
      BY <1>3, <2>1, <2>2 DEF Doing
    <3> QED BY <3>1 DEF RoundIsDueFor, Doing
  <2>5. RunnersKnown'
    BY <1>1, <2>1 DEF RunnersKnown, Running
  <2> QED BY <2>3, <2>4, <2>5 DEF Calm
<1>6. SchedTypeOK'
  <2>1. \A d \in Client :
          /\ threads'[d].pc \in {"select", "turn", "claim", "start", "run", "clear"}
               => d \in holding'
          /\ threads'[d].pc \in {"wait", "dead"} => d \notin holding'
    BY <1>0, <1>1, <1>3 DEF SchedTypeOK
  <2> QED BY <1>0, <1>1, <1>2, <2>1 DEF SchedTypeOK, TicketTypeOK
<1> QED BY <1>4, <1>5, <1>6 DEF SchedInv

-----------------------------------------------------------------------------
\* Mishaps, and what there is after one only: from then on the types remain.
LEMMA MishapInv ==
  ASSUME SchedInv, NEW c \in Client, LeaseOver(c) \/ Perish(c) \/ TakePlace(c)
  PROVE  SchedInv'
<1>0. /\ SchedTypeOK /\ InHand /\ threads \in [Client -> Thread]
      /\ holding \subseteq Client /\ live \subseteq holding
      /\ mishaps \in 0..MaxMishap /\ MaxMishap \in Nat
  BY SchedulerAssumption DEF SchedInv, SchedTypeOK
<1>1. CASE LeaseOver(c)
  <2>1. mishaps' \in 0..MaxMishap /\ mishaps' # 0
    BY <1>0, <1>1 DEF LeaseOver
  <2>2. holding' = holding /\ live' \subseteq live
    BY <1>1 DEF LeaseOver, Expire
  <2>3. SchedTypeOK' /\ InHand'
    BY <1>0, <1>1, <2>1, <2>2 DEF LeaseOver, SchedTypeOK, TicketTypeOK, InHand, Cur
  <2> QED BY <2>1, <2>3 DEF SchedInv
<1>2. CASE Perish(c)
  <2> DEFINE t == [pc |-> "dead", todo |-> {}, current |-> NoApproval]
  <2>1. mishaps' \in 0..MaxMishap /\ mishaps' # 0
    BY <1>0, <1>2 DEF Perish
  <2>2. threads' = [threads EXCEPT ![c] = t] /\ t \in Thread /\ t.pc = "dead"
    <3>1. [Waiting EXCEPT !.pc = "dead"] = t
      BY DEF Waiting
    <3> QED BY <1>2, <3>1 DEF Perish, Thread
  <2> HIDE DEF t
  <2>3. threads'[c] = t /\ \A d \in Client \ {c} : threads'[d] = threads[d]
    BY <1>0, <2>2
  <2>4. holding' = holding \ {c} /\ live' = live \ {c}
    BY <1>2 DEF Perish
  <2>5. InHand'
    BY <1>0, <2>2, <2>3 DEF InHand, Cur
  <2>6. SchedTypeOK'
    BY <1>0, <1>2, <2>1, <2>2, <2>3, <2>4 DEF Perish, SchedTypeOK, TicketTypeOK
  <2> QED BY <2>1, <2>5, <2>6 DEF SchedInv
<1>3. CASE TakePlace(c)
  <2> DEFINE t == [pc |-> "sweep", todo |-> threads[c].todo, current |-> Cur(c)]
  <2>1. Doing(c, "dead") /\ mishaps' = mishaps
    BY <1>3 DEF TakePlace
  <2>2. mishaps # 0
    BY <1>0, <2>1 DEF SchedInv, Calm, OneInRound, SchedTypeOK, Doing
  <2>3. threads' = [threads EXCEPT ![c] = t]
    BY <1>3, ThreadSet DEF TakePlace
  <2>4. t \in Thread /\ t.pc = "sweep"
    BY <1>0 DEF Thread, Cur
  <2> HIDE DEF t
  <2>5. threads'[c] = t /\ \A d \in Client \ {c} : threads'[d] = threads[d]
    BY <1>0, <2>3
  <2>6. InHand'
    BY <1>0, <2>4, <2>5 DEF InHand, Cur
  <2>7. SchedTypeOK'
    BY <1>0, <1>3, <2>1, <2>2, <2>3, <2>4, <2>5
    DEF TakePlace, leaseKept, SchedTypeOK, TicketTypeOK
  <2> QED BY <2>1, <2>2, <2>6, <2>7 DEF SchedInv
<1> QED BY <1>1, <1>2, <1>3

LEMMA LapseInv ==
  ASSUME SchedInv, NEW a \in Approval, Lapse(a)
  PROVE  SchedInv'
<1>0. /\ SchedTypeOK /\ InHand /\ records \in [Approval -> Record] /\ "hand" \notin Client
      /\ Running(a) /\ records[a].runner \in Client /\ Cur(records[a].runner) # a
      /\ UNCHANGED <<tickets, holding, live, hands, schedule, threads, identity, mishaps>>
  BY SchedulerAssumption DEF SchedInv, SchedTypeOK, Lapse, leaseKept
<1>1. mishaps # 0
  <2> SUFFICES ASSUME Calm PROVE FALSE
    BY DEF SchedInv
  <2>1. a \notin hands
    BY <1>0 DEF Calm, RunnersKnown
  <2>2. PICK c \in Client : Doing(c, "run") /\ Cur(c) = a
    BY <1>0, <2>1 DEF Calm, RunnersKnown
  <2>3. records[a].runner = c
    <3>1. RoundIsDueFor(c)
      BY DEF Calm, RoundIsDue
    <3> QED BY <2>2, <3>1 DEF RoundIsDueFor
  <2> QED BY <1>0, <2>2, <2>3
<1>2. records' \in [Approval -> Record]
  BY <1>0 DEF Lapse, Put, Record
<1>3. SchedTypeOK' /\ InHand'
  BY <1>0, <1>1, <1>2 DEF SchedTypeOK, TicketTypeOK, InHand, Cur
<1> QED BY <1>0, <1>1, <1>3 DEF SchedInv

-----------------------------------------------------------------------------
LEMMA SchedStep == SchedInv /\ [SchedNext]_schedVars => SchedInv'
<1> SUFFICES ASSUME SchedInv, [SchedNext]_schedVars PROVE SchedInv'
  OBVIOUS
<1>1. CASE UNCHANGED schedVars
  <2>1. SchedTypeOK'
    BY <1>1 DEF SchedInv, SchedTypeOK, TicketTypeOK, schedVars
  <2>2. InHand' /\ (mishaps' = 0 => Calm')
    BY <1>1 DEF SchedInv, InHand, Calm, OneInRound, RoundIsDue, RoundIsDueFor, RunnersKnown,
      Doing, Cur, Running, schedVars
  <2> QED BY <2>1, <2>2 DEF SchedInv
<1>2. CASE \E a \in Approval, u \in User :
             Submit(a, u) \/ Decide(a, u) \/ Withdraw(a, u)
  BY <1>2, UsersInv
<1>3. ASSUME NEW a \in Approval, Due(a) \/ HandStart(a) \/ HandEnd(a) \/ Lapse(a)
      PROVE  SchedInv'
  BY <1>3, UsersInv, HandStartInv, HandEndInv, LapseInv
<1>4. ASSUME NEW c \in Client,
             Acquire(c) \/ LeaseOver(c) \/ ThreadStep(c) \/ Throw(c) \/ Perish(c)
      PROVE  SchedInv'
  BY <1>4, AcquireInv, MishapInv, SelectInv, TurnInv, ClaimInv, StartInv, FinishInv, ClearInv,
    RoundDoneInv, SweepInv, LetGoInv DEF ThreadStep
<1>5. CASE (\E u \in User : Bar(u)) \/ Outage \/ Recovery
  BY <1>5, UsersInv
<1> QED BY <1>1, <1>2, <1>3, <1>4, <1>5 DEF SchedNext

LEMMA SchedStart == SchedInit => SchedInv
<1> SUFFICES ASSUME SchedInit PROVE SchedInv
  OBVIOUS
<1>1. \A c \in Client : threads[c] = Waiting
  BY DEF SchedInit
<1>2. SchedTypeOK
  <2>1. tickets \in [Approval -> Ticket]
    BY DEF SchedInit, TicketInit, NoTicket, Ticket, TicketStatus
  <2>2. records \in [Approval -> Record]
    BY DEF SchedInit, Record
  <2>3. threads \in [Client -> Thread]
    BY DEF SchedInit, Waiting, Thread
  <2>4. identity \in [allowed : SUBSET User, up : BOOLEAN, changes : 0..MaxChange]
    BY SchedulerAssumption DEF SchedInit
  <2>5. /\ holding = {} /\ live = {} /\ hands = {} /\ mishaps = 0
        /\ schedule \in [Approval -> {"none", "later", "due"}]
    BY DEF SchedInit, LeaseInit
  <2>6. \A c \in Client : threads[c].pc = "wait"
    BY <1>1 DEF Waiting
  <2> QED BY <2>1, <2>2, <2>3, <2>4, <2>5, <2>6, SchedulerAssumption
    DEF SchedTypeOK, TicketTypeOK
<1>3. InHand
  BY <1>1 DEF InHand, Waiting
<1>4. Calm
  <2>1. \A c \in Client : Doing(c, "wait") /\ threads[c].todo = {}
    BY <1>1 DEF Waiting, Doing
  <2>2. live = {} /\ hands = {} /\ \A a \in Approval : ~Running(a)
    BY DEF SchedInit, LeaseInit, Running
  <2> QED BY <2>1, <2>2
    DEF Calm, OneInRound, RoundIsDue, RoundIsDueFor, RunnersKnown, Doing
<1> QED BY <1>2, <1>3, <1>4 DEF SchedInv

\* The invariant of the scheduler holds throughout.
THEOREM SchedHolds == SchedSpec => []SchedInv
  BY SchedStart, SchedStep, PTL DEF SchedSpec

\* What the schedulers, tickets and records keep is well typed; who works under the
\* lock holds it, and who waits does not.
THEOREM SchedTypes == SchedSpec => []SchedTypeOK
<1>1. SchedInv => SchedTypeOK
  BY DEF SchedInv
<1> QED BY <1>1, SchedHolds, PTL

\* A ticket that was returned to its requester is not claimed by any scheduler, with
\* any number of replicas, tickets and users, as long as nothing went wrong.
THEOREM SchedClearedIsLeft == SchedSpec => ClearedIsLeft
<1>1. SchedInv /\ [SchedNext]_schedVars =>
        [\A c \in Client, a \in Approval :
           Doing(c, "claim") /\ threads'[c].pc = "start" /\ Cur(c) = a
             => schedule[a] = "due" \/ mishaps > 0]_schedVars
  <2> SUFFICES ASSUME SchedInv, NEW c \in Client, Doing(c, "claim")
               PROVE  schedule[Cur(c)] = "due" \/ mishaps > 0
    OBVIOUS
  <2>1. mishaps \in 0..MaxMishap /\ MaxMishap \in Nat
    BY SchedulerAssumption DEF SchedInv, SchedTypeOK
  <2>2. CASE mishaps = 0
    BY <2>2 DEF SchedInv, Calm, RoundIsDue, RoundIsDueFor
  <2> QED BY <2>1, <2>2
<1> QED BY <1>1, SchedHolds, PTL DEF SchedSpec, ClearedIsLeft

\* The lease is live for one client at a time.
LEMMA LeaseLiveOnce == LeaseSpec => []OneLive
<1>1. LeaseInit => OneLive
  BY DEF LeaseInit, OneLive
<1>2. OneLive /\ [LeaseNext]_leaseVars => OneLive'
  BY DEF OneLive, LeaseNext, Grant, Drop, Expire, leaseVars
<1> QED BY <1>1, <1>2, PTL DEF LeaseSpec

\* The schedulers take, keep and lose the lock by the steps of the lease only, so of
\* their rounds no two are under a live lease.
THEOREM SchedUsesLease == SchedSpec => LeaseSpec /\ []OneLive
<1>1. SchedInit => LeaseInit
  BY DEF SchedInit
<1>2. [SchedNext]_schedVars => [LeaseNext]_leaseVars
  <2> SUFFICES ASSUME [SchedNext]_schedVars PROVE [LeaseNext]_leaseVars
    OBVIOUS
  <2> USE DEF leaseVars
  <2>1. ASSUME NEW c \in Client, Acquire(c) \/ LetGo(c) \/ Perish(c)
        PROVE  Grant(c) \/ Drop(c)
    BY <2>1 DEF Acquire, LetGo, Perish, Drop
  <2>2. ASSUME NEW c \in Client, LeaseOver(c) PROVE Expire({c}) /\ {c} \in SUBSET Client
    BY <2>2 DEF LeaseOver
  <2>3. CASE \E a \in Approval, u \in User :
               Submit(a, u) \/ Decide(a, u) \/ Withdraw(a, u)
    BY <2>3 DEF Submit, Decide, Withdraw, leaseKept
  <2>4. CASE \E a \in Approval : Due(a) \/ HandStart(a) \/ HandEnd(a) \/ Lapse(a)
    BY <2>4 DEF Due, HandStart, HandEnd, Lapse, leaseKept
  <2>5. ASSUME NEW c \in Client, ThreadStep(c) \/ Throw(c), ~LetGo(c)
        PROVE  UNCHANGED <<holding, live>>
    BY <2>5 DEF ThreadStep, Select, Turn, Claim, Start, Finish, Clear, RoundDone, Sweep,
      TakePlace, Throw, leaseKept
  <2>6. CASE (\E u \in User : Bar(u)) \/ Outage \/ Recovery
    BY <2>6 DEF Bar, Outage, Recovery, leaseKept
  <2>7. CASE UNCHANGED schedVars
    BY <2>7 DEF schedVars
  <2> QED BY <2>1, <2>2, <2>3, <2>4, <2>5, <2>6, <2>7 DEF SchedNext, LeaseNext, ThreadStep
<1> QED BY <1>1, <1>2, LeaseLiveOnce, PTL DEF SchedSpec, LeaseSpec
=============================================================================
