-------------------------------- MODULE DLock --------------------------------
(***************************************************************************)
(* backend/dlock.py: a lock between processes, kept as one row of the      *)
(* table cd_config whose value is "<owner>|<seconds>".  A process that     *)
(* finds the row missing inserts it; one that finds its own or a stale     *)
(* value replaces it if it is still the value read.  Clocks may differ.    *)
(*                                                                         *)
(* A process is one run of the server: its identity embeds a random        *)
(* segment, and a restarted server is another process.  Each process has   *)
(* one thread that uses this lock.                                         *)
(***************************************************************************)
EXTENDS Integers

CONSTANTS
  Process,
  NoOwner,
  TTL,         \* ttl_seconds
  MaxSkew,     \* no clock is further than this from the time
  MaxTime      \* bound of the clock in the model

ASSUME LockAssumption ==
  /\ NoOwner \notin Process
  /\ TTL \in Nat
  /\ MaxSkew \in Nat
  /\ MaxTime \in Nat

VARIABLES
  now,        \* the time
  lock,       \* the row: its owner and stamp; NoOwner: there is no row
  clients     \* the processes' threads

lockVars == <<now, lock, clients>>

Clock == -MaxSkew .. (MaxTime + MaxSkew)
Value == [owner : Process \cup {NoOwner}, stamp : Clock]
NoRow == [owner |-> NoOwner, stamp |-> 0]

\* seen, clock: what acquire read in its first statements; since: when (history).
ClientState == [pc    : {"idle", "inserting", "replacing", "held", "gone"},
                seen  : Value,
                clock : Clock,
                since : 0..MaxTime]
NewClient == [pc |-> "idle", seen |-> NoRow, clock |-> 0, since |-> 0]

Init ==
  /\ now = 0
  /\ lock = NoRow
  /\ clients = [p \in Process |-> NewClient]

At(p, pc)   == clients[p].pc = pc
Hold(p)     == clients' = [clients EXCEPT ![p] = [@ EXCEPT !.pc = "held", !.seen = NoRow]]
Quit(p, pc) == clients' = [clients EXCEPT ![p] = [NewClient EXCEPT !.pc = pc]]

-----------------------------------------------------------------------------
\* is_mine or is_stale
MayReplace(p, old, t) == old.owner = p \/ t - old.stamp >= TTL

\* acquire reads its clock and the row.  It returns at once when another
\* process holds the lock.
Look(p) ==
  /\ At(p, "idle")
  /\ \E t \in Clock :
       /\ now - MaxSkew <= t /\ t <= now + MaxSkew
       /\ \/ lock = NoRow
          \/ MayReplace(p, lock, t)
       /\ clients' = [clients EXCEPT ![p] =
            [pc |-> IF lock = NoRow THEN "inserting" ELSE "replacing",
             seen |-> lock, clock |-> t, since |-> now]]
  /\ UNCHANGED <<now, lock>>

\* Mutant of Insert: the stamp is in milliseconds.
InsertMillis(p) ==
  /\ At(p, "inserting")
  /\ lock = NoRow
  /\ lock' = [owner |-> p, stamp |-> 1000 * clients[p].clock]
  /\ Hold(p)
  /\ UNCHANGED now

\* INSERT.  The primary key admits one row; a conflict answers False.
Insert(p) ==
  /\ At(p, "inserting")
  /\ IF lock = NoRow
     THEN lock' = [owner |-> p, stamp |-> clients[p].clock] /\ Hold(p)
     ELSE Quit(p, "idle") /\ UNCHANGED lock
  /\ UNCHANGED now

\* Mutant of Replace: the value read is not compared.
ReplaceUnchecked(p) ==
  /\ At(p, "replacing")
  /\ lock' = [owner |-> p, stamp |-> clients[p].clock]
  /\ Hold(p)
  /\ UNCHANGED now

\* UPDATE ... WHERE value = old.  A renewal within the same second changes
\* nothing, which MySQL counts as no row.
Replace(p) ==
  /\ At(p, "replacing")
  /\ LET new == [owner |-> p, stamp |-> clients[p].clock]
     IN  IF lock = clients[p].seen
         THEN /\ lock' = new
              /\ Hold(p) \/ (lock = new /\ Quit(p, "idle"))
         ELSE Quit(p, "idle") /\ UNCHANGED lock
  /\ UNCHANGED now

\* The statement or its commit fails: False, though the commit may have come
\* through.
AcquireFails(p) ==
  /\ At(p, "inserting") \/ At(p, "replacing")
  /\ \/ UNCHANGED lock
     \/ /\ lock = clients[p].seen
        /\ lock' = [owner |-> p, stamp |-> clients[p].clock]
  /\ Quit(p, "idle")
  /\ UNCHANGED now

\* A round is over and the row stays (registry sync, alert check; a release
\* that fails) ...
EndRound(p) ==
  /\ At(p, "held")
  /\ Quit(p, "idle")
  /\ UNCHANGED <<now, lock>>

\* Mutant of Release: whoever owns the row.
ReleaseAnybodys(p) ==
  /\ At(p, "held")
  /\ lock' = NoRow
  /\ Quit(p, "idle")
  /\ UNCHANGED now

\* ... or is deleted, if it is one's own: after every round of the scheduler, and
\* at the end of a thread.
Release(p) ==
  /\ At(p, "held") \/ At(p, "idle")
  /\ lock' = IF lock.owner = p THEN NoRow ELSE lock
  /\ Quit(p, "idle")
  /\ UNCHANGED now

Crash(p) ==
  /\ ~At(p, "gone")
  /\ Quit(p, "gone")
  /\ UNCHANGED <<now, lock>>

Tick ==
  /\ now < MaxTime
  /\ now' = now + 1
  /\ UNCHANGED <<lock, clients>>

Next ==
  \/ \E p \in Process :
       \/ Look(p) \/ Insert(p) \/ Replace(p) \/ AcquireFails(p)
       \/ EndRound(p) \/ Release(p) \/ Crash(p)
  \/ Tick

Spec == Init /\ [][Next]_lockVars

-----------------------------------------------------------------------------
LockTypeOK ==
  /\ now \in 0..MaxTime
  /\ lock \in Value
  /\ clients \in [Process -> ClientState]

\* The lease of a process lasts from the moment acquire looked, for the time to
\* live less what two clocks may differ.
Holding == {p \in Process : At(p, "held")}
Live    == {p \in Holding : now < clients[p].since + TTL - 2 * MaxSkew}

\* A live lease is backed by the row.
LiveOwns ==
  \A p \in Live : lock = [owner |-> p, stamp |-> clients[p].clock]

\* Of two processes in the sections the lock protects, one has been there for
\* its time to live: the comparison in the UPDATE, the primary key and the
\* check of the owner in release together keep everybody else out
\* (dlock.py:21, "False while another process holds the lock").
LeaseOf == INSTANCE Lease WITH Client <- Process, holding <- Holding, live <- Live
ImplementsLease == LeaseOf!LeaseSpec
=============================================================================
