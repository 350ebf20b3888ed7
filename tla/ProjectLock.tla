----------------------------- MODULE ProjectLock -----------------------------
(***************************************************************************)
(* What the table of deployments promises about projects: a lock per       *)
(* project, taken only while it is free and by one holder, a holder having *)
(* one lock, and given up without being handed over: after a holder has    *)
(* gone the lock has been free.  Several locks may be given up at once (a  *)
(* sweep).  Nobody has to give up anything.                                *)
(***************************************************************************)
CONSTANTS Project, Holder, Free   \* Free is not a Holder

VARIABLE holder    \* project -> its holder, or Free

LockInit == holder = [p \in Project |-> Free]

Take(p, h) ==
  /\ holder[p] = Free
  /\ \A q \in Project : holder[q] # h
  /\ holder' = [holder EXCEPT ![p] = h]

Drop(S) == holder' = [p \in Project |-> IF p \in S THEN Free ELSE holder[p]]

LockNext ==
  \/ \E p \in Project, h \in Holder : Take(p, h)
  \/ \E S \in SUBSET Project : Drop(S)

LockSpec == LockInit /\ [][LockNext]_holder
=============================================================================
