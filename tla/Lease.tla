-------------------------------- MODULE Lease --------------------------------
(***************************************************************************)
(* What the distributed lock promises: a client that was granted the lock  *)
(* works under it until it drops it; its lease is live for a while and     *)
(* then over, whether it is still working or not; and while a lease is     *)
(* live, nobody else is granted the lock.                                  *)
(***************************************************************************)
EXTENDS FiniteSets

CONSTANT Client

VARIABLES
  holding,    \* clients that work under the lock
  live        \* those of them whose lease is not over

leaseVars == <<holding, live>>

LeaseInit == holding = {} /\ live = {}

\* The answer to a request may come when the lease is over already.
Grant(c) ==
  /\ live \subseteq {c}
  /\ holding' = holding \cup {c}
  /\ live' \in {{}, {c}}

Drop(c) ==
  /\ holding' = holding \ {c}
  /\ live' = live \ {c}

Expire(S) ==
  /\ live' = live \ S
  /\ UNCHANGED holding

LeaseNext ==
  \/ \E c \in Client : Grant(c) \/ Drop(c)
  \/ \E S \in SUBSET Client : Expire(S)

LeaseSpec == LeaseInit /\ [][LeaseNext]_leaseVars

\* No two leases are live at a time.
OneLive == \A c, d \in live : c = d
=============================================================================
