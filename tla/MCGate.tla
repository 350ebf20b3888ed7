------------------------------- MODULE MCGate -------------------------------
(* Two threads of a process over SQLite; two replicas over MySQL. *)
EXTENDS ContractGate, TLC

CONSTANTS p1, p2, t1, t2

MCReplicas == [driver |-> "mysql", home |-> (t1 :> p1) @@ (t2 :> p2)]
MCSites == {[driver |-> "sqlite", home |-> (t1 :> p1) @@ (t2 :> p1)], MCReplicas}

GateLiveSpec == GateSpec /\ GateFairness
=============================================================================
