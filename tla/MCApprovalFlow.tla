---------------------------- MODULE MCApprovalFlow ----------------------------
(* ApprovalFlow on small instances. *)
EXTENDS ApprovalFlow, TLC
CONSTANTS i1, i2, w1, w2, p1, dev, lead

Direct    == [project |-> p1, ruled |-> FALSE, scheduled |-> FALSE]
Ruled     == [project |-> p1, ruled |-> TRUE,  scheduled |-> FALSE]
Scheduled == [project |-> p1, ruled |-> FALSE, scheduled |-> TRUE]
MCMixed == {Direct, Ruled}
MCAll   == {Direct, Ruled, Scheduled}

MCHome == (w1 :> i1) @@ (w2 :> i2)

\* Users are alike, and so are the processes, each with its worker.
Swap == (i1 :> i2) @@ (i2 :> i1) @@ (w1 :> w2) @@ (w2 :> w1)
MCSymmetry == Permutations({dev, lead}) \cup {Swap}
                \cup {u @@ Swap : u \in Permutations({dev, lead})}
=============================================================================
