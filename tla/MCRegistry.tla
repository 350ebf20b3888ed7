----------------------------- MODULE MCRegistry -----------------------------
(* Registry on small instances. *)
EXTENDS Registry, TLC

CONSTANTS v, w, d, e, r1, r2

MCStarting ==
  [r \in Repo |-> IF r = r1 THEN {[tag |-> v, digest |-> d], [tag |-> w, digest |-> d]} ELSE {}]
RegLiveSpec == RegSpec /\ RegFairness
=============================================================================
