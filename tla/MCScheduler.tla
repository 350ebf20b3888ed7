----------------------------- MODULE MCScheduler -----------------------------
EXTENDS Scheduler, TLC

MCSymmetry == Permutations(Client) \cup Permutations(Approval)
SchedLiveSpec == SchedSpec /\ SchedFairness
=============================================================================
