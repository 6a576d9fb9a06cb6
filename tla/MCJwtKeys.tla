----------------------------- MODULE MCJwtKeys -----------------------------
(* Small instances of the signing-key protocol.  One tick is about half an  *)
(* hour: CacheTtl 1 (30 min), OverlapWindow 2 (65 min), Skew 0 (30 s).      *)
EXTENDS JwtKeys, TLC

ReplicaSymmetry == Permutations(Replicas)
AllFaults == FaultKinds
LossyReads == {"throw", "empty", "crash"}
Crashes == {"throw", "crash"}
NoFaults == {}
EmptyReads == {"empty"}
RefusedWrites == {"silent"}
=============================================================================
