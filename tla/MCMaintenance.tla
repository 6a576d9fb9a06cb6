--------------------------- MODULE MCMaintenance ---------------------------
(* Small instances of Maintenance.  One tick is a few minutes.             *)
EXTENDS Maintenance

AllUses(r) == Threads
OneWindow == {[off |-> TRUE, from |-> 1, to |-> 9]}
AllFaults == FaultKinds
NoFaults == {}
=============================================================================
