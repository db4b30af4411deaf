------------------------- MODULE MCSyncCoordinator -------------------------
(***************************************************************************)
(* SyncCoordinator on small instances.                                     *)
(***************************************************************************)
EXTENDS SyncCoordinator

\* Requests in turn while two calls or leases fail, or at once while none does.
InTurn == [overlap |-> FALSE, faults |-> 2]
AtOnce == [overlap |-> TRUE, faults |-> 0]
Both == {InTurn, AtOnce}
OneFault == {[overlap |-> FALSE, faults |-> 1]}
=============================================================================
