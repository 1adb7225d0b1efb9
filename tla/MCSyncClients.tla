---------------------------- MODULE MCSyncClients ----------------------------
(* Model values and small bounds for model checking SyncClients.            *)
EXTENDS SyncClients, TLC

CONSTANTS r1, r2, a1, a2, e1, e2

MCPolicy == [r \in Rooms |-> "manual"]
=============================================================================
