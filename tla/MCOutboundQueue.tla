--------------------------- MODULE MCOutboundQueue ---------------------------
(* Model values and small bounds for model checking OutboundQueue.          *)
EXTENDS OutboundQueue, TLC

CONSTANTS m1, m2

(* Rows are interchangeable; used in safety runs only. *)
MCRows == Permutations(Ids)
=============================================================================
