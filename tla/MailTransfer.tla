---------------------------- MODULE MailTransfer ----------------------------
(***************************************************************************)
(* What the outbound queue promises, whatever it does about hosts, batches, *)
(* backoff and restarts: a message that was taken in is handed over to the  *)
(* remote side, and it is called sent only after it was. A second copy is   *)
(* handed over only of a message whose first delivery is in doubt.          *)
(***************************************************************************)
EXTENDS Naturals

CONSTANT Messages

VARIABLES fate,      \* what became of each message, as the server tells it
          taken,     \* copies the remote side has, counted up to 2
          doubted    \* messages that may be handed over again

tvars == <<fate, taken, doubted>>

TransferInit ==
    /\ fate = [m \in Messages |-> "none"]
    /\ taken = [m \in Messages |-> 0]
    /\ doubted = {}

Accept(m) ==
    /\ fate[m] = "none"
    /\ fate' = [fate EXCEPT ![m] = "open"]
    /\ UNCHANGED <<taken, doubted>>

(* The remote side takes a copy; the server may or may not hear of it. *)
HandOver(m) ==
    /\ fate[m] = "open"
    /\ taken[m] = 0 \/ m \in doubted
    /\ taken' = [taken EXCEPT ![m] = IF @ < 2 THEN @ + 1 ELSE 2]
    /\ doubted' \in {doubted, doubted \cup {m}}
    /\ UNCHANGED fate

(* A death after a copy was taken, before that was recorded. *)
Doubt(m) ==
    /\ fate[m] = "open" /\ taken[m] > 0
    /\ doubted' = doubted \cup {m}
    /\ UNCHANGED <<fate, taken>>

Settle(m) ==
    /\ fate[m] = "open"
    /\ \/ taken[m] > 0 /\ fate' = [fate EXCEPT ![m] = "sent"]
       \/ fate' = [fate EXCEPT ![m] = "failed"]
    /\ UNCHANGED <<taken, doubted>>

(* The administrator sends one message again, whatever became of it ... *)
SendAgain(m) ==
    /\ fate[m] # "none"
    /\ fate' = [fate EXCEPT ![m] = "open"]
    /\ doubted' = doubted \cup {m}
    /\ UNCHANGED taken

(* ... or all that failed. *)
ReopenFailed ==
    /\ fate' = [m \in Messages |-> IF fate[m] = "failed" THEN "open" ELSE fate[m]]
    /\ UNCHANGED <<taken, doubted>>

TransferNext ==
    \/ \E m \in Messages : Accept(m) \/ HandOver(m) \/ Doubt(m) \/ Settle(m) \/ SendAgain(m)
    \/ ReopenFailed

TransferSpec == TransferInit /\ [][TransferNext]_tvars
=============================================================================
