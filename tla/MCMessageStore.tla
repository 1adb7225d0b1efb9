--------------------------- MODULE MCMessageStore ---------------------------
(* Model values and small bounds for model checking MessageStore.           *)
EXTENDS MessageStore, TLC

CONSTANTS r1, r2, a1, a2, e1

(* r1 keeps its newest Keep messages, r2 expires by age. *)
MCPolicy == (r1 :> "nummsgs") @@ (r2 :> "age")

(* Connections are interchangeable; rooms are not once policies differ. *)
MCSymmetry == Permutations(Actors)
=============================================================================
