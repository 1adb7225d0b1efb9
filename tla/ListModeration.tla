--------------------------- MODULE ListModeration ---------------------------
(***************************************************************************)
(* Messages held for a list's moderators (core/src/listserv.cpp: Hold,     *)
(* Approve, Reject; http/src/web_admin_lists.cpp).  Approve reads the row, *)
(* posts the message into the room and marks the row, as three calls.      *)
(***************************************************************************)
EXTENDS Naturals

CONSTANTS
    Moderators,     \* connections that approve and reject
    HeldIds,        \* messages that come in for moderation
    NoHeld,         \* none of them
    MaxPosted       \* bound: times one message is posted

ASSUME ModerationAssumption == NoHeld \notin HeldIds /\ MaxPosted \in Nat

VARIABLES
    held,       \* citadel_list_held: the state of each row
    modq,       \* what each moderator's Approve is doing
    posted,     \* times each message was posted into the room
    doubly      \* rows two moderators had at once, or that were left unmarked

mvars == <<held, modq, posted, doubly>>

ModIdle == [pc |-> "idle", id |-> NoHeld]

ModerationTypeOK ==
    /\ held \in [HeldIds -> {"none", "held", "approved", "rejected", "gone"}]
    /\ modq \in [Moderators -> [pc : {"idle", "post", "mark"}, id : HeldIds \cup {NoHeld}]]
    /\ posted \in [HeldIds -> 0..MaxPosted] /\ doubly \subseteq HeldIds
    /\ \A h \in HeldIds : held[h] = "approved" => posted[h] > 0

ModerationInit ==
    /\ held = [h \in HeldIds |-> "none"] /\ modq = [d \in Moderators |-> ModIdle]
    /\ posted = [h \in HeldIds |-> 0] /\ doubly = {}

Hold(h) ==
    /\ held[h] = "none"
    /\ held' = [held EXCEPT ![h] = "held"]
    /\ UNCHANGED <<modq, posted, doubly>>

Others(d, h) == \E e \in Moderators \ {d} : modq[e].id = h

(* Deviation: the row is looked up by its id alone. *)
ApproveReadAny(d, h) ==
    /\ modq[d].pc = "idle" /\ held[h] \notin {"none", "gone"}
    /\ modq' = [modq EXCEPT ![d] = [pc |-> "post", id |-> h]]
    /\ doubly' = IF Others(d, h) THEN doubly \cup {h} ELSE doubly
    /\ UNCHANGED <<held, posted>>

ApproveRead(d, h) ==
    /\ modq[d].pc = "idle" /\ held[h] = "held"
    /\ modq' = [modq EXCEPT ![d] = [pc |-> "post", id |-> h]]
    /\ doubly' = IF Others(d, h) THEN doubly \cup {h} ELSE doubly
    /\ UNCHANGED <<held, posted>>

(* LocalDeliver into the room, which may fail. *)
ApprovePost(d) ==
    /\ modq[d].pc = "post"
    /\ \/ /\ posted[modq[d].id] < MaxPosted
          /\ posted' = [posted EXCEPT ![modq[d].id] = @ + 1]
          /\ modq' = [modq EXCEPT ![d].pc = "mark"]
       \/ modq' = [modq EXCEPT ![d] = ModIdle] /\ UNCHANGED posted
    /\ UNCHANGED <<held, doubly>>

(* Whatever the row's state is by now; a row that is gone stays gone. *)
ApproveMark(d) ==
    /\ modq[d].pc = "mark"
    /\ held' = [held EXCEPT ![modq[d].id] = IF @ = "gone" THEN @ ELSE "approved"]
    /\ modq' = [modq EXCEPT ![d] = ModIdle]
    /\ UNCHANGED <<posted, doubly>>

Reject(h) ==
    /\ held[h] = "held"
    /\ held' = [held EXCEPT ![h] = "rejected"]
    /\ doubly' = IF \E d \in Moderators : modq[d].id = h THEN doubly \cup {h} ELSE doubly
    /\ UNCHANGED <<modq, posted>>

(* RemoveList deletes the rows. *)
HeldRemoved ==
    /\ \E h \in HeldIds : held[h] # "gone"
    /\ held' = [h \in HeldIds |-> IF held[h] = "none" THEN "none" ELSE "gone"]
    /\ held' # held
    /\ UNCHANGED <<modq, posted, doubly>>

(* The process dies, or the UPDATE fails. *)
ApproveLost(d) ==
    /\ modq[d].pc # "idle"
    /\ doubly' = IF modq[d].pc = "mark" THEN doubly \cup {modq[d].id} ELSE doubly
    /\ modq' = [modq EXCEPT ![d] = ModIdle]
    /\ UNCHANGED <<held, posted>>

ModerationNext ==
    \/ \E h \in HeldIds : Hold(h) \/ Reject(h)
    \/ \E d \in Moderators : (\E h \in HeldIds : ApproveRead(d, h)) \/ ApprovePost(d) \/ ApproveMark(d) \/ ApproveLost(d)
    \/ HeldRemoved

ModerationSpec == ModerationInit /\ [][ModerationNext]_mvars

-----------------------------------------------------------------------------
(* Properties *)

(* "an approved message cannot be sent twice": nor is one that was rejected *)
(* sent at all, unless two moderators had it at once or the process died    *)
(* before it was marked.                                                    *)
ApprovedOnce ==
    \A h \in HeldIds \ doubly : posted[h] <= IF held[h] = "rejected" THEN 0 ELSE 1

(* The same without the exception. *)
ApprovedOnceAlways == \A h \in HeldIds : posted[h] <= 1
=============================================================================
