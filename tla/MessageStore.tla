---------------------------- MODULE MessageStore ----------------------------
(***************************************************************************)
(* The room/message store of core/src/citadel_store.cpp: message rows,     *)
(* room pointers, tombstones and the one sequence that numbers both, as    *)
(* several connections change them at once.                                *)
(*                                                                         *)
(* A connection runs one thread, and every SQL statement outside           *)
(* InsertMessage commits by itself, so an operation here is a sequence of  *)
(* steps, one per statement, and another connection may run between any    *)
(* two of them.  InsertMessage is the one transaction: its writes show at  *)
(* COMMIT, and DuckDB aborts it when a citadel_rooms row it updates was    *)
(* committed by somebody else after it began, or is being updated by a     *)
(* transaction that has not committed yet.                                 *)
(***************************************************************************)
EXTENDS Integers, FiniteSets

CONSTANTS
    Rooms,      \* rows of citadel_rooms; they neither come nor go here
    Actors,     \* connections
    Euids,      \* identities of replaceable groupware objects
    NoEuid,     \* the empty euid of ordinary mail
    Ops,        \* the operations this instance's connections perform
    Policy,     \* effective expiry policy of each room
    Keep,       \* how many messages EXPIRE_NUMMSGS keeps
    MaxSeq      \* where citadel_msg_seq runs out, the bound of an instance

AllOps == {"insert", "delete", "move", "copy", "upsert", "expire", "crash"}
Policies == {"manual", "nummsgs", "age"}

ASSUME RoomsAssumption == Rooms # {} /\ IsFiniteSet(Rooms)
ASSUME EuidAssumption == NoEuid \notin Euids
ASSUME OpsAssumption == Ops \subseteq AllOps
ASSUME PolicyAssumption == Policy \in [Rooms -> Policies]
ASSUME BoundAssumption == MaxSeq \in Nat /\ Keep \in Nat \ {0}

VARIABLES
    seq,        \* last value handed out by nextval('citadel_msg_seq')
    messages,   \* msgnums with a row in citadel_messages
    euid,       \* the euid column, by msgnum
    pointers,   \* citadel_room_msgs: pairs <<room, msgnum>>
    highest,    \* citadel_rooms.highest_msg
    tombs,      \* citadel_room_tombstones
    job         \* what each connection is in the middle of

vars == <<seq, messages, euid, pointers, highest, tombs, job>>

Nums == 1..MaxSeq
Tombstones == [room : Rooms, seq : Nums, num : Nums, euid : Euids \cup {NoEuid}]

Pcs == {"idle", "begin", "alloc", "write", "commit", "link", "raise", "check",
        "read", "unlink", "tombseq", "tombstone", "sweep", "doom", "purge"}

Jobs == [pc : Pcs, op : AllOps \cup {"none"},
         room : Rooms,              \* room an unlink works on
         dest : Rooms,              \* MoveMessage's to_room
         num : 0..MaxSeq,           \* message an unlink or a move works on
         made : 0..MaxSeq,          \* number InsertMessage allocated
         text : Euids \cup {NoEuid}, \* euid of the message being inserted
         gone : Euids \cup {NoEuid}, \* euid Unlink read for its tombstone
         tseq : 0..MaxSeq,          \* sequence value taken for the tombstone
         targets : SUBSET Rooms,    \* rooms InsertMessage files into
         stale : SUBSET Rooms,      \* room rows committed since its BEGIN
         todo : SUBSET Rooms,       \* rooms RunExpiry has not reached
         doomed : SUBSET Nums, unlinked : SUBSET Nums]

IdleJob == [pc |-> "idle", op |-> "none", room |-> CHOOSE r \in Rooms : TRUE,
            dest |-> CHOOSE r \in Rooms : TRUE, num |-> 0, made |-> 0,
            text |-> NoEuid, gone |-> NoEuid, tseq |-> 0, targets |-> {},
            stale |-> {}, todo |-> {}, doomed |-> {}, unlinked |-> {}]

TypeOK ==
    /\ seq \in 0..MaxSeq
    /\ messages \in SUBSET Nums
    /\ euid \in [Nums -> Euids \cup {NoEuid}]
    /\ pointers \in SUBSET (Rooms \X Nums)
    /\ highest \in [Rooms -> 0..MaxSeq]
    /\ tombs \in SUBSET Tombstones
    /\ job \in [Actors -> Jobs]

Init ==
    /\ seq = 0
    /\ messages = {}
    /\ euid = [n \in Nums |-> NoEuid]
    /\ pointers = {}
    /\ highest = [r \in Rooms |-> 0]
    /\ tombs = {}
    /\ job = [a \in Actors |-> IdleJob]

-----------------------------------------------------------------------------
(* Queries *)

MessageInRoom(r, n) == <<r, n>> \in pointers

RoomMessages(r) == {n \in Nums : <<r, n>> \in pointers}

(* Deviations: highest_msg is overwritten, or never raised. *)
GreatestOverwritten(m, n) == n
GreatestForgotten(m, n) == m

Greatest(m, n) == IF m >= n THEN m ELSE n

(* The newest message of the room that carries the euid; 0 for "none". *)
FindByEuid(r, e) ==
    LET found == {n \in RoomMessages(r) : n \in messages /\ euid[n] = e}
        Newest(n) == n \in found /\ \A m \in found : m <= n
    IN  IF \E n \in Nums : Newest(n) THEN CHOOSE n \in Nums : Newest(n) ELSE 0

(* Deviation: a store without write-write conflicts. *)
RowNeverHeld(a, r) == FALSE

(* DuckDB's write-write rule for the citadel_rooms row of r: somebody else *)
(* holds an uncommitted update of it.                                      *)
RowHeldByOther(a, r) ==
    \E b \in Actors \ {a} : job[b].pc = "commit" /\ r \in job[b].targets

InTransaction(b) == job[b].pc \in {"alloc", "write"}

(* The job map after a commits an update of the rows in rs and becomes j: *)
(* the snapshots of the other open transactions are now behind on rs.     *)
CommitRows(a, rs, j) ==
    [b \in Actors |->
        IF b = a THEN j
        ELSE IF InTransaction(b) THEN [job[b] EXCEPT !.stale = @ \cup rs]
        ELSE job[b]]

-----------------------------------------------------------------------------
(* InsertMessage *)

BeginInsert(a, rs, e) ==
    /\ "insert" \in Ops
    /\ job[a].pc = "idle"
    /\ job' = [job EXCEPT ![a] =
                 [IdleJob EXCEPT !.pc = "alloc", !.op = "insert",
                                 !.targets = rs, !.text = e]]
    /\ UNCHANGED <<seq, messages, euid, pointers, highest, tombs>>

(* A target room's owner is over quota, or no number is to be had: ROLLBACK. *)
InsertRefused(a) ==
    /\ job[a].pc = "alloc"
    /\ job' = [job EXCEPT ![a] = IdleJob]
    /\ UNCHANGED <<seq, messages, euid, pointers, highest, tombs>>

(* Deviation: the end of the sequence is found one number late. *)
InsertAllocLate(a) ==
    /\ job[a].pc = "alloc"
    /\ seq <= MaxSeq
    /\ seq' = seq + 1
    /\ job' = [job EXCEPT ![a].pc = "write", ![a].made = seq + 1]
    /\ UNCHANGED <<messages, euid, pointers, highest, tombs>>

InsertAlloc(a) ==
    /\ job[a].pc = "alloc"
    /\ seq < MaxSeq
    /\ seq' = seq + 1
    /\ job' = [job EXCEPT ![a].pc = "write", ![a].made = seq + 1]
    /\ UNCHANGED <<messages, euid, pointers, highest, tombs>>

(* The row, the pointers and the highest_msg updates, private until COMMIT. *)
(* A conflicting update invalidates the transaction, so it is rolled back.  *)
InsertWrite(a) ==
    /\ job[a].pc = "write"
    /\ job' = [job EXCEPT ![a] =
                 IF \E r \in job[a].targets : r \in job[a].stale \/ RowHeldByOther(a, r)
                 THEN IdleJob
                 ELSE [@ EXCEPT !.pc = "commit"]]
    /\ UNCHANGED <<seq, messages, euid, pointers, highest, tombs>>

InsertCommit(a) ==
    LET j == job[a]
        replaced == j.op = "upsert" /\ j.num # 0
    IN  /\ j.pc = "commit"
        /\ messages' = messages \cup {j.made}
        /\ euid' = [euid EXCEPT ![j.made] = j.text]
        /\ pointers' = pointers \cup (j.targets \X {j.made})
        /\ highest' = [r \in Rooms |-> IF r \in j.targets THEN Greatest(highest[r], j.made)
                                       ELSE highest[r]]
        /\ job' = CommitRows(a, j.targets,
                    IF replaced THEN [j EXCEPT !.pc = "check"] ELSE IdleJob)
        /\ UNCHANGED <<seq, tombs>>

-----------------------------------------------------------------------------
(* UpsertByEuid: FindByEuid, InsertMessage, then DeleteMessage of the old.  *)
(* In a wiki room RecordRevision comes in between; see the README.          *)

(* Deviation: the old version is unlinked before the new one is inserted. *)
BeginUpsertUnlinkFirst(a, r, e) ==
    LET old == FindByEuid(r, e) IN
    /\ "upsert" \in Ops
    /\ job[a].pc = "idle"
    /\ job' = [job EXCEPT ![a] =
                 [IdleJob EXCEPT !.pc = IF old = 0 THEN "begin" ELSE "check", !.op = "upsert",
                                 !.room = r, !.targets = {r}, !.text = e, !.num = old]]
    /\ UNCHANGED <<seq, messages, euid, pointers, highest, tombs>>

BeginUpsert(a, r, e) ==
    /\ "upsert" \in Ops
    /\ job[a].pc = "idle"
    /\ job' = [job EXCEPT ![a] =
                 [IdleJob EXCEPT !.pc = "begin", !.op = "upsert", !.room = r,
                                 !.targets = {r}, !.text = e, !.num = FindByEuid(r, e)]]
    /\ UNCHANGED <<seq, messages, euid, pointers, highest, tombs>>

UpsertTransaction(a) ==
    /\ job[a].pc = "begin"
    /\ job' = [job EXCEPT ![a].pc = "alloc", ![a].stale = {}]
    /\ UNCHANGED <<seq, messages, euid, pointers, highest, tombs>>

-----------------------------------------------------------------------------
(* DeleteMessage and the Unlink it shares with MoveMessage *)

BeginDelete(a, r, n) ==
    /\ "delete" \in Ops
    /\ job[a].pc = "idle"
    /\ MessageInRoom(r, n)
    /\ job' = [job EXCEPT ![a] =
                 [IdleJob EXCEPT !.pc = "read", !.op = "delete", !.room = r, !.num = n]]
    /\ UNCHANGED <<seq, messages, euid, pointers, highest, tombs>>

(* DeleteMessage(old) at the end of an upsert; its failure is ignored. *)
UpsertDelete(a) ==
    /\ job[a].pc = "check"
    /\ job' = [job EXCEPT ![a] =
                 IF MessageInRoom(job[a].room, job[a].num)
                 THEN [@ EXCEPT !.pc = "read"]
                 ELSE IdleJob]
    /\ UNCHANGED <<seq, messages, euid, pointers, highest, tombs>>

UnlinkReadEuid(a) ==
    LET n == job[a].num IN
    /\ job[a].pc = "read"
    /\ job' = [job EXCEPT ![a].pc = "unlink",
                          ![a].gone = IF n \in messages THEN euid[n] ELSE NoEuid]
    /\ UNCHANGED <<seq, messages, euid, pointers, highest, tombs>>

(* Deviation: the DELETE fails and Unlink does not notice. *)
UnlinkPointerUnchecked(a) ==
    /\ job[a].pc = "unlink"
    /\ job' = [job EXCEPT ![a].pc = "tombseq"]
    /\ UNCHANGED <<seq, messages, euid, pointers, highest, tombs>>

UnlinkPointer(a) ==
    /\ job[a].pc = "unlink"
    /\ pointers' = pointers \ {<<job[a].room, job[a].num>>}
    /\ job' = [job EXCEPT ![a].pc = "tombseq"]
    /\ UNCHANGED <<seq, messages, euid, highest, tombs>>

(* Deviation: the tombstone takes the current number instead of the next. *)
UnlinkSeqCurrent(a) ==
    /\ job[a].pc = "tombseq"
    /\ job' = [job EXCEPT ![a].pc = "tombstone", ![a].tseq = seq]
    /\ UNCHANGED <<seq, messages, euid, pointers, highest, tombs>>

UnlinkSeq(a) ==
    /\ job[a].pc = "tombseq"
    /\ seq < MaxSeq
    /\ seq' = seq + 1
    /\ job' = [job EXCEPT ![a].pc = "tombstone", ![a].tseq = seq + 1]
    /\ UNCHANGED <<messages, euid, pointers, highest, tombs>>

(* Unlink returns: a sweep goes on to its next message, the rest are done. *)
UnlinkReturn(j) ==
    IF j.op = "expire"
    THEN [j EXCEPT !.pc = "doom", !.unlinked = @ \cup {j.num}]
    ELSE IdleJob

(* nextval gave nothing: the pointer is gone and no tombstone says so. *)
UnlinkSeqFails(a) ==
    /\ job[a].pc = "tombseq"
    /\ seq = MaxSeq
    /\ job' = [job EXCEPT ![a] = UnlinkReturn(@)]
    /\ UNCHANGED <<seq, messages, euid, pointers, highest, tombs>>

UnlinkTombstone(a) ==
    LET j == job[a] IN
    /\ j.pc = "tombstone"
    /\ tombs' = tombs \cup {[room |-> j.room, seq |-> j.tseq, num |-> j.num, euid |-> j.gone]}
    /\ job' = [job EXCEPT ![a] = UnlinkReturn(j)]
    /\ UNCHANGED <<seq, messages, euid, pointers, highest>>

-----------------------------------------------------------------------------
(* MoveMessage *)

BeginMove(a, op, from, to, n) ==
    /\ op \in Ops \cap {"move", "copy"}
    /\ job[a].pc = "idle"
    /\ MessageInRoom(from, n)
    /\ from # to
    /\ job' = [job EXCEPT ![a] =
                 [IdleJob EXCEPT !.pc = "link", !.op = op, !.room = from, !.dest = to, !.num = n]]
    /\ UNCHANGED <<seq, messages, euid, pointers, highest, tombs>>

MoveLink(a) ==
    /\ job[a].pc = "link"
    /\ pointers' = pointers \cup {<<job[a].dest, job[a].num>>}
    /\ job' = [job EXCEPT ![a].pc = "raise"]
    /\ UNCHANGED <<seq, messages, euid, highest, tombs>>

(* The result of this UPDATE is not looked at: when an InsertMessage holds *)
(* the row, the statement fails and the counter stays where it was.        *)
MoveRaiseHighest(a) ==
    LET j == job[a]
        done == IF j.op = "copy" THEN IdleJob ELSE [j EXCEPT !.pc = "read"]
    IN  /\ j.pc = "raise"
        /\ IF RowHeldByOther(a, j.dest)
           THEN /\ job' = [job EXCEPT ![a] = done]
                /\ UNCHANGED highest
           ELSE /\ job' = CommitRows(a, {j.dest}, done)
                /\ highest' = [highest EXCEPT ![j.dest] = Greatest(@, j.num)]
        /\ UNCHANGED <<seq, messages, euid, pointers, tombs>>

-----------------------------------------------------------------------------
(* RunExpiry: rooms, then the doomed of each room, then the unlinked rows *)

Doomable(r) ==
    CASE Policy[r] = "manual"  -> {{}}
      [] Policy[r] = "nummsgs" ->
            {{n \in RoomMessages(r) :
                 Cardinality({m \in RoomMessages(r) : m > n}) >= Keep}}
      [] Policy[r] = "age"     -> SUBSET (RoomMessages(r) \cap messages)

BeginExpiry(a) ==
    /\ "expire" \in Ops
    /\ job[a].pc = "idle"
    /\ job' = [job EXCEPT ![a] =
                 [IdleJob EXCEPT !.pc = "sweep", !.op = "expire", !.todo = Rooms]]
    /\ UNCHANGED <<seq, messages, euid, pointers, highest, tombs>>

ExpirySweepRoom(a, r) ==
    /\ job[a].pc = "sweep"
    /\ r \in job[a].todo
    /\ \E d \in Doomable(r) :
          job' = [job EXCEPT ![a].pc = "doom", ![a].room = r, ![a].doomed = d,
                             ![a].todo = @ \ {r}]
    /\ UNCHANGED <<seq, messages, euid, pointers, highest, tombs>>

ExpiryDeleteNext(a, n) ==
    LET j == job[a] IN
    /\ j.pc = "doom"
    /\ n \in j.doomed
    /\ \A m \in j.doomed : n <= m
    /\ job' = [job EXCEPT ![a] =
                 IF MessageInRoom(j.room, n)
                 THEN [j EXCEPT !.pc = "read", !.num = n, !.doomed = @ \ {n}]
                 ELSE [j EXCEPT !.doomed = @ \ {n}]]
    /\ UNCHANGED <<seq, messages, euid, pointers, highest, tombs>>

ExpiryRoomDone(a) ==
    /\ job[a].pc = "doom"
    /\ job[a].doomed = {}
    /\ job' = [job EXCEPT ![a].pc = IF job[a].todo = {} THEN "purge" ELSE "sweep"]
    /\ UNCHANGED <<seq, messages, euid, pointers, highest, tombs>>

(* Deviation: the purge drops the NOT EXISTS test. *)
ExpiryPurgeRowBlindly(a, n) ==
    /\ job[a].pc = "purge"
    /\ n \in job[a].unlinked
    /\ messages' = messages \ {n}
    /\ job' = [job EXCEPT ![a].unlinked = @ \ {n}]
    /\ UNCHANGED <<seq, euid, pointers, highest, tombs>>

(* One DELETE ... WHERE NOT EXISTS: test and removal are one statement. *)
ExpiryPurgeRow(a, n) ==
    /\ job[a].pc = "purge"
    /\ n \in job[a].unlinked
    /\ messages' = IF \E r \in Rooms : <<r, n>> \in pointers
                   THEN messages ELSE messages \ {n}
    /\ job' = [job EXCEPT ![a].unlinked = @ \ {n}]
    /\ UNCHANGED <<seq, euid, pointers, highest, tombs>>

ExpiryDone(a) ==
    /\ job[a].pc = "purge"
    /\ job[a].unlinked = {}
    /\ job' = [job EXCEPT ![a] = IdleJob]
    /\ UNCHANGED <<seq, messages, euid, pointers, highest, tombs>>

-----------------------------------------------------------------------------
(* The process dies: open transactions roll back, committed statements stay. *)
Crash ==
    /\ "crash" \in Ops
    /\ \E a \in Actors : job[a].pc # "idle"
    /\ job' = [a \in Actors |-> IdleJob]
    /\ UNCHANGED <<seq, messages, euid, pointers, highest, tombs>>

InsertStep(a) ==
    \/ \E rs \in (SUBSET Rooms) \ {{}}, e \in Euids \cup {NoEuid} : BeginInsert(a, rs, e)
    \/ InsertRefused(a)
    \/ InsertAlloc(a)
    \/ InsertWrite(a)
    \/ InsertCommit(a)

UpsertStep(a) ==
    \/ \E r \in Rooms, e \in Euids : BeginUpsert(a, r, e)
    \/ UpsertTransaction(a)
    \/ UpsertDelete(a)

UnlinkStep(a) ==
    \/ \E r \in Rooms, n \in Nums : BeginDelete(a, r, n)
    \/ UnlinkReadEuid(a)
    \/ UnlinkPointer(a)
    \/ UnlinkSeq(a)
    \/ UnlinkSeqFails(a)
    \/ UnlinkTombstone(a)

MoveStep(a) ==
    \/ \E op \in {"move", "copy"}, from, to \in Rooms, n \in Nums : BeginMove(a, op, from, to, n)
    \/ MoveLink(a)
    \/ MoveRaiseHighest(a)

ExpiryStep(a) ==
    \/ BeginExpiry(a)
    \/ \E r \in Rooms : ExpirySweepRoom(a, r)
    \/ \E n \in Nums : ExpiryDeleteNext(a, n)
    \/ ExpiryRoomDone(a)
    \/ \E n \in Nums : ExpiryPurgeRow(a, n)
    \/ ExpiryDone(a)

Next ==
    \/ \E a \in Actors : InsertStep(a) \/ UpsertStep(a) \/ UnlinkStep(a)
                            \/ MoveStep(a) \/ ExpiryStep(a)
    \/ Crash

Spec == Init /\ [][Next]_vars

-----------------------------------------------------------------------------
(* Properties *)

(* What the sync token, the unread counts (msgnum > last_read) and the      *)
(* mailing-list watermark all rest on: in a store without MoveMessage a     *)
(* message appears in a room above everything that room ever held, however  *)
(* InsertMessage transactions interleave.  Nothing but the conflict on the  *)
(* highest_msg update keeps a slow transaction from committing a lower      *)
(* number after a faster one has committed a higher one.                    *)
NewMailSortsLast ==
    [][\A r \in Rooms, n \in Nums :
          <<r, n>> \in pointers' \ pointers =>
              n > highest[r] /\ \A m \in RoomMessages(r) : m < n]_vars

(* Without MoveMessage, highest_msg (which listserv::SetList copies as its  *)
(* watermark) bounds every message of its room, across rollbacks, deletions *)
(* and expiry.                                                              *)
HighestCoversRoom ==
    \A r \in Rooms : \A n \in RoomMessages(r) : n <= highest[r]

(* RunExpiry's comment: "a copy filed elsewhere must survive".  No room     *)
(* points at a message row that is gone: the purge at the end of a sweep    *)
(* runs long after its unlinks, beside inserts, deletions and other sweeps, *)
(* and must only take orphans.  It holds while nobody files copies.         *)
PointersHaveRows ==
    \A r \in Rooms : \A n \in RoomMessages(r) : n \in messages

(* Unlink's comment: "a tombstone never claims a removal that did not       *)
(* happen".  Without MoveMessage (which may file the message back) a        *)
(* tombstoned pointer is gone for good.                                     *)
TombstonesAreRemovals ==
    \A t \in tombs : <<t.room, t.num>> \notin pointers

(* UpsertByEuid's comment: insert first and unlink second, because          *)
(* "unlinking first and then failing to insert would lose it".  With upserts*)
(* racing each other, aborting and crashing, an object once saved in a room *)
(* stays there under some number until somebody deletes it.                 *)
SavedObjectSurvives ==
    [][\A r \in Rooms, e \in Euids : FindByEuid(r, e) # 0 => FindByEuid(r, e)' # 0]_vars

(* jmap_mail.cpp: adding before removing "is what makes the operation a     *)
(* move rather than a way to lose mail".  Moves alone must not leave a      *)
(* message that was in some room in no room at all.                         *)
MovedMailStaysFiled ==
    [][\A n \in Nums : (\E r \in Rooms : <<r, n>> \in pointers)
                     => (\E r \in Rooms : <<r, n>> \in pointers')]_vars

(* The schema comment: tombstones and messages "share one monotone space".  *)
(* No tombstone takes a number a message or another tombstone has, and it   *)
(* sorts after the message it buries, whatever runs between nextval and the *)
(* statement that uses its value.                                           *)
SharedNumberSpace ==
    /\ \A t \in tombs : t.num < t.seq /\ t.seq \notin messages
    /\ \A t, u \in tombs : t.seq = u.seq => t = u

(* The schema comment: highest_msg "only ever grows via greatest()", with   *)
(* inserts, moves of old messages and rollbacks racing for the row.         *)
HighestNeverFalls ==
    [][\A r \in Rooms : highest'[r] >= highest[r]]_vars
=============================================================================
