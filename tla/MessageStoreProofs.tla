------------------------- MODULE MessageStoreProofs -------------------------
(***************************************************************************)
(* Proofs about MessageStore, for any rooms, connections, euids, policies  *)
(* and sequence bound.                                                     *)
(***************************************************************************)
EXTENDS MessageStore, OrderLemmas, TLAPS

-----------------------------------------------------------------------------
(* Types of what the steps compute *)

LEMMA IdleJobType == IdleJob \in Jobs
BY RoomsAssumption, BoundAssumption DEF IdleJob, Jobs, Pcs, AllOps

LEMMA FindByEuidType ==
    ASSUME NEW r, NEW e
    PROVE  FindByEuid(r, e) \in 0..MaxSeq
BY BoundAssumption DEF FindByEuid, Nums

(* nextval stays inside the sequence. *)
LEMMA NextvalType ==
    ASSUME seq \in 0..MaxSeq, seq < MaxSeq
    PROVE  seq + 1 \in 1..MaxSeq /\ seq + 1 \in 0..MaxSeq
BY BoundAssumption

LEMMA GreatestType ==
    ASSUME NEW m \in 0..MaxSeq, NEW n \in 0..MaxSeq
    PROVE  Greatest(m, n) \in 0..MaxSeq /\ Greatest(m, n) >= m /\ Greatest(m, n) >= n
BY BoundAssumption DEF Greatest

LEMMA CommitRowsType ==
    ASSUME job \in [Actors -> Jobs], NEW a \in Actors, NEW rs \in SUBSET Rooms, NEW j \in Jobs
    PROVE  CommitRows(a, rs, j) \in [Actors -> Jobs]
<1> SUFFICES ASSUME NEW b \in Actors
             PROVE  CommitRows(a, rs, j)[b] \in Jobs
  BY DEF CommitRows
<1>1. [job[b] EXCEPT !.stale = @ \cup rs] \in Jobs
  BY DEF Jobs
<1> QED
  BY <1>1 DEF CommitRows

LEMMA UnlinkReturnType ==
    ASSUME NEW j \in Jobs, j.num \in Nums
    PROVE  UnlinkReturn(j) \in Jobs
<1>1. j.unlinked \cup {j.num} \in SUBSET Nums
  BY DEF Jobs
<1>2. [j EXCEPT !.pc = "doom", !.unlinked = @ \cup {j.num}] \in Jobs
  BY <1>1 DEF Jobs, Pcs
<1> QED
  BY <1>2, IdleJobType DEF UnlinkReturn

-----------------------------------------------------------------------------
(* The inductive invariant *)

(* The pcs at which a connection has taken a number it has not filed under. *)
Inserting == {"write", "commit"}
Unlinking == {"check", "read", "unlink", "tombseq", "tombstone", "link", "raise"}

(* A register is set by the time a step uses it. *)
Registers(j) ==
    /\ j.pc \in Inserting => j.made \in Nums
    /\ j.pc \in Unlinking => j.num \in Nums
    /\ j.pc = "tombstone" => j.tseq \in Nums

RegistersSet == \A a \in Actors : Registers(job[a])

TypeInv == TypeOK /\ RegistersSet

(* Two transactions that have both updated rooms updated different ones. *)
RowsExclusive ==
    \A a, b \in Actors :
        a # b /\ job[a].pc = "commit" /\ job[b].pc = "commit"
            => job[a].targets \cap job[b].targets = {}

(* Nothing was numbered, and no room's counter stands, beyond the sequence. *)
SequenceBounds ==
    /\ \A r \in Rooms : highest[r] <= seq
    /\ \A a \in Actors : job[a].num <= seq
    /\ \A a \in Actors : job[a].pc \in Inserting => job[a].made <= seq
    /\ \A t \in tombs : t.num <= seq

(* The number an open transaction holds is nobody else's business yet. *)
NumberUnused ==
    \A a \in Actors : job[a].pc \in Inserting =>
        /\ \A r \in Rooms : <<r, job[a].made>> \notin pointers
        /\ \A b \in Actors : job[b].num # job[a].made
        /\ \A b \in Actors : b # a /\ job[b].pc \in Inserting => job[b].made # job[a].made
        /\ \A t \in tombs : t.num # job[a].made

(* The heart of it: a transaction whose view of a room is current holds a   *)
(* number above that room's counter, so it either sorts last or conflicts.  *)
AboveCurrentRooms ==
    \A a \in Actors :
        /\ job[a].pc = "write" => \A r \in Rooms \ job[a].stale : highest[r] < job[a].made
        /\ job[a].pc = "commit" => \A r \in job[a].targets : highest[r] < job[a].made

(* Between the DELETE and the tombstone the pointer stays deleted. *)
UnlinkedStaysGone ==
    \A a \in Actors : job[a].pc \in {"tombseq", "tombstone"} =>
        <<job[a].room, job[a].num>> \notin pointers

NoMovesRunning == \A a \in Actors : job[a].pc \notin {"link", "raise"}

StoreInv ==
    /\ TypeInv
    /\ NoMovesRunning
    /\ RowsExclusive
    /\ SequenceBounds
    /\ NumberUnused
    /\ AboveCurrentRooms
    /\ UnlinkedStaysGone
    /\ HighestCoversRoom
    /\ PointersHaveRows
    /\ TombstonesAreRemovals

-----------------------------------------------------------------------------
(* Type correctness *)

(* A step that gives one connection a well-formed job. *)
LEMMA SetJob ==
    ASSUME TypeInv, NEW a \in Actors, NEW j \in Jobs, Registers(j), job' = [job EXCEPT ![a] = j]
    PROVE  job' \in [Actors -> Jobs] /\ RegistersSet'
BY DEF TypeInv, TypeOK, RegistersSet

LEMMA CommitJob ==
    ASSUME TypeInv, NEW a \in Actors, NEW rs \in SUBSET Rooms, NEW j \in Jobs, Registers(j),
           job' = CommitRows(a, rs, j)
    PROVE  job' \in [Actors -> Jobs] /\ RegistersSet'
<1>1. job' \in [Actors -> Jobs]
  BY CommitRowsType DEF TypeInv, TypeOK
<1>2. ASSUME NEW b \in Actors
      PROVE  Registers(job'[b])
  <2>1. job[b] \in Jobs /\ Registers(job[b])
    BY DEF TypeInv, TypeOK, RegistersSet
  <2>2. Registers([job[b] EXCEPT !.stale = @ \cup rs])
    BY <2>1 DEF Registers, Jobs
  <2> QED
    BY <2>1, <2>2 DEF CommitRows
<1> QED
  BY <1>1, <1>2 DEF RegistersSet

LEMMA IdleRegisters == Registers(IdleJob)
BY DEF Registers, IdleJob, Inserting, Unlinking

LEMMA UnlinkReturnRegisters ==
    ASSUME NEW j \in Jobs
    PROVE  Registers(UnlinkReturn(j))
<1>1. Registers([j EXCEPT !.pc = "doom", !.unlinked = @ \cup {j.num}])
  BY DEF Registers, Jobs, Inserting, Unlinking
<1> QED
  BY <1>1, IdleRegisters DEF UnlinkReturn

LEMMA TypeInvStep == TypeInv /\ [Next]_vars => TypeInv'
<1> USE DEF Nums
<1> SUFFICES ASSUME TypeInv, [Next]_vars
             PROVE  TypeInv'
  OBVIOUS
<1>0. TypeOK /\ RegistersSet
  BY DEF TypeInv
<1>1. ASSUME NEW a \in Actors, InsertStep(a)
      PROVE  TypeInv'
  <2>0. job[a] \in Jobs /\ Registers(job[a])
    BY <1>0 DEF TypeOK, RegistersSet
  <2>1. ASSUME NEW rs \in (SUBSET Rooms) \ {{}}, NEW e \in Euids \cup {NoEuid}, BeginInsert(a, rs, e)
        PROVE  TypeInv'
    <3> DEFINE j == [IdleJob EXCEPT !.pc = "alloc", !.op = "insert", !.targets = rs, !.text = e]
    <3>1. j \in Jobs
      BY IdleJobType DEF Jobs, Pcs, AllOps
    <3>2. Registers(j)
      BY IdleJobType DEF Registers, Jobs, Inserting, Unlinking
    <3> QED
      BY <1>0, <2>1, <3>1, <3>2, SetJob DEF BeginInsert, TypeInv, TypeOK
  <2>2. ASSUME InsertRefused(a)
        PROVE  TypeInv'
    BY <1>0, <2>2, IdleJobType, IdleRegisters, SetJob DEF InsertRefused, TypeInv, TypeOK
  <2>3. ASSUME InsertAlloc(a)
        PROVE  TypeInv'
    <3> DEFINE j == [job[a] EXCEPT !.pc = "write", !.made = seq + 1]
    <3>1. seq + 1 \in 1..MaxSeq /\ seq + 1 \in 0..MaxSeq
      BY <1>0, <2>3, NextvalType DEF InsertAlloc, TypeOK
    <3>2. j \in Jobs
      BY <2>0, <3>1 DEF Jobs, Pcs
    <3>3. Registers(j)
      BY <2>0, <3>1 DEF Registers, Jobs, Inserting, Unlinking
    <3>4. job' = [job EXCEPT ![a] = j]
      BY <2>3 DEF InsertAlloc
    <3> QED
      BY <1>0, <2>3, <3>1, <3>2, <3>3, <3>4, SetJob DEF InsertAlloc, TypeInv, TypeOK
  <2>4. ASSUME InsertWrite(a)
        PROVE  TypeInv'
    <3> DEFINE j == [job[a] EXCEPT !.pc = "commit"]
    <3>1. j \in Jobs /\ Registers(j)
      BY <2>0, <2>4 DEF InsertWrite, Jobs, Pcs, Registers, Inserting, Unlinking
    <3>2. job' = [job EXCEPT ![a] = j] \/ job' = [job EXCEPT ![a] = IdleJob]
      BY <2>4 DEF InsertWrite
    <3> QED
      BY <1>0, <2>4, <3>1, <3>2, IdleJobType, IdleRegisters, SetJob DEF InsertWrite, TypeInv, TypeOK
  <2>5. ASSUME InsertCommit(a)
        PROVE  TypeInv'
    <3> DEFINE j == [job[a] EXCEPT !.pc = "check"]
               k == IF job[a].op = "upsert" /\ job[a].num # 0 THEN j ELSE IdleJob
    <3>1. job[a].made \in Nums /\ job[a].targets \in SUBSET Rooms /\ job[a].text \in Euids \cup {NoEuid}
      BY <2>0, <2>5 DEF InsertCommit, Registers, Inserting, Jobs
    <3>2. j \in Jobs /\ (job[a].num # 0 => Registers(j))
      BY <2>0, BoundAssumption DEF Jobs, Pcs, Registers, Inserting, Unlinking
    <3>3. k \in Jobs /\ Registers(k)
      BY <3>2, IdleJobType, IdleRegisters
    <3>4. job' = CommitRows(a, job[a].targets, k)
      BY <2>5 DEF InsertCommit
    <3>5. job' \in [Actors -> Jobs] /\ RegistersSet'
      BY <3>1, <3>3, <3>4, CommitJob
    <3>6. messages' \in SUBSET Nums /\ pointers' \in SUBSET (Rooms \X Nums)
      BY <1>0, <2>5, <3>1 DEF InsertCommit, TypeOK
    <3>7. euid' \in [Nums -> Euids \cup {NoEuid}]
      BY <1>0, <2>5, <3>1 DEF InsertCommit, TypeOK
    <3>8. highest' \in [Rooms -> 0..MaxSeq]
      BY <1>0, <2>5, <3>1, GreatestType DEF InsertCommit, TypeOK
    <3> QED
      BY <1>0, <2>5, <3>5, <3>6, <3>7, <3>8 DEF InsertCommit, TypeInv, TypeOK
  <2> QED
    BY <1>1, <2>1, <2>2, <2>3, <2>4, <2>5 DEF InsertStep
<1>2. ASSUME NEW a \in Actors, UpsertStep(a)
      PROVE  TypeInv'
  <2>0. job[a] \in Jobs /\ Registers(job[a])
    BY <1>0 DEF TypeOK, RegistersSet
  <2>1. ASSUME NEW r \in Rooms, NEW e \in Euids, BeginUpsert(a, r, e)
        PROVE  TypeInv'
    <3> DEFINE j == [IdleJob EXCEPT !.pc = "begin", !.op = "upsert", !.room = r,
                                    !.targets = {r}, !.text = e, !.num = FindByEuid(r, e)]
    <3>1. j \in Jobs
      BY IdleJobType, FindByEuidType DEF Jobs, Pcs, AllOps
    <3>2. Registers(j)
      BY IdleJobType DEF Registers, Jobs, Inserting, Unlinking
    <3> QED
      BY <1>0, <2>1, <3>1, <3>2, SetJob DEF BeginUpsert, TypeInv, TypeOK
  <2>2. ASSUME UpsertTransaction(a)
        PROVE  TypeInv'
    <3> DEFINE j == [job[a] EXCEPT !.pc = "alloc", !.stale = {}]
    <3>1. j \in Jobs /\ Registers(j)
      BY <2>0 DEF Jobs, Pcs, Registers, Inserting, Unlinking
    <3>2. job' = [job EXCEPT ![a] = j]
      BY <2>2 DEF UpsertTransaction
    <3> QED
      BY <1>0, <2>2, <3>1, <3>2, SetJob DEF UpsertTransaction, TypeInv, TypeOK
  <2>3. ASSUME UpsertDelete(a)
        PROVE  TypeInv'
    <3> DEFINE j == [job[a] EXCEPT !.pc = "read"]
    <3>1. j \in Jobs /\ Registers(j)
      BY <2>0, <2>3 DEF UpsertDelete, Jobs, Pcs, Registers, Inserting, Unlinking
    <3>2. job' = [job EXCEPT ![a] = j] \/ job' = [job EXCEPT ![a] = IdleJob]
      BY <2>3 DEF UpsertDelete
    <3> QED
      BY <1>0, <2>3, <3>1, <3>2, IdleJobType, IdleRegisters, SetJob DEF UpsertDelete, TypeInv, TypeOK
  <2> QED
    BY <1>2, <2>1, <2>2, <2>3 DEF UpsertStep
<1>3. ASSUME NEW a \in Actors, UnlinkStep(a)
      PROVE  TypeInv'
  <2>0. job[a] \in Jobs /\ Registers(job[a])
    BY <1>0 DEF TypeOK, RegistersSet
  <2>1. ASSUME NEW r \in Rooms, NEW n \in Nums, BeginDelete(a, r, n)
        PROVE  TypeInv'
    <3> DEFINE j == [IdleJob EXCEPT !.pc = "read", !.op = "delete", !.room = r, !.num = n]
    <3>0. n \in 0..MaxSeq
      BY BoundAssumption
    <3>1. j \in Jobs
      BY <3>0, IdleJobType DEF Jobs, Pcs, AllOps
    <3>2. Registers(j)
      BY IdleJobType DEF Registers, Jobs, Inserting, Unlinking
    <3> QED
      BY <1>0, <2>1, <3>1, <3>2, SetJob DEF BeginDelete, TypeInv, TypeOK
  <2>2. ASSUME UnlinkReadEuid(a)
        PROVE  TypeInv'
    <3> DEFINE g == IF job[a].num \in messages THEN euid[job[a].num] ELSE NoEuid
               j == [job[a] EXCEPT !.pc = "unlink", !.gone = g]
    <3>0. job[a].num \in Nums
      BY <2>0, <2>2 DEF UnlinkReadEuid, Registers, Unlinking
    <3>1. g \in Euids \cup {NoEuid}
      BY <1>0, <3>0 DEF TypeOK
    <3>2. j \in Jobs /\ Registers(j)
      BY <2>0, <3>0, <3>1 DEF Jobs, Pcs, Registers, Inserting, Unlinking
    <3>3. job' = [job EXCEPT ![a] = j]
      BY <2>2 DEF UnlinkReadEuid
    <3> QED
      BY <1>0, <2>2, <3>2, <3>3, SetJob DEF UnlinkReadEuid, TypeInv, TypeOK
  <2>3. ASSUME UnlinkPointer(a)
        PROVE  TypeInv'
    <3> DEFINE j == [job[a] EXCEPT !.pc = "tombseq"]
    <3>1. j \in Jobs /\ Registers(j)
      BY <2>0, <2>3 DEF UnlinkPointer, Jobs, Pcs, Registers, Inserting, Unlinking
    <3>2. job' = [job EXCEPT ![a] = j]
      BY <2>3 DEF UnlinkPointer
    <3> QED
      BY <1>0, <2>3, <3>1, <3>2, SetJob DEF UnlinkPointer, TypeInv, TypeOK
  <2>4. ASSUME UnlinkSeq(a)
        PROVE  TypeInv'
    <3> DEFINE j == [job[a] EXCEPT !.pc = "tombstone", !.tseq = seq + 1]
    <3>1. seq + 1 \in 1..MaxSeq /\ seq + 1 \in 0..MaxSeq
      BY <1>0, <2>4, NextvalType DEF UnlinkSeq, TypeOK
    <3>2. j \in Jobs /\ Registers(j)
      BY <2>0, <2>4, <3>1 DEF UnlinkSeq, Jobs, Pcs, Registers, Inserting, Unlinking
    <3>3. job' = [job EXCEPT ![a] = j]
      BY <2>4 DEF UnlinkSeq
    <3> QED
      BY <1>0, <2>4, <3>1, <3>2, <3>3, SetJob DEF UnlinkSeq, TypeInv, TypeOK
  <2>5. ASSUME UnlinkSeqFails(a)
        PROVE  TypeInv'
    <3>1. job[a].num \in Nums
      BY <2>0, <2>5 DEF UnlinkSeqFails, Registers, Unlinking
    <3>2. UnlinkReturn(job[a]) \in Jobs /\ Registers(UnlinkReturn(job[a]))
      BY <2>0, <3>1, UnlinkReturnType, UnlinkReturnRegisters
    <3>3. job' = [job EXCEPT ![a] = UnlinkReturn(job[a])]
      BY <2>5 DEF UnlinkSeqFails
    <3> QED
      BY <1>0, <2>5, <3>2, <3>3, SetJob DEF UnlinkSeqFails, TypeInv, TypeOK
  <2>6. ASSUME UnlinkTombstone(a)
        PROVE  TypeInv'
    <3>1. job[a].num \in Nums /\ job[a].tseq \in Nums
      BY <2>0, <2>6 DEF UnlinkTombstone, Registers, Unlinking
    <3>2. UnlinkReturn(job[a]) \in Jobs /\ Registers(UnlinkReturn(job[a]))
      BY <2>0, <3>1, UnlinkReturnType, UnlinkReturnRegisters
    <3>3. [room |-> job[a].room, seq |-> job[a].tseq, num |-> job[a].num, euid |-> job[a].gone] \in Tombstones
      BY <2>0, <3>1 DEF Jobs, Tombstones
    <3>4. job' = [job EXCEPT ![a] = UnlinkReturn(job[a])]
      BY <2>6 DEF UnlinkTombstone
    <3> QED
      BY <1>0, <2>6, <3>2, <3>3, <3>4, SetJob DEF UnlinkTombstone, TypeInv, TypeOK
  <2> QED
    BY <1>3, <2>1, <2>2, <2>3, <2>4, <2>5, <2>6 DEF UnlinkStep
<1>4. ASSUME NEW a \in Actors, MoveStep(a)
      PROVE  TypeInv'
  <2>0. job[a] \in Jobs /\ Registers(job[a])
    BY <1>0 DEF TypeOK, RegistersSet
  <2>1. ASSUME NEW op \in {"move", "copy"}, NEW from \in Rooms, NEW to \in Rooms, NEW n \in Nums,
               BeginMove(a, op, from, to, n)
        PROVE  TypeInv'
    <3> DEFINE j == [IdleJob EXCEPT !.pc = "link", !.op = op, !.room = from, !.dest = to, !.num = n]
    <3>0. n \in 0..MaxSeq
      BY BoundAssumption
    <3>1. j \in Jobs
      BY <3>0, IdleJobType DEF Jobs, Pcs, AllOps
    <3>2. Registers(j)
      BY IdleJobType DEF Registers, Jobs, Inserting, Unlinking
    <3> QED
      BY <1>0, <2>1, <3>1, <3>2, SetJob DEF BeginMove, TypeInv, TypeOK
  <2>2. ASSUME MoveLink(a)
        PROVE  TypeInv'
    <3> DEFINE j == [job[a] EXCEPT !.pc = "raise"]
    <3>1. j \in Jobs /\ Registers(j) /\ job[a].num \in Nums /\ job[a].dest \in Rooms
      BY <2>0, <2>2 DEF MoveLink, Jobs, Pcs, Registers, Inserting, Unlinking
    <3>2. job' = [job EXCEPT ![a] = j]
      BY <2>2 DEF MoveLink
    <3>3. pointers' \in SUBSET (Rooms \X Nums)
      BY <1>0, <2>2, <3>1 DEF MoveLink, TypeOK
    <3>4. job' \in [Actors -> Jobs] /\ RegistersSet'
      BY <3>1, <3>2, SetJob
    <3> QED
      BY <1>0, <2>2, <3>3, <3>4 DEF MoveLink, TypeInv, TypeOK
  <2>3. ASSUME MoveRaiseHighest(a)
        PROVE  TypeInv'
    <3> DEFINE j == [job[a] EXCEPT !.pc = "read"]
               k == IF job[a].op = "copy" THEN IdleJob ELSE j
    <3>1. j \in Jobs /\ Registers(j) /\ job[a].num \in 0..MaxSeq /\ job[a].dest \in Rooms
      BY <2>0, <2>3 DEF MoveRaiseHighest, Jobs, Pcs, Registers, Inserting, Unlinking
    <3>2. k \in Jobs /\ Registers(k)
      BY <3>1, IdleJobType, IdleRegisters
    <3>3. job' = [job EXCEPT ![a] = k] \/ job' = CommitRows(a, {job[a].dest}, k)
      BY <2>3 DEF MoveRaiseHighest
    <3>4. job' \in [Actors -> Jobs] /\ RegistersSet'
      BY <3>1, <3>2, <3>3, SetJob, CommitJob
    <3>5. highest' \in [Rooms -> 0..MaxSeq]
      BY <1>0, <2>3, <3>1, GreatestType DEF MoveRaiseHighest, TypeOK
    <3> QED
      BY <1>0, <2>3, <3>4, <3>5 DEF MoveRaiseHighest, TypeInv, TypeOK
  <2> QED
    BY <1>4, <2>1, <2>2, <2>3 DEF MoveStep
<1>5. ASSUME NEW a \in Actors, ExpiryStep(a)
      PROVE  TypeInv'
  <2>0. job[a] \in Jobs /\ Registers(job[a])
    BY <1>0 DEF TypeOK, RegistersSet
  <2>1. ASSUME BeginExpiry(a)
        PROVE  TypeInv'
    <3> DEFINE j == [IdleJob EXCEPT !.pc = "sweep", !.op = "expire", !.todo = Rooms]
    <3>1. j \in Jobs
      BY IdleJobType DEF Jobs, Pcs, AllOps
    <3>2. Registers(j)
      BY IdleJobType DEF Registers, Jobs, Inserting, Unlinking
    <3> QED
      BY <1>0, <2>1, <3>1, <3>2, SetJob DEF BeginExpiry, TypeInv, TypeOK
  <2>2. ASSUME NEW r \in Rooms, ExpirySweepRoom(a, r)
        PROVE  TypeInv'
    <3>1. PICK d \in Doomable(r) :
              job' = [job EXCEPT ![a].pc = "doom", ![a].room = r, ![a].doomed = d,
                                 ![a].todo = @ \ {r}]
      BY <2>2 DEF ExpirySweepRoom
    <3>2. d \in SUBSET Nums
      BY PolicyAssumption DEF Doomable, RoomMessages, Policies
    <3> DEFINE j == [job[a] EXCEPT !.pc = "doom", !.room = r, !.doomed = d, !.todo = @ \ {r}]
    <3>3. j \in Jobs
      BY <2>0, <3>2 DEF Jobs, Pcs
    <3>4. Registers(j)
      BY <2>0 DEF Jobs, Registers, Inserting, Unlinking
    <3>5. job' = [job EXCEPT ![a] = j]
      BY <3>1
    <3> QED
      BY <1>0, <2>2, <3>3, <3>4, <3>5, SetJob DEF ExpirySweepRoom, TypeInv, TypeOK
  <2>3. ASSUME NEW n \in Nums, ExpiryDeleteNext(a, n)
        PROVE  TypeInv'
    <3> DEFINE j == [job[a] EXCEPT !.pc = "read", !.num = n, !.doomed = @ \ {n}]
               k == [job[a] EXCEPT !.doomed = @ \ {n}]
    <3>0. n \in 0..MaxSeq
      BY BoundAssumption
    <3>1. j \in Jobs /\ Registers(j)
      BY <2>0, <3>0 DEF Jobs, Pcs, Registers, Inserting, Unlinking
    <3>2. k \in Jobs /\ Registers(k)
      BY <2>0, <3>0 DEF Jobs, Pcs, Registers, Inserting, Unlinking
    <3>3. job' = [job EXCEPT ![a] = IF MessageInRoom(job[a].room, n) THEN j ELSE k]
      BY <2>3 DEF ExpiryDeleteNext
    <3> QED
      BY <1>0, <2>3, <3>1, <3>2, <3>3, SetJob DEF ExpiryDeleteNext, TypeInv, TypeOK
  <2>4. ASSUME ExpiryRoomDone(a)
        PROVE  TypeInv'
    <3> DEFINE p == IF job[a].todo = {} THEN "purge" ELSE "sweep"
               j == [job[a] EXCEPT !.pc = p]
    <3>0. p \in {"purge", "sweep"}
      OBVIOUS
    <3>1. j \in Jobs /\ Registers(j)
      BY <2>0, <3>0 DEF Jobs, Pcs, Registers, Inserting, Unlinking
    <3>2. job' = [job EXCEPT ![a] = j]
      BY <2>4 DEF ExpiryRoomDone
    <3> QED
      BY <1>0, <2>4, <3>1, <3>2, SetJob DEF ExpiryRoomDone, TypeInv, TypeOK
  <2>5. ASSUME NEW n \in Nums, ExpiryPurgeRow(a, n)
        PROVE  TypeInv'
    <3> DEFINE j == [job[a] EXCEPT !.unlinked = @ \ {n}]
    <3>1. j \in Jobs /\ Registers(j)
      BY <2>0 DEF Jobs, Registers
    <3>2. job' = [job EXCEPT ![a] = j]
      BY <2>5 DEF ExpiryPurgeRow
    <3> QED
      BY <1>0, <2>5, <3>1, <3>2, SetJob DEF ExpiryPurgeRow, TypeInv, TypeOK
  <2>6. ASSUME ExpiryDone(a)
        PROVE  TypeInv'
    BY <1>0, <2>6, IdleJobType, IdleRegisters, SetJob DEF ExpiryDone, TypeInv, TypeOK
  <2> QED
    BY <1>5, <2>1, <2>2, <2>3, <2>4, <2>5, <2>6 DEF ExpiryStep
<1>6. ASSUME Crash
      PROVE  TypeInv'
  <2>1. job' \in [Actors -> Jobs] /\ RegistersSet'
    BY <1>6, IdleJobType, IdleRegisters DEF Crash, RegistersSet
  <2> QED
    BY <1>0, <1>6, <2>1 DEF Crash, TypeInv, TypeOK
<1>7. ASSUME UNCHANGED vars
      PROVE  TypeInv'
  BY <1>0, <1>7 DEF vars, TypeInv, TypeOK, RegistersSet
<1> QED
  BY <1>1, <1>2, <1>3, <1>4, <1>5, <1>6, <1>7 DEF Next

(* Every statement of every operation, interleaved with every other and cut *)
(* short by a crash anywhere, keeps the tables and the registers of the     *)
(* connections within their types: no sequence value past the bound, no     *)
(* tombstone or pointer without a number.                                   *)
THEOREM TypeCorrect == Spec => []TypeOK
<1>1. Init => TypeInv
  BY IdleJobType, IdleRegisters, BoundAssumption DEF Init, TypeInv, TypeOK, RegistersSet, Nums
<1>2. TypeInv => TypeOK
  BY DEF TypeInv
<1> QED
  BY <1>1, <1>2, TypeInvStep, PTL DEF Spec

-----------------------------------------------------------------------------
(* Safety without MoveMessage *)

LEMMA NaturalRegisters ==
    ASSUME TypeInv
    PROVE  /\ seq \in Nat /\ highest \in [Rooms -> Nat]
           /\ \A t \in tombs : t.num \in Nat
           /\ \A b \in Actors : job[b].num \in Nat /\ job[b].made \in Nat
<1>1. \A t \in Tombstones : t.num \in Nat
  BY BoundAssumption DEF Tombstones, Nums
<1>2. \A j \in Jobs : j.num \in Nat /\ j.made \in Nat
  BY BoundAssumption DEF Jobs
<1>3. seq \in Nat /\ highest \in [Rooms -> Nat]
  BY BoundAssumption DEF TypeInv, TypeOK
<1> QED
  BY <1>1, <1>2, <1>3 DEF TypeInv, TypeOK

LEMMA NaturalRegistersNext ==
    ASSUME TypeInv'
    PROVE  /\ seq' \in Nat /\ highest' \in [Rooms -> Nat]
           /\ \A t \in tombs' : t.num \in Nat
           /\ \A b \in Actors : job'[b].num \in Nat /\ job'[b].made \in Nat
<1>1. \A t \in Tombstones : t.num \in Nat
  BY BoundAssumption DEF Tombstones, Nums
<1>2. \A j \in Jobs : j.num \in Nat /\ j.made \in Nat
  BY BoundAssumption DEF Jobs
<1>3. seq' \in Nat /\ highest' \in [Rooms -> Nat]
  BY BoundAssumption DEF TypeInv, TypeOK
<1> QED
  BY <1>1, <1>2, <1>3 DEF TypeInv, TypeOK

(* A step that gives no connection a number to insert under, files nothing  *)
(* and buries only what is gone keeps the invariant.                        *)
LEMMA QuietStep ==
    ASSUME StoreInv, TypeInv',
           NEW a \in Actors, NEW j \in Jobs,
           job' = [job EXCEPT ![a] = j],
           j.pc \notin Inserting \cup {"link", "raise"},
           j.num <= seq,
           \A b \in Actors : job[b].pc \in Inserting => j.num # job[b].made,
           j.pc \in {"tombseq", "tombstone"} => <<j.room, j.num>> \notin pointers',
           seq <= seq', highest' = highest, pointers' \subseteq pointers,
           PointersHaveRows',
           \A t \in tombs' : \/ t \in tombs
                            \/ /\ t.num <= seq /\ <<t.room, t.num>> \notin pointers'
                               /\ \A b \in Actors : job[b].pc \in Inserting => t.num # job[b].made
    PROVE  StoreInv'
<1> USE DEF StoreInv
<1>0. /\ seq \in Nat /\ seq' \in Nat /\ highest \in [Rooms -> Nat]
      /\ \A t \in tombs' : t.num \in Nat
      /\ \A b \in Actors : job[b].num \in Nat /\ job[b].made \in Nat
      /\ \A b \in Actors : job'[b].num \in Nat /\ job'[b].made \in Nat
  BY NaturalRegisters, NaturalRegistersNext
<1>a. job'[a] = j /\ \A b \in Actors \ {a} : job'[b] = job[b]
  BY DEF TypeInv, TypeOK
<1>b. \A b \in Actors : job'[b].pc \in Inserting => b # a /\ job'[b] = job[b]
  BY <1>a
<1>1. NoMovesRunning'
  BY <1>a DEF NoMovesRunning
<1>2. RowsExclusive'
  BY <1>b DEF RowsExclusive, Inserting
<1>3. SequenceBounds'
  <2>1. \A r \in Rooms : highest'[r] <= seq'
    BY <1>0 DEF SequenceBounds
  <2>2. \A b \in Actors : job'[b].num <= seq'
    BY <1>0, <1>a DEF SequenceBounds
  <2>3. \A b \in Actors : job'[b].pc \in Inserting => job'[b].made <= seq'
    BY <1>0, <1>b DEF SequenceBounds
  <2>4. ASSUME NEW t \in tombs'
        PROVE  t.num <= seq'
    <3>1. t.num <= seq
      BY DEF SequenceBounds
    <3> QED
      BY <1>0, <3>1
  <2> QED
    BY <2>1, <2>2, <2>3, <2>4 DEF SequenceBounds
<1>4. NumberUnused'
  <2> SUFFICES ASSUME NEW b \in Actors, job'[b].pc \in Inserting
               PROVE  /\ \A r \in Rooms : <<r, job'[b].made>> \notin pointers'
                      /\ \A c \in Actors : job'[c].num # job'[b].made
                      /\ \A c \in Actors : c # b /\ job'[c].pc \in Inserting
                                             => job'[c].made # job'[b].made
                      /\ \A t \in tombs' : t.num # job'[b].made
    BY DEF NumberUnused
  <2>1. job'[b] = job[b] /\ job[b].pc \in Inserting
    BY <1>b
  <2>2. \A r \in Rooms : <<r, job'[b].made>> \notin pointers'
    BY <2>1 DEF NumberUnused
  <2>3. \A c \in Actors : job'[c].num # job'[b].made
    BY <1>a, <2>1 DEF NumberUnused
  <2>4. \A c \in Actors : c # b /\ job'[c].pc \in Inserting => job'[c].made # job'[b].made
    BY <1>b, <2>1 DEF NumberUnused
  <2>5. \A t \in tombs' : t.num # job'[b].made
    BY <2>1 DEF NumberUnused
  <2> QED
    BY <2>2, <2>3, <2>4, <2>5
<1>5. AboveCurrentRooms'
  BY <1>b DEF AboveCurrentRooms, Inserting
<1>6. UnlinkedStaysGone'
  BY <1>a DEF UnlinkedStaysGone
<1>7. HighestCoversRoom'
  BY DEF HighestCoversRoom, RoomMessages
<1>8. TombstonesAreRemovals'
  BY DEF TombstonesAreRemovals
<1> QED
  BY <1>1, <1>2, <1>3, <1>4, <1>5, <1>6, <1>7, <1>8

LEMMA AllocStep ==
    ASSUME StoreInv, TypeInv', NEW a \in Actors, InsertAlloc(a)
    PROVE  StoreInv'
<1> USE DEF StoreInv
<1> DEFINE n == seq + 1
<1>0. /\ seq \in Nat /\ highest \in [Rooms -> Nat]
      /\ \A t \in tombs : t.num \in Nat
      /\ \A b \in Actors : job[b].num \in Nat /\ job[b].made \in Nat
  BY NaturalRegisters
<1>1. /\ seq' = n
      /\ UNCHANGED <<messages, euid, pointers, highest, tombs>>
      /\ job[a].pc = "alloc"
  BY DEF InsertAlloc
<1>2. /\ \A b \in Actors \ {a} : job'[b] = job[b]
      /\ job'[a] = [job[a] EXCEPT !.pc = "write", !.made = n]
  BY DEF InsertAlloc, TypeInv, TypeOK
<1>3. /\ job'[a].pc = "write" /\ job'[a].made = n /\ job'[a].num = job[a].num
      /\ job'[a].stale = job[a].stale
  BY <1>2 DEF TypeInv, TypeOK, Jobs
<1>4. \A b \in Actors : job'[b].num = job[b].num
  BY <1>2, <1>3
<1>5. \A r \in Rooms, m \in Nums : <<r, m>> \in pointers => m # n
  BY <1>0, BoundAssumption DEF HighestCoversRoom, RoomMessages, SequenceBounds, Nums
<1>6. NoMovesRunning' /\ RowsExclusive'
  BY <1>2, <1>3 DEF NoMovesRunning, RowsExclusive
<1>7. SequenceBounds'
  <2>1. \A r \in Rooms : highest'[r] <= seq'
    BY <1>0, <1>1 DEF SequenceBounds
  <2>2. \A b \in Actors : job'[b].num <= seq'
    BY <1>0, <1>1, <1>4 DEF SequenceBounds
  <2>3. ASSUME NEW b \in Actors, job'[b].pc \in Inserting
        PROVE  job'[b].made <= seq'
    <3>1. CASE b = a
      BY <1>0, <1>1, <1>3, <3>1
    <3>2. CASE b # a
      <4>1. job'[b] = job[b] /\ job[b].made <= seq
        BY <1>2, <2>3, <3>2 DEF SequenceBounds
      <4> QED
        BY <1>0, <1>1, <4>1
    <3> QED
      BY <3>1, <3>2
  <2>4. \A t \in tombs' : t.num <= seq'
    BY <1>0, <1>1 DEF SequenceBounds
  <2> QED
    BY <2>1, <2>2, <2>3, <2>4 DEF SequenceBounds
<1>8. NumberUnused'
  <2>1. /\ \A r \in Rooms : <<r, n>> \notin pointers
        /\ \A c \in Actors : job[c].num # n
        /\ \A c \in Actors : job[c].pc \in Inserting => job[c].made # n
        /\ \A t \in tombs : t.num # n
    <3>1. \A r \in Rooms : <<r, n>> \notin pointers
      BY <1>5 DEF TypeInv, TypeOK
    <3>2. \A c \in Actors : job[c].num # n /\ (job[c].pc \in Inserting => job[c].made # n)
      BY <1>0 DEF SequenceBounds
    <3>3. \A t \in tombs : t.num # n
      BY <1>0 DEF SequenceBounds
    <3> QED
      BY <3>1, <3>2, <3>3
  <2> SUFFICES ASSUME NEW b \in Actors, job'[b].pc \in Inserting
               PROVE  /\ \A r \in Rooms : <<r, job'[b].made>> \notin pointers'
                      /\ \A c \in Actors : job'[c].num # job'[b].made
                      /\ \A c \in Actors : c # b /\ job'[c].pc \in Inserting
                                             => job'[c].made # job'[b].made
                      /\ \A t \in tombs' : t.num # job'[b].made
    BY DEF NumberUnused
  <2>2. CASE b = a
    <3>1. job'[b].made = n
      BY <1>3, <2>2
    <3>2. \A c \in Actors : job'[c].num # n
      BY <1>4, <2>1
    <3>3. \A c \in Actors : c # b /\ job'[c].pc \in Inserting => job'[c].made # n
      BY <1>2, <2>1, <2>2
    <3> QED
      BY <1>1, <2>1, <3>1, <3>2, <3>3
  <2>3. CASE b # a
    <3>1. job'[b] = job[b]
      BY <1>2, <2>3
    <3>2. \A c \in Actors : job'[c].num # job[b].made
      BY <1>4, <3>1 DEF NumberUnused
    <3>3. job[b].made # n
      BY <2>1, <3>1
    <3>4. ASSUME NEW c \in Actors, c # b, job'[c].pc \in Inserting
          PROVE  job'[c].made # job[b].made
      <4>1. CASE c = a
        BY <1>3, <3>3, <4>1
      <4>2. CASE c # a
        BY <1>2, <3>1, <3>4, <4>2 DEF NumberUnused
      <4> QED
        BY <4>1, <4>2
    <3>5. /\ \A r \in Rooms : <<r, job[b].made>> \notin pointers'
          /\ \A t \in tombs' : t.num # job[b].made
      BY <1>1, <3>1 DEF NumberUnused
    <3> QED
      BY <3>1, <3>2, <3>4, <3>5
  <2> QED
    BY <2>2, <2>3
<1>9. AboveCurrentRooms'
  <2>1. \A r \in Rooms : highest[r] < n
    BY <1>0 DEF SequenceBounds
  <2> QED
    BY <1>1, <1>2, <1>3, <2>1 DEF AboveCurrentRooms
<1>10. UnlinkedStaysGone'
  BY <1>1, <1>2, <1>3 DEF UnlinkedStaysGone
<1>11. HighestCoversRoom' /\ PointersHaveRows' /\ TombstonesAreRemovals'
  BY <1>1 DEF HighestCoversRoom, PointersHaveRows, TombstonesAreRemovals, RoomMessages
<1> QED
  BY <1>6, <1>7, <1>8, <1>9, <1>10, <1>11

LEMMA WriteStep ==
    ASSUME StoreInv, TypeInv', NEW a \in Actors, InsertWrite(a), job'[a].pc = "commit"
    PROVE  StoreInv'
<1> USE DEF StoreInv
<1>1. UNCHANGED <<seq, messages, euid, pointers, highest, tombs>> /\ job[a].pc = "write"
  BY DEF InsertWrite
<1>2. /\ \A b \in Actors \ {a} : job'[b] = job[b]
      /\ job'[a] = [job[a] EXCEPT !.pc = "commit"]
      /\ \A r \in job[a].targets : r \notin job[a].stale /\ ~RowHeldByOther(a, r)
  <2>1. IdleJob.pc # "commit"
    BY DEF IdleJob
  <2> QED
    BY <2>1 DEF InsertWrite, TypeInv, TypeOK
<1>3. /\ job'[a].made = job[a].made /\ job'[a].num = job[a].num
      /\ job'[a].targets = job[a].targets /\ job[a].targets \subseteq Rooms
  BY <1>2 DEF TypeInv, TypeOK, Jobs
<1>4. \A b \in Actors :
          /\ job'[b].num = job[b].num /\ job'[b].made = job[b].made
          /\ job'[b].pc \in Inserting <=> job[b].pc \in Inserting
  BY <1>1, <1>2, <1>3 DEF Inserting
<1>5. NoMovesRunning' /\ UnlinkedStaysGone'
  BY <1>1, <1>2 DEF NoMovesRunning, UnlinkedStaysGone
<1>6. RowsExclusive'
  <2>1. \A b \in Actors \ {a} : job[b].pc = "commit" => job[a].targets \cap job[b].targets = {}
    BY <1>2 DEF RowHeldByOther
  <2> QED
    BY <1>2, <1>3, <2>1 DEF RowsExclusive
<1>7a. SequenceBounds'
  <2>1. /\ \A r \in Rooms : highest'[r] <= seq'
        /\ \A t \in tombs' : t.num <= seq'
    BY <1>1 DEF SequenceBounds
  <2>2. \A b \in Actors : job'[b].num <= seq'
    BY <1>1, <1>4 DEF SequenceBounds
  <2>3. \A b \in Actors : job'[b].pc \in Inserting => job'[b].made <= seq'
    BY <1>1, <1>4 DEF SequenceBounds
  <2> QED
    BY <2>1, <2>2, <2>3 DEF SequenceBounds
<1>7. NumberUnused'
  <2> SUFFICES ASSUME NEW b \in Actors, job'[b].pc \in Inserting
               PROVE  /\ \A r \in Rooms : <<r, job'[b].made>> \notin pointers'
                      /\ \A c \in Actors : job'[c].num # job'[b].made
                      /\ \A c \in Actors : c # b /\ job'[c].pc \in Inserting
                                             => job'[c].made # job'[b].made
                      /\ \A t \in tombs' : t.num # job'[b].made
    BY DEF NumberUnused
  <2>1. job[b].pc \in Inserting /\ job'[b].made = job[b].made
    BY <1>4
  <2>2. \A r \in Rooms : <<r, job'[b].made>> \notin pointers'
    BY <1>1, <2>1 DEF NumberUnused
  <2>3. \A c \in Actors : job'[c].num # job'[b].made
    BY <1>4, <2>1 DEF NumberUnused
  <2>4. \A c \in Actors : c # b /\ job'[c].pc \in Inserting => job'[c].made # job'[b].made
    BY <1>4, <2>1 DEF NumberUnused
  <2>5. \A t \in tombs' : t.num # job'[b].made
    BY <1>1, <2>1 DEF NumberUnused
  <2> QED
    BY <2>2, <2>3, <2>4, <2>5
<1>8. AboveCurrentRooms'
  BY <1>1, <1>2, <1>3 DEF AboveCurrentRooms
<1>9. HighestCoversRoom' /\ PointersHaveRows' /\ TombstonesAreRemovals'
  BY <1>1 DEF HighestCoversRoom, PointersHaveRows, TombstonesAreRemovals, RoomMessages
<1> QED
  BY <1>5, <1>6, <1>7a, <1>7, <1>8, <1>9

LEMMA CommitStep ==
    ASSUME StoreInv, TypeInv', NEW a \in Actors, InsertCommit(a)
    PROVE  StoreInv'
<1> USE DEF StoreInv
<1> DEFINE n == job[a].made
           rs == job[a].targets
<1>0. /\ seq \in Nat /\ highest \in [Rooms -> Nat] /\ highest' \in [Rooms -> Nat]
      /\ \A t \in tombs : t.num \in Nat
      /\ \A b \in Actors : job[b].num \in Nat /\ job[b].made \in Nat
  BY NaturalRegisters, NaturalRegistersNext
<1>1. /\ UNCHANGED <<seq, tombs>>
      /\ job[a].pc = "commit" /\ rs \subseteq Rooms /\ n \in Nums
      /\ messages' = messages \cup {n}
      /\ pointers' = pointers \cup (rs \X {n})
  BY DEF InsertCommit, TypeInv, TypeOK, Jobs, RegistersSet, Registers, Inserting
<1>2. /\ \A r \in rs : highest[r] < n /\ highest'[r] = n
      /\ \A r \in Rooms \ rs : highest'[r] = highest[r]
  BY <1>0, <1>1 DEF InsertCommit, AboveCurrentRooms, Greatest
<1>3. \A b \in Actors \ {a} :
          /\ job'[b].pc = job[b].pc /\ job'[b].num = job[b].num /\ job'[b].made = job[b].made
          /\ job'[b].targets = job[b].targets /\ job'[b].room = job[b].room
          /\ job[b].pc = "write" => job'[b].stale = job[b].stale \cup rs
  <2> TAKE b \in Actors \ {a}
  <2>1. job[b] \in Jobs
    BY DEF TypeInv, TypeOK
  <2>2. job'[b] = IF InTransaction(b) THEN [job[b] EXCEPT !.stale = @ \cup rs] ELSE job[b]
    BY DEF InsertCommit, CommitRows
  <2> QED
    BY <2>1, <2>2 DEF InTransaction, Jobs
<1>4. job'[a].pc \in {"check", "idle"} /\ job'[a].num \in {job[a].num, 0}
  BY DEF InsertCommit, CommitRows, IdleJob, TypeInv, TypeOK, Jobs
<1>5. \A b \in Actors : job'[b].pc \in Inserting =>
          b # a /\ job[b].pc \in Inserting /\ job[b].made # n /\ job'[b].made = job[b].made
                /\ job[b].made \in Nums
  BY <1>1, <1>3, <1>4 DEF NumberUnused, Inserting, TypeInv, RegistersSet, Registers
<1>6. n <= seq
  BY <1>1 DEF SequenceBounds, Inserting
<1>7. NoMovesRunning'
  BY <1>3, <1>4 DEF NoMovesRunning
<1>8. RowsExclusive'
  BY <1>3, <1>4 DEF RowsExclusive
<1>9. SequenceBounds'
  <2>1. \A r \in Rooms : highest'[r] <= seq'
    BY <1>0, <1>1, <1>2, <1>6 DEF SequenceBounds
  <2>2. \A b \in Actors : job'[b].num <= seq'
    BY <1>0, <1>1, <1>3, <1>4 DEF SequenceBounds
  <2>3. \A b \in Actors : job'[b].pc \in Inserting => job'[b].made <= seq'
    BY <1>0, <1>1, <1>5 DEF SequenceBounds
  <2>4. \A t \in tombs' : t.num <= seq'
    BY <1>1 DEF SequenceBounds
  <2> QED
    BY <2>1, <2>2, <2>3, <2>4 DEF SequenceBounds
<1>10. NumberUnused'
  <2> SUFFICES ASSUME NEW b \in Actors, job'[b].pc \in Inserting
               PROVE  /\ \A r \in Rooms : <<r, job'[b].made>> \notin pointers'
                      /\ \A c \in Actors : job'[c].num # job'[b].made
                      /\ \A c \in Actors : c # b /\ job'[c].pc \in Inserting
                                             => job'[c].made # job'[b].made
                      /\ \A t \in tombs' : t.num # job'[b].made
    BY DEF NumberUnused
  <2>1. b # a /\ job[b].pc \in Inserting /\ job[b].made # n /\ job'[b].made = job[b].made
             /\ job[b].made # 0
    BY <1>5, BoundAssumption DEF Nums
  <2>2. \A r \in Rooms : <<r, job'[b].made>> \notin pointers'
    BY <1>1, <2>1 DEF NumberUnused
  <2>3. \A c \in Actors : job'[c].num # job'[b].made
    BY <1>3, <1>4, <2>1 DEF NumberUnused
  <2>4. \A c \in Actors : c # b /\ job'[c].pc \in Inserting => job'[c].made # job'[b].made
    BY <1>5, <2>1 DEF NumberUnused
  <2>5. \A t \in tombs' : t.num # job'[b].made
    BY <1>1, <2>1 DEF NumberUnused
  <2> QED
    BY <2>2, <2>3, <2>4, <2>5
<1>11. AboveCurrentRooms'
  <2>1. ASSUME NEW b \in Actors, job'[b].pc = "write", NEW r \in Rooms \ job'[b].stale
        PROVE  highest'[r] < job'[b].made
    BY <1>2, <1>3, <1>4, <2>1 DEF AboveCurrentRooms
  <2>2. ASSUME NEW b \in Actors, job'[b].pc = "commit", NEW r \in job'[b].targets
        PROVE  highest'[r] < job'[b].made
    <3>1. b # a /\ job[b].pc = "commit" /\ r \in job[b].targets /\ job'[b].made = job[b].made
      BY <1>3, <1>4, <2>2
    <3>2. r \in Rooms \ rs
      BY <1>1, <3>1 DEF RowsExclusive, TypeInv, TypeOK, Jobs
    <3> QED
      BY <1>2, <3>1, <3>2 DEF AboveCurrentRooms
  <2> QED
    BY <2>1, <2>2 DEF AboveCurrentRooms
<1>12. UnlinkedStaysGone'
  BY <1>1, <1>3, <1>4 DEF UnlinkedStaysGone, NumberUnused, Inserting
<1>13. HighestCoversRoom'
  <2> SUFFICES ASSUME NEW r \in Rooms, NEW m \in Nums, <<r, m>> \in pointers'
               PROVE  m <= highest'[r]
    BY DEF HighestCoversRoom, RoomMessages
  <2>1. CASE <<r, m>> \in pointers
    <3>1. m <= highest[r]
      BY <2>1 DEF HighestCoversRoom, RoomMessages
    <3>2. highest[r] <= highest'[r]
      BY <1>0, <1>1, <1>2
    <3> QED
      BY <1>0, <3>1, <3>2, BoundAssumption DEF Nums
  <2>2. CASE r \in rs /\ m = n
    BY <1>0, <1>2, <2>2
  <2> QED
    BY <1>1, <2>1, <2>2
<1>14. PointersHaveRows'
  BY <1>1 DEF PointersHaveRows, RoomMessages
<1>15. TombstonesAreRemovals'
  BY <1>1 DEF TombstonesAreRemovals, NumberUnused, Inserting
<1> QED
  BY <1>7, <1>8, <1>9, <1>10, <1>11, <1>12, <1>13, <1>14, <1>15

(* Operations other than MoveMessage: the instances the safety theorems are about. *)
NoMoves == Ops \cap {"move", "copy"} = {}

(* What a pointer says of the number it names. *)
LEMMA PointedNumber ==
    ASSUME StoreInv, NEW r \in Rooms, NEW n \in Nums, MessageInRoom(r, n)
    PROVE  n <= seq /\ \A b \in Actors : job[b].pc \in Inserting => n # job[b].made
<1>1. n <= highest[r] /\ highest[r] <= seq
  BY DEF StoreInv, HighestCoversRoom, RoomMessages, MessageInRoom, SequenceBounds
<1>2. n \in Nat /\ highest[r] \in Nat /\ seq \in Nat
  BY NaturalRegisters, BoundAssumption DEF StoreInv, Nums
<1> QED
  BY <1>1, <1>2 DEF StoreInv, NumberUnused, MessageInRoom

(* A register that was already somebody's is no number being inserted. *)
LEMMA HeldNumber ==
    ASSUME StoreInv, NEW a \in Actors
    PROVE  job[a].num <= seq /\ \A b \in Actors : job[b].pc \in Inserting => job[a].num # job[b].made
BY DEF StoreInv, SequenceBounds, NumberUnused

LEMMA FreshNumber ==
    ASSUME StoreInv
    PROVE  0 <= seq /\ \A b \in Actors : job[b].pc \in Inserting => 0 # job[b].made
BY NaturalRegisters, BoundAssumption DEF StoreInv, TypeInv, RegistersSet, Registers, Nums

LEMMA FoundNumber ==
    ASSUME StoreInv, NEW r \in Rooms, NEW e
    PROVE  /\ FindByEuid(r, e) <= seq
           /\ \A b \in Actors : job[b].pc \in Inserting => FindByEuid(r, e) # job[b].made
<1>1. FindByEuid(r, e) = 0 \/ (FindByEuid(r, e) \in Nums /\ MessageInRoom(r, FindByEuid(r, e)))
  BY DEF FindByEuid, RoomMessages, MessageInRoom
<1> QED
  BY <1>1, FreshNumber, PointedNumber

(* QuietStep for the steps that only move a connection on. *)
LEMMA PlainStep ==
    ASSUME StoreInv, TypeInv', NEW a \in Actors, NEW j \in Jobs,
           job' = [job EXCEPT ![a] = j],
           j.pc \notin Inserting \cup {"link", "raise", "tombseq", "tombstone"},
           j.num <= seq /\ \A b \in Actors : job[b].pc \in Inserting => j.num # job[b].made,
           UNCHANGED <<seq, messages, pointers, highest, tombs>>
    PROVE  StoreInv'
<1>1. PointersHaveRows'
  BY DEF StoreInv, PointersHaveRows, RoomMessages
<1>2. seq <= seq' /\ pointers' \subseteq pointers
  BY NaturalRegisters DEF StoreInv
<1> QED
  BY <1>1, <1>2, QuietStep

LEMMA IdleStep ==
    ASSUME StoreInv, TypeInv', NEW a \in Actors, job' = [job EXCEPT ![a] = IdleJob],
           UNCHANGED <<seq, messages, euid, pointers, highest, tombs>>
    PROVE  StoreInv'
<1>1. IdleJob \in Jobs /\ IdleJob.pc = "idle" /\ IdleJob.num = 0
  BY IdleJobType DEF IdleJob
<1>2. PointersHaveRows'
  BY DEF StoreInv, PointersHaveRows, RoomMessages
<1>3. seq <= seq'
  BY NaturalRegisters DEF StoreInv
<1> QED
  BY <1>1, <1>2, <1>3, FreshNumber, QuietStep DEF Inserting

LEMMA StoreInvStep ==
    ASSUME NoMoves
    PROVE  StoreInv /\ [Next]_vars => StoreInv'
<1> SUFFICES ASSUME StoreInv, [Next]_vars
             PROVE  StoreInv'
  OBVIOUS
<1>t. TypeInv'
  BY TypeInvStep DEF StoreInv
<1>0. /\ TypeInv /\ seq \in Nat /\ seq <= seq
      /\ \A b \in Actors : job[b] \in Jobs /\ Registers(job[b])
  BY NaturalRegisters DEF StoreInv, TypeInv, TypeOK, RegistersSet
<1>r. (messages' = messages /\ pointers' \subseteq pointers) => PointersHaveRows'
  BY DEF StoreInv, PointersHaveRows, RoomMessages
<1>1. ASSUME NEW a \in Actors, InsertStep(a)
      PROVE  StoreInv'
  <2>1. ASSUME NEW rs \in (SUBSET Rooms) \ {{}}, NEW e \in Euids \cup {NoEuid}, BeginInsert(a, rs, e)
        PROVE  StoreInv'
    <3> DEFINE j == [IdleJob EXCEPT !.pc = "alloc", !.op = "insert", !.targets = rs, !.text = e]
    <3>1. j \in Jobs
      BY IdleJobType DEF Jobs, Pcs, AllOps
    <3>2. j.pc = "alloc" /\ j.num = 0
      BY DEF IdleJob
    <3>n. j.num <= seq /\ \A b \in Actors : job[b].pc \in Inserting => j.num # job[b].made
      BY <2>1, <3>1, <3>2, FreshNumber
    <3>u. UNCHANGED <<seq, messages, pointers, highest, tombs>>
      BY <2>1 DEF BeginInsert
    <3>j. job' = [job EXCEPT ![a] = j]
      BY <2>1 DEF BeginInsert
    <3> HIDE DEF j
    <3> QED
      BY <1>t, <3>j, <3>1, <3>2, <3>n, <3>u, PlainStep DEF Inserting
  <2>2. ASSUME InsertRefused(a)
        PROVE  StoreInv'
    BY <1>t, <2>2, IdleStep DEF InsertRefused
  <2>3. ASSUME InsertAlloc(a)
        PROVE  StoreInv'
    BY <1>t, <2>3, AllocStep
  <2>4. ASSUME InsertWrite(a)
        PROVE  StoreInv'
    <3>1. CASE job'[a].pc = "commit"
      BY <1>t, <2>4, <3>1, WriteStep
    <3>2. CASE job'[a].pc # "commit"
      <4>1. job' = [job EXCEPT ![a] = IdleJob]
        BY <1>0, <2>4, <3>2 DEF InsertWrite, TypeInv, TypeOK, Jobs
      <4> QED
        BY <1>t, <2>4, <4>1, IdleStep DEF InsertWrite
    <3> QED
      BY <3>1, <3>2
  <2>5. ASSUME InsertCommit(a)
        PROVE  StoreInv'
    BY <1>t, <2>5, CommitStep
  <2> QED
    BY <1>1, <2>1, <2>2, <2>3, <2>4, <2>5 DEF InsertStep
<1>2. ASSUME NEW a \in Actors, UpsertStep(a)
      PROVE  StoreInv'
  <2>1. ASSUME NEW r \in Rooms, NEW e \in Euids, BeginUpsert(a, r, e)
        PROVE  StoreInv'
    <3> DEFINE j == [IdleJob EXCEPT !.pc = "begin", !.op = "upsert", !.room = r,
                                    !.targets = {r}, !.text = e, !.num = FindByEuid(r, e)]
    <3>1. j \in Jobs
      BY IdleJobType, FindByEuidType DEF Jobs, Pcs, AllOps
    <3>2. j.pc = "begin" /\ j.num = FindByEuid(r, e)
      BY DEF IdleJob
    <3>n. j.num <= seq /\ \A b \in Actors : job[b].pc \in Inserting => j.num # job[b].made
      BY <2>1, <3>1, <3>2, FoundNumber
    <3>u. UNCHANGED <<seq, messages, pointers, highest, tombs>>
      BY <2>1 DEF BeginUpsert
    <3>j. job' = [job EXCEPT ![a] = j]
      BY <2>1 DEF BeginUpsert
    <3> HIDE DEF j
    <3> QED
      BY <1>t, <3>j, <3>1, <3>2, <3>n, <3>u, PlainStep DEF Inserting
  <2>2. ASSUME UpsertTransaction(a)
        PROVE  StoreInv'
    <3> DEFINE j == [job[a] EXCEPT !.pc = "alloc", !.stale = {}]
    <3>1. j \in Jobs /\ j.pc = "alloc" /\ j.num = job[a].num
      BY <1>0 DEF Jobs, Pcs
    <3>2. job' = [job EXCEPT ![a] = j]
      BY <2>2 DEF UpsertTransaction
    <3>n. j.num <= seq /\ \A b \in Actors : job[b].pc \in Inserting => j.num # job[b].made
      BY <2>2, <3>1, <3>2, HeldNumber
    <3>u. UNCHANGED <<seq, messages, pointers, highest, tombs>>
      BY <2>2 DEF UpsertTransaction
    <3> HIDE DEF j
    <3> QED
      BY <1>t, <3>1, <3>2, <3>n, <3>u, PlainStep DEF Inserting
  <2>3. ASSUME UpsertDelete(a)
        PROVE  StoreInv'
    <3> DEFINE j == [job[a] EXCEPT !.pc = "read"]
    <3>1. j \in Jobs /\ j.pc = "read" /\ j.num = job[a].num
      BY <1>0 DEF Jobs, Pcs
    <3>2. job' = [job EXCEPT ![a] = j] \/ job' = [job EXCEPT ![a] = IdleJob]
      BY <2>3 DEF UpsertDelete
    <3>n. j.num <= seq /\ \A b \in Actors : job[b].pc \in Inserting => j.num # job[b].made
      BY <3>1, HeldNumber
    <3>u. UNCHANGED <<seq, messages, pointers, highest, tombs>>
      BY <2>3 DEF UpsertDelete
    <3> HIDE DEF j
    <3>3. CASE job' = [job EXCEPT ![a] = j]
      BY <1>t, <3>1, <3>3, <3>n, <3>u, PlainStep DEF Inserting
    <3>4. CASE job' = [job EXCEPT ![a] = IdleJob]
      BY <1>t, <2>3, <3>4, IdleStep DEF UpsertDelete
    <3> QED
      BY <3>2, <3>3, <3>4
  <2> QED
    BY <1>2, <2>1, <2>2, <2>3 DEF UpsertStep
<1>3. ASSUME NEW a \in Actors, UnlinkStep(a)
      PROVE  StoreInv'
  <2>1. ASSUME NEW r \in Rooms, NEW n \in Nums, BeginDelete(a, r, n)
        PROVE  StoreInv'
    <3> DEFINE j == [IdleJob EXCEPT !.pc = "read", !.op = "delete", !.room = r, !.num = n]
    <3>0. n \in 0..MaxSeq
      BY BoundAssumption DEF Nums
    <3>1. j \in Jobs
      BY <3>0, IdleJobType DEF Jobs, Pcs, AllOps
    <3>2. j.pc = "read" /\ j.num = n
      BY DEF IdleJob
    <3>3. MessageInRoom(r, n)
      BY <2>1 DEF BeginDelete
    <3>n. j.num <= seq /\ \A b \in Actors : job[b].pc \in Inserting => j.num # job[b].made
      BY <2>1, <3>1, <3>2, <3>3, PointedNumber
    <3>u. UNCHANGED <<seq, messages, pointers, highest, tombs>>
      BY <2>1 DEF BeginDelete
    <3>j. job' = [job EXCEPT ![a] = j]
      BY <2>1 DEF BeginDelete
    <3> HIDE DEF j
    <3> QED
      BY <1>t, <3>j, <3>1, <3>2, <3>3, <3>n, <3>u, PlainStep DEF Inserting
  <2>2. ASSUME UnlinkReadEuid(a)
        PROVE  StoreInv'
    <3> DEFINE j == [job[a] EXCEPT !.pc = "unlink",
                                   !.gone = IF job[a].num \in messages THEN euid[job[a].num] ELSE NoEuid]
    <3>1. job' = [job EXCEPT ![a] = j]
      BY <2>2 DEF UnlinkReadEuid
    <3>2. j = job'[a] /\ j \in Jobs
      BY <1>0, <1>t, <3>1 DEF TypeInv, TypeOK
    <3>3. j.pc = "unlink" /\ j.num = job[a].num
      BY <1>0 DEF Jobs
    <3>n. j.num <= seq /\ \A b \in Actors : job[b].pc \in Inserting => j.num # job[b].made
      BY <2>2, <3>1, <3>2, <3>3, HeldNumber
    <3>u. UNCHANGED <<seq, messages, pointers, highest, tombs>>
      BY <2>2 DEF UnlinkReadEuid
    <3> HIDE DEF j
    <3> QED
      BY <1>t, <3>1, <3>2, <3>3, <3>n, <3>u, PlainStep DEF Inserting
  <2>3. ASSUME UnlinkPointer(a)
        PROVE  StoreInv'
    <3> DEFINE j == [job[a] EXCEPT !.pc = "tombseq"]
    <3>1. j \in Jobs /\ j.pc = "tombseq" /\ j.num = job[a].num /\ j.room = job[a].room
      BY <1>0 DEF Jobs, Pcs
    <3>2. job' = [job EXCEPT ![a] = j]
      BY <2>3 DEF UnlinkPointer
    <3>3. pointers' \subseteq pointers /\ <<j.room, j.num>> \notin pointers'
      BY <2>3, <3>1 DEF UnlinkPointer
    <3>n. j.num <= seq /\ \A b \in Actors : job[b].pc \in Inserting => j.num # job[b].made
      BY <3>1, HeldNumber
    <3>u. UNCHANGED <<seq, messages, highest, tombs>>
      BY <2>3 DEF UnlinkPointer
    <3> HIDE DEF j
    <3> QED
      BY <1>0, <1>t, <1>r, <3>1, <3>2, <3>3, <3>n, <3>u, QuietStep DEF Inserting
  <2>4. ASSUME UnlinkSeq(a)
        PROVE  StoreInv'
    <3> DEFINE j == [job[a] EXCEPT !.pc = "tombstone", !.tseq = seq + 1]
    <3>1. job' = [job EXCEPT ![a] = j]
      BY <2>4 DEF UnlinkSeq
    <3>2. j = job'[a] /\ j \in Jobs
      BY <1>0, <1>t, <3>1 DEF TypeInv, TypeOK
    <3>3. j.pc = "tombstone" /\ j.num = job[a].num /\ j.room = job[a].room
      BY <1>0 DEF Jobs
    <3>4. <<j.room, j.num>> \notin pointers'
      BY <2>4, <3>3 DEF UnlinkSeq, StoreInv, UnlinkedStaysGone
    <3>5. seq <= seq'
      BY <1>0, <2>4 DEF UnlinkSeq
    <3>n. j.num <= seq /\ \A b \in Actors : job[b].pc \in Inserting => j.num # job[b].made
      BY <3>3, HeldNumber
    <3>u. UNCHANGED <<messages, pointers, highest, tombs>>
      BY <2>4 DEF UnlinkSeq
    <3> HIDE DEF j
    <3> QED
      BY <1>t, <1>r, <3>1, <3>2, <3>3, <3>4, <3>5, <3>n, <3>u, QuietStep DEF Inserting
  <2>5. ASSUME UnlinkSeqFails(a) \/ UnlinkTombstone(a)
        PROVE  StoreInv'
    <3> DEFINE j == UnlinkReturn(job[a])
    <3>1. job' = [job EXCEPT ![a] = j]
      BY <2>5 DEF UnlinkSeqFails, UnlinkTombstone
    <3>2. j = job'[a] /\ j \in Jobs
      BY <1>0, <1>t, <3>1 DEF TypeInv, TypeOK
    <3>3. j.pc \in {"doom", "idle"} /\ j.num \in {job[a].num, 0}
      BY <1>0 DEF Jobs, UnlinkReturn, IdleJob
    <3>4. j.num <= seq /\ \A b \in Actors : job[b].pc \in Inserting => j.num # job[b].made
      BY <3>3, HeldNumber, FreshNumber
    <3>5. \A t \in tombs' :
              \/ t \in tombs
              \/ /\ t.num <= seq /\ <<t.room, t.num>> \notin pointers'
                 /\ \A b \in Actors : job[b].pc \in Inserting => t.num # job[b].made
      BY <2>5, HeldNumber DEF UnlinkSeqFails, UnlinkTombstone, StoreInv, UnlinkedStaysGone
    <3>6. UNCHANGED <<seq, messages, pointers, highest>>
      BY <2>5 DEF UnlinkSeqFails, UnlinkTombstone
    <3> QED
      BY <1>0, <1>t, <1>r, <3>1, <3>2, <3>3, <3>4, <3>5, <3>6, QuietStep DEF Inserting
  <2> QED
    BY <1>3, <2>1, <2>2, <2>3, <2>4, <2>5 DEF UnlinkStep
<1>4. ASSUME NEW a \in Actors
      PROVE  ~MoveStep(a)
  BY DEF MoveStep, BeginMove, MoveLink, MoveRaiseHighest, NoMoves, StoreInv, NoMovesRunning
<1>5. ASSUME NEW a \in Actors, ExpiryStep(a)
      PROVE  StoreInv'
  <2>1. ASSUME BeginExpiry(a)
        PROVE  StoreInv'
    <3> DEFINE j == [IdleJob EXCEPT !.pc = "sweep", !.op = "expire", !.todo = Rooms]
    <3>1. j \in Jobs
      BY IdleJobType DEF Jobs, Pcs, AllOps
    <3>2. j.pc = "sweep" /\ j.num = 0
      BY DEF IdleJob
    <3>n. j.num <= seq /\ \A b \in Actors : job[b].pc \in Inserting => j.num # job[b].made
      BY <2>1, <3>1, <3>2, FreshNumber
    <3>u. UNCHANGED <<seq, messages, pointers, highest, tombs>>
      BY <2>1 DEF BeginExpiry
    <3>j. job' = [job EXCEPT ![a] = j]
      BY <2>1 DEF BeginExpiry
    <3> HIDE DEF j
    <3> QED
      BY <1>t, <3>j, <3>1, <3>2, <3>n, <3>u, PlainStep DEF Inserting
  <2>2. ASSUME NEW r \in Rooms, ExpirySweepRoom(a, r)
        PROVE  StoreInv'
    <3>1. PICK d \in Doomable(r) :
              job' = [job EXCEPT ![a].pc = "doom", ![a].room = r, ![a].doomed = d,
                                 ![a].todo = @ \ {r}]
      BY <2>2 DEF ExpirySweepRoom
    <3> DEFINE j == [job[a] EXCEPT !.pc = "doom", !.room = r, !.doomed = d, !.todo = @ \ {r}]
    <3>2. job' = [job EXCEPT ![a] = j]
      BY <3>1
    <3>3. j = job'[a] /\ j \in Jobs
      BY <1>0, <1>t, <3>2 DEF TypeInv, TypeOK
    <3>4. j.pc = "doom" /\ j.num = job[a].num
      BY <1>0 DEF Jobs
    <3>n. j.num <= seq /\ \A b \in Actors : job[b].pc \in Inserting => j.num # job[b].made
      BY <2>2, <3>2, <3>3, <3>4, HeldNumber
    <3>u. UNCHANGED <<seq, messages, pointers, highest, tombs>>
      BY <2>2 DEF ExpirySweepRoom
    <3> HIDE DEF j
    <3> QED
      BY <1>t, <3>2, <3>3, <3>4, <3>n, <3>u, PlainStep DEF Inserting
  <2>3. ASSUME NEW n \in Nums, ExpiryDeleteNext(a, n)
        PROVE  StoreInv'
    <3> DEFINE j == [job[a] EXCEPT !.pc = "read", !.num = n, !.doomed = @ \ {n}]
               k == [job[a] EXCEPT !.doomed = @ \ {n}]
    <3>1. job' = [job EXCEPT ![a] = IF MessageInRoom(job[a].room, n) THEN j ELSE k]
      BY <2>3 DEF ExpiryDeleteNext
    <3>2. CASE MessageInRoom(job[a].room, n)
      <4>1. job' = [job EXCEPT ![a] = j]
        BY <3>1, <3>2
      <4>2. j = job'[a] /\ j \in Jobs
        BY <1>0, <1>t, <4>1 DEF TypeInv, TypeOK
      <4>3. j.pc = "read" /\ j.num = n /\ job[a].room \in Rooms
        BY <1>0 DEF Jobs
      <4>n. j.num <= seq /\ \A b \in Actors : job[b].pc \in Inserting => j.num # job[b].made
        BY <2>3, <3>2, <4>1, <4>2, <4>3, PointedNumber
      <4>u. UNCHANGED <<seq, messages, pointers, highest, tombs>>
        BY <2>3 DEF ExpiryDeleteNext
      <4> HIDE DEF j
      <4> QED
        BY <1>t, <3>2, <4>1, <4>2, <4>3, <4>n, <4>u, PlainStep DEF Inserting
    <3>3. CASE ~MessageInRoom(job[a].room, n)
      <4>1. job' = [job EXCEPT ![a] = k]
        BY <3>1, <3>3
      <4>2. k = job'[a] /\ k \in Jobs
        BY <1>0, <1>t, <4>1 DEF TypeInv, TypeOK
      <4>3. k.pc = "doom" /\ k.num = job[a].num
        BY <1>0, <2>3 DEF Jobs, ExpiryDeleteNext
      <4>n. k.num <= seq /\ \A b \in Actors : job[b].pc \in Inserting => k.num # job[b].made
        BY <2>3, <4>1, <4>2, <4>3, HeldNumber
      <4>u. UNCHANGED <<seq, messages, pointers, highest, tombs>>
        BY <2>3 DEF ExpiryDeleteNext
      <4> HIDE DEF k
      <4> QED
        BY <1>t, <4>1, <4>2, <4>3, <4>n, <4>u, PlainStep DEF Inserting
    <3> QED
      BY <3>2, <3>3
  <2>4. ASSUME ExpiryRoomDone(a)
        PROVE  StoreInv'
    <3> DEFINE p == IF job[a].todo = {} THEN "purge" ELSE "sweep"
               j == [job[a] EXCEPT !.pc = p]
    <3>1. job' = [job EXCEPT ![a] = j]
      BY <2>4 DEF ExpiryRoomDone
    <3>2. j = job'[a] /\ j \in Jobs
      BY <1>0, <1>t, <3>1 DEF TypeInv, TypeOK
    <3>3. j.pc \in {"purge", "sweep"} /\ j.num = job[a].num
      BY <1>0 DEF Jobs
    <3>n. j.num <= seq /\ \A b \in Actors : job[b].pc \in Inserting => j.num # job[b].made
      BY <2>4, <3>1, <3>2, <3>3, HeldNumber
    <3>u. UNCHANGED <<seq, messages, pointers, highest, tombs>>
      BY <2>4 DEF ExpiryRoomDone
    <3> HIDE DEF j
    <3> QED
      BY <1>t, <3>1, <3>2, <3>3, <3>n, <3>u, PlainStep DEF Inserting
  <2>5. ASSUME NEW n \in Nums, ExpiryPurgeRow(a, n)
        PROVE  StoreInv'
    <3> DEFINE j == [job[a] EXCEPT !.unlinked = @ \ {n}]
    <3>1. job' = [job EXCEPT ![a] = j]
      BY <2>5 DEF ExpiryPurgeRow
    <3>2. j = job'[a] /\ j \in Jobs
      BY <1>0, <1>t, <3>1 DEF TypeInv, TypeOK
    <3>3. j.pc = "purge" /\ j.num = job[a].num
      BY <1>0, <2>5 DEF Jobs, ExpiryPurgeRow
    <3>4. PointersHaveRows'
      BY <2>5 DEF ExpiryPurgeRow, StoreInv, PointersHaveRows, RoomMessages
    <3>n. j.num <= seq /\ \A b \in Actors : job[b].pc \in Inserting => j.num # job[b].made
      BY <3>3, HeldNumber
    <3>u. UNCHANGED <<seq, pointers, highest, tombs>>
      BY <2>5 DEF ExpiryPurgeRow
    <3> HIDE DEF j
    <3> QED
      BY <1>0, <1>t, <3>1, <3>2, <3>3, <3>4, <3>n, <3>u, QuietStep DEF Inserting
  <2>6. ASSUME ExpiryDone(a)
        PROVE  StoreInv'
    BY <1>t, <2>6, IdleStep DEF ExpiryDone
  <2> QED
    BY <1>5, <2>1, <2>2, <2>3, <2>4, <2>5, <2>6 DEF ExpiryStep
<1>6. ASSUME Crash
      PROVE  StoreInv'
  <2>1. \A b \in Actors : job'[b] = IdleJob
    BY <1>6 DEF Crash
  <2>2. IdleJob.pc = "idle" /\ IdleJob.num = 0
    BY DEF IdleJob
  <2>3. NoMovesRunning' /\ RowsExclusive' /\ NumberUnused' /\ AboveCurrentRooms' /\ UnlinkedStaysGone'
    BY <2>1, <2>2 DEF NoMovesRunning, RowsExclusive, NumberUnused, AboveCurrentRooms,
                      UnlinkedStaysGone, Inserting
  <2>4. SequenceBounds'
    BY <1>0, <1>6, <2>1, <2>2 DEF Crash, StoreInv, SequenceBounds, Inserting
  <2>5. HighestCoversRoom' /\ PointersHaveRows' /\ TombstonesAreRemovals'
    BY <1>6 DEF Crash, StoreInv, HighestCoversRoom, PointersHaveRows, TombstonesAreRemovals, RoomMessages
  <2> QED
    BY <1>t, <2>3, <2>4, <2>5 DEF StoreInv
<1>7. ASSUME UNCHANGED vars
      PROVE  StoreInv'
  BY <1>7, <1>t DEF vars, StoreInv, NoMovesRunning, RowsExclusive, SequenceBounds, NumberUnused,
     AboveCurrentRooms, UnlinkedStaysGone, HighestCoversRoom, PointersHaveRows,
     TombstonesAreRemovals, RoomMessages
<1> QED
  BY <1>1, <1>2, <1>3, <1>4, <1>5, <1>6, <1>7 DEF Next

LEMMA StoreInvInit == Init => StoreInv
<1> SUFFICES ASSUME Init PROVE StoreInv
  OBVIOUS
<1>1. TypeInv
  BY IdleJobType, IdleRegisters, BoundAssumption DEF Init, TypeInv, TypeOK, RegistersSet, Nums
<1>2. \A a \in Actors : job[a].pc = "idle" /\ job[a].num = 0
  BY DEF Init, IdleJob
<1>3. NoMovesRunning /\ RowsExclusive /\ NumberUnused /\ AboveCurrentRooms /\ UnlinkedStaysGone
  BY <1>2 DEF NoMovesRunning, RowsExclusive, NumberUnused, AboveCurrentRooms, UnlinkedStaysGone, Inserting
<1>4. SequenceBounds
  BY <1>2 DEF Init, SequenceBounds, Inserting
<1> QED
  BY <1>1, <1>3, <1>4 DEF Init, StoreInv, HighestCoversRoom, PointersHaveRows, TombstonesAreRemovals, RoomMessages

LEMMA StoreInvariant == NoMoves => (Spec => []StoreInv)
<1> SUFFICES ASSUME NoMoves
             PROVE  Spec => []StoreInv
  OBVIOUS
<1>1. StoreInv /\ [Next]_vars => StoreInv'
  BY StoreInvStep
<1> QED
  BY <1>1, StoreInvInit, PTL DEF Spec

(* While nobody moves or copies mail, citadel_rooms.highest_msg is at least *)
(* every message number in its room, for any number of rooms and            *)
(* connections: the watermark listserv takes from it misses nothing.        *)
THEOREM HighestIsSafe == NoMoves => (Spec => []HighestCoversRoom)
<1>1. StoreInv => HighestCoversRoom
  BY DEF StoreInv
<1> QED
  BY <1>1, StoreInvariant, PTL

(* While nobody moves or copies mail, RunExpiry's purge never takes a row   *)
(* that a room still points at.                                             *)
THEOREM ExpiryIsSafe == NoMoves => (Spec => []PointersHaveRows)
<1>1. StoreInv => PointersHaveRows
  BY DEF StoreInv
<1> QED
  BY <1>1, StoreInvariant, PTL

(* While nobody moves or copies mail, a tombstone is only ever written for a *)
(* pointer that is gone and stays gone.                                      *)
THEOREM TombstonesAreTrue == NoMoves => (Spec => []TombstonesAreRemovals)
<1>1. StoreInv => TombstonesAreRemovals
  BY DEF StoreInv
<1> QED
  BY <1>1, StoreInvariant, PTL

(* While nobody moves or copies mail, InsertMessage transactions that took   *)
(* their numbers in one order and commit in another never file a message     *)
(* below one a reader of that room may already have seen.                    *)
THEOREM InsertsSortLast == NoMoves => (Spec => NewMailSortsLast)
<1> SUFFICES ASSUME NoMoves
             PROVE  Spec => NewMailSortsLast
  OBVIOUS
<1>1. ASSUME StoreInv, [Next]_vars
      PROVE  [\A r \in Rooms, n \in Nums :
                 <<r, n>> \in pointers' \ pointers =>
                     n > highest[r] /\ \A m \in RoomMessages(r) : m < n]_vars
  <2> SUFFICES ASSUME NEW r \in Rooms, NEW n \in Nums, <<r, n>> \in pointers' \ pointers
               PROVE  n > highest[r] /\ \A m \in RoomMessages(r) : m < n
    OBVIOUS
  <2>1. PICK a \in Actors : InsertCommit(a)
    <3>1. ASSUME NEW a \in Actors
          PROVE  ~MoveStep(a)
      BY <1>1 DEF MoveStep, BeginMove, MoveLink, MoveRaiseHighest, NoMoves, StoreInv, NoMovesRunning
    <3>2. ASSUME NEW a \in Actors, UpsertStep(a) \/ UnlinkStep(a) \/ ExpiryStep(a)
          PROVE  pointers' \subseteq pointers
      BY <3>2 DEF UpsertStep, BeginUpsert, UpsertTransaction, UpsertDelete,
                  UnlinkStep, BeginDelete, UnlinkReadEuid, UnlinkPointer, UnlinkSeq, UnlinkSeqFails,
                  UnlinkTombstone, ExpiryStep, BeginExpiry, ExpirySweepRoom, ExpiryDeleteNext,
                  ExpiryRoomDone, ExpiryPurgeRow, ExpiryDone
    <3>3. ASSUME NEW a \in Actors, InsertStep(a), ~InsertCommit(a)
          PROVE  pointers' = pointers
      BY <3>3 DEF InsertStep, BeginInsert, InsertRefused, InsertAlloc, InsertWrite
    <3> QED
      BY <1>1, <3>1, <3>2, <3>3 DEF Next, Crash, vars
  <2>2. n = job[a].made /\ r \in job[a].targets /\ job[a].pc = "commit"
    BY <2>1 DEF InsertCommit
  <2>3. highest[r] < n
    BY <1>1, <2>2 DEF StoreInv, AboveCurrentRooms
  <2>4. \A m \in RoomMessages(r) : m <= highest[r]
    BY <1>1 DEF StoreInv, HighestCoversRoom
  <2>5. highest[r] \in Nat /\ n \in Nat /\ \A m \in RoomMessages(r) : m \in Nat
    BY <1>1, NaturalRegisters, BoundAssumption DEF StoreInv, RoomMessages, Nums
  <2> QED
    BY <2>3, <2>4, <2>5
<1>2. Spec => []StoreInv
  BY StoreInvariant
<1> QED
  BY <1>1, <1>2, PTL DEF Spec, NewMailSortsLast
-----------------------------------------------------------------------------
(* One number space, with or without moves *)

(* Whatever holds a number got it from the sequence; a tombstone's, written  *)
(* or about to be, is nobody else's, and sorts after what it buries.        *)
Drawn ==
    /\ \A p \in pointers : p[2] <= seq
    /\ \A n \in messages : n <= seq
    /\ \A a \in Actors : job[a].num <= seq
    /\ \A a \in Actors : job[a].pc \in Inserting => job[a].made <= seq
    /\ \A t \in tombs : t.seq <= seq
Burying(j) == j.pc = "tombstone"
OwnTombs ==
    \A a \in Actors : Burying(job[a]) =>
        /\ job[a].num < job[a].tseq /\ job[a].tseq <= seq /\ job[a].tseq \notin messages
        /\ \A t \in tombs : t.seq # job[a].tseq
        /\ \A b \in Actors : job[b].pc \in Inserting => job[b].made # job[a].tseq
        /\ \A b \in Actors : b # a /\ Burying(job[b]) => job[b].tseq # job[a].tseq
UnburiedNumbers == \A a \in Actors : job[a].pc \in Inserting => \A t \in tombs : t.seq # job[a].made

NumbersInv == TypeInv /\ Drawn /\ OwnTombs /\ UnburiedNumbers /\ SharedNumberSpace

LEMMA NaturalNumbers ==
    ASSUME TypeInv
    PROVE  /\ seq \in Nat /\ MaxSeq \in Nat
           /\ \A b \in Actors : job[b] \in Jobs /\ job[b].num \in Nat /\ job[b].made \in Nat /\ job[b].tseq \in Nat
           /\ \A t \in tombs : t \in Tombstones /\ t.num \in Nat /\ t.seq \in Nat
           /\ \A n \in messages : n \in Nat
           /\ \A p \in pointers : p[2] \in Nat
<1>1. \A t \in Tombstones : t.num \in Nat /\ t.seq \in Nat
  BY BoundAssumption DEF Tombstones, Nums
<1>2. \A j \in Jobs : j.num \in Nat /\ j.made \in Nat /\ j.tseq \in Nat
  BY BoundAssumption DEF Jobs
<1>3. seq \in Nat /\ (\A n \in messages : n \in Nat) /\ \A p \in pointers : p[2] \in Nat
  BY BoundAssumption DEF TypeInv, TypeOK, Nums
<1> QED
  BY <1>1, <1>2, <1>3, BoundAssumption DEF TypeInv, TypeOK

(* The job k holds no number that j did not, but may look at another.       *)
Keeps(j, k) ==
    /\ k.num <= seq
    /\ k.pc \in Inserting => j.pc \in Inserting /\ k.made = j.made
    /\ Burying(k) => Burying(j) /\ k.num = j.num /\ k.tseq = j.tseq

(* A step that draws no number and writes no tombstone or message. *)
LEMMA KeepStep ==
    ASSUME NumbersInv, TypeInv', UNCHANGED <<seq, tombs>>, messages' \subseteq messages,
           \A p \in pointers' : p[2] <= seq, \A b \in Actors : Keeps(job[b], job'[b])
    PROVE  NumbersInv'
<1>1. Drawn'
  BY DEF NumbersInv, Drawn, Keeps
<1>2. OwnTombs'
  BY DEF NumbersInv, OwnTombs, Keeps
<1>3. UnburiedNumbers' /\ SharedNumberSpace'
  BY DEF NumbersInv, UnburiedNumbers, SharedNumberSpace, Keeps
<1> QED
  BY <1>1, <1>2, <1>3 DEF NumbersInv

LEMMA KeepsItself ==
    ASSUME NumbersInv, NEW b \in Actors
    PROVE  Keeps(job[b], job[b])
BY DEF NumbersInv, Drawn, Keeps

(* The same where one job changes. *)
LEMMA KeepOne ==
    ASSUME NumbersInv, TypeInv', UNCHANGED <<seq, tombs>>, messages' \subseteq messages,
           \A p \in pointers' : p[2] <= seq, NEW a \in Actors, NEW k, job' = [job EXCEPT ![a] = k], Keeps(job[a], k)
    PROVE  NumbersInv'
<1>1. job \in [Actors -> Jobs]
  BY DEF NumbersInv, TypeInv, TypeOK
<1>2. \A b \in Actors : Keeps(job[b], job'[b])
  BY <1>1, KeepsItself
<1> QED
  BY <1>2, KeepStep

(* Any job that holds nothing may follow any other. *)
LEMMA LettingGo ==
    ASSUME NEW j, NEW k, k.num <= seq, k.pc \notin Inserting, ~Burying(k)
    PROVE  Keeps(j, k)
BY DEF Keeps

LEMMA IdleLetsGo ==
    ASSUME NumbersInv, NEW j
    PROVE  Keeps(j, IdleJob)
<1>1. IdleJob.num = 0 /\ IdleJob.pc = "idle" /\ 0 <= seq
  BY NaturalNumbers DEF IdleJob, NumbersInv
<1> QED
  BY <1>1, LettingGo DEF Inserting, Burying

(* The steps that draw a number or use one up. *)
LEMMA DrawForInsert ==
    ASSUME NumbersInv, TypeInv', NEW a \in Actors, InsertAlloc(a)
    PROVE  NumbersInv'
<1>1. /\ seq' = seq + 1 /\ UNCHANGED <<messages, pointers, tombs>>
      /\ \A b \in Actors : b # a => job'[b] = job[b]
      /\ job'[a].pc = "write" /\ job'[a].made = seq + 1 /\ job'[a].num = job[a].num
  BY NaturalNumbers DEF InsertAlloc, NumbersInv, TypeInv, TypeOK, Jobs
<1>2. Drawn'
  BY <1>1, NaturalNumbers DEF NumbersInv, Drawn
<1>3. OwnTombs'
  <2> SUFFICES ASSUME NEW c \in Actors, Burying(job'[c])
               PROVE  /\ job'[c].num < job'[c].tseq /\ job'[c].tseq <= seq' /\ job'[c].tseq \notin messages'
                      /\ \A t \in tombs' : t.seq # job'[c].tseq
                      /\ \A b \in Actors : job'[b].pc \in Inserting => job'[b].made # job'[c].tseq
                      /\ \A b \in Actors : b # c /\ Burying(job'[b]) => job'[b].tseq # job'[c].tseq
    BY DEF OwnTombs, Burying
  <2>1. c # a /\ job'[c] = job[c] /\ ~Burying(job'[a])
    BY <1>1 DEF Burying
  <2>2. job[c].tseq <= seq /\ job[c].tseq \in Nat /\ seq \in Nat
    BY <2>1, NaturalNumbers DEF NumbersInv, OwnTombs
  <2>3. \A b \in Actors : job'[b].pc \in Inserting => job'[b].made # job'[c].tseq
    BY <1>1, <2>1, <2>2 DEF NumbersInv, OwnTombs
  <2> QED
    BY <1>1, <2>1, <2>2, <2>3 DEF NumbersInv, OwnTombs
<1>4. UnburiedNumbers'
  BY <1>1, NaturalNumbers DEF NumbersInv, UnburiedNumbers, Drawn
<1>5. SharedNumberSpace'
  BY <1>1 DEF NumbersInv, SharedNumberSpace
<1> QED
  BY <1>2, <1>3, <1>4, <1>5 DEF NumbersInv

LEMMA UseForInsert ==
    ASSUME NumbersInv, TypeInv', NEW a \in Actors, InsertCommit(a)
    PROVE  NumbersInv'
<1> USE DEF NumbersInv
<1>0. job[a].pc = "commit" /\ job[a].pc \in Inserting /\ job[a].made <= seq /\ IdleJob.num = 0 /\ IdleJob.pc = "idle"
  BY DEF InsertCommit, Inserting, Drawn, IdleJob
<1>1. /\ UNCHANGED <<seq, tombs>> /\ messages' = messages \cup {job[a].made}
      /\ \A p \in pointers' : p \in pointers \/ p[2] = job[a].made
  BY DEF InsertCommit
<1>2. \A b \in Actors : Keeps(job[b], job'[b])
  <2> SUFFICES ASSUME NEW b \in Actors PROVE Keeps(job[b], job'[b])
    OBVIOUS
  <2>1. job[b] \in Jobs /\ job[a] \in Jobs
    BY NaturalNumbers
  <2>2. CASE b = a
    <3>1. job'[a] = IdleJob \/ job'[a] = [job[a] EXCEPT !.pc = "check"]
      BY <2>2 DEF InsertCommit, CommitRows
    <3>2. CASE job'[a] = IdleJob
      BY <2>2, <3>2, IdleLetsGo
    <3>3. CASE job'[a] = [job[a] EXCEPT !.pc = "check"]
      <4>1. job'[a].pc = "check" /\ job'[a].num = job[a].num
        BY <2>1, <3>3 DEF Jobs
      <4> QED
        BY <2>2, <4>1, LettingGo DEF Drawn, Inserting, Burying
    <3> QED
      BY <3>1, <3>2, <3>3
  <2>3. CASE b # a
    <3>1. job'[b] = job[b] \/ job'[b] = [job[b] EXCEPT !.stale = @ \cup job[a].targets]
      BY <2>3 DEF InsertCommit, CommitRows
    <3>2. /\ job'[b].num = job[b].num /\ job'[b].pc = job[b].pc /\ job'[b].made = job[b].made
          /\ job'[b].tseq = job[b].tseq
      BY <2>1, <3>1 DEF Jobs
    <3> QED
      BY <3>2 DEF Keeps, Drawn, Burying
  <2> QED
    BY <2>2, <2>3
<1>3. Drawn'
  BY <1>0, <1>1, <1>2 DEF Drawn, Keeps
<1>4. OwnTombs'
  BY <1>0, <1>1, <1>2 DEF OwnTombs, Keeps
<1>5. UnburiedNumbers'
  BY <1>0, <1>1, <1>2 DEF UnburiedNumbers, Keeps
<1>6. SharedNumberSpace'
  BY <1>0, <1>1 DEF SharedNumberSpace, UnburiedNumbers
<1> QED
  BY <1>3, <1>4, <1>5, <1>6

LEMMA DrawForTombstone ==
    ASSUME NumbersInv, TypeInv', NEW a \in Actors, UnlinkSeq(a)
    PROVE  NumbersInv'
<1> USE DEF NumbersInv
<1>1. /\ seq' = seq + 1 /\ UNCHANGED <<messages, pointers, tombs>>
      /\ \A b \in Actors : b # a => job'[b] = job[b]
      /\ job'[a].pc = "tombstone" /\ job'[a].tseq = seq + 1 /\ job'[a].num = job[a].num
  BY NaturalNumbers DEF UnlinkSeq, TypeInv, TypeOK, Jobs
<1>2. job'[a].pc \notin Inserting /\ Burying(job'[a])
  BY <1>1 DEF Inserting, Burying
<1>3. Drawn'
  BY <1>1, <1>2, NaturalNumbers DEF Drawn
<1>4. OwnTombs'
  <2> SUFFICES ASSUME NEW c \in Actors, Burying(job'[c])
               PROVE  /\ job'[c].num < job'[c].tseq /\ job'[c].tseq <= seq' /\ job'[c].tseq \notin messages'
                      /\ \A t \in tombs' : t.seq # job'[c].tseq
                      /\ \A b \in Actors : job'[b].pc \in Inserting => job'[b].made # job'[c].tseq
                      /\ \A b \in Actors : b # c /\ Burying(job'[b]) => job'[b].tseq # job'[c].tseq
    BY DEF OwnTombs, Burying
  <2>1. CASE c = a
    <3>1. job[a].num <= seq /\ job[a].num \in Nat /\ seq \in Nat
      BY NaturalNumbers DEF Drawn
    <3>2. \A t \in tombs : t.seq # seq + 1
      BY NaturalNumbers DEF Drawn
    <3>3. seq + 1 \notin messages
      BY NaturalNumbers DEF Drawn
    <3>4. \A b \in Actors : job'[b].pc \in Inserting => job'[b].made # seq + 1
      BY <1>1, <1>2, NaturalNumbers DEF Drawn
    <3>5. \A b \in Actors : b # a /\ Burying(job'[b]) => job'[b].tseq # seq + 1
      BY <1>1, NaturalNumbers DEF OwnTombs
    <3> QED
      BY <2>1, <1>1, <3>1, <3>2, <3>3, <3>4, <3>5
  <2>2. CASE c # a
    <3>1. job'[c] = job[c] /\ job[c].tseq <= seq /\ job[c].tseq \in Nat /\ seq \in Nat
      BY <2>2, <1>1, NaturalNumbers DEF OwnTombs
    <3> QED
      BY <2>2, <3>1, <1>1, <1>2 DEF OwnTombs
  <2> QED
    BY <2>1, <2>2
<1>5. UnburiedNumbers'
  BY <1>1, <1>2 DEF UnburiedNumbers
<1>6. SharedNumberSpace'
  BY <1>1 DEF SharedNumberSpace
<1> QED
  BY <1>3, <1>4, <1>5, <1>6

LEMMA UnlinkReturnLetsGo ==
    ASSUME NumbersInv, NEW a \in Actors, NEW j
    PROVE  Keeps(j, UnlinkReturn(job[a])) /\ UnlinkReturn(job[a]).pc \in {"idle", "doom"}
<1>1. job[a] \in Jobs /\ job[a].num <= seq
  BY NaturalNumbers DEF NumbersInv, Drawn
<1>2. CASE job[a].op = "expire"
  <2>1. UnlinkReturn(job[a]).pc = "doom" /\ UnlinkReturn(job[a]).num = job[a].num
    BY <1>1, <1>2 DEF UnlinkReturn, Jobs
  <2> QED
    BY <1>1, <2>1, LettingGo DEF Inserting, Burying
<1>3. CASE job[a].op # "expire"
  BY <1>3, IdleLetsGo DEF UnlinkReturn, IdleJob
<1> QED
  BY <1>2, <1>3

LEMMA UseForTombstone ==
    ASSUME NumbersInv, TypeInv', NEW a \in Actors, UnlinkTombstone(a)
    PROVE  NumbersInv'
<1> USE DEF NumbersInv
<1>1. PICK x : x = [room |-> job[a].room, seq |-> job[a].tseq, num |-> job[a].num, euid |-> job[a].gone]
  OBVIOUS
<1>2. x.seq = job[a].tseq /\ x.num = job[a].num
  BY <1>1
<1>3. /\ UNCHANGED <<seq, messages, pointers>> /\ tombs' = tombs \cup {x} /\ job[a].pc = "tombstone"
      /\ job' = [job EXCEPT ![a] = UnlinkReturn(job[a])]
  BY <1>1 DEF UnlinkTombstone
<1>4. Burying(job[a]) /\ job \in [Actors -> Jobs]
  BY <1>3 DEF Burying, TypeInv, TypeOK
<1>5. \A b \in Actors : b # a => job'[b] = job[b]
  BY <1>3, <1>4
<1>6. job'[a].pc \notin Inserting /\ ~Burying(job'[a]) /\ job'[a].num <= seq
  BY <1>3, <1>4, UnlinkReturnLetsGo DEF Inserting, Burying, Keeps
<1>7. Drawn'
  BY <1>2, <1>3, <1>4, <1>5, <1>6 DEF Drawn, OwnTombs
<1>8. OwnTombs'
  <2> SUFFICES ASSUME NEW c \in Actors, Burying(job'[c])
               PROVE  /\ job'[c].num < job'[c].tseq /\ job'[c].tseq <= seq' /\ job'[c].tseq \notin messages'
                      /\ \A t \in tombs' : t.seq # job'[c].tseq
                      /\ \A b \in Actors : job'[b].pc \in Inserting => job'[b].made # job'[c].tseq
                      /\ \A b \in Actors : b # c /\ Burying(job'[b]) => job'[b].tseq # job'[c].tseq
    BY DEF OwnTombs, Burying
  <2>1. c # a /\ job'[c] = job[c]
    BY <1>5, <1>6
  <2>2. job[c].tseq # x.seq
    BY <1>2, <1>4, <2>1 DEF OwnTombs
  <2>3. \A t \in tombs' : t.seq # job'[c].tseq
    BY <1>3, <2>1, <2>2 DEF OwnTombs
  <2> QED
    BY <1>3, <1>5, <1>6, <2>1, <2>3 DEF OwnTombs
<1>9. UnburiedNumbers'
  <2>1. \A b \in Actors : job[b].pc \in Inserting => job[b].made # x.seq
    BY <1>2, <1>4 DEF OwnTombs
  <2> QED
    BY <1>3, <1>5, <1>6, <2>1 DEF UnburiedNumbers
<1>10. SharedNumberSpace'
  <2>1. x.num < x.seq /\ x.seq \notin messages /\ \A t \in tombs : t.seq # x.seq
    BY <1>2, <1>4 DEF OwnTombs
  <2> QED
    BY <1>3, <2>1 DEF SharedNumberSpace
<1> QED
  BY <1>7, <1>8, <1>9, <1>10

LEMMA InRoomIsDrawn ==
    ASSUME NumbersInv, NEW r \in Rooms, NEW n, MessageInRoom(r, n)
    PROVE  n <= seq
BY DEF NumbersInv, Drawn, MessageInRoom

LEMMA FoundIsDrawn ==
    ASSUME NumbersInv, NEW r \in Rooms, NEW e
    PROVE  FindByEuid(r, e) <= seq
<1>1. FindByEuid(r, e) = 0 \/ MessageInRoom(r, FindByEuid(r, e))
  BY DEF FindByEuid, RoomMessages, MessageInRoom
<1> QED
  BY <1>1, InRoomIsDrawn, NaturalNumbers DEF NumbersInv

LEMMA NumbersStep == NumbersInv /\ [Next]_vars => NumbersInv'
<1> SUFFICES ASSUME NumbersInv, [Next]_vars PROVE NumbersInv'
  OBVIOUS
<1>t. TypeInv'
  BY TypeInvStep DEF NumbersInv
<1>0. /\ TypeInv /\ seq \in Nat /\ 0 <= seq /\ job \in [Actors -> Jobs] /\ (\A p \in pointers : p[2] <= seq)
      /\ \A b \in Actors : job[b] \in Jobs /\ job[b].num <= seq
      /\ IdleJob.num = 0 /\ IdleJob \in Jobs
  BY NaturalNumbers, IdleJobType DEF NumbersInv, TypeInv, TypeOK, Drawn, IdleJob
(* A connection moves on to k, holding nothing. *)
<1>k. ASSUME NEW a \in Actors, NEW k, job' = [job EXCEPT ![a] = k], k.num <= seq,
             k.pc \notin {"write", "commit", "tombstone"}, UNCHANGED <<seq, tombs>>, messages' \subseteq messages,
             \A p \in pointers' : p[2] <= seq
      PROVE  NumbersInv'
  <2>1. Keeps(job[a], k)
    BY <1>k, LettingGo DEF Inserting, Burying
  <2> QED
    BY <1>k, <1>t, <2>1, KeepOne
<1>1. ASSUME NEW a \in Actors, InsertStep(a) PROVE NumbersInv'
  <2>1. ASSUME NEW rs \in (SUBSET Rooms) \ {{}}, NEW e \in Euids \cup {NoEuid}, BeginInsert(a, rs, e)
        PROVE  NumbersInv'
    <3>1. PICK k : k = [IdleJob EXCEPT !.pc = "alloc", !.op = "insert", !.targets = rs, !.text = e]
      OBVIOUS
    <3>2. k.pc = "alloc" /\ k.num = 0
      BY <1>0, <3>1 DEF Jobs
    <3> QED
      BY <1>0, <1>k, <2>1, <3>1, <3>2 DEF BeginInsert
  <2>2. ASSUME InsertRefused(a) PROVE NumbersInv'
    BY <2>2, <1>0, <1>t, IdleLetsGo, KeepOne DEF InsertRefused
  <2>3. ASSUME InsertAlloc(a) PROVE NumbersInv'
    BY <2>3, <1>t, DrawForInsert
  <2>4. ASSUME InsertWrite(a) PROVE NumbersInv'
    <3>1. PICK k : job' = [job EXCEPT ![a] = k] /\ (k = IdleJob \/ k = [job[a] EXCEPT !.pc = "commit"])
      BY <2>4, <1>0 DEF InsertWrite
    <3>2. Keeps(job[a], k)
      <4>1. CASE k = IdleJob
        BY <4>1, IdleLetsGo
      <4>2. CASE k = [job[a] EXCEPT !.pc = "commit"]
        <5>1. k.pc = "commit" /\ k.num = job[a].num /\ k.made = job[a].made /\ job[a].pc = "write"
          BY <4>2, <1>0, <2>4 DEF InsertWrite, Jobs
        <5> QED
          BY <5>1, <1>0 DEF Keeps, Inserting, Burying
      <4> QED
        BY <3>1, <4>1, <4>2
    <3> QED
      BY <1>0, <1>t, <2>4, <3>1, <3>2, KeepOne DEF InsertWrite
  <2>5. ASSUME InsertCommit(a) PROVE NumbersInv'
    BY <2>5, <1>t, UseForInsert
  <2> QED
    BY <1>1, <2>1, <2>2, <2>3, <2>4, <2>5 DEF InsertStep
<1>2. ASSUME NEW a \in Actors, UpsertStep(a) PROVE NumbersInv'
  <2>1. ASSUME NEW r \in Rooms, NEW e \in Euids, BeginUpsert(a, r, e) PROVE NumbersInv'
    <3>1. PICK k : k = [IdleJob EXCEPT !.pc = "begin", !.op = "upsert", !.room = r, !.targets = {r}, !.text = e,
                                       !.num = FindByEuid(r, e)]
      OBVIOUS
    <3>2. k.pc = "begin" /\ k.num = FindByEuid(r, e)
      BY <1>0, <3>1 DEF Jobs
    <3>3. job' = [job EXCEPT ![a] = k] /\ UNCHANGED <<seq, messages, pointers, tombs>>
      BY <2>1, <3>1 DEF BeginUpsert
    <3>4. k.num <= seq
      BY <3>2, FoundIsDrawn
    <3> QED
      BY <1>0, <1>k, <3>2, <3>3, <3>4
  <2>2. ASSUME UpsertTransaction(a) PROVE NumbersInv'
    <3>1. PICK k : k = [job[a] EXCEPT !.pc = "alloc", !.stale = {}]
      OBVIOUS
    <3>2. k.pc = "alloc" /\ k.num = job[a].num
      BY <1>0, <3>1 DEF Jobs
    <3>3. job' = [job EXCEPT ![a] = k]
      BY <1>0, <2>2, <3>1 DEF UpsertTransaction
    <3> QED
      BY <1>0, <1>k, <2>2, <3>2, <3>3 DEF UpsertTransaction
  <2>3. ASSUME UpsertDelete(a) PROVE NumbersInv'
    <3>1. PICK k : job' = [job EXCEPT ![a] = k] /\ (k = IdleJob \/ k = [job[a] EXCEPT !.pc = "read"])
      BY <2>3, <1>0 DEF UpsertDelete
    <3>2. k.num <= seq /\ k.pc \in {"idle", "read"}
      BY <1>0, <3>1 DEF Jobs, IdleJob
    <3> QED
      BY <1>0, <1>k, <2>3, <3>1, <3>2 DEF UpsertDelete
  <2> QED
    BY <1>2, <2>1, <2>2, <2>3 DEF UpsertStep
<1>3. ASSUME NEW a \in Actors, UnlinkStep(a) PROVE NumbersInv'
  <2>1. ASSUME NEW r \in Rooms, NEW n \in Nums, BeginDelete(a, r, n) PROVE NumbersInv'
    <3>1. PICK k : k = [IdleJob EXCEPT !.pc = "read", !.op = "delete", !.room = r, !.num = n]
      OBVIOUS
    <3>2. k.pc = "read" /\ k.num = n /\ n <= seq
      BY <1>0, <2>1, <3>1, InRoomIsDrawn DEF Jobs, BeginDelete
    <3> QED
      BY <1>0, <1>k, <2>1, <3>1, <3>2 DEF BeginDelete
  <2>2. ASSUME UnlinkReadEuid(a) PROVE NumbersInv'
    <3>0. PICK k : k = [job[a] EXCEPT !.pc = "unlink", !.gone = IF job[a].num \in messages THEN euid[job[a].num] ELSE NoEuid]
      OBVIOUS
    <3>1. k.num = job[a].num /\ k.pc = "unlink"
      BY <1>0, <3>0 DEF Jobs
    <3>3. job' = [job EXCEPT ![a] = k]
      BY <1>0, <3>0, <2>2 DEF UnlinkReadEuid
    <3> QED
      BY <1>0, <1>k, <2>2, <3>1, <3>3 DEF UnlinkReadEuid
  <2>3. ASSUME UnlinkPointer(a) PROVE NumbersInv'
    <3>0. PICK k : k = [job[a] EXCEPT !.pc = "tombseq"]
      OBVIOUS
    <3>1. k.num = job[a].num /\ k.pc = "tombseq"
      BY <1>0, <3>0 DEF Jobs
    <3>3. job' = [job EXCEPT ![a] = k]
      BY <1>0, <3>0, <2>3 DEF UnlinkPointer
    <3>2. \A p \in pointers' : p[2] <= seq
      BY <1>0, <2>3 DEF UnlinkPointer
    <3> QED
      BY <1>0, <1>k, <2>3, <3>1, <3>2, <3>3 DEF UnlinkPointer
  <2>4. ASSUME UnlinkSeq(a) PROVE NumbersInv'
    BY <2>4, <1>t, DrawForTombstone
  <2>5. ASSUME UnlinkSeqFails(a) PROVE NumbersInv'
    BY <2>5, <1>0, <1>t, UnlinkReturnLetsGo, KeepOne DEF UnlinkSeqFails
  <2>6. ASSUME UnlinkTombstone(a) PROVE NumbersInv'
    BY <2>6, <1>t, UseForTombstone
  <2> QED
    BY <1>3, <2>1, <2>2, <2>3, <2>4, <2>5, <2>6 DEF UnlinkStep
<1>4. ASSUME NEW a \in Actors, MoveStep(a) PROVE NumbersInv'
  <2>1. ASSUME NEW op, NEW from \in Rooms, NEW to \in Rooms, NEW n \in Nums, BeginMove(a, op, from, to, n)
        PROVE  NumbersInv'
    <3>1. PICK k : k = [IdleJob EXCEPT !.pc = "link", !.op = op, !.room = from, !.dest = to, !.num = n]
      OBVIOUS
    <3>2. k.pc = "link" /\ k.num = n /\ n <= seq
      BY <1>0, <2>1, <3>1, InRoomIsDrawn DEF Jobs, BeginMove
    <3> QED
      BY <1>0, <1>k, <2>1, <3>1, <3>2 DEF BeginMove
  <2>2. ASSUME MoveLink(a) PROVE NumbersInv'
    <3>0. PICK k : k = [job[a] EXCEPT !.pc = "raise"]
      OBVIOUS
    <3>1. k.num = job[a].num /\ k.pc = "raise"
      BY <1>0, <3>0 DEF Jobs
    <3>3. job' = [job EXCEPT ![a] = k]
      BY <1>0, <3>0, <2>2 DEF MoveLink
    <3>2. \A p \in pointers' : p[2] <= seq
      BY <1>0, <2>2 DEF MoveLink
    <3> QED
      BY <1>0, <1>k, <2>2, <3>1, <3>2, <3>3 DEF MoveLink
  <2>3. ASSUME MoveRaiseHighest(a) PROVE NumbersInv'
    <3>1. PICK k : /\ k = IdleJob \/ k = [job[a] EXCEPT !.pc = "read"]
                   /\ job' = [job EXCEPT ![a] = k] \/ job' = CommitRows(a, {job[a].dest}, k)
      BY <2>3 DEF MoveRaiseHighest
    <3>2. k.num <= seq /\ k.pc \in {"idle", "read"}
      BY <1>0, <3>1 DEF Jobs, IdleJob
    <3>3. UNCHANGED <<seq, messages, pointers, tombs>>
      BY <2>3 DEF MoveRaiseHighest
    <3>4. CASE job' = [job EXCEPT ![a] = k]
      BY <1>0, <1>k, <3>2, <3>3, <3>4
    <3>5. CASE job' = CommitRows(a, {job[a].dest}, k)
      <4>1. ASSUME NEW b \in Actors PROVE Keeps(job[b], job'[b])
        <5>1. CASE b = a
          BY <5>1, <3>2, <3>5, LettingGo DEF CommitRows, Inserting, Burying
        <5>2. CASE b # a
          <6>1. job'[b] = job[b] \/ job'[b] = [job[b] EXCEPT !.stale = @ \cup {job[a].dest}]
            BY <5>2, <3>5 DEF CommitRows
          <6>2. /\ job'[b].num = job[b].num /\ job'[b].pc = job[b].pc /\ job'[b].made = job[b].made
                /\ job'[b].tseq = job[b].tseq
            BY <1>0, <6>1 DEF Jobs
          <6> QED
            BY <1>0, <6>2 DEF Keeps, Burying
        <5> QED
          BY <5>1, <5>2
      <4> QED
        BY <1>0, <1>t, <3>3, <4>1, KeepStep
    <3> QED
      BY <3>1, <3>4, <3>5
  <2> QED
    BY <1>4, <2>1, <2>2, <2>3 DEF MoveStep
<1>5. ASSUME NEW a \in Actors, ExpiryStep(a) PROVE NumbersInv'
  <2>1. ASSUME BeginExpiry(a) PROVE NumbersInv'
    <3>1. PICK k : k = [IdleJob EXCEPT !.pc = "sweep", !.op = "expire", !.todo = Rooms]
      OBVIOUS
    <3>2. k.pc = "sweep" /\ k.num = 0
      BY <1>0, <3>1 DEF Jobs
    <3> QED
      BY <1>0, <1>k, <2>1, <3>1, <3>2 DEF BeginExpiry
  <2>2. ASSUME NEW r \in Rooms, ExpirySweepRoom(a, r) PROVE NumbersInv'
    <3>d. PICK d : job' = [job EXCEPT ![a].pc = "doom", ![a].room = r, ![a].doomed = d, ![a].todo = @ \ {r}]
      BY <2>2 DEF ExpirySweepRoom
    <3>0. PICK k : k = [job[a] EXCEPT !.pc = "doom", !.room = r, !.doomed = d, !.todo = @ \ {r}]
      OBVIOUS
    <3>1. k.num = job[a].num /\ k.pc = "doom"
      BY <1>0, <3>0 DEF Jobs
    <3>3. job' = [job EXCEPT ![a] = k]
      BY <1>0, <3>0, <3>d
    <3> QED
      BY <1>0, <1>k, <2>2, <3>1, <3>3 DEF ExpirySweepRoom
  <2>3. ASSUME NEW n \in Nums, ExpiryDeleteNext(a, n) PROVE NumbersInv'
    <3>0. PICK k : k = IF MessageInRoom(job[a].room, n)
                       THEN [job[a] EXCEPT !.pc = "read", !.num = n, !.doomed = @ \ {n}]
                       ELSE [job[a] EXCEPT !.doomed = @ \ {n}]
      OBVIOUS
    <3>1. /\ job[a].pc = "doom" /\ k.pc \in {"read", "doom"}
          /\ k.num = job[a].num \/ (k.num = n /\ MessageInRoom(job[a].room, n))
      BY <1>0, <2>3, <3>0 DEF ExpiryDeleteNext, Jobs
    <3>3. job' = [job EXCEPT ![a] = k]
      BY <1>0, <3>0, <2>3 DEF ExpiryDeleteNext
    <3>2. k.num <= seq
      BY <1>0, <3>1, InRoomIsDrawn DEF Jobs
    <3> QED
      BY <1>0, <1>k, <2>3, <3>1, <3>2, <3>3 DEF ExpiryDeleteNext
  <2>4. ASSUME ExpiryRoomDone(a) PROVE NumbersInv'
    <3>p. PICK p : p \in {"purge", "sweep"} /\ job' = [job EXCEPT ![a].pc = p]
      BY <2>4 DEF ExpiryRoomDone
    <3>0. PICK k : k = [job[a] EXCEPT !.pc = p]
      OBVIOUS
    <3>1. k.num = job[a].num /\ k.pc \in {"purge", "sweep"}
      BY <1>0, <3>0, <3>p DEF Jobs
    <3>3. job' = [job EXCEPT ![a] = k]
      BY <1>0, <3>0, <3>p
    <3> QED
      BY <1>0, <1>k, <2>4, <3>1, <3>3 DEF ExpiryRoomDone
  <2>5. ASSUME NEW n \in Nums, ExpiryPurgeRow(a, n) PROVE NumbersInv'
    <3>0. PICK k : k = [job[a] EXCEPT !.unlinked = @ \ {n}]
      OBVIOUS
    <3>1. k.num = job[a].num /\ k.pc = job[a].pc
      BY <1>0, <3>0 DEF Jobs
    <3>3. job' = [job EXCEPT ![a] = k]
      BY <1>0, <3>0, <2>5 DEF ExpiryPurgeRow
    <3>2. job[a].pc = "purge" /\ messages' \subseteq messages /\ UNCHANGED <<seq, pointers, tombs>>
      BY <2>5 DEF ExpiryPurgeRow
    <3> QED
      BY <1>0, <1>k, <3>1, <3>2, <3>3
  <2>6. ASSUME ExpiryDone(a) PROVE NumbersInv'
    BY <2>6, <1>0, <1>t, IdleLetsGo, KeepOne DEF ExpiryDone
  <2> QED
    BY <1>5, <2>1, <2>2, <2>3, <2>4, <2>5, <2>6 DEF ExpiryStep
<1>6. CASE Crash
  <2>1. \A b \in Actors : Keeps(job[b], job'[b])
    BY <1>6, IdleLetsGo DEF Crash
  <2> QED
    BY <1>0, <1>6, <1>t, <2>1, KeepStep DEF Crash
<1>7. CASE UNCHANGED vars
  <2>1. \A b \in Actors : Keeps(job[b], job'[b])
    BY <1>7, KeepsItself DEF vars
  <2> QED
    BY <1>0, <1>7, <1>t, <2>1, KeepStep DEF vars
<1> QED
  BY <1>1, <1>2, <1>3, <1>4, <1>5, <1>6, <1>7 DEF Next

LEMMA NumbersFirst == Init => NumbersInv
<1> SUFFICES ASSUME Init PROVE NumbersInv
  OBVIOUS
<1>1. TypeInv
  BY IdleJobType, IdleRegisters, BoundAssumption DEF Init, TypeInv, TypeOK, RegistersSet, Nums
<1>2. \A a \in Actors : job[a].pc = "idle" /\ job[a].num = 0
  BY DEF Init, IdleJob
<1>3. Drawn /\ OwnTombs /\ UnburiedNumbers
  BY <1>2 DEF Init, Drawn, OwnTombs, UnburiedNumbers, Inserting, Burying
<1> QED
  BY <1>1, <1>3 DEF Init, NumbersInv, SharedNumberSpace

(* Messages and tombstones share one monotone space of numbers, whatever     *)
(* any number of connections do between nextval and the statement that uses  *)
(* its value; moves, copies, sweeps, rollbacks and deaths included.          *)
THEOREM NumbersAreShared == Spec => []SharedNumberSpace
<1>1. NumbersInv => SharedNumberSpace
  BY DEF NumbersInv
<1> QED
  BY <1>1, NumbersFirst, NumbersStep, PTL DEF Spec

(* A room's highest_msg only ever grows, with inserts, moves of old messages *)
(* and rollbacks racing for its row.                                        *)
THEOREM HighestOnlyGrows == Spec => HighestNeverFalls
<1>1. ASSUME TypeInv, [Next]_vars PROVE [\A r \in Rooms : highest'[r] >= highest[r]]_vars
  <2> SUFFICES ASSUME NEW r \in Rooms, Next PROVE highest'[r] >= highest[r]
    BY <1>1
  <2>1. /\ highest \in [Rooms -> Nat] /\ highest[r] \in Nat
        /\ \A b \in Actors : job[b].num \in Nat /\ job[b].made \in Nat
    BY <1>1, NaturalRegisters
  <2>2. CASE highest' = highest
    BY <2>1, <2>2
  <2>3. ASSUME NEW a \in Actors, InsertCommit(a) PROVE highest'[r] >= highest[r]
    BY <2>1, <2>3 DEF InsertCommit, Greatest
  <2>4. ASSUME NEW a \in Actors, MoveRaiseHighest(a) PROVE highest'[r] >= highest[r]
    BY <2>1, <2>4 DEF MoveRaiseHighest, Greatest
  <2>5. ASSUME NEW a \in Actors, InsertStep(a), ~InsertCommit(a) PROVE highest' = highest
    BY <2>5 DEF InsertStep, BeginInsert, InsertRefused, InsertAlloc, InsertWrite
  <2>6. ASSUME NEW a \in Actors, MoveStep(a), ~MoveRaiseHighest(a) PROVE highest' = highest
    BY <2>6 DEF MoveStep, BeginMove, MoveLink
  <2>7. ASSUME NEW a \in Actors, UpsertStep(a) \/ UnlinkStep(a) \/ ExpiryStep(a) PROVE highest' = highest
    BY <2>7 DEF UpsertStep, BeginUpsert, UpsertTransaction, UpsertDelete,
                UnlinkStep, BeginDelete, UnlinkReadEuid, UnlinkPointer, UnlinkSeq, UnlinkSeqFails,
                UnlinkTombstone, ExpiryStep, BeginExpiry, ExpirySweepRoom, ExpiryDeleteNext,
                ExpiryRoomDone, ExpiryPurgeRow, ExpiryDone
  <2> QED
    BY <2>2, <2>3, <2>4, <2>5, <2>6, <2>7 DEF Next, Crash
<1>2. NumbersInv => TypeInv
  BY DEF NumbersInv
<1> QED
  BY <1>1, <1>2, NumbersFirst, NumbersStep, PTL DEF Spec, HighestNeverFalls
-----------------------------------------------------------------------------
(* An object once saved *)

OnlySaves == Ops \subseteq {"insert", "upsert", "crash"}

Saved(r, e, n) == n \in Nums /\ <<r, n>> \in pointers /\ n \in messages /\ euid[n] = e

(* A connection deletes a version only when a later one of the same object   *)
(* is in the room.                                                          *)
SaveOK(j) ==
    /\ j.pc \notin {"link", "raise", "sweep", "doom", "purge"} /\ j.op # "expire"
    /\ j.pc \in {"begin", "alloc", "write", "commit"} /\ j.op = "upsert" =>
           j.targets = {j.room} /\ (j.num # 0 => j.num \in Nums /\ euid[j.num] = j.text)
    /\ j.pc \in Inserting => j.num < j.made
    /\ j.pc \in {"check", "read", "unlink"} => \E n \in Nums : n > j.num /\ Saved(j.room, euid[j.num], n)

SavesInv == StoreInv /\ \A a \in Actors : SaveOK(job[a])

LEMMA SavesAreNoMoves == OnlySaves => NoMoves
BY DEF OnlySaves, NoMoves

LEMMA IdleSaveOK == SaveOK(IdleJob)
BY DEF SaveOK, IdleJob, Inserting

(* The steps of such a store that touch the tables. *)
LEMMA SaveSteps ==
    ASSUME OnlySaves, SavesInv, [Next]_vars
    PROVE  \/ UNCHANGED <<messages, euid, pointers>>
           \/ \E a \in Actors : InsertCommit(a)
           \/ \E a \in Actors : UnlinkPointer(a)
<1>1. ASSUME NEW a \in Actors
      PROVE  ~MoveStep(a) /\ ~BeginExpiry(a) /\ \A n \in Nums : ~ExpiryPurgeRow(a, n)
  BY DEF MoveStep, BeginMove, MoveLink, MoveRaiseHighest, BeginExpiry, ExpiryPurgeRow, OnlySaves, SavesInv, SaveOK
<1>2. ASSUME NEW a \in Actors, InsertStep(a), ~InsertCommit(a)
      PROVE  UNCHANGED <<messages, euid, pointers>>
  BY <1>2 DEF InsertStep, BeginInsert, InsertRefused, InsertAlloc, InsertWrite
<1>3. ASSUME NEW a \in Actors, UpsertStep(a) \/ ExpiryStep(a)
      PROVE  UNCHANGED <<messages, euid, pointers>>
  BY <1>1, <1>3 DEF UpsertStep, BeginUpsert, UpsertTransaction, UpsertDelete, ExpiryStep, ExpirySweepRoom,
     ExpiryDeleteNext, ExpiryRoomDone, ExpiryDone
<1>4. ASSUME NEW a \in Actors, UnlinkStep(a), ~UnlinkPointer(a)
      PROVE  UNCHANGED <<messages, euid, pointers>>
  BY <1>4 DEF UnlinkStep, BeginDelete, UnlinkReadEuid, UnlinkSeq, UnlinkSeqFails, UnlinkTombstone
<1> QED
  BY <1>1, <1>2, <1>3, <1>4 DEF Next, Crash, vars

(* What was saved stays, or a later version has taken its place. *)
LEMMA SavedStays ==
    ASSUME OnlySaves, SavesInv, [Next]_vars, NEW r \in Rooms, NEW e, NEW n, Saved(r, e, n)
    PROVE  \E m \in Nums : m >= n /\ Saved(r, e, m)'
<1>0. n \in Nat /\ n >= n /\ n \in Nums
  BY BoundAssumption DEF Saved, Nums
<1>1. CASE UNCHANGED <<messages, euid, pointers>>
  BY <1>0, <1>1 DEF Saved
<1>2. ASSUME NEW a \in Actors, InsertCommit(a)
      PROVE  Saved(r, e, n)'
  <2>1. job[a].made # n
    BY <1>2 DEF SavesInv, StoreInv, NumberUnused, InsertCommit, Inserting, Saved
  <2>2. euid \in [Nums -> Euids \cup {NoEuid}]
    BY DEF SavesInv, StoreInv, TypeInv, TypeOK
  <2> QED
    BY <1>2, <2>1, <2>2 DEF InsertCommit, Saved
<1>3. ASSUME NEW a \in Actors, UnlinkPointer(a)
      PROVE  \E m \in Nums : m >= n /\ Saved(r, e, m)'
  <2>1. /\ pointers' = pointers \ {<<job[a].room, job[a].num>>} /\ UNCHANGED <<messages, euid>>
        /\ job[a].pc = "unlink"
    BY <1>3 DEF UnlinkPointer
  <2>2. CASE r = job[a].room /\ n = job[a].num
    <3>1. PICK m \in Nums : m > n /\ Saved(r, e, m)
      BY <2>1, <2>2 DEF SavesInv, SaveOK, Saved
    <3>2. m >= n /\ m # n
      BY <1>0, <3>1, BoundAssumption DEF Nums
    <3> QED
      BY <2>1, <2>2, <3>1, <3>2 DEF Saved
  <2>3. CASE ~(r = job[a].room /\ n = job[a].num)
    BY <1>0, <2>1, <2>3 DEF Saved
  <2> QED
    BY <2>2, <2>3
<1> QED
  BY <1>0, <1>1, <1>2, <1>3, SaveSteps

LEMMA EuidStays ==
    ASSUME OnlySaves, SavesInv, [Next]_vars, NEW b \in Actors
    PROVE  job[b].num \in Nums => euid'[job[b].num] = euid[job[b].num]
<1>1. ASSUME NEW a \in Actors, InsertCommit(a), job[b].num \in Nums
      PROVE  euid'[job[b].num] = euid[job[b].num]
  <2>1. job[a].made # job[b].num
    BY <1>1 DEF SavesInv, StoreInv, NumberUnused, InsertCommit, Inserting
  <2>2. euid \in [Nums -> Euids \cup {NoEuid}]
    BY DEF SavesInv, StoreInv, TypeInv, TypeOK
  <2> QED
    BY <1>1, <2>1, <2>2 DEF InsertCommit
<1> QED
  BY <1>1, SaveSteps DEF UnlinkPointer

LEMMA SaveStays ==
    ASSUME OnlySaves, SavesInv, [Next]_vars, NEW b \in Actors, NEW j, j = job[b]
    PROVE  SaveOK(j)'
<1>0. /\ j \in Jobs /\ Registers(j) /\ SaveOK(j) /\ j.room \in Rooms /\ j.num \in Nat
  BY BoundAssumption DEF SavesInv, StoreInv, TypeInv, TypeOK, RegistersSet, Jobs
<1>1. j.num \in Nums => euid'[j.num] = euid[j.num]
  BY EuidStays
<1>2. ASSUME j.pc \in {"check", "read", "unlink"}
      PROVE  \E n \in Nums : n > j.num /\ Saved(j.room, euid[j.num], n)'
  <2>1. j.num \in Nums
    BY <1>0, <1>2 DEF Registers, Unlinking
  <2>2. PICK e : e = euid[j.num]
    OBVIOUS
  <2>3. PICK n \in Nums : n > j.num /\ Saved(j.room, e, n)
    BY <1>0, <1>2, <2>2 DEF SaveOK
  <2>4. PICK m \in Nums : m >= n /\ Saved(j.room, e, m)'
    BY <1>0, <2>3, SavedStays
  <2>5. m > j.num
    BY <1>0, <2>3, <2>4, BoundAssumption DEF Nums
  <2>6. Saved(j.room, euid[j.num], m)'
    BY <1>1, <2>1, <2>2, <2>4 DEF Saved
  <2> QED
    BY <2>5, <2>6
<1> QED
  BY <1>0, <1>1, <1>2 DEF SaveOK, Saved

(* One connection goes on to k, the others stay or learn of a commit. *)
LEMMA SaveOne ==
    ASSUME OnlySaves, SavesInv, [Next]_vars, NEW a \in Actors, NEW k, SaveOK(k)', job'[a] = k,
           \A b \in Actors \ {a} : job'[b] = job[b] \/ \E s \in SUBSET Rooms : job'[b] = [job[b] EXCEPT !.stale = s]
    PROVE  \A b \in Actors : SaveOK(job[b])'
<1> SUFFICES ASSUME NEW b \in Actors PROVE SaveOK(job[b])'
  OBVIOUS
<1>1. CASE b = a
  BY <1>1 DEF SaveOK, Saved
<1>2. CASE b # a
  <2>1. PICK j : j = job[b]
    OBVIOUS
  <2>2. SaveOK(j)' /\ j \in Jobs
    BY <2>1, SaveStays DEF SavesInv, StoreInv, TypeInv, TypeOK
  <2>3. PICK i : i = job'[b] /\ (i = j \/ \E s \in SUBSET Rooms : i = [j EXCEPT !.stale = s])
    BY <1>2, <2>1
  <2>4. /\ i.pc = j.pc /\ i.op = j.op /\ i.room = j.room /\ i.num = j.num /\ i.made = j.made /\ i.text = j.text
        /\ i.targets = j.targets
    BY <2>2, <2>3 DEF Jobs
  <2>5. SaveOK(i)'
    BY <2>2, <2>4 DEF SaveOK, Saved
  <2> QED
    BY <2>3, <2>5 DEF SaveOK, Saved
<1> QED
  BY <1>1, <1>2

LEMMA FoundIsSaved ==
    ASSUME NEW r \in Rooms, NEW e, FindByEuid(r, e) # 0
    PROVE  Saved(r, e, FindByEuid(r, e))
<1> DEFINE Newest(n) == /\ n \in {m \in RoomMessages(r) : m \in messages /\ euid[m] = e}
                        /\ \A m \in {i \in RoomMessages(r) : i \in messages /\ euid[i] = e} : m <= n
<1>1. FindByEuid(r, e) = IF \E n \in Nums : Newest(n) THEN CHOOSE n \in Nums : Newest(n) ELSE 0
  BY DEF FindByEuid
<1>2. \A n : Newest(n) => Saved(r, e, n)
  BY DEF RoomMessages, Saved
<1> HIDE DEF Newest
<1>3. Newest(FindByEuid(r, e))
  BY <1>1
<1> QED
  BY <1>2, <1>3

LEMMA SavedIsFound ==
    ASSUME NEW r \in Rooms, NEW e, NEW n \in Nums, Saved(r, e, n)'
    PROVE  FindByEuid(r, e)' # 0
<1>1. PICK found : found = {m \in Nums : <<r, m>> \in pointers' /\ m \in messages' /\ euid'[m] = e}
  OBVIOUS
<1> DEFINE Newest(m) == m \in found /\ \A i \in found : i <= m
<1>2. FindByEuid(r, e)' = IF \E m \in Nums : Newest(m) THEN CHOOSE m \in Nums : Newest(m) ELSE 0
  <2>1. found = {m \in {i \in Nums : <<r, i>> \in pointers'} : m \in messages' /\ euid'[m] = e}
    BY <1>1
  <2> QED
    BY <2>1 DEF FindByEuid, RoomMessages
<1>3. n \in found /\ found \subseteq 0..MaxSeq /\ MaxSeq \in Nat /\ found \subseteq Nums /\ 0 \notin Nums
  BY <1>1, BoundAssumption DEF Saved, Nums
<1>4. \E m \in Nums : Newest(m)
  BY <1>3, GreatestMember
<1> HIDE DEF Newest
<1> QED
  BY <1>2, <1>3, <1>4

LEMMA SavesStep ==
    ASSUME OnlySaves
    PROVE  SavesInv /\ [Next]_vars => SavesInv'
<1> SUFFICES ASSUME SavesInv, [Next]_vars PROVE SavesInv'
  OBVIOUS
<1>s. StoreInv'
  BY SavesAreNoMoves, StoreInvStep DEF SavesInv
<1> SUFFICES \A b \in Actors : SaveOK(job[b])'
  BY <1>s DEF SavesInv
<1>0. /\ job \in [Actors -> Jobs] /\ seq \in Nat
      /\ \A b \in Actors : job[b] \in Jobs /\ Registers(job[b]) /\ SaveOK(job[b]) /\ job[b].num <= seq
                           /\ job[b].num \in Nat
  <2>1. \A b \in Actors : SaveOK(job[b]) /\ job[b].num <= seq
    BY DEF SavesInv, StoreInv, SequenceBounds
  <2>2. TypeInv /\ job \in [Actors -> Jobs] /\ RegistersSet
    BY DEF SavesInv, StoreInv, TypeInv, TypeOK
  <2> QED
    BY <2>1, <2>2, NaturalRegisters DEF RegistersSet
<1>i. SaveOK(IdleJob)' /\ IdleJob \in Jobs
  BY IdleSaveOK, IdleJobType DEF SaveOK, IdleJob, Inserting
(* The job of one connection becomes k. *)
<1>k. ASSUME NEW a \in Actors, NEW k, SaveOK(k)', job' = [job EXCEPT ![a] = k]
      PROVE  \A b \in Actors : SaveOK(job[b])'
  BY <1>0, <1>k, SaveOne
<1>p. ASSUME NEW a \in Actors, NEW k, job' = [job EXCEPT ![a] = k], k.op # "expire",
             k.pc \in {"idle", "tombseq", "tombstone"} \/ (k.op # "upsert" /\ k.pc \in {"begin", "alloc"})
      PROVE  \A b \in Actors : SaveOK(job[b])'
  <2>1. SaveOK(k)'
    BY <1>p DEF SaveOK, Inserting
  <2> QED
    BY <1>k, <1>p, <2>1
<1>r. \A a \in Actors : UnlinkReturn(job[a]) = IdleJob
  BY <1>0 DEF UnlinkReturn, SaveOK
<1>e. IdleJob.pc = "idle" /\ IdleJob.op = "none" /\ IdleJob.num = 0
  BY DEF IdleJob
<1>1. ASSUME NEW a \in Actors, InsertStep(a) PROVE \A b \in Actors : SaveOK(job[b])'
  <2>1. ASSUME NEW rs, NEW e, BeginInsert(a, rs, e) PROVE \A b \in Actors : SaveOK(job[b])'
    <3>1. PICK k : k = [IdleJob EXCEPT !.pc = "alloc", !.op = "insert", !.targets = rs, !.text = e]
      OBVIOUS
    <3>2. k.pc = "alloc" /\ k.op = "insert" /\ job' = [job EXCEPT ![a] = k]
      BY <1>i, <2>1, <3>1 DEF Jobs, BeginInsert
    <3> QED
      BY <1>p, <3>2
  <2>2. ASSUME InsertRefused(a) PROVE \A b \in Actors : SaveOK(job[b])'
    BY <2>2, <1>i, <1>k DEF InsertRefused
  <2>3. ASSUME InsertAlloc(a) PROVE \A b \in Actors : SaveOK(job[b])'
    <3>1. PICK j : j = job[a] /\ j \in Jobs /\ SaveOK(j)'
      BY <1>0, SaveStays
    <3>2. PICK k : k = [j EXCEPT !.pc = "write", !.made = seq + 1]
      OBVIOUS
    <3>3. /\ k.pc = "write" /\ k.op = j.op /\ k.num = j.num /\ k.targets = j.targets /\ k.room = j.room
          /\ k.text = j.text /\ k.made = seq + 1 /\ j.pc = "alloc"
      BY <2>3, <3>1, <3>2 DEF Jobs, InsertAlloc
    <3>4. k.num < k.made
      BY <1>0, <3>1, <3>3
    <3>5. SaveOK(k)'
      BY <3>1, <3>3, <3>4 DEF SaveOK
    <3>6. job' = [job EXCEPT ![a] = k]
      BY <1>0, <2>3, <3>1, <3>2 DEF InsertAlloc
    <3> QED
      BY <1>k, <3>5, <3>6
  <2>4. ASSUME InsertWrite(a) PROVE \A b \in Actors : SaveOK(job[b])'
    <3>1. PICK j : j = job[a] /\ j \in Jobs /\ SaveOK(j)'
      BY <1>0, SaveStays
    <3>2. PICK k : job' = [job EXCEPT ![a] = k] /\ (k = IdleJob \/ k = [j EXCEPT !.pc = "commit"])
      BY <1>0, <2>4, <3>1 DEF InsertWrite
    <3>3. CASE k = IdleJob
      BY <1>i, <1>k, <3>2, <3>3
    <3>4. CASE k = [j EXCEPT !.pc = "commit"]
      <4>1. /\ k.pc = "commit" /\ k.op = j.op /\ k.num = j.num /\ k.targets = j.targets /\ k.room = j.room
            /\ k.text = j.text /\ k.made = j.made /\ j.pc = "write"
        BY <2>4, <3>1, <3>4 DEF Jobs, InsertWrite
      <4>2. SaveOK(k)'
        BY <3>1, <4>1 DEF SaveOK, Inserting
      <4> QED
        BY <1>k, <3>2, <4>2
    <3> QED
      BY <3>2, <3>3, <3>4
  <2>5. ASSUME InsertCommit(a) PROVE \A b \in Actors : SaveOK(job[b])'
    <3>1. PICK j : j = job[a] /\ j \in Jobs /\ SaveOK(j) /\ SaveOK(j)' /\ j.made \in Nums
      BY <1>0, <2>5, SaveStays DEF InsertCommit, Registers, Inserting
    <3>2. PICK k : k = IF j.op = "upsert" /\ j.num # 0 THEN [j EXCEPT !.pc = "check"] ELSE IdleJob
      OBVIOUS
    <3>3. job' = CommitRows(a, j.targets, k) /\ j.pc = "commit"
      BY <2>5, <3>1, <3>2 DEF InsertCommit
    <3>4. /\ job'[a] = k
          /\ \A b \in Actors \ {a} : job'[b] = job[b] \/ \E s \in SUBSET Rooms : job'[b] = [job[b] EXCEPT !.stale = s]
      <4>1. job'[a] = k
        BY <3>3 DEF CommitRows
      <4>2. ASSUME NEW b \in Actors \ {a}
            PROVE  job'[b] = job[b] \/ \E s \in SUBSET Rooms : job'[b] = [job[b] EXCEPT !.stale = s]
        <5>1. job'[b] = job[b] \/ job'[b] = [job[b] EXCEPT !.stale = @ \cup j.targets]
          BY <3>3 DEF CommitRows
        <5>2. job[b].stale \cup j.targets \in SUBSET Rooms
          BY <1>0, <3>1 DEF Jobs
        <5> QED
          BY <5>1, <5>2
      <4> QED
        BY <4>1, <4>2
    <3>5. SaveOK(k)'
      <4>1. CASE k = IdleJob
        BY <1>i, <4>1 DEF SaveOK, Saved
      <4>2. CASE j.op = "upsert" /\ j.num # 0
        <5>1. k.pc = "check" /\ k.op = j.op /\ k.num = j.num /\ k.room = j.room
          BY <3>1, <3>2, <4>2 DEF Jobs
        <5>2. /\ j.targets = {j.room} /\ j.num \in Nums /\ euid[j.num] = j.text /\ euid'[j.num] = j.text
              /\ j.num < j.made
          BY <3>1, <3>3, <4>2 DEF SaveOK, Inserting
        <5>3. euid \in [Nums -> Euids \cup {NoEuid}]
          BY DEF SavesInv, StoreInv, TypeInv, TypeOK
        <5>4. Saved(j.room, j.text, j.made)'
          BY <2>5, <3>1, <5>2, <5>3 DEF InsertCommit, Saved
        <5>5. j.made > j.num
          BY <3>1, <5>2, BoundAssumption DEF Nums
        <5> QED
          BY <3>1, <5>1, <5>2, <5>4, <5>5 DEF SaveOK, Saved, Inserting
      <4> QED
        BY <3>2, <4>1, <4>2
    <3> QED
      BY <3>4, <3>5, SaveOne
  <2> QED
    BY <1>1, <2>1, <2>2, <2>3, <2>4, <2>5 DEF InsertStep
<1>2. ASSUME NEW a \in Actors, UpsertStep(a) PROVE \A b \in Actors : SaveOK(job[b])'
  <2>1. ASSUME NEW r \in Rooms, NEW e \in Euids, BeginUpsert(a, r, e) PROVE \A b \in Actors : SaveOK(job[b])'
    <3>1. PICK k : k = [IdleJob EXCEPT !.pc = "begin", !.op = "upsert", !.room = r, !.targets = {r}, !.text = e,
                                       !.num = FindByEuid(r, e)]
      OBVIOUS
    <3>2. /\ k.pc = "begin" /\ k.num = FindByEuid(r, e) /\ k.op = "upsert" /\ k.targets = {r} /\ k.room = r /\ k.text = e
          /\ job' = [job EXCEPT ![a] = k] /\ UNCHANGED euid
      BY <1>i, <2>1, <3>1 DEF Jobs, BeginUpsert
    <3>3. k.num # 0 => k.num \in Nums /\ euid[k.num] = e
      <4>2. FindByEuid(r, e) # 0 => Saved(r, e, FindByEuid(r, e))
        BY FoundIsSaved
      <4> QED
        BY <3>2, <4>2 DEF Saved
    <3>4. SaveOK(k)'
      BY <3>2, <3>3 DEF SaveOK, Inserting
    <3> QED
      BY <1>k, <3>2, <3>4
  <2>2. ASSUME UpsertTransaction(a) PROVE \A b \in Actors : SaveOK(job[b])'
    <3>1. PICK j : j = job[a] /\ j \in Jobs /\ SaveOK(j)'
      BY <1>0, SaveStays
    <3>2. PICK k : k = [j EXCEPT !.pc = "alloc", !.stale = {}]
      OBVIOUS
    <3>3. /\ k.pc = "alloc" /\ k.op = j.op /\ k.num = j.num /\ k.targets = j.targets /\ k.room = j.room
          /\ k.text = j.text /\ j.pc = "begin"
      BY <2>2, <3>1, <3>2 DEF Jobs, UpsertTransaction
    <3>4. SaveOK(k)'
      BY <3>1, <3>3 DEF SaveOK, Inserting
    <3>5. job' = [job EXCEPT ![a] = k]
      BY <1>0, <2>2, <3>1, <3>2 DEF UpsertTransaction
    <3> QED
      BY <1>k, <3>4, <3>5
  <2>3. ASSUME UpsertDelete(a) PROVE \A b \in Actors : SaveOK(job[b])'
    <3>1. PICK j : j = job[a] /\ j \in Jobs /\ SaveOK(j)'
      BY <1>0, SaveStays
    <3>2. PICK k : job' = [job EXCEPT ![a] = k] /\ (k = IdleJob \/ k = [j EXCEPT !.pc = "read"])
      BY <1>0, <2>3, <3>1 DEF UpsertDelete
    <3>3. CASE k = IdleJob
      BY <1>i, <1>k, <3>2, <3>3
    <3>4. CASE k = [j EXCEPT !.pc = "read"]
      <4>1. k.pc = "read" /\ k.op = j.op /\ k.num = j.num /\ k.room = j.room /\ j.pc = "check"
        BY <2>3, <3>1, <3>4 DEF Jobs, UpsertDelete
      <4>2. SaveOK(k)'
        BY <3>1, <4>1 DEF SaveOK, Inserting
      <4> QED
        BY <1>k, <3>2, <4>2
    <3> QED
      BY <3>2, <3>3, <3>4
  <2> QED
    BY <1>2, <2>1, <2>2, <2>3 DEF UpsertStep
<1>3. ASSUME NEW a \in Actors, UnlinkStep(a) PROVE \A b \in Actors : SaveOK(job[b])'
  <2>1. ASSUME NEW r \in Rooms, NEW n \in Nums PROVE ~BeginDelete(a, r, n)
    BY DEF BeginDelete, OnlySaves
  <2>2. ASSUME UnlinkReadEuid(a) PROVE \A b \in Actors : SaveOK(job[b])'
    <3>1. PICK j : j = job[a] /\ j \in Jobs /\ SaveOK(j)'
      BY <1>0, SaveStays
    <3>2. PICK k : k = [j EXCEPT !.pc = "unlink", !.gone = IF j.num \in messages THEN euid[j.num] ELSE NoEuid]
      OBVIOUS
    <3>3. k.pc = "unlink" /\ k.op = j.op /\ k.num = j.num /\ k.room = j.room /\ j.pc = "read"
      BY <2>2, <3>1, <3>2 DEF Jobs, UnlinkReadEuid
    <3>4. SaveOK(k)'
      BY <3>1, <3>3 DEF SaveOK, Inserting
    <3>5. job' = [job EXCEPT ![a] = k]
      BY <1>0, <2>2, <3>1, <3>2 DEF UnlinkReadEuid
    <3> QED
      BY <1>k, <3>4, <3>5
  <2>3. ASSUME UnlinkPointer(a) PROVE \A b \in Actors : SaveOK(job[b])'
    <3>1. PICK k : k = [job[a] EXCEPT !.pc = "tombseq"]
      OBVIOUS
    <3>2. k.pc = "tombseq" /\ k.op # "expire"
      BY <1>0, <3>1 DEF Jobs, SaveOK
    <3>3. job' = [job EXCEPT ![a] = k]
      BY <1>0, <2>3, <3>1 DEF UnlinkPointer
    <3> QED
      BY <1>p, <3>2, <3>3
  <2>4. ASSUME UnlinkSeq(a) PROVE \A b \in Actors : SaveOK(job[b])'
    <3>1. PICK k : k = [job[a] EXCEPT !.pc = "tombstone", !.tseq = seq + 1]
      OBVIOUS
    <3>2. k.pc = "tombstone" /\ k.op # "expire"
      BY <1>0, <3>1 DEF Jobs, SaveOK
    <3>3. job' = [job EXCEPT ![a] = k]
      BY <1>0, <2>4, <3>1 DEF UnlinkSeq
    <3> QED
      BY <1>p, <3>2, <3>3
  <2>5. ASSUME UnlinkSeqFails(a) \/ UnlinkTombstone(a) PROVE \A b \in Actors : SaveOK(job[b])'
    <3>1. job' = [job EXCEPT ![a] = IdleJob]
      BY <1>0, <1>r, <2>5 DEF UnlinkSeqFails, UnlinkTombstone
    <3> QED
      BY <1>i, <1>k, <3>1
  <2> QED
    BY <1>3, <2>1, <2>2, <2>3, <2>4, <2>5 DEF UnlinkStep
<1>4. ASSUME NEW a \in Actors PROVE ~MoveStep(a) /\ ~ExpiryStep(a)
  BY <1>0 DEF MoveStep, BeginMove, MoveLink, MoveRaiseHighest, ExpiryStep, BeginExpiry, ExpirySweepRoom,
     ExpiryDeleteNext, ExpiryRoomDone, ExpiryPurgeRow, ExpiryDone, OnlySaves, SaveOK
<1>5. CASE Crash
  <2>1. \A b \in Actors : job'[b] = IdleJob
    BY <1>5 DEF Crash
  <2> QED
    BY <1>i, <2>1 DEF SaveOK, Saved
<1>6. CASE UNCHANGED vars
  <2> SUFFICES ASSUME NEW b \in Actors PROVE SaveOK(job[b])'
    OBVIOUS
  <2>1. PICK j : j = job[b]
    OBVIOUS
  <2>2. SaveOK(j)' /\ j = job'[b]
    BY <1>6, <2>1, SaveStays DEF vars
  <2> QED
    BY <2>2 DEF SaveOK, Saved
<1> QED
  BY <1>1, <1>2, <1>3, <1>4, <1>5, <1>6 DEF Next

(* Where mail is only saved, an object of a room can be found under some     *)
(* number from its first save on, through upserts that race, abort and die:  *)
(* UpsertByEuid inserts first and unlinks second, and what it unlinks is     *)
(* never the latest version.                                                *)
THEOREM SavedObjectsSurvive == OnlySaves => (Spec => SavedObjectSurvives)
<1> SUFFICES ASSUME OnlySaves PROVE Spec => SavedObjectSurvives
  OBVIOUS
<1>1. Init => SavesInv
  <2>1. Init => \A a \in Actors : SaveOK(job[a])
    BY IdleSaveOK DEF Init
  <2> QED
    BY <2>1, StoreInvInit DEF SavesInv
<1>2. SavesInv /\ [Next]_vars => SavesInv'
  BY SavesStep
<1>3. ASSUME SavesInv, [Next]_vars
      PROVE  [\A r \in Rooms, e \in Euids : FindByEuid(r, e) # 0 => FindByEuid(r, e)' # 0]_vars
  <2> SUFFICES ASSUME NEW r \in Rooms, NEW e \in Euids, FindByEuid(r, e) # 0
               PROVE  FindByEuid(r, e)' # 0
    OBVIOUS
  <2>1. Saved(r, e, FindByEuid(r, e))
    BY FoundIsSaved
  <2>2. PICK m \in Nums : Saved(r, e, m)'
    BY <1>3, <2>1, SavedStays
  <2> QED
    BY <2>2, SavedIsFound
<1> QED
  BY <1>1, <1>2, <1>3, PTL DEF Spec, SavedObjectSurvives
=============================================================================
