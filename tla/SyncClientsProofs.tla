-------------------------- MODULE SyncClientsProofs --------------------------
(***************************************************************************)
(* Proofs about SyncClients: the CalDAV and the JMAP client beside the     *)
(* store, for any rooms, euids, policies and sequence bound.  What a step  *)
(* of the store means for somebody who reads it is worked out once (Acts,  *)
(* StepEffects); the invariants of the clients then go by those effects.   *)
(***************************************************************************)
EXTENDS SyncClients, MessageStoreProofs

-----------------------------------------------------------------------------
(* What one step of the store does, by what it means for those who read it *)

SameBusiness(j, k) ==
    /\ k.pc = j.pc /\ k.num = j.num /\ k.made = j.made
    /\ k.room = j.room /\ k.gone = j.gone /\ k.tseq = j.tseq

(* Nothing a reader sees changes, but rows that no room points at may go. *)
Still ==
    /\ UNCHANGED <<seq, euid, pointers, tombs>>
    /\ messages' \subseteq messages
    /\ \A p \in pointers : p[2] \in messages => p[2] \in messages'

Loose == {"idle", "begin", "alloc", "sweep", "doom", "purge", "check"}

Loosens(j, k) ==
    /\ Still /\ k.pc \in Loose /\ j.pc \notin {"commit", "tombstone"}
    /\ j.pc = "tombseq" => seq = MaxSeq
    /\ k.num \in {0, j.num} \/ \E r \in Rooms : <<r, k.num>> \in pointers

(* On to the removal of a message that is there, or that was moved out. *)
Takes(j, k) ==
    /\ Still /\ k.pc = "read" /\ j.pc \in {"idle", "check", "doom", "raise"}
    /\ \/ k.room \in Rooms /\ <<k.room, k.num>> \in pointers
       \/ j.pc = "raise" /\ k.room = j.room /\ k.num = j.num

Looks(j, k) ==
    /\ Still /\ messages' = messages
    /\ j.pc = "read" /\ k.pc = "unlink" /\ k.room = j.room /\ k.num = j.num
    /\ k.gone = IF j.num \in messages THEN euid[j.num] ELSE NoEuid

Drops(j, k) ==
    /\ UNCHANGED <<seq, messages, euid, tombs>>
    /\ pointers' = pointers \ {<<j.room, j.num>>}
    /\ j.pc = "unlink" /\ k.pc = "tombseq" /\ k.room = j.room /\ k.num = j.num /\ k.gone = j.gone

Counts(j, k) ==
    /\ UNCHANGED <<messages, euid, pointers, tombs>> /\ seq < MaxSeq /\ seq' = seq + 1
    /\ j.pc = "tombseq" /\ k.pc = "tombstone" /\ k.room = j.room /\ k.num = j.num /\ k.gone = j.gone
    /\ k.tseq = seq + 1

Buries(j, k) ==
    /\ UNCHANGED <<seq, messages, euid, pointers>>
    /\ \E t \in Tombstones : /\ t.room = j.room /\ t.seq = j.tseq /\ t.num = j.num /\ t.euid = j.gone
                             /\ tombs' = tombs \cup {t}
    /\ j.pc = "tombstone" /\ k.pc \in {"idle", "doom"} /\ k.num \in {0, j.num}

Picks(j, k) ==
    /\ Still /\ messages' = messages
    /\ j.pc = "idle" /\ k.pc = "link" /\ k.room \in Rooms /\ <<k.room, k.num>> \in pointers

Files(j, k) ==
    /\ UNCHANGED <<seq, messages, euid, tombs>>
    /\ \E r \in Rooms : pointers' = pointers \cup {<<r, j.num>>}
    /\ j.pc = "link" /\ k.pc = "raise" /\ k.room = j.room /\ k.num = j.num

Allocates(j, k) ==
    /\ UNCHANGED <<messages, euid, pointers, tombs>> /\ seq < MaxSeq /\ seq' = seq + 1
    /\ j.pc = "alloc" /\ k.pc = "write" /\ k.made = seq + 1 /\ k.num = j.num

Writes(j, k) ==
    /\ Still /\ messages' = messages
    /\ j.pc = "write" /\ k.pc = "commit" /\ k.made = j.made /\ k.num = j.num

Commits(j, k) ==
    /\ UNCHANGED <<seq, tombs>> /\ messages' = messages \cup {j.made}
    /\ \E e \in Euids \cup {NoEuid} : euid' = [euid EXCEPT ![j.made] = e]
    /\ \E rs \in SUBSET Rooms : pointers' = pointers \cup (rs \X {j.made})
    /\ j.pc = "commit" /\ k.pc \in {"idle", "check"} /\ k.num \in {0, j.num}

Effect(j, k) ==
    \/ Loosens(j, k) \/ Takes(j, k) \/ Looks(j, k) \/ Drops(j, k) \/ Counts(j, k) \/ Buries(j, k)
    \/ Picks(j, k) \/ Files(j, k) \/ Allocates(j, k) \/ Writes(j, k) \/ Commits(j, k)

Acts(a) == Effect(job[a], job'[a]) /\ \A b \in Actors \ {a} : SameBusiness(job[b], job'[b])

Dies ==
    /\ UNCHANGED <<seq, messages, euid, pointers, tombs>> /\ "crash" \in Ops
    /\ \A b \in Actors : job'[b].pc = "idle" /\ job'[b].num = 0

LEMMA ActsAlone ==
    ASSUME TypeInv, NEW a \in Actors, NEW k, job' = [job EXCEPT ![a] = k], Effect(job[a], k)
    PROVE  Acts(a)
BY DEF Acts, SameBusiness, TypeInv, TypeOK

LEMMA IdleIsLoose ==
    ASSUME NEW j, Still, j.pc \notin {"commit", "tombstone"}, j.pc = "tombseq" => seq = MaxSeq
    PROVE  Effect(j, IdleJob)
<1>1. IdleJob.pc = "idle" /\ IdleJob.num = 0
  BY DEF IdleJob
<1> QED
  BY <1>1 DEF Effect, Loosens, Loose

LEMMA InsertEffects ==
    ASSUME TypeInv, NEW a \in Actors, InsertStep(a)
    PROVE  Acts(a)
<1>0. /\ job \in [Actors -> Jobs] /\ job[a] \in Jobs /\ IdleJob \in Jobs
      /\ IdleJob.num = 0 /\ IdleJob.pc = "idle"
  BY IdleJobType DEF TypeInv, TypeOK, IdleJob
<1>s. UNCHANGED <<seq, messages, euid, pointers, tombs>> => Still
  BY DEF Still
<1>1. ASSUME NEW rs \in (SUBSET Rooms) \ {{}}, NEW e \in Euids \cup {NoEuid}, BeginInsert(a, rs, e)
      PROVE  Acts(a)
  <2>1. PICK k : k = [IdleJob EXCEPT !.pc = "alloc", !.op = "insert", !.targets = rs, !.text = e]
    OBVIOUS
  <2>2. k.pc = "alloc" /\ k.num = 0
    BY <1>0, <2>1 DEF Jobs
  <2>3. job' = [job EXCEPT ![a] = k] /\ job[a].pc = "idle" /\ Still
    BY <1>1, <1>s, <2>1 DEF BeginInsert
  <2>4. Effect(job[a], k)
    BY <2>2, <2>3 DEF Effect, Loosens, Loose
  <2> QED
    BY <2>3, <2>4, ActsAlone
<1>2. CASE InsertRefused(a)
  <2>1. job' = [job EXCEPT ![a] = IdleJob] /\ job[a].pc = "alloc" /\ Still
    BY <1>2, <1>s DEF InsertRefused
  <2> QED
    BY <2>1, IdleIsLoose, ActsAlone
<1>3. CASE InsertAlloc(a)
  <2>1. PICK k : k = [job[a] EXCEPT !.pc = "write", !.made = seq + 1]
    OBVIOUS
  <2>2. k.pc = "write" /\ k.num = job[a].num /\ k.made = seq + 1
    BY <1>0, <2>1 DEF Jobs
  <2>3. /\ job' = [job EXCEPT ![a] = k] /\ job[a].pc = "alloc" /\ seq < MaxSeq /\ seq' = seq + 1
        /\ UNCHANGED <<messages, euid, pointers, tombs>>
    BY <1>0, <1>3, <2>1 DEF InsertAlloc
  <2>4. Effect(job[a], k)
    BY <2>2, <2>3 DEF Effect, Allocates
  <2> QED
    BY <2>3, <2>4, ActsAlone
<1>4. CASE InsertWrite(a)
  <2>1. PICK k : job' = [job EXCEPT ![a] = k] /\ (k = IdleJob \/ k = [job[a] EXCEPT !.pc = "commit"])
    BY <1>0, <1>4 DEF InsertWrite
  <2>2. job[a].pc = "write" /\ Still /\ messages' = messages
    BY <1>4, <1>s DEF InsertWrite
  <2>3. CASE k = IdleJob
    BY <2>1, <2>2, <2>3, IdleIsLoose, ActsAlone
  <2>4. CASE k = [job[a] EXCEPT !.pc = "commit"]
    <3>1. k.pc = "commit" /\ k.num = job[a].num /\ k.made = job[a].made
      BY <1>0, <2>4 DEF Jobs
    <3>2. Effect(job[a], k)
      BY <2>2, <3>1 DEF Effect, Writes
    <3> QED
      BY <2>1, <3>2, ActsAlone
  <2> QED
    BY <2>1, <2>3, <2>4
<1>5. CASE InsertCommit(a)
  <2>1. /\ UNCHANGED <<seq, tombs>> /\ messages' = messages \cup {job[a].made} /\ job[a].pc = "commit"
        /\ euid' = [euid EXCEPT ![job[a].made] = job[a].text]
        /\ pointers' = pointers \cup (job[a].targets \X {job[a].made})
        /\ job[a].text \in Euids \cup {NoEuid} /\ job[a].targets \in SUBSET Rooms
    BY <1>0, <1>5 DEF InsertCommit, Jobs
  <2>2. PICK k : job' = CommitRows(a, job[a].targets, k) /\ (k = IdleJob \/ k = [job[a] EXCEPT !.pc = "check"])
    BY <1>5 DEF InsertCommit
  <2>3. k.pc \in {"idle", "check"} /\ k.num \in {0, job[a].num}
    BY <1>0, <2>2 DEF Jobs
  <2>4. job'[a] = k
    BY <2>2 DEF CommitRows
  <2>5. Effect(job[a], job'[a])
    BY <2>1, <2>3, <2>4 DEF Effect, Commits
  <2>6. ASSUME NEW b \in Actors \ {a} PROVE SameBusiness(job[b], job'[b])
    <3>1. job'[b] = job[b] \/ job'[b] = [job[b] EXCEPT !.stale = @ \cup job[a].targets]
      BY <2>2 DEF CommitRows
    <3>2. job[b] \in Jobs
      BY <1>0
    <3> QED
      BY <3>1, <3>2 DEF SameBusiness, Jobs
  <2> QED
    BY <2>5, <2>6 DEF Acts
<1> QED
  BY <1>1, <1>2, <1>3, <1>4, <1>5 DEF InsertStep

LEMMA UpsertEffects ==
    ASSUME TypeInv, NEW a \in Actors, UpsertStep(a)
    PROVE  Acts(a)
<1>0. /\ job \in [Actors -> Jobs] /\ job[a] \in Jobs /\ IdleJob \in Jobs
      /\ IdleJob.num = 0 /\ IdleJob.pc = "idle"
  BY IdleJobType DEF TypeInv, TypeOK, IdleJob
<1>s. UNCHANGED <<seq, messages, euid, pointers, tombs>> => Still
  BY DEF Still
<1>1. ASSUME NEW r \in Rooms, NEW e \in Euids, BeginUpsert(a, r, e) PROVE Acts(a)
  <2>1. PICK k : k = [IdleJob EXCEPT !.pc = "begin", !.op = "upsert", !.room = r, !.targets = {r}, !.text = e,
                                     !.num = FindByEuid(r, e)]
    OBVIOUS
  <2>2. k.pc = "begin" /\ k.num = FindByEuid(r, e)
    BY <1>0, <2>1 DEF Jobs
  <2>3. job' = [job EXCEPT ![a] = k] /\ job[a].pc = "idle" /\ Still
    BY <1>1, <1>s, <2>1 DEF BeginUpsert
  <2>4. k.num = 0 \/ <<r, k.num>> \in pointers
    BY <2>2, FoundIsSaved DEF Saved
  <2>5. Effect(job[a], k)
    BY <2>2, <2>3, <2>4 DEF Effect, Loosens, Loose
  <2> QED
    BY <2>3, <2>5, ActsAlone
<1>2. CASE UpsertTransaction(a)
  <2>1. PICK k : k = [job[a] EXCEPT !.pc = "alloc", !.stale = {}]
    OBVIOUS
  <2>2. k.pc = "alloc" /\ k.num = job[a].num
    BY <1>0, <2>1 DEF Jobs
  <2>3. job' = [job EXCEPT ![a] = k] /\ job[a].pc = "begin" /\ Still
    BY <1>0, <1>2, <1>s, <2>1 DEF UpsertTransaction
  <2>4. Effect(job[a], k)
    BY <2>2, <2>3 DEF Effect, Loosens, Loose
  <2> QED
    BY <2>3, <2>4, ActsAlone
<1>3. CASE UpsertDelete(a)
  <2>1. job[a].pc = "check" /\ Still
    BY <1>3, <1>s DEF UpsertDelete
  <2>2. CASE MessageInRoom(job[a].room, job[a].num)
    <3>1. PICK k : k = [job[a] EXCEPT !.pc = "read"]
      OBVIOUS
    <3>2. k.pc = "read" /\ k.num = job[a].num /\ k.room = job[a].room /\ job[a].room \in Rooms
      BY <1>0, <3>1 DEF Jobs
    <3>3. job' = [job EXCEPT ![a] = k]
      BY <1>0, <1>3, <2>2, <3>1 DEF UpsertDelete
    <3>4. Effect(job[a], k)
      BY <2>1, <2>2, <3>2 DEF Effect, Takes, MessageInRoom
    <3> QED
      BY <3>3, <3>4, ActsAlone
  <2>3. CASE ~MessageInRoom(job[a].room, job[a].num)
    <3>1. job' = [job EXCEPT ![a] = IdleJob]
      BY <1>0, <1>3, <2>3 DEF UpsertDelete
    <3> QED
      BY <2>1, <3>1, IdleIsLoose, ActsAlone
  <2> QED
    BY <2>2, <2>3
<1> QED
  BY <1>1, <1>2, <1>3 DEF UpsertStep

LEMMA ReturnIsLoose ==
    ASSUME NEW j \in Jobs
    PROVE  UnlinkReturn(j).pc \in {"idle", "doom"} /\ UnlinkReturn(j).num \in {0, j.num}
<1>1. CASE j.op = "expire"
  BY <1>1 DEF UnlinkReturn, Jobs
<1>2. CASE j.op # "expire"
  BY <1>2 DEF UnlinkReturn, IdleJob
<1> QED
  BY <1>1, <1>2

LEMMA UnlinkEffects ==
    ASSUME TypeInv, NEW a \in Actors, UnlinkStep(a)
    PROVE  Acts(a)
<1>0. /\ job \in [Actors -> Jobs] /\ job[a] \in Jobs /\ IdleJob \in Jobs
      /\ IdleJob.num = 0 /\ IdleJob.pc = "idle" /\ Registers(job[a])
  BY IdleJobType DEF TypeInv, TypeOK, IdleJob, RegistersSet
<1>s. UNCHANGED <<seq, messages, euid, pointers, tombs>> => Still
  BY DEF Still
<1>1. ASSUME NEW r \in Rooms, NEW n \in Nums, BeginDelete(a, r, n) PROVE Acts(a)
  <2>1. PICK k : k = [IdleJob EXCEPT !.pc = "read", !.op = "delete", !.room = r, !.num = n]
    OBVIOUS
  <2>2. k.pc = "read" /\ k.num = n /\ k.room = r
    BY <1>0, <2>1 DEF Jobs
  <2>3. job' = [job EXCEPT ![a] = k] /\ job[a].pc = "idle" /\ Still /\ <<r, n>> \in pointers
    BY <1>1, <1>s, <2>1 DEF BeginDelete, MessageInRoom
  <2>4. Effect(job[a], k)
    BY <2>2, <2>3 DEF Effect, Takes
  <2> QED
    BY <2>3, <2>4, ActsAlone
<1>2. CASE UnlinkReadEuid(a)
  <2>1. PICK g : g = IF job[a].num \in messages THEN euid[job[a].num] ELSE NoEuid
    OBVIOUS
  <2>2. PICK k : k = [job[a] EXCEPT !.pc = "unlink", !.gone = g]
    OBVIOUS
  <2>3. k.pc = "unlink" /\ k.num = job[a].num /\ k.room = job[a].room /\ k.gone = g
    BY <1>0, <2>2 DEF Jobs
  <2>4. job' = [job EXCEPT ![a] = k] /\ job[a].pc = "read" /\ Still /\ messages' = messages
    BY <1>0, <1>2, <1>s, <2>1, <2>2 DEF UnlinkReadEuid
  <2>5. Effect(job[a], k)
    BY <2>1, <2>3, <2>4 DEF Effect, Looks
  <2> QED
    BY <2>4, <2>5, ActsAlone
<1>3. CASE UnlinkPointer(a)
  <2>1. PICK k : k = [job[a] EXCEPT !.pc = "tombseq"]
    OBVIOUS
  <2>2. k.pc = "tombseq" /\ k.num = job[a].num /\ k.room = job[a].room /\ k.gone = job[a].gone
    BY <1>0, <2>1 DEF Jobs
  <2>3. /\ job' = [job EXCEPT ![a] = k] /\ job[a].pc = "unlink" /\ UNCHANGED <<seq, messages, euid, tombs>>
        /\ pointers' = pointers \ {<<job[a].room, job[a].num>>}
    BY <1>0, <1>3, <2>1 DEF UnlinkPointer
  <2>4. Effect(job[a], k)
    BY <2>2, <2>3 DEF Effect, Drops
  <2> QED
    BY <2>3, <2>4, ActsAlone
<1>4. CASE UnlinkSeq(a)
  <2>1. PICK k : k = [job[a] EXCEPT !.pc = "tombstone", !.tseq = seq + 1]
    OBVIOUS
  <2>2. k.pc = "tombstone" /\ k.num = job[a].num /\ k.room = job[a].room /\ k.gone = job[a].gone /\ k.tseq = seq + 1
    BY <1>0, <2>1 DEF Jobs
  <2>3. /\ job' = [job EXCEPT ![a] = k] /\ job[a].pc = "tombseq" /\ seq < MaxSeq /\ seq' = seq + 1
        /\ UNCHANGED <<messages, euid, pointers, tombs>>
    BY <1>0, <1>4, <2>1 DEF UnlinkSeq
  <2>4. Effect(job[a], k)
    BY <2>2, <2>3 DEF Effect, Counts
  <2> QED
    BY <2>3, <2>4, ActsAlone
<1>5. CASE UnlinkSeqFails(a)
  <2>1. PICK k : k = UnlinkReturn(job[a])
    OBVIOUS
  <2>2. k.pc \in {"idle", "doom"} /\ k.num \in {0, job[a].num}
    BY <1>0, <2>1, ReturnIsLoose
  <2>3. job' = [job EXCEPT ![a] = k] /\ job[a].pc = "tombseq" /\ Still /\ seq = MaxSeq
    BY <1>0, <1>5, <1>s, <2>1 DEF UnlinkSeqFails
  <2>4. Effect(job[a], k)
    BY <2>2, <2>3 DEF Effect, Loosens, Loose
  <2> QED
    BY <2>3, <2>4, ActsAlone
<1>6. CASE UnlinkTombstone(a)
  <2>1. PICK k : k = UnlinkReturn(job[a])
    OBVIOUS
  <2>2. k.pc \in {"idle", "doom"} /\ k.num \in {0, job[a].num}
    BY <1>0, <2>1, ReturnIsLoose
  <2>3. PICK t : t = [room |-> job[a].room, seq |-> job[a].tseq, num |-> job[a].num, euid |-> job[a].gone]
    OBVIOUS
  <2>4. /\ job' = [job EXCEPT ![a] = k] /\ job[a].pc = "tombstone" /\ UNCHANGED <<seq, messages, euid, pointers>>
        /\ tombs' = tombs \cup {t}
    BY <1>0, <1>6, <2>1, <2>3 DEF UnlinkTombstone
  <2>5. /\ t \in Tombstones
        /\ t.room = job[a].room /\ t.seq = job[a].tseq /\ t.num = job[a].num /\ t.euid = job[a].gone
    <3>1. job[a].num \in Nums /\ job[a].tseq \in Nums
      BY <1>0, <2>4 DEF Registers, Unlinking
    <3> QED
      BY <1>0, <2>3, <3>1 DEF Tombstones, Jobs
  <2>6. Effect(job[a], k)
    BY <2>2, <2>4, <2>5 DEF Effect, Buries
  <2> QED
    BY <2>4, <2>6, ActsAlone
<1> QED
  BY <1>1, <1>2, <1>3, <1>4, <1>5, <1>6 DEF UnlinkStep

LEMMA MoveEffects ==
    ASSUME TypeInv, NEW a \in Actors, MoveStep(a)
    PROVE  Acts(a)
<1>0. /\ job \in [Actors -> Jobs] /\ job[a] \in Jobs /\ IdleJob \in Jobs
      /\ IdleJob.num = 0 /\ IdleJob.pc = "idle"
  BY IdleJobType DEF TypeInv, TypeOK, IdleJob
<1>s. UNCHANGED <<seq, messages, euid, pointers, tombs>> => Still
  BY DEF Still
<1>1. ASSUME NEW op, NEW from \in Rooms, NEW to \in Rooms, NEW n \in Nums, BeginMove(a, op, from, to, n)
      PROVE  Acts(a)
  <2>1. PICK k : k = [IdleJob EXCEPT !.pc = "link", !.op = op, !.room = from, !.dest = to, !.num = n]
    OBVIOUS
  <2>2. k.pc = "link" /\ k.num = n /\ k.room = from
    BY <1>0, <2>1 DEF Jobs
  <2>3. /\ job' = [job EXCEPT ![a] = k] /\ job[a].pc = "idle" /\ Still /\ messages' = messages
        /\ <<from, n>> \in pointers
    BY <1>1, <1>s, <2>1 DEF BeginMove, MessageInRoom
  <2>4. Effect(job[a], k)
    BY <2>2, <2>3 DEF Effect, Picks
  <2> QED
    BY <2>3, <2>4, ActsAlone
<1>2. CASE MoveLink(a)
  <2>1. PICK k : k = [job[a] EXCEPT !.pc = "raise"]
    OBVIOUS
  <2>2. k.pc = "raise" /\ k.num = job[a].num /\ k.room = job[a].room /\ job[a].dest \in Rooms
    BY <1>0, <2>1 DEF Jobs
  <2>3. /\ job' = [job EXCEPT ![a] = k] /\ job[a].pc = "link" /\ UNCHANGED <<seq, messages, euid, tombs>>
        /\ pointers' = pointers \cup {<<job[a].dest, job[a].num>>}
    BY <1>0, <1>2, <2>1 DEF MoveLink
  <2>4. Effect(job[a], k)
    BY <2>2, <2>3 DEF Effect, Files
  <2> QED
    BY <2>3, <2>4, ActsAlone
<1>3. CASE MoveRaiseHighest(a)
  <2>1. PICK k : /\ k = IdleJob \/ k = [job[a] EXCEPT !.pc = "read"]
                 /\ job' = [job EXCEPT ![a] = k] \/ job' = CommitRows(a, {job[a].dest}, k)
    BY <1>3 DEF MoveRaiseHighest
  <2>2. Still /\ job[a].pc = "raise"
    BY <1>3, <1>s DEF MoveRaiseHighest
  <2>3. Effect(job[a], k)
    <3>1. CASE k = IdleJob
      BY <2>2, <3>1, IdleIsLoose
    <3>2. CASE k = [job[a] EXCEPT !.pc = "read"]
      <4>1. k.pc = "read" /\ k.num = job[a].num /\ k.room = job[a].room
        BY <1>0, <3>2 DEF Jobs
      <4> QED
        BY <2>2, <4>1 DEF Effect, Takes
    <3> QED
      BY <2>1, <3>1, <3>2
  <2>4. CASE job' = [job EXCEPT ![a] = k]
    BY <2>3, <2>4, ActsAlone
  <2>5. CASE job' = CommitRows(a, {job[a].dest}, k)
    <3>1. job'[a] = k
      BY <2>5 DEF CommitRows
    <3>2. ASSUME NEW b \in Actors \ {a} PROVE SameBusiness(job[b], job'[b])
      <4>1. job'[b] = job[b] \/ job'[b] = [job[b] EXCEPT !.stale = @ \cup {job[a].dest}]
        BY <2>5 DEF CommitRows
      <4>2. job[b] \in Jobs
        BY <1>0
      <4> QED
        BY <4>1, <4>2 DEF SameBusiness, Jobs
    <3> QED
      BY <2>3, <3>1, <3>2 DEF Acts
  <2> QED
    BY <2>1, <2>4, <2>5
<1> QED
  BY <1>1, <1>2, <1>3 DEF MoveStep

LEMMA ExpiryEffects ==
    ASSUME TypeInv, NEW a \in Actors, ExpiryStep(a)
    PROVE  Acts(a)
<1>0. /\ job \in [Actors -> Jobs] /\ job[a] \in Jobs /\ IdleJob \in Jobs /\ job[a].room \in Rooms
      /\ IdleJob.num = 0 /\ IdleJob.pc = "idle" /\ pointers \subseteq Rooms \X Nums
  BY IdleJobType DEF TypeInv, TypeOK, IdleJob, Jobs
<1>s. UNCHANGED <<seq, messages, euid, pointers, tombs>> => Still
  BY DEF Still
(* Most steps of a sweep only go on. *)
<1>k. ASSUME NEW k, job' = [job EXCEPT ![a] = k], Still, k.pc \in Loose, k.num \in {0, job[a].num},
             job[a].pc \in Loose
      PROVE  Acts(a)
  <2>1. Effect(job[a], k)
    BY <1>k DEF Effect, Loosens, Loose
  <2> QED
    BY <1>k, <2>1, ActsAlone
<1>1. CASE BeginExpiry(a)
  <2>1. PICK k : k = [IdleJob EXCEPT !.pc = "sweep", !.op = "expire", !.todo = Rooms]
    OBVIOUS
  <2>2. k.pc = "sweep" /\ k.num = 0
    BY <1>0, <2>1 DEF Jobs
  <2> QED
    BY <1>1, <1>s, <1>k, <2>1, <2>2 DEF BeginExpiry, Loose
<1>2. ASSUME NEW r \in Rooms, ExpirySweepRoom(a, r) PROVE Acts(a)
  <2>1. PICK d : job' = [job EXCEPT ![a].pc = "doom", ![a].room = r, ![a].doomed = d, ![a].todo = @ \ {r}]
    BY <1>2 DEF ExpirySweepRoom
  <2>2. PICK k : k = [job[a] EXCEPT !.pc = "doom", !.room = r, !.doomed = d, !.todo = @ \ {r}]
    OBVIOUS
  <2>3. k.num = job[a].num /\ k.pc = "doom"
    BY <1>0, <2>2 DEF Jobs
  <2>4. job' = [job EXCEPT ![a] = k] /\ job[a].pc = "sweep" /\ Still
    BY <1>0, <1>2, <1>s, <2>1, <2>2 DEF ExpirySweepRoom
  <2> QED
    BY <1>k, <2>3, <2>4 DEF Loose
<1>3. ASSUME NEW n \in Nums, ExpiryDeleteNext(a, n) PROVE Acts(a)
  <2>1. job[a].pc = "doom" /\ Still
    BY <1>3, <1>s DEF ExpiryDeleteNext
  <2>2. CASE MessageInRoom(job[a].room, n)
    <3>1. PICK k : k = [job[a] EXCEPT !.pc = "read", !.num = n, !.doomed = @ \ {n}]
      OBVIOUS
    <3>2. k.pc = "read" /\ k.num = n /\ k.room = job[a].room
      BY <1>0, <3>1 DEF Jobs
    <3>3. job' = [job EXCEPT ![a] = k]
      BY <1>0, <1>3, <2>2, <3>1 DEF ExpiryDeleteNext
    <3>4. Effect(job[a], k)
      BY <1>0, <2>1, <2>2, <3>2 DEF Effect, Takes, MessageInRoom
    <3> QED
      BY <3>3, <3>4, ActsAlone
  <2>3. CASE ~MessageInRoom(job[a].room, n)
    <3>1. PICK k : k = [job[a] EXCEPT !.doomed = @ \ {n}]
      OBVIOUS
    <3>2. k.pc = job[a].pc /\ k.num = job[a].num
      BY <1>0, <3>1 DEF Jobs
    <3>3. job' = [job EXCEPT ![a] = k]
      BY <1>0, <1>3, <2>3, <3>1 DEF ExpiryDeleteNext
    <3> QED
      BY <1>k, <2>1, <3>2, <3>3 DEF Loose
  <2> QED
    BY <2>2, <2>3
<1>4. CASE ExpiryRoomDone(a)
  <2>1. PICK p : p \in {"purge", "sweep"} /\ job' = [job EXCEPT ![a].pc = p]
    BY <1>4 DEF ExpiryRoomDone
  <2>2. PICK k : k = [job[a] EXCEPT !.pc = p]
    OBVIOUS
  <2>3. k.num = job[a].num /\ k.pc = p
    BY <1>0, <2>2 DEF Jobs
  <2>4. job' = [job EXCEPT ![a] = k] /\ job[a].pc = "doom" /\ Still
    BY <1>0, <1>4, <1>s, <2>1, <2>2 DEF ExpiryRoomDone
  <2> QED
    BY <1>k, <2>1, <2>3, <2>4 DEF Loose
<1>5. ASSUME NEW n \in Nums, ExpiryPurgeRow(a, n) PROVE Acts(a)
  <2>2. PICK k : k = [job[a] EXCEPT !.unlinked = @ \ {n}]
    OBVIOUS
  <2>3. k.num = job[a].num /\ k.pc = job[a].pc
    BY <1>0, <2>2 DEF Jobs
  <2>4. /\ job' = [job EXCEPT ![a] = k] /\ job[a].pc = "purge" /\ UNCHANGED <<seq, euid, pointers, tombs>>
        /\ messages' = IF \E r \in Rooms : <<r, n>> \in pointers THEN messages ELSE messages \ {n}
    BY <1>0, <1>5, <2>2 DEF ExpiryPurgeRow
  <2>5. \A p \in pointers : p[2] \in messages => p[2] \in messages'
    <3> SUFFICES ASSUME NEW r \in Rooms, NEW m \in Nums, <<r, m>> \in pointers, m \in messages PROVE m \in messages'
      BY <1>0
    <3> QED
      BY <2>4
  <2>6. Still
    BY <2>4, <2>5 DEF Still
  <2> QED
    BY <1>k, <2>3, <2>4, <2>6 DEF Loose
<1>6. CASE ExpiryDone(a)
  <2>1. job' = [job EXCEPT ![a] = IdleJob] /\ job[a].pc = "purge" /\ Still
    BY <1>6, <1>s DEF ExpiryDone
  <2> QED
    BY <2>1, IdleIsLoose, ActsAlone
<1> QED
  BY <1>1, <1>2, <1>3, <1>4, <1>5, <1>6 DEF ExpiryStep

(* Every step of the store is one of these. *)
LEMMA StepEffects ==
    ASSUME TypeInv, Next
    PROVE  (\E a \in Actors : Acts(a)) \/ Dies
<1>1. CASE Crash
  <2>1. IdleJob.pc = "idle" /\ IdleJob.num = 0
    BY DEF IdleJob
  <2> QED
    BY <1>1, <2>1 DEF Crash, Dies
<1>2. CASE ~Crash
  BY <1>2, InsertEffects, UpsertEffects, UnlinkEffects, MoveEffects, ExpiryEffects DEF Next
<1> QED
  BY <1>1, <1>2

-----------------------------------------------------------------------------
(* What the tokens and the look-up by euid return *)

LEMMA MaxOrZeroIsGreatest ==
    ASSUME NEW b \in Nat, NEW S, S \subseteq 0..b
    PROVE  MaxOrZero(S) \in S \cup {0} /\ \A n \in S : n <= MaxOrZero(S)
<1>1. CASE S = {}
  BY <1>1 DEF MaxOrZero
<1>2. CASE S # {}
  BY <1>2, GreatestMember DEF MaxOrZero
<1> QED
  BY <1>1, <1>2

(* The token of a room is the number of one of its messages or tombstones, *)
(* and none has a greater one.                                             *)
LEMMA TokenIsGreatest ==
    ASSUME TypeInv, NEW r \in Rooms
    PROVE  /\ RoomChangeToken(r) \in 0..MaxSeq
           /\ \A n \in RoomMessages(r) : n <= RoomChangeToken(r)
           /\ \A t \in tombs : t.room = r => t.seq <= RoomChangeToken(r)
           /\ \/ RoomChangeToken(r) = 0
              \/ \E p \in pointers : RoomChangeToken(r) = p[2]
              \/ \E t \in tombs : RoomChangeToken(r) = t.seq
<1>0. MaxSeq \in Nat /\ tombs \subseteq Tombstones /\ \A t \in tombs : t.seq \in Nums
  BY BoundAssumption DEF TypeInv, TypeOK, Tombstones
<1>1. PICK S : S = RoomMessages(r)
  OBVIOUS
<1>2. PICK T : T = {t.seq : t \in {u \in tombs : u.room = r}}
  OBVIOUS
<1>3. S \subseteq 0..MaxSeq /\ \A n \in S : <<r, n>> \in pointers
  BY <1>0, <1>1 DEF RoomMessages, Nums
<1>4. T \subseteq 0..MaxSeq /\ (\A m \in T : \E t \in tombs : m = t.seq) /\ \A t \in tombs : t.room = r => t.seq \in T
  BY <1>0, <1>2 DEF Nums
<1>5. PICK x : x = MaxOrZero(S)
  OBVIOUS
<1>6. PICK y : y = MaxOrZero(T)
  OBVIOUS
<1>7. x \in S \cup {0} /\ \A n \in S : n <= x
  BY <1>0, <1>3, <1>5, MaxOrZeroIsGreatest
<1>8. y \in T \cup {0} /\ \A n \in T : n <= y
  BY <1>0, <1>4, <1>6, MaxOrZeroIsGreatest
<1>9. PICK z : z = Greatest(x, y)
  OBVIOUS
<1>10. x \in 0..MaxSeq /\ y \in 0..MaxSeq
  BY <1>0, <1>3, <1>4, <1>7, <1>8
<1>11. z \in 0..MaxSeq /\ z >= x /\ z >= y /\ z \in {x, y}
  BY <1>0, <1>9, <1>10 DEF Greatest
<1>12. RoomChangeToken(r) = z
  BY <1>1, <1>2, <1>5, <1>6, <1>9 DEF RoomChangeToken
<1>13. ASSUME NEW n \in S PROVE n <= z
  <2>1. n \in Nat /\ n <= x /\ x \in Nat /\ z \in Nat
    BY <1>0, <1>3, <1>7, <1>10, <1>11
  <2> QED
    BY <2>1, <1>11
<1>14. ASSUME NEW n \in T PROVE n <= z
  <2>1. n \in Nat /\ n <= y /\ y \in Nat /\ z \in Nat
    BY <1>0, <1>4, <1>8, <1>10, <1>11
  <2> QED
    BY <2>1, <1>11
<1>15. z = 0 \/ (\E p \in pointers : z = p[2]) \/ \E t \in tombs : z = t.seq
  <2>1. z \in S \/ z \in T \/ z = 0
    BY <1>7, <1>8, <1>11
  <2>2. ASSUME z \in S PROVE \E p \in pointers : z = p[2]
    <3>1. <<r, z>> \in pointers /\ <<r, z>>[2] = z
      BY <1>3, <2>2
    <3> QED
      BY <3>1
  <2> QED
    BY <1>4, <2>1, <2>2
<1>16. \A t \in tombs : t.room = r => t.seq <= z
  BY <1>4, <1>14
<1>17. \A n \in RoomMessages(r) : n <= z
  BY <1>1, <1>13
<1> HIDE DEF RoomMessages
<1> QED
  BY <1>11, <1>12, <1>15, <1>16, <1>17

(* Likewise the Email state, over all rooms. *)
LEMMA StateIsGreatest ==
    ASSUME TypeInv
    PROVE  /\ AccountState \in 0..MaxSeq
           /\ \/ AccountState = 0
              \/ \E p \in pointers : AccountState = p[2]
              \/ \E t \in tombs : AccountState = t.seq
<1>1. PICK S : S = {RoomChangeToken(r) : r \in Rooms}
  OBVIOUS
<1>2. MaxSeq \in Nat /\ S \subseteq 0..MaxSeq
  BY <1>1, TokenIsGreatest, BoundAssumption
<1>3. AccountState \in S \cup {0}
  BY <1>1, <1>2, MaxOrZeroIsGreatest DEF AccountState
<1>4. AccountState \in 0..MaxSeq
  BY <1>2, <1>3
<1>5. CASE AccountState = 0
  BY <1>4, <1>5
<1>6. ASSUME NEW r \in Rooms, AccountState = RoomChangeToken(r)
      PROVE  AccountState = 0 \/ (\E p \in pointers : AccountState = p[2]) \/ \E t \in tombs : AccountState = t.seq
  BY <1>6, TokenIsGreatest
<1> QED
  BY <1>1, <1>3, <1>4, <1>5, <1>6

LEMMA FoundIsNewest ==
    ASSUME NEW r \in Rooms, NEW n \in RoomMessages(r) \cap messages
    PROVE  FindByEuid(r, euid[n]) >= n
<1>1. PICK e : e = euid[n]
  OBVIOUS
<1>2. PICK found : found = {m \in RoomMessages(r) : m \in messages /\ euid[m] = e}
  OBVIOUS
<1> DEFINE Newest(m) == m \in found /\ \A i \in found : i <= m
<1>3. FindByEuid(r, e) = IF \E m \in Nums : Newest(m) THEN CHOOSE m \in Nums : Newest(m) ELSE 0
  BY <1>2 DEF FindByEuid
<1>4. n \in found /\ found \subseteq 0..MaxSeq /\ MaxSeq \in Nat /\ found \subseteq Nums
  BY <1>1, <1>2, BoundAssumption DEF RoomMessages, Nums
<1>5. \E m \in Nums : Newest(m)
  BY <1>4, GreatestMember
<1>6. PICK m \in Nums : m = FindByEuid(r, e) /\ Newest(m)
  <2> HIDE DEF Newest
  <2> QED
    BY <1>3, <1>5
<1>7. n <= m
  BY <1>4, <1>6
<1>8. n \in Nat /\ m \in Nat
  BY <1>4, <1>6 DEF Nums
<1>9. m >= n
  BY <1>7, <1>8
<1> QED
  BY <1>1, <1>6, <1>9

-----------------------------------------------------------------------------
(* Rows that somebody points at are not rewritten, whoever writes *)

(* The number an open transaction holds is in no room and in nobody's hands. *)
Unfiled ==
    \A a \in Actors : job[a].pc \in Inserting =>
        /\ \A p \in pointers : p[2] # job[a].made
        /\ \A b \in Actors : job[b].num # job[a].made
        /\ \A b \in Actors : b # a /\ job[b].pc \in Inserting => job[b].made # job[a].made

FilingInv == NumbersInv /\ Unfiled

(* A number new to a job is one some room shows, or none. *)
NoNewNumber(j, k) == k.num \in {0, j.num} \/ \E p \in pointers : p[2] = k.num

LEMMA UnfiledByKeeping ==
    ASSUME FilingInv, NEW a \in Actors, UNCHANGED pointers,
           NoNewNumber(job[a], job'[a]), \A b \in Actors \ {a} : SameBusiness(job[b], job'[b]),
           job'[a].pc \in Inserting => job[a].pc \in Inserting /\ job'[a].made = job[a].made
    PROVE  Unfiled'
<1> SUFFICES ASSUME NEW c \in Actors, job'[c].pc \in Inserting
             PROVE  /\ \A p \in pointers' : p[2] # job'[c].made
                    /\ \A b \in Actors : job'[b].num # job'[c].made
                    /\ \A b \in Actors : b # c /\ job'[b].pc \in Inserting => job'[b].made # job'[c].made
  BY DEF Unfiled
<1>1. \A b \in Actors : /\ NoNewNumber(job[b], job'[b])
                        /\ job'[b].pc \in Inserting => job[b].pc \in Inserting /\ job'[b].made = job[b].made
  BY DEF SameBusiness, NoNewNumber
<1>2. job[c].pc \in Inserting /\ job'[c].made = job[c].made
  BY <1>1
<1>3. job[c].made # 0
  <2>1. job[c].made \in Nums
    BY <1>2 DEF FilingInv, NumbersInv, TypeInv, RegistersSet, Registers
  <2> QED
    BY <2>1 DEF Nums
<1>4. ASSUME NEW b \in Actors PROVE job'[b].num # job'[c].made
  BY <1>1, <1>2, <1>3 DEF NoNewNumber, FilingInv, Unfiled
<1> QED
  BY <1>1, <1>2, <1>4 DEF FilingInv, Unfiled

LEMMA UnfiledStep ==
    ASSUME FilingInv, Next
    PROVE  Unfiled'
<1>0. NumbersInv /\ TypeInv /\ Unfiled /\ Drawn
  BY DEF FilingInv, NumbersInv
<1>1. CASE Dies
  BY <1>1 DEF Dies, Unfiled, Inserting
<1>2. ASSUME NEW a \in Actors, Acts(a) PROVE Unfiled'
  <2> DEFINE j == job[a]
             k == job'[a]
  <2>1. \A b \in Actors \ {a} : SameBusiness(job[b], job'[b])
    BY <1>2 DEF Acts
  <2>2. CASE Loosens(j, k)
    <3>1. NoNewNumber(j, k)
      <4>1. ASSUME NEW r \in Rooms, <<r, k.num>> \in pointers PROVE \E p \in pointers : p[2] = k.num
        BY <4>1, <<r, k.num>>[2] = k.num
      <4> QED
        BY <2>2, <4>1 DEF Loosens, NoNewNumber
    <3>2. UNCHANGED pointers /\ k.pc \notin Inserting
      BY <2>2 DEF Loosens, Still, Loose, Inserting
    <3> QED
      BY <2>1, <3>1, <3>2, UnfiledByKeeping
  <2>3. CASE Takes(j, k)
    <3>1. NoNewNumber(j, k)
      <4>1. ASSUME <<k.room, k.num>> \in pointers PROVE \E p \in pointers : p[2] = k.num
        BY <4>1, <<k.room, k.num>>[2] = k.num
      <4> QED
        BY <2>3, <4>1 DEF Takes, NoNewNumber
    <3>2. UNCHANGED pointers /\ k.pc \notin Inserting
      BY <2>3 DEF Takes, Still, Inserting
    <3> QED
      BY <2>1, <3>1, <3>2, UnfiledByKeeping
  <2>4. CASE Picks(j, k)
    <3>1. NoNewNumber(j, k)
      <4>1. ASSUME <<k.room, k.num>> \in pointers PROVE \E p \in pointers : p[2] = k.num
        BY <4>1, <<k.room, k.num>>[2] = k.num
      <4> QED
        BY <2>4, <4>1 DEF Picks, NoNewNumber
    <3>2. UNCHANGED pointers /\ k.pc \notin Inserting
      BY <2>4 DEF Picks, Still, Inserting
    <3> QED
      BY <2>1, <3>1, <3>2, UnfiledByKeeping
  <2>5. CASE Looks(j, k) \/ Counts(j, k) \/ Buries(j, k)
    <3>1. NoNewNumber(j, k) /\ UNCHANGED pointers /\ k.pc \notin Inserting
      BY <2>5 DEF Looks, Counts, Buries, Still, Inserting, NoNewNumber
    <3> QED
      BY <2>1, <3>1, UnfiledByKeeping
  <2>6. CASE Writes(j, k)
    <3>1. NoNewNumber(j, k) /\ UNCHANGED pointers /\ j.pc \in Inserting /\ k.made = j.made
      BY <2>6 DEF Writes, Still, Inserting, NoNewNumber
    <3> QED
      BY <2>1, <3>1, UnfiledByKeeping
  <2>7. CASE Drops(j, k)
    <3>1. pointers' \subseteq pointers /\ k.num = j.num /\ k.pc \notin Inserting
      BY <2>7 DEF Drops, Inserting
    <3> QED
      BY <1>0, <2>1, <3>1 DEF Unfiled, SameBusiness
  <2>8. CASE Files(j, k)
    <3>1. PICK r \in Rooms : pointers' = pointers \cup {<<r, j.num>>}
      BY <2>8 DEF Files
    <3>2. <<r, j.num>>[2] = j.num /\ k.num = j.num /\ k.pc \notin Inserting
      BY <2>8 DEF Files, Inserting
    <3> QED
      BY <1>0, <2>1, <3>1, <3>2 DEF Unfiled, SameBusiness
  <2>9. CASE Allocates(j, k)
    <3>1. UNCHANGED pointers /\ k.made = seq + 1 /\ k.num = j.num
      BY <2>9 DEF Allocates
    <3>2. \A n \in Nat : n <= seq => n # seq + 1
      BY <1>0, NaturalNumbers
    <3>3. /\ \A p \in pointers : p[2] # seq + 1
          /\ \A b \in Actors : job[b].num # seq + 1
          /\ \A b \in Actors : job[b].pc \in Inserting => job[b].made # seq + 1
      BY <1>0, <3>2, NaturalNumbers DEF Drawn
    <3> HIDE DEF Inserting
    <3> QED
      BY <1>0, <2>1, <3>1, <3>3 DEF Unfiled, SameBusiness
  <2>10. CASE Commits(j, k)
    <3>1. PICK rs : pointers' = pointers \cup (rs \X {j.made})
      BY <2>10 DEF Commits
    <3>2. j.pc \in Inserting /\ k.pc \notin Inserting /\ k.num \in {0, j.num}
      BY <2>10 DEF Commits, Inserting
    <3>3. \A c \in Actors : job[c].pc \in Inserting => job[c].made # 0
      <4>1. 0 \notin Nums
        BY DEF Nums
      <4> QED
        BY <1>0, <4>1 DEF TypeInv, RegistersSet, Registers
    <3>4. \A c \in Actors : job'[c].pc \in Inserting =>
              /\ c # a /\ job[c].pc \in Inserting /\ job'[c].made = job[c].made
              /\ job[c].made # j.made /\ job'[a].num # job[c].made
      BY <1>0, <2>1, <3>2, <3>3 DEF Unfiled, SameBusiness
    <3>5. \A p \in pointers' : p \in pointers \/ p[2] = j.made
      BY <3>1
    <3>6. \A b \in Actors : job'[b].num = job[b].num \/ b = a
      BY <2>1 DEF SameBusiness
    <3>7. \A b \in Actors : b # a => job'[b].made = job[b].made /\ (job'[b].pc \in Inserting => job[b].pc \in Inserting)
      BY <2>1 DEF SameBusiness
    <3> SUFFICES ASSUME NEW c \in Actors, job'[c].pc \in Inserting
                 PROVE  /\ \A p \in pointers' : p[2] # job'[c].made
                        /\ \A b \in Actors : job'[b].num # job'[c].made
                        /\ \A b \in Actors : b # c /\ job'[b].pc \in Inserting => job'[b].made # job'[c].made
      BY DEF Unfiled
    <3>8. \A p \in pointers' : p[2] # job'[c].made
      BY <1>0, <3>4, <3>5 DEF Unfiled
    <3>9. \A b \in Actors : job'[b].num # job'[c].made
      BY <1>0, <3>4, <3>6 DEF Unfiled
    <3>10. \A b \in Actors : b # c /\ job'[b].pc \in Inserting => job'[b].made # job'[c].made
      BY <1>0, <3>2, <3>4, <3>7 DEF Unfiled
    <3> QED
      BY <3>8, <3>9, <3>10
  <2> QED
    BY <1>2, <2>2, <2>3, <2>4, <2>5, <2>6, <2>7, <2>8, <2>9, <2>10 DEF Acts, Effect
<1> QED
  BY <1>0, <1>1, <1>2, StepEffects

LEMMA FilingFirst == Init => FilingInv
<1> SUFFICES ASSUME Init PROVE FilingInv
  OBVIOUS
<1>1. \A a \in Actors : job[a].pc \notin Inserting
  BY DEF Init, IdleJob, Inserting
<1> QED
  BY <1>1, NumbersFirst DEF FilingInv, Unfiled

LEMMA FilingStep == FilingInv /\ [Next]_vars => FilingInv'
<1> SUFFICES ASSUME FilingInv, [Next]_vars PROVE FilingInv'
  OBVIOUS
<1>1. NumbersInv'
  BY NumbersStep DEF FilingInv
<1>2. CASE Next
  BY <1>1, <1>2, UnfiledStep DEF FilingInv
<1>3. CASE UNCHANGED vars
  BY <1>1, <1>3 DEF FilingInv, Unfiled, vars
<1> QED
  BY <1>2, <1>3

LEMMA FiledRowsStay ==
    ASSUME FilingInv, Next, NEW p \in pointers
    PROVE  euid'[p[2]] = euid[p[2]] /\ (p[2] \in messages' => p[2] \in messages)
<1>0. TypeInv /\ p[2] \in Nums
  BY DEF FilingInv, NumbersInv, TypeInv, TypeOK
<1>1. ASSUME NEW a \in Actors, Commits(job[a], job'[a]) PROVE euid'[p[2]] = euid[p[2]] /\ (p[2] \in messages' => p[2] \in messages)
  <2>1. p[2] # job[a].made
    BY <1>1 DEF FilingInv, Unfiled, Commits, Inserting
  <2>2. messages' = messages \cup {job[a].made} /\ \E e : euid' = [euid EXCEPT ![job[a].made] = e]
    BY <1>1 DEF Commits
  <2> QED
    BY <1>0, <2>1, <2>2 DEF TypeInv, TypeOK
<1>2. CASE \E a \in Actors : Acts(a) /\ ~Commits(job[a], job'[a])
  BY <1>2 DEF Acts, Effect, Loosens, Takes, Looks, Drops, Counts, Buries, Picks, Files, Allocates, Writes, Still
<1> QED
  BY <1>0, <1>1, <1>2, StepEffects DEF Acts, Dies

-----------------------------------------------------------------------------
(* Types of the clients *)

ClientTypes == dav \in DavStates /\ jmap \in JmapStates

LEMMA DavStepTypes ==
    ASSUME TypeInv, ClientTypes, DavStep
    PROVE  ClientTypes' /\ UNCHANGED <<store, jmap>>
<1>0. DavRoom \in Rooms /\ dav \in DavStates /\ 0 \in 0..MaxSeq
  BY SyncAssumption, BoundAssumption DEF ClientTypes
<1>1. CASE DavSyncToken
  BY <1>0, <1>1, TokenIsGreatest DEF DavSyncToken, DavStates, ClientTypes
<1>2. CASE DavSyncDiff
  <2>1. DavChanged(dav.token) \in SUBSET Euids
    BY DEF DavChanged
  <2> QED
    BY <1>0, <1>2, <2>1 DEF DavSyncDiff, DavStates, ClientTypes
<1>3. ASSUME NEW e \in Euids, DavSyncObject(e) PROVE ClientTypes' /\ UNCHANGED <<store, jmap>>
  BY <1>0, <1>3, FindByEuidType DEF DavSyncObject, DavStates, ClientTypes
<1>4. CASE DavSyncDone
  BY <1>0, <1>4 DEF DavSyncDone, DavStates, ClientTypes
<1> QED
  BY <1>1, <1>2, <1>3, <1>4 DEF DavStep

LEMMA JmapStepTypes ==
    ASSUME TypeInv, ClientTypes, JmapStep
    PROVE  ClientTypes' /\ UNCHANGED <<store, dav>>
<1>1. CASE JmapDiff
  <2>1. PICK changed \in SUBSET Nums : changed = JmapChanged(jmap.state)
    BY DEF JmapChanged
  <2>2. PICK v \in SUBSET Nums : v = (jmap.view \ changed) \cup {n \in changed : EmailExists(n)}
    BY DEF ClientTypes, JmapStates
  <2>3. jmap' = [jmap EXCEPT !.pc = "state", !.view = v] /\ UNCHANGED <<store, dav>>
    BY <1>1, <2>1, <2>2 DEF JmapDiff
  <2> QED
    BY <2>3 DEF ClientTypes, JmapStates
<1>2. CASE JmapNewState
  BY <1>2, StateIsGreatest DEF JmapNewState, ClientTypes, JmapStates
<1> QED
  BY <1>1, <1>2 DEF JmapStep

(* What the steps of the store and the housekeeping leave of the clients. *)
LEMMA ClientsBeside ==
    ASSUME ClientTypes, StoreStep \/ \E cutoff \in Nums : PruneTombstones(cutoff)
    PROVE  /\ ClientTypes'
           /\ dav'.pc = dav.pc /\ dav'.token = dav.token /\ dav'.now = dav.now
           /\ dav'.pend = dav.pend /\ dav'.view = dav.view
           /\ jmap'.pc = jmap.pc /\ jmap'.state = jmap.state /\ jmap'.view = jmap.view
           /\ dav.behind => dav'.behind
           /\ dav.pruned => dav'.pruned
           /\ jmap.raced => jmap'.raced
<1>0. dav \in DavStates /\ jmap \in JmapStates /\ dav.behind \in BOOLEAN /\ dav.pruned \in BOOLEAN /\ jmap.raced \in BOOLEAN
  BY DEF ClientTypes, DavStates, JmapStates
<1>1. CASE StoreStep
  <2>1. PICK b \in BOOLEAN : b = (dav.behind \/ \E n \in Nums : /\ <<DavRoom, n>> \in pointers' \ pointers
                                                                 /\ n <= Greatest(dav.token, dav.now))
    OBVIOUS
  <2>2. PICK c \in BOOLEAN : c = (jmap.raced \/ (jmap.pc = "state" /\ (pointers' # pointers \/ tombs' # tombs)))
    OBVIOUS
  <2>3. (dav.behind => b) /\ (jmap.raced => c)
    BY <1>0, <2>1, <2>2
  <2>4. dav' = [dav EXCEPT !.behind = b] /\ jmap' = [jmap EXCEPT !.raced = c]
    BY <1>1, <2>1, <2>2 DEF StoreStep
  <2> QED
    BY <1>0, <2>3, <2>4 DEF ClientTypes, DavStates, JmapStates
<1>2. ASSUME NEW cutoff \in Nums, PruneTombstones(cutoff)
      PROVE  /\ ClientTypes'
             /\ dav'.pc = dav.pc /\ dav'.token = dav.token /\ dav'.now = dav.now
             /\ dav'.pend = dav.pend /\ dav'.view = dav.view
             /\ jmap'.pc = jmap.pc /\ jmap'.state = jmap.state /\ jmap'.view = jmap.view
             /\ dav.behind => dav'.behind
             /\ dav.pruned => dav'.pruned
             /\ jmap.raced => jmap'.raced
  <2>1. PICK b \in BOOLEAN : b = (dav.pruned \/ \E t \in tombs \ tombs' : t.room = DavRoom /\ t.seq > dav.token)
    OBVIOUS
  <2>2. PICK c \in BOOLEAN : c = (jmap.raced \/ \E t \in tombs \ tombs' : t.seq > jmap.state)
    OBVIOUS
  <2>3. (dav.pruned => b) /\ (jmap.raced => c)
    BY <1>0, <2>1, <2>2
  <2>4. dav' = [dav EXCEPT !.pruned = b] /\ jmap' = [jmap EXCEPT !.raced = c]
    BY <1>2, <2>1, <2>2 DEF PruneTombstones
  <2> QED
    BY <1>0, <2>3, <2>4 DEF ClientTypes, DavStates, JmapStates
<1> QED
  BY <1>1, <1>2

LEMMA PruneKeepsFiling ==
    ASSUME FilingInv, NEW cutoff, PruneTombstones(cutoff)
    PROVE  FilingInv'
<1>1. tombs' \subseteq tombs /\ UNCHANGED <<seq, messages, euid, pointers, highest, job>>
  BY DEF PruneTombstones
<1>2. TypeInv'
  BY <1>1 DEF FilingInv, NumbersInv, TypeInv, TypeOK, RegistersSet
<1>3. Drawn' /\ UnburiedNumbers'
  BY <1>1 DEF FilingInv, NumbersInv, Drawn, UnburiedNumbers
<1>4. OwnTombs'
  BY <1>1 DEF FilingInv, NumbersInv, OwnTombs
<1>5. SharedNumberSpace'
  BY <1>1 DEF FilingInv, NumbersInv, SharedNumberSpace
<1>6. Unfiled'
  BY <1>1 DEF FilingInv, Unfiled
<1> QED
  BY <1>2, <1>3, <1>4, <1>5, <1>6 DEF FilingInv, NumbersInv

LEMMA FilingSyncStep ==
    ASSUME FilingInv, ClientTypes, [SyncNext]_allVars
    PROVE  FilingInv' /\ ClientTypes'
<1>0. TypeInv
  BY DEF FilingInv, NumbersInv
<1>1. CASE StoreStep
  BY <1>1, FilingStep, ClientsBeside DEF StoreStep
<1>2. CASE DavStep \/ JmapStep
  <2>1. ClientTypes' /\ UNCHANGED store
    BY <1>0, <1>2, DavStepTypes, JmapStepTypes
  <2> QED
    BY <2>1, FilingStep DEF store, vars
<1>3. ASSUME NEW cutoff \in Nums, PruneTombstones(cutoff) PROVE FilingInv' /\ ClientTypes'
  BY <1>3, PruneKeepsFiling, ClientsBeside
<1>4. CASE UNCHANGED allVars
  <2>1. UNCHANGED vars /\ UNCHANGED <<dav, jmap>>
    BY <1>4 DEF allVars, store, clients, vars
  <2> QED
    BY <2>1, FilingStep DEF ClientTypes
<1> QED
  BY <1>1, <1>2, <1>3, <1>4 DEF SyncNext

LEMMA SyncFirst == SyncInit => FilingInv /\ ClientTypes /\ dav.token = 0 /\ dav.now = 0 /\ (dav.view = [e \in Euids |-> 0])
                            /\ dav.pc \in {"off", "idle"} /\ jmap.state = 0 /\ jmap.view = {}
<1> SUFFICES ASSUME SyncInit PROVE FilingInv /\ ClientTypes /\ dav.token = 0 /\ dav.now = 0 /\ (dav.view = [e \in Euids |-> 0])
                            /\ dav.pc \in {"off", "idle"} /\ jmap.state = 0 /\ jmap.view = {}
  OBVIOUS
<1>1. FilingInv /\ 0 \in 0..MaxSeq
  BY FilingFirst, BoundAssumption DEF SyncInit
<1> QED
  BY <1>1 DEF SyncInit, ClientTypes, DavStates, JmapStates

(* The clients' tokens, states and copies stay of their types, and so does  *)
(* the store under them and the housekeeping.                               *)
THEOREM SyncTypeCorrect == SyncSpec => []SyncTypeOK
<1>1. FilingInv /\ ClientTypes => SyncTypeOK
  BY DEF FilingInv, NumbersInv, TypeInv, ClientTypes, SyncTypeOK
<1>2. SyncInit => FilingInv /\ ClientTypes
  BY SyncFirst
<1>3. FilingInv /\ ClientTypes /\ [SyncNext]_allVars => FilingInv' /\ ClientTypes'
  BY FilingSyncStep
<1> QED
  BY <1>1, <1>2, <1>3, PTL DEF SyncSpec

-----------------------------------------------------------------------------
(* Additions, with any writers *)

(* What ~behind buys: an object up to the token, or to the token being      *)
(* fetched unless it is yet to be loaded, is held in that version or newer. *)
DavHolds ==
    ~dav.behind =>
        \A n \in RoomMessages(DavRoom) \cap messages : euid[n] \in Euids =>
            /\ n <= dav.token => dav.view[euid[n]] >= n
            /\ dav.pc = "load" /\ n <= dav.now => euid[n] \in dav.pend \/ dav.view[euid[n]] >= n

LEMMA HoldsStep ==
    ASSUME FilingInv, ClientTypes, DavHolds, [SyncNext]_allVars
    PROVE  DavHolds'
<1>0. /\ TypeInv /\ MaxSeq \in Nat /\ Nums \subseteq 0..MaxSeq /\ dav \in DavStates
      /\ dav.token \in 0..MaxSeq /\ dav.now \in 0..MaxSeq /\ DavRoom \in Rooms
      /\ \A e \in Euids : dav.view[e] \in 0..MaxSeq
      /\ \A n \in RoomMessages(DavRoom) : n \in Nums /\ n \in Nat
  BY SyncAssumption, BoundAssumption DEF FilingInv, NumbersInv, ClientTypes, DavStates, Nums, RoomMessages
<1>1. CASE StoreStep
  <2> SUFFICES ASSUME ~dav'.behind, NEW n \in Nums, <<DavRoom, n>> \in pointers', n \in messages', euid'[n] \in Euids
               PROVE  /\ n <= dav'.token => dav'.view[euid'[n]] >= n
                      /\ dav'.pc = "load" /\ n <= dav'.now => euid'[n] \in dav'.pend \/ dav'.view[euid'[n]] >= n
    BY DEF DavHolds, RoomMessages
  <2>1. /\ dav'.pc = dav.pc /\ dav'.token = dav.token /\ dav'.now = dav.now
        /\ dav'.pend = dav.pend /\ dav'.view = dav.view /\ ~dav.behind
    BY <1>1, ClientsBeside
  <2>2. CASE <<DavRoom, n>> \in pointers
    <3>1. <<DavRoom, n>>[2] = n
      OBVIOUS
    <3>2. euid'[n] = euid[n] /\ n \in messages
      BY <1>1, <2>2, <3>1, FiledRowsStay DEF StoreStep
    <3> QED
      BY <2>1, <2>2, <3>2 DEF DavHolds, RoomMessages
  <2>3. CASE <<DavRoom, n>> \notin pointers
    <3>1. PICK b \in BOOLEAN : b = (dav.behind \/ \E m \in Nums : /\ <<DavRoom, m>> \in pointers' \ pointers
                                                                   /\ m <= Greatest(dav.token, dav.now))
      OBVIOUS
    <3>2. dav' = [dav EXCEPT !.behind = b]
      BY <1>1, <3>1 DEF StoreStep
    <3>3. ~b
      BY <1>0, <3>2 DEF DavStates
    <3>4. ~(n <= Greatest(dav.token, dav.now))
      BY <2>3, <3>1, <3>3
    <3>5. ~(n <= dav.token) /\ ~(n <= dav.now)
      BY <1>0, <3>4 DEF Greatest
    <3> QED
      BY <2>1, <3>5
  <2> QED
    BY <2>2, <2>3
<1>2. ASSUME DavStep PROVE DavHolds'
  <2>0. UNCHANGED <<store, jmap>> /\ ClientTypes'
    BY <1>0, <1>2, DavStepTypes
  <2>1. UNCHANGED <<messages, euid, pointers, tombs>>
    BY <2>0 DEF store
  <2>2. SUFFICES ASSUME ~dav'.behind, NEW n \in Nums, <<DavRoom, n>> \in pointers, n \in messages, euid[n] \in Euids
                 PROVE  /\ n <= dav'.token => dav'.view[euid[n]] >= n
                        /\ dav'.pc = "load" /\ n <= dav'.now => euid[n] \in dav'.pend \/ dav'.view[euid[n]] >= n
    BY <2>1 DEF DavHolds, RoomMessages
  <2>3. ~dav.behind =>
           /\ n <= dav.token => dav.view[euid[n]] >= n
           /\ dav.pc = "load" /\ n <= dav.now => euid[n] \in dav.pend \/ dav.view[euid[n]] >= n
    BY <2>2 DEF DavHolds, RoomMessages
  <2>4. n \in RoomMessages(DavRoom) \cap messages /\ n \in Nat
    BY <1>0, <2>2 DEF RoomMessages
  <2>5. CASE DavSyncToken
    BY <1>0, <2>2, <2>3, <2>5 DEF DavSyncToken, DavStates
  <2>6. CASE DavSyncDiff
    <3>1. PICK P \in SUBSET Euids : P = DavChanged(dav.token)
      BY DEF DavChanged
    <3>2. dav' = [dav EXCEPT !.pc = "load", !.pend = P]
      BY <2>6, <3>1 DEF DavSyncDiff
    <3>3. n <= dav.token \/ n > dav.token
      BY <1>0, <2>4
    <3>4. n > dav.token => euid[n] \in P
      <4>1. ASSUME n > dav.token PROVE <<n, euid[n]>> \in RoomChangesSince(DavRoom, dav.token)
        BY <2>4, <4>1 DEF RoomChangesSince
      <4>2. <<n, euid[n]>>[2] = euid[n]
        OBVIOUS
      <4> QED
        BY <2>2, <3>1, <4>1, <4>2 DEF DavChanged
    <3>5. dav'.behind = dav.behind /\ dav'.token = dav.token /\ dav'.view = dav.view /\ dav'.pend = P
      BY <1>0, <3>2 DEF DavStates
    <3> QED
      BY <2>2, <2>3, <3>3, <3>4, <3>5
  <2>7. ASSUME NEW e \in Euids, DavSyncObject(e)
        PROVE  /\ n <= dav'.token => dav'.view[euid[n]] >= n
               /\ dav'.pc = "load" /\ n <= dav'.now => euid[n] \in dav'.pend \/ dav'.view[euid[n]] >= n
    <3>1. PICK x \in 0..MaxSeq : x = FindByEuid(DavRoom, e)
      BY FindByEuidType
    <3>2. dav' = [dav EXCEPT !.pend = @ \ {e}, !.view[e] = x] /\ dav.pc = "load"
      BY <2>7, <3>1 DEF DavSyncObject
    <3>3. /\ dav'.behind = dav.behind /\ dav'.token = dav.token /\ dav'.now = dav.now /\ dav'.pc = dav.pc
          /\ dav'.pend = dav.pend \ {e} /\ dav'.view = [dav.view EXCEPT ![e] = x]
          /\ dav.view \in [Euids -> 0..MaxSeq]
      BY <1>0, <3>2 DEF DavStates
    <3>4. CASE euid[n] = e
      <4>1. x >= n
        BY <1>0, <2>4, <3>1, <3>4, FoundIsNewest
      <4>2. dav'.view[euid[n]] = x
        BY <3>3, <3>4
      <4> QED
        BY <4>1, <4>2
    <3>5. CASE euid[n] # e
      <4>1. dav'.view[euid[n]] = dav.view[euid[n]]
        BY <2>2, <3>3, <3>5
      <4> QED
        BY <2>2, <2>3, <3>3, <3>5, <4>1
    <3> QED
      BY <3>4, <3>5
  <2>8. CASE DavSyncDone
    <3>1. dav' = [dav EXCEPT !.pc = "idle", !.token = dav.now, !.now = 0] /\ dav.pc = "load" /\ dav.pend = {}
      BY <2>8 DEF DavSyncDone
    <3>2. dav'.behind = dav.behind /\ dav'.token = dav.now /\ dav'.pc = "idle" /\ dav'.view = dav.view
      BY <1>0, <3>1 DEF DavStates
    <3> QED
      BY <2>2, <2>3, <3>1, <3>2
  <2> QED
    BY <1>2, <2>5, <2>6, <2>7, <2>8 DEF DavStep
<1>3. CASE UNCHANGED <<store, dav>>
  BY <1>3 DEF DavHolds, RoomMessages, store
<1>4. ASSUME NEW cutoff \in Nums, PruneTombstones(cutoff) PROVE DavHolds'
  <2>1. UNCHANGED <<messages, euid, pointers>>
    BY <1>4 DEF PruneTombstones
  <2>2. /\ dav'.pc = dav.pc /\ dav'.token = dav.token /\ dav'.now = dav.now
        /\ dav'.pend = dav.pend /\ dav'.view = dav.view /\ (dav.behind => dav'.behind)
    BY <1>4, ClientsBeside
  <2> QED
    BY <2>1, <2>2 DEF DavHolds, RoomMessages
<1>5. CASE JmapStep
  BY <1>0, <1>3, <1>5, JmapStepTypes
<1>6. CASE UNCHANGED allVars
  BY <1>3, <1>6 DEF allVars, clients
<1> QED
  BY <1>1, <1>2, <1>4, <1>5, <1>6 DEF SyncNext

LEMMA HoldsFirst == SyncInit => DavHolds
<1> SUFFICES ASSUME SyncInit PROVE DavHolds
  OBVIOUS
<1>1. pointers = {}
  BY DEF SyncInit, Init
<1> QED
  BY <1>1 DEF DavHolds, RoomMessages

(* A DAV client that the server has nothing to report to holds every object  *)
(* of its collection, in no older version than the collection's newest,      *)
(* unless somebody moved in a message below its token: however many          *)
(* connections write, move, expire or die between its requests or inside     *)
(* one, and whatever the housekeeping has pruned.                            *)
THEOREM AdditionsAreFound == SyncSpec => []DavSyncFindsAdditions
<1>1. ASSUME FilingInv, ClientTypes, DavHolds PROVE DavSyncFindsAdditions
  <2> SUFFICES ASSUME ~dav.behind, dav.pc = "idle", DavChanged(dav.token) = {}, NEW e \in Euids
               PROVE  dav.view[e] >= FindByEuid(DavRoom, e)
    BY DEF DavSyncFindsAdditions
  <2>0. /\ MaxSeq \in Nat /\ dav.token \in 0..MaxSeq /\ dav.view[e] \in 0..MaxSeq
    BY <1>1, BoundAssumption DEF ClientTypes, DavStates
  <2>1. PICK n \in 0..MaxSeq : n = FindByEuid(DavRoom, e)
    BY FindByEuidType
  <2>2. CASE n = 0
    BY <2>0, <2>1, <2>2
  <2>3. CASE n # 0
    <3>1. n \in RoomMessages(DavRoom) \cap messages /\ euid[n] = e
      BY <2>1, <2>3, FoundIsSaved, SyncAssumption DEF Saved, RoomMessages
    <3>2. n <= dav.token
      <4>1. SUFFICES ASSUME n > dav.token PROVE FALSE
        BY <2>0
      <4>2. <<n, e>> \in RoomChangesSince(DavRoom, dav.token)
        BY <3>1, <4>1 DEF RoomChangesSince
      <4>3. <<n, e>>[2] = e
        OBVIOUS
      <4> QED
        BY <4>2, <4>3 DEF DavChanged
    <3> QED
      BY <1>1, <2>1, <3>1, <3>2 DEF DavHolds
  <2> QED
    BY <2>2, <2>3
<1>2. SyncInit => FilingInv /\ ClientTypes /\ DavHolds
  BY SyncFirst, HoldsFirst
<1>3. FilingInv /\ ClientTypes /\ DavHolds /\ [SyncNext]_allVars => FilingInv' /\ ClientTypes' /\ DavHolds'
  BY FilingSyncStep, HoldsStep
<1> QED
  BY <1>1, <1>2, <1>3, PTL DEF SyncSpec

-----------------------------------------------------------------------------
(* One connection that writes and does not die half way *)

(* With two, or with a crash between the DELETE and the tombstone, a removal *)
(* can get a tombstone below a token already handed out, or none.            *)
OneWriter == (\A a, b \in Actors : a = b) /\ "crash" \notin Ops

(* The last number handed out is not filed under, nor on a tombstone, yet. *)
Holding == \E a \in Actors : job[a].pc \in Inserting \cup {"tombstone"}

(* A number that no later one will be sorted under. *)
Settled(n) == n <= seq /\ (Holding => n < seq)

WriterOK(j) ==
    /\ j.pc = "tombstone" => j.tseq = seq
    /\ j.pc \in Inserting => j.made = seq
    /\ j.pc \in {"link", "raise", "read", "unlink"} => <<j.room, j.num>> \in pointers
    /\ j.pc \in {"unlink", "tombseq", "tombstone"} => j.gone = euid[j.num]

WriterInv ==
    /\ \A a \in Actors : WriterOK(job[a])
    /\ \A p \in pointers : p[2] \in messages /\ Settled(p[2])
    /\ \A t \in tombs : Settled(t.seq)

LEMMA HoldingAlone ==
    ASSUME OneWriter, NEW a \in Actors
    PROVE  /\ Holding <=> job[a].pc \in Inserting \cup {"tombstone"}
           /\ Holding' <=> job'[a].pc \in Inserting \cup {"tombstone"}
BY DEF OneWriter, Holding

LEMMA SettledStays ==
    ASSUME FilingInv, OneWriter, Next, NEW n \in Nat, Settled(n)
    PROVE  Settled(n)'
<1>0. seq \in Nat /\ n <= seq
  BY NaturalNumbers DEF FilingInv, NumbersInv, Settled
<1>1. PICK a \in Actors : Acts(a)
  BY StepEffects DEF OneWriter, Dies, FilingInv, NumbersInv
<1>2. CASE seq' = seq + 1
  <2>1. n <= seq + 1 /\ n < seq + 1
    BY <1>0
  <2> QED
    BY <1>2, <2>1 DEF Settled
<1>3. CASE seq' = seq /\ (Holding' => Holding)
  BY <1>3 DEF Settled
<1>4. CASE Writes(job[a], job'[a])
  BY <1>3, <1>4, HoldingAlone DEF Writes, Still, Inserting
<1>5. CASE Counts(job[a], job'[a]) \/ Allocates(job[a], job'[a])
  BY <1>2, <1>5 DEF Counts, Allocates
<1>6. CASE ~Counts(job[a], job'[a]) /\ ~Allocates(job[a], job'[a]) /\ ~Writes(job[a], job'[a])
  <2>1. seq' = seq /\ job'[a].pc \notin Inserting \cup {"tombstone"}
    BY <1>1, <1>6 DEF Acts, Effect, Loosens, Takes, Looks, Drops, Buries, Picks, Files, Commits, Still, Loose, Inserting
  <2> QED
    BY <1>3, <2>1, HoldingAlone
<1> QED
  BY <1>4, <1>5, <1>6

LEMMA WriterStep ==
    ASSUME FilingInv, WriterInv, OneWriter, Next
    PROVE  WriterInv'
<1>0. /\ TypeInv /\ seq \in Nat /\ (\A p \in pointers : p[2] \in Nat) /\ (\A t \in tombs : t.seq \in Nat)
  BY NaturalNumbers DEF FilingInv, NumbersInv
<1>1. PICK a \in Actors : Acts(a)
  BY StepEffects, <1>0 DEF OneWriter, Dies
<1>2. /\ \A b \in Actors : b = a
      /\ job[a] \in Jobs /\ WriterOK(job[a])
  BY <1>0 DEF OneWriter, WriterInv, TypeInv, TypeOK
<1> DEFINE j == job[a]
           k == job'[a]
<1>3. WriterOK(job[a])'
  <2>1. CASE Loosens(j, k)
    BY <2>1 DEF Loosens, Loose, WriterOK, Inserting
  <2>2. CASE Takes(j, k)
    BY <1>2, <2>2 DEF Takes, Still, WriterOK, Inserting
  <2>3. CASE Looks(j, k)
    <3>1. <<j.room, j.num>> \in pointers /\ <<j.room, j.num>>[2] = j.num
      BY <1>2, <2>3 DEF Looks, WriterOK
    <3>2. j.num \in messages
      BY <3>1 DEF WriterInv
    <3> QED
      BY <2>3, <3>1, <3>2 DEF Looks, Still, WriterOK, Inserting
  <2>4. CASE Drops(j, k)
    BY <1>2, <2>4 DEF Drops, WriterOK, Inserting
  <2>5. CASE Counts(j, k)
    BY <1>2, <2>5 DEF Counts, WriterOK, Inserting
  <2>6. CASE Buries(j, k) \/ Commits(j, k)
    BY <2>6 DEF Buries, Commits, WriterOK, Inserting
  <2>7. CASE Picks(j, k)
    BY <2>7 DEF Picks, Still, WriterOK, Inserting
  <2>8. CASE Files(j, k)
    BY <1>2, <2>8 DEF Files, WriterOK, Inserting
  <2>9. CASE Allocates(j, k)
    BY <2>9 DEF Allocates, WriterOK, Inserting
  <2>10. CASE Writes(j, k)
    BY <1>2, <2>10 DEF Writes, Still, WriterOK, Inserting
  <2> QED
    BY <1>1, <2>1, <2>2, <2>3, <2>4, <2>5, <2>6, <2>7, <2>8, <2>9, <2>10 DEF Acts, Effect
<1>4. ASSUME NEW p \in pointers' PROVE p[2] \in messages' /\ Settled(p[2])'
  <2>1. CASE p \in pointers
    <3>1. p[2] \in messages /\ Settled(p[2]) /\ p[2] \in Nat
      BY <1>0, <2>1 DEF WriterInv
    <3>2. p[2] \in messages'
      BY <1>1, <2>1, <3>1 DEF Acts, Effect, Loosens, Takes, Looks, Drops, Counts, Buries, Picks, Files, Allocates,
                              Writes, Commits, Still
    <3>3. PICK n \in Nat : n = p[2]
      BY <3>1
    <3>4. Settled(n)'
      BY <3>1, <3>3, SettledStays
    <3> QED
      BY <3>2, <3>3, <3>4
  <2>2. CASE p \notin pointers
    <3>1. Files(j, k) \/ Commits(j, k)
      BY <1>1, <2>2 DEF Acts, Effect, Loosens, Takes, Looks, Drops, Counts, Buries, Picks, Allocates, Writes, Still
    <3>2. CASE Files(j, k)
      <4>1. PICK r \in Rooms : pointers' = pointers \cup {<<r, j.num>>}
        BY <3>2 DEF Files
      <4>2. p[2] = j.num /\ messages' = messages
        BY <2>2, <3>2, <4>1 DEF Files
      <4>3. <<j.room, j.num>> \in pointers /\ <<j.room, j.num>>[2] = j.num
        BY <1>2, <3>2 DEF Files, WriterOK
      <4>4. j.num \in messages /\ Settled(j.num)
        BY <4>3 DEF WriterInv
      <4>5. PICK n \in Nat : n = j.num
        BY <1>0, <4>3
      <4>6. Settled(n)'
        BY <4>4, <4>5, SettledStays
      <4> QED
        BY <4>2, <4>4, <4>5, <4>6
    <3>3. CASE Commits(j, k)
      <4>1. p[2] = j.made /\ messages' = messages \cup {j.made} /\ seq' = seq
        BY <2>2, <3>3 DEF Commits
      <4>2. j.made = seq
        BY <1>2, <3>3 DEF Commits, WriterOK, Inserting
      <4>3. ~Holding'
        BY <3>3, HoldingAlone DEF Commits, Inserting
      <4>4. PICK n \in Nat : n = seq
        BY <1>0
      <4>5. Settled(n)'
        BY <4>1, <4>3, <4>4 DEF Settled
      <4> QED
        BY <4>1, <4>2, <4>4, <4>5
    <3> QED
      BY <3>1, <3>2, <3>3
  <2> QED
    BY <2>1, <2>2
<1>5. ASSUME NEW t \in tombs' PROVE Settled(t.seq)'
  <2>1. CASE t \in tombs
    <3>1. PICK n \in Nat : n = t.seq
      BY <1>0, <2>1
    <3>2. Settled(n)
      BY <2>1, <3>1 DEF WriterInv
    <3> QED
      BY <3>1, <3>2, SettledStays
  <2>2. CASE t \notin tombs
    <3>1. Buries(j, k)
      BY <1>1, <2>2 DEF Acts, Effect, Loosens, Takes, Looks, Drops, Counts, Picks, Files, Allocates, Writes, Commits, Still
    <3>2. t.seq = j.tseq /\ seq' = seq
      BY <2>2, <3>1 DEF Buries
    <3>3. j.tseq = seq
      BY <1>2, <3>1 DEF Buries, WriterOK
    <3>4. ~Holding'
      BY <3>1, HoldingAlone DEF Buries, Inserting
    <3>5. PICK n \in Nat : n = seq
      BY <1>0
    <3>6. Settled(n)'
      BY <3>2, <3>4, <3>5 DEF Settled
    <3> QED
      BY <3>2, <3>3, <3>5, <3>6
  <2> QED
    BY <2>1, <2>2
<1>6. ASSUME NEW b \in Actors PROVE WriterOK(job[b])'
  BY <1>2, <1>3
<1> QED
  BY <1>4, <1>5, <1>6 DEF WriterInv

LEMMA WriterFirst == Init => WriterInv
<1> SUFFICES ASSUME Init PROVE WriterInv
  OBVIOUS
<1>1. \A a \in Actors : job[a].pc = "idle"
  BY DEF Init, IdleJob
<1> QED
  BY <1>1 DEF Init, WriterInv, WriterOK, Inserting

LEMMA WriterSyncStep ==
    ASSUME FilingInv, ClientTypes, WriterInv, OneWriter, [SyncNext]_allVars
    PROVE  WriterInv'
<1>0. TypeInv
  BY DEF FilingInv, NumbersInv
<1>1. CASE StoreStep
  BY <1>1, WriterStep DEF StoreStep
<1>2. CASE UNCHANGED <<seq, messages, euid, pointers, job>> /\ tombs' \subseteq tombs
  BY <1>2 DEF WriterInv, WriterOK, Settled, Holding
<1>3. CASE DavStep \/ JmapStep
  <2>1. UNCHANGED store
    BY <1>0, <1>3, DavStepTypes, JmapStepTypes
  <2> QED
    BY <1>2, <2>1 DEF store
<1>4. ASSUME NEW cutoff \in Nums, PruneTombstones(cutoff) PROVE WriterInv'
  BY <1>2, <1>4 DEF PruneTombstones
<1>5. CASE UNCHANGED allVars
  BY <1>2, <1>5 DEF allVars, store
<1> QED
  BY <1>1, <1>3, <1>4, <1>5 DEF SyncNext

-----------------------------------------------------------------------------
(* Removals *)

Removing(a, n) == job[a].pc \in {"tombseq", "tombstone"} /\ job[a].num = n

LEMMA ZeroIsSettled ==
    ASSUME FilingInv, WriterInv
    PROVE  Settled(0)
<1>1. seq \in Nat /\ 0 <= seq
  BY NaturalNumbers DEF FilingInv, NumbersInv
<1>2. ASSUME NEW a \in Actors, job[a].pc \in Inserting \cup {"tombstone"} PROVE seq \in Nums
  BY <1>2 DEF WriterInv, WriterOK, FilingInv, NumbersInv, TypeInv, RegistersSet, Registers
<1>3. Holding => 0 < seq
  BY <1>2 DEF Holding, Nums
<1> QED
  BY <1>1, <1>3 DEF Settled

LEMMA TokenIsSettled ==
    ASSUME FilingInv, WriterInv
    PROVE  Settled(AccountState) /\ \A r \in Rooms : Settled(RoomChangeToken(r))
BY ZeroIsSettled, TokenIsGreatest, StateIsGreatest DEF WriterInv, FilingInv, NumbersInv

(* A version numbered and filed is not written over. *)
LEMMA SettledRowStays ==
    ASSUME FilingInv, WriterInv, OneWriter, Next, NEW n \in Nums, Settled(n)
    PROVE  euid'[n] = euid[n]
<1>1. PICK a \in Actors : Acts(a)
  BY StepEffects DEF OneWriter, Dies, FilingInv, NumbersInv
<1>2. CASE Commits(job[a], job'[a])
  <2>1. job[a].made = seq /\ Holding
    BY <1>2, HoldingAlone DEF Commits, WriterInv, WriterOK, Inserting
  <2>2. n < seq /\ n \in Nat /\ seq \in Nat
    BY <2>1, NaturalNumbers DEF Settled, FilingInv, NumbersInv, Nums
  <2>3. n # job[a].made
    BY <2>1, <2>2
  <2> QED
    BY <1>2, <2>3 DEF Commits, FilingInv, NumbersInv, TypeInv, TypeOK
<1>3. CASE ~Commits(job[a], job'[a])
  BY <1>1, <1>3 DEF Acts, Effect, Loosens, Takes, Looks, Drops, Counts, Buries, Picks, Files, Allocates, Writes, Still
<1> QED
  BY <1>2, <1>3

(* A pointer goes only by an Unlink, and an Unlink ends in a tombstone above *)
(* every number settled before it.                                          *)
LEMMA RemovalGoesOn ==
    ASSUME FilingInv, WriterInv, OneWriter, Next, seq' < MaxSeq
    PROVE  /\ seq < MaxSeq
           /\ tombs \subseteq tombs'
           /\ \A p \in pointers \ pointers' :
                 \E a \in Actors : Removing(a, p[2])' /\ job'[a].room = p[1]
           /\ \A a \in Actors, n \in Nums : Removing(a, n) =>
                 \/ Removing(a, n)' /\ job'[a].room = job[a].room
                 \/ \E t \in tombs' \ tombs : /\ t.room = job[a].room /\ t.num = n /\ t.euid = euid[n]
                                              /\ t.seq = seq /\ Holding
<1>0. /\ TypeInv /\ seq \in Nat /\ MaxSeq \in Nat /\ pointers \subseteq Rooms \X Nums
      /\ \A t \in tombs : t.seq \in Nat
  BY NaturalNumbers DEF FilingInv, NumbersInv, TypeInv, TypeOK
<1>1. PICK a \in Actors : Acts(a)
  BY <1>0, StepEffects DEF OneWriter, Dies
<1>2. \A b \in Actors : b = a
  BY DEF OneWriter
<1> DEFINE j == job[a]
           k == job'[a]
<1>3. seq < MaxSeq
  <2>1. seq' = seq \/ seq' = seq + 1
    BY <1>1 DEF Acts, Effect, Loosens, Takes, Looks, Drops, Counts, Buries, Picks, Files, Allocates, Writes, Commits, Still
  <2> QED
    BY <1>0, <2>1
<1>4. tombs \subseteq tombs'
  BY <1>1 DEF Acts, Effect, Loosens, Takes, Looks, Drops, Counts, Buries, Picks, Files, Allocates, Writes, Commits, Still
<1>5. ASSUME NEW p \in pointers \ pointers' PROVE Removing(a, p[2])' /\ job'[a].room = p[1]
  <2>1. Drops(j, k)
    BY <1>1, <1>5 DEF Acts, Effect, Loosens, Takes, Looks, Counts, Buries, Picks, Files, Allocates, Writes, Commits, Still
  <2>2. p = <<j.room, j.num>>
    BY <1>5, <2>1 DEF Drops
  <2>3. p[1] = j.room /\ p[2] = j.num
    BY <2>2
  <2> QED
    BY <2>1, <2>3 DEF Drops, Removing
<1>6. ASSUME NEW n \in Nums, Removing(a, n)
      PROVE  \/ Removing(a, n)' /\ job'[a].room = job[a].room
             \/ \E t \in tombs' \ tombs : /\ t.room = job[a].room /\ t.num = n /\ t.euid = euid[n]
                                          /\ t.seq = seq /\ Holding
  <2>1. Counts(j, k) \/ Buries(j, k)
    <3>1. j.pc \in {"tombseq", "tombstone"}
      BY <1>6 DEF Removing
    <3>2. ~Loosens(j, k)
      BY <1>0, <1>3, <3>1 DEF Loosens
    <3> QED
      BY <1>1, <3>1, <3>2 DEF Acts, Effect, Takes, Looks, Drops, Picks, Files, Allocates, Writes, Commits
  <2>2. CASE Counts(j, k)
    BY <1>6, <2>2 DEF Counts, Removing
  <2>3. CASE Buries(j, k)
    <3>1. PICK t \in Tombstones : /\ t.room = j.room /\ t.seq = j.tseq /\ t.num = j.num /\ t.euid = j.gone
                                  /\ tombs' = tombs \cup {t}
      BY <2>3 DEF Buries
    <3>2. j.tseq = seq /\ j.gone = euid[j.num] /\ j.num = n /\ Holding
      BY <1>6, <2>3, HoldingAlone DEF Buries, WriterInv, WriterOK, Removing
    <3>3. t \notin tombs
      <4>1. SUFFICES ASSUME t \in tombs PROVE FALSE
        OBVIOUS
      <4>2. Settled(t.seq) /\ t.seq = seq
        BY <3>1, <3>2, <4>1 DEF WriterInv
      <4>3. seq < seq
        BY <3>2, <4>2 DEF Settled
      <4> QED
        BY <1>0, <4>3
    <3> QED
      BY <3>1, <3>2, <3>3
  <2> QED
    BY <2>1, <2>2, <2>3
<1>7. ASSUME NEW p \in pointers \ pointers' PROVE \E b \in Actors : Removing(b, p[2])' /\ job'[b].room = p[1]
  BY <1>5
<1>8. ASSUME NEW b \in Actors, NEW n \in Nums, Removing(b, n)
      PROVE  \/ Removing(b, n)' /\ job'[b].room = job[b].room
             \/ \E t \in tombs' \ tombs : /\ t.room = job[b].room /\ t.num = n /\ t.euid = euid[n]
                                          /\ t.seq = seq /\ Holding
  <2>1. b = a
    BY <1>2
  <2> QED
    BY <1>6, <1>8, <2>1
<1> QED
  BY <1>3, <1>4, <1>7, <1>8

(* A version it holds that left the collection is still to be heard of. *)
Hears(e) ==
    \/ dav.pc = "load" /\ e \in dav.pend
    \/ \E t \in tombs : /\ t.room = DavRoom /\ t.euid = e /\ t.seq > dav.token
                        /\ dav.pc = "load" => t.seq > dav.now
    \/ \E a \in Actors : Removing(a, dav.view[e]) /\ job[a].room = DavRoom

DavHears ==
    /\ Settled(dav.token) /\ Settled(dav.now)
    /\ \A e \in Euids : dav.view[e] # 0 => euid[dav.view[e]] = e /\ Settled(dav.view[e])
    /\ ~dav.pruned /\ seq < MaxSeq =>
          \A e \in Euids : dav.view[e] # 0 => <<DavRoom, dav.view[e]>> \in pointers \/ Hears(e)

LEMMA SeqGrows ==
    ASSUME FilingInv, OneWriter, Next
    PROVE  seq \in Nat /\ seq' \in Nat /\ seq <= seq'
<1>0. seq \in Nat
  BY NaturalNumbers DEF FilingInv, NumbersInv
<1>1. PICK a \in Actors : Acts(a)
  BY StepEffects DEF OneWriter, Dies, FilingInv, NumbersInv
<1>2. seq' = seq \/ seq' = seq + 1
  BY <1>1 DEF Acts, Effect, Loosens, Takes, Looks, Drops, Counts, Buries, Picks, Files, Allocates, Writes, Commits, Still
<1> QED
  BY <1>0, <1>2

LEMMA HearsStoreStep ==
    ASSUME FilingInv, ClientTypes, WriterInv, OneWriter, DavHears, StoreStep
    PROVE  DavHears'
<1>0. /\ Next /\ MaxSeq \in Nat /\ DavRoom \in Rooms
      /\ dav'.pc = dav.pc /\ dav'.token = dav.token /\ dav'.now = dav.now
      /\ dav'.pend = dav.pend /\ dav'.view = dav.view
      /\ dav.pruned => dav'.pruned
  BY ClientsBeside, SyncAssumption, BoundAssumption DEF StoreStep
<1>1. /\ dav.token \in Nat /\ dav.now \in Nat
      /\ \A e \in Euids : dav.view[e] \in Nat /\ (dav.view[e] # 0 => dav.view[e] \in Nums)
  BY <1>0 DEF ClientTypes, DavStates, Nums
<1>2. Settled(dav.token)' /\ Settled(dav.now)'
  <2>1. PICK n \in Nat : n = dav.token
    BY <1>1
  <2>2. PICK m \in Nat : m = dav.now
    BY <1>1
  <2>3. Settled(n)' /\ Settled(m)'
    BY <1>0, <2>1, <2>2, SettledStays DEF DavHears
  <2> QED
    BY <1>0, <2>1, <2>2, <2>3
<1>3. ASSUME NEW e \in Euids, dav'.view[e] # 0 PROVE euid'[dav'.view[e]] = e /\ Settled(dav.view[e])'
  <2>1. PICK n \in Nums : n = dav.view[e]
    BY <1>0, <1>1, <1>3
  <2>2. Settled(n) /\ euid[n] = e /\ n \in Nat
    BY <1>0, <1>1, <1>3, <2>1 DEF DavHears
  <2>3. Settled(n)' /\ euid'[n] = euid[n]
    BY <1>0, <2>2, SettledStays, SettledRowStays
  <2> QED
    BY <1>0, <2>1, <2>2, <2>3
<1>4. ASSUME ~dav'.pruned, seq' < MaxSeq, NEW e \in Euids, dav'.view[e] # 0, <<DavRoom, dav'.view[e]>> \notin pointers'
      PROVE  Hears(e)'
  <2>1. PICK n \in Nums : n = dav.view[e] /\ n = dav'.view[e]
    BY <1>0, <1>1, <1>4
  <2>2. /\ seq < MaxSeq /\ tombs \subseteq tombs'
        /\ \A p \in pointers \ pointers' :
                 \E a \in Actors : Removing(a, p[2])' /\ job'[a].room = p[1]
        /\ \A a \in Actors, m \in Nums : Removing(a, m) =>
                 \/ Removing(a, m)' /\ job'[a].room = job[a].room
                 \/ \E t \in tombs' \ tombs : /\ t.room = job[a].room /\ t.num = m /\ t.euid = euid[m]
                                              /\ t.seq = seq /\ Holding
    BY <1>0, <1>4, RemovalGoesOn
  <2>3. CASE <<DavRoom, n>> \in pointers
    <3>1. PICK p \in pointers \ pointers' : p = <<DavRoom, n>>
      BY <1>4, <2>1, <2>3
    <3>2. p[1] = DavRoom /\ p[2] = n
      BY <3>1
    <3>3. \E a \in Actors : Removing(a, n)' /\ job'[a].room = DavRoom
      BY <2>2, <3>2
    <3> QED
      BY <2>1, <3>3 DEF Hears, Removing
  <2>4. CASE <<DavRoom, n>> \notin pointers
    <3>1. Hears(e) /\ euid[n] = e
      BY <1>0, <1>1, <1>4, <2>1, <2>2, <2>4 DEF DavHears
    <3>2. CASE dav.pc = "load" /\ e \in dav.pend
      BY <1>0, <3>2 DEF Hears
    <3>3. CASE \E t \in tombs : /\ t.room = DavRoom /\ t.euid = e /\ t.seq > dav.token
                                /\ dav.pc = "load" => t.seq > dav.now
      BY <1>0, <2>2, <3>3 DEF Hears
    <3>4. ASSUME NEW a \in Actors, Removing(a, n), job[a].room = DavRoom PROVE Hears(e)'
      <4>1. CASE Removing(a, n)' /\ job'[a].room = job[a].room
        BY <2>1, <3>4, <4>1 DEF Hears, Removing
      <4>2. ASSUME NEW t \in tombs', t.room = job[a].room, t.euid = euid[n], t.seq = seq, Holding
            PROVE  Hears(e)'
        <5>1. dav.token < seq /\ dav.now < seq
          BY <4>2 DEF DavHears, Settled
        <5>2. seq > dav.token /\ seq > dav.now
          BY <1>1, <5>1, NaturalNumbers DEF FilingInv, NumbersInv
        <5> QED
          BY <1>0, <3>1, <3>4, <4>2, <5>2 DEF Hears
      <4> QED
        BY <2>2, <3>4, <4>1, <4>2
    <3> QED
      BY <2>1, <3>1, <3>2, <3>3, <3>4 DEF Hears
  <2> QED
    BY <2>3, <2>4
<1> QED
  BY <1>0, <1>2, <1>3, <1>4 DEF DavHears

LEMMA HearsDavStep ==
    ASSUME FilingInv, ClientTypes, WriterInv, DavHears, DavStep
    PROVE  DavHears'
<1>0. /\ TypeInv /\ dav \in DavStates /\ DavRoom \in Rooms /\ UNCHANGED <<store, jmap>>
      /\ dav.view \in [Euids -> 0..MaxSeq]
  BY DavStepTypes, SyncAssumption DEF FilingInv, NumbersInv, ClientTypes, DavStates
<1>1. UNCHANGED <<seq, messages, euid, pointers, tombs, job>>
  BY <1>0 DEF store
<1>2. \A n : Settled(n) => Settled(n)'
  BY <1>1 DEF Settled, Holding
<1>3. CASE DavSyncToken
  <2>1. PICK n \in 0..MaxSeq : n = RoomChangeToken(DavRoom) /\ Settled(n)
    BY <1>0, TokenIsGreatest, TokenIsSettled
  <2>2. /\ dav'.pc = "diff" /\ dav'.token = dav.token /\ dav'.now = n
        /\ dav'.pend = dav.pend /\ dav'.view = dav.view /\ dav'.pruned = dav.pruned /\ dav.pc = "idle"
    BY <1>0, <1>3, <2>1 DEF DavSyncToken, DavStates
  <2>3. Settled(n)' /\ Settled(dav.token)'
    BY <1>2, <2>1, <2>2 DEF DavHears, Settled
  <2>4. \A e \in Euids : Hears(e) => Hears(e)'
    BY <1>1, <2>2 DEF Hears, Removing
  <2> QED
    BY <1>1, <2>2, <2>3, <2>4 DEF DavHears, Settled, Holding
<1>4. CASE DavSyncDiff
  <2>1. PICK P \in SUBSET Euids : P = DavChanged(dav.token)
    BY DEF DavChanged
  <2>2. dav' = [dav EXCEPT !.pc = "load", !.pend = P] /\ dav.pc = "diff"
    BY <1>4, <2>1 DEF DavSyncDiff
  <2>3. /\ dav'.pc = "load" /\ dav'.token = dav.token /\ dav'.now = dav.now
        /\ dav'.pend = P /\ dav'.view = dav.view /\ dav'.pruned = dav.pruned
    BY <1>0, <2>2 DEF DavStates
  <2>4. ASSUME NEW e \in Euids, Hears(e) PROVE Hears(e)'
    <3>1. ASSUME NEW t \in tombs, t.room = DavRoom, t.euid = e, t.seq > dav.token PROVE e \in P
      <4>1. <<t.num, t.euid>> \in RoomChangesSince(DavRoom, dav.token)
        BY <3>1 DEF RoomChangesSince
      <4>2. <<t.num, t.euid>>[2] = e
        BY <3>1
      <4> QED
        BY <2>1, <4>1, <4>2 DEF DavChanged
    <3>2. CASE e \in P
      BY <2>3, <3>2 DEF Hears
    <3>3. CASE \E a \in Actors : Removing(a, dav.view[e]) /\ job[a].room = DavRoom
      BY <1>1, <2>3, <3>3 DEF Hears, Removing
    <3> QED
      BY <2>2, <2>4, <3>1, <3>2, <3>3 DEF Hears
  <2> QED
    BY <1>1, <2>3, <2>4 DEF DavHears, Settled, Holding
<1>5. ASSUME NEW g \in Euids, DavSyncObject(g) PROVE DavHears'
  <2>1. PICK x \in 0..MaxSeq : x = FindByEuid(DavRoom, g)
    BY FindByEuidType
  <2>2. dav' = [dav EXCEPT !.pend = @ \ {g}, !.view[g] = x] /\ dav.pc = "load"
    BY <1>5, <2>1 DEF DavSyncObject
  <2>3. /\ dav'.pruned = dav.pruned /\ dav'.token = dav.token /\ dav'.now = dav.now /\ dav'.pc = dav.pc
        /\ dav'.pend = dav.pend \ {g} /\ dav'.view = [dav.view EXCEPT ![g] = x]
    BY <1>0, <2>2 DEF DavStates
  <2>4. x # 0 => <<DavRoom, x>> \in pointers /\ euid[x] = g /\ Settled(x)
    <3>1. ASSUME x # 0 PROVE <<DavRoom, x>> \in pointers /\ euid[x] = g
      BY <1>0, <2>1, <3>1, FoundIsSaved DEF Saved
    <3>2. ASSUME <<DavRoom, x>> \in pointers PROVE Settled(x)
      BY <3>2, <<DavRoom, x>>[2] = x DEF WriterInv
    <3> QED
      BY <3>1, <3>2
  <2>5. /\ dav'.view[g] = x
        /\ \A e \in Euids \ {g} : dav'.view[e] = dav.view[e]
    BY <1>0, <2>3
  <2>6. ASSUME NEW e \in Euids \ {g}, Hears(e) PROVE Hears(e)'
    BY <1>1, <2>3, <2>5, <2>6 DEF Hears, Removing
  <2>7. ASSUME NEW e \in Euids, dav'.view[e] # 0 PROVE euid'[dav'.view[e]] = e /\ Settled(dav.view[e])'
    <3>1. CASE e = g
      <4>1. Settled(x)' /\ euid'[x] = e
        BY <1>1, <1>2, <2>4, <2>5, <2>7, <3>1
      <4> QED
        BY <2>5, <3>1, <4>1
    <3>2. CASE e # g
      <4>1. PICK n \in 0..MaxSeq : n = dav.view[e]
        BY <1>0
      <4>2. euid[n] = e /\ Settled(n) /\ dav'.view[e] = n
        BY <2>5, <2>7, <3>2, <4>1 DEF DavHears
      <4>3. euid'[n] = e /\ Settled(n)'
        BY <1>1, <1>2, <4>2
      <4> QED
        BY <4>2, <4>3
    <3> QED
      BY <3>1, <3>2
  <2>8. ASSUME ~dav.pruned, seq < MaxSeq, NEW e \in Euids, dav'.view[e] # 0
        PROVE  <<DavRoom, dav'.view[e]>> \in pointers' \/ Hears(e)'
    <3>1. CASE e = g
      BY <1>1, <2>4, <2>5, <2>8, <3>1
    <3>2. CASE e # g
      BY <1>1, <2>5, <2>6, <2>8, <3>2 DEF DavHears
    <3> QED
      BY <3>1, <3>2
  <2>9. Settled(dav.token)' /\ Settled(dav.now)'
    BY <1>1, <2>3 DEF DavHears, Settled, Holding
  <2> QED
    BY <1>1, <2>3, <2>7, <2>8, <2>9 DEF DavHears
<1>6. CASE DavSyncDone
  <2>1. dav' = [dav EXCEPT !.pc = "idle", !.token = dav.now, !.now = 0] /\ dav.pc = "load" /\ dav.pend = {}
    BY <1>6 DEF DavSyncDone
  <2>2. /\ dav'.pruned = dav.pruned /\ dav'.token = dav.now /\ dav'.now = 0 /\ dav'.pc = "idle" /\ dav'.view = dav.view
    BY <1>0, <2>1 DEF DavStates
  <2>3. Settled(dav.token)' /\ Settled(dav.now)'
    BY <1>1, <2>2, ZeroIsSettled DEF DavHears, Settled, Holding
  <2>4. \A e \in Euids : Hears(e) => Hears(e)'
    BY <1>1, <2>1, <2>2 DEF Hears, Removing
  <2> QED
    BY <1>1, <2>2, <2>3, <2>4 DEF DavHears, Settled, Holding
<1> QED
  BY <1>3, <1>4, <1>5, <1>6 DEF DavStep

LEMMA HearsPrune ==
    ASSUME ClientTypes, DavHears, NEW cutoff \in Nums, PruneTombstones(cutoff)
    PROVE  DavHears'
<1>1. /\ UNCHANGED <<seq, messages, euid, pointers, job>> /\ dav.pc \in {"off", "idle"}
      /\ \A a \in Actors : job[a].pc = "idle"
  BY DEF PruneTombstones, StoreQuiet
<1>2. /\ dav'.pc = dav.pc /\ dav'.token = dav.token /\ dav'.now = dav.now
      /\ dav'.pend = dav.pend /\ dav'.view = dav.view /\ (dav.pruned => dav'.pruned)
  BY ClientsBeside
<1>3. ASSUME ~dav'.pruned, NEW t \in tombs, t.room = DavRoom, t.seq > dav.token PROVE t \in tombs'
  <2>1. PICK b \in BOOLEAN : b = (dav.pruned \/ \E u \in tombs \ tombs' : u.room = DavRoom /\ u.seq > dav.token)
    OBVIOUS
  <2>2. dav' = [dav EXCEPT !.pruned = b]
    BY <2>1 DEF PruneTombstones
  <2>3. ~b
    BY <1>3, <2>2 DEF ClientTypes, DavStates
  <2> QED
    BY <1>3, <2>1, <2>3
<1>4. ASSUME ~dav'.pruned, NEW e \in Euids, Hears(e) PROVE Hears(e)'
  <2>1. PICK t \in tombs : t.room = DavRoom /\ t.euid = e /\ t.seq > dav.token
    BY <1>1, <1>4 DEF Hears, Removing
  <2>2. t \in tombs'
    BY <1>3, <1>4, <2>1
  <2> QED
    BY <1>1, <1>2, <2>1, <2>2 DEF Hears
<1> QED
  BY <1>1, <1>2, <1>4 DEF DavHears, Settled, Holding

LEMMA HearsFirst == SyncInit => DavHears
<1> SUFFICES ASSUME SyncInit PROVE DavHears
  OBVIOUS
<1>1. FilingInv /\ WriterInv /\ dav.token = 0 /\ dav.now = 0 /\ \A e \in Euids : dav.view[e] = 0
  BY SyncFirst, WriterFirst DEF SyncInit
<1> QED
  BY <1>1, ZeroIsSettled DEF DavHears

LEMMA HearsStep ==
    ASSUME FilingInv, ClientTypes, WriterInv, OneWriter, DavHears, [SyncNext]_allVars
    PROVE  DavHears'
<1>0. TypeInv
  BY DEF FilingInv, NumbersInv
<1>1. CASE StoreStep
  BY <1>1, HearsStoreStep
<1>2. CASE DavStep
  BY <1>2, HearsDavStep
<1>3. CASE UNCHANGED <<store, dav>>
  <2>1. UNCHANGED <<seq, messages, euid, pointers, tombs, job, dav>>
    BY <1>3 DEF store
  <2>2. \A e \in Euids : Hears(e) => Hears(e)'
    BY <2>1 DEF Hears, Removing
  <2> QED
    BY <2>1, <2>2 DEF DavHears, Settled, Holding
<1>4. ASSUME NEW cutoff \in Nums, PruneTombstones(cutoff) PROVE DavHears'
  BY <1>4, HearsPrune
<1>5. CASE JmapStep
  BY <1>0, <1>3, <1>5, JmapStepTypes
<1>6. CASE UNCHANGED allVars
  BY <1>3, <1>6 DEF allVars, clients
<1> QED
  BY <1>1, <1>2, <1>4, <1>5, <1>6 DEF SyncNext

(* With one connection that writes and does not die half way, a DAV client  *)
(* that the server has nothing to report to holds exactly the collection:   *)
(* also nothing that was deleted, moved out or replaced, whatever the       *)
(* connection did between the steps of its requests.                        *)
THEOREM DavConverges == OneWriter => (SyncSpec => []DavSyncConverges)
<1> SUFFICES ASSUME OneWriter PROVE SyncSpec => []DavSyncConverges
  OBVIOUS
<1>1. ASSUME FilingInv, ClientTypes, DavHolds, DavHears, WriterInv PROVE DavSyncConverges
  <2> SUFFICES ASSUME ~dav.behind, ~dav.pruned, StoreQuiet, seq < MaxSeq, dav.pc = "idle", DavChanged(dav.token) = {},
                      NEW e \in Euids
               PROVE  dav.view[e] = FindByEuid(DavRoom, e)
    BY DEF DavSyncConverges
  <2>0. /\ MaxSeq \in Nat /\ dav.token \in 0..MaxSeq /\ dav.view[e] \in 0..MaxSeq /\ DavRoom \in Rooms
        /\ TypeInv
    BY <1>1, BoundAssumption, SyncAssumption DEF ClientTypes, DavStates, FilingInv, NumbersInv
  <2>1. PICK n \in 0..MaxSeq : n = FindByEuid(DavRoom, e)
    BY FindByEuidType
  <2>2. PICK v \in 0..MaxSeq : v = dav.view[e]
    BY <2>0
  <2>3. v >= n
    <3>1. CASE n = 0
      BY <2>0, <3>1
    <3>2. CASE n # 0
      <4>1. n \in RoomMessages(DavRoom) \cap messages /\ euid[n] = e
        BY <2>0, <2>1, <3>2, FoundIsSaved DEF Saved, RoomMessages
      <4>2. n <= dav.token
        <5>1. SUFFICES ASSUME n > dav.token PROVE FALSE
          BY <2>0
        <5>2. <<n, e>> \in RoomChangesSince(DavRoom, dav.token)
          BY <4>1, <5>1 DEF RoomChangesSince
        <5>3. <<n, e>>[2] = e
          OBVIOUS
        <5> QED
          BY <5>2, <5>3 DEF DavChanged
      <4> QED
        BY <1>1, <2>2, <4>1, <4>2 DEF DavHolds
    <3> QED
      BY <3>1, <3>2
  <2>4. v # 0 => n >= v
    <3>1. SUFFICES ASSUME v # 0 PROVE n >= v
      OBVIOUS
    <3>2. euid[v] = e /\ (<<DavRoom, v>> \in pointers \/ Hears(e))
      BY <1>1, <2>2, <3>1 DEF DavHears
    <3>3. ~Hears(e)
      <4>1. ASSUME NEW t \in tombs, t.room = DavRoom, t.euid = e, t.seq > dav.token PROVE FALSE
        <5>1. <<t.num, t.euid>> \in RoomChangesSince(DavRoom, dav.token)
          BY <4>1 DEF RoomChangesSince
        <5>2. <<t.num, t.euid>>[2] = e
          BY <4>1
        <5> QED
          BY <5>1, <5>2 DEF DavChanged
      <4> QED
        BY <4>1 DEF Hears, Removing, StoreQuiet
    <3>4. v \in Nums /\ <<DavRoom, v>> \in pointers /\ <<DavRoom, v>>[2] = v
      BY <2>0, <3>1, <3>2, <3>3 DEF Nums
    <3>5. v \in RoomMessages(DavRoom) \cap messages
      BY <1>1, <3>4 DEF WriterInv, RoomMessages
    <3> QED
      BY <2>0, <2>1, <3>2, <3>5, FoundIsNewest
  <2>5. v = n
    BY <2>0, <2>3, <2>4
  <2> QED
    BY <2>1, <2>2, <2>5
<1>2. SyncInit => FilingInv /\ ClientTypes /\ DavHolds /\ DavHears /\ WriterInv
  BY SyncFirst, HoldsFirst, HearsFirst, WriterFirst DEF SyncInit
<1>3. FilingInv /\ ClientTypes /\ DavHolds /\ DavHears /\ WriterInv /\ [SyncNext]_allVars
         => FilingInv' /\ ClientTypes' /\ DavHolds' /\ DavHears' /\ WriterInv'
  BY FilingSyncStep, HoldsStep, HearsStep, WriterSyncStep
<1> QED
  BY <1>1, <1>2, <1>3, PTL DEF SyncSpec

-----------------------------------------------------------------------------
(* Email/changes *)

Filed(n) == \E r \in Rooms : <<r, n>> \in pointers

JmapHears ==
    /\ Settled(jmap.state)
    /\ ~jmap.raced /\ jmap.pc # "off" =>
          \A n \in Nums : Filed(n) => n \in jmap.view \/ (jmap.pc = "idle" /\ n > jmap.state)
    /\ ~jmap.raced /\ jmap.pc # "off" /\ seq < MaxSeq =>
          \A n \in jmap.view : \/ Filed(n)
                               \/ jmap.pc = "idle" /\ \E t \in tombs : t.num = n /\ t.seq > jmap.state
                               \/ \E a \in Actors : Removing(a, n)

LEMMA FiledEmailsExist ==
    ASSUME WriterInv, NEW n
    PROVE  EmailExists(n) <=> Filed(n)
<1>1. ASSUME NEW r \in Rooms, <<r, n>> \in pointers PROVE n \in messages
  BY <1>1, <<r, n>>[2] = n DEF WriterInv
<1> QED
  BY <1>1 DEF EmailExists, Filed

LEMMA JmapStoreStep ==
    ASSUME FilingInv, ClientTypes, WriterInv, OneWriter, JmapHears, StoreStep
    PROVE  JmapHears'
<1>0. /\ Next /\ MaxSeq \in Nat /\ TypeInv
      /\ jmap'.pc = jmap.pc /\ jmap'.state = jmap.state /\ jmap'.view = jmap.view
      /\ jmap.raced => jmap'.raced
  BY ClientsBeside, BoundAssumption DEF StoreStep, FilingInv, NumbersInv
<1>1. jmap.state \in Nat /\ jmap.view \subseteq Nums /\ jmap.pc \in {"off", "idle", "state"}
  BY <1>0 DEF ClientTypes, JmapStates
<1>2. Settled(jmap.state)'
  <2>1. PICK n \in Nat : n = jmap.state
    BY <1>1
  <2>2. Settled(n)'
    BY <1>0, <2>1, SettledStays DEF JmapHears
  <2> QED
    BY <1>0, <2>1, <2>2
<1>3. jmap.pc = "state" /\ ~jmap'.raced => UNCHANGED <<pointers, tombs>>
  <2>1. PICK b \in BOOLEAN : b = (jmap.raced \/ (jmap.pc = "state" /\ (pointers' # pointers \/ tombs' # tombs)))
    OBVIOUS
  <2>2. jmap' = [jmap EXCEPT !.raced = b]
    BY <2>1 DEF StoreStep
  <2>3. ~jmap'.raced => ~b
    BY <2>2 DEF ClientTypes, JmapStates
  <2> QED
    BY <2>1, <2>3
<1>4. PICK a \in Actors : Acts(a) /\ WriterOK(job[a])
  BY <1>0, StepEffects DEF OneWriter, Dies, WriterInv
<1>5. ASSUME ~jmap'.raced, jmap'.pc # "off", NEW n \in Nums, Filed(n)'
      PROVE  n \in jmap'.view \/ (jmap'.pc = "idle" /\ n > jmap'.state)
  <2>1. ~jmap.raced /\ jmap.pc # "off"
    BY <1>0, <1>5
  <2>2. CASE Filed(n)
    BY <1>0, <2>1, <2>2 DEF JmapHears
  <2>3. CASE ~Filed(n)
    <3>1. PICK r \in Rooms : <<r, n>> \in pointers' \ pointers
      BY <1>5, <2>3 DEF Filed
    <3>2. Files(job[a], job'[a]) \/ Commits(job[a], job'[a])
      BY <1>4, <3>1 DEF Acts, Effect, Loosens, Takes, Looks, Drops, Counts, Buries, Picks, Allocates, Writes, Still
    <3>3. ~Files(job[a], job'[a])
      <4>1. SUFFICES ASSUME Files(job[a], job'[a]) PROVE FALSE
        OBVIOUS
      <4>2. n = job[a].num /\ <<job[a].room, job[a].num>> \in pointers /\ job[a].room \in Rooms
        BY <1>0, <1>4, <3>1, <4>1 DEF Files, WriterOK, TypeInv, TypeOK
      <4> QED
        BY <2>3, <4>2 DEF Filed
    <3>4. n = job[a].made /\ job[a].made = seq /\ Holding
      BY <1>4, <3>1, <3>2, <3>3, HoldingAlone DEF Commits, WriterOK, Inserting
    <3>5. jmap.state < n
      BY <3>4 DEF JmapHears, Settled
    <3>6. n > jmap.state
      BY <1>0, <1>1, <3>4, <3>5, NaturalNumbers
    <3>7. jmap.pc = "idle"
      BY <1>1, <1>3, <1>5, <2>1, <3>1
    <3> QED
      BY <1>0, <3>6, <3>7
  <2> QED
    BY <2>2, <2>3
<1>6. ASSUME ~jmap'.raced, jmap'.pc # "off", seq' < MaxSeq, NEW n \in jmap'.view, ~Filed(n)'
      PROVE  \/ jmap'.pc = "idle" /\ \E t \in tombs' : t.num = n /\ t.seq > jmap'.state
             \/ \E b \in Actors : Removing(b, n)'
  <2>1. n \in Nums /\ n \in jmap.view /\ ~jmap.raced /\ jmap.pc # "off"
    BY <1>0, <1>1, <1>6
  <2>2. /\ seq < MaxSeq /\ tombs \subseteq tombs'
        /\ \A p \in pointers \ pointers' :
                 \E b \in Actors : Removing(b, p[2])' /\ job'[b].room = p[1]
        /\ \A b \in Actors, m \in Nums : Removing(b, m) =>
                 \/ Removing(b, m)' /\ job'[b].room = job[b].room
                 \/ \E t \in tombs' \ tombs : /\ t.room = job[b].room /\ t.num = m /\ t.euid = euid[m]
                                              /\ t.seq = seq /\ Holding
    BY <1>0, <1>6, RemovalGoesOn
  <2>3. CASE Filed(n)
    <3>1. PICK r \in Rooms : <<r, n>> \in pointers \ pointers'
      BY <1>6, <2>3 DEF Filed
    <3>2. <<r, n>>[2] = n
      OBVIOUS
    <3> QED
      BY <2>2, <3>1, <3>2
  <2>4. CASE ~Filed(n)
    <3>1. \/ jmap.pc = "idle" /\ \E t \in tombs : t.num = n /\ t.seq > jmap.state
          \/ \E b \in Actors : Removing(b, n)
      BY <2>1, <2>2, <2>4 DEF JmapHears
    <3>2. CASE jmap.pc = "idle" /\ \E t \in tombs : t.num = n /\ t.seq > jmap.state
      BY <1>0, <2>2, <3>2
    <3>3. ASSUME NEW b \in Actors, Removing(b, n)
          PROVE  \/ jmap'.pc = "idle" /\ \E t \in tombs' : t.num = n /\ t.seq > jmap'.state
                 \/ \E c \in Actors : Removing(c, n)'
      <4>1. ASSUME NEW t \in tombs' \ tombs, t.num = n, t.seq = seq, Holding
            PROVE  jmap'.pc = "idle" /\ t.num = n /\ t.seq > jmap'.state
        <5>1. jmap.state < seq
          BY <4>1 DEF JmapHears, Settled
        <5>2. seq > jmap.state
          BY <1>0, <1>1, <5>1, NaturalNumbers
        <5>3. jmap.pc = "idle"
          BY <1>1, <1>3, <1>6, <2>1, <4>1
        <5> QED
          BY <1>0, <4>1, <5>2, <5>3
      <4> QED
        BY <2>1, <2>2, <3>3, <4>1
    <3> QED
      BY <3>1, <3>2, <3>3
  <2> QED
    BY <2>3, <2>4
<1> QED
  BY <1>2, <1>5, <1>6 DEF JmapHears

LEMMA JmapOwnStep ==
    ASSUME FilingInv, ClientTypes, WriterInv, JmapHears, JmapStep
    PROVE  JmapHears'
<1>0. /\ TypeInv /\ jmap \in JmapStates /\ UNCHANGED <<store, dav>>
      /\ jmap.view \in SUBSET Nums /\ jmap.state \in Nat /\ Nums \subseteq Nat
  BY JmapStepTypes, BoundAssumption DEF FilingInv, NumbersInv, ClientTypes, JmapStates, Nums
<1>1. UNCHANGED <<seq, messages, euid, pointers, tombs, job>>
  BY <1>0 DEF store
<1>2. /\ \A n : Settled(n) => Settled(n)'
      /\ \A n : Filed(n)' <=> Filed(n)
      /\ \A n, a : Removing(a, n) => Removing(a, n)'
  BY <1>1 DEF Settled, Holding, Filed, Removing
<1>3. CASE JmapDiff
  <2>1. PICK changed \in SUBSET Nums : changed = JmapChanged(jmap.state)
    BY DEF JmapChanged
  <2>2. PICK v \in SUBSET Nums : v = (jmap.view \ changed) \cup {n \in changed : EmailExists(n)}
    BY <1>0
  <2>3. jmap' = [jmap EXCEPT !.pc = "state", !.view = v] /\ jmap.pc = "idle"
    BY <1>3, <2>1, <2>2 DEF JmapDiff
  <2>4. jmap'.pc = "state" /\ jmap'.view = v /\ jmap'.state = jmap.state /\ jmap'.raced = jmap.raced
    BY <1>0, <2>3 DEF JmapStates
  <2>5. v = (jmap.view \ changed) \cup {n \in changed : Filed(n)}
    BY <2>2, FiledEmailsExist
  <2>6. ASSUME NEW r \in Rooms, NEW n \in Nums, <<r, n>> \in pointers, n > jmap.state PROVE n \in changed
    <3>1. n \in RoomMessages(r) \cap messages
      BY <2>6, <<r, n>>[2] = n DEF RoomMessages, WriterInv
    <3>2. <<n, euid[n]>> \in RoomChangesSince(r, jmap.state)
      BY <2>6, <3>1 DEF RoomChangesSince
    <3>3. <<n, euid[n]>>[1] = n
      OBVIOUS
    <3> QED
      BY <2>1, <3>2, <3>3 DEF JmapChanged
  <2>7. ASSUME NEW t \in tombs, t.seq > jmap.state, t.num \in Nums PROVE t.num \in changed
    <3>1. t.room \in Rooms
      BY <1>0 DEF TypeInv, TypeOK, Tombstones
    <3>2. <<t.num, t.euid>> \in RoomChangesSince(t.room, jmap.state)
      BY <2>7 DEF RoomChangesSince
    <3>3. <<t.num, t.euid>>[1] = t.num
      OBVIOUS
    <3> QED
      BY <2>1, <2>7, <3>1, <3>2, <3>3 DEF JmapChanged
  <2>8. ASSUME ~jmap.raced, NEW n \in Nums, Filed(n) PROVE n \in v
    <3>1. n \in jmap.view \/ n > jmap.state
      BY <2>3, <2>8 DEF JmapHears
    <3>2. n > jmap.state => n \in changed
      BY <2>6, <2>8 DEF Filed
    <3> QED
      BY <2>5, <2>8, <3>1, <3>2
  <2>9. ASSUME ~jmap.raced, seq < MaxSeq, NEW n \in v, ~Filed(n) PROVE \E b \in Actors : Removing(b, n)
    <3>1. n \in jmap.view /\ n \notin changed /\ n \in Nums
      BY <2>5, <2>9
    <3>2. ~\E t \in tombs : t.num = n /\ t.seq > jmap.state
      BY <2>7, <3>1
    <3> QED
      BY <2>3, <2>9, <3>1, <3>2 DEF JmapHears
  <2>10. Settled(jmap.state)'
    BY <1>1, <2>4 DEF JmapHears, Settled, Holding
  <2> QED
    BY <1>1, <1>2, <2>4, <2>8, <2>9, <2>10 DEF JmapHears
<1>4. CASE JmapNewState
  <2>1. PICK s \in 0..MaxSeq : s = AccountState /\ Settled(s)
    BY <1>0, StateIsGreatest, TokenIsSettled
  <2>2. jmap' = [jmap EXCEPT !.pc = "idle", !.state = s] /\ jmap.pc = "state"
    BY <1>4, <2>1 DEF JmapNewState
  <2>3. jmap'.pc = "idle" /\ jmap'.view = jmap.view /\ jmap'.state = s /\ jmap'.raced = jmap.raced
    BY <1>0, <2>2 DEF JmapStates
  <2>4. Settled(jmap.state)'
    BY <1>1, <2>1, <2>3 DEF Settled, Holding
  <2> QED
    BY <1>1, <1>2, <2>2, <2>3, <2>4 DEF JmapHears
<1> QED
  BY <1>3, <1>4 DEF JmapStep

LEMMA JmapPrune ==
    ASSUME ClientTypes, JmapHears, NEW cutoff \in Nums, PruneTombstones(cutoff)
    PROVE  JmapHears'
<1>1. /\ UNCHANGED <<seq, messages, euid, pointers, job>> /\ jmap.pc \in {"off", "idle"}
      /\ \A a \in Actors : job[a].pc = "idle"
  BY DEF PruneTombstones, StoreQuiet
<1>2. /\ jmap'.pc = jmap.pc /\ jmap'.state = jmap.state /\ jmap'.view = jmap.view
      /\ jmap.raced => jmap'.raced
  BY ClientsBeside
<1>3. ASSUME ~jmap'.raced, NEW t \in tombs, t.seq > jmap.state PROVE t \in tombs'
  <2>1. PICK b \in BOOLEAN : b = (jmap.raced \/ \E u \in tombs \ tombs' : u.seq > jmap.state)
    OBVIOUS
  <2>2. jmap' = [jmap EXCEPT !.raced = b]
    BY <2>1 DEF PruneTombstones
  <2>3. ~b
    BY <1>3, <2>2 DEF ClientTypes, JmapStates
  <2> QED
    BY <1>3, <2>1, <2>3
<1>4. Settled(jmap.state)'
  BY <1>1, <1>2 DEF JmapHears, Settled, Holding
<1>5. ASSUME ~jmap'.raced, jmap'.pc # "off", seq < MaxSeq, NEW n \in jmap.view, ~Filed(n)
      PROVE  jmap'.pc = "idle" /\ \E t \in tombs' : t.num = n /\ t.seq > jmap'.state
  <2>1. PICK t \in tombs : t.num = n /\ t.seq > jmap.state
    BY <1>1, <1>2, <1>5 DEF JmapHears, Removing
  <2> QED
    BY <1>1, <1>2, <1>3, <1>5, <2>1
<1>6. \A n : Filed(n)' <=> Filed(n)
  BY <1>1 DEF Filed
<1> QED
  BY <1>1, <1>2, <1>4, <1>5, <1>6 DEF JmapHears

LEMMA JmapHearsStep ==
    ASSUME FilingInv, ClientTypes, WriterInv, OneWriter, JmapHears, [SyncNext]_allVars
    PROVE  JmapHears'
<1>0. TypeInv
  BY DEF FilingInv, NumbersInv
<1>1. CASE StoreStep
  BY <1>1, JmapStoreStep
<1>2. CASE JmapStep
  BY <1>2, JmapOwnStep
<1>3. CASE UNCHANGED <<store, jmap>>
  <2>1. UNCHANGED <<seq, pointers, tombs, job, jmap>>
    BY <1>3 DEF store
  <2> QED
    BY <2>1 DEF JmapHears, Settled, Holding, Filed, Removing
<1>4. ASSUME NEW cutoff \in Nums, PruneTombstones(cutoff) PROVE JmapHears'
  BY <1>4, JmapPrune
<1>5. CASE DavStep
  BY <1>0, <1>3, <1>5, DavStepTypes
<1>6. CASE UNCHANGED allVars
  BY <1>3, <1>6 DEF allVars, clients
<1> QED
  BY <1>1, <1>2, <1>4, <1>5, <1>6 DEF SyncNext

LEMMA JmapFirst == SyncInit => JmapHears
<1> SUFFICES ASSUME SyncInit PROVE JmapHears
  OBVIOUS
<1>1. FilingInv /\ WriterInv /\ jmap.state = 0 /\ jmap.view = {} /\ pointers = {}
  BY SyncFirst, WriterFirst DEF SyncInit, Init
<1> QED
  BY <1>1, ZeroIsSettled DEF JmapHears, Filed

(* With one connection that writes and does not die half way, a JMAP client  *)
(* never overtaken inside Email/changes, nor away longer than tombstones are *)
(* kept, believes in exactly the emails there are once the server has        *)
(* nothing more to report, over all rooms and whatever is moved between them.*)
THEOREM JmapConvergence == OneWriter => (SyncSpec => []JmapConvergesUnlessRaced)
<1> SUFFICES ASSUME OneWriter PROVE SyncSpec => []JmapConvergesUnlessRaced
  OBVIOUS
<1>1. ASSUME FilingInv, ClientTypes, JmapHears, WriterInv PROVE JmapConvergesUnlessRaced
  <2> SUFFICES ASSUME ~jmap.raced, StoreQuiet, seq < MaxSeq, jmap.pc = "idle", JmapChanged(jmap.state) = {},
                      NEW n \in Nums
               PROVE  n \in jmap.view <=> EmailExists(n)
    BY <1>1 DEF JmapConvergesUnlessRaced, ClientTypes, JmapStates
  <2>1. ASSUME NEW r \in Rooms, <<r, n>> \in pointers, n > jmap.state PROVE FALSE
    <3>1. n \in RoomMessages(r) \cap messages
      BY <1>1, <2>1, <<r, n>>[2] = n DEF RoomMessages, WriterInv
    <3>2. <<n, euid[n]>> \in RoomChangesSince(r, jmap.state) /\ <<n, euid[n]>>[1] = n
      BY <2>1, <3>1 DEF RoomChangesSince
    <3> QED
      BY <3>2 DEF JmapChanged
  <2>2. ASSUME NEW t \in tombs, t.seq > jmap.state, t.num = n PROVE FALSE
    <3>1. t.room \in Rooms
      BY <1>1 DEF FilingInv, NumbersInv, TypeInv, TypeOK, Tombstones
    <3>2. <<t.num, t.euid>> \in RoomChangesSince(t.room, jmap.state) /\ <<t.num, t.euid>>[1] = n
      BY <2>2 DEF RoomChangesSince
    <3> QED
      BY <3>1, <3>2 DEF JmapChanged
  <2>3. Filed(n) => n \in jmap.view
    BY <1>1, <2>1 DEF JmapHears, Filed
  <2>4. n \in jmap.view => Filed(n)
    BY <1>1, <2>2 DEF JmapHears, Removing, StoreQuiet
  <2> QED
    BY <1>1, <2>3, <2>4, FiledEmailsExist
<1>2. SyncInit => FilingInv /\ ClientTypes /\ JmapHears /\ WriterInv
  BY SyncFirst, JmapFirst, WriterFirst DEF SyncInit
<1>3. FilingInv /\ ClientTypes /\ JmapHears /\ WriterInv /\ [SyncNext]_allVars
         => FilingInv' /\ ClientTypes' /\ JmapHears' /\ WriterInv'
  BY FilingSyncStep, JmapHearsStep, WriterSyncStep
<1> QED
  BY <1>1, <1>2, <1>3, PTL DEF SyncSpec
=============================================================================
