------------------------------- MODULE Rooms --------------------------------
(***************************************************************************)
(* Rooms and floors come and go while mail is delivered into them. One     *)
(* user: the number citadel_users gives the name, the folders that deliver- *)
(* ies create on demand (GetOrCreateUserRoom, called for a keep, a fileinto *)
(* or a quarantine folder), and the administrators and IMAP clients that    *)
(* rename, move and delete rooms. Every statement commits by itself. A room *)
(* number comes from a sequence and is used once.                           *)
(***************************************************************************)
EXTENDS Naturals, FiniteSets

CONSTANTS Carriers,     \* connections
          Parcels,      \* messages
          FolderNames,      \* the folders mail is filed into
          RoomNames,    \* the names a room may be given
          MaxRooms, MaxUserNum,   \* bounds: values of the two sequences
          MaxFloor      \* bound: floors created

ASSUME RoomsBounds == {MaxRooms, MaxUserNum, MaxFloor} \subseteq Nat

VARIABLES usernum,   \* the user's row in citadel_users; 0 when there is none
          userSeq,
          place,     \* citadel_rooms, by number
          filed,     \* citadel_room_msgs
          floors, floorSeq,
          accepted,  \* messages whose sender was told 250
          carrier,   \* what each connection is doing
          excuse     \* history: messages lost to a crossing, rooms that outlived their floor, ...
rvars == <<usernum, userSeq, place, filed, floors, floorSeq, accepted, carrier, excuse>>

RoomNums == 1..MaxRooms
NoPlace == [st |-> "unused", owner |-> 0, name |-> "", floor |-> 0]
Free == [pc |-> "free", msg |-> "", name |-> "", num |-> 0, at |-> 0, floor |-> 0]

RoomsInit ==
    /\ usernum = 0 /\ userSeq = 0
    /\ place = [r \in RoomNums |-> NoPlace]
    /\ filed = {}
    /\ floors = {0} /\ floorSeq = 0
    /\ accepted = {}
    /\ carrier = [c \in Carriers |-> Free]
    /\ excuse = [unfiled |-> {}, deleted |-> {}, orphan |-> {}, astray |-> {}]

Turn(c, j) == carrier' = [carrier EXCEPT ![c] = j]
Standing == {r \in RoomNums : place[r].st = "on"}
Keyed(owner, name) == {r \in Standing : place[r].owner = owner /\ place[r].name = name}
NextRoom(r) == place[r].st = "unused" /\ \A q \in RoomNums : q < r => place[q].st # "unused"
Delivering(m) == \E c \in Carriers : carrier[c].msg = m

-----------------------------------------------------------------------------
(* LocalDeliver, for one folder of one user *)

LocalDeliver(c, m, f) ==
    /\ carrier[c].pc = "free" /\ m \notin accepted /\ ~Delivering(m)
    /\ Turn(c, [Free EXCEPT !.pc = "assign", !.msg = m, !.name = f])
    /\ UNCHANGED <<usernum, userSeq, place, filed, floors, floorSeq, accepted, excuse>>

(* GetOrAssignUserNum: the number there is, or the next one ... *)
AssignRead(c) ==
    LET j == carrier[c] IN
    /\ j.pc = "assign"
    /\ IF usernum > 0
       THEN Turn(c, [j EXCEPT !.pc = "find", !.num = usernum]) /\ UNCHANGED userSeq
       ELSE /\ userSeq < MaxUserNum
            /\ userSeq' = userSeq + 1
            /\ Turn(c, [j EXCEPT !.pc = "insert user", !.num = userSeq + 1])
    /\ UNCHANGED <<usernum, place, filed, floors, floorSeq, accepted, excuse>>

(* ... is offered with INSERT OR IGNORE ... *)
AssignInsert(c) ==
    LET j == carrier[c] IN
    /\ j.pc = "insert user"
    /\ usernum' = IF usernum = 0 THEN j.num ELSE usernum
    /\ Turn(c, [j EXCEPT !.pc = "settle"])
    /\ UNCHANGED <<userSeq, place, filed, floors, floorSeq, accepted, excuse>>

(* A wrong end: the number that was offered is taken to be the user's. *)
AssignSettledNot(c) ==
    /\ carrier[c].pc = "settle"
    /\ Turn(c, [carrier[c] EXCEPT !.pc = "find"])
    /\ UNCHANGED <<usernum, userSeq, place, filed, floors, floorSeq, accepted, excuse>>

(* ... and read back, since another connection may have been first. *)
AssignSettled(c) ==
    /\ carrier[c].pc = "settle"
    /\ Turn(c, [carrier[c] EXCEPT !.pc = "find", !.num = usernum])
    /\ UNCHANGED <<usernum, userSeq, place, filed, floors, floorSeq, accepted, excuse>>

(* GetOrCreateUserRoom: the room of that name, or a number for a new one. *)
FindRoom(c) ==
    LET j == carrier[c] IN
    /\ j.pc = "find"
    /\ \/ \E r \in Keyed(j.num, j.name) : Turn(c, [j EXCEPT !.pc = "insert", !.at = r]) /\ UNCHANGED place
       \/ /\ Keyed(j.num, j.name) = {}
          /\ \E r \in RoomNums : /\ NextRoom(r)
                                 /\ place' = [place EXCEPT ![r].st = "taken"]
                                 /\ Turn(c, [j EXCEPT !.pc = "create", !.at = r])
    /\ UNCHANGED <<usernum, userSeq, filed, floors, floorSeq, accepted, excuse>>

(* CreateRoom: citadel_rooms.name is unique. When somebody else was first   *)
(* the answer is -1, which add_room passes over; with no room at all        *)
(* LocalDeliver has nothing to store, and reports success.                  *)
CreateRoom(c) ==
    LET j == carrier[c] IN
    /\ j.pc = "create"
    /\ IF Keyed(j.num, j.name) = {}
       THEN /\ place' = [place EXCEPT ![j.at] = [st |-> "on", owner |-> j.num, name |-> j.name, floor |-> 0]]
            /\ Turn(c, [j EXCEPT !.pc = "insert"])
            /\ UNCHANGED <<accepted, excuse>>
       ELSE /\ accepted' = accepted \cup {j.msg}
            /\ excuse' = [excuse EXCEPT !.unfiled = @ \cup {j.msg}]
            /\ Turn(c, Free)
            /\ UNCHANGED place
    /\ UNCHANGED <<usernum, userSeq, filed, floors, floorSeq>>

(* InsertMessage does not ask whether the room still exists. *)
Falling(r) == place[r].st = "gone" \/ \E c \in Carriers : carrier[c].at = r /\ carrier[c].pc = "kill row"
InsertMessage(c) ==
    LET j == carrier[c] IN
    /\ j.pc = "insert"
    /\ filed' = filed \cup {<<j.at, j.msg>>}
    /\ accepted' = accepted \cup {j.msg}
    /\ excuse' = [excuse EXCEPT !.orphan = IF Falling(j.at) THEN @ \cup {j.at} ELSE @]
    /\ Turn(c, Free)
    /\ UNCHANGED <<usernum, userSeq, place, floors, floorSeq>>

(* ... and when it fails the sender tries again. *)
InsertFails(c) ==
    /\ carrier[c].pc = "insert"
    /\ Turn(c, Free)
    /\ UNCHANGED <<usernum, userSeq, place, filed, floors, floorSeq, accepted, excuse>>

-----------------------------------------------------------------------------
(* KillRoom, from IMAP's DELETE and the administrators' pages *)

KillRoom(c, r) ==
    /\ carrier[c].pc = "free" /\ r \in Standing
    /\ Turn(c, [Free EXCEPT !.pc = "kill msgs", !.at = r])
    /\ UNCHANGED <<usernum, userSeq, place, filed, floors, floorSeq, accepted, excuse>>

(* The hooks of the lists and the feeds, then the pointers; the read state, access lists, *)
(* tombstones, names and locks, which no action here writes, go next ...                  *)
KillPointers(c) ==
    LET r == carrier[c].at
        here == {m \in Parcels : <<r, m>> \in filed}
    IN  /\ carrier[c].pc = "kill msgs"
        /\ filed' = filed \ {<<r, m>> : m \in here}
        /\ excuse' = [excuse EXCEPT !.deleted = @ \cup here]
        /\ Turn(c, [carrier[c] EXCEPT !.pc = "kill row"])
        /\ UNCHANGED <<usernum, userSeq, place, floors, floorSeq, accepted>>

(* ... and the room. *)
KillRow(c) ==
    /\ carrier[c].pc = "kill row"
    /\ place' = [place EXCEPT ![carrier[c].at].st = "gone"]
    /\ Turn(c, Free)
    /\ UNCHANGED <<usernum, userSeq, filed, floors, floorSeq, accepted, excuse>>

-----------------------------------------------------------------------------
(* UpdateRoom: the room and its new floor are looked up, then one UPDATE writes every column. *)

UpdateRoom(c, r, name, f) ==
    /\ carrier[c].pc = "free" /\ r \in Standing /\ (f # place[r].floor => f \in floors)
    /\ Turn(c, [Free EXCEPT !.pc = "update", !.at = r, !.name = name, !.floor = f])
    /\ UNCHANGED <<usernum, userSeq, place, filed, floors, floorSeq, accepted, excuse>>

UpdateRow(c) ==
    LET j == carrier[c]
        ok == place[j.at].st = "on" /\ Keyed(place[j.at].owner, j.name) \subseteq {j.at}
    IN  /\ j.pc = "update"
        /\ place' = IF ok THEN [place EXCEPT ![j.at].name = j.name, ![j.at].floor = j.floor] ELSE place
        /\ excuse' = [excuse EXCEPT !.astray = IF ok /\ j.floor \notin floors THEN @ \cup {j.at} ELSE @]
        /\ Turn(c, Free)
        /\ UNCHANGED <<usernum, userSeq, filed, floors, floorSeq, accepted>>

CreateFloor ==
    /\ floorSeq < MaxFloor
    /\ floorSeq' = floorSeq + 1
    /\ floors' = floors \cup {floorSeq + 1}
    /\ UNCHANGED <<usernum, userSeq, place, filed, accepted, carrier, excuse>>

(* KillFloor refuses a floor that holds rooms, then deletes it. *)
RoomCount(f) == Cardinality({r \in Standing : place[r].floor = f})
KillFloor(c, f) ==
    /\ carrier[c].pc = "free" /\ f # 0 /\ f \in floors /\ RoomCount(f) = 0
    /\ Turn(c, [Free EXCEPT !.pc = "kill floor", !.floor = f])
    /\ UNCHANGED <<usernum, userSeq, place, filed, floors, floorSeq, accepted, excuse>>
KillFloorRow(c) ==
    LET f == carrier[c].floor IN
    /\ carrier[c].pc = "kill floor"
    /\ floors' = floors \ {f}
    /\ excuse' = [excuse EXCEPT !.astray = @ \cup {r \in Standing : place[r].floor = f}]
    /\ Turn(c, Free)
    /\ UNCHANGED <<usernum, userSeq, place, filed, floorSeq, accepted>>

-----------------------------------------------------------------------------
CarrierStep(c) ==
    \/ \E m \in Parcels, f \in FolderNames : LocalDeliver(c, m, f)
    \/ AssignRead(c)
    \/ AssignInsert(c)
    \/ AssignSettled(c)
    \/ FindRoom(c)
    \/ CreateRoom(c)
    \/ InsertMessage(c)
    \/ InsertFails(c)
    \/ \E r \in RoomNums : KillRoom(c, r)
    \/ KillPointers(c)
    \/ KillRow(c)
    \/ \E r \in RoomNums, n \in RoomNames, f \in 0..floorSeq : UpdateRoom(c, r, n, f)
    \/ UpdateRow(c)
    \/ \E f \in floors : KillFloor(c, f)
    \/ KillFloorRow(c)

RoomsNext == CreateFloor \/ \E c \in Carriers : CarrierStep(c)

RoomsSpec == RoomsInit /\ [][RoomsNext]_rvars

-----------------------------------------------------------------------------
(* Well-typed. *)
RoomsTypeOK ==
    /\ usernum \in 0..userSeq /\ userSeq \in 0..MaxUserNum
    /\ \A r \in RoomNums : /\ place[r].st \in {"unused", "taken", "on", "gone"} /\ place[r].owner \in 0..userSeq
                           /\ place[r].floor \in 0..floorSeq
    /\ filed \subseteq RoomNums \X Parcels
    /\ floors \subseteq 0..floorSeq /\ floorSeq \in 0..MaxFloor
    /\ accepted \subseteq Parcels
    /\ \A c \in Carriers : carrier[c].pc \in {"free", "assign", "insert user", "settle", "find", "create", "insert",
                                              "kill msgs", "kill row", "update", "kill floor"}

(* The comment of LocalDeliver says there is nothing to store only when a   *)
(* message was "filtered out, redirected, or rejected"; here none is, so    *)
(* every accepted message has been filed.                                   *)
AcceptedIsFiled ==
    \A m \in accepted : m \in excuse.deleted \/ \E r \in RoomNums : <<r, m>> \in filed

(* An accepted message is in a room its owner can find, which is one under  *)
(* the user's number, unless its room was deleted, or it was filed across    *)
(* or after the deletion, or two deliveries created the folder at once.      *)
AcceptedIsFoundUnlessRaced ==
    \A m \in accepted :
        \/ m \in excuse.unfiled \cup excuse.deleted
        \/ \E r \in RoomNums : /\ <<r, m>> \in filed
                               /\ r \in excuse.orphan \/ (r \in Standing /\ place[r].owner = usernum)

(* Nothing stays under the number of a deleted room, unless it was written  *)
(* after KillRoom had passed its table.                                     *)
NoLeftoversUnlessCrossed ==
    \A r \in RoomNums : place[r].st = "gone" /\ (\E m \in Parcels : <<r, m>> \in filed)
                            => r \in excuse.orphan

(* Every room is on a floor that exists, unless it moved there while the     *)
(* floor was being deleted.                                                 *)
FloorsHoldUnlessCrossed == \A r \in Standing : place[r].floor \in floors \/ r \in excuse.astray

(* The three above: rooms, their contents and their floors stay together.   *)
RoomsAreSound == AcceptedIsFoundUnlessRaced /\ NoLeftoversUnlessCrossed /\ FloorsHoldUnlessCrossed
=============================================================================
