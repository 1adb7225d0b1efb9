----------------------------- MODULE MailAccess -----------------------------
(***************************************************************************)
(* One user's mail read through IMAP and POP3 at once: the sessions of     *)
(* HandleImap (imap) and HandlePop3 (pop3) over the rooms they share.  An  *)
(* IMAP session keeps the message numbers behind its sequence positions    *)
(* and tells the client of changes by untagged responses; `view' is what a *)
(* client makes of them.  A POP3 session works on the maildrop it loaded   *)
(* at login.  A call of the store is one step here (MessageStore has its   *)
(* statements).                                                            *)
(***************************************************************************)
EXTENDS Naturals, Sequences, SequencesExt, FiniteSets

CONSTANTS
    Boxes,          \* the user's rooms
    Inbox,          \* the Mail room, POP3's maildrop
    Imaps, Pops,    \* sessions of each protocol
    MaxNum,         \* bound on citadel_msg_seq
    MaxMail         \* bound on the numbers messages get

ASSUME AccessAssumption == Inbox \in Boxes /\ MaxNum \in Nat /\ MaxMail \in 0..MaxNum

VARIABLES
    num,        \* citadel_msg_seq: numbers of messages and tombstones
    box,        \* citadel_room_msgs
    tombMax,    \* newest citadel_room_tombstones.seq of each room
    flagged,    \* citadel_msg_flags: messages carrying \Deleted
    lastRead,   \* citadel_room_state.last_read of Inbox
    imap, pop,  \* the sessions
    late        \* messages delivered to an idler's room since it idled, to Inbox since a POP3 login

avars == <<num, box, tombMax, flagged, lastRead, imap, pop, late>>

MailNums == 1..MaxMail
ImapFresh == [pc |-> "cmd", tls |-> FALSE, authed |-> FALSE, selected |-> FALSE, room |-> Inbox,
              uids |-> <<>>, view |-> <<>>, token |-> 0]
PopFresh == [pc |-> "cmd", authed |-> FALSE, drop |-> <<>>, gone |-> {}]

Ascending(s) == \A i, j \in DOMAIN s : i < j => s[i] < s[j]

AccessTypeOK ==
    /\ num \in 0..MaxNum
    /\ box \in [Boxes -> SUBSET MailNums] /\ tombMax \in [Boxes -> 0..MaxNum]
    /\ flagged \subseteq MailNums /\ lastRead \in 0..MaxNum
    /\ \A s \in Imaps : /\ imap[s].pc \in {"cmd", "idle", "report", "closed"}
                        /\ imap[s].selected => imap[s].authed
                        /\ Ascending(imap[s].uids)
    /\ \A p \in Pops : /\ pop[p].pc \in {"cmd", "closed"} /\ Ascending(pop[p].drop)
                       /\ pop[p].gone \subseteq Range(pop[p].drop)
    /\ late \in [Imaps \cup Pops -> SUBSET MailNums]

AccessInit ==
    /\ num = 0 /\ box = [b \in Boxes |-> {}] /\ tombMax = [b \in Boxes |-> 0]
    /\ flagged = {} /\ lastRead = 0
    /\ imap = [s \in Imaps |-> ImapFresh] /\ pop = [p \in Pops |-> PopFresh]
    /\ late = [x \in Imaps \cup Pops |-> {}]

store == <<num, box, tombMax, flagged, lastRead>>

ImapIs(s, j) == imap' = [imap EXCEPT ![s] = j]
PopIs(p, j) == pop' = [pop EXCEPT ![p] = j]
Told(s) == imap[s].pc = "cmd" /\ imap[s].authed
InRoom(s) == Told(s) /\ imap[s].selected

-----------------------------------------------------------------------------
(* The store's queries and calls *)

(* Numbers in an order: the i-th is the one with i - 1 before it.  (Sorting *)
(* as the library has it is out of the provers' reach.)                     *)
Listed(S, Before(_, _)) ==
    [i \in 1..Cardinality(S) |-> CHOOSE n \in S : Cardinality({k \in S : Before(k, n)}) = i - 1]

(* Deviation: newest first. *)
RoomUidsNewest(contents) == Listed(contents, >)

RoomUids(contents) == Listed(contents, <)

(* Deviation: the number of messages is taken for the token. *)
RoomChangeTokenCount(b) == Cardinality(box[b])

RoomChangeToken(b) ==
    CHOOSE n \in box[b] \cup {tombMax[b]} : \A k \in box[b] \cup {tombMax[b]} : k <= n

(* InsertMessage: the new message, and who is still to hear of it. *)
Deliver(b) ==
    /\ num < MaxMail
    /\ num' = num + 1
    /\ box' = [box EXCEPT ![b] = @ \cup {num + 1}]
    /\ late' = [x \in Imaps \cup Pops |->
                  IF \/ x \in Imaps /\ imap[x].pc # "cmd" /\ imap[x].selected /\ imap[x].room = b
                     \/ x \in Pops /\ pop[x].authed /\ b = Inbox
                  THEN late[x] \cup {num + 1} ELSE late[x]]

(* DeleteMessage of a set, and MoveMessage's unlink: one tombstone each.    *)
UnlinkAll(b, gone) ==
    LET here == gone \cap box[b] IN
    /\ num + Cardinality(here) <= MaxNum
    /\ num' = num + Cardinality(here)
    /\ box' = [box EXCEPT ![b] = @ \ here]
    /\ tombMax' = [tombMax EXCEPT ![b] = IF here = {} THEN @ ELSE num']

-----------------------------------------------------------------------------
(* IMAP: what the client is told *)

(* Deviation: lowest position first. *)
ExpungeOrderUp(ps) == Listed(ps, <)

(* "EXPUNGE goes first and in descending position order." *)
ExpungeOrder(ps) == Listed(ps, >)

(* A client that is told "k EXPUNGE" drops its k-th message. *)
Dropped(view, ks) ==
    FoldLeft(LAMBDA v, k : IF k \in DOMAIN v THEN RemoveAt(v, k) ELSE v, view, ks)

(* One that is told "n EXISTS" fetches the positions it does not know. *)
Grown(view, now) == view \o SubSeq(now, Len(view) + 1, Len(now))

(* ReportChanges: the session and the client's view after it.               *)
ReportChanges(j) ==
    LET now == RoomUids(box[j.room])
        gone == {i \in DOMAIN j.uids : j.uids[i] \notin box[j.room]}
        left == Dropped(j.view, ExpungeOrder(gone))
    IN  [j EXCEPT !.uids = now,
                  !.view = IF Len(now) # Len(j.uids) - Cardinality(gone) THEN Grown(left, now) ELSE left]

-----------------------------------------------------------------------------
(* IMAP: commands *)

(* STARTTLS forgets the session. *)
ImapStartTls(s) ==
    /\ imap[s].pc = "cmd" /\ ~imap[s].tls
    /\ ImapIs(s, [ImapFresh EXCEPT !.tls = TRUE])
    /\ UNCHANGED <<store, pop, late>>

(* LOGIN or AUTHENTICATE that succeeds; LOGIN is also taken again later. *)
ImapLogin(s) ==
    /\ imap[s].pc = "cmd" /\ ~imap[s].authed
    /\ ImapIs(s, [imap[s] EXCEPT !.authed = TRUE])
    /\ UNCHANGED <<store, pop, late>>

(* SELECT and EXAMINE; nothing later looks at read_only. *)
ImapSelect(s, b) ==
    LET now == RoomUids(box[b]) IN
    /\ Told(s)
    /\ ImapIs(s, [imap[s] EXCEPT !.selected = TRUE, !.room = b, !.uids = now, !.view = now])
    /\ UNCHANGED <<store, pop, late>>

ImapClose(s) ==
    /\ InRoom(s)
    /\ ImapIs(s, [imap[s] EXCEPT !.selected = FALSE, !.uids = <<>>, !.view = <<>>])
    /\ UNCHANGED <<store, pop, late>>

(* STORE +FLAGS or -FLAGS (\Deleted). *)
ImapStore(s, i, add) ==
    /\ InRoom(s) /\ i \in DOMAIN imap[s].uids
    /\ flagged' = IF add THEN flagged \cup {imap[s].uids[i]} ELSE flagged \ {imap[s].uids[i]}
    /\ UNCHANGED <<num, box, tombMax, lastRead, imap, pop, late>>

(* COPY and MOVE go through MoveMessage; a MOVE reloads the positions and   *)
(* tells the client nothing.                                                *)
ImapCopyMove(s, i, dest, move) ==
    LET j == imap[s]
        n == j.uids[i]
        there == n \in box[j.room] /\ j.room # dest
    IN  /\ InRoom(s) /\ i \in DOMAIN j.uids
        /\ IF there /\ move
           THEN /\ num < MaxNum /\ num' = num + 1
                /\ box' = [box EXCEPT ![j.room] = @ \ {n}, ![dest] = @ \cup {n}]
                /\ tombMax' = [tombMax EXCEPT ![j.room] = num + 1]
           ELSE /\ box' = IF there THEN [box EXCEPT ![dest] = @ \cup {n}] ELSE box
                /\ UNCHANGED <<num, tombMax>>
        /\ ImapIs(s, IF move THEN [j EXCEPT !.uids = RoomUids(box'[j.room])] ELSE j)
        /\ UNCHANGED <<flagged, lastRead, pop, late>>

(* APPEND; into the selected room it reloads the positions. *)
ImapAppend(s, b, deleted) ==
    LET j == imap[s] IN
    /\ Told(s)
    /\ Deliver(b)
    /\ flagged' = IF deleted THEN flagged \cup {num + 1} ELSE flagged
    /\ ImapIs(s, IF j.selected /\ j.room = b THEN [j EXCEPT !.uids = RoomUids(box'[b])] ELSE j)
    /\ UNCHANGED <<tombMax, lastRead, pop>>

(* EXPUNGE: the \Deleted among the session's own positions, highest first, *)
(* gone from the room or not; then the positions are reloaded.              *)
ImapExpunge(s) ==
    LET j == imap[s]
        ps == {i \in DOMAIN j.uids : j.uids[i] \in flagged}
    IN  /\ InRoom(s)
        /\ UnlinkAll(j.room, {j.uids[i] : i \in ps})
        /\ ImapIs(s, [j EXCEPT !.uids = RoomUids(box'[j.room]),
                               !.view = Dropped(@, ExpungeOrder(ps))])
        /\ UNCHANGED <<flagged, lastRead, pop, late>>

ImapNoop(s) ==
    /\ InRoom(s)
    /\ ImapIs(s, ReportChanges(imap[s]))
    /\ UNCHANGED <<store, pop, late>>

ImapLogout(s) ==
    /\ imap[s].pc = "cmd"
    /\ ImapIs(s, [ImapFresh EXCEPT !.pc = "closed"])
    /\ UNCHANGED <<store, pop, late>>

(* IDLE notes the room's token as it is now, whatever the client knows. *)
ImapIdle(s) ==
    /\ InRoom(s)
    /\ ImapIs(s, [imap[s] EXCEPT !.pc = "idle", !.token = RoomChangeToken(imap[s].room)])
    /\ late' = [late EXCEPT ![s] = {}]
    /\ UNCHANGED <<store, pop>>

(* Every two seconds; with an unchanged token nothing happens. *)
IdlePoll(s) ==
    LET fresh == RoomChangeToken(imap[s].room) IN
    /\ imap[s].pc = "idle"
    /\ fresh # imap[s].token
    /\ ImapIs(s, [imap[s] EXCEPT !.pc = "report", !.token = fresh])
    /\ UNCHANGED <<store, pop, late>>

IdleReport(s) ==
    /\ imap[s].pc = "report"
    /\ ImapIs(s, [ReportChanges(imap[s]) EXCEPT !.pc = "idle"])
    /\ late' = [late EXCEPT ![s] = @ \ box[imap[s].room]]
    /\ UNCHANGED <<store, pop>>

(* DONE, or anything else the client says; 29 minutes end in BYE. *)
IdleEnds(s) ==
    /\ imap[s].pc = "idle"
    /\ late' = [late EXCEPT ![s] = {}]
    /\ \/ ImapIs(s, [imap[s] EXCEPT !.pc = "cmd", !.token = 0])
       \/ ImapIs(s, [ImapFresh EXCEPT !.pc = "closed"])
    /\ UNCHANGED <<store, pop>>

-----------------------------------------------------------------------------
(* POP3 *)

(* PASS with the right password, also of a session that is logged in. *)
PopPass(p) ==
    /\ pop[p].pc = "cmd"
    /\ PopIs(p, [pop[p] EXCEPT !.authed = TRUE, !.drop = RoomUids(box[Inbox]), !.gone = {}])
    /\ late' = [late EXCEPT ![p] = {}]
    /\ UNCHANGED <<store, imap>>

PopDele(p, i) ==
    /\ pop[p].pc = "cmd" /\ i \in DOMAIN pop[p].drop
    /\ PopIs(p, [pop[p] EXCEPT !.gone = @ \cup {pop[p].drop[i]}])
    /\ UNCHANGED <<store, imap, late>>

PopRset(p) ==
    /\ pop[p].pc = "cmd" /\ pop[p].gone # {}
    /\ PopIs(p, [pop[p] EXCEPT !.gone = {}])
    /\ UNCHANGED <<store, imap, late>>

LastListed(drop) == IF drop = <<>> THEN lastRead ELSE drop[Len(drop)]

(* QUIT: ApplyUpdate. *)
PopQuit(p) ==
    LET j == pop[p] IN
    /\ j.pc = "cmd"
    /\ UnlinkAll(Inbox, j.gone)
    /\ flagged' = flagged \ j.gone
    /\ lastRead' = IF j.authed THEN LastListed(j.drop) ELSE lastRead
    /\ PopIs(p, [j EXCEPT !.pc = "closed", !.gone = {}, !.authed = FALSE, !.drop = <<>>])
    /\ UNCHANGED <<imap, late>>

(* The connection is lost: no UPDATE state. *)
PopLost(p) ==
    /\ pop[p].pc = "cmd"
    /\ PopIs(p, [pop[p] EXCEPT !.pc = "closed", !.gone = {}, !.authed = FALSE, !.drop = <<>>])
    /\ late' = [late EXCEPT ![p] = {}]
    /\ UNCHANGED <<store, imap>>

-----------------------------------------------------------------------------
(* Mail from outside. *)
MailArrives ==
    /\ Deliver(Inbox)
    /\ UNCHANGED <<tombMax, flagged, lastRead, imap, pop>>

ImapStep(s) ==
    \/ ImapStartTls(s)
    \/ ImapLogin(s)
    \/ \E b \in Boxes : ImapSelect(s, b)
    \/ ImapClose(s)
    \/ \E i \in MailNums, add \in BOOLEAN : ImapStore(s, i, add)
    \/ \E i \in MailNums, b \in Boxes, move \in BOOLEAN : ImapCopyMove(s, i, b, move)
    \/ \E b \in Boxes, d \in BOOLEAN : ImapAppend(s, b, d)
    \/ ImapExpunge(s)
    \/ ImapNoop(s)
    \/ ImapLogout(s)
    \/ ImapIdle(s)
    \/ IdlePoll(s)
    \/ IdleReport(s)
    \/ IdleEnds(s)

PopStep(p) ==
    \/ PopPass(p)
    \/ \E i \in MailNums : PopDele(p, i)
    \/ PopRset(p)
    \/ PopQuit(p)
    \/ PopLost(p)

AccessNext ==
    \/ MailArrives
    \/ \E s \in Imaps : ImapStep(s)
    \/ \E p \in Pops : PopStep(p)

AccessFairness == \A s \in Imaps : WF_avars(IdlePoll(s)) /\ WF_avars(IdleReport(s))

AccessSpec == AccessInit /\ [][AccessNext]_avars /\ AccessFairness

-----------------------------------------------------------------------------
(* Properties *)

(* ReportChanges renumbers: "a client applying ascending expunges removes   *)
(* the wrong messages".  Whatever other sessions expunged, moved away or    *)
(* delivered since, a client whose positions were the session's has the     *)
(* session's positions again after NOOP or a report while idling - provided *)
(* nothing was filed into the room below a number it already held, which    *)
(* only a COPY or MOVE of an older message does.                            *)
ReportKeepsStep ==
    [][\A s \in Imaps :
          LET j == imap[s]
              new == box[j.room] \ Range(j.uids)
          IN  (/\ j.selected /\ j.view = j.uids
               /\ ImapNoop(s) \/ IdleReport(s)
               /\ \A n \in new : \A k \in Range(j.uids) : k < n)
              => imap'[s].view = imap'[s].uids]_avars

(* "a second session's write has to reach a parked client without it        *)
(* asking": mail delivered while a session idles is reported or gone, or    *)
(* the IDLE over, however deliveries, expunges and polls interleave.        *)
IdlerHearsOfMail ==
    \A s \in Imaps : \A n \in MailNums :
        (imap[s].pc \in {"idle", "report"} /\ n \in late[s])
            ~> (imap[s].pc \notin {"idle", "report"} \/ n \in Range(imap[s].uids) \/ n \notin box[imap[s].room])

(* Mail that comes in after the maildrop was listed survives QUIT: it is    *)
(* not deleted by a DELE of a number in the list, and not taken for read.   *)
UnlistedStaysUnread ==
    [][\A p \in Pops : PopQuit(p) =>
          \A n \in late[p] : /\ n \in box[Inbox] => n \in box'[Inbox]
                             /\ n > lastRead => n > lastRead']_avars

(* The test's own statement without the restriction to deliveries: an idler *)
(* with nothing left to report knows the room.                              *)
IdlerUpToDate ==
    \A s \in Imaps : imap[s].pc = "idle" /\ imap[s].token = RoomChangeToken(imap[s].room)
        => imap[s].uids = RoomUids(box[imap[s].room])

(* What a mail client was told of its mailbox stays true: ReportKeepsStep   *)
(* over IMAP, UnlistedStaysUnread over POP3.                                *)
MailboxIsHonest == ReportKeepsStep /\ UnlistedStaysUnread
=============================================================================
