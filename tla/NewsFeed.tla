------------------------------ MODULE NewsFeed ------------------------------
(***************************************************************************)
(* The NNTP server's peer feed (nntp): IHAVE, CHECK and TAKETHIS, and POST *)
(* by readers, over one group.  An offer asks citadel_msgids whether the   *)
(* article is held, inserts it and records its Message-ID in three         *)
(* statements, between which other sessions run and expiry purges          *)
(* messages.  A peer offers an article until it is told not to.            *)
(***************************************************************************)
EXTENDS Naturals, FiniteSets

CONSTANTS
    Peers,          \* sessions, all past AUTHINFO
    Articles,       \* Message-IDs
    Carried,        \* those with a newsgroup that is carried and may be posted to
    MaxRows         \* bound on articles stored

ASSUME FeedAssumption == Carried \subseteq Articles /\ Articles # {} /\ MaxRows \in Nat

VARIABLES
    rows,       \* citadel_messages: <<msgnum, Message-ID>>
    msgids,     \* citadel_msgids: the msgnum of a Message-ID; 0 for no row
    nextRow,    \* last msgnum handed out
    peer,       \* what each session is doing
    told,       \* what each peer knows of each article
    raced,      \* Message-IDs two sessions were taking at once, or that were POSTed
    held        \* Message-IDs stored at some time

nvars == <<rows, msgids, nextRow, peer, told, raced, held>>

FeedTypeOK ==
    /\ rows \subseteq (1..MaxRows) \X Articles
    /\ \A a, b \in rows : a[1] = b[1] => a = b
    /\ \A r \in rows : r[2] \in Carried
    /\ msgids \in [Articles -> 0..MaxRows] /\ nextRow \in 0..MaxRows
    /\ \A p \in Peers : /\ peer[p].pc \in {"cmd", "body", "find", "insert", "record"}
                        /\ peer[p].pc = "record" => peer[p].row \in 1..nextRow
    /\ told \in [Peers -> [Articles -> {"open", "settled"}]]
    /\ raced \subseteq Articles /\ held \subseteq Articles

PeerIdle == [pc |-> "cmd", by |-> "none", id |-> CHOOSE a \in Articles : TRUE, row |-> 0]

FeedInit ==
    /\ rows = {} /\ msgids = [a \in Articles |-> 0] /\ nextRow = 0
    /\ peer = [p \in Peers |-> PeerIdle]
    /\ told = [p \in Peers |-> [a \in Articles |-> "open"]]
    /\ raced = {} /\ held = {}

PeerIs(p, j) == peer' = [peer EXCEPT ![p] = j]

(* The answer ends the command: final, or "try later". *)
NewsAnswer(p, final) ==
    /\ PeerIs(p, PeerIdle)
    /\ told' = [told EXCEPT ![p][peer[p].id] = IF final THEN "settled" ELSE @]

(* Deviation: a row of citadel_msgids is enough. *)
FindByMessageIdNoJoin(a) == msgids[a] # 0

(* "a row whose message has since been purged must not make this server     *)
(* claim to have an article it can no longer serve"                         *)
FindByMessageId(a) == <<msgids[a], a>> \in rows

Taking(a) == {p \in Peers : peer[p].id = a /\ peer[p].pc \in {"body", "find", "insert", "record"}}

(* The command line: IHAVE looks at once, TAKETHIS reads the article first, *)
(* POST never looks.                                                        *)
NewsOffer(p, a, by) ==
    /\ peer[p].pc = "cmd" /\ told[p][a] = "open"
    /\ PeerIs(p, [pc |-> IF by = "ihave" THEN "find" ELSE "body", by |-> by, id |-> a, row |-> 0])
    /\ raced' = IF Taking(a) # {} \/ by = "post" THEN raced \cup {a} ELSE raced
    /\ UNCHANGED <<rows, msgids, nextRow, told, held>>

(* CHECK has no body and no promise. *)
NewsCheck(p, a) ==
    /\ peer[p].pc = "cmd" /\ FindByMessageId(a) /\ told[p][a] = "open"
    /\ told' = [told EXCEPT ![p][a] = "settled"]
    /\ UNCHANGED <<rows, msgids, nextRow, peer, raced, held>>

(* 435, 438 or 439 "already have it". *)
NewsFind(p) ==
    /\ peer[p].pc = "find"
    /\ IF FindByMessageId(peer[p].id) THEN NewsAnswer(p, TRUE)
       ELSE /\ PeerIs(p, [peer[p] EXCEPT !.pc = IF peer[p].by = "ihave" THEN "body" ELSE "insert"])
            /\ UNCHANGED told
    /\ UNCHANGED <<rows, msgids, nextRow, raced, held>>

(* The article is read, or the transfer fails: 436 or 441, but 439. *)
NewsBody(p) ==
    /\ peer[p].pc = "body"
    /\ \/ /\ PeerIs(p, [peer[p] EXCEPT !.pc = IF peer[p].by = "takethis" THEN "find" ELSE "insert"])
          /\ UNCHANGED told
       \/ NewsAnswer(p, peer[p].by = "takethis")
    /\ UNCHANGED <<rows, msgids, nextRow, raced, held>>

(* 437 when no group is carried, 436 otherwise; TAKETHIS has only 439. *)
Final(j, why) == j.by = "takethis" \/ (j.by = "ihave" /\ why = "not carried")

(* One of its groups is a room here. *)
HasGroup(a) == a \in Carried

(* AcceptOfferedArticle up to InsertMessage, which may fail. *)
NewsInsert(p) ==
    LET j == peer[p] IN
    /\ j.pc = "insert"
    /\ \/ /\ HasGroup(j.id) /\ nextRow < MaxRows
          /\ nextRow' = nextRow + 1
          /\ rows' = rows \cup {<<nextRow + 1, j.id>>}
          /\ held' = held \cup {j.id}
          /\ PeerIs(p, [j EXCEPT !.pc = "record", !.row = nextRow + 1])
          /\ UNCHANGED told
       \/ /\ NewsAnswer(p, Final(j, IF HasGroup(j.id) THEN "insert failed" ELSE "not carried"))
          /\ UNCHANGED <<rows, nextRow, held>>
    /\ UNCHANGED <<msgids, raced>>

(* RecordMessageId, the newest number winning, and 235, 239 or 240. *)
NewsRecord(p) ==
    /\ peer[p].pc = "record"
    /\ msgids' = [msgids EXCEPT ![peer[p].id] = peer[p].row]
    /\ NewsAnswer(p, TRUE)
    /\ UNCHANGED <<rows, nextRow, raced, held>>

(* Expiry purges a message; "it does not know about" citadel_msgids. *)
NewsExpire(r) ==
    /\ r \in rows
    /\ rows' = rows \ {r}
    /\ UNCHANGED <<msgids, nextRow, peer, told, raced, held>>

FeedNext ==
    \/ \E p \in Peers :
        \/ \E a \in Articles, by \in {"ihave", "takethis", "post"} : NewsOffer(p, a, by)
        \/ \E a \in Articles : NewsCheck(p, a)
        \/ NewsFind(p)
        \/ NewsBody(p)
        \/ NewsInsert(p)
        \/ NewsRecord(p)
    \/ \E r \in rows : NewsExpire(r)

FeedSpec == FeedInit /\ [][FeedNext]_nvars

-----------------------------------------------------------------------------
(* Properties *)

(* "do I already have this?": an article that was never offered by two      *)
(* peers at once is held in one copy, through refusals, failures, purges    *)
(* and new offers.                                                          *)
HeldOnceUnlessRaced ==
    \A a \in Articles \ raced : Cardinality({r \in rows : r[2] = a}) <= 1

(* "Getting these the wrong way round makes a peer either retry forever or  *)
(* drop an article it should have kept": a peer that settles an article on  *)
(* what IHAVE, POST or CHECK answered settles one this server has stored,   *)
(* or carries no group of.                                                  *)
SettledMeansStored ==
    [][\A p \in Peers, a \in Articles :
          (told[p][a] = "open" /\ told'[p][a] = "settled" /\ peer[p].by # "takethis")
          => a \in held' \/ a \notin Carried]_nvars

(* The same of every command. *)
NothingDropped ==
    \A p \in Peers, a \in Carried : told[p][a] = "settled" => a \in held

(* "claim to have an article it can no longer serve": an offer is refused   *)
(* as held only while the article can be served.                            *)
RefusedOnlyIfServed ==
    [][\A p \in Peers, a \in Articles :
          (told[p][a] = "open" /\ told'[p][a] = "settled" /\ peer[p].pc \in {"cmd", "find"})
          => \E r \in rows : r[2] = a]_nvars

(* The three above: a peer is told the truth about what this site holds,    *)
(* and holding it means one copy.                                           *)
HistoryIsHonest == []HeldOnceUnlessRaced /\ SettledMeansStored /\ RefusedOnlyIfServed
=============================================================================
