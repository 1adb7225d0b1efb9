------------------------------ MODULE Listserv ------------------------------
(***************************************************************************)
(* One mailing list (core/src/listserv.cpp): subscriptions and their       *)
(* confirmation, and the spooler that queues a copy of every   *)
(* new message of the room for every subscriber, one by one or as a        *)
(* digest.  The spooler's thread, the administrator's "run now" and the    *)
(* SQL function may spool at once; commands arrive by mail and from the    *)
(* web while it does.                                                      *)
(***************************************************************************)
EXTENDS Naturals, FiniteSets, FiniteSetsExt

CONSTANTS
    Addresses,      \* addresses that subscribe
    KindOf,         \* "post" or "digest", for each
    Spoolers,       \* connections that run SpoolRoom
    DigestMax,      \* digest_max
    MaxPosts,       \* bound: messages of the room
    MaxTokens,      \* bound: confirmation tokens made
    MaxAdmin        \* bound: changes by the administrator

ASSUME ListAssumption ==
    /\ KindOf \in [Addresses -> {"post", "digest"}] /\ DigestMax \in Nat \ {0}
    /\ {MaxPosts, MaxTokens, MaxAdmin} \subseteq Nat

VARIABLES
    list,       \* citadel_lists: there, mode, last_sent, last_digest
    room,       \* numbers of the messages in the room
    highest,    \* highest_msg of the room
    subs,       \* citadel_list_subs: state and token of each address; "none" is no row
    token,      \* last token made
    mailed,     \* tokens sent out: <<token, address, what it confirms>>
    spool,      \* where each SpoolRoom is and what it has read
    copies,     \* copies queued of each message to each address
    owed,       \* <<message, address>>: posted while subscribed, not queued yet
    lateSubs,   \* addresses subscribed between a spooler's two reads
    overlap,    \* spoolers overlapped or died, or the list was taken away under one
    admin       \* changes the administrator has made

lvars == <<list, room, highest, subs, token, mailed, spool, copies, owed, lateSubs, overlap, admin>>

SpoolIdle == [pc |-> "idle", sent |-> 0, digest |-> 0, mode |-> "post", subs |-> {}, msgs |-> {}, high |-> 0]
Active == {a \in Addresses : subs[a].state = "active"}
ListModes == {"post", "digest", "both"}

ListTypeOK ==
    /\ list \in [there : BOOLEAN, mode : ListModes, lastSent : 0..MaxPosts, lastDigest : 0..MaxPosts]
    /\ room \subseteq 1..highest /\ highest \in 0..MaxPosts /\ token \in 0..MaxTokens
    /\ subs \in [Addresses -> [state : {"none", "pending", "active", "unsub_pending"}, token : 0..token]]
    /\ \A a \in Addresses : subs[a].state = "active" => subs[a].token = 0
    /\ \A w \in Spoolers : spool[w].pc \in {"idle", "subs", "msgs", "send", "digest", "digestsend"}
    /\ \A w \in Spoolers : spool[w].msgs \subseteq 1..highest /\ spool[w].subs \subseteq Addresses
    /\ owed \subseteq (1..highest) \X Addresses

ListInit ==
    /\ list = [there |-> TRUE, mode |-> "post", lastSent |-> 0, lastDigest |-> 0]
    /\ room = {} /\ highest = 0 /\ token = 0 /\ mailed = {}
    /\ subs \in [Addresses -> [state : {"none", "active"}, token : {0}]]
    /\ spool = [w \in Spoolers |-> SpoolIdle]
    /\ copies = [p \in (1..MaxPosts) \X Addresses |-> 0]
    /\ owed = {} /\ lateSubs = {} /\ overlap = FALSE /\ admin = 0

-----------------------------------------------------------------------------
(* Subscriptions *)

ByAdmin == admin < MaxAdmin /\ admin' = admin + 1
SubIs(a, state, t) == subs' = [subs EXCEPT ![a] = [state |-> state, token |-> t]]
Forgive(a) == owed' = {p \in owed : p[2] # a}
Joins(a) == lateSubs' = IF \E w \in Spoolers : spool[w].pc = "msgs" THEN lateSubs \cup {a} ELSE lateSubs

(* A confirmation goes to the address itself. *)
MakeToken(a, what) ==
    /\ token < MaxTokens
    /\ token' = token + 1
    /\ mailed' = mailed \cup {<<token + 1, a, what>>}

(* From the public page, by mail or from the web, for any address. *)
AskSubscribe(a) ==
    /\ list.there
    /\ MakeToken(a, "subscribe")
    /\ SubIs(a, "pending", token + 1)
    /\ Forgive(a)
    /\ UNCHANGED <<list, room, highest, spool, copies, lateSubs, overlap, admin>>

AskUnsubscribe(a) ==
    /\ list.there /\ subs[a].state # "none"
    /\ MakeToken(a, "unsubscribe")
    /\ SubIs(a, "unsub_pending", token + 1)
    /\ Forgive(a)
    /\ UNCHANGED <<list, room, highest, spool, copies, lateSubs, overlap, admin>>

(* By the administrator, without a confirmation. *)
PostListSubscribe(a) ==
    /\ ByAdmin
    /\ list.there /\ subs[a].state # "active"
    /\ SubIs(a, "active", 0)
    /\ Joins(a)
    /\ UNCHANGED <<list, room, highest, token, mailed, spool, copies, owed, overlap>>

PostListUnsubscribe(a) ==
    /\ ByAdmin
    /\ subs[a].state # "none"
    /\ SubIs(a, "none", 0)
    /\ Forgive(a)
    /\ UNCHANGED <<list, room, highest, token, mailed, spool, copies, lateSubs, overlap>>

(* The row that holds the token is taken away or becomes active. *)
Confirm(t, a) ==
    /\ subs[a].token = t
    /\ SubIs(a, IF subs[a].state = "unsub_pending" THEN "none" ELSE "active", 0)
    /\ Forgive(a) /\ Joins(a)
    /\ UNCHANGED <<list, room, highest, token, mailed, spool, copies, overlap, admin>>

-----------------------------------------------------------------------------
(* The room *)

(* A message enters the room, by whichever door. *)
PostsNew ==
    /\ highest < MaxPosts
    /\ highest' = highest + 1 /\ room' = room \cup {highest + 1}
    /\ owed' = IF list.there THEN owed \cup ({highest + 1} \X Active) ELSE owed

ListPost ==
    /\ PostsNew
    /\ UNCHANGED <<list, subs, token, mailed, spool, copies, lateSubs, overlap, admin>>

(* Expiry, or a user who may. *)
ListMessageDeleted(m) ==
    /\ m \in room
    /\ room' = room \ {m} /\ owed' = {p \in owed : p[1] # m}
    /\ UNCHANGED <<list, highest, subs, token, mailed, spool, copies, lateSubs, overlap, admin>>

-----------------------------------------------------------------------------
(* The list itself *)

SetMode(mode) ==
    /\ ByAdmin
    /\ list.there /\ list.mode # mode
    /\ list' = [list EXCEPT !.mode = mode]
    /\ UNCHANGED <<room, highest, subs, token, mailed, spool, copies, owed, lateSubs, overlap>>

(* Also what KillRoom's hook does. *)
RemoveList ==
    /\ ByAdmin
    /\ list.there
    /\ list' = [list EXCEPT !.there = FALSE]
    /\ subs' = [a \in Addresses |-> [state |-> "none", token |-> 0]]
    /\ owed' = {}
    /\ overlap' = (overlap \/ \E w \in Spoolers : spool[w].pc # "idle")
    /\ UNCHANGED <<room, highest, token, mailed, spool, copies, lateSubs>>

(* A new list begins at the room's highest message. *)
SetList ==
    /\ ByAdmin
    /\ ~list.there
    /\ list' = [there |-> TRUE, mode |-> "post", lastSent |-> highest, lastDigest |-> highest]
    /\ overlap' = (overlap \/ \E w \in Spoolers : spool[w].pc # "idle")
    /\ UNCHANGED <<room, highest, subs, token, mailed, spool, copies, owed, lateSubs>>

-----------------------------------------------------------------------------
(* SpoolRoom *)

SpoolIs(w, j) == spool' = [spool EXCEPT ![w] = j]
SpoolOnly == UNCHANGED <<list, room, highest, subs, token, mailed, lateSubs, admin>>

Above(n) == {m \in room : m > n}
Queued(ms, as) ==
    /\ copies' = [p \in DOMAIN copies |-> IF p \in ms \X as /\ copies[p] < 2 THEN copies[p] + 1 ELSE copies[p]]
    /\ owed' = owed \ (ms \X as)

SpoolBegin(w) ==
    /\ spool[w].pc = "idle" /\ list.there
    /\ SpoolIs(w, [SpoolIdle EXCEPT !.pc = IF list.mode = "digest" THEN "digest" ELSE "subs", !.mode = list.mode,
                                    !.sent = list.lastSent, !.digest = list.lastDigest, !.high = list.lastSent])
    /\ overlap' = (overlap \/ \E v \in Spoolers \ {w} : spool[v].pc # "idle")
    /\ UNCHANGED <<copies, owed>> /\ SpoolOnly

SpoolSubs(w) ==
    /\ spool[w].pc = "subs"
    /\ SpoolIs(w, [spool[w] EXCEPT !.pc = "msgs", !.subs = {a \in Active : KindOf[a] = "post"}])
    /\ UNCHANGED <<copies, owed, overlap>> /\ SpoolOnly

SpoolMsgs(w) ==
    /\ spool[w].pc = "msgs"
    /\ SpoolIs(w, [spool[w] EXCEPT !.pc = "send", !.msgs = Above(spool[w].sent)])
    /\ UNCHANGED <<copies, owed, overlap>> /\ SpoolOnly

(* Messages in order of their numbers; one that is gone by now is passed. *)
SpoolSend(w) ==
    LET j == spool[w]
        m == Min(j.msgs)
    IN  /\ j.pc = "send" /\ j.msgs # {}
        /\ Queued({m} \cap room, j.subs)
        /\ SpoolIs(w, [j EXCEPT !.msgs = @ \ {m}, !.high = m])
        /\ UNCHANGED overlap /\ SpoolOnly

SpoolEnds(j) == IF j.mode = "both" THEN [j EXCEPT !.pc = "digest", !.subs = {}] ELSE SpoolIdle

(* Deviation: last_sent is set to the room's highest message. *)
SpoolAdvanceAll(w) ==
    /\ spool[w].pc = "send" /\ spool[w].msgs = {}
    /\ list' = IF spool[w].high = spool[w].sent \/ ~list.there THEN list ELSE [list EXCEPT !.lastSent = highest]
    /\ SpoolIs(w, SpoolEnds(spool[w]))
    /\ UNCHANGED <<room, highest, subs, token, mailed, lateSubs, copies, owed, overlap, admin>>

(* "Advanced after the batch, and only once". *)
SpoolAdvance(w) ==
    /\ spool[w].pc = "send" /\ spool[w].msgs = {}
    /\ list' = IF spool[w].high = spool[w].sent \/ ~list.there THEN list ELSE [list EXCEPT !.lastSent = spool[w].high]
    /\ SpoolIs(w, SpoolEnds(spool[w]))
    /\ UNCHANGED <<room, highest, subs, token, mailed, lateSubs, copies, owed, overlap, admin>>

(* A digest is due or not; it takes the first DigestMax messages. *)
SpoolDigest(w) ==
    LET j == spool[w]
        pending == Above(j.digest)
        first == {m \in pending : Cardinality({n \in pending : n <= m}) <= DigestMax}
    IN  /\ j.pc = "digest"
        /\ \/ first # {} /\ SpoolIs(w, [j EXCEPT !.pc = "digestsend", !.msgs = first])
           \/ SpoolIs(w, SpoolIdle)
        /\ UNCHANGED <<copies, owed, overlap>> /\ SpoolOnly

SpoolDigestSend(w) ==
    LET j == spool[w] IN
    /\ j.pc = "digestsend"
    /\ Queued(j.msgs, {a \in Active : KindOf[a] = "digest"})
    /\ list' = IF list.there THEN [list EXCEPT !.lastDigest = Max(j.msgs)] ELSE list
    /\ SpoolIs(w, SpoolIdle)
    /\ UNCHANGED <<room, highest, subs, token, mailed, lateSubs, overlap, admin>>

(* The process dies: what was queued and posted stays. *)
ListCrash ==
    /\ \E w \in Spoolers : spool[w].pc # "idle"
    /\ spool' = [w \in Spoolers |-> SpoolIdle]
    /\ overlap' = TRUE
    /\ UNCHANGED <<list, room, highest, subs, token, mailed, copies, owed, lateSubs, admin>>

ListNext ==
    \/ \E a \in Addresses :
        AskSubscribe(a) \/ AskUnsubscribe(a) \/ PostListSubscribe(a) \/ PostListUnsubscribe(a)
    \/ \E x \in mailed : Confirm(x[1], x[2])
    \/ ListPost
    \/ \E m \in room : ListMessageDeleted(m)
    \/ \E mode \in ListModes : SetMode(mode)
    \/ RemoveList
    \/ SetList
    \/ \E w \in Spoolers :
        \/ SpoolBegin(w) \/ SpoolSubs(w) \/ SpoolMsgs(w) \/ SpoolSend(w) \/ SpoolAdvance(w)
        \/ SpoolDigest(w) \/ SpoolDigestSend(w)
    \/ ListCrash

ListSpec == ListInit /\ [][ListNext]_lvars

-----------------------------------------------------------------------------
(* Properties *)

(* The watermarks never pass a message that a subscriber who was there when *)
(* it was posted has not been sent, whatever is posted, deleted, confirmed, *)
(* switched or interrupted; only a subscription that falls between the      *)
(* spooler's reading of subscribers and of messages is passed over.         *)
FanOutSkipsNobody ==
    \A p \in owed : p[2] \in lateSubs \/ p[1] > IF KindOf[p[2]] = "post" THEN list.lastSent ELSE list.lastDigest

(* "a crash mid-batch resends rather than silently dropping": without one,  *)
(* and while spoolers do not overlap, nobody gets a message twice, through  *)
(* changes of mode, and a list that is removed and made again.              *)
OneCopyEach == ~overlap => \A p \in DOMAIN copies : copies[p] <= 1

(* "Nothing changes until you follow it, so nobody can subscribe or         *)
(* unsubscribe an address they do not read": an active subscriber stays one *)
(* until a confirmation is answered or the administrator acts.              *)
UnconfirmedChangesNothing ==
    [][\A a \in Addresses : subs[a].state = "active" /\ token' # token => subs'[a].state = "active"]_lvars

(* The spooler sends every subscriber every message, once. *)
CopiesAreExact == FanOutSkipsNobody /\ OneCopyEach
=============================================================================
