----------------------------- MODULE SyncClients -----------------------------
(***************************************************************************)
(* Two clients that keep a copy of the store by change token: CalDAV /     *)
(* CardDAV sync-collection on one room (http/src/dav_report.cpp) and JMAP  *)
(* Email/changes over all rooms (http/src/jmap_mail.cpp), beside the       *)
(* connections of MessageStore that change the store and the housekeeping  *)
(* that prunes tombstones (http/src/web_router.cpp).                       *)
(***************************************************************************)
EXTENDS MessageStore

CONSTANTS
    DavRoom,    \* the collection the DAV client synchronizes
    Clients,    \* the kinds of client that synchronize
    Housekeeping \* whether PruneTombstones runs (qm_dav_tombstone_days > 0)

ASSUME SyncAssumption ==
    /\ DavRoom \in Rooms
    /\ Clients \subseteq {"dav", "jmap"}
    /\ Housekeeping \in BOOLEAN

VARIABLES
    dav,        \* the DAV client and the request it has in flight
    jmap        \* the JMAP client, likewise

store == <<seq, messages, euid, pointers, highest, tombs, job>>
clients == <<dav, jmap>>
allVars == <<store, clients>>

DavStates == [pc : {"off", "idle", "diff", "load"},
              token : 0..MaxSeq,            \* the sync-token the client holds
              now : 0..MaxSeq,              \* the token the request read first
              pend : SUBSET Euids,          \* changed euids not yet resolved
              view : [Euids -> 0..MaxSeq],  \* etag (msgnum) held, 0 for none
              behind : BOOLEAN,             \* a message was moved in below its token
              pruned : BOOLEAN]             \* removals it had not heard of were pruned

JmapStates == [pc : {"off", "idle", "state"},
               state : 0..MaxSeq,           \* the Email state string it holds
               view : SUBSET Nums,          \* emails it believes exist
               raced : BOOLEAN]             \* a change inside a request, or missed removals

SyncTypeOK == TypeOK /\ dav \in DavStates /\ jmap \in JmapStates

(* One client at a time follows the store: clients do not affect each other. *)
SyncInit ==
    /\ Init
    /\ \E kind \in Clients :
          /\ dav = [pc |-> IF kind = "dav" THEN "idle" ELSE "off", token |-> 0, now |-> 0,
                     pend |-> {}, view |-> [e \in Euids |-> 0],
                     behind |-> FALSE, pruned |-> FALSE]
          /\ jmap = [pc |-> IF kind = "jmap" THEN "idle" ELSE "off", state |-> 0,
                      view |-> {}, raced |-> FALSE]

-----------------------------------------------------------------------------
(* Largest member of a set of numbers, 0 when it is empty: coalesce(max(..)). *)
MaxOrZero(S) == IF S = {} THEN 0 ELSE CHOOSE m \in S : \A n \in S : n <= m

RoomChangeToken(r) ==
    Greatest(MaxOrZero(RoomMessages(r)), MaxOrZero({t.seq : t \in {u \in tombs : u.room = r}}))

(* Both halves of RoomChangesSince, as <<msgnum, euid>>. *)
RoomChangesSince(r, since) ==
    {<<n, euid[n]>> : n \in {m \in RoomMessages(r) \cap messages : m > since}}
    \cup {<<t.num, t.euid>> : t \in {u \in tombs : u.room = r /\ u.seq > since}}

(* Deviation: removals are left out. *)
DavAdded(since) ==
    {e \in Euids : \E n \in RoomMessages(DavRoom) \cap messages : n > since /\ euid[n] = e}

DavChanged(since) ==
    {e \in Euids : \E c \in RoomChangesSince(DavRoom, since) : c[2] = e}

(* LoadEmailFor: the message is in some room the user sees. *)
EmailExists(n) == n \in messages /\ \E r \in Rooms : <<r, n>> \in pointers

(* Deviation: removals are left out. *)
JmapAdded(since) ==
    {n \in Nums : \E r \in Rooms : n \in RoomMessages(r) /\ n > since}

JmapChanged(since) ==
    {n \in Nums : \E r \in Rooms : \E c \in RoomChangesSince(r, since) : c[1] = n}

AccountState == MaxOrZero({RoomChangeToken(r) : r \in Rooms})

-----------------------------------------------------------------------------
(* sync-collection: the token first, then the diff, then each object. *)

DavSyncToken ==
    /\ dav.pc = "idle"
    /\ dav' = [dav EXCEPT !.pc = "diff", !.now = RoomChangeToken(DavRoom)]
    /\ UNCHANGED <<store, jmap>>

DavSyncDiff ==
    /\ dav.pc = "diff"
    /\ dav' = [dav EXCEPT !.pc = "load", !.pend = DavChanged(dav.token)]
    /\ UNCHANGED <<store, jmap>>

(* EmitObject when the euid still resolves, WriteGoneResponse when not. *)
DavSyncObject(e) ==
    /\ dav.pc = "load"
    /\ e \in dav.pend
    /\ dav' = [dav EXCEPT !.pend = @ \ {e}, !.view[e] = FindByEuid(DavRoom, e)]
    /\ UNCHANGED <<store, jmap>>

(* Deviation: the answer carries the token as it is after the diff. *)
DavSyncDoneLateToken ==
    /\ dav.pc = "load"
    /\ dav.pend = {}
    /\ dav' = [dav EXCEPT !.pc = "idle", !.token = RoomChangeToken(DavRoom), !.now = 0]
    /\ UNCHANGED <<store, jmap>>

DavSyncDone ==
    /\ dav.pc = "load"
    /\ dav.pend = {}
    /\ dav' = [dav EXCEPT !.pc = "idle", !.token = dav.now, !.now = 0]
    /\ UNCHANGED <<store, jmap>>

-----------------------------------------------------------------------------
(* Email/changes: the diff first; newState is read when it is written out.   *)
(* The diff goes from mailbox to mailbox and is one step here: a change in   *)
(* the middle of it overtakes the request just as one before newState does.  *)

JmapDiff ==
    LET changed == JmapChanged(jmap.state) IN
    /\ jmap.pc = "idle"
    /\ jmap' = [jmap EXCEPT !.pc = "state",
                            !.view = (@ \ changed) \cup {n \in changed : EmailExists(n)}]
    /\ UNCHANGED <<store, dav>>

JmapNewState ==
    /\ jmap.pc = "state"
    /\ jmap' = [jmap EXCEPT !.pc = "idle", !.state = AccountState]
    /\ UNCHANGED <<store, dav>>

-----------------------------------------------------------------------------
StoreQuiet == \A a \in Actors : job[a].pc = "idle"

(* PruneTombstones: removals recorded before the cutoff are forgotten.  The *)
(* cutoff is days ago, and no request or operation in flight is that old.   *)
PruneTombstones(cutoff) ==
    /\ Housekeeping
    /\ StoreQuiet /\ {dav.pc, jmap.pc} \subseteq {"off", "idle"}
    /\ \E t \in tombs : t.seq < cutoff
    /\ tombs' = {t \in tombs : t.seq >= cutoff}
    /\ dav' = [dav EXCEPT !.pruned =
                  @ \/ \E t \in tombs \ tombs' : t.room = DavRoom /\ t.seq > dav.token]
    /\ jmap' = [jmap EXCEPT !.raced = @ \/ \E t \in tombs \ tombs' : t.seq > jmap.state]
    /\ UNCHANGED <<seq, messages, euid, pointers, highest, job>>

(* A step of the store.  "raced" remembers one that fell inside               *)
(* Email/changes, "behind" a message that MoveMessage filed into the          *)
(* collection under a number the client's token already covers.               *)
StoreStep ==
    /\ Next
    /\ dav' = [dav EXCEPT !.behind =
                  @ \/ \E n \in Nums : /\ <<DavRoom, n>> \in pointers' \ pointers
                                      /\ n <= Greatest(dav.token, dav.now)]
    /\ jmap' = [jmap EXCEPT !.raced = @ \/ (jmap.pc = "state" /\ (pointers' # pointers \/ tombs' # tombs))]

DavStep ==
    \/ DavSyncToken
    \/ DavSyncDiff
    \/ \E e \in Euids : DavSyncObject(e)
    \/ DavSyncDone

JmapStep == JmapDiff \/ JmapNewState

SyncNext ==
    \/ StoreStep
    \/ DavStep
    \/ JmapStep
    \/ \E cutoff \in Nums : PruneTombstones(cutoff)

SyncSpec == SyncInit /\ [][SyncNext]_allVars

-----------------------------------------------------------------------------
(* Properties *)

(* The schema comment: "a single integer is a valid sync token for both     *)
(* halves".  When nobody is writing and the server has nothing to report    *)
(* for the token the DAV client holds, its copy of the collection is the    *)
(* collection: no object it lacks, keeps after deletion, or has an old      *)
(* version of.  Left out are removals that got no tombstone because the     *)
(* sequence ran out, clients away longer than tombstones are kept, and      *)
(* collections into which somebody moved a message older than the token.    *)
DavSyncConverges ==
    (/\ ~dav.behind /\ ~dav.pruned
     /\ StoreQuiet /\ seq < MaxSeq /\ dav.pc = "idle" /\ DavChanged(dav.token) = {})
        => \A e \in Euids : dav.view[e] = FindByEuid(DavRoom, e)

(* The half of it that outlives PruneTombstones, with any writers: when the *)
(* server has nothing to report, the client holds every object of the       *)
(* collection, and in no older version than the collection's newest.        *)
DavSyncFindsAdditions ==
    (~dav.behind /\ dav.pc = "idle" /\ DavChanged(dav.token) = {})
        => \A e \in Euids : dav.view[e] >= FindByEuid(DavRoom, e)

(* The same for Email/changes, which reads its new state after the diff, so *)
(* only for a client that was never overtaken by a change in a request nor  *)
(* away longer than tombstones are kept.                                    *)
JmapConvergesUnlessRaced ==
    (~jmap.raced /\ StoreQuiet /\ seq < MaxSeq /\ jmap.pc = "idle" /\ JmapChanged(jmap.state) = {})
        => jmap.view = {n \in Nums : EmailExists(n)}

(* jmap_mail.cpp says of cannotCalculateChanges that the client must not be *)
(* left "quietly missing everything that happened"; a client whose request  *)
(* was overtaken by a change must still learn of it from a later one.       *)
JmapConverges ==
    (StoreQuiet /\ seq < MaxSeq /\ jmap.pc = "idle" /\ JmapChanged(jmap.state) = {})
        => jmap.view = {n \in Nums : EmailExists(n)}

(* web_router.cpp: "A client whose token predates the cutoff is answered    *)
(* with a full re-listing".  Pruned or not, a DAV client that the server    *)
(* has nothing more to tell holds no object the collection has lost.        *)
PrunedClientRelists ==
    (StoreQuiet /\ seq < MaxSeq /\ dav.pc = "idle" /\ DavChanged(dav.token) = {})
        => \A e \in Euids : dav.view[e] # 0 => FindByEuid(DavRoom, e) # 0
=============================================================================
