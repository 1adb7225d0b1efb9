----------------------------- MODULE DavObjects -----------------------------
(***************************************************************************)
(* The objects of a DAV collection: PUT and DELETE (http/src/              *)
(* dav_objects.cpp), the names clients give resources (dav_router.cpp),    *)
(* the locks of file areas (dav_lock.cpp) and the web UI working on the    *)
(* same room (web_views.cpp).  Objects are kept by UID, and a resource     *)
(* name is bound to a UID.  A request checks first and changes later, one  *)
(* statement at a time, and other requests run in between.  A version      *)
(* number, the ETag, is the number of the message that holds the object.   *)
(***************************************************************************)
EXTENDS Naturals, FiniteSets

CONSTANTS
    Clients,        \* users, each with one request at a time
    Uids,           \* objects
    DavNames,       \* resource names
    DefaultName,    \* the name of an object without a binding
    MaxVersion,     \* bound on versions stored
    MaxLocks        \* bound on LOCKs granted

NoUid == "no uid"

ASSUME DavAssumption ==
    /\ NoUid \notin Uids \cup DavNames
    /\ {MaxVersion, MaxLocks} \subseteq Nat
    /\ DefaultName \in [Uids -> DavNames]
    /\ \A u, v \in Uids : u # v => DefaultName[u] # DefaultName[v]

VARIABLES
    files,      \* the collection is a file area: names are not bound, and locks exist
    objs,       \* <<uid, version>>: objects in the room
    names,      \* citadel_dav_names: name -> uid, or NoUid
    version,    \* last version stored
    locks,      \* citadel_dav_locks: records of token, uid and holder
    tokens,     \* LOCKs granted so far
    req,        \* the request each client has going
    crossed     \* UIDs two requests worked on at once

dvars == <<files, objs, names, version, locks, tokens, req, crossed>>

DavIdle == [pc |-> "idle", op |-> "none", name |-> NoUid, uid |-> NoUid, base |-> 0, old |-> 0]

DavTypeOK ==
    /\ files \in BOOLEAN /\ objs \subseteq Uids \X (1..version) /\ version \in 0..MaxVersion
    /\ names \in [DavNames -> Uids \cup {NoUid}] /\ \A u \in Uids : names[DefaultName[u]] # u
    /\ locks \subseteq [token : 1..tokens, uid : Uids, by : Clients]
    /\ \A c \in Clients : /\ req[c].pc \in {"idle", "find", "insert", "unlink", "bind", "unbind", "lock"}
                          /\ req[c].uid \in Uids \cup {NoUid} /\ req[c].old \in 0..version
    /\ crossed \subseteq Uids

DavInit ==
    /\ files \in BOOLEAN
    /\ objs = {} /\ version = 0 /\ locks = {} /\ tokens = 0 /\ crossed = {}
    /\ names = [n \in DavNames |-> NoUid]
    /\ req = [c \in Clients |-> DavIdle]

-----------------------------------------------------------------------------
(* Lookups *)

Versions(u) == {o[2] : o \in {x \in objs : x[1] = u}}
FindByUid(u) == IF Versions(u) = {} THEN 0 ELSE CHOOSE v \in Versions(u) : \A w \in Versions(u) : w <= v

(* The names an object may be listed under: any binding, or the default. *)
ResourceNames(u) ==
    LET bound == {n \in DavNames : names[n] = u}
    IN  IF bound = {} THEN {DefaultName[u]} ELSE bound

(* What a name stands for: its binding, or the UID it encodes. *)
UidForResource(n) ==
    IF names[n] # NoUid THEN names[n]
    ELSE IF \E u \in Uids : DefaultName[u] = n THEN CHOOSE u \in Uids : DefaultName[u] = n ELSE NoUid

(* One row of the resource is read; the holder passes with or without the  *)
(* token.  Only file areas lock.                                            *)
LockBlocks(c, u) == \E l \in locks : l.uid = u /\ l.by # c

(* The requests under way that work on the same object or the same name. *)
Names(j, u) == j.name # NoUid /\ u # NoUid /\ (names[j.name] = u \/ DefaultName[u] = j.name)
Crossing(c, j) == {d \in Clients \ {c} :
    LET k == req[d] IN /\ k.pc # "idle"
                       /\ \/ k.uid = j.uid
                          \/ k.name = j.name /\ j.name # NoUid
                          \/ Names(k, j.uid) \/ Names(j, k.uid)}

Begin(c, j) ==
    /\ req' = [req EXCEPT ![c] = j]
    /\ crossed' = crossed \cup UNION {{j.uid, req[d].uid} : d \in Crossing(c, j)}
    /\ UNCHANGED <<files, objs, names, version, locks, tokens>>

DavGoes(c, pc) == req' = [req EXCEPT ![c] = IF pc = "idle" THEN DavIdle ELSE [@ EXCEPT !.pc = pc]]

-----------------------------------------------------------------------------
(* PUT *)

(* Deviation: If-Match is only looked at when the object is gone. *)
PreconditionAny(existing, base) == base # 0 => existing # 0

(* If-Match names a version (base > 0); without it base is 0. *)
Precondition(existing, base) == base # 0 => existing = base

(* Deviation: a name that holds another object is taken over. *)
NameFreeAlways(n, u) == TRUE

NameFree(n, u) ==
    LET holds == UidForResource(n) IN holds \notin {NoUid, u} => FindByUid(holds) = 0

(* The UID may not live under another name, nor the name hold another       *)
(* object; then the conditional headers.  Every refusal changes nothing.    *)
DavPut(c, n, u, base, create) ==
    LET existing == FindByUid(u) IN
    /\ req[c].pc = "idle"
    /\ IF files THEN n = DefaultName[u] /\ ~LockBlocks(c, u)
       ELSE /\ existing # 0 => n \in ResourceNames(u)
            /\ NameFree(n, u)
    /\ create => existing = 0
    /\ Precondition(existing, base)
    /\ Begin(c, [DavIdle EXCEPT !.pc = "find", !.op = "put", !.name = n, !.uid = u, !.base = base])

(* SaveObject: the web UI saves without a name or a precondition. *)
WebSave(c, u) ==
    /\ req[c].pc = "idle" /\ ~files
    /\ Begin(c, [DavIdle EXCEPT !.pc = "find", !.op = "web", !.uid = u])

(* UpsertByEuid: find, insert, unlink.  The insert may fail. *)
UpsertFind(c) ==
    /\ req[c].pc = "find"
    /\ req' = [req EXCEPT ![c].pc = "insert", ![c].old = FindByUid(req[c].uid)]
    /\ UNCHANGED <<files, objs, names, version, locks, tokens, crossed>>

UpsertInsert(c) ==
    /\ req[c].pc = "insert"
    /\ \/ /\ version < MaxVersion
          /\ version' = version + 1
          /\ objs' = objs \cup {<<req[c].uid, version + 1>>}
          /\ DavGoes(c, "unlink")
       \/ DavGoes(c, "idle") /\ UNCHANGED <<files, objs, version>>
    /\ UNCHANGED <<files, names, locks, tokens, crossed>>

UpsertUnlink(c) ==
    /\ req[c].pc = "unlink" /\ req[c].op # "delete"
    /\ objs' = objs \ {<<req[c].uid, req[c].old>>}
    /\ DavGoes(c, IF req[c].op = "put" /\ ~files THEN "bind" ELSE "idle")
    /\ UNCHANGED <<files, names, version, locks, tokens, crossed>>

(* A name equal to the default needs no row. *)
BindResourceName(c) ==
    LET j == req[c] IN
    /\ j.pc = "bind"
    /\ names' = [names EXCEPT ![j.name] = IF j.name = DefaultName[j.uid] THEN NoUid ELSE j.uid]
    /\ DavGoes(c, "idle")
    /\ UNCHANGED <<files, objs, version, locks, tokens, crossed>>

-----------------------------------------------------------------------------
(* DELETE *)

DavDelete(c, n, base) ==
    LET u == UidForResource(n) IN
    /\ req[c].pc = "idle"
    /\ u # NoUid /\ FindByUid(u) # 0
    /\ Precondition(FindByUid(u), base)
    /\ files => ~LockBlocks(c, u)
    /\ Begin(c, [DavIdle EXCEPT !.pc = "unlink", !.op = "delete", !.name = n, !.uid = u, !.base = base,
                                !.old = FindByUid(u)])

(* 409, and the binding stays, if the message is gone by now. *)
DeleteUnlink(c) ==
    LET j == req[c] IN
    /\ j.pc = "unlink" /\ j.op = "delete"
    /\ objs' = objs \ {<<j.uid, j.old>>}
    /\ DavGoes(c, IF <<j.uid, j.old>> \in objs /\ ~files THEN "unbind" ELSE "idle")
    /\ UNCHANGED <<files, names, version, locks, tokens, crossed>>

UnbindResourceName(c) ==
    /\ req[c].pc = "unbind"
    /\ names' = [names EXCEPT ![req[c].name] = NoUid]
    /\ DavGoes(c, "idle")
    /\ UNCHANGED <<files, objs, version, locks, tokens, crossed>>

(* Deleted in the web UI, by a mail client, by expiry: the binding stays. *)
DeletedElsewhere(o) ==
    /\ o \in objs
    /\ objs' = objs \ {o}
    /\ crossed' = IF \E c \in Clients : req[c].pc # "idle" /\ req[c].uid = o[1]
                  THEN crossed \cup {o[1]} ELSE crossed
    /\ UNCHANGED <<files, names, version, locks, tokens, req>>

(* PruneDavNames: bindings of objects that are gone, a request for the name *)
(* being under way or not.                                                  *)
PruneDavNames ==
    /\ names' = [n \in DavNames |-> IF names[n] # NoUid /\ Versions(names[n]) = {} THEN NoUid ELSE names[n]]
    /\ names' # names
    /\ LET lost == {n \in DavNames : names'[n] # names[n]}
       IN  crossed' = crossed \cup {req[c].uid : c \in {d \in Clients : req[d].name \in lost}}
    /\ UNCHANGED <<files, objs, version, locks, tokens, req>>

-----------------------------------------------------------------------------
(* Locks *)

(* LOCK with a body: refused while another user holds one. *)
DavLock(c, u) ==
    /\ req[c].pc = "idle" /\ files /\ tokens < MaxLocks
    /\ \A l \in locks : l.uid = u => l.by = c
    /\ Begin(c, [DavIdle EXCEPT !.pc = "lock", !.op = "lock", !.uid = u])

LockInsert(c) ==
    /\ req[c].pc = "lock" /\ tokens < MaxLocks
    /\ tokens' = tokens + 1
    /\ locks' = locks \cup {[token |-> tokens + 1, uid |-> req[c].uid, by |-> c]}
    /\ DavGoes(c, "idle")
    /\ UNCHANGED <<files, objs, names, version, crossed>>

(* UNLOCK by the holder or a room administrator, expiry, or KillRoom. *)
DavUnlock(l) ==
    /\ l \in locks
    /\ locks' = locks \ {l}
    /\ UNCHANGED <<files, objs, names, version, tokens, req, crossed>>

DavNext ==
    \/ \E c \in Clients :
        \/ \E n \in DavNames, u \in Uids, b \in 0..version, cr \in BOOLEAN : DavPut(c, n, u, b, cr)
        \/ \E u \in Uids : WebSave(c, u)
        \/ UpsertFind(c)
        \/ UpsertInsert(c)
        \/ UpsertUnlink(c)
        \/ BindResourceName(c)
        \/ \E n \in DavNames, b \in 0..version : DavDelete(c, n, b)
        \/ DeleteUnlink(c)
        \/ UnbindResourceName(c)
        \/ \E u \in Uids : DavLock(c, u)
        \/ LockInsert(c)
    \/ \E o \in objs : DeletedElsewhere(o)
    \/ PruneDavNames
    \/ \E l \in locks : DavUnlock(l)

DavSpec == DavInit /\ [][DavNext]_dvars

-----------------------------------------------------------------------------
(* Properties *)

(* "how two clients editing one event do not silently overwrite each        *)
(* other": a PUT or DELETE with If-Match takes away the version it named    *)
(* and no other, whatever came between, unless another request for the      *)
(* object was under way with it.                                            *)
ConditionalUnlessCrossed ==
    \A c \in Clients : req[c].pc = "unlink" /\ req[c].base # 0 /\ req[c].uid \notin crossed
        => req[c].old = req[c].base

(* The same without the exception. *)
ConditionalHolds ==
    \A c \in Clients : req[c].pc = "unlink" /\ req[c].base # 0 => req[c].old = req[c].base

(* A replaced object leaves nothing behind: with no request for it under    *)
(* way, and none ever crossed with another, there is one copy to list.      *)
OneCopyUnlessCrossed ==
    \A u \in Uids \ crossed : (\A c \in Clients : req[c].pc = "idle" \/ req[c].uid # u)
        => Cardinality(Versions(u)) <= 1

(* "overwriting it would silently destroy the object that is there": a name *)
(* that leads to an object, by its binding or because it is the default,    *)
(* goes on leading to it, through bindings, deletions, pruning and saves    *)
(* from the web, unless requests for it or for its successor crossed.       *)
NameKeepsItsObject ==
    [][\A n \in DavNames :
          LET u == UidForResource(n)
              v == UidForResource(n)'
          IN  (u # NoUid /\ Versions(u) # {}) => v = u \/ u \in crossed \/ v \in crossed]_dvars

(* "two hrefs for one object, and a client that synced both would show the  *)
(* event twice": an object has one binding.                                 *)
OneHrefPerObject ==
    \A u \in Uids : Versions(u) # {} => Cardinality({n \in DavNames : names[n] = u}) <= 1

(* 423: nobody replaces a file while another user has held its lock since   *)
(* before the request, however locks are taken, broken and expire.          *)
LockedOut ==
    \A c \in Clients : req[c].pc = "insert" /\ files /\ req[c].uid \notin crossed
        => ~\E l \in locks : l.uid = req[c].uid /\ l.by # c

(* What two clients of one collection may rely on, taken together. *)
WritesAreHonest == ConditionalUnlessCrossed /\ OneCopyUnlessCrossed /\ LockedOut
=============================================================================
