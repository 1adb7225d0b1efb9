---------------------------- MODULE ClientsProofs ----------------------------
(***************************************************************************)
(* DAV objects, the terminal's input, the file transfer and the fetcher:   *)
(* what MCClients checks of them for two clients, four keys, one file and  *)
(* two runners, for all.  DavInv, FetchInv, XInv, TermInv and HeardInv are *)
(* the inductive invariants.                                               *)
(***************************************************************************)
EXTENDS MCClients, OrderLemmas, FiniteSetTheorems, TLAPS

(***************************************************************************)
(* The objects of a DAV collection                                         *)
(***************************************************************************)

DavReqs == [pc : {"idle", "find", "insert", "unlink", "bind", "unbind", "lock"},
            op : {"none", "put", "web", "delete", "lock"}, name : DavNames \cup {NoUid},
            uid : Uids \cup {NoUid}, base : Nat, old : Nat]

DavTypes ==
    /\ files \in BOOLEAN /\ version \in 0..MaxVersion /\ tokens \in Nat
    /\ objs \subseteq Uids \X (1..version)
    /\ names \in [DavNames -> Uids \cup {NoUid}] /\ (\A u \in Uids : names[DefaultName[u]] # u)
    /\ locks \subseteq [token : 1..tokens, uid : Uids, by : Clients]
    /\ crossed \subseteq Uids
    /\ req \in [Clients -> DavReqs]

(* Which requests are at which step, and what they have a name for. *)
DavShapeOf(j) ==
    /\ j.pc # "idle" => j.uid \in Uids
    /\ j.pc \in {"find", "insert"} => j.op \in {"put", "web"}
    /\ j.pc = "unlink" => j.op \in {"put", "web", "delete"}
    /\ j.pc = "bind" => j.op = "put" /\ ~files
    /\ j.pc = "unbind" => j.op = "delete" /\ ~files
    /\ j.op \in {"put", "delete"} => j.name \in DavNames
    /\ j.op = "web" => ~files
    /\ j.old <= version
    /\ j.pc = "idle" => j.name = NoUid
DavShape == \A c \in Clients : DavShapeOf(req[c])

(* Requests under way together that touch each other are both crossed. *)
DavMeet(j, k) == j.uid = k.uid \/ (j.name = k.name /\ j.name # NoUid) \/ Names(j, k.uid)
DavApart ==
    \A c, d \in Clients : c # d /\ req[c].pc # "idle" /\ req[d].pc # "idle" /\ DavMeet(req[c], req[d])
        => req[c].uid \in crossed /\ req[d].uid \in crossed

AtMostOne(S) == \A v, w \in S : v = w

(* How many copies of its object a request leaves while it runs. *)
CopiesAt(j) ==
    /\ j.pc \in {"find", "bind", "lock"} => AtMostOne(Versions(j.uid))
    /\ j.pc = "insert" => Versions(j.uid) \subseteq {j.old}
    /\ j.pc = "unlink" /\ j.op # "delete" => AtMostOne(Versions(j.uid) \ {j.old})
    /\ j.pc = "unlink" /\ j.op = "delete" => Versions(j.uid) \subseteq {j.old}
    /\ j.pc = "unbind" => Versions(j.uid) = {}
Untouched(u) == \A c \in Clients : req[c].pc = "idle" \/ req[c].uid # u
DavCopies ==
    /\ \A u \in Uids \ crossed : Untouched(u) => AtMostOne(Versions(u))
    /\ \A c \in Clients : req[c].pc # "idle" /\ req[c].uid \notin crossed => CopiesAt(req[c])

(* A conditional request still finds, or takes away, what it named. *)
BaseAt(j) ==
    /\ j.pc = "find" => FindByUid(j.uid) = j.base
    /\ j.pc \in {"insert", "unlink"} => j.old = j.base
DavBases ==
    \A c \in Clients : req[c].pc # "idle" /\ req[c].uid \notin crossed /\ req[c].base # 0 => BaseAt(req[c])

DavLocks ==
    \A c \in Clients : req[c].pc \in {"find", "insert"} /\ files /\ req[c].uid \notin crossed
        => ~LockBlocks(c, req[c].uid)

(* The name a PUT is about to bind leads to nothing that is there, and the  *)
(* one a DELETE is about to free to nothing it did not ask for.             *)
FreeFor(n, u) ==
    \/ UidForResource(n) \in crossed \cup {NoUid, u}
    \/ Versions(UidForResource(n)) = {}
DavNamed ==
    \A c \in Clients :
        /\ req[c].op = "put" /\ req[c].pc # "idle" /\ ~files /\ req[c].uid \notin crossed
              => FreeFor(req[c].name, req[c].uid)
        /\ req[c].op = "delete" /\ req[c].pc # "idle"
              => names[req[c].name] \in {NoUid, req[c].uid} \cup crossed

DavInv == DavTypes /\ DavShape /\ DavApart /\ DavCopies /\ DavBases /\ DavLocks /\ DavNamed

(* The version found is the greatest there is, and 0 means there is none. *)
LEMMA FindFacts ==
    ASSUME DavTypes, NEW u \in Uids
    PROVE  /\ Versions(u) \subseteq 1..version
           /\ FindByUid(u) \in 0..version
           /\ Versions(u) = {} => FindByUid(u) = 0
           /\ Versions(u) # {} => FindByUid(u) \in Versions(u) /\ FindByUid(u) # 0
<1>1. Versions(u) \subseteq 1..version
  BY DEF DavTypes, Versions
<1>2. version \in Nat
  BY DavAssumption DEF DavTypes
<1>3. ASSUME Versions(u) # {} PROVE \E v \in Versions(u) : \A w \in Versions(u) : w <= v
  BY <1>1, <1>2, <1>3, GreatestMember, Versions(u) \subseteq 0..version
<1>4. Versions(u) # {} => FindByUid(u) \in Versions(u)
  <2> SUFFICES ASSUME Versions(u) # {} PROVE FindByUid(u) \in Versions(u)
    OBVIOUS
  <2>1. FindByUid(u) = CHOOSE v \in Versions(u) : \A w \in Versions(u) : w <= v
    BY DEF FindByUid
  <2> HIDE DEF Versions
  <2>2. QED
    BY <2>1, <1>3
<1>5. Versions(u) = {} => FindByUid(u) = 0
  BY DEF FindByUid
<1>6. QED
  BY <1>1, <1>2, <1>4, <1>5

(* A name stands for what it is bound to, and unbound for the object whose  *)
(* default it is.                                                           *)
LEMMA ResourceFacts ==
    ASSUME DavTypes, NEW n \in DavNames
    PROVE  /\ UidForResource(n) \in Uids \cup {NoUid}
           /\ names[n] \in Uids \cup {NoUid}
           /\ names[n] # NoUid => UidForResource(n) = names[n]
           /\ \A u \in Uids : names[n] = NoUid /\ DefaultName[u] = n => UidForResource(n) = u
           /\ \A u \in Uids : UidForResource(n) = u => names[n] = u \/ DefaultName[u] = n
<1>1. names[n] \in Uids \cup {NoUid}
  BY DEF DavTypes
<1>2. ASSUME names[n] # NoUid
      PROVE  UidForResource(n) = names[n]
  BY <1>2 DEF UidForResource
<1>3. ASSUME names[n] = NoUid, NEW u \in Uids, DefaultName[u] = n
      PROVE  UidForResource(n) = u
  <2>1. \A v \in Uids : DefaultName[v] = n => v = u
    BY <1>3, DavAssumption
  <2>2. UidForResource(n) = CHOOSE v \in Uids : DefaultName[v] = n
    BY <1>3 DEF UidForResource
  <2>3. QED
    BY <2>1, <2>2, <1>3
<1>4. ASSUME names[n] = NoUid, ~ \E u \in Uids : DefaultName[u] = n
      PROVE  UidForResource(n) = NoUid
  BY <1>4 DEF UidForResource
<1>5. NoUid \notin Uids
  BY DavAssumption
<1>6. QED
  BY <1>1, <1>2, <1>3, <1>4, <1>5

(* With as few versions, a request leaves as few copies. *)
LEMMA CopiesShrink ==
    ASSUME NEW j, CopiesAt(j), Versions(j.uid)' \subseteq Versions(j.uid)
    PROVE  CopiesAt(j)'
BY DEF CopiesAt, AtMostOne

(* What a request that begins finds, if nobody crosses it: nobody else at   *)
(* work on its object, and one copy of that at most.                        *)
LEMMA BeginFresh ==
    ASSUME DavInv, NEW c \in Clients, NEW j \in DavReqs, Begin(c, j), req[c].pc = "idle",
           j.uid \in Uids, j.uid \notin crossed'
    PROVE  AtMostOne(Versions(j.uid))
<1>1. crossed' = crossed \cup UNION {{j.uid, req[d].uid} : d \in Crossing(c, j)}
  BY DEF Begin
<1>2. Crossing(c, j) = {}
  BY <1>1
<1>3. ASSUME NEW d \in Clients, req[d].pc # "idle"
      PROVE  req[d].uid # j.uid
  <2>1. d # c
    BY <1>3
  <2>2. QED
    BY <1>2, <1>3, <2>1 DEF Crossing
<1>4. Untouched(j.uid)
  BY <1>3 DEF Untouched
<1>5. QED
  BY <1>1, <1>4 DEF DavInv, DavCopies

(* What a step of a request has to show of itself; everything about the     *)
(* other requests follows.  j is what is left of the request.               *)
LEMMA RequestStep ==
    ASSUME DavInv, DavTypes', NEW c \in Clients, NEW j \in DavReqs, NEW v \in Uids,
           req[c].pc # "idle", req[c].uid = v, req' = [req EXCEPT ![c] = j],
           files' = files, names' = names, crossed' = crossed, version <= version', version' \in Nat,
           \A l \in locks' : l \in locks \/ (l.uid = req[c].uid /\ l.by = c),
           j.pc = "idle" \/ (j.uid = req[c].uid /\ j.name = req[c].name /\ j.op = req[c].op /\ j.base = req[c].base),
           \A u \in Uids : u # v => Versions(u)' = Versions(u),
           DavShapeOf(j)',
           j.pc = "idle" /\ v \notin crossed => AtMostOne(Versions(v)'),
           j.pc # "idle" /\ j.uid \notin crossed => CopiesAt(j)',
           j.pc # "idle" /\ j.uid \notin crossed /\ j.base # 0 => BaseAt(j)',
           j.pc \in {"find", "insert"} => req[c].pc \in {"find", "insert"}
    PROVE  DavInv'
<1> USE DEF DavInv
<1>1. /\ req'[c] = j
      /\ \A d \in Clients : d # c => req'[d] = req[d]
  BY DEF DavTypes
<1>2. req[c].uid \in Uids
  BY DEF DavShape, DavShapeOf
<1>3. ASSUME NEW d \in Clients, d # c, req[d].pc # "idle", req[d].uid = req[c].uid
      PROVE  req[d].uid \in crossed
  BY <1>3 DEF DavApart, DavMeet
<1>4. ASSUME NEW d \in Clients, d # c, req[d].pc # "idle", req[d].uid \notin crossed
      PROVE  req[d].uid \in Uids /\ req[d].uid # req[c].uid /\ Versions(req[d].uid)' = Versions(req[d].uid)
  BY <1>3, <1>4 DEF DavShape, DavShapeOf
<1>5. DavShape'
  <2> SUFFICES ASSUME NEW d \in Clients PROVE DavShapeOf(req[d])'
    BY DEF DavShape
  <2>1. CASE d = c
    BY <2>1, <1>1 DEF DavShapeOf
  <2>2. CASE d # c
    <3>1. DavShapeOf(req[d])
      BY DEF DavShape
    <3>2. req[d].old \in Nat /\ version \in Nat
      BY DavAssumption DEF DavTypes, DavReqs
    <3>3. QED
      BY <3>1, <3>2, <2>2, <1>1 DEF DavShapeOf
  <2>3. QED
    BY <2>1, <2>2
<1>6. DavApart'
  <2> SUFFICES ASSUME NEW a \in Clients, NEW d \in Clients, a # d, req'[a].pc # "idle", req'[d].pc # "idle",
                      DavMeet(req[a], req[d])'
               PROVE  req'[a].uid \in crossed /\ req'[d].uid \in crossed
    BY DEF DavApart
  <2>1. \A e \in Clients : req'[e].pc # "idle" => /\ req[e].pc # "idle" /\ req'[e].uid = req[e].uid
                                                 /\ req'[e].name = req[e].name
    BY <1>1
  <2>2. DavMeet(req[a], req[d])
    BY <2>1 DEF DavMeet, Names
  <2>3. QED
    BY <2>1, <2>2 DEF DavApart
<1>7. DavCopies'
  <2>1. ASSUME NEW u \in Uids, u \notin crossed, Untouched(u)'
        PROVE  AtMostOne(Versions(u)')
    <3>1. CASE u = req[c].uid
      BY <3>1, <2>1, <1>1 DEF Untouched
    <3>2. CASE u # req[c].uid
      <4>1. Untouched(u)
        BY <3>2, <2>1, <1>1 DEF Untouched
      <4>2. QED
        BY <4>1, <3>2, <2>1 DEF DavCopies
    <3>3. QED
      BY <3>1, <3>2
  <2>2. ASSUME NEW d \in Clients, req'[d].pc # "idle", req'[d].uid \notin crossed
        PROVE  CopiesAt(req[d])'
    <3>1. CASE d = c
      BY <3>1, <2>2, <1>1 DEF CopiesAt
    <3>2. CASE d # c
      <4>1. PICK k : k = req[d]
        OBVIOUS
      <4>2. CopiesAt(k) /\ Versions(k.uid)' = Versions(k.uid)
        BY <4>1, <3>2, <2>2, <1>1, <1>4 DEF DavCopies
      <4>3. CopiesAt(k)'
        BY <4>2, CopiesShrink
      <4>4. QED
        BY <4>1, <4>3, <3>2, <1>1 DEF CopiesAt
    <3>3. QED
      BY <3>1, <3>2
  <2>3. QED
    BY <2>1, <2>2 DEF DavCopies
<1>8. DavBases'
  <2> SUFFICES ASSUME NEW d \in Clients, req'[d].pc # "idle", req'[d].uid \notin crossed, req'[d].base # 0
               PROVE  BaseAt(req[d])'
    BY DEF DavBases
  <2>1. CASE d = c
    BY <2>1, <1>1 DEF BaseAt
  <2>2. CASE d # c
    <3>1. PICK k : k = req[d]
      OBVIOUS
    <3>2. BaseAt(k) /\ Versions(k.uid)' = Versions(k.uid)
      BY <3>1, <2>2, <1>1, <1>4 DEF DavBases
    <3>3. FindByUid(k.uid)' = FindByUid(k.uid)
      BY <3>2 DEF FindByUid
    <3>4. QED
      BY <3>1, <3>2, <3>3, <2>2, <1>1 DEF BaseAt
  <2>3. QED
    BY <2>1, <2>2
<1>9. DavLocks'
  <2> SUFFICES ASSUME NEW d \in Clients, req'[d].pc \in {"find", "insert"}, files, req'[d].uid \notin crossed,
                      NEW l \in locks', l.uid = req'[d].uid, l.by # d
               PROVE  FALSE
    BY DEF DavLocks, LockBlocks
  <2>1. req[d].pc \in {"find", "insert"} /\ req'[d].uid = req[d].uid
    BY <1>1
  <2>2. l \notin locks
    BY <2>1 DEF DavLocks, LockBlocks
  <2>3. l.uid = req[c].uid /\ d # c
    BY <2>2
  <2>4. QED
    BY <2>1, <2>3, <1>3
<1>10. DavNamed'
  <2> SUFFICES ASSUME NEW d \in Clients, req'[d].pc # "idle"
               PROVE  /\ req'[d].op = "put" /\ ~files /\ req'[d].uid \notin crossed
                            => FreeFor(req[d].name, req[d].uid)'
                      /\ req'[d].op = "delete" => names[req'[d].name] \in {NoUid, req'[d].uid} \cup crossed
    BY DEF DavNamed
  <2>1. /\ req[d].pc # "idle" /\ req'[d].op = req[d].op
        /\ req'[d].uid = req[d].uid /\ req'[d].name = req[d].name
    BY <1>1
  <2>2. ASSUME req[d].op = "put", ~files, req[d].uid \notin crossed
        PROVE  FreeFor(req[d].name, req[d].uid)'
    <3>1. FreeFor(req[d].name, req[d].uid) /\ req[d].name \in DavNames
      BY <2>1, <2>2 DEF DavNamed, DavShape, DavShapeOf
    <3>2. PICK n, h : n = req[d].name /\ h = UidForResource(n)
      OBVIOUS
    <3>3. h \in Uids \cup {NoUid} /\ UidForResource(n)' = h
      BY <3>1, <3>2, ResourceFacts DEF UidForResource
    <3>4. ASSUME h \notin crossed \cup {NoUid, req[d].uid}
          PROVE  Versions(h)' = {}
      <4>1. Versions(h) = {}
        BY <3>1, <3>2, <3>4 DEF FreeFor
      <4>2. h # req[c].uid
        <5> SUFFICES ASSUME h = req[c].uid PROVE FALSE
          OBVIOUS
        <5>1. d # c
          BY <3>4
        <5>2. names[req[d].name] = h \/ DefaultName[h] = req[d].name
          BY <3>1, <3>2, <3>3, <3>4, ResourceFacts
        <5>3. Names(req[d], req[c].uid)
          BY <5>2, <3>1, <1>2, DavAssumption DEF Names
        <5>4. QED
          BY <5>1, <5>3, <2>1, <2>2 DEF DavApart, DavMeet
      <4>3. QED
        BY <4>1, <4>2, <3>3, <3>4
    <3>4a. UidForResource(req[d].name)' = h
      BY <3>2, <3>3, <2>1 DEF UidForResource
    <3>5. CASE h \in crossed \cup {NoUid, req[d].uid}
      BY <3>5, <3>4a, <2>1 DEF FreeFor
    <3>6. CASE Versions(h)' = {}
      BY <3>6, <3>4a DEF FreeFor, Versions
    <3>7. QED
      BY <3>4, <3>5, <3>6
  <2>3. QED
    BY <2>1, <2>2 DEF DavNamed
<1>11. QED
  BY <1>5, <1>6, <1>7, <1>8, <1>9, <1>10

(* The same for a request that begins. *)
LEMMA BeginStep ==
    ASSUME DavInv, NEW c \in Clients, NEW j \in DavReqs, Begin(c, j), req[c].pc = "idle",
           j.pc # "idle", j.uid \in Uids, DavShapeOf(j),
           j.uid \notin crossed' => CopiesAt(j),
           j.uid \notin crossed' /\ j.base # 0 => BaseAt(j),
           j.pc \in {"find", "insert"} /\ files => ~LockBlocks(c, j.uid),
           j.op = "put" /\ ~files => FreeFor(j.name, j.uid),
           j.op = "delete" => names[j.name] \in {NoUid, j.uid}
    PROVE  DavInv'
<1> USE DEF DavInv
<1>1. /\ req' = [req EXCEPT ![c] = j] /\ UNCHANGED <<files, objs, names, version, locks, tokens>>
      /\ crossed' = crossed \cup UNION {{j.uid, req[d].uid} : d \in Crossing(c, j)}
  BY DEF Begin
<1>2. /\ req'[c] = j
      /\ \A d \in Clients : d # c => req'[d] = req[d]
  BY <1>1 DEF DavTypes
<1>3. \A d \in Clients : req[d].pc # "idle" => req[d].uid \in Uids
  BY DEF DavShape, DavShapeOf
<1>4. crossed \subseteq crossed'
  BY <1>1
<1>5. ASSUME NEW d \in Clients, req[d].pc # "idle", DavMeet(j, req[d]) \/ DavMeet(req[d], j)
      PROVE  j.uid \in crossed' /\ req[d].uid \in crossed'
  <2>1. d \in Crossing(c, j)
    <3>1. d # c
      BY <1>5
    <3>2. QED
      BY <3>1, <1>5 DEF Crossing, DavMeet
  <2>2. QED
    BY <2>1, <1>1
<1>6. DavTypes'
  <2>1. crossed' \subseteq Uids
    <3>1. \A d \in Crossing(c, j) : req[d].uid \in Uids
      BY <1>3 DEF Crossing
    <3>2. QED
      BY <3>1, <1>1 DEF DavTypes
  <2>2. req' \in [Clients -> DavReqs]
    BY <1>1 DEF DavTypes
  <2>3. QED
    BY <2>1, <2>2, <1>1 DEF DavTypes
<1>7. DavShape'
  <2> SUFFICES ASSUME NEW d \in Clients PROVE DavShapeOf(req[d])'
    BY DEF DavShape
  <2>1. DavShapeOf(req[d])
    BY DEF DavShape
  <2>2. CASE d = c
    BY <2>2, <1>1, <1>2 DEF DavShapeOf
  <2>3. CASE d # c
    BY <2>1, <2>3, <1>1, <1>2 DEF DavShapeOf
  <2>4. QED
    BY <2>2, <2>3
<1>8. DavApart'
  <2> SUFFICES ASSUME NEW a \in Clients, NEW d \in Clients, a # d, req'[a].pc # "idle", req'[d].pc # "idle",
                      DavMeet(req[a], req[d])'
               PROVE  req'[a].uid \in crossed' /\ req'[d].uid \in crossed'
    BY DEF DavApart
  <2>1. CASE a = c
    <3>1. req'[a] = j /\ req'[d] = req[d]
      BY <2>1, <1>2
    <3>2. DavMeet(j, req[d])
      BY <3>1, <1>1 DEF DavMeet, Names
    <3>3. QED
      BY <3>1, <3>2, <1>5
  <2>2. CASE d = c
    <3>1. req'[d] = j /\ req'[a] = req[a]
      BY <2>2, <1>2
    <3>2. DavMeet(req[a], j)
      BY <3>1, <1>1 DEF DavMeet, Names
    <3>3. QED
      BY <3>1, <3>2, <1>5
  <2>3. CASE a # c /\ d # c
    <3>1. req'[a] = req[a] /\ req'[d] = req[d]
      BY <2>3, <1>2
    <3>2. DavMeet(req[a], req[d])
      BY <3>1, <1>1 DEF DavMeet, Names
    <3>3. QED
      BY <3>1, <3>2, <1>4 DEF DavApart
  <2>4. QED
    BY <2>1, <2>2, <2>3
<1>9. DavCopies'
  <2>1. ASSUME NEW u \in Uids, u \notin crossed', Untouched(u)'
        PROVE  AtMostOne(Versions(u))
    <3>1. Untouched(u)
      BY <2>1, <1>2 DEF Untouched
    <3>2. QED
      BY <3>1, <2>1, <1>4 DEF DavCopies
  <2>2. ASSUME NEW d \in Clients, req'[d].pc # "idle", req'[d].uid \notin crossed'
        PROVE  CopiesAt(req[d])'
    <3>1. CASE d = c
      BY <3>1, <2>2, <1>1, <1>2 DEF CopiesAt, Versions
    <3>2. CASE d # c
      <4>1. CopiesAt(req[d])
        BY <3>2, <2>2, <1>2, <1>4 DEF DavCopies
      <4>2. QED
        BY <4>1, <3>2, <1>1, <1>2 DEF CopiesAt, Versions
    <3>3. QED
      BY <3>1, <3>2
  <2>3. QED
    BY <2>1, <2>2, <1>1 DEF DavCopies, Versions
<1>10. DavBases'
  <2> SUFFICES ASSUME NEW d \in Clients, req'[d].pc # "idle", req'[d].uid \notin crossed', req'[d].base # 0
               PROVE  BaseAt(req[d])'
    BY DEF DavBases
  <2>1. CASE d = c
    BY <2>1, <1>1, <1>2 DEF BaseAt, FindByUid, Versions
  <2>2. CASE d # c
    <3>1. BaseAt(req[d])
      BY <2>2, <1>2, <1>4 DEF DavBases
    <3>2. QED
      BY <3>1, <2>2, <1>1, <1>2 DEF BaseAt, FindByUid, Versions
  <2>3. QED
    BY <2>1, <2>2
<1>11. DavLocks'
  BY <1>1, <1>2, <1>4 DEF DavLocks, LockBlocks
<1>12. DavNamed'
  <2> SUFFICES ASSUME NEW d \in Clients, req'[d].pc # "idle"
               PROVE  /\ req'[d].op = "put" /\ ~files' /\ req'[d].uid \notin crossed'
                            => FreeFor(req[d].name, req[d].uid)'
                      /\ req'[d].op = "delete" => names'[req'[d].name] \in {NoUid, req'[d].uid} \cup crossed'
    BY DEF DavNamed
  <2>1. CASE d = c
    BY <2>1, <1>1, <1>2, <1>4 DEF FreeFor, UidForResource, Versions
  <2>2. CASE d # c
    <3>1. /\ req[d].op = "put" /\ ~files /\ req[d].uid \notin crossed => FreeFor(req[d].name, req[d].uid)
          /\ req[d].op = "delete" => names[req[d].name] \in {NoUid, req[d].uid} \cup crossed
      BY <2>2, <1>2 DEF DavNamed
    <3>2. UidForResource(req[d].name)' = UidForResource(req[d].name)
      BY <2>2, <1>1, <1>2 DEF UidForResource
    <3>3. Versions(UidForResource(req[d].name))' = Versions(UidForResource(req[d].name))
      BY <3>2, <1>1 DEF Versions
    <3>4. req[d].op = "put" /\ ~files /\ req[d].uid \notin crossed' => FreeFor(req[d].name, req[d].uid)'
      BY <3>1, <3>2, <3>3, <2>2, <1>2, <1>4 DEF FreeFor
    <3>5. QED
      BY <3>1, <3>4, <2>2, <1>1, <1>2, <1>4
  <2>3. QED
    BY <2>1, <2>2
<1>13. QED
  BY <1>6, <1>7, <1>8, <1>9, <1>10, <1>11, <1>12

(* PUT, the web form, DELETE and LOCK as they begin. *)
LEMMA DavBegins ==
    ASSUME DavInv, NEW c \in Clients,
           \/ \E n \in DavNames, u \in Uids, b \in 0..version, cr \in BOOLEAN : DavPut(c, n, u, b, cr)
           \/ \E u \in Uids : WebSave(c, u)
           \/ \E n \in DavNames, b \in 0..version : DavDelete(c, n, b)
           \/ \E u \in Uids : DavLock(c, u)
    PROVE  DavInv'
<1> USE DEF DavInv
<1>1. DavTypes
  OBVIOUS
<1>2. version \in Nat
  BY DavAssumption DEF DavTypes
<1>3. ASSUME NEW n \in DavNames, NEW u \in Uids, NEW b \in 0..version, NEW cr \in BOOLEAN, DavPut(c, n, u, b, cr)
      PROVE  DavInv'
  <2>0. PICK j : j = [DavIdle EXCEPT !.pc = "find", !.op = "put", !.name = n, !.uid = u, !.base = b]
    OBVIOUS
  <2>1. j.pc = "find" /\ j.op = "put" /\ j.name = n /\ j.uid = u /\ j.base = b /\ j.old = 0
    BY <2>0 DEF DavIdle
  <2>2. j \in DavReqs
    <3>1. b \in Nat
      BY <1>2
    <3>2. QED
      BY <2>0, <3>1 DEF DavReqs, DavIdle
  <2>3. /\ req[c].pc = "idle" /\ Begin(c, j)
        /\ files => ~LockBlocks(c, u)
        /\ ~files => NameFree(n, u)
        /\ Precondition(FindByUid(u), b)
    BY <2>0, <1>3 DEF DavPut
  <2>4. ASSUME u \notin crossed' PROVE AtMostOne(Versions(u))
    BY <2>1, <2>2, <2>3, <2>4, BeginFresh
  <2>5. DavShapeOf(j)
    BY <2>1, <1>2 DEF DavShapeOf
  <2>6. u \notin crossed' => CopiesAt(j)
    BY <2>1, <2>4 DEF CopiesAt
  <2>7. b # 0 => BaseAt(j)
    BY <2>1, <2>3 DEF BaseAt, Precondition
  <2>8. ASSUME ~files PROVE FreeFor(n, u)
    <3>1. UidForResource(n) \notin {NoUid, u} => FindByUid(UidForResource(n)) = 0
      BY <2>3, <2>8 DEF NameFree
    <3>2. UidForResource(n) \in Uids \cup {NoUid}
      BY <1>1, ResourceFacts
    <3>3. UidForResource(n) \notin {NoUid, u} => Versions(UidForResource(n)) = {}
      BY <3>1, <3>2, <1>1, FindFacts
    <3>4. QED
      BY <3>3 DEF FreeFor
  <2>9. QED
    BY <2>1, <2>2, <2>3, <2>5, <2>6, <2>7, <2>8, BeginStep
<1>4. ASSUME NEW u \in Uids, WebSave(c, u)
      PROVE  DavInv'
  <2>0. PICK j : j = [DavIdle EXCEPT !.pc = "find", !.op = "web", !.uid = u]
    OBVIOUS
  <2>1. j.pc = "find" /\ j.op = "web" /\ j.name = NoUid /\ j.uid = u /\ j.base = 0 /\ j.old = 0
    BY <2>0 DEF DavIdle
  <2>2. j \in DavReqs
    BY <2>0, <1>2 DEF DavReqs, DavIdle
  <2>3. req[c].pc = "idle" /\ Begin(c, j) /\ ~files
    BY <2>0, <1>4 DEF WebSave
  <2>4. ASSUME u \notin crossed' PROVE AtMostOne(Versions(u))
    BY <2>1, <2>2, <2>3, <2>4, BeginFresh
  <2>5. DavShapeOf(j)
    BY <2>1, <2>3, <1>2 DEF DavShapeOf
  <2>6. u \notin crossed' => CopiesAt(j)
    BY <2>1, <2>4 DEF CopiesAt
  <2>7. QED
    BY <2>1, <2>2, <2>3, <2>5, <2>6, BeginStep
<1>5. ASSUME NEW n \in DavNames, NEW b \in 0..version, DavDelete(c, n, b)
      PROVE  DavInv'
  <2>1. PICK u : u = UidForResource(n)
    OBVIOUS
  <2>1a. PICK j : j = [DavIdle EXCEPT !.pc = "unlink", !.op = "delete", !.name = n, !.uid = u, !.base = b,
                                       !.old = FindByUid(u)]
    OBVIOUS
  <2>2. /\ req[c].pc = "idle" /\ u # NoUid /\ FindByUid(u) # 0 /\ Begin(c, j)
        /\ Precondition(FindByUid(u), b)
    BY <2>1, <2>1a, <1>5 DEF DavDelete
  <2>3. u \in Uids /\ FindByUid(u) \in 0..version
    BY <2>1, <2>2, <1>1, ResourceFacts, FindFacts
  <2>4. /\ j.pc = "unlink" /\ j.op = "delete" /\ j.name = n /\ j.uid = u /\ j.base = b
        /\ j.old = FindByUid(u)
    BY <2>1a DEF DavIdle
  <2>5. j \in DavReqs
    <3>1. b \in Nat /\ FindByUid(u) \in Nat
      BY <2>3, <1>2
    <3> HIDE DEF FindByUid
    <3>2. QED
      BY <2>1a, <2>3, <3>1 DEF DavReqs, DavIdle
  <2>6. ASSUME u \notin crossed' PROVE AtMostOne(Versions(u))
    BY <2>2, <2>3, <2>4, <2>5, <2>6, BeginFresh
  <2>7. DavShapeOf(j)
    BY <2>3, <2>4, <1>2 DEF DavShapeOf
  <2>8. u \notin crossed' => CopiesAt(j)
    <3>1. FindByUid(u) \in Versions(u)
      BY <2>2, <2>3, <1>1, FindFacts
    <3>2. QED
      BY <3>1, <2>4, <2>6 DEF CopiesAt, AtMostOne
  <2>9. b # 0 => BaseAt(j)
    BY <2>2, <2>4 DEF BaseAt, Precondition
  <2>10. names[n] \in {NoUid, u}
    BY <2>1, <1>1, ResourceFacts
  <2>11. QED
    BY <2>2, <2>4, <2>3, <2>5, <2>7, <2>8, <2>9, <2>10, BeginStep
<1>6. ASSUME NEW u \in Uids, DavLock(c, u)
      PROVE  DavInv'
  <2>0. PICK j : j = [DavIdle EXCEPT !.pc = "lock", !.op = "lock", !.uid = u]
    OBVIOUS
  <2>1. j.pc = "lock" /\ j.op = "lock" /\ j.name = NoUid /\ j.uid = u /\ j.base = 0 /\ j.old = 0
    BY <2>0 DEF DavIdle
  <2>2. j \in DavReqs
    BY <2>0, <1>2 DEF DavReqs, DavIdle
  <2>3. req[c].pc = "idle" /\ Begin(c, j)
    BY <2>0, <1>6 DEF DavLock
  <2>4. ASSUME u \notin crossed' PROVE AtMostOne(Versions(u))
    BY <2>1, <2>2, <2>3, <2>4, BeginFresh
  <2>5. DavShapeOf(j)
    BY <2>1, <1>2 DEF DavShapeOf
  <2>6. u \notin crossed' => CopiesAt(j)
    BY <2>1, <2>4 DEF CopiesAt
  <2>7. QED
    BY <2>1, <2>2, <2>3, <2>5, <2>6, BeginStep
<1>7. QED
  BY <1>3, <1>4, <1>5, <1>6

LEMMA AllRequestSteps ==
    ASSUME DavInv, NEW c \in Clients,
           \/ UpsertFind(c) \/ UpsertInsert(c) \/ UpsertUnlink(c) \/ DeleteUnlink(c) \/ LockInsert(c)
    PROVE  DavInv'
<1> USE DEF DavInv
<1>0. PICK k \in DavReqs : k = req[c]
  BY DEF DavTypes
<1>1. DavTypes /\ version \in Nat /\ tokens \in Nat
  BY DavAssumption DEF DavTypes
<1>2. DavShapeOf(k)
  BY <1>0 DEF DavShape
<1>3. DavIdle \in DavReqs /\ DavIdle.pc = "idle" /\ DavShapeOf(DavIdle) /\ DavIdle.op = "none" /\ DavIdle.old = 0 /\ DavIdle.name = NoUid
  BY <1>1 DEF DavReqs, DavIdle, DavShapeOf
<1>4. /\ k.pc # "idle" /\ k.uid \notin crossed => CopiesAt(k)
      /\ k.pc # "idle" /\ k.uid \notin crossed /\ k.base # 0 => BaseAt(k)
  BY <1>0 DEF DavCopies, DavBases
<1>5. ASSUME UpsertFind(c)
      PROVE  DavInv'
  <2>1. PICK f : f = FindByUid(k.uid)
    OBVIOUS
  <2>2. PICK j : j = [k EXCEPT !.pc = "insert", !.old = f]
    OBVIOUS
  <2>3. /\ k.pc = "find" /\ req' = [req EXCEPT ![c] = j]
        /\ UNCHANGED <<files, objs, names, version, locks, tokens, crossed>>
    BY <1>5, <1>0, <2>1, <2>2 DEF UpsertFind, DavTypes
  <2>4. k.uid \in Uids
    BY <1>2, <2>3 DEF DavShapeOf
  <2>5. f \in 0..version
    BY <2>1, <2>4, <1>1, FindFacts
  <2>6. f \in Nat /\ f <= version
    BY <2>5, <1>1
  <2>7. j \in DavReqs
    BY <2>2, <2>6 DEF DavReqs
  <2>8. /\ j.pc = "insert" /\ j.old = f /\ j.uid = k.uid /\ j.name = k.name /\ j.op = k.op /\ j.base = k.base
    BY <2>2 DEF DavReqs
  <2>9. DavTypes'
    BY <2>3, <2>7 DEF DavTypes
  <2>10. \A u \in Uids : Versions(u)' = Versions(u)
    BY <2>3 DEF Versions
  <2>11. DavShapeOf(j)'
    BY <1>2, <2>3, <2>6, <2>8 DEF DavShapeOf
  <2>12. ASSUME j.uid \notin crossed PROVE CopiesAt(j)'
    <3>1. AtMostOne(Versions(k.uid))
      BY <1>4, <2>3, <2>8, <2>12 DEF CopiesAt
    <3>2. Versions(k.uid) # {} => f \in Versions(k.uid)
      BY <2>1, <2>4, <1>1, FindFacts
    <3>3. Versions(k.uid) \subseteq {f}
      BY <3>1, <3>2 DEF AtMostOne
    <3>4. Versions(j.uid)' \subseteq {j.old}
      BY <3>3, <2>4, <2>8, <2>10
    <3>5. QED
      BY <3>4, <2>8 DEF CopiesAt
  <2>13. ASSUME j.uid \notin crossed, j.base # 0 PROVE BaseAt(j)'
    BY <2>1, <2>3, <2>8, <2>13, <1>4 DEF BaseAt
  <2>14. /\ req[c].pc # "idle" /\ req[c].uid = k.uid /\ version' \in Nat /\ version <= version'
         /\ req[c].pc \in {"find", "insert"}
    BY <1>0, <1>1, <2>3
  <2>15. QED
    BY <2>3, <2>4, <2>7, <2>8, <2>9, <2>10, <2>11, <2>12, <2>13, <2>14, <1>0, RequestStep
<1>6. ASSUME UpsertInsert(c)
      PROVE  DavInv'
  <2>1. /\ k.pc = "insert" /\ UNCHANGED <<files, names, locks, tokens, crossed>>
        /\ req[c].pc # "idle" /\ req[c].uid = k.uid
    BY <1>6, <1>0 DEF UpsertInsert
  <2>2. k.uid \in Uids /\ k.op # "delete"
    BY <1>2, <2>1 DEF DavShapeOf
  <2>3. CASE DavGoes(c, "idle") /\ UNCHANGED <<files, objs, version>>
    <3>1. req' = [req EXCEPT ![c] = DavIdle]
      BY <2>3 DEF DavGoes
    <3>2. DavTypes'
      BY <2>1, <2>3, <3>1, <1>3 DEF DavTypes
    <3>3. \A u \in Uids : Versions(u)' = Versions(u)
      BY <2>3 DEF Versions
    <3>4. DavShapeOf(DavIdle)'
      BY <1>3, <2>1, <2>3 DEF DavShapeOf
    <3>5. k.uid \notin crossed => AtMostOne(Versions(k.uid)')
      BY <1>4, <2>1, <2>2, <3>3 DEF CopiesAt, AtMostOne
    <3>6. version' \in Nat /\ version <= version'
      BY <2>3, <1>1
    <3>7. QED
      BY <1>3, <2>1, <2>2, <3>1, <3>2, <3>3, <3>4, <3>5, <3>6, RequestStep
  <2>4. CASE /\ version < MaxVersion /\ version' = version + 1
             /\ objs' = objs \cup {<<req[c].uid, version + 1>>} /\ DavGoes(c, "unlink")
    <3>1. PICK j : j = [k EXCEPT !.pc = "unlink"]
      OBVIOUS
    <3>2. req' = [req EXCEPT ![c] = j]
      BY <2>4, <3>1, <1>0 DEF DavGoes, DavTypes
    <3>3. j \in DavReqs
      BY <3>1 DEF DavReqs
    <3>4. /\ j.pc = "unlink" /\ j.old = k.old /\ j.uid = k.uid /\ j.name = k.name /\ j.op = k.op
          /\ j.base = k.base
      BY <3>1 DEF DavReqs
    <3>5. \A u \in Uids : u # k.uid => Versions(u)' = Versions(u)
      BY <2>4, <1>0 DEF Versions
    <3>6. Versions(k.uid)' = Versions(k.uid) \cup {version + 1}
      <4>1. \A v : v \in Versions(k.uid) <=> <<k.uid, v>> \in objs
        BY DEF Versions, DavTypes
      <4>2. objs' = objs \cup {<<k.uid, version + 1>>}
        BY <2>4, <1>0
      <4>3. \A v : v \in Versions(k.uid)' <=> <<k.uid, v>> \in objs'
        BY <4>2 DEF Versions, DavTypes
      <4>4. QED
        BY <4>1, <4>2, <4>3
    <3>7. DavTypes'
      <4>1. version' \in 0..MaxVersion
        BY <2>4, <1>1, DavAssumption
      <4>2. objs' \subseteq Uids \X (1..version')
        <5>1. version + 1 \in 1..version' /\ (1..version) \subseteq 1..version'
          BY <2>4, <1>1
        <5>2. QED
          BY <5>1, <2>4, <2>2, <1>0 DEF DavTypes
      <4>3. req' \in [Clients -> DavReqs]
        BY <3>2, <3>3 DEF DavTypes
      <4>4. QED
        BY <4>1, <4>2, <4>3, <2>1 DEF DavTypes
    <3>8. DavShapeOf(j)'
      <4>1. k.old \in Nat
        BY DEF DavReqs
      <4>2. QED
        BY <4>1, <1>1, <1>2, <2>1, <2>4, <3>4 DEF DavShapeOf
    <3>9. ASSUME j.uid \notin crossed PROVE CopiesAt(j)'
      <4>1. Versions(k.uid) \subseteq {k.old}
        BY <1>4, <2>1, <3>4, <3>9 DEF CopiesAt
      <4>2. AtMostOne(Versions(j.uid)' \ {j.old})
        BY <4>1, <3>4, <3>6 DEF AtMostOne
      <4>3. QED
        BY <4>2, <3>4, <2>2 DEF CopiesAt, AtMostOne
    <3>10. ASSUME j.uid \notin crossed, j.base # 0 PROVE BaseAt(j)'
      BY <1>4, <2>1, <3>4, <3>10 DEF BaseAt
    <3>11. version' \in Nat /\ version <= version'
      BY <2>4, <1>1
    <3>12. /\ files' = files /\ names' = names /\ crossed' = crossed
           /\ \A l \in locks' : l \in locks \/ (l.uid = req[c].uid /\ l.by = c)
           /\ j.pc # "idle" /\ j.pc \notin {"find", "insert"} /\ req[c].pc # "idle" /\ req[c].uid = k.uid
      BY <2>1, <3>4
    <3>13. QED
      BY <1>0, <2>2, <3>12, <3>2, <3>3, <3>4, <3>5, <3>7, <3>8, <3>9, <3>10, <3>11, RequestStep
  <2>5. QED
    BY <2>3, <2>4, <1>6 DEF UpsertInsert
<1>7. ASSUME NEW pc \in {"idle", "bind", "unbind"}, k.pc = "unlink", DavGoes(c, pc),
             objs' = objs \ {<<k.uid, k.old>>}, UNCHANGED <<files, names, version, locks, tokens, crossed>>,
             pc = "bind" => k.op = "put" /\ ~files,
             pc = "unbind" => k.op = "delete" /\ ~files
      PROVE  DavInv'
  <2>1. k.uid \in Uids
    BY <1>2, <1>7 DEF DavShapeOf
  <2>2. PICK j \in DavReqs : /\ req' = [req EXCEPT ![c] = j] /\ j.pc = pc
                             /\ pc = "idle" => j = DavIdle
                             /\ pc # "idle" => /\ j.old = k.old /\ j.uid = k.uid /\ j.name = k.name
                                               /\ j.op = k.op /\ j.base = k.base
    <3>1. CASE pc = "idle"
      <4>1. req' = [req EXCEPT ![c] = DavIdle]
        BY <3>1, <1>7 DEF DavGoes
      <4>2. QED
        BY <4>1, <3>1, <1>3
    <3>2. CASE pc # "idle"
      <4>1. PICK j : j = [k EXCEPT !.pc = pc]
        OBVIOUS
      <4>2. req' = [req EXCEPT ![c] = j]
        BY <4>1, <3>2, <1>0, <1>7 DEF DavGoes, DavTypes
      <4>3. j \in DavReqs
        BY <4>1, <3>2, <1>7 DEF DavReqs
      <4>4. /\ j.pc = pc /\ j.old = k.old /\ j.uid = k.uid /\ j.name = k.name /\ j.op = k.op
            /\ j.base = k.base
        BY <4>1 DEF DavReqs
      <4>5. QED
        BY <4>2, <4>3, <4>4, <3>2
    <3>3. QED
      BY <3>1, <3>2
  <2>3. \A u \in Uids : u # k.uid => Versions(u)' = Versions(u)
    BY <1>7 DEF Versions
  <2>4. Versions(k.uid)' = Versions(k.uid) \ {k.old}
    <3>1. \A v : v \in Versions(k.uid) <=> <<k.uid, v>> \in objs
      BY DEF Versions, DavTypes
    <3>2. \A v : v \in Versions(k.uid)' <=> <<k.uid, v>> \in objs'
      BY <1>7 DEF Versions, DavTypes
    <3>3. QED
      BY <1>7, <3>1, <3>2
  <2>5. DavTypes'
    BY <1>7, <2>2 DEF DavTypes
  <2>6. DavShapeOf(j)'
    <3>1. CASE pc = "idle"
      BY <3>1, <1>3, <1>7, <2>2 DEF DavShapeOf
    <3>2. CASE pc # "idle"
      BY <3>2, <1>2, <1>7, <2>1, <2>2 DEF DavShapeOf
    <3>3. QED
      BY <3>1, <3>2
  <2>7. ASSUME k.uid \notin crossed
        PROVE  AtMostOne(Versions(k.uid)') /\ (k.op = "delete" => Versions(k.uid)' = {})
    BY <1>4, <1>7, <2>4, <2>7 DEF CopiesAt, AtMostOne
  <2>8. ASSUME j.pc # "idle", j.uid \notin crossed PROVE CopiesAt(j)'
    <3>1. j.uid = k.uid /\ j.pc \in {"bind", "unbind"} /\ (j.pc = "unbind" => k.op = "delete")
      BY <2>2, <2>8, <1>7
    <3>2. QED
      BY <3>1, <2>7, <2>8 DEF CopiesAt, AtMostOne
  <2>9. j.pc # "idle" => BaseAt(j)'
    BY <2>2 DEF BaseAt
  <2>10. /\ version' \in Nat /\ version <= version' /\ req[c].pc # "idle" /\ req[c].uid = k.uid
         /\ j.pc \notin {"find", "insert"}
    BY <1>0, <1>1, <1>7, <2>2
  <2>11. QED
    BY <1>0, <1>7, <2>1, <2>2, <2>3, <2>5, <2>6, <2>7, <2>8, <2>9, <2>10, RequestStep
<1>8. ASSUME UpsertUnlink(c)
      PROVE  DavInv'
  <2>1. k.op = "put" \/ k.op # "put"
    OBVIOUS
  <2>2. PICK pc \in {"idle", "bind"} : DavGoes(c, pc) /\ (pc = "bind" => k.op = "put" /\ ~files)
    BY <1>8, <1>0 DEF UpsertUnlink
  <2>3. QED
    BY <1>7, <1>8, <2>2, <1>0 DEF UpsertUnlink
<1>9. ASSUME DeleteUnlink(c)
      PROVE  DavInv'
  <2>1. PICK pc \in {"idle", "unbind"} : DavGoes(c, pc) /\ (pc = "unbind" => ~files)
    BY <1>9, <1>0 DEF DeleteUnlink
  <2>2. QED
    BY <1>7, <1>9, <2>1, <1>0 DEF DeleteUnlink
<1>10. ASSUME LockInsert(c)
       PROVE  DavInv'
  <2>1. /\ k.pc = "lock" /\ UNCHANGED <<files, objs, names, version, crossed>>
        /\ req[c].pc # "idle" /\ req[c].uid = k.uid /\ req' = [req EXCEPT ![c] = DavIdle]
        /\ tokens' = tokens + 1 /\ locks' = locks \cup {[token |-> tokens + 1, uid |-> k.uid, by |-> c]}
    BY <1>10, <1>0 DEF LockInsert, DavGoes
  <2>2. k.uid \in Uids
    BY <1>2, <2>1 DEF DavShapeOf
  <2>3. DavTypes'
    <3>1. locks' \subseteq [token : 1..tokens', uid : Uids, by : Clients]
      <4>1. (1..tokens) \subseteq 1..tokens' /\ tokens + 1 \in 1..tokens'
        BY <2>1, <1>1
      <4>2. QED
        BY <4>1, <2>1, <2>2 DEF DavTypes
    <3>2. QED
      BY <3>1, <2>1, <1>1, <1>3 DEF DavTypes
  <2>4. \A u \in Uids : Versions(u)' = Versions(u)
    BY <2>1 DEF Versions
  <2>5. DavShapeOf(DavIdle)'
    BY <1>3, <2>1 DEF DavShapeOf
  <2>6. k.uid \notin crossed => AtMostOne(Versions(k.uid)')
    BY <1>4, <2>1, <2>2, <2>4 DEF CopiesAt
  <2>7. version' \in Nat /\ version <= version'
    BY <2>1, <1>1
  <2>8. \A l \in locks' : l \in locks \/ (l.uid = req[c].uid /\ l.by = c)
    BY <2>1
  <2>9. QED
    BY <1>3, <2>1, <2>2, <2>3, <2>4, <2>5, <2>6, <2>7, <2>8, RequestStep
<1>11. QED
  BY <1>5, <1>6, <1>8, <1>9, <1>10

(* A binding made or given up: the request is done, and one name changes. *)
LEMMA NameStep ==
    ASSUME DavInv, NEW c \in Clients, NEW n \in DavNames, NEW v \in Uids, NEW w \in {NoUid, v},
           req[c].pc # "idle", req[c].uid = v, req[c].name = n, n = DefaultName[v] => w = NoUid,
           req' = [req EXCEPT ![c] = DavIdle], names' = [names EXCEPT ![n] = w],
           v \notin crossed => AtMostOne(Versions(v)),
           UNCHANGED <<files, objs, version, locks, tokens, crossed>>
    PROVE  DavInv'
<1> USE DEF DavInv
<1>1. DavIdle \in DavReqs /\ DavIdle.pc = "idle" /\ DavIdle.op = "none" /\ DavIdle.old = 0 /\ DavIdle.name = NoUid
  BY DEF DavReqs, DavIdle
<1>2. /\ req'[c] = DavIdle
      /\ \A d \in Clients : d # c => req'[d] = req[d]
  BY DEF DavTypes
<1>3. /\ names'[n] = w
      /\ \A m \in DavNames : m # n => names'[m] = names[m]
  BY DEF DavTypes
<1>4. NoUid \notin Uids /\ NoUid \notin DavNames /\ version \in Nat
  BY DavAssumption DEF DavTypes
<1>5. ASSUME NEW d \in Clients, d # c, req[d].pc # "idle", req[d].uid = v \/ req[d].name = n
      PROVE  req[d].uid \in crossed /\ v \in crossed
  BY <1>5, <1>4 DEF DavApart, DavMeet
<1>6. DavTypes'
  <2>1. req' \in [Clients -> DavReqs]
    BY <1>1 DEF DavTypes
  <2>2. names' \in [DavNames -> Uids \cup {NoUid}]
    BY DEF DavTypes
  <2>3. ASSUME NEW u \in Uids PROVE names'[DefaultName[u]] # u
    <3>1. DefaultName[u] \in DavNames /\ names[DefaultName[u]] # u
      BY DavAssumption DEF DavTypes
    <3>2. QED
      BY <3>1, <1>3, <1>4
  <2>4. QED
    BY <2>1, <2>2, <2>3 DEF DavTypes
<1>7. DavShape'
  <2> SUFFICES ASSUME NEW d \in Clients PROVE DavShapeOf(req[d])'
    BY DEF DavShape
  <2>1. CASE d = c
    BY <2>1, <1>1, <1>2, <1>4 DEF DavShapeOf
  <2>2. CASE d # c
    BY <2>2, <1>2 DEF DavShapeOf, DavShape
  <2>3. QED
    BY <2>1, <2>2
<1>8. DavApart'
  <2> SUFFICES ASSUME NEW a \in Clients, NEW d \in Clients, a # d, req'[a].pc # "idle", req'[d].pc # "idle",
                      DavMeet(req[a], req[d])'
               PROVE  req[a].uid \in crossed /\ req[d].uid \in crossed
    BY <1>1, <1>2 DEF DavApart
  <2>1. a # c /\ d # c /\ req'[a] = req[a] /\ req'[d] = req[d]
    BY <1>1, <1>2
  <2>2. CASE DavMeet(req[a], req[d])
    BY <2>1, <2>2 DEF DavApart
  <2>3. CASE ~DavMeet(req[a], req[d])
    <3>1. Names(req[a], req[d].uid)' /\ ~Names(req[a], req[d].uid)
      BY <2>1, <2>3 DEF DavMeet
    <3>2. req[a].name \in DavNames \cup {NoUid}
      BY DEF DavTypes, DavReqs
    <3>3. req[a].name = n /\ req[d].uid = v
      BY <3>1, <3>2, <2>1, <1>3, <1>4 DEF Names
    <3>4. QED
      BY <3>3, <2>1, <1>5
  <2>4. QED
    BY <2>2, <2>3
<1>9. DavCopies'
  <2>1. ASSUME NEW u \in Uids, u \notin crossed, Untouched(u)'
        PROVE  AtMostOne(Versions(u))
    <3>1. CASE u = v
      BY <3>1, <2>1
    <3>2. CASE u # v
      <4>1. Untouched(u)
        BY <3>2, <2>1, <1>2 DEF Untouched
      <4>2. QED
        BY <4>1, <2>1 DEF DavCopies
    <3>3. QED
      BY <3>1, <3>2
  <2>2. ASSUME NEW d \in Clients, req'[d].pc # "idle", req'[d].uid \notin crossed
        PROVE  CopiesAt(req[d])'
    <3>1. req'[d] = req[d]
      BY <2>2, <1>1, <1>2
    <3>2. CopiesAt(req[d])
      BY <2>2, <3>1 DEF DavCopies
    <3>3. QED
      BY <3>1, <3>2 DEF CopiesAt, Versions
  <2>3. QED
    BY <2>1, <2>2 DEF DavCopies, Versions
<1>10. DavBases'
  <2> SUFFICES ASSUME NEW d \in Clients, req'[d].pc # "idle", req'[d].uid \notin crossed, req'[d].base # 0
               PROVE  BaseAt(req[d])'
    BY DEF DavBases
  <2>1. req'[d] = req[d]
    BY <1>1, <1>2
  <2>2. BaseAt(req[d])
    BY <2>1 DEF DavBases
  <2>3. QED
    BY <2>1, <2>2 DEF BaseAt, FindByUid, Versions
<1>11. DavLocks'
  BY <1>1, <1>2 DEF DavLocks, LockBlocks
<1>12. DavNamed'
  <2> SUFFICES ASSUME NEW d \in Clients, req'[d].pc # "idle"
               PROVE  /\ req'[d].op = "put" /\ ~files /\ req'[d].uid \notin crossed
                            => FreeFor(req[d].name, req[d].uid)'
                      /\ req'[d].op = "delete" => names'[req'[d].name] \in {NoUid, req'[d].uid} \cup crossed
    BY DEF DavNamed
  <2>1. d # c /\ req'[d] = req[d]
    BY <1>1, <1>2
  <2>2. /\ req[d].op = "put" /\ ~files /\ req[d].uid \notin crossed => FreeFor(req[d].name, req[d].uid)
        /\ req[d].op = "delete" => names[req[d].name] \in {NoUid, req[d].uid} \cup crossed
    BY <2>1 DEF DavNamed
  <2>3. req[d].name = n => req[d].uid \in crossed /\ v \in crossed
    BY <2>1, <1>5
  <2>4. req[d].op \in {"put", "delete"} => req[d].name \in DavNames
    BY DEF DavShape, DavShapeOf
  <2>5. ASSUME req[d].op = "put", ~files, req[d].uid \notin crossed
        PROVE  FreeFor(req[d].name, req[d].uid)'
    <3>1. names'[req[d].name] = names[req[d].name]
      BY <2>3, <2>4, <2>5, <1>3
    <3>2. UidForResource(req[d].name)' = UidForResource(req[d].name)
      BY <2>1, <3>1 DEF UidForResource
    <3>3. Versions(UidForResource(req[d].name))' = Versions(UidForResource(req[d].name))
      BY <3>2 DEF Versions
    <3>4. QED
      BY <3>2, <3>3, <2>1, <2>2, <2>5 DEF FreeFor
  <2>6. ASSUME req[d].op = "delete"
        PROVE  names'[req[d].name] \in {NoUid, req[d].uid} \cup crossed
    <3>1. CASE req[d].name = n
      BY <3>1, <2>3, <1>3
    <3>2. CASE req[d].name # n
      BY <3>2, <2>2, <2>4, <2>6, <1>3
    <3>3. QED
      BY <3>1, <3>2
  <2>7. QED
    BY <2>1, <2>5, <2>6
<1>13. QED
  BY <1>6, <1>7, <1>8, <1>9, <1>10, <1>11, <1>12

LEMMA AllNameSteps ==
    ASSUME DavInv, NEW c \in Clients, BindResourceName(c) \/ UnbindResourceName(c)
    PROVE  DavInv'
<1> USE DEF DavInv
<1>1. ASSUME BindResourceName(c)
      PROVE  DavInv'
  <2>1. /\ req[c].pc = "bind" /\ req' = [req EXCEPT ![c] = DavIdle]
        /\ UNCHANGED <<files, objs, version, locks, tokens, crossed>>
        /\ names' = [names EXCEPT ![req[c].name] = IF req[c].name = DefaultName[req[c].uid] THEN NoUid
                                                   ELSE req[c].uid]
    BY <1>1 DEF BindResourceName, DavGoes
  <2>2. req[c].uid \in Uids /\ req[c].name \in DavNames
    BY <2>1 DEF DavShape, DavShapeOf
  <2>3. req[c].uid \notin crossed => AtMostOne(Versions(req[c].uid))
    BY <2>1 DEF DavCopies, CopiesAt
  <2>4. PICK n, v, w : n = req[c].name /\ v = req[c].uid /\ w = IF n = DefaultName[v] THEN NoUid ELSE v
    OBVIOUS
  <2>5. n \in DavNames /\ v \in Uids /\ w \in {NoUid, v} /\ (n = DefaultName[v] => w = NoUid)
        /\ names' = [names EXCEPT ![n] = w] /\ (v \notin crossed => AtMostOne(Versions(v)))
    BY <2>1, <2>2, <2>3, <2>4
  <2>6. QED
    BY <2>1, <2>4, <2>5, NameStep
<1>2. ASSUME UnbindResourceName(c)
      PROVE  DavInv'
  <2>1. /\ req[c].pc = "unbind" /\ req' = [req EXCEPT ![c] = DavIdle]
        /\ UNCHANGED <<files, objs, version, locks, tokens, crossed>>
        /\ names' = [names EXCEPT ![req[c].name] = NoUid]
    BY <1>2 DEF UnbindResourceName, DavGoes
  <2>2. req[c].uid \in Uids /\ req[c].name \in DavNames
    BY <2>1 DEF DavShape, DavShapeOf
  <2>3. req[c].uid \notin crossed => AtMostOne(Versions(req[c].uid))
    BY <2>1 DEF DavCopies, CopiesAt, AtMostOne
  <2>4. PICK n, v : n = req[c].name /\ v = req[c].uid
    OBVIOUS
  <2>5. n \in DavNames /\ v \in Uids /\ NoUid \in {NoUid, v}
        /\ names' = [names EXCEPT ![n] = NoUid] /\ (v \notin crossed => AtMostOne(Versions(v)))
    BY <2>1, <2>2, <2>3, <2>4
  <2>6. QED
    BY <2>1, <2>4, <2>5, NameStep
<1>3. QED
  BY <1>1, <1>2

(* Deletions from elsewhere, pruning, and locks that go. *)
LEMMA AllOtherSteps ==
    ASSUME DavInv, (\E o \in objs : DeletedElsewhere(o)) \/ PruneDavNames \/ (\E l \in locks : DavUnlock(l))
    PROVE  DavInv'
<1> USE DEF DavInv
<1>1. ASSUME NEW o \in objs, DeletedElsewhere(o)
      PROVE  DavInv'
  <2>1. /\ objs' = objs \ {o} /\ UNCHANGED <<files, names, version, locks, tokens, req>>
        /\ crossed' = IF \E c \in Clients : req[c].pc # "idle" /\ req[c].uid = o[1]
                      THEN crossed \cup {o[1]} ELSE crossed
    BY <1>1 DEF DeletedElsewhere
  <2>2. crossed \subseteq crossed' /\ crossed' \subseteq Uids
    BY <2>1 DEF DavTypes
  <2>3. DavTypes'
    BY <2>1, <2>2 DEF DavTypes
  <2>4. DavShape'
    BY <2>1 DEF DavShape, DavShapeOf
  <2>5. DavApart'
    BY <2>1, <2>2 DEF DavApart, DavMeet, Names
  <2>6. \A u : Versions(u)' \subseteq Versions(u)
    BY <2>1 DEF Versions
  <2>7. ASSUME NEW d \in Clients, req[d].pc # "idle", req[d].uid \notin crossed'
        PROVE  Versions(req[d].uid)' = Versions(req[d].uid) /\ req[d].uid \notin crossed
    <3>1. req[d].uid # o[1]
      BY <2>1, <2>7
    <3>2. QED
      BY <3>1, <2>1, <2>2, <2>7 DEF Versions
  <2>8. DavCopies'
    <3>1. ASSUME NEW u \in Uids, u \notin crossed', Untouched(u)
          PROVE  AtMostOne(Versions(u)')
      BY <3>1, <2>2, <2>6 DEF DavCopies, AtMostOne
    <3>2. ASSUME NEW d \in Clients, req[d].pc # "idle", req[d].uid \notin crossed'
          PROVE  CopiesAt(req[d])'
      <4>1. CopiesAt(req[d])
        BY <3>2, <2>7 DEF DavCopies
      <4>2. PICK k : k = req[d]
        OBVIOUS
      <4>3. CopiesAt(k) /\ Versions(k.uid)' \subseteq Versions(k.uid)
        BY <4>1, <4>2, <2>6
      <4>4. CopiesAt(k)'
        BY <4>3, CopiesShrink
      <4>5. QED
        BY <4>2, <4>4, <2>1 DEF CopiesAt
    <3>3. QED
      BY <3>1, <3>2, <2>1 DEF DavCopies, Untouched
  <2>9. DavBases'
    <3> SUFFICES ASSUME NEW d \in Clients, req[d].pc # "idle", req[d].uid \notin crossed', req[d].base # 0
                 PROVE  BaseAt(req[d])'
      BY <2>1 DEF DavBases
    <3>1. BaseAt(req[d])
      BY <2>7 DEF DavBases
    <3>2. PICK k : k = req[d]
      OBVIOUS
    <3>3. Versions(k.uid)' = Versions(k.uid)
      BY <3>2, <2>7, <2>1 DEF Versions
    <3>4. FindByUid(k.uid)' = FindByUid(k.uid)
      BY <3>3 DEF FindByUid
    <3>5. QED
      BY <3>1, <3>2, <3>4, <2>1 DEF BaseAt
  <2>10. DavLocks'
    BY <2>1, <2>2 DEF DavLocks, LockBlocks
  <2>11. DavNamed'
    <3> SUFFICES ASSUME NEW d \in Clients, req[d].pc # "idle"
                 PROVE  /\ req[d].op = "put" /\ ~files /\ req[d].uid \notin crossed'
                              => FreeFor(req[d].name, req[d].uid)'
                        /\ req[d].op = "delete" => names[req[d].name] \in {NoUid, req[d].uid} \cup crossed'
      BY <2>1 DEF DavNamed
    <3>1. /\ req[d].op = "put" /\ ~files /\ req[d].uid \notin crossed' => FreeFor(req[d].name, req[d].uid)
          /\ req[d].op = "delete" => names[req[d].name] \in {NoUid, req[d].uid} \cup crossed
      BY <2>2 DEF DavNamed
    <3>2. PICK h : h = UidForResource(req[d].name)
      OBVIOUS
    <3>3. UidForResource(req[d].name)' = h
      BY <3>2, <2>1 DEF UidForResource
    <3>4. Versions(h) = {} => Versions(h)' = {}
      BY <2>6
    <3>5. ASSUME FreeFor(req[d].name, req[d].uid) PROVE FreeFor(req[d].name, req[d].uid)'
      <4>1. h \in crossed \cup {NoUid, req[d].uid} \/ Versions(h) = {}
        BY <3>2, <3>5 DEF FreeFor
      <4>2. CASE h \in crossed \cup {NoUid, req[d].uid}
        BY <4>2, <3>3, <2>1, <2>2 DEF FreeFor
      <4>3. CASE Versions(h)' = {}
        BY <4>3, <3>3 DEF FreeFor, Versions
      <4>4. QED
        BY <4>1, <4>2, <4>3, <3>4
    <3>6. QED
      BY <3>1, <3>5, <2>2
  <2>12. QED
    BY <2>3, <2>4, <2>5, <2>8, <2>9, <2>10, <2>11
<1>2. ASSUME PruneDavNames
      PROVE  DavInv'
  <2> DEFINE Lost == {n \in DavNames : names'[n] # names[n]}
  <2>1. /\ names' = [n \in DavNames |-> IF names[n] # NoUid /\ Versions(names[n]) = {} THEN NoUid ELSE names[n]]
        /\ crossed' = crossed \cup {req[c].uid : c \in {d \in Clients : req[d].name \in Lost}}
        /\ UNCHANGED <<files, objs, version, locks, tokens, req>>
    BY <1>2 DEF PruneDavNames
  <2>2. NoUid \notin Uids /\ NoUid \notin DavNames
    BY DavAssumption
  <2>3. \A n \in DavNames : names'[n] = names[n] \/ (names'[n] = NoUid /\ n \in Lost)
    BY <2>1
  <2>4. \A d \in Clients : req[d].name \in Lost => req[d].uid \in crossed'
    BY <2>1
  <2>5. crossed \subseteq crossed'
    BY <2>1
  <2> HIDE DEF Lost
  <2>6. ASSUME NEW d \in Clients, req[d].op \in {"put", "delete"}, req[d].pc # "idle" PROVE req[d].name \in DavNames
    BY <2>6 DEF DavShape, DavShapeOf
  <2>7. DavTypes'
    <3>1. \A d \in Clients : req[d].name \in Lost => req[d].uid \in Uids
      <4> SUFFICES ASSUME NEW d \in Clients, req[d].name \in Lost PROVE req[d].uid \in Uids
        OBVIOUS
      <4>1. req[d].pc # "idle"
        BY <2>2 DEF Lost, DavShape, DavShapeOf
      <4>2. QED
        BY <4>1 DEF DavShape, DavShapeOf
    <3>2. crossed' \subseteq Uids
      BY <3>1, <2>1 DEF DavTypes
    <3>3. \A u \in Uids : names'[DefaultName[u]] # u
      <4>1. \A u \in Uids : DefaultName[u] \in DavNames
        BY DavAssumption
      <4>2. QED
        BY <4>1, <2>2, <2>3 DEF DavTypes
    <3>4. names' \in [DavNames -> Uids \cup {NoUid}]
      BY <2>1 DEF DavTypes
    <3>5. QED
      BY <3>2, <3>3, <3>4, <2>1 DEF DavTypes
  <2>8. DavShape'
    BY <2>1 DEF DavShape, DavShapeOf
  <2>9. DavApart'
    <3> SUFFICES ASSUME NEW a \in Clients, NEW d \in Clients, a # d, req[a].pc # "idle", req[d].pc # "idle",
                        DavMeet(req[a], req[d])'
                 PROVE  req[a].uid \in crossed' /\ req[d].uid \in crossed'
      BY <2>1 DEF DavApart
    <3>1. ASSUME Names(req[a], req[d].uid)' PROVE Names(req[a], req[d].uid)
      <4>1. req[a].name \in DavNames
        BY <3>1, <2>1 DEF Names, DavTypes, DavReqs
      <4>2. QED
        BY <4>1, <3>1, <2>1, <2>2, <2>3 DEF Names
    <3>2. DavMeet(req[a], req[d])
      BY <3>1, <2>1 DEF DavMeet
    <3>3. QED
      BY <3>2, <2>5 DEF DavApart
  <2>10. DavCopies'
    <3>1. ASSUME NEW u \in Uids, u \notin crossed', Untouched(u) PROVE AtMostOne(Versions(u))
      BY <3>1, <2>5 DEF DavCopies
    <3>2. ASSUME NEW d \in Clients, req[d].pc # "idle", req[d].uid \notin crossed' PROVE CopiesAt(req[d])
      BY <3>2, <2>5 DEF DavCopies
    <3>3. QED
      BY <3>1, <3>2, <2>1 DEF DavCopies, CopiesAt, Untouched, Versions
  <2>11. DavBases'
    <3>1. ASSUME NEW d \in Clients, req[d].pc # "idle", req[d].uid \notin crossed', req[d].base # 0
          PROVE  BaseAt(req[d])
      BY <3>1, <2>5 DEF DavBases
    <3>2. QED
      BY <3>1, <2>1 DEF DavBases, BaseAt, FindByUid, Versions
  <2>12. DavLocks'
    BY <2>1, <2>5 DEF DavLocks, LockBlocks
  <2>13. DavNamed'
    <3> SUFFICES ASSUME NEW d \in Clients, req[d].pc # "idle"
                 PROVE  /\ req[d].op = "put" /\ ~files /\ req[d].uid \notin crossed'
                              => FreeFor(req[d].name, req[d].uid)'
                        /\ req[d].op = "delete" => names'[req[d].name] \in {NoUid, req[d].uid} \cup crossed'
      BY <2>1 DEF DavNamed
    <3>1. /\ req[d].op = "put" /\ ~files /\ req[d].uid \notin crossed => FreeFor(req[d].name, req[d].uid)
          /\ req[d].op = "delete" => names[req[d].name] \in {NoUid, req[d].uid} \cup crossed
      BY DEF DavNamed
    <3>2. ASSUME req[d].op = "put", ~files, req[d].uid \notin crossed' PROVE FreeFor(req[d].name, req[d].uid)'
      <4>1. names'[req[d].name] = names[req[d].name]
        BY <3>2, <2>3, <2>4, <2>6
      <4>2. UidForResource(req[d].name)' = UidForResource(req[d].name)
        BY <4>1, <2>1 DEF UidForResource
      <4>3. Versions(UidForResource(req[d].name))' = Versions(UidForResource(req[d].name))
        BY <4>2, <2>1 DEF Versions
      <4>4. QED
        BY <3>1, <3>2, <4>2, <4>3, <2>1, <2>5 DEF FreeFor
    <3>3. ASSUME req[d].op = "delete" PROVE names'[req[d].name] \in {NoUid, req[d].uid} \cup crossed'
      BY <3>1, <3>3, <2>3, <2>5, <2>6
    <3>4. QED
      BY <3>2, <3>3
  <2>14. QED
    BY <2>7, <2>8, <2>9, <2>10, <2>11, <2>12, <2>13
<1>3. ASSUME NEW l \in locks, DavUnlock(l)
      PROVE  DavInv'
  <2>1. locks' = locks \ {l} /\ UNCHANGED <<files, objs, names, version, tokens, req, crossed>>
    BY <1>3 DEF DavUnlock
  <2>2. DavTypes'
    BY <2>1 DEF DavTypes
  <2>3. DavShape' /\ DavApart'
    BY <2>1 DEF DavShape, DavShapeOf, DavApart, DavMeet, Names
  <2>4. DavCopies'
    BY <2>1 DEF DavCopies, CopiesAt, Untouched, Versions
  <2>5. DavBases'
    BY <2>1 DEF DavBases, BaseAt, FindByUid, Versions
  <2>6. DavLocks'
    BY <2>1 DEF DavLocks, LockBlocks
  <2>7. DavNamed'
    BY <2>1 DEF DavNamed, FreeFor, UidForResource, Versions
  <2>8. QED
    BY <2>2, <2>3, <2>4, <2>5, <2>6, <2>7
<1>4. QED
  BY <1>1, <1>2, <1>3

LEMMA DavStep ==
    ASSUME DavInv, [DavNext]_dvars
    PROVE  DavInv'
<1>1. CASE UNCHANGED dvars
  <2> USE <1>1 DEF dvars, DavInv
  <2>1. DavTypes' /\ DavShape'
    BY DEF DavTypes, DavShape, DavShapeOf
  <2>2. DavApart'
    BY DEF DavApart, DavMeet, Names
  <2>3. DavCopies'
    BY DEF DavCopies, CopiesAt, Untouched, Versions
  <2>4. DavBases'
    BY DEF DavBases, BaseAt, FindByUid, Versions
  <2>5. DavLocks'
    BY DEF DavLocks, LockBlocks
  <2>6. DavNamed'
    BY DEF DavNamed, FreeFor, UidForResource, Versions
  <2>7. QED
    BY <2>1, <2>2, <2>3, <2>4, <2>5, <2>6
<1>2. ASSUME NEW c \in Clients,
             \/ \E n \in DavNames, u \in Uids, b \in 0..version, cr \in BOOLEAN : DavPut(c, n, u, b, cr)
             \/ \E u \in Uids : WebSave(c, u)
             \/ \E n \in DavNames, b \in 0..version : DavDelete(c, n, b)
             \/ \E u \in Uids : DavLock(c, u)
      PROVE  DavInv'
  BY <1>2, DavBegins
<1>3. ASSUME NEW c \in Clients,
             UpsertFind(c) \/ UpsertInsert(c) \/ UpsertUnlink(c) \/ DeleteUnlink(c) \/ LockInsert(c)
      PROVE  DavInv'
  BY <1>3, AllRequestSteps
<1>4. ASSUME NEW c \in Clients, BindResourceName(c) \/ UnbindResourceName(c)
      PROVE  DavInv'
  BY <1>4, AllNameSteps
<1>5. CASE (\E o \in objs : DeletedElsewhere(o)) \/ PruneDavNames \/ (\E l \in locks : DavUnlock(l))
  BY <1>5, AllOtherSteps
<1>6. QED
  BY <1>1, <1>2, <1>3, <1>4, <1>5 DEF DavNext

LEMMA DavFirst ==
    ASSUME DavInit
    PROVE  DavInv
<1> USE DEF DavInit
<1>1. DavIdle \in DavReqs /\ DavIdle.pc = "idle" /\ DavIdle.op = "none" /\ DavIdle.old = 0 /\ DavIdle.name = NoUid
  BY DEF DavReqs, DavIdle
<1>2. \A c \in Clients : req[c] = DavIdle
  OBVIOUS
<1>3. \A u : Versions(u) = {}
  BY DEF Versions
<1>4. DavTypes
  <2>1. \A u \in Uids : names[DefaultName[u]] # u
    BY DavAssumption
  <2>2. version \in 0..MaxVersion /\ tokens \in Nat
    BY DavAssumption
  <2>3. req \in [Clients -> DavReqs]
    BY <1>1
  <2>4. QED
    BY <2>1, <2>2, <2>3 DEF DavTypes
<1>5. DavShape
  BY <1>1, <1>2 DEF DavShape, DavShapeOf
<1>6. DavApart /\ DavBases /\ DavLocks /\ DavNamed
  BY <1>1, <1>2 DEF DavApart, DavBases, DavLocks, DavNamed
<1>7. DavCopies
  BY <1>1, <1>2, <1>3 DEF DavCopies, AtMostOne
<1>8. QED
  BY <1>4, <1>5, <1>6, <1>7 DEF DavInv

LEMMA DavInvHolds == DavSpec => []DavInv
<1>1. DavInit => DavInv
  BY DavFirst
<1>2. DavInv /\ [DavNext]_dvars => DavInv'
  BY DavStep
<1>3. QED
  BY <1>1, <1>2, PTL DEF DavSpec

LEMMA SingleIsSmall ==
    ASSUME NEW S, AtMostOne(S)
    PROVE  Cardinality(S) <= 1
<1>1. CASE S = {}
  BY <1>1, FS_EmptySet
<1>2. CASE S # {}
  <2>1. PICK v \in S : TRUE
    BY <1>2
  <2>2. S = {v}
    BY <2>1 DEF AtMostOne
  <2>3. Cardinality({v}) = 1
    BY FS_Singleton
  <2>4. QED
    BY <2>2, <2>3
<1>3. QED
  BY <1>1, <1>2

(* What the requests of a collection's clients may rely on: a conditional   *)
(* write takes away the version it named, an object that was replaced is    *)
(* there once, and nobody writes under another's lock, unless requests for  *)
(* the object crossed.                                                      *)
THEOREM WritesAreAlwaysHonest == DavSpec => []WritesAreHonest
<1>1. ASSUME DavInv PROVE WritesAreHonest
  <2> USE <1>1 DEF DavInv
  <2>1. ConditionalUnlessCrossed
    BY DEF ConditionalUnlessCrossed, DavBases, BaseAt
  <2>2. OneCopyUnlessCrossed
    <3> SUFFICES ASSUME NEW u \in Uids \ crossed, \A c \in Clients : req[c].pc = "idle" \/ req[c].uid # u
                 PROVE  Cardinality(Versions(u)) <= 1
      BY DEF OneCopyUnlessCrossed
    <3>1. AtMostOne(Versions(u))
      BY DEF DavCopies, Untouched
    <3>2. QED
      BY <3>1, SingleIsSmall
  <2>3. LockedOut
    BY DEF LockedOut, DavLocks, LockBlocks
  <2>4. QED
    BY <2>1, <2>2, <2>3 DEF WritesAreHonest
<1>2. QED
  BY <1>1, DavInvHolds, PTL

(* A name that leads to an object goes on leading to it; only requests that *)
(* crossed, for it or for what the name leads to next, can change that.     *)
THEOREM NamesAreKept == DavSpec => NameKeepsItsObject
<1>1. ASSUME DavInv, [DavNext]_dvars, NEW n \in DavNames, NEW u, u = UidForResource(n), u # NoUid, Versions(u) # {}
      PROVE  UidForResource(n)' = u \/ u \in crossed \/ UidForResource(n)' \in crossed
  <2> USE <1>1 DEF DavInv
  <2>0. /\ NoUid \notin Uids /\ DavTypes /\ u \in Uids /\ DavTypes'
    <3>1. DavInv'
      BY DavStep
    <3>2. QED
      BY <3>1, DavAssumption, ResourceFacts
  <2>1. CASE names'[n] = names[n]
    BY <2>1 DEF UidForResource
  <2>2. ASSUME NEW c \in Clients, BindResourceName(c), names'[n] # names[n]
        PROVE  u \in crossed \/ UidForResource(n)' = u \/ UidForResource(n)' \in crossed
    <3>1. /\ req[c].pc = "bind" /\ req[c].uid \in Uids /\ req[c].op = "put" /\ ~files
          /\ names' = [names EXCEPT ![req[c].name] = IF req[c].name = DefaultName[req[c].uid] THEN NoUid
                                                     ELSE req[c].uid]
      BY <2>2 DEF BindResourceName, DavShape, DavShapeOf
    <3>2. n = req[c].name
      BY <3>1, <2>2 DEF DavTypes
    <3>3. UidForResource(n)' = req[c].uid
      <4>1. CASE n = DefaultName[req[c].uid]
        <5>1. names'[n] = NoUid
          BY <3>1, <3>2, <4>1 DEF DavTypes
        <5>2. \A v \in Uids : DefaultName[v] = n <=> v = req[c].uid
          BY <4>1, <3>1, DavAssumption
        <5>3. QED
          BY <5>1, <5>2, <3>1 DEF UidForResource
      <4>2. CASE n # DefaultName[req[c].uid]
        <5>1. names'[n] = req[c].uid
          BY <3>1, <3>2, <4>2 DEF DavTypes
        <5>2. QED
          BY <5>1, <3>1, <2>0 DEF UidForResource
      <4>3. QED
        BY <4>1, <4>2
    <3>4. req[c].uid \notin crossed => FreeFor(n, req[c].uid)
      BY <3>1, <3>2 DEF DavNamed
    <3>5. QED
      BY <3>3, <3>4, <2>0 DEF FreeFor
  <2>3. ASSUME NEW c \in Clients, UnbindResourceName(c), names'[n] # names[n]
        PROVE  u \in crossed
    <3>1. /\ req[c].pc = "unbind" /\ req[c].uid \in Uids /\ req[c].op = "delete"
          /\ names' = [names EXCEPT ![req[c].name] = NoUid]
      BY <2>3 DEF UnbindResourceName, DavShape, DavShapeOf
    <3>2. n = req[c].name
      BY <3>1, <2>3 DEF DavTypes
    <3>3. names[n] # NoUid
      BY <3>1, <3>2, <2>3 DEF DavTypes
    <3>4. u = names[n] /\ u \in {req[c].uid} \cup crossed
      BY <3>1, <3>2, <3>3, <2>0, ResourceFacts DEF DavNamed
    <3>5. req[c].uid \notin crossed => Versions(req[c].uid) = {}
      BY <3>1 DEF DavCopies, CopiesAt
    <3>6. QED
      BY <3>4, <3>5
  <2>4. ASSUME PruneDavNames, names'[n] # names[n]
        PROVE  FALSE
    <3>1. names[n] # NoUid /\ Versions(names[n]) = {}
      BY <2>4 DEF PruneDavNames
    <3>2. u = names[n]
      BY <3>1, <2>0, ResourceFacts
    <3>3. QED
      BY <3>1, <3>2
  <2>5. \/ \E c \in Clients : BindResourceName(c) \/ UnbindResourceName(c)
        \/ PruneDavNames
        \/ names' = names
    <3>1. ASSUME NEW c \in Clients,
                 \/ \E m \in DavNames, v \in Uids, b \in 0..version, cr \in BOOLEAN : DavPut(c, m, v, b, cr)
                 \/ \E v \in Uids : WebSave(c, v)
                 \/ \E m \in DavNames, b \in 0..version : DavDelete(c, m, b)
                 \/ \E v \in Uids : DavLock(c, v)
          PROVE  names' = names
      <4>1. \A j : Begin(c, j) => names' = names
        BY DEF Begin
      <4>2. QED
        BY <3>1, <4>1 DEF DavPut, WebSave, DavDelete, DavLock
    <3>2. ASSUME NEW c \in Clients,
                 UpsertFind(c) \/ UpsertInsert(c) \/ UpsertUnlink(c) \/ DeleteUnlink(c) \/ LockInsert(c)
          PROVE  names' = names
      BY <3>2 DEF UpsertFind, UpsertInsert, UpsertUnlink, DeleteUnlink, LockInsert
    <3>3. CASE (\E o \in objs : DeletedElsewhere(o)) \/ (\E l \in locks : DavUnlock(l)) \/ UNCHANGED dvars
      BY <3>3 DEF DeletedElsewhere, DavUnlock, dvars
    <3>4. QED
      BY <3>1, <3>2, <3>3 DEF DavNext
  <2>6. QED
    BY <2>1, <2>2, <2>3, <2>4, <2>5
<1>2. ASSUME DavInv, [DavNext]_dvars
      PROVE  [\A n \in DavNames :
                 LET u == UidForResource(n)
                     v == UidForResource(n)'
                 IN  (u # NoUid /\ Versions(u) # {}) => v = u \/ u \in crossed \/ v \in crossed]_dvars
  <2>1. ASSUME NEW n \in DavNames, UidForResource(n) # NoUid, Versions(UidForResource(n)) # {}
        PROVE  \/ UidForResource(n)' = UidForResource(n) \/ UidForResource(n) \in crossed
               \/ UidForResource(n)' \in crossed
    <3>1. PICK u : u = UidForResource(n)
      OBVIOUS
    <3>2. u # NoUid /\ Versions(u) # {}
      BY <2>1, <3>1
    <3>3. QED
      BY <1>1, <1>2, <3>1, <3>2
  <2>2. QED
    BY <2>1
<1>3. QED
  BY <1>2, DavInvHolds, PTL DEF DavSpec, NameKeepsItsObject

-----------------------------------------------------------------------------

(***************************************************************************)
(* A remote source polled                                                  *)
(***************************************************************************)

FeedRows == [uidvalidity : Nat, lastUid : Nat, etag : Nat]
FetchSources == [kind : Kinds, leave : BOOLEAN, last : Nat, here : SUBSET Nat, valid : Nat]
FetchRuns == [pc : {"idle", "next", "store", "mark", "record", "prune"}, row : FeedRows, todo : SUBSET Nat,
              at : Nat, pulled : Nat, high : Nat, del : SUBSET Nat, valid : Nat, etag : Nat]

FetchTypes ==
    /\ source \in FetchSources /\ source.last <= MaxItem /\ source.valid # 0
    /\ source.here \subseteq 1..source.last
    /\ feed \in FeedRows
    /\ seen \subseteq (0..source.valid) \X (1..source.last)
    /\ stored \in [Items -> Nat]
    /\ run \in [Runners -> FetchRuns]
    /\ gone \subseteq 1..source.last

(* A row of the feed never speaks of what the source has not had yet. *)
RowOK(row) ==
    /\ row.uidvalidity <= source.valid /\ row.lastUid <= source.last /\ row.etag <= source.last
    /\ row.uidvalidity = 0 => row.lastUid = 0

(* What a later run may pass by without losing it. *)
Settled(i) == stored[i] > 0 \/ i \in Big \cup passed

(* A run: what it has taken off its list was settled, and so is all that    *)
(* its watermark covers.  etag is the last item there was when it began.    *)
RunOK(j) ==
    /\ RowOK(j.row)
    /\ j.todo \subseteq 1..j.etag /\ j.etag <= source.last /\ j.high <= source.last /\ j.pulled <= PerRun
    /\ j.del \subseteq 1..source.last /\ (\A i \in j.del : stored[i] > 0)
    /\ j.pc \notin {"idle", "prune"} => j.valid = source.valid
    /\ j.pc \in {"store", "mark"} => j.at \in j.todo /\ (\A m \in j.todo : j.at <= m) /\ j.pulled < PerRun
    /\ j.pc \notin {"store", "mark"} => j.at = 0
    /\ j.pc = "mark" => stored[j.at] > 0
    /\ \A i \in source.here : i <= j.etag /\ i \notin j.todo => Settled(i)
    /\ source.kind = "imap" => \A i \in source.here : i <= j.high => Settled(i)
    /\ source.kind = "rss" /\ j.pc = "record" => \A i \in source.here : i <= j.etag => Settled(i)
RunsOK == \A r \in Runners : RunOK(run[r])

FeedOK ==
    /\ RowOK(feed)
    /\ source.kind = "imap" /\ feed.uidvalidity = source.valid
          => \A i \in source.here : i <= feed.lastUid => Settled(i)
    /\ source.kind = "rss" => \A i \in source.here : i <= feed.etag => Settled(i)

SeenWasStored == \A k \in seen : stored[k[2]] > 0
GoneWasStored == gone \cap source.here = {} /\ \A i \in gone : stored[i] > 0

(* Two runs have an item in hand only if it is excused. *)
RunsApart == \A r, q \in Runners : r # q /\ run[r].at = run[q].at => run[r].at \in excused \cup {0}

(* An item that was posted is remembered, or about to be. *)
CurrentKey(i) == <<IF source.kind = "imap" THEN source.valid ELSE 0, i>>
PostedOnce ==
    \A i \in Items \ excused :
        /\ stored[i] <= 1
        /\ stored[i] > 0 => CurrentKey(i) \in seen \/ \E r \in Runners : run[r].pc = "mark" /\ run[r].at = i
        /\ \A r \in Runners : run[r].pc = "store" /\ run[r].at = i => stored[i] = 0

FetchInv ==
    FetchTypes /\ RunsOK /\ FeedOK /\ SeenWasStored /\ GoneWasStored /\ RunsApart /\ PostedOnce

(* What every step but a renumbering does at most to the world of a run. *)
FetchGrows ==
    /\ source'.kind = source.kind /\ source'.valid = source.valid
    /\ source.last <= source'.last /\ source'.last \in Nat /\ source'.here \subseteq Items
    /\ \A i \in source'.here : i \in source.here \/ i > source.last
    /\ \A i \in Items : stored[i] > 0 => stored'[i] > 0
    /\ passed \subseteq passed'

LEMMA FetchFacts ==
    ASSUME FetchTypes
    PROVE  /\ source.last \in Nat /\ source.valid \in Nat \ {0} /\ MaxItem \in Nat /\ PerRun \in Nat
           /\ source.here \subseteq Items /\ (1..source.last) \subseteq Items /\ source.kind \in Kinds
           /\ source.leave \in BOOLEAN
<1>1. MaxItem \in Nat /\ PerRun \in Nat
  BY FetchAssumption
<1>2. /\ source.last \in Nat /\ source.valid \in Nat \ {0} /\ source.last <= MaxItem
      /\ source.here \subseteq 1..source.last /\ source.kind \in Kinds
  BY DEF FetchTypes, FetchSources
<1>3. source.leave \in BOOLEAN
  BY DEF FetchTypes, FetchSources
<1>4. QED
  BY <1>1, <1>2, <1>3 DEF Items

LEMMA RunFields ==
    ASSUME NEW j \in FetchRuns
    PROVE  /\ j.at \in Nat /\ j.pulled \in Nat /\ j.high \in Nat /\ j.valid \in Nat /\ j.etag \in Nat
           /\ j.todo \subseteq Nat /\ j.del \subseteq Nat /\ j.row \in FeedRows
           /\ j.row.uidvalidity \in Nat /\ j.row.lastUid \in Nat /\ j.row.etag \in Nat
BY DEF FetchRuns, FeedRows

LEMMA SettledStays ==
    ASSUME FetchTypes, FetchGrows, NEW i \in Items, Settled(i)
    PROVE  Settled(i)'
BY DEF Settled, FetchGrows

LEMMA RowStays ==
    ASSUME FetchTypes, FetchGrows, NEW row \in FeedRows, RowOK(row)
    PROVE  RowOK(row)'
<1>1. row.uidvalidity \in Nat /\ row.lastUid \in Nat /\ row.etag \in Nat
  BY DEF FeedRows
<1>2. QED
  BY <1>1, FetchFacts DEF RowOK, FetchGrows

LEMMA RunStays ==
    ASSUME FetchTypes, FetchGrows, NEW j \in FetchRuns, RunOK(j)
    PROVE  RunOK(j)'
<1> USE RunFields, FetchFacts
<1>1. RowOK(j.row)'
  BY RowStays DEF RunOK
<1>2. /\ j.todo \subseteq 1..j.etag /\ j.etag <= source'.last /\ j.high <= source'.last /\ j.pulled <= PerRun
      /\ j.del \subseteq 1..source'.last
  <2>1. /\ j.todo \subseteq 1..j.etag /\ j.etag <= source.last /\ j.high <= source.last /\ j.pulled <= PerRun
        /\ j.del \subseteq 1..source.last
    BY DEF RunOK
  <2>2. (1..source.last) \subseteq 1..source'.last
    BY DEF FetchGrows
  <2>3. QED
    BY <2>1, <2>2 DEF FetchGrows
<1>3. \A i \in j.del : stored'[i] > 0
  BY DEF RunOK, FetchGrows
<1>4. /\ j.pc \notin {"idle", "prune"} => j.valid = source'.valid
      /\ j.pc \in {"store", "mark"} => j.at \in j.todo /\ (\A m \in j.todo : j.at <= m) /\ j.pulled < PerRun
      /\ j.pc \notin {"store", "mark"} => j.at = 0
  BY DEF RunOK, FetchGrows
<1>5. j.pc = "mark" => stored'[j.at] > 0
  <2> SUFFICES ASSUME j.pc = "mark" PROVE stored'[j.at] > 0
    OBVIOUS
  <2>1. j.at \in j.todo /\ j.todo \subseteq 1..j.etag /\ j.etag <= source.last /\ stored[j.at] > 0
    BY DEF RunOK
  <2>2. j.at \in 1..source.last
    BY <2>1
  <2>3. QED
    BY <2>1, <2>2 DEF FetchGrows
<1>6. ASSUME NEW i \in source'.here, i <= j.etag \/ i <= j.high
      PROVE  i \in source.here /\ i \in Items
  BY <1>6 DEF RunOK, FetchGrows, Items
<1>7. \A i \in source'.here : i <= j.etag /\ i \notin j.todo => Settled(i)'
  BY <1>6, SettledStays DEF RunOK
<1>8. source'.kind = "imap" => \A i \in source'.here : i <= j.high => Settled(i)'
  BY <1>6, SettledStays DEF RunOK, FetchGrows
<1>9. source'.kind = "rss" /\ j.pc = "record" => \A i \in source'.here : i <= j.etag => Settled(i)'
  BY <1>6, SettledStays DEF RunOK, FetchGrows
<1> HIDE RunFields, FetchFacts
<1>10. QED
  BY <1>1, <1>2, <1>3, <1>4, <1>5, <1>7, <1>8, <1>9 DEF RunOK

(* A step of one run leaves the others as good as they were. *)
LEMMA OneRunSteps ==
    ASSUME FetchInv, FetchGrows, NEW r \in Runners, NEW j \in FetchRuns, run' = [run EXCEPT ![r] = j], RunOK(j)'
    PROVE  RunsOK' /\ run' \in [Runners -> FetchRuns] /\ run'[r] = j /\ \A q \in Runners : q # r => run'[q] = run[q]
<1> USE DEF FetchInv
<1>1. /\ run' \in [Runners -> FetchRuns] /\ run'[r] = j
      /\ \A q \in Runners : q # r => run'[q] = run[q]
  BY DEF FetchTypes
<1>2. ASSUME NEW q \in Runners PROVE RunOK(run[q])'
  <2>1. CASE q = r
    BY <2>1, <1>1 DEF RunOK, RowOK, Settled
  <2>2. CASE q # r
    <3>1. PICK k \in FetchRuns : k = run[q] /\ RunOK(k)
      BY DEF FetchTypes, RunsOK
    <3>2. RunOK(k)'
      BY <3>1, RunStays
    <3>3. k = run'[q]
      BY <3>1, <2>2, <1>1
    <3>4. QED
      BY <3>2, <3>3 DEF RunOK, RowOK, Settled
  <2>3. QED
    BY <2>1, <2>2
<1>3. QED
  BY <1>1, <1>2 DEF RunsOK

LEMMA FeedStays ==
    ASSUME FetchInv, FetchGrows, feed' = feed
    PROVE  FeedOK'
<1> USE DEF FetchInv
<1>1. PICK f \in FeedRows : f = feed
  BY DEF FetchTypes
<1>2. RowOK(f)'
  BY <1>1, RowStays DEF FeedOK
<1>3. f.lastUid \in Nat /\ f.etag \in Nat /\ f.lastUid <= source.last /\ f.etag <= source.last
  BY <1>1 DEF FeedRows, FeedOK, RowOK
<1>4. ASSUME NEW i \in source'.here, i <= f.lastUid \/ i <= f.etag
      PROVE  i \in source.here /\ i \in Items
  BY <1>3, <1>4, FetchFacts DEF FetchGrows, Items
<1>5. source'.kind = "imap" /\ f.uidvalidity = source'.valid
          => \A i \in source'.here : i <= f.lastUid => Settled(i)'
  BY <1>1, <1>4, SettledStays DEF FeedOK, FetchGrows
<1>6. source'.kind = "rss" => \A i \in source'.here : i <= f.etag => Settled(i)'
  BY <1>1, <1>4, SettledStays DEF FeedOK, FetchGrows
<1>7. f = feed'
  BY <1>1
<1>8. RowOK(feed)'
  BY <1>2, <1>7 DEF RowOK
<1>9. QED
  BY <1>5, <1>6, <1>7, <1>8 DEF FeedOK, Settled

LEMMA IdleIsOK ==
    ASSUME FetchTypes, NEW j, j \in {FetchIdle, [FetchIdle EXCEPT !.pc = "prune"]}
    PROVE  j \in FetchRuns /\ RunOK(j) /\ j.at = 0 /\ j.pc \in {"idle", "prune"}
<1>1. j \in FetchRuns
  BY DEF FetchRuns, FetchIdle, FeedRows
<1>2. /\ j.pc \in {"idle", "prune"} /\ j.todo = {} /\ j.at = 0 /\ j.pulled = 0 /\ j.high = 0 /\ j.del = {}
      /\ j.etag = 0
  BY DEF FetchIdle
<1>3. j.row.uidvalidity = 0 /\ j.row.lastUid = 0 /\ j.row.etag = 0
  BY DEF FetchIdle
<1>4. RowOK(j.row)
  BY <1>3, FetchFacts DEF RowOK
<1>5. \A i \in source.here : ~(i <= 0)
  <2>1. source.here \subseteq 1..source.last
    BY DEF FetchTypes
  <2>2. QED
    BY <2>1, FetchFacts
<1>6. QED
  BY <1>1, <1>2, <1>4, <1>5, FetchFacts DEF RunOK

LEMMA SourceSteps ==
    ASSUME FetchInv, SourceGrows \/ SourceRenumbers
    PROVE  FetchInv'
<1> USE DEF FetchInv
<1>0. source \in FetchSources
  BY DEF FetchTypes
<1>1. ASSUME SourceGrows
      PROVE  FetchInv'
  <2>1. /\ source.last < MaxItem /\ UNCHANGED <<feed, seen, stored, run, gone, passed, excused>>
        /\ source' = [source EXCEPT !.last = @ + 1, !.here = @ \cup {source.last + 1}]
    BY <1>1 DEF SourceGrows
  <2>2. /\ source'.kind = source.kind /\ source'.valid = source.valid /\ source'.last = source.last + 1
        /\ source'.here = source.here \cup {source.last + 1} /\ source'.leave = source.leave
    BY <2>1, <1>0 DEF FetchSources
  <2>3. source' \in FetchSources
    <3>1. source.last + 1 \in Nat /\ source.here \cup {source.last + 1} \in SUBSET Nat
      BY <1>0, FetchFacts DEF FetchSources
    <3>2. QED
      BY <2>1, <3>1, <1>0 DEF FetchSources
  <2>4. FetchGrows
    BY <2>1, <2>2, FetchFacts DEF FetchGrows, Items
  <2>5. (1..source.last) \subseteq 1..source'.last /\ source.last + 1 \in 1..source'.last
    BY <2>2, FetchFacts
  <2>6. FetchTypes'
    BY <2>1, <2>2, <2>3, <2>5, FetchFacts DEF FetchTypes
  <2>7. RunsOK'
    <3> SUFFICES ASSUME NEW q \in Runners PROVE RunOK(run[q])'
      BY DEF RunsOK
    <3>1. PICK k \in FetchRuns : k = run[q] /\ RunOK(k)
      BY DEF FetchTypes, RunsOK
    <3>2. RunOK(k)'
      BY <3>1, <2>4, RunStays
    <3>3. QED
      BY <3>1, <3>2, <2>1 DEF RunOK, RowOK, Settled
  <2>8. FeedOK'
    BY <2>1, <2>4, FeedStays
  <2>9. SeenWasStored' /\ RunsApart'
    BY <2>1 DEF SeenWasStored, RunsApart
  <2>10. GoneWasStored'
    <3>1. source.last + 1 \notin gone
      BY FetchFacts DEF FetchTypes
    <3>2. QED
      BY <3>1, <2>1, <2>2 DEF GoneWasStored
  <2>11. PostedOnce'
    BY <2>1, <2>2 DEF PostedOnce, CurrentKey
  <2>12. QED
    BY <2>6, <2>7, <2>8, <2>9, <2>10, <2>11
<1>2. ASSUME SourceRenumbers
      PROVE  FetchInv'
  <2>1. /\ source.kind = "imap" /\ \A r \in Runners : run[r].pc = "idle"
        /\ UNCHANGED <<feed, seen, stored, run, gone, passed>>
        /\ source' = [source EXCEPT !.valid = @ + 1]
        /\ excused' = excused \cup {i \in Items : stored[i] > 0}
    BY <1>2 DEF SourceRenumbers
  <2>2. /\ source'.kind = source.kind /\ source'.valid = source.valid + 1 /\ source'.last = source.last
        /\ source'.here = source.here
    BY <2>1, <1>0 DEF FetchSources
  <2>3. source' \in FetchSources /\ source.valid + 1 \in Nat
    <3>1. source.valid + 1 \in Nat
      BY FetchFacts
    <3>2. QED
      BY <2>1, <3>1, <1>0 DEF FetchSources
  <2>4. FetchTypes'
    <3>1. (0..source.valid) \subseteq 0..source'.valid
      BY <2>2, FetchFacts
    <3>2. source'.valid # 0
      BY <2>2, FetchFacts
    <3>3. QED
      BY <3>1, <3>2, <2>1, <2>2, <2>3 DEF FetchTypes
  <2>5. \A row \in FeedRows : RowOK(row) => RowOK(row)'
    BY <2>2, FetchFacts DEF RowOK, FeedRows
  <2>6. RunsOK'
    <3> SUFFICES ASSUME NEW q \in Runners PROVE RunOK(run[q])'
      BY DEF RunsOK
    <3>1. PICK k \in FetchRuns : k = run[q] /\ RunOK(k) /\ k.pc = "idle"
      BY <2>1 DEF FetchTypes, RunsOK
    <3>2. RowOK(k.row)'
      BY <3>1, <2>5, RunFields DEF RunOK
    <3>3. RunOK(k)'
      BY <3>1, <3>2, <2>1, <2>2 DEF RunOK, Settled
    <3>4. QED
      BY <3>1, <3>3, <2>1 DEF RunOK, RowOK, Settled
  <2>7. FeedOK'
    <3>1. RowOK(feed)'
      BY <2>1, <2>2, FetchFacts DEF FeedOK, RowOK, FetchTypes, FeedRows
    <3>2. feed'.uidvalidity # source'.valid /\ source'.kind # "rss"
      BY <2>1, <2>2, FetchFacts DEF FeedOK, RowOK, FetchTypes, FeedRows
    <3>3. QED
      BY <3>1, <3>2 DEF FeedOK
  <2>8. SeenWasStored' /\ GoneWasStored' /\ RunsApart'
    BY <2>1, <2>2 DEF SeenWasStored, GoneWasStored, RunsApart
  <2>9. PostedOnce'
    <3>1. \A i \in Items \ excused' : stored[i] \in Nat /\ ~(stored[i] > 0)
      BY <2>1 DEF FetchTypes
    <3>2. \A i \in Items \ excused' : stored[i] = 0
      BY <3>1
    <3>3. QED
      BY <3>2, <2>1 DEF PostedOnce
  <2>10. QED
    BY <2>4, <2>6, <2>7, <2>8, <2>9
<1>3. QED
  BY <1>1, <1>2

(* A run that begins lists what is above its watermark; what is not above   *)
(* it was settled before.                                                   *)
LEMMA RunBegins ==
    ASSUME FetchInv, NEW r \in Runners, RunFeed(r)
    PROVE  FetchInv'
<1> USE DEF FetchInv
<1>1. FetchTypes /\ run[r] \in FetchRuns /\ feed \in FeedRows /\ RowOK(feed)
  BY DEF FetchTypes, FeedOK
<1>2. PICK h : h = FromUid(feed)
  OBVIOUS
<1>3. PICK t : t = Listed(feed)
  OBVIOUS
<1>4. PICK j : j = [FetchIdle EXCEPT !.pc = "next", !.row = feed, !.todo = t, !.high = h,
                                     !.valid = source.valid, !.etag = source.last]
  OBVIOUS
<1>5. /\ run[r].pc = "idle" /\ run' = [run EXCEPT ![r] = j]
      /\ UNCHANGED <<source, feed, seen, stored, gone, passed, excused>>
  BY <1>2, <1>3, <1>4 DEF RunFeed, RunIs
<1>6. h \in Nat /\ h <= source.last
  BY <1>1, <1>2, FetchFacts DEF FromUid, RowOK, FeedRows
<1>7. t \subseteq source.here /\ t \subseteq Nat /\ source.here \subseteq 1..source.last
  BY <1>3, FetchFacts DEF Listed, FetchTypes, Items
<1>8. j \in FetchRuns
  <2>1. source.valid \in Nat /\ source.last \in Nat
    BY FetchFacts
  <2>2. QED
    BY <1>1, <1>4, <1>6, <1>7, <2>1 DEF FetchRuns, FetchIdle
<1>9. /\ j.pc = "next" /\ j.row = feed /\ j.todo = t /\ j.high = h /\ j.valid = source.valid
      /\ j.etag = source.last /\ j.at = 0 /\ j.pulled = 0 /\ j.del = {}
  BY <1>4 DEF FetchIdle
<1>10. source.kind = "imap" => \A i \in source.here : i <= h => Settled(i)
  <2> SUFFICES ASSUME source.kind = "imap", NEW i \in source.here, i <= h
               PROVE  Settled(i)
    OBVIOUS
  <2>1. i \in Nat \ {0}
    BY FetchFacts DEF Items
  <2>2. h # 0
    BY <2>1, <1>6
  <2>3. h = feed.lastUid /\ feed.uidvalidity = source.valid
    BY <1>1, <1>2, <2>2 DEF FromUid, RowOK
  <2>4. QED
    BY <2>3 DEF FeedOK
<1>11. \A i \in source.here : i \notin t => Settled(i)
  <2> SUFFICES ASSUME NEW i \in source.here, i \notin t
               PROVE  Settled(i)
    OBVIOUS
  <2>1. source.kind = "imap" /\ ~(i > h)
    BY <1>2, <1>3 DEF Listed
  <2>2. i \in Nat
    BY FetchFacts DEF Items
  <2>3. QED
    BY <2>1, <2>2, <1>6, <1>10
<1>12. RunOK(j)
  BY <1>1, <1>6, <1>7, <1>9, <1>10, <1>11, FetchFacts DEF RunOK
<1>13. FetchGrows
  BY <1>5, FetchFacts DEF FetchGrows, FetchTypes
<1>14. RunOK(j)'
  BY <1>12, <1>8, <1>13, RunStays
<1>15. /\ RunsOK' /\ run' \in [Runners -> FetchRuns] /\ run'[r] = j
       /\ \A q \in Runners : q # r => run'[q] = run[q]
  BY <1>5, <1>8, <1>13, <1>14, OneRunSteps
<1>16. run[r].at = 0
  BY <1>5 DEF RunsOK, RunOK
<1>17. \A q \in Runners : run'[q].at = run[q].at /\ (run'[q].pc \in {"store", "mark"} => run'[q] = run[q])
  BY <1>9, <1>15, <1>16
<1>18. FetchTypes'
  BY <1>5, <1>15 DEF FetchTypes
<1>19. FeedOK'
  BY <1>5, <1>13, FeedStays
<1>20. SeenWasStored' /\ GoneWasStored' /\ RunsApart'
  BY <1>5, <1>17 DEF SeenWasStored, GoneWasStored, RunsApart
<1>21. PostedOnce'
  <2>1. \A q \in Runners : run[q].pc = "mark" => run'[q] = run[q]
    BY <1>5, <1>15
  <2>2. QED
    BY <1>5, <1>17, <2>1 DEF PostedOnce, CurrentKey
<1>22. QED
  BY <1>15, <1>18, <1>19, <1>20, <1>21

(* Past an item that is settled, with a watermark that covers no more than  *)
(* what is settled.                                                         *)
LEMMA PassStep ==
    ASSUME FetchInv, NEW r \in Runners, NEW i \in run[r].todo, \A m \in run[r].todo : i <= m,
           NEW h \in Nat, h = run[r].high \/ h = i, RunPasses(r, i, h), run[r].pc = "next",
           passed \subseteq passed', Settled(i)', h = i => i >= run[r].high
    PROVE  FetchInv'
<1> USE DEF FetchInv
<1>1. PICK k \in FetchRuns : k = run[r] /\ RunOK(k)
  BY DEF FetchTypes, RunsOK
<1>2. PICK j : j = [k EXCEPT !.todo = @ \ {i}, !.high = h, !.pc = "next"]
  OBVIOUS
<1>3. /\ run' = [run EXCEPT ![r] = j] /\ UNCHANGED <<source, feed, seen, stored, gone, excused>>
  BY <1>1, <1>2 DEF RunPasses, RunIs
<1>4. j \in FetchRuns
  BY <1>2 DEF FetchRuns
<1>5. /\ j.pc = "next" /\ j.row = k.row /\ j.todo = k.todo \ {i} /\ j.high = h /\ j.valid = k.valid
      /\ j.etag = k.etag /\ j.at = k.at /\ j.pulled = k.pulled /\ j.del = k.del
  BY <1>2 DEF FetchRuns
<1>6. FetchGrows
  BY <1>3, FetchFacts DEF FetchGrows, FetchTypes
<1>7. RunOK(k)' /\ k.pc = "next"
  BY <1>1, <1>6, RunStays
<1>8. k.todo \subseteq 1..k.etag /\ k.etag <= source.last /\ k.etag \in Nat /\ i \in k.todo /\ i \in Nat
  BY <1>1, RunFields DEF RunOK
<1>9. source'.kind = "imap" => \A m \in source'.here : m <= h => Settled(m)'
  <2> SUFFICES ASSUME source'.kind = "imap", NEW m \in source'.here, m <= h
               PROVE  Settled(m)'
    OBVIOUS
  <2>1. CASE h = k.high
    BY <2>1, <1>7 DEF RunOK
  <2>2. CASE h = i
    <3>1. m \in Nat /\ m <= k.etag
      BY <2>2, <1>3, <1>8, FetchFacts DEF Items
    <3>2. CASE m = i
      BY <3>2
    <3>3. CASE m # i
      <4>1. m \notin k.todo
        BY <3>1, <3>3, <2>2, <1>1, <1>8
      <4>2. QED
        BY <4>1, <3>1, <1>7 DEF RunOK
    <3>4. QED
      BY <3>2, <3>3
  <2>3. QED
    BY <2>1, <2>2, <1>1
<1>10. \A m \in source'.here : m <= k.etag /\ m \notin k.todo \ {i} => Settled(m)'
  BY <1>7 DEF RunOK
<1>11. h <= source.last
  <2>1. k.high <= source.last /\ i <= source.last
    BY <1>1, <1>8, FetchFacts DEF RunOK
  <2>2. QED
    BY <2>1, <1>1
<1>12. RunOK(j)'
  <2>1. RowOK(k.row)'
    BY <1>7 DEF RunOK
  <2>2. RowOK(j.row)'
    BY <2>1, <1>5 DEF RowOK
  <2>3. /\ k.pulled <= PerRun /\ k.del \subseteq 1..source'.last /\ (\A m \in k.del : stored'[m] > 0)
        /\ k.valid = source'.valid /\ k.at = 0 /\ k.etag <= source'.last
    BY <1>7 DEF RunOK
  <2>4. j.high <= source'.last /\ j.todo \subseteq 1..j.etag
    BY <1>3, <1>5, <1>8, <1>11
  <2>5. QED
    BY <1>5, <1>9, <1>10, <2>2, <2>3, <2>4 DEF RunOK
<1>13. /\ RunsOK' /\ run' \in [Runners -> FetchRuns] /\ run'[r] = j
       /\ \A q \in Runners : q # r => run'[q] = run[q]
  BY <1>3, <1>4, <1>6, <1>12, OneRunSteps
<1>14. \A q \in Runners : run'[q].at = run[q].at /\ run'[q].pc = run[q].pc
  BY <1>1, <1>5, <1>7, <1>13
<1>15. FetchTypes'
  BY <1>3, <1>13 DEF FetchTypes
<1>16. FeedOK'
  BY <1>3, <1>6, FeedStays
<1>17. SeenWasStored' /\ GoneWasStored' /\ RunsApart'
  BY <1>3, <1>14 DEF SeenWasStored, GoneWasStored, RunsApart
<1>18. PostedOnce'
  BY <1>3, <1>14 DEF PostedOnce, CurrentKey
<1>19. QED
  BY <1>13, <1>15, <1>16, <1>17, <1>18

LEMMA RunGoesOn ==
    ASSUME FetchInv, NEW r \in Runners, RunNext(r)
    PROVE  FetchInv'
<1> USE DEF FetchInv
<1>1. PICK k \in FetchRuns : k = run[r] /\ RunOK(k)
  BY DEF FetchTypes, RunsOK
<1>2. PICK i : i = Min(k.todo)
  OBVIOUS
<1>3. k.pc = "next" /\ k.todo # {} /\ ~AtLimit(r)
  BY <1>1 DEF RunNext
<1>4. i \in k.todo /\ (\A m \in k.todo : i <= m) /\ i \in Nat
  BY <1>2, <1>3, RunFields, MinIsLeast
<1>5. PICK above : above = IF i > k.high THEN i ELSE k.high
  OBVIOUS
<1>6. above \in Nat /\ (above = k.high \/ above = i) /\ (above = i => i >= k.high)
  BY <1>4, <1>5, RunFields
<1>7. k.todo \subseteq 1..k.etag /\ k.etag <= source.last /\ k.etag \in Nat /\ k.valid = source.valid /\ k.at = 0
      /\ k.pulled < PerRun
  BY <1>1, <1>3, RunFields, FetchFacts DEF RunOK, AtLimit
<1>8. i \in Items /\ i \in 1..source.last
  BY <1>4, <1>7, FetchFacts DEF Items
<1>9. Seen(r, i) <=> CurrentKey(i) \in seen
  BY <1>1, <1>7 DEF Seen, SeenKey, CurrentKey
<1>10. CASE Seen(r, i) /\ RunPasses(r, i, above) /\ UNCHANGED passed
  <2>1. stored[i] > 0
    BY <1>9, <1>10 DEF SeenWasStored, CurrentKey
  <2>2. Settled(i)'
    BY <1>10, <2>1 DEF RunPasses, Settled
  <2>3. QED
    BY <1>1, <1>3, <1>4, <1>6, <1>10, <2>2, PassStep
<1>11. CASE /\ ~Seen(r, i) /\ RunIs(r, [run[r] EXCEPT !.at = i, !.pc = "store"])
            /\ excused' = IF \E q \in Runners \ {r} : run[q].at = i THEN excused \cup {i} ELSE excused
            /\ UNCHANGED <<source, feed, seen, stored, gone, passed, fetchCount>>
  <2>1. PICK j : j = [k EXCEPT !.at = i, !.pc = "store"]
    OBVIOUS
  <2>2. run' = [run EXCEPT ![r] = j]
    BY <2>1, <1>1, <1>11 DEF RunIs
  <2>3. j \in FetchRuns
    BY <2>1, <1>4 DEF FetchRuns
  <2>4. /\ j.pc = "store" /\ j.row = k.row /\ j.todo = k.todo /\ j.high = k.high /\ j.valid = k.valid
        /\ j.etag = k.etag /\ j.at = i /\ j.pulled = k.pulled /\ j.del = k.del
    BY <2>1 DEF FetchRuns
  <2>5. FetchGrows
    BY <1>11, FetchFacts DEF FetchGrows, FetchTypes
  <2>6. RunOK(j)
    BY <1>1, <1>3, <1>4, <1>7, <2>4 DEF RunOK
  <2>7. RunOK(j)'
    BY <2>3, <2>5, <2>6, RunStays
  <2>8. /\ RunsOK' /\ run' \in [Runners -> FetchRuns] /\ run'[r] = j
        /\ \A q \in Runners : q # r => run'[q] = run[q]
    BY <2>2, <2>3, <2>5, <2>7, OneRunSteps
  <2>9. FetchTypes'
    BY <1>11, <2>8 DEF FetchTypes
  <2>10. FeedOK'
    BY <1>11, <2>5, FeedStays
  <2>11. SeenWasStored' /\ GoneWasStored'
    BY <1>11 DEF SeenWasStored, GoneWasStored
  <2>12. \A q \in Runners : q # r /\ run[q].at = i => i \in excused'
    BY <1>11
  <2>13. excused \subseteq excused'
    BY <1>11
  <2>14. RunsApart'
    <3> SUFFICES ASSUME NEW p \in Runners, NEW q \in Runners, p # q, run'[p].at = run'[q].at
                 PROVE  run'[p].at \in excused' \cup {0}
      BY DEF RunsApart
    <3>1. CASE p = r
      BY <3>1, <2>4, <2>8, <2>12
    <3>2. CASE q = r
      BY <3>2, <2>4, <2>8, <2>12
    <3>3. CASE p # r /\ q # r
      BY <3>3, <2>8, <2>13 DEF RunsApart
    <3>4. QED
      BY <3>1, <3>2, <3>3
  <2>15. PostedOnce'
    <3> SUFFICES ASSUME NEW m \in Items, m \notin excused'
                 PROVE  /\ stored[m] <= 1
                        /\ stored[m] > 0 => \/ CurrentKey(m) \in seen
                                            \/ \E q \in Runners : run'[q].pc = "mark" /\ run'[q].at = m
                        /\ \A q \in Runners : run'[q].pc = "store" /\ run'[q].at = m => stored[m] = 0
      BY <1>11 DEF PostedOnce, CurrentKey
    <3>1. /\ stored[m] <= 1
          /\ stored[m] > 0 => CurrentKey(m) \in seen \/ \E q \in Runners : run[q].pc = "mark" /\ run[q].at = m
          /\ \A q \in Runners : run[q].pc = "store" /\ run[q].at = m => stored[m] = 0
      BY <2>13 DEF PostedOnce
    <3>2. \A q \in Runners : run[q].pc = "mark" => run'[q] = run[q]
      BY <1>1, <1>3, <2>8
    <3>3. ASSUME m = i PROVE stored[m] = 0
      <4>1. ~ \E q \in Runners : run[q].pc = "mark" /\ run[q].at = m
        BY <3>3, <2>12, <1>1, <1>3
      <4>2. stored[m] \in Nat /\ ~(stored[m] > 0)
        BY <3>1, <3>3, <4>1, <1>9, <1>11 DEF FetchTypes
      <4>3. QED
        BY <4>2
    <3>4. ASSUME NEW q \in Runners, run'[q].pc = "store", run'[q].at = m PROVE stored[m] = 0
      BY <3>1, <3>3, <3>4, <2>4, <2>8
    <3>5. stored[m] > 0 => \/ CurrentKey(m) \in seen
                           \/ \E q \in Runners : run'[q].pc = "mark" /\ run'[q].at = m
      BY <3>1, <3>2
    <3>6. QED
      BY <3>1, <3>4, <3>5
  <2>16. QED
    BY <2>8, <2>9, <2>10, <2>11, <2>14, <2>15
<1>12. CASE i \in Big /\ RunPasses(r, i, above) /\ UNCHANGED passed
  <2>1. Settled(i)'
    BY <1>12 DEF Settled
  <2>2. QED
    BY <1>1, <1>3, <1>4, <1>6, <1>12, <2>1, PassStep
<1>13. CASE RunPasses(r, i, k.high) /\ passed' = passed \cup {i}
  <2>1. Settled(i)' /\ passed \subseteq passed'
    BY <1>13 DEF Settled
  <2>2. k.high \in Nat /\ (k.high = i => i >= k.high)
    BY <1>4, RunFields
  <2>3. QED
    BY <1>1, <1>3, <1>4, <1>13, <2>1, <2>2, PassStep
<1>14. QED
  BY <1>1, <1>2, <1>5, <1>10, <1>11, <1>12, <1>13 DEF RunNext

LEMMA Posts ==
    ASSUME FetchInv, NEW r \in Runners, StorePosts(r)
    PROVE  FetchInv'
<1> USE DEF FetchInv
<1>1. PICK k \in FetchRuns : k = run[r] /\ RunOK(k)
  BY DEF FetchTypes, RunsOK
<1>2. PICK j : j = [k EXCEPT !.pc = "mark"]
  OBVIOUS
<1>3. PICK i : i = k.at
  OBVIOUS
<1>4. /\ k.pc = "store" /\ run' = [run EXCEPT ![r] = j] /\ stored' = [stored EXCEPT ![i] = @ + 1]
      /\ UNCHANGED <<source, feed, seen, gone, passed, excused>>
  BY <1>1, <1>2, <1>3 DEF StorePosts, RunIs
<1>5. i \in k.todo /\ k.todo \subseteq 1..k.etag /\ k.etag <= source.last /\ k.etag \in Nat /\ i \in Nat
  BY <1>1, <1>3, <1>4, RunFields DEF RunOK
<1>6. i \in 1..source.last /\ i \in Items
  BY <1>5, FetchFacts
<1>7. /\ stored'[i] = stored[i] + 1 /\ stored[i] \in Nat /\ stored' \in [Items -> Nat]
      /\ \A m \in Items : m # i => stored'[m] = stored[m]
  <2>1. stored[i] \in Nat /\ stored[i] + 1 \in Nat
    BY <1>6 DEF FetchTypes
  <2>2. QED
    BY <2>1, <1>4, <1>6 DEF FetchTypes
<1>8. \A m \in Items : stored[m] > 0 => stored'[m] > 0
  BY <1>7
<1>9. FetchGrows
  BY <1>4, <1>8, FetchFacts DEF FetchGrows, FetchTypes
<1>10. j \in FetchRuns
  BY <1>2 DEF FetchRuns
<1>11. /\ j.pc = "mark" /\ j.row = k.row /\ j.todo = k.todo /\ j.high = k.high /\ j.valid = k.valid
       /\ j.etag = k.etag /\ j.at = i /\ j.pulled = k.pulled /\ j.del = k.del
  BY <1>2, <1>3 DEF FetchRuns
<1>12. RunOK(k)'
  BY <1>1, <1>9, RunStays
<1>13. RunOK(j)'
  <2>1. RowOK(j.row)'
    BY <1>11, <1>12 DEF RunOK, RowOK
  <2>2. stored'[j.at] > 0
    BY <1>7, <1>11
  <2>3. QED
    BY <1>3, <1>4, <1>11, <1>12, <2>1, <2>2 DEF RunOK
<1>14. /\ RunsOK' /\ run' \in [Runners -> FetchRuns] /\ run'[r] = j
       /\ \A q \in Runners : q # r => run'[q] = run[q]
  BY <1>4, <1>9, <1>10, <1>13, OneRunSteps
<1>15. FetchTypes'
  BY <1>4, <1>7, <1>14 DEF FetchTypes
<1>16. FeedOK'
  BY <1>4, <1>9, FeedStays
<1>17. SeenWasStored' /\ GoneWasStored'
  <2>1. \A k2 \in seen : k2[2] \in Items
    BY FetchFacts DEF FetchTypes
  <2>2. gone \subseteq Items
    BY FetchFacts DEF FetchTypes
  <2>3. QED
    BY <2>1, <2>2, <1>4, <1>8 DEF SeenWasStored, GoneWasStored
<1>18. RunsApart'
  BY <1>1, <1>3, <1>4, <1>11, <1>14 DEF RunsApart
<1>19. PostedOnce'
  <2> SUFFICES ASSUME NEW m \in Items, m \notin excused
               PROVE  /\ stored'[m] <= 1
                      /\ stored'[m] > 0 => \/ CurrentKey(m) \in seen
                                           \/ \E q \in Runners : run'[q].pc = "mark" /\ run'[q].at = m
                      /\ \A q \in Runners : run'[q].pc = "store" /\ run'[q].at = m => stored'[m] = 0
    BY <1>4 DEF PostedOnce, CurrentKey
  <2>1. /\ stored[m] <= 1
        /\ stored[m] > 0 => CurrentKey(m) \in seen \/ \E q \in Runners : run[q].pc = "mark" /\ run[q].at = m
        /\ \A q \in Runners : run[q].pc = "store" /\ run[q].at = m => stored[m] = 0
    BY DEF PostedOnce
  <2>2. CASE m = i
    <3>1. stored'[m] = 1
      BY <2>1, <2>2, <1>1, <1>3, <1>4, <1>7
    <3>2. \A q \in Runners : run'[q].pc = "store" => run'[q].at # m
      <4> SUFFICES ASSUME NEW q \in Runners, run'[q].pc = "store", run'[q].at = m PROVE FALSE
        OBVIOUS
      <4>1. q # r /\ run[q].at = i
        BY <2>2, <1>11, <1>14
      <4>2. i # 0
        BY <1>6, FetchFacts
      <4>3. QED
        BY <4>1, <4>2, <2>2, <1>1, <1>3 DEF RunsApart
    <3>3. QED
      BY <3>1, <3>2, <2>2, <1>11, <1>14
  <2>3. CASE m # i
    <3>1. stored'[m] = stored[m]
      BY <2>3, <1>7
    <3>2. \A q \in Runners : run[q].pc = "mark" => run'[q] = run[q]
      BY <1>1, <1>4, <1>14
    <3>3. \A q \in Runners : run'[q].pc = "store" => run'[q] = run[q]
      BY <1>11, <1>14
    <3>4. stored[m] > 0 => \/ CurrentKey(m) \in seen
                           \/ \E q \in Runners : run'[q].pc = "mark" /\ run'[q].at = m
      BY <2>1, <3>2
    <3>5. \A q \in Runners : run'[q].pc = "store" /\ run'[q].at = m => stored[m] = 0
      BY <2>1, <3>3
    <3>6. QED
      BY <2>1, <3>1, <3>4, <3>5
  <2>4. QED
    BY <2>2, <2>3
<1>20. QED
  BY <1>14, <1>15, <1>16, <1>17, <1>18, <1>19

(* Steps that post and remember nothing and take up no item. *)
LEMMA QuietStep ==
    ASSUME FetchInv, NEW r \in Runners, NEW j \in FetchRuns, run' = [run EXCEPT ![r] = j], RunOK(j)',
           FetchGrows, j.pc \notin {"store", "mark"}, run[r].pc # "mark",
           source' \in FetchSources, source'.last = source.last, source'.here \subseteq source.here,
           gone' \subseteq gone \cup {i \in source.here : i \notin source'.here /\ stored[i] > 0},
           FeedOK', feed' \in FeedRows, UNCHANGED <<seen, stored, excused>>
    PROVE  FetchInv'
<1> USE DEF FetchInv
<1>1. /\ RunsOK' /\ run' \in [Runners -> FetchRuns] /\ run'[r] = j
      /\ \A q \in Runners : q # r => run'[q] = run[q]
  BY OneRunSteps
<1>2. j.at = 0
  BY DEF RunOK
<1>3. FetchTypes'
  <2>1. gone' \subseteq 1..source'.last /\ source'.here \subseteq 1..source'.last
    BY DEF FetchTypes
  <2>2. source'.valid = source.valid
    BY DEF FetchGrows
  <2>3. source'.last <= MaxItem
    BY DEF FetchTypes
  <2>4. QED
    BY <1>1, <2>1, <2>2, <2>3 DEF FetchTypes
<1>4. SeenWasStored'
  BY DEF SeenWasStored
<1>5. GoneWasStored'
  BY DEF GoneWasStored
<1>6. RunsApart'
  <2> SUFFICES ASSUME NEW p \in Runners, NEW q \in Runners, p # q, run'[p].at = run'[q].at
               PROVE  run'[p].at \in excused \cup {0}
    BY DEF RunsApart
  <2>1. CASE p = r \/ q = r
    BY <2>1, <1>1, <1>2
  <2>2. CASE p # r /\ q # r
    BY <2>2, <1>1 DEF RunsApart
  <2>3. QED
    BY <2>1, <2>2
<1>7. PostedOnce'
  <2>1. \A q \in Runners : (run[q].pc = "mark" \/ run'[q].pc \in {"store", "mark"}) => run'[q] = run[q]
    BY <1>1
  <2>2. \A m : CurrentKey(m)' = CurrentKey(m)
    BY DEF CurrentKey, FetchGrows
  <2>3. ASSUME NEW m \in Items, m \notin excused
        PROVE  /\ stored[m] <= 1
               /\ stored[m] > 0 => CurrentKey(m) \in seen \/ \E q \in Runners : run'[q].pc = "mark" /\ run'[q].at = m
               /\ \A q \in Runners : run'[q].pc = "store" /\ run'[q].at = m => stored[m] = 0
    <3>1. /\ stored[m] <= 1
          /\ stored[m] > 0 => CurrentKey(m) \in seen \/ \E q \in Runners : run[q].pc = "mark" /\ run[q].at = m
          /\ \A q \in Runners : run[q].pc = "store" /\ run[q].at = m => stored[m] = 0
      BY <2>3 DEF PostedOnce
    <3>2. QED
      BY <3>1, <2>1
  <2>4. QED
    BY <2>2, <2>3 DEF PostedOnce
<1>8. QED
  BY <1>1, <1>3, <1>4, <1>5, <1>6, <1>7

LEMMA Refuses ==
    ASSUME FetchInv, NEW r \in Runners, StoreRefuses(r)
    PROVE  FetchInv'
<1> USE DEF FetchInv
<1>1. PICK k \in FetchRuns : k = run[r] /\ RunOK(k)
  BY DEF FetchTypes, RunsOK
<1>2. /\ k.pc = "store" /\ UNCHANGED <<source, seen, stored, gone, excused>>
      /\ passed' = passed \cup IF source.kind = "rss" THEN k.todo ELSE {k.at}
  BY <1>1 DEF StoreRefuses
<1>3. FetchGrows
  BY <1>2, FetchFacts DEF FetchGrows, FetchTypes
<1>4. RunOK(k)'
  BY <1>1, <1>3, RunStays
<1>5. source' \in FetchSources /\ source'.last = source.last /\ source'.here = source.here /\ gone' = gone
  BY <1>2 DEF FetchTypes
<1>6. k.at \in k.todo
  BY <1>1, <1>2 DEF RunOK
<1>7. CASE source.kind = "rss"
  <2>1. /\ run' = [run EXCEPT ![r] = FetchIdle] /\ feed' = [k.row EXCEPT !.etag = k.etag]
        /\ passed' = passed \cup k.todo
    BY <1>1, <1>2, <1>7 DEF StoreRefuses, RunIs
  <2>2. FetchIdle \in FetchRuns /\ RunOK(FetchIdle) /\ FetchIdle.pc \notin {"store", "mark"}
    BY IdleIsOK
  <2>3. RunOK(FetchIdle)'
    BY <2>2, <1>3, RunStays
  <2>4. feed' \in FeedRows /\ feed'.etag = k.etag /\ feed'.uidvalidity = k.row.uidvalidity /\ feed'.lastUid = k.row.lastUid
    BY <2>1, RunFields DEF FeedRows
  <2>5. RowOK(k.row)' /\ k.etag <= source'.last
    BY <1>4 DEF RunOK
  <2>6. RowOK(feed)'
    BY <2>4, <2>5 DEF RowOK
  <2>7. \A i \in source'.here : i <= k.etag => Settled(i)'
    BY <2>1, <1>4 DEF RunOK, Settled
  <2>8. source'.kind = "rss"
    BY <1>2, <1>7
  <2>9. FeedOK'
    BY <2>4, <2>6, <2>7, <2>8 DEF FeedOK
  <2>10. QED
    BY <1>1, <1>2, <1>3, <1>5, <2>1, <2>2, <2>3, <2>4, <2>9, QuietStep
<1>8. CASE source.kind # "rss"
  <2>1. PICK j : j = [k EXCEPT !.todo = @ \ {k.at}, !.at = 0, !.pc = "next"]
    OBVIOUS
  <2>2. run' = [run EXCEPT ![r] = j] /\ feed' = feed /\ passed' = passed \cup {k.at}
    BY <2>1, <1>1, <1>2, <1>8 DEF StoreRefuses, RunIs
  <2>3. j \in FetchRuns
    BY <2>1 DEF FetchRuns
  <2>4. /\ j.pc = "next" /\ j.row = k.row /\ j.todo = k.todo \ {k.at} /\ j.high = k.high /\ j.valid = k.valid
        /\ j.etag = k.etag /\ j.at = 0 /\ j.pulled = k.pulled /\ j.del = k.del
    BY <2>1 DEF FetchRuns
  <2>5. RunOK(j)'
    <3>1. RowOK(j.row)'
      BY <2>4, <1>4 DEF RunOK, RowOK
    <3>2. \A i \in source'.here : i <= k.etag /\ i \notin k.todo \ {k.at} => Settled(i)'
      BY <2>2, <1>4 DEF RunOK, Settled
    <3>3. QED
      BY <3>1, <3>2, <2>4, <1>2, <1>4 DEF RunOK
  <2>6. FeedOK' /\ feed' \in FeedRows
    BY <2>2, <1>3, FeedStays DEF FetchTypes
  <2>7. QED
    BY <1>1, <1>2, <1>3, <1>5, <2>2, <2>3, <2>4, <2>5, <2>6, QuietStep
<1>9. QED
  BY <1>7, <1>8

LEMMA Deletes ==
    ASSUME FetchInv, NEW r \in Runners, DeleteUpstream(r)
    PROVE  FetchInv'
<1> USE DEF FetchInv
<1>1. PICK k \in FetchRuns : k = run[r] /\ RunOK(k)
  BY DEF FetchTypes, RunsOK
<1>2. PICK d : /\ d \subseteq k.del /\ source' = [source EXCEPT !.here = @ \ d]
               /\ gone' = gone \cup (d \cap source.here)
  BY <1>1 DEF DeleteUpstream
<1>3. PICK j : j = [k EXCEPT !.pc = "record"]
  OBVIOUS
<1>4. /\ k.pc = "next" /\ run' = [run EXCEPT ![r] = j] /\ UNCHANGED <<feed, seen, stored, excused>>
      /\ passed' = IF source.kind = "rss" THEN passed \cup k.todo ELSE passed
  BY <1>1, <1>3 DEF DeleteUpstream, RunIs
<1>5. source \in FetchSources
  BY DEF FetchTypes
<1>6. /\ source'.kind = source.kind /\ source'.valid = source.valid /\ source'.last = source.last
      /\ source'.here = source.here \ d /\ source' \in FetchSources
  BY <1>2, <1>5 DEF FetchSources
<1>7. FetchGrows
  BY <1>4, <1>6, FetchFacts DEF FetchGrows, FetchTypes
<1>8. RunOK(k)'
  BY <1>1, <1>7, RunStays
<1>9. j \in FetchRuns
  BY <1>3 DEF FetchRuns
<1>10. /\ j.pc = "record" /\ j.row = k.row /\ j.todo = k.todo /\ j.high = k.high /\ j.valid = k.valid
       /\ j.etag = k.etag /\ j.at = k.at /\ j.pulled = k.pulled /\ j.del = k.del
  BY <1>3 DEF FetchRuns
<1>11. RunOK(j)'
  <2>1. RowOK(j.row)'
    BY <1>8, <1>10 DEF RunOK, RowOK
  <2>2. source'.kind = "rss" => \A i \in source'.here : i <= k.etag => Settled(i)'
    BY <1>4, <1>6, <1>8 DEF RunOK, Settled
  <2>3. QED
    BY <1>4, <1>8, <1>10, <2>1, <2>2 DEF RunOK
<1>12. FeedOK' /\ feed' \in FeedRows
  BY <1>4, <1>7, FeedStays DEF FetchTypes
<1>13. gone' \subseteq gone \cup {i \in source.here : i \notin source'.here /\ stored[i] > 0}
  BY <1>1, <1>2, <1>6 DEF RunOK
<1>14. source'.here \subseteq source.here
  BY <1>6
<1>15. QED
  BY <1>1, <1>4, <1>6, <1>7, <1>9, <1>10, <1>11, <1>12, <1>13, <1>14, QuietStep

LEMMA Records ==
    ASSUME FetchInv, NEW r \in Runners, RecordRun(r)
    PROVE  FetchInv'
<1> USE DEF FetchInv
<1>1. PICK k \in FetchRuns : k = run[r] /\ RunOK(k)
  BY DEF FetchTypes, RunsOK
<1>2. PICK j : j = [FetchIdle EXCEPT !.pc = "prune"]
  OBVIOUS
<1>3. /\ k.pc = "record" /\ run' = [run EXCEPT ![r] = j]
      /\ UNCHANGED <<source, seen, stored, gone, passed, excused>>
  BY <1>1, <1>2 DEF RecordRun, RunIs
<1>4. FetchGrows
  BY <1>3, FetchFacts DEF FetchGrows, FetchTypes
<1>5. j \in FetchRuns /\ RunOK(j) /\ j.pc \notin {"store", "mark"}
  BY <1>2, IdleIsOK
<1>6. RunOK(j)'
  BY <1>4, <1>5, RunStays
<1>7. RowOK(k.row) /\ k.high <= source.last /\ k.etag <= source.last /\ k.valid = source.valid
  BY <1>1, <1>3 DEF RunOK
<1>8. k.row \in FeedRows /\ k.high \in Nat /\ k.etag \in Nat /\ k.valid \in Nat
  BY RunFields
<1>9. feed' \in FeedRows /\ FeedOK
      /\ feed' = CASE source.kind = "imap" -> [k.row EXCEPT !.uidvalidity = k.valid, !.lastUid = k.high]
                   [] source.kind = "rss" -> [k.row EXCEPT !.etag = k.etag]
                   [] OTHER -> k.row
  <2>1. feed' = CASE source.kind = "imap" -> [k.row EXCEPT !.uidvalidity = k.valid, !.lastUid = k.high]
                  [] source.kind = "rss" -> [k.row EXCEPT !.etag = k.etag]
                  [] OTHER -> k.row
    BY <1>1 DEF RecordRun
  <2>2. /\ [k.row EXCEPT !.uidvalidity = k.valid, !.lastUid = k.high] \in FeedRows
        /\ [k.row EXCEPT !.etag = k.etag] \in FeedRows
    BY <1>8 DEF FeedRows
  <2>3. QED
    BY <1>8, <2>1, <2>2
<1>10. FeedOK'
  <2>1. CASE source.kind = "imap"
    <3>1. feed'.uidvalidity = k.valid /\ feed'.lastUid = k.high /\ feed'.etag = k.row.etag
      BY <2>1, <1>8, <1>9 DEF FeedRows
    <3>2. k.valid # 0
      BY <1>7, FetchFacts
    <3>3. RowOK(feed)'
      BY <3>1, <3>2, <1>3, <1>7, FetchFacts DEF RowOK
    <3>4. \A i \in source'.here : i <= k.high => Settled(i)'
      BY <2>1, <1>1, <1>3 DEF RunOK, Settled
    <3>5. QED
      BY <2>1, <3>1, <3>3, <3>4, <1>3 DEF FeedOK
  <2>2. CASE source.kind = "rss"
    <3>1. feed'.uidvalidity = k.row.uidvalidity /\ feed'.lastUid = k.row.lastUid /\ feed'.etag = k.etag
      BY <2>2, <1>8, <1>9 DEF FeedRows
    <3>2. RowOK(feed)'
      BY <3>1, <1>3, <1>7 DEF RowOK
    <3>3. \A i \in source'.here : i <= k.etag => Settled(i)'
      BY <2>2, <1>1, <1>3 DEF RunOK, Settled
    <3>4. QED
      BY <2>2, <3>1, <3>2, <3>3, <1>3 DEF FeedOK
  <2>3. CASE source.kind \notin {"imap", "rss"}
    <3>1. feed' = k.row
      BY <2>3, <1>9
    <3>2. RowOK(feed)'
      BY <3>1, <1>3, <1>7 DEF RowOK
    <3>3. QED
      BY <2>3, <3>2, <1>3 DEF FeedOK
  <2>4. QED
    BY <2>1, <2>2, <2>3
<1>11. source' \in FetchSources /\ source'.last = source.last /\ source'.here = source.here /\ gone' = gone
  BY <1>3 DEF FetchTypes
<1>12. QED
  BY <1>1, <1>3, <1>4, <1>5, <1>6, <1>9, <1>10, <1>11, QuietStep

LEMMA Marks ==
    ASSUME FetchInv, NEW r \in Runners, MarkSeen(r)
    PROVE  FetchInv'
<1> USE DEF FetchInv
<1>1. PICK k \in FetchRuns : k = run[r] /\ RunOK(k)
  BY DEF FetchTypes, RunsOK
<1>2. PICK i, h, d : /\ i = k.at /\ h = (IF k.at > k.high THEN k.at ELSE k.high)
                     /\ d = (IF source.leave THEN k.del ELSE k.del \cup {k.at})
  OBVIOUS
<1>3. PICK j : j = [k EXCEPT !.todo = @ \ {i}, !.at = 0, !.pc = "next", !.pulled = @ + 1, !.high = h, !.del = d]
  OBVIOUS
<1>4. /\ k.pc = "mark" /\ seen' = seen \cup {SeenKey(i, k.valid)}
      /\ run' = [run EXCEPT ![r] = [k EXCEPT !.todo = @ \ {k.at}, !.at = 0, !.pc = "next", !.pulled = @ + 1,
                                             !.high = IF k.at > @ THEN k.at ELSE @,
                                             !.del = IF source.leave THEN @ ELSE @ \cup {k.at}]]
      /\ UNCHANGED <<source, feed, stored, gone, passed, excused>>
  BY <1>1, <1>2 DEF MarkSeen, RunIs
<1>5. run' = [run EXCEPT ![r] = j]
  BY <1>2, <1>3, <1>4
<1>6. /\ i \in k.todo /\ (\A m \in k.todo : i <= m) /\ k.todo \subseteq 1..k.etag /\ k.etag <= source.last
      /\ k.pulled < PerRun /\ stored[i] > 0 /\ k.valid = source.valid /\ k.high <= source.last
  BY <1>1, <1>2, <1>4 DEF RunOK
<1>7. i \in Nat /\ k.etag \in Nat /\ k.high \in Nat /\ k.pulled \in Nat /\ k.del \subseteq Nat
  BY <1>2, RunFields
<1>8. i \in 1..source.last /\ i \in Items /\ i <= k.etag
  BY <1>6, <1>7, FetchFacts
<1>9. h \in Nat /\ (h = i \/ h = k.high) /\ h <= source.last
  BY <1>2, <1>6, <1>7, <1>8, FetchFacts
<1>10. d \subseteq k.del \cup {i} /\ d \subseteq Nat
  BY <1>2, <1>7
<1>11. j \in FetchRuns
  <2>1. k.pulled + 1 \in Nat /\ 0 \in Nat /\ k.todo \ {i} \in SUBSET Nat /\ d \in SUBSET Nat
    BY <1>7, <1>10, RunFields
  <2>2. QED
    BY <1>3, <1>9, <2>1 DEF FetchRuns
<1>12. /\ j.pc = "next" /\ j.row = k.row /\ j.todo = k.todo \ {i} /\ j.high = h /\ j.valid = k.valid
       /\ j.etag = k.etag /\ j.at = 0 /\ j.pulled = k.pulled + 1 /\ j.del = d
  BY <1>3 DEF FetchRuns
<1>13. FetchGrows
  BY <1>4, FetchFacts DEF FetchGrows, FetchTypes
<1>14. RunOK(k)'
  BY <1>1, <1>13, RunStays
<1>15. Settled(i)'
  BY <1>4, <1>6 DEF Settled
<1>16. source'.kind = "imap" => \A m \in source'.here : m <= h => Settled(m)'
  <2> SUFFICES ASSUME source'.kind = "imap", NEW m \in source'.here, m <= h
               PROVE  Settled(m)'
    OBVIOUS
  <2>1. CASE h = k.high
    BY <2>1, <1>14 DEF RunOK
  <2>2. CASE h = i
    <3>1. m \in Nat /\ m <= k.etag
      BY <2>2, <1>4, <1>7, <1>8, FetchFacts DEF Items
    <3>2. CASE m = i
      BY <3>2, <1>15
    <3>3. CASE m # i
      <4>1. m \notin k.todo
        BY <3>1, <3>3, <2>2, <1>6, <1>7
      <4>2. QED
        BY <4>1, <3>1, <1>14 DEF RunOK
    <3>4. QED
      BY <3>2, <3>3
  <2>3. QED
    BY <2>1, <2>2, <1>9
<1>17. \A m \in source'.here : m <= k.etag /\ m \notin k.todo \ {i} => Settled(m)'
  BY <1>14, <1>15 DEF RunOK
<1>18. RunOK(j)'
  <2>1. RowOK(j.row)'
    BY <1>12, <1>14 DEF RunOK, RowOK
  <2>2. j.pulled <= PerRun /\ j.high <= source'.last
    BY <1>4, <1>6, <1>7, <1>9, <1>12, FetchFacts
  <2>3. j.del \subseteq 1..source'.last /\ \A m \in j.del : stored'[m] > 0
    BY <1>4, <1>6, <1>8, <1>10, <1>12, <1>14 DEF RunOK
  <2>4. j.todo \subseteq 1..j.etag /\ j.etag <= source'.last /\ j.valid = source'.valid
    BY <1>4, <1>6, <1>12
  <2>5. QED
    BY <1>12, <1>16, <1>17, <2>1, <2>2, <2>3, <2>4 DEF RunOK
<1>19. /\ RunsOK' /\ run' \in [Runners -> FetchRuns] /\ run'[r] = j
       /\ \A q \in Runners : q # r => run'[q] = run[q]
  BY <1>5, <1>11, <1>13, <1>18, OneRunSteps
<1>20. SeenKey(i, k.valid) = CurrentKey(i) /\ CurrentKey(i)[2] = i
       /\ CurrentKey(i) \in (0..source.valid) \X (1..source.last)
  BY <1>6, <1>8, FetchFacts DEF SeenKey, CurrentKey
<1>21. FetchTypes'
  BY <1>4, <1>19, <1>20 DEF FetchTypes
<1>22. FeedOK'
  BY <1>4, <1>13, FeedStays
<1>23. SeenWasStored'
  BY <1>4, <1>6, <1>20 DEF SeenWasStored
<1>24. GoneWasStored'
  BY <1>4 DEF GoneWasStored
<1>25. RunsApart'
  <2> SUFFICES ASSUME NEW p \in Runners, NEW q \in Runners, p # q, run'[p].at = run'[q].at
               PROVE  run'[p].at \in excused \cup {0}
    BY <1>4 DEF RunsApart
  <2>1. CASE p = r \/ q = r
    BY <2>1, <1>12, <1>19
  <2>2. CASE p # r /\ q # r
    BY <2>2, <1>19 DEF RunsApart
  <2>3. QED
    BY <2>1, <2>2
<1>26. PostedOnce'
  <2>1. ASSUME NEW m \in Items, m \notin excused
        PROVE  /\ stored[m] <= 1
               /\ stored[m] > 0 => CurrentKey(m) \in seen' \/ \E q \in Runners : run'[q].pc = "mark" /\ run'[q].at = m
               /\ \A q \in Runners : run'[q].pc = "store" /\ run'[q].at = m => stored[m] = 0
    <3>1. /\ stored[m] <= 1
          /\ stored[m] > 0 => CurrentKey(m) \in seen \/ \E q \in Runners : run[q].pc = "mark" /\ run[q].at = m
          /\ \A q \in Runners : run[q].pc = "store" /\ run[q].at = m => stored[m] = 0
      BY <2>1 DEF PostedOnce
    <3>2. \A q \in Runners : run'[q].pc = "store" => run'[q] = run[q]
      BY <1>12, <1>19
    <3>3. m = i => CurrentKey(m) \in seen'
      BY <1>4, <1>20
    <3>4. \A q \in Runners : run[q].at = m /\ m # i => run'[q] = run[q]
      BY <1>1, <1>2, <1>19
    <3>5. stored[m] > 0 => CurrentKey(m) \in seen' \/ \E q \in Runners : run'[q].pc = "mark" /\ run'[q].at = m
      BY <3>1, <3>3, <3>4, <1>4
    <3>6. QED
      BY <3>1, <3>2, <3>5
  <2>2. QED
    BY <2>1, <1>4 DEF PostedOnce, CurrentKey
<1>27. QED
  BY <1>19, <1>21, <1>22, <1>23, <1>24, <1>25, <1>26

(* Steps that end runs and forget entries, and excuse what that loses. *)
LEMMA ForgetStep ==
    ASSUME FetchInv, UNCHANGED <<source, feed, stored, gone, passed>>, seen' \subseteq seen, excused \subseteq excused',
           \A k \in seen : k \notin seen' => k[2] \in excused',
           run' \in [Runners -> FetchRuns],
           \A q \in Runners : \/ run'[q] = run[q]
                              \/ run'[q] = FetchIdle /\ (run[q].pc = "mark" => run[q].at \in excused')
    PROVE  FetchInv'
<1> USE DEF FetchInv
<1>1. FetchGrows
  BY FetchFacts DEF FetchGrows, FetchTypes
<1>2. FetchIdle \in FetchRuns /\ RunOK(FetchIdle) /\ FetchIdle.at = 0 /\ FetchIdle.pc = "idle"
  <2>1. PICK j : j = FetchIdle
    OBVIOUS
  <2>2. j \in FetchRuns /\ RunOK(j) /\ j.at = 0
    BY <2>1, IdleIsOK
  <2>3. FetchIdle.pc = "idle"
    BY DEF FetchIdle
  <2>4. QED
    BY <2>1, <2>2, <2>3
<1>3. FetchTypes'
  BY DEF FetchTypes
<1>4. RunsOK'
  <2> SUFFICES ASSUME NEW q \in Runners PROVE RunOK(run[q])'
    BY DEF RunsOK
  <2>1. PICK k \in FetchRuns : k = run'[q] /\ RunOK(k)
    BY <1>2 DEF FetchTypes, RunsOK
  <2>2. RunOK(k)'
    BY <1>1, <2>1, RunStays
  <2>3. QED
    BY <2>1, <2>2 DEF RunOK, RowOK, Settled
<1>5. FeedOK'
  BY <1>1, FeedStays
<1>6. SeenWasStored' /\ GoneWasStored'
  BY DEF SeenWasStored, GoneWasStored
<1>7. RunsApart'
  <2> SUFFICES ASSUME NEW p \in Runners, NEW q \in Runners, p # q, run'[p].at = run'[q].at
               PROVE  run'[p].at \in excused' \cup {0}
    BY DEF RunsApart
  <2>1. CASE run'[p] = FetchIdle \/ run'[q] = FetchIdle
    BY <2>1, <1>2
  <2>2. CASE run'[p] = run[p] /\ run'[q] = run[q]
    BY <2>2 DEF RunsApart
  <2>3. QED
    BY <2>1, <2>2
<1>8. PostedOnce'
  <2>1. \A m : CurrentKey(m)' = CurrentKey(m) /\ CurrentKey(m)[2] = m
    BY DEF CurrentKey
  <2>2. ASSUME NEW m \in Items, m \notin excused'
        PROVE  /\ stored[m] <= 1
               /\ stored[m] > 0 => CurrentKey(m) \in seen' \/ \E q \in Runners : run'[q].pc = "mark" /\ run'[q].at = m
               /\ \A q \in Runners : run'[q].pc = "store" /\ run'[q].at = m => stored[m] = 0
    <3>1. /\ stored[m] <= 1
          /\ stored[m] > 0 => CurrentKey(m) \in seen \/ \E q \in Runners : run[q].pc = "mark" /\ run[q].at = m
          /\ \A q \in Runners : run[q].pc = "store" /\ run[q].at = m => stored[m] = 0
      BY <2>2 DEF PostedOnce
    <3>2. CurrentKey(m) \in seen => CurrentKey(m) \in seen'
      BY <2>1, <2>2
    <3>3. \A q \in Runners : run[q].pc = "mark" /\ run[q].at = m => run'[q] = run[q]
      BY <2>2
    <3>4. \A q \in Runners : run'[q].pc = "store" => run'[q] = run[q]
      BY <1>2
    <3>5. QED
      BY <3>1, <3>2, <3>3, <3>4
  <2>3. QED
    BY <2>1, <2>2 DEF PostedOnce
<1>9. QED
  BY <1>3, <1>4, <1>5, <1>6, <1>7, <1>8

LEMMA Prunes ==
    ASSUME FetchInv, NEW r \in Runners, PruneSeen(r)
    PROVE  FetchInv'
<1>1. PICK keep : /\ keep \subseteq seen /\ seen' = keep
                  /\ excused' = excused \cup {k[2] : k \in seen \ keep}
  BY DEF PruneSeen, kSubset
<1>2. /\ run[r].pc = "prune" /\ run' = [run EXCEPT ![r] = FetchIdle]
      /\ UNCHANGED <<source, feed, stored, gone, passed>>
  BY DEF PruneSeen, RunIs
<1>3. FetchIdle \in FetchRuns /\ run \in [Runners -> FetchRuns]
  BY DEF FetchRuns, FetchIdle, FeedRows, FetchInv, FetchTypes
<1>4. /\ run' \in [Runners -> FetchRuns]
      /\ \A q \in Runners : run'[q] = run[q] \/ (run'[q] = FetchIdle /\ run[q].pc # "mark")
  BY <1>2, <1>3
<1>5. QED
  BY <1>1, <1>2, <1>4, ForgetStep

LEMMA Dies ==
    ASSUME FetchInv, FetchDies
    PROVE  FetchInv'
<1>1. /\ excused' = excused \cup {run[r].at : r \in {q \in Runners : run[q].pc = "mark"}}
      /\ run' = [r \in Runners |-> FetchIdle] /\ UNCHANGED <<source, feed, seen, stored, gone, passed>>
  BY DEF FetchDies
<1>2. FetchIdle \in FetchRuns
  BY DEF FetchRuns, FetchIdle, FeedRows
<1>3. /\ run' \in [Runners -> FetchRuns]
      /\ \A q \in Runners : run'[q] = FetchIdle /\ (run[q].pc = "mark" => run[q].at \in excused')
  BY <1>1, <1>2
<1>4. QED
  BY <1>1, <1>3, ForgetStep

LEMMA FetchFirst == FetchInit => FetchInv
<1> SUFFICES ASSUME FetchInit PROVE FetchInv
  OBVIOUS
<1>1. /\ source \in [kind : Kinds, leave : BOOLEAN, last : {0}, here : {{}}, valid : {1}]
      /\ feed = FetchIdle.row /\ seen = {} /\ stored = [i \in Items |-> 0]
      /\ run = [r \in Runners |-> FetchIdle] /\ gone = {} /\ excused = {}
  BY DEF FetchInit
<1>2. source.last = 0 /\ source.here = {} /\ source.valid = 1 /\ source \in FetchSources
  BY <1>1 DEF FetchSources
<1>3. feed \in FeedRows /\ feed.uidvalidity = 0 /\ feed.lastUid = 0 /\ feed.etag = 0
  BY <1>1 DEF FetchIdle, FeedRows
<1>4. FetchIdle \in FetchRuns
  BY DEF FetchRuns, FetchIdle, FeedRows
<1>5. FetchTypes
  BY <1>1, <1>2, <1>3, <1>4, FetchAssumption DEF FetchTypes
<1>6. RunsOK
  <2>1. PICK j : j = FetchIdle
    OBVIOUS
  <2>2. RunOK(j)
    BY <1>5, <2>1, IdleIsOK
  <2>3. QED
    BY <1>1, <2>1, <2>2 DEF RunsOK
<1>7. FeedOK
  BY <1>2, <1>3 DEF FeedOK, RowOK
<1>8. SeenWasStored /\ GoneWasStored
  BY <1>1 DEF SeenWasStored, GoneWasStored
<1>9. FetchIdle.at = 0 /\ FetchIdle.pc = "idle"
  BY DEF FetchIdle
<1>10. RunsApart
  BY <1>1, <1>9 DEF RunsApart
<1>11. PostedOnce
  BY <1>1, <1>9 DEF PostedOnce
<1>12. QED
  BY <1>5, <1>6, <1>7, <1>8, <1>10, <1>11 DEF FetchInv

LEMMA FetchStep == FetchInv /\ [FetchNext]_fvars => FetchInv'
<1> SUFFICES ASSUME FetchInv, [FetchNext]_fvars PROVE FetchInv'
  OBVIOUS
<1>1. CASE SourceGrows \/ SourceRenumbers
  BY <1>1, SourceSteps
<1>2. CASE FetchDies
  BY <1>2, Dies
<1>3. ASSUME NEW r \in Runners, RunFeed(r) PROVE FetchInv'
  BY <1>3, RunBegins
<1>4. ASSUME NEW r \in Runners, RunNext(r) PROVE FetchInv'
  BY <1>4, RunGoesOn
<1>5. ASSUME NEW r \in Runners, StorePosts(r) PROVE FetchInv'
  BY <1>5, Posts
<1>6. ASSUME NEW r \in Runners, StoreRefuses(r) PROVE FetchInv'
  BY <1>6, Refuses
<1>7. ASSUME NEW r \in Runners, MarkSeen(r) PROVE FetchInv'
  BY <1>7, Marks
<1>8. ASSUME NEW r \in Runners, DeleteUpstream(r) PROVE FetchInv'
  BY <1>8, Deletes
<1>9. ASSUME NEW r \in Runners, RecordRun(r) PROVE FetchInv'
  BY <1>9, Records
<1>10. ASSUME NEW r \in Runners, PruneSeen(r) PROVE FetchInv'
  BY <1>10, Prunes
<1>11. CASE UNCHANGED fvars
  <2>1. UNCHANGED <<source, feed, seen, stored, run, gone, passed, excused>>
    BY <1>11 DEF fvars
  <2>2. run' \in [Runners -> FetchRuns]
    BY <2>1 DEF FetchInv, FetchTypes
  <2>3. QED
    BY <2>1, <2>2, ForgetStep
<1>12. QED
  BY <1>1, <1>2, <1>3, <1>4, <1>5, <1>6, <1>7, <1>8, <1>9, <1>10, <1>11 DEF FetchNext

LEMMA FetchInvHolds == FetchSpec => []FetchInv
<1>1. QED
  BY FetchFirst, FetchStep, PTL DEF FetchSpec

(* However many runners poll one source, in any interleaving and with any   *)
(* limits, an item is posted once unless excused, nothing is deleted         *)
(* upstream that was not posted here, and a later run passes by only what    *)
(* was posted, is too large, or was passed over: RunFeed to PruneSeen of     *)
(* fetch.cpp.                                                               *)
THEOREM PollsAreAlwaysSafe == FetchSpec => []PollsAreSafe
<1>1. FetchInv => PollsAreSafe
  <2> SUFFICES ASSUME FetchInv PROVE PollsAreSafe
    OBVIOUS
  <2> USE DEF FetchInv
  <2>1. StoredOnceUnlessExcused
    BY DEF StoredOnceUnlessExcused, PostedOnce
  <2>2. DeletedWasStored
    BY DEF DeletedWasStored, GoneWasStored
  <2>3. HiddenWasSeen
    <3> SUFFICES ASSUME NEW i \in source.here, Hidden(i) PROVE Settled(i)
      BY DEF HiddenWasSeen, Settled
    <3>1. i \in 1..source.last /\ i <= source.last
      BY FetchFacts DEF FetchTypes
    <3>2. QED
      BY <3>1 DEF Hidden, FeedOK
  <2>4. QED
    BY <2>1, <2>2, <2>3 DEF PollsAreSafe
<1>2. QED
  BY <1>1, FetchInvHolds, PTL

(* The watermark and the validator of the row never run ahead of what the    *)
(* source has had, the seen set holds only keys of that source, and a run    *)
(* keeps within its limit: the columns RecordRun writes.                     *)
THEOREM FetchTypeCorrect == FetchSpec => []FetchTypeOK
<1>1. FetchInv => FetchTypeOK
  <2> SUFFICES ASSUME FetchInv PROVE FetchTypeOK
    OBVIOUS
  <2> USE DEF FetchInv
  <2>1. /\ source.kind \in Kinds /\ source.here \subseteq 1..source.last /\ source.last <= MaxItem
        /\ seen \subseteq (0..source.valid) \X (1..source.last)
    BY FetchFacts DEF FetchTypes
  <2>2. feed.lastUid \in 0..source.last /\ feed.etag \in 0..source.last /\ feed.uidvalidity \in 0..source.valid
    <3>1. feed.lastUid \in Nat /\ feed.etag \in Nat /\ feed.uidvalidity \in Nat
      BY DEF FetchTypes, FeedRows
    <3>2. QED
      BY <3>1, FetchFacts DEF FeedOK, RowOK
  <2>3. ASSUME NEW r \in Runners PROVE run[r].pulled \in 0..PerRun /\ run[r].del \subseteq 1..source.last
    <3>1. PICK k \in FetchRuns : k = run[r] /\ RunOK(k)
      BY DEF FetchTypes, RunsOK
    <3>2. k.pulled \in Nat /\ k.pulled <= PerRun /\ k.del \subseteq 1..source.last
      BY <3>1, RunFields DEF RunOK
    <3>3. QED
      BY <3>1, <3>2, FetchFacts
  <2>4. gone \cap source.here = {}
    BY DEF GoneWasStored
  <2>5. QED
    BY <2>1, <2>2, <2>3, <2>4 DEF FetchTypeOK
<1>2. QED
  BY <1>1, FetchInvHolds, PTL

(***************************************************************************)
(* The file transfer                                                       *)
(***************************************************************************)

XGoes == {"asking", "reading"}
XSenders == [pc : {"start", "wait", "eotwait"} \cup XStops, at : 1..(FileBlocks + 1), retry : 0..MaxRetries]
XReceivers == [pc : XGoes \cup XStops, out : Seq(1..FileBlocks), expect : 0..(BlockMod - 1), limit : Limits]
XFrames ==
    [kind : {"block"}, at : 1..FileBlocks, ok : BOOLEAN] \cup [kind : {"eot", "can", "noise"}, at : {0}, ok : BOOLEAN]
XReplies == {"C", "ACK", "NAK", "CAN"}

XTypes ==
    /\ xs \in XSenders /\ xr \in XReceivers
    /\ toRecv \in Seq(XFrames) /\ toSend \in Seq(XReplies)
    /\ late \in 0..MaxLate /\ noise \in 0..MaxNoise
    /\ Len(xr.out) <= xr.limit
    /\ xr.expect = (Len(xr.out) + 1) % BlockMod
    /\ xs.pc = "start" => xs.at = 1 /\ Len(xr.out) = 0 /\ toRecv = <<>>
    /\ xs.pc = "wait" => xs.at <= FileBlocks
    /\ xs.pc \in {"eotwait", "ok"} => xs.at = FileBlocks + 1

(* What is stored is the beginning of the file, and the sender is no        *)
(* further back than the last block of it.                                  *)
XStored == (\A i \in DOMAIN xr.out : xr.out[i] = i) /\ Len(xr.out) <= xs.at

(* While the receiver goes on, every frame and answer under way goes back   *)
(* to the sender's first question or to a wait that ended early.  One behind *)
(* another they are all the sender can still be led ahead by.               *)
XAhead ==
    xr.pc \in XGoes =>
        /\ Len(toRecv) + Len(toSend) <= 1 + late
        /\ xs.at <= Len(xr.out) + 1 + late
        /\ \A i \in DOMAIN toRecv : toRecv[i].kind = "block" =>
              xs.at + Len(toSend) + i <= toRecv[i].at + 1 + late
        /\ \A i \in DOMAIN toSend : toSend[i] = "ACK" => xs.at + i <= Len(xr.out) + 1 + late

(* Frames come in the order of the file, none from before what is stored;   *)
(* EOT comes after the last block and nothing after CAN.                    *)
XOrder ==
    xr.pc \in XGoes =>
        /\ \A i \in DOMAIN toRecv : toRecv[i].kind = "block" => Len(xr.out) <= toRecv[i].at /\ toRecv[i].at <= xs.at
        /\ \A i, j \in DOMAIN toRecv : i < j /\ toRecv[i].kind = "block" /\ toRecv[j].kind = "block"
              => toRecv[i].at <= toRecv[j].at
        /\ \A i \in DOMAIN toRecv : toRecv[i].kind = "eot" => xs.at = FileBlocks + 1
        /\ \A i \in DOMAIN toRecv : toRecv[i].kind = "can" => xs.pc = "failed" /\ i = Len(toRecv)

(* On a link that damages nothing no block is missing under way. *)
XLevel(f) == IF f.kind = "block" THEN f.at ELSE FileBlocks + 1
XWhole ==
    xr.pc \in XGoes /\ noise = 0 =>
        /\ \A i \in DOMAIN toRecv : toRecv[i].kind = "can" \/ (toRecv[i].ok /\ toRecv[i].kind # "noise")
        /\ toRecv # <<>> /\ toRecv[1].kind # "can" => XLevel(toRecv[1]) <= Len(xr.out) + 1
        /\ \A i \in DOMAIN toRecv : i > 1 /\ toRecv[i].kind # "can" =>
              XLevel(toRecv[i]) <= XLevel(toRecv[i - 1]) + 1
        /\ xs.pc \in {"wait", "eotwait"} /\ toRecv = <<>> => xs.at <= Len(xr.out)
        /\ xs.pc \in {"wait", "eotwait"} /\ toRecv # <<>> => xs.at <= XLevel(toRecv[Len(toRecv)])

(* What an end that is done says of the other. *)
XDone ==
    /\ xr.pc = "ok" /\ (late = 0 \/ noise = 0) => Len(xr.out) = FileBlocks
    /\ xr.pc = "failed" /\ late = 0 => xs.pc = "failed" \/ (xs.pc = "wait" /\ toSend = <<"CAN">>)
    /\ xr.pc \in XGoes /\ late = 0 => xs.pc # "ok"

XExact == XStored /\ XAhead /\ XOrder /\ XWhole /\ XDone
XInv == XTypes /\ (NotLapped => XExact)

(* Division leaves one remainder. *)
LEMMA DivMod ==
    ASSUME NEW a \in Nat, NEW B \in Nat, B > 0
    PROVE  a \div B \in Nat /\ a % B \in 0..(B - 1) /\ a = B * (a \div B) + (a % B)
BY Z3

LEMMA ModUnique ==
    ASSUME NEW q \in Nat, NEW p \in Nat, NEW r \in Nat, NEW s \in Nat, NEW B \in Nat, r < B, s < B,
           B * q + r = B * p + s
    PROVE  q = p /\ r = s
<1>1. q <= p - 1 => B * q <= B * p - B
  BY SMT
<1>2. p <= q - 1 => B * p <= B * q - B
  BY SMT
<1>3. B * q \in Nat /\ B * p \in Nat
  BY SMT
<1>4. QED
  BY <1>1, <1>2, <1>3, SMT

(* Numbers less than B apart with one remainder are the same. *)
LEMMA ModNear ==
    ASSUME NEW a \in Nat, NEW b \in Nat, NEW B \in Nat, B > 0, a <= b, b < a + B, a % B = b % B
    PROVE  a = b
<1>1. PICK q \in Nat, p \in Nat : q = a \div B /\ p = b \div B
  BY DivMod
<1>2. PICK r \in 0..(B - 1) : r = a % B
  BY DivMod
<1>3. a = B * q + r /\ b = B * p + r
  BY <1>1, <1>2, DivMod
<1>4. PICK e \in Nat : b = a + e /\ e < B
  <2>1. b - a \in Nat /\ b = a + (b - a) /\ b - a < B
    OBVIOUS
  <2>2. QED
    BY <2>1
<1>5. B * q + e = B * p + 0
  <2>1. B * q \in Nat /\ B * p \in Nat
    BY SMT
  <2>2. QED
    BY <1>3, <1>4, <2>1
<1>6. e = 0
  BY <1>4, <1>5, ModUnique
<1>7. QED
  BY <1>4, <1>6

LEMMA ModNext ==
    ASSUME NEW a \in Nat, NEW B \in Nat, B > 0
    PROVE  ((a % B) + 1) % B = (a + 1) % B
<1>1. PICK q \in Nat, r \in 0..(B - 1) : q = a \div B /\ r = a % B /\ a = B * q + r
  BY DivMod
<1>2. PICK u \in Nat, t \in 0..(B - 1) : t = (r + 1) % B /\ r + 1 = B * u + t
  <2>1. PICK b \in Nat : b = r + 1
    OBVIOUS
  <2>2. b \div B \in Nat /\ b % B \in 0..(B - 1) /\ b = B * (b \div B) + (b % B)
    BY DivMod
  <2>3. QED
    BY <2>1, <2>2
<1>3. PICK v \in Nat, w \in 0..(B - 1) : w = (a + 1) % B /\ a + 1 = B * v + w
  <2>1. PICK b \in Nat : b = a + 1
    OBVIOUS
  <2>2. b \div B \in Nat /\ b % B \in 0..(B - 1) /\ b = B * (b \div B) + (b % B)
    BY DivMod
  <2>3. QED
    BY <2>1, <2>2
<1>4. q + u \in Nat /\ B * (q + u) = B * q + B * u
  BY SMT
<1>5. B * q \in Nat /\ B * u \in Nat /\ B * v \in Nat
  BY SMT
<1>6. B * (q + u) + t = B * v + w
  BY <1>1, <1>2, <1>3, <1>4, <1>5
<1>7. t = w
  BY <1>4, <1>6, ModUnique
<1>8. QED
  BY <1>1, <1>2, <1>3, <1>7

LEMMA XFacts ==
    ASSUME XTypes
    PROVE  /\ FileBlocks \in Nat /\ BlockMod \in Nat /\ BlockMod > 1 /\ late \in Nat /\ noise \in Nat
           /\ xs.at \in 1..(FileBlocks + 1) /\ xs.retry \in 0..MaxRetries /\ MaxRetries \in Nat
           /\ xs.pc \in {"start", "wait", "eotwait"} \cup XStops
           /\ xr.pc \in XGoes \cup XStops /\ xr.out \in Seq(1..FileBlocks) /\ Len(xr.out) \in Nat
           /\ xr.limit \in Nat
           /\ Len(toRecv) \in Nat /\ DOMAIN toRecv = 1..Len(toRecv) /\ \A i \in DOMAIN toRecv : toRecv[i] \in XFrames
           /\ Len(toSend) \in Nat /\ DOMAIN toSend = 1..Len(toSend)
<1>1. FileBlocks \in Nat /\ BlockMod \in Nat /\ BlockMod > 1 /\ MaxLate \in Nat /\ MaxNoise \in Nat
      /\ MaxRetries \in Nat /\ Limits \subseteq Nat
  BY XmodemAssumption
<1>2. /\ xs.at \in 1..(FileBlocks + 1) /\ xs.retry \in 0..MaxRetries
      /\ xs.pc \in {"start", "wait", "eotwait"} \cup XStops
  BY DEF XTypes, XSenders
<1>3. xr.pc \in XGoes \cup XStops /\ xr.out \in Seq(1..FileBlocks) /\ xr.limit \in Limits
  BY DEF XTypes, XReceivers
<1>4. Len(xr.out) \in Nat
  BY <1>3
<1>5. /\ Len(toRecv) \in Nat /\ DOMAIN toRecv = 1..Len(toRecv) /\ \A i \in DOMAIN toRecv : toRecv[i] \in XFrames
      /\ Len(toSend) \in Nat /\ DOMAIN toSend = 1..Len(toSend)
  BY DEF XTypes
<1>6. late \in Nat /\ noise \in Nat /\ xr.limit \in Nat
  <2>1. late \in 0..MaxLate /\ noise \in 0..MaxNoise
    BY DEF XTypes
  <2>2. late \in Nat /\ noise \in Nat
    BY <1>1, <2>1
  <2>3. xr.limit \in Nat
    BY <1>1, <1>3
  <2>4. QED
    BY <2>2, <2>3
<1>7. QED
  BY <1>1, <1>2, <1>3, <1>4, <1>5, <1>6

(* Levels and places are numbers. *)
LEMMA FrameFacts ==
    ASSUME NEW f \in XFrames
    PROVE  /\ f.at \in Nat /\ XLevel(f) \in Nat /\ XLevel(f) <= FileBlocks + 1
           /\ f.kind = "block" => f.at \in 1..FileBlocks /\ XLevel(f) = f.at
           /\ f.kind = "eot" => XLevel(f) = FileBlocks + 1
           /\ f.kind \in {"block", "eot", "can", "noise"}
<1>1. FileBlocks \in Nat
  BY XmodemAssumption
<1>2. QED
  BY <1>1 DEF XFrames, XLevel

(* The number of a block on the wire tells the next block from the last     *)
(* one, and both from any other that can be under way.                      *)
LEMMA WireNumbers ==
    ASSUME XInv, NotLapped, xr.pc \in XGoes, toRecv # <<>>, toRecv[1].kind = "block"
    PROVE  /\ (toRecv[1].at + 1) % BlockMod = xr.expect => toRecv[1].at = Len(xr.out)
           /\ toRecv[1].at % BlockMod = xr.expect => toRecv[1].at = Len(xr.out) + 1
<1> DEFINE n == Len(xr.out)
<1>1. PICK f \in XFrames : f = toRecv[1] /\ 1 \in DOMAIN toRecv
  BY XFacts DEF XInv, XTypes
<1>2. n \in Nat /\ BlockMod \in Nat /\ BlockMod > 1 /\ late \in Nat /\ f.at \in Nat /\ Len(toSend) \in Nat
      /\ xs.at \in Nat
  BY XFacts, FrameFacts DEF XInv
<1>3. n <= f.at /\ f.at <= xs.at
  BY <1>1 DEF XInv, XExact, XOrder
<1>4. f.at < n + BlockMod
  <2>1. CASE late + 2 <= BlockMod
    <3>1. xs.at <= n + 1 + late
      BY DEF XInv, XExact, XAhead
    <3>2. QED
      BY <1>2, <1>3, <2>1, <3>1
  <2>2. CASE noise = 0
    <3>1. XLevel(f) <= n + 1 /\ XLevel(f) = f.at
      BY <1>1, <2>2, FrameFacts DEF XInv, XExact, XWhole
    <3>2. QED
      BY <1>2, <3>1
  <2>3. QED
    BY <2>1, <2>2 DEF NotLapped
<1>5. xr.expect = (n + 1) % BlockMod
  BY DEF XInv, XTypes
<1>5a. \A a, b \in Nat : a <= b /\ b < a + BlockMod /\ a % BlockMod = b % BlockMod => a = b
  BY <1>2, ModNear
<1>5b. PICK m \in Nat, h \in Nat : m = n + 1 /\ h = f.at
  BY <1>2
<1>6. ASSUME (f.at + 1) % BlockMod = xr.expect PROVE f.at = n
  <2>1. PICK k \in Nat : k = h + 1
    OBVIOUS
  <2>2. m <= k /\ k < m + BlockMod /\ m % BlockMod = k % BlockMod
    <3>1. m <= k /\ k < m + BlockMod
      BY <1>2, <1>3, <1>4, <1>5b, <2>1
    <3>2. m % BlockMod = k % BlockMod
      BY <1>5, <1>5b, <1>6, <2>1
    <3>3. QED
      BY <3>1, <3>2
  <2>3. m = k
    BY <2>2, <1>5a
  <2>4. QED
    BY <2>1, <2>3, <1>2, <1>5b
<1>7. ASSUME f.at % BlockMod = xr.expect PROVE f.at = n + 1
  <2>1. h % BlockMod = m % BlockMod
    BY <1>5, <1>5b, <1>7
  <2>2. CASE h = n
    <3>1. h <= m /\ m < h + BlockMod
      BY <1>2, <1>5b, <2>2
    <3>2. h = m
      BY <2>1, <3>1, <1>5a
    <3>3. QED
      BY <3>2, <1>2, <1>5b, <2>2
  <2>3. CASE h # n
    <3>1. m <= h /\ h < m + BlockMod
      BY <1>2, <1>3, <1>4, <1>5b, <2>3
    <3>2. m = h
      BY <2>1, <3>1, <1>5a
    <3>3. QED
      BY <3>2, <1>5b
  <2>4. QED
    BY <2>2, <2>3
<1>8. QED
  BY <1>1, <1>6, <1>7

(* What a step of the sender does to what is under way: d answers are read, *)
(* or else a wait has ended early; j is the sender after it, and it sends   *)
(* its frame once more, the next one when d is an ACK, or a CAN.            *)
SenderMoves(d, j) ==
    /\ xs.pc \notin XStops /\ d \in {0, 1} /\ d <= Len(toSend)
    /\ xs' = j /\ j \in XSenders /\ xr' = xr /\ noise' = noise
    /\ toSend' \in Seq(XReplies) /\ Len(toSend') = Len(toSend) - d
    /\ \A i \in 1..(Len(toSend) - d) : toSend'[i] = toSend[i + d]
    /\ late' \in 0..MaxLate /\ late <= late' /\ (xr.pc \in XGoes => late' = late + 1 - d)
    /\ j.at = xs.at \/ (j.at = xs.at + 1 /\ d = 1 /\ toSend[1] = "ACK" /\ xs.pc = "wait")
    /\ j.pc = "ok" => xs.pc = "eotwait" /\ d = 1 /\ toSend[1] = "ACK"
    /\ j.pc = "start" => xs.pc = "start"
    /\ j.pc = "wait" => j.at <= FileBlocks
    /\ j.pc \in {"eotwait", "ok"} => j.at = FileBlocks + 1
    /\ xs.pc = "wait" /\ toSend = <<"CAN">> => j.pc = "failed"

SenderQuiet(j) == toRecv' = toRecv /\ j.pc \in {"start"} \cup XStops
SenderWrites(j, f) ==
    /\ toRecv' = Append(toRecv, f) /\ f \in XFrames
    /\ \/ f.kind = "block" /\ f.ok /\ f.at = j.at /\ j.pc = "wait"
       \/ f.kind = "eot" /\ f.ok /\ j.pc = "eotwait"
       \/ f.kind = "can" /\ j.pc = "failed"

(* Frames that have come to an end are one sequence, with one more at it. *)
LEMMA AppendFacts ==
    ASSUME NEW S, NEW s \in Seq(S), NEW e \in S
    PROVE  /\ Append(s, e) \in Seq(S) /\ Len(Append(s, e)) = Len(s) + 1 /\ Len(s) \in Nat
           /\ DOMAIN Append(s, e) = 1..(Len(s) + 1) /\ DOMAIN s = 1..Len(s)
           /\ \A i \in 1..Len(s) : Append(s, e)[i] = s[i]
           /\ Append(s, e)[Len(s) + 1] = e
OBVIOUS

LEMMA TailFacts ==
    ASSUME NEW S, NEW s \in Seq(S), s # <<>>
    PROVE  /\ Tail(s) \in Seq(S) /\ Len(Tail(s)) = Len(s) - 1 /\ Len(s) \in Nat /\ Len(s) >= 1
           /\ Head(s) = s[1] /\ s[1] \in S
           /\ \A i \in 1..(Len(s) - 1) : Tail(s)[i] = s[i + 1]
OBVIOUS

LEMMA SenderTypes ==
    ASSUME XTypes, NEW d, NEW j, SenderMoves(d, j), SenderQuiet(j) \/ \E f : SenderWrites(j, f)
    PROVE  XTypes'
<1>1. toRecv' \in Seq(XFrames)
  <2>1. CASE SenderQuiet(j)
    BY <2>1 DEF SenderQuiet, XTypes
  <2>2. CASE \E f : SenderWrites(j, f)
    BY <2>2, AppendFacts DEF SenderWrites, XTypes
  <2>3. QED
    BY <2>1, <2>2
<1>2. xs' = j /\ j \in XSenders /\ xr' = xr /\ noise' = noise /\ toSend' \in Seq(XReplies) /\ late' \in 0..MaxLate
  BY DEF SenderMoves
<1>3. /\ j.pc = "start" => j.at = 1 /\ Len(xr.out) = 0 /\ toRecv' = <<>>
      /\ j.pc = "wait" => j.at <= FileBlocks
      /\ j.pc \in {"eotwait", "ok"} => j.at = FileBlocks + 1
  <2>1. j.pc = "start" => j.at = 1 /\ Len(xr.out) = 0 /\ toRecv' = <<>>
    BY DEF SenderMoves, SenderQuiet, SenderWrites, XTypes
  <2>2. QED
    BY <2>1 DEF SenderMoves
<1>4. xr \in XReceivers /\ noise \in 0..MaxNoise /\ Len(xr.out) <= xr.limit /\ xr.expect = (Len(xr.out) + 1) % BlockMod
  BY DEF XTypes
<1>5. QED
  BY <1>1, <1>2, <1>3, <1>4 DEF XTypes

(* It leaves the frames under way where they are and adds one at most. *)
LEMMA SenderFrames ==
    ASSUME XTypes, NEW j, SenderQuiet(j) \/ \E f : SenderWrites(j, f)
    PROVE  /\ Len(toRecv') \in Nat /\ DOMAIN toRecv' = 1..Len(toRecv')
           /\ Len(toRecv') = Len(toRecv) \/ Len(toRecv') = Len(toRecv) + 1
           /\ \A i \in DOMAIN toRecv : i \in DOMAIN toRecv' /\ toRecv'[i] = toRecv[i]
           /\ \A i \in DOMAIN toRecv' : i \in DOMAIN toRecv \/ (i = Len(toRecv) + 1 /\ SenderWrites(j, toRecv'[i]))
<1>1. /\ Len(toRecv) \in Nat /\ DOMAIN toRecv = 1..Len(toRecv) /\ toRecv \in Seq(XFrames)
  BY DEF XTypes
<1>2. CASE SenderQuiet(j)
  BY <1>1, <1>2 DEF SenderQuiet
<1>3. ASSUME NEW f, SenderWrites(j, f)
      PROVE  /\ Len(toRecv') = Len(toRecv) + 1 /\ DOMAIN toRecv' = 1..(Len(toRecv) + 1)
             /\ toRecv'[Len(toRecv) + 1] = f /\ \A i \in 1..Len(toRecv) : toRecv'[i] = toRecv[i]
  <2>1. toRecv' = Append(toRecv, f) /\ f \in XFrames
    BY <1>3 DEF SenderWrites
  <2>2. QED
    BY <1>1, <2>1, AppendFacts
<1>4. CASE \E f : SenderWrites(j, f)
  <2>1. PICK f : SenderWrites(j, f)
    BY <1>4
  <2>2. QED
    BY <1>1, <1>3, <2>1
<1>5. QED
  BY <1>2, <1>4

(* What it reads moves the answers up, and what is late counts for one. *)
LEMMA SenderReads ==
    ASSUME XTypes, XTypes', NEW d, NEW j, SenderMoves(d, j), xr.pc \in XGoes
    PROVE  /\ \/ d = 0 /\ late' = late + 1 /\ Len(toSend') = Len(toSend)
                 /\ j.at = xs.at /\ \A i \in DOMAIN toSend' : i \in DOMAIN toSend /\ toSend'[i] = toSend[i]
              \/ /\ d = 1 /\ late' = late /\ Len(toSend') = Len(toSend) - 1
                 /\ \A i \in DOMAIN toSend' : i + 1 \in DOMAIN toSend /\ toSend'[i] = toSend[i + 1]
                 /\ j.at = xs.at \/ (j.at = xs.at + 1 /\ 1 \in DOMAIN toSend /\ toSend[1] = "ACK" /\ xs.pc = "wait")
           /\ late \in Nat /\ late' \in Nat /\ Len(toSend) \in Nat /\ Len(toSend') \in Nat
           /\ xs.at \in Nat /\ j.at \in Nat /\ Len(xr.out) \in Nat /\ xs' = j /\ xr' = xr
           /\ DOMAIN toSend' = 1..Len(toSend') /\ j.pc \in {"start", "wait", "eotwait"} \cup XStops
<1>1. /\ late \in Nat /\ Len(toSend) \in Nat /\ xs.at \in Nat /\ Len(xr.out) \in Nat
      /\ DOMAIN toSend = 1..Len(toSend)
  BY XFacts
<1>2. xs' = j /\ xr' = xr /\ j \in XSenders /\ Len(toSend') = Len(toSend) - d /\ late' = late + 1 - d
  BY DEF SenderMoves
<1>3. j.at \in Nat /\ j.pc \in {"start", "wait", "eotwait"} \cup XStops
  BY <1>2, XmodemAssumption DEF XSenders
<1>4. Len(toSend') \in Nat /\ DOMAIN toSend' = 1..Len(toSend')
  BY DEF XTypes
<1>5. /\ d \in {0, 1} /\ d <= Len(toSend)
      /\ \A i \in 1..(Len(toSend) - d) : toSend'[i] = toSend[i + d]
      /\ j.at = xs.at \/ (j.at = xs.at + 1 /\ d = 1 /\ toSend[1] = "ACK" /\ xs.pc = "wait")
  BY DEF SenderMoves
<1>6. CASE d = 0
  <2>1. late' = late + 1 /\ Len(toSend') = Len(toSend) /\ j.at = xs.at
    BY <1>1, <1>2, <1>5, <1>6
  <2>2. \A i \in 1..Len(toSend) : toSend'[i] = toSend[i]
    BY <1>1, <1>5, <1>6
  <2>3. QED
    BY <1>1, <1>2, <1>3, <1>4, <1>6, <2>1, <2>2
<1>7. CASE d = 1
  <2>1. late' = late /\ Len(toSend') = Len(toSend) - 1 /\ Len(toSend) >= 1
    BY <1>1, <1>2, <1>5, <1>7
  <2>2. \A i \in 1..(Len(toSend) - 1) : toSend'[i] = toSend[i + 1]
    BY <1>1, <1>5, <1>7
  <2>3. \A i \in DOMAIN toSend' : i + 1 \in DOMAIN toSend /\ toSend'[i] = toSend[i + 1]
    BY <1>1, <1>4, <2>1, <2>2
  <2>4. QED
    BY <1>1, <1>2, <1>3, <1>4, <1>5, <1>7, <2>1, <2>3
<1>8. QED
  BY <1>5, <1>6, <1>7

LEMMA SenderStaysAhead ==
    ASSUME XTypes, XExact, XTypes', NEW d, NEW j, SenderMoves(d, j), xr.pc \in XGoes,
           SenderQuiet(j) \/ \E f : SenderWrites(j, f)
    PROVE  XAhead'
<1>0. PICK n \in Nat : n = Len(xr.out)
  BY XFacts
<1>1. /\ Len(toRecv) + Len(toSend) <= 1 + late
      /\ xs.at <= n + 1 + late
      /\ \A i \in DOMAIN toRecv : toRecv[i].kind = "block" =>
              xs.at + Len(toSend) + i <= toRecv[i].at + 1 + late
      /\ \A i \in DOMAIN toSend : toSend[i] = "ACK" => xs.at + i <= n + 1 + late
  BY <1>0 DEF XExact, XAhead
<1>2. /\ late \in Nat /\ late' \in Nat /\ Len(toSend) \in Nat /\ Len(toSend') \in Nat
      /\ xs.at \in Nat /\ j.at \in Nat /\ xs' = j /\ xr' = xr
      /\ DOMAIN toSend' = 1..Len(toSend') /\ Len(toRecv) \in Nat /\ DOMAIN toRecv = 1..Len(toRecv)
  BY SenderReads, XFacts
<1>2a. Len(toRecv') \in Nat /\ (Len(toRecv') = Len(toRecv) \/ Len(toRecv') = Len(toRecv) + 1)
  BY SenderFrames
<1>3. CASE d = 0
  <2>1. /\ late' = late + 1 /\ Len(toSend') = Len(toSend) /\ j.at = xs.at
        /\ \A i \in DOMAIN toSend' : i \in DOMAIN toSend /\ toSend'[i] = toSend[i]
    BY <1>3, SenderReads
  <2>2. Len(toRecv') + Len(toSend') <= 1 + late'
    BY <1>1, <1>2, <1>2a, <2>1
  <2>2a. j.at <= n + 1 + late'
    BY <1>1, <1>2, <2>1
  <2>3. \A i \in DOMAIN toSend' : toSend'[i] = "ACK" => j.at + i <= n + 1 + late'
    <3> SUFFICES ASSUME NEW i \in DOMAIN toSend', toSend'[i] = "ACK" PROVE j.at + i <= n + 1 + late'
      OBVIOUS
    <3>1. i \in Nat /\ xs.at + i <= n + 1 + late
      BY <1>1, <1>2, <2>1
    <3>2. QED
      BY <1>2, <2>1, <3>1
  <2>4. ASSUME NEW i \in DOMAIN toRecv', toRecv'[i].kind = "block"
        PROVE  j.at + Len(toSend') + i <= toRecv'[i].at + 1 + late'
    <3>1. CASE i \in DOMAIN toRecv
      <4>1. PICK f \in XFrames : f = toRecv[i] /\ f = toRecv'[i]
        <5>1. toRecv[i] \in XFrames /\ toRecv'[i] = toRecv[i]
          BY <3>1, SenderFrames, XFacts
        <5>2. QED
          BY <5>1
      <4>1a. PICK a \in Nat : a = f.at /\ i \in Nat
        BY <1>2, <3>1, FrameFacts
      <4>2. xs.at + Len(toSend) + i <= a + 1 + late
        BY <1>1, <2>4, <3>1, <4>1, <4>1a
      <4>3. j.at + Len(toSend') <= xs.at + Len(toSend) /\ late <= late'
        BY <1>2, <2>1
      <4>4. j.at + Len(toSend') + i <= a + 1 + late'
        <5>1. i \in Nat /\ a \in Nat /\ late \in Nat /\ late' \in Nat /\ Len(toSend) \in Nat
          BY <1>2, <4>1a
        <5>2. Len(toSend') \in Nat /\ j.at \in Nat /\ xs.at \in Nat
          BY <1>2
        <5>3. QED
          BY <5>1, <5>2, <4>2, <4>3
      <4>5. QED
        BY <4>1, <4>1a, <4>4
    <3>2. CASE i = Len(toRecv) + 1 /\ SenderWrites(j, toRecv'[i])
      BY <1>1, <1>2, <2>1, <2>4, <3>2 DEF SenderWrites
    <3>3. QED
      BY <3>1, <3>2, SenderFrames
  <2>5. QED
    BY <1>0, <1>2, <2>2, <2>2a, <2>3, <2>4 DEF XAhead
<1>4. CASE d = 1
  <2>1. /\ late' = late /\ Len(toSend') = Len(toSend) - 1
        /\ \A i \in DOMAIN toSend' : i + 1 \in DOMAIN toSend /\ toSend'[i] = toSend[i + 1]
        /\ j.at = xs.at \/ (j.at = xs.at + 1 /\ 1 \in DOMAIN toSend /\ toSend[1] = "ACK" /\ xs.pc = "wait")
    BY <1>4, SenderReads
  <2>2. Len(toRecv') + Len(toSend') <= 1 + late'
    BY <1>1, <1>2, <1>2a, <2>1
  <2>2a. j.at <= n + 1 + late'
    BY <1>1, <1>2, <2>1
  <2>3. ASSUME NEW i \in DOMAIN toSend', toSend'[i] = "ACK"
        PROVE  j.at + i <= n + 1 + late'
    <3>1. xs.at + (i + 1) <= n + 1 + late /\ i \in Nat
      BY <1>1, <1>2, <2>1, <2>3
    <3>2. QED
      BY <1>2, <2>1, <3>1
  <2>4. ASSUME NEW i \in DOMAIN toRecv', toRecv'[i].kind = "block"
        PROVE  j.at + Len(toSend') + i <= toRecv'[i].at + 1 + late'
    <3>1. CASE i \in DOMAIN toRecv
      <4>1. PICK f \in XFrames : f = toRecv[i] /\ f = toRecv'[i]
        <5>1. toRecv[i] \in XFrames /\ toRecv'[i] = toRecv[i]
          BY <3>1, SenderFrames, XFacts
        <5>2. QED
          BY <5>1
      <4>1a. PICK a \in Nat : a = f.at /\ i \in Nat
        BY <1>2, <3>1, FrameFacts
      <4>2. xs.at + Len(toSend) + i <= a + 1 + late
        BY <1>1, <2>4, <3>1, <4>1, <4>1a
      <4>3. j.at + Len(toSend') <= xs.at + Len(toSend) /\ late <= late'
        BY <1>2, <2>1
      <4>4. j.at + Len(toSend') + i <= a + 1 + late'
        <5>1. i \in Nat /\ a \in Nat /\ late \in Nat /\ late' \in Nat /\ Len(toSend) \in Nat
          BY <1>2, <4>1a
        <5>2. Len(toSend') \in Nat /\ j.at \in Nat /\ xs.at \in Nat
          BY <1>2
        <5>3. QED
          BY <5>1, <5>2, <4>2, <4>3
      <4>5. QED
        BY <4>1, <4>1a, <4>4
    <3>2. CASE i = Len(toRecv) + 1 /\ SenderWrites(j, toRecv'[i])
      BY <1>1, <1>2, <2>1, <2>4, <3>2 DEF SenderWrites
    <3>3. QED
      BY <3>1, <3>2, SenderFrames
  <2>5. QED
    BY <1>0, <1>2, <2>2, <2>2a, <2>3, <2>4 DEF XAhead
<1>5. QED
  BY <1>3, <1>4, SenderReads

LEMMA SenderKeepsOrder ==
    ASSUME XTypes, XExact, XTypes', NEW d, NEW j, SenderMoves(d, j), xr.pc \in XGoes,
           SenderQuiet(j) \/ \E f : SenderWrites(j, f)
    PROVE  XOrder'
<1> DEFINE n == Len(xr.out)
<1>1. /\ \A i \in DOMAIN toRecv : toRecv[i].kind = "block" => n <= toRecv[i].at /\ toRecv[i].at <= xs.at
      /\ \A i, k \in DOMAIN toRecv : i < k /\ toRecv[i].kind = "block" /\ toRecv[k].kind = "block"
              => toRecv[i].at <= toRecv[k].at
      /\ \A i \in DOMAIN toRecv : toRecv[i].kind = "eot" => xs.at = FileBlocks + 1
      /\ \A i \in DOMAIN toRecv : toRecv[i].kind = "can" => xs.pc = "failed" /\ i = Len(toRecv)
      /\ n <= xs.at
  BY DEF XExact, XOrder, XStored
<1>2. /\ xs.at \in Nat /\ j.at \in Nat /\ n \in Nat /\ xs' = j /\ xr' = xr /\ FileBlocks \in Nat
      /\ Len(toRecv) \in Nat /\ DOMAIN toRecv = 1..Len(toRecv) /\ xs.pc # "failed"
  BY SenderReads, XFacts DEF SenderMoves, XStops
<1>3. j.at = xs.at \/ (j.at = xs.at + 1 /\ xs.pc = "wait" /\ xs.at <= FileBlocks)
  BY DEF SenderMoves, XTypes
<1>4. xs.at <= j.at
  BY <1>2, <1>3
<1>5. ASSUME NEW i \in DOMAIN toRecv
      PROVE  /\ toRecv[i].kind # "can" /\ i \in Nat /\ toRecv[i].at \in Nat
             /\ toRecv'[i] = toRecv[i] /\ i < Len(toRecv) + 1
  <2>1. toRecv'[i] = toRecv[i]
    BY SenderFrames
  <2>2. toRecv[i].at \in Nat
    BY XFacts, FrameFacts
  <2>3. toRecv[i].kind # "can"
    BY <1>1, <1>2
  <2>4. QED
    BY <1>2, <2>1, <2>2, <2>3
<1>6. ASSUME NEW i \in DOMAIN toRecv'
      PROVE  i \in DOMAIN toRecv \/ (i = Len(toRecv) + 1 /\ SenderWrites(j, toRecv'[i]) /\ i = Len(toRecv'))
  <2>1. i \in DOMAIN toRecv \/ (i = Len(toRecv) + 1 /\ SenderWrites(j, toRecv'[i]))
    BY SenderFrames
  <2>2. ASSUME i = Len(toRecv) + 1 PROVE i = Len(toRecv')
    <3>1. PICK m \in Nat, n1 \in Nat : m = Len(toRecv) /\ n1 = Len(toRecv') /\ (n1 = m \/ n1 = m + 1)
      BY <1>2, SenderFrames
    <3>2. i \in 1..n1 /\ i = m + 1
      BY <2>2, <3>1, SenderFrames
    <3>3. QED
      BY <3>1, <3>2
  <2>3. QED
    BY <2>1, <2>2
<1>7. ASSUME NEW i \in DOMAIN toRecv', toRecv'[i].kind = "block"
      PROVE  n <= toRecv'[i].at /\ toRecv'[i].at <= j.at
  <2>1. CASE i \in DOMAIN toRecv
    BY <1>1, <1>2, <1>4, <1>5, <1>7, <2>1
  <2>2. CASE SenderWrites(j, toRecv'[i])
    BY <1>1, <1>2, <1>4, <1>7, <2>2 DEF SenderWrites
  <2>3. QED
    BY <1>6, <2>1, <2>2
<1>8. ASSUME NEW i \in DOMAIN toRecv', NEW k \in DOMAIN toRecv', i < k,
             toRecv'[i].kind = "block", toRecv'[k].kind = "block"
      PROVE  toRecv'[i].at <= toRecv'[k].at
  <2>1. CASE k \in DOMAIN toRecv
    <3>1. i \in DOMAIN toRecv
      BY <1>2, <1>6, <1>8, <2>1
    <3>2. QED
      BY <1>1, <1>5, <1>8, <2>1, <3>1
  <2>2. CASE k = Len(toRecv) + 1 /\ SenderWrites(j, toRecv'[k])
    <3>1. i \in DOMAIN toRecv
      BY <1>2, <1>6, <1>8, <2>2
    <3>2. toRecv'[k].at = j.at
      BY <1>8, <2>2 DEF SenderWrites
    <3>3. toRecv'[i].at \in Nat /\ toRecv'[i].at <= xs.at
      BY <1>1, <1>5, <1>8, <3>1
    <3>4. QED
      BY <1>2, <1>4, <3>2, <3>3
  <2>3. QED
    BY <1>6, <2>1, <2>2
<1>9. ASSUME NEW i \in DOMAIN toRecv', toRecv'[i].kind = "eot"
      PROVE  j.at = FileBlocks + 1
  <2>1. CASE i \in DOMAIN toRecv
    BY <1>1, <1>2, <1>3, <1>5, <1>9, <2>1
  <2>2. CASE SenderWrites(j, toRecv'[i])
    BY <1>9, <2>2 DEF SenderWrites, SenderMoves
  <2>3. QED
    BY <1>6, <2>1, <2>2
<1>10. ASSUME NEW i \in DOMAIN toRecv', toRecv'[i].kind = "can"
       PROVE  j.pc = "failed" /\ i = Len(toRecv')
  <2>1. i = Len(toRecv') /\ SenderWrites(j, toRecv'[i])
    BY <1>5, <1>6, <1>10
  <2>2. QED
    BY <1>10, <2>1 DEF SenderWrites
<1>11. QED
  BY <1>2, <1>7, <1>8, <1>9, <1>10 DEF XOrder

LEMMA SenderKeepsWhole ==
    ASSUME XTypes, XExact, XTypes', NEW d, NEW j, SenderMoves(d, j), xr.pc \in XGoes, noise = 0,
           SenderQuiet(j) \/ \E f : SenderWrites(j, f)
    PROVE  XWhole'
<1>0. PICK n \in Nat, L \in Nat : n = Len(xr.out) /\ L = Len(toRecv)
  BY XFacts
<1>1. /\ \A i \in DOMAIN toRecv : toRecv[i].kind = "can" \/ (toRecv[i].ok /\ toRecv[i].kind # "noise")
      /\ toRecv # <<>> /\ toRecv[1].kind # "can" => XLevel(toRecv[1]) <= n + 1
      /\ \A i \in DOMAIN toRecv : i > 1 /\ toRecv[i].kind # "can" => XLevel(toRecv[i]) <= XLevel(toRecv[i - 1]) + 1
      /\ xs.pc \in {"wait", "eotwait"} /\ toRecv = <<>> => xs.at <= n
      /\ xs.pc \in {"wait", "eotwait"} /\ toRecv # <<>> => xs.at <= XLevel(toRecv[L])
  BY <1>0 DEF XExact, XWhole
<1>2. /\ xs' = j /\ xr' = xr /\ noise' = noise /\ xs.at \in Nat /\ j.at \in Nat /\ FileBlocks \in Nat
      /\ DOMAIN toRecv = 1..L /\ xs.pc \in {"start", "wait", "eotwait"}
  BY <1>0, SenderReads, XFacts DEF SenderMoves, XStops
<1>3. toRecv = <<>> <=> L = 0
  BY <1>0 DEF XTypes
<1>4. \A i \in 1..L : toRecv'[i] = toRecv[i] /\ XLevel(toRecv[i]) \in Nat
  BY <1>2, SenderFrames, XFacts, FrameFacts
<1>5. CASE SenderQuiet(j)
  <2>1. toRecv' = toRecv /\ j.pc \in {"start", "ok", "failed"}
    BY <1>5 DEF SenderQuiet, XStops
  <2>2. QED
    BY <1>0, <1>1, <1>2, <2>1 DEF XWhole
<1>6. ASSUME NEW f, SenderWrites(j, f)
      PROVE  XWhole'
  <2>1. /\ f \in XFrames /\ DOMAIN toRecv' = 1..(L + 1) /\ toRecv'[L + 1] = f /\ Len(toRecv') = L + 1
        /\ toRecv' # <<>>
    <3>1. /\ f \in XFrames /\ toRecv' = Append(toRecv, f) /\ toRecv \in Seq(XFrames)
      BY <1>6 DEF SenderWrites, XTypes
    <3>2. QED
      BY <1>0, <3>1, AppendFacts
  <2>2. f.kind = "can" \/ (f.ok /\ f.kind # "noise" /\ XLevel(f) = j.at)
    BY <1>6 DEF SenderWrites, SenderMoves, XLevel
  <2>3. f.kind = "can" => j.pc = "failed"
    BY <1>6 DEF SenderWrites
  <2>4. j.at <= xs.at + 1
    BY <1>2 DEF SenderMoves
  <2>5. xs.pc = "start" => L = 0 /\ j.at = 1
    BY <1>0, <1>2, <1>3 DEF XTypes, SenderMoves
  <2>6. ASSUME L = 0, f.kind # "can" PROVE XLevel(f) <= n + 1
    BY <1>0, <1>1, <1>2, <1>3, <2>2, <2>4, <2>5, <2>6
  <2>7. ASSUME L > 0, f.kind # "can" PROVE XLevel(f) <= XLevel(toRecv[L]) + 1
    <3>1. xs.at <= XLevel(toRecv[L]) /\ XLevel(toRecv[L]) \in Nat
      BY <1>0, <1>1, <1>2, <1>3, <1>4, <2>5, <2>7
    <3>2. QED
      BY <1>2, <2>2, <2>4, <2>7, <3>1
  <2>8. \A i \in DOMAIN toRecv' : toRecv'[i].kind = "can" \/ (toRecv'[i].ok /\ toRecv'[i].kind # "noise")
    BY <1>0, <1>1, <1>2, <1>4, <2>1, <2>2
  <2>9. toRecv'[1].kind # "can" => XLevel(toRecv'[1]) <= n + 1
    <3>1. CASE L = 0
      BY <2>1, <2>6, <3>1
    <3>2. CASE L > 0
      BY <1>0, <1>1, <1>3, <1>4, <3>2
    <3>3. QED
      BY <1>0, <3>1, <3>2
  <2>10. ASSUME NEW i \in DOMAIN toRecv', i > 1, toRecv'[i].kind # "can"
         PROVE  XLevel(toRecv'[i]) <= XLevel(toRecv'[i - 1]) + 1
    <3>1. CASE i = L + 1
      <4>1. L > 0 /\ i - 1 = L /\ toRecv'[i] = f /\ L \in 1..L
        BY <1>0, <2>1, <2>10, <3>1
      <4>2. QED
        BY <1>4, <2>7, <2>10, <4>1
    <3>2. CASE i # L + 1
      <4>1. i \in 1..L /\ i - 1 \in 1..L
        BY <1>0, <2>1, <2>10, <3>2
      <4>2. QED
        BY <1>1, <1>2, <1>4, <2>10, <4>1
    <3>3. QED
      BY <3>1, <3>2
  <2>11. j.pc \in {"wait", "eotwait"} => j.at <= XLevel(toRecv'[L + 1])
    BY <1>2, <2>1, <2>2, <2>3
  <2>12. QED
    <3>1. \A g : XLevel(g)' = XLevel(g)
      BY DEF XLevel
    <3>2. QED
      BY <1>0, <1>2, <2>1, <2>8, <2>9, <2>10, <2>11, <3>1 DEF XWhole
<1>7. QED
  BY <1>5, <1>6

LEMMA SeqFacts ==
    ASSUME NEW S, NEW s \in Seq(S)
    PROVE  Len(s) \in Nat /\ DOMAIN s = 1..Len(s) /\ \A i \in 1..Len(s) : s[i] \in S
OBVIOUS

(* There is no more to store than there is. *)
LEMMA StoredFits ==
    ASSUME XTypes, XStored
    PROVE  Len(xr.out) <= FileBlocks
<1>1. PICK out \in Seq(1..FileBlocks), n \in Nat : out = xr.out /\ n = Len(out)
  BY XFacts
<1>2. \A i \in 1..n : out[i] = i /\ out[i] \in 1..FileBlocks
  <2>1. DOMAIN out = 1..n /\ \A i \in 1..n : out[i] \in 1..FileBlocks
    <3>1. DOMAIN out = 1..Len(out) /\ \A i \in 1..Len(out) : out[i] \in 1..FileBlocks
      BY SeqFacts
    <3>2. QED
      BY <1>1, <3>1
  <2>2. \A i \in DOMAIN out : out[i] = i
    BY <1>1 DEF XStored
  <2>3. QED
    BY <2>1, <2>2
<1>3. FileBlocks \in Nat
  BY XmodemAssumption
<1>4. CASE n = 0
  BY <1>1, <1>3, <1>4
<1>5. CASE n # 0
  <2>1. n \in 1..n
    BY <1>5
  <2>2. n \in 1..FileBlocks
    BY <1>2, <2>1
  <2>3. QED
    BY <1>1, <1>3, <2>2
<1>6. QED
  BY <1>4, <1>5

LEMMA SenderStep ==
    ASSUME XInv, NEW d, NEW j, SenderMoves(d, j), SenderQuiet(j) \/ \E f : SenderWrites(j, f)
    PROVE  XInv'
<1>1. XTypes'
  BY SenderTypes DEF XInv
<1> SUFFICES ASSUME NotLapped' PROVE XExact'
  BY <1>1 DEF XInv
<1>2. /\ late \in Nat /\ late' \in Nat /\ late <= late' /\ noise' = noise /\ BlockMod \in Nat /\ xr' = xr /\ xs' = j
      /\ FileBlocks \in Nat /\ xs.pc \in {"start", "wait", "eotwait"}
  <2>1. late' \in Nat
    BY <1>1, XmodemAssumption DEF XTypes
  <2>2. QED
    BY <2>1, XFacts DEF XInv, SenderMoves, XStops
<1>3. NotLapped /\ XTypes /\ XExact
  <2>1. late' + 2 <= BlockMod => late + 2 <= BlockMod
    <3>1. late \in Nat /\ late' \in Nat /\ late <= late' /\ BlockMod \in Nat
      BY <1>2
    <3>2. PICK a \in Nat, b \in Nat, c \in Nat : a = late /\ b = late' /\ c = BlockMod /\ a <= b
      BY <3>1
    <3>3. a <= b
      BY <3>2
    <3>4. b + 2 <= c => a + 2 <= c
      BY <3>3
    <3>5. QED
      BY <3>2, <3>4
  <2>2. NotLapped
    BY <1>2, <2>1 DEF NotLapped
  <2>3. QED
    BY <2>2 DEF XInv
<1>4. XStored'
  <2>1. xs.at \in Nat /\ Len(xr.out) \in Nat
    BY <1>3, XFacts
  <2>2. j.at = xs.at \/ j.at = xs.at + 1
    BY DEF SenderMoves
  <2>3. Len(xr.out) <= xs.at /\ \A i \in DOMAIN xr.out : xr.out[i] = i
    BY <1>3 DEF XExact, XStored
  <2>4. Len(xr.out) <= j.at
    BY <2>1, <2>2, <2>3
  <2>5. QED
    BY <1>2, <2>3, <2>4 DEF XStored
<1>5. xr.pc \in XGoes => XAhead' /\ XOrder'
  BY <1>1, <1>3, SenderStaysAhead, SenderKeepsOrder
<1>6. xr.pc \in XGoes /\ noise = 0 => XWhole'
  BY <1>1, <1>3, SenderKeepsWhole
<1>7. XAhead' /\ XOrder' /\ XWhole'
  BY <1>2, <1>5, <1>6 DEF XAhead, XOrder, XWhole
<1>8. XDone'
  <2>1. xr.pc = "ok" /\ (late' = 0 \/ noise = 0) => Len(xr.out) = FileBlocks
    BY <1>2, <1>3 DEF XExact, XDone
  <2>2. xr.pc = "failed" /\ late' = 0 => j.pc = "failed"
    BY <1>2, <1>3 DEF XExact, XDone, SenderMoves
  <2>3. ASSUME xr.pc \in XGoes, late' = 0, j.pc = "ok"
        PROVE  FALSE
    <3>1. xs.pc = "eotwait" /\ toSend[1] = "ACK" /\ d = 1 /\ 1 <= Len(toSend) /\ xs.at = FileBlocks + 1
      BY <2>3, <1>3 DEF SenderMoves, XTypes
    <3>2. Len(xr.out) <= FileBlocks
      BY <1>3, StoredFits DEF XExact
    <3>3. 1 \in DOMAIN toSend /\ late = 0
      BY <1>2, <1>3, <2>3, <3>1, XFacts
    <3>4. xs.at + 1 <= Len(xr.out) + 1 + late
      BY <1>3, <2>3, <3>1, <3>3 DEF XExact, XAhead
    <3>5. QED
      BY <1>2, <1>3, <3>1, <3>2, <3>3, <3>4, XFacts
  <2>4. QED
    BY <1>2, <2>1, <2>2, <2>3 DEF XDone
<1>9. QED
  BY <1>4, <1>7, <1>8 DEF XExact

(* The sender turns to block k, sends what it is at once more, or gives up. *)
SenderTurns(j, k) ==
    /\ xs' = j /\ j \in XSenders /\ j.at = k /\ j.pc \in {"wait", "eotwait", "failed"}
    /\ j.pc = "wait" => j.at <= FileBlocks
    /\ j.pc = "eotwait" => j.at = FileBlocks + 1
    /\ SenderQuiet(j) \/ \E f : SenderWrites(j, f)

LEMMA WritesTurns ==
    ASSUME NEW k \in 1..(FileBlocks + 1), NEW r \in 0..MaxRetries, XWrites(k, r)
    PROVE  \E j : SenderTurns(j, k) /\ j.pc # "failed"
<1>1. FileBlocks \in Nat
  BY XmodemAssumption
<1>2. CASE k <= FileBlocks
  <2>1. PICK j : j = [pc |-> "wait", at |-> k, retry |-> r]
    OBVIOUS
  <2>2. PICK f : f = XFrame(k)
    OBVIOUS
  <2>3. xs' = j /\ toRecv' = Append(toRecv, f)
    BY <1>2, <2>1, <2>2 DEF XWrites
  <2>4. j \in XSenders /\ j.at = k /\ j.pc = "wait"
    BY <2>1 DEF XSenders
  <2>5. f \in XFrames /\ f.kind = "block" /\ f.ok /\ f.at = k
    BY <1>1, <1>2, <2>2 DEF XFrames, XFrame
  <2>6. QED
    BY <1>1, <1>2, <2>3, <2>4, <2>5 DEF SenderTurns, SenderWrites
<1>3. CASE ~(k <= FileBlocks)
  <2>1. PICK j : j = [pc |-> "eotwait", at |-> k, retry |-> r]
    OBVIOUS
  <2>2. PICK f : f = XEot
    OBVIOUS
  <2>3. xs' = j /\ toRecv' = Append(toRecv, f)
    BY <1>3, <2>1, <2>2 DEF XWrites
  <2>4. j \in XSenders /\ j.at = k /\ j.pc = "eotwait" /\ k = FileBlocks + 1
    BY <1>1, <1>3, <2>1 DEF XSenders
  <2>5. f \in XFrames /\ f.kind = "eot" /\ f.ok
    BY <2>2 DEF XFrames, XEot
  <2>6. QED
    BY <2>3, <2>4, <2>5 DEF SenderTurns, SenderWrites
<1>4. QED
  BY <1>2, <1>3

LEMMA FailsTurns ==
    ASSUME XTypes, XFails
    PROVE  \E j : SenderTurns(j, xs.at)
<1>1. PICK j : j = [xs EXCEPT !.pc = "failed"]
  OBVIOUS
<1>2. xs' = j /\ toRecv' = IF xs.pc = "wait" THEN Append(toRecv, [XNoise EXCEPT !.kind = "can"]) ELSE toRecv
  BY <1>1 DEF XFails
<1>3. j \in XSenders /\ j.at = xs.at /\ j.pc = "failed"
  BY <1>1 DEF XTypes, XSenders, XStops
<1>4. PICK f : f = [XNoise EXCEPT !.kind = "can"]
  OBVIOUS
<1>5. f \in XFrames /\ f.kind = "can"
  BY <1>4 DEF XFrames, XNoise
<1>6. SenderQuiet(j) \/ SenderWrites(j, f)
  BY <1>2, <1>3, <1>4, <1>5 DEF SenderQuiet, SenderWrites, XStops
<1>7. QED
  BY <1>2, <1>3, <1>6 DEF SenderTurns

LEMMA AgainTurns ==
    ASSUME XTypes, XAgain
    PROVE  \E j : SenderTurns(j, xs.at)
<1>1. CASE xs.retry + 1 < MaxRetries
  <2>1. xs.retry + 1 \in 0..MaxRetries /\ xs.at \in 1..(FileBlocks + 1)
    BY <1>1, XFacts
  <2>2. XWrites(xs.at, xs.retry + 1)
    BY <1>1 DEF XAgain
  <2>3. QED
    BY <2>1, <2>2, WritesTurns
<1>2. CASE ~(xs.retry + 1 < MaxRetries)
  BY <1>2, FailsTurns DEF XAgain
<1>3. QED
  BY <1>1, <1>2

(* A turn after an answer was read, and one after a wait ended early. *)
LEMMA ReadTurn ==
    ASSUME XInv, toSend # <<>>, toSend' = Tail(toSend), UNCHANGED <<xr, late, noise>>, xs.pc \notin XStops,
           NEW k, NEW j, SenderTurns(j, k),
           k = xs.at \/ (k = xs.at + 1 /\ Head(toSend) = "ACK" /\ xs.pc = "wait"),
           xs.pc = "wait" /\ Head(toSend) = "CAN" => j.pc = "failed"
    PROVE  XInv'
<1>1. /\ toSend' \in Seq(XReplies) /\ Len(toSend') = Len(toSend) - 1 /\ Len(toSend) \in Nat /\ 1 <= Len(toSend)
      /\ Head(toSend) = toSend[1] /\ \A i \in 1..(Len(toSend) - 1) : toSend'[i] = toSend[i + 1]
  BY TailFacts DEF XInv, XTypes
<1>2. toSend = <<"CAN">> => Head(toSend) = "CAN"
  OBVIOUS
<1>3. late \in 0..MaxLate /\ late \in Nat
  BY XFacts DEF XInv, XTypes
<1>4. late' = late /\ late <= late' /\ late' = late + 1 - 1
  BY <1>3
<1>5. SenderMoves(1, j)
  BY <1>1, <1>2, <1>3, <1>4 DEF SenderMoves, SenderTurns
<1>6. QED
  BY <1>5, SenderStep DEF SenderTurns

LEMMA SenderActs ==
    ASSUME XInv, SendStart \/ SendReadsReply \/ SendEnds \/ SendTimesOut
    PROVE  XInv'
<1>1. /\ FileBlocks \in Nat /\ xs.at \in 1..(FileBlocks + 1) /\ 0 \in 0..MaxRetries
      /\ xs.pc = "start" => xs.at = 1
      /\ xs.pc = "wait" => xs.at <= FileBlocks
      /\ xs.pc \in {"eotwait", "ok"} => xs.at = FileBlocks + 1
  <2>1. FileBlocks \in Nat /\ xs.at \in 1..(FileBlocks + 1) /\ MaxRetries \in Nat
    BY XFacts DEF XInv
  <2>2. QED
    BY <2>1 DEF XInv, XTypes
<1>2. CASE SendStart
  <2>1. xs.pc = "start" /\ toSend # <<>> /\ toSend' = Tail(toSend) /\ UNCHANGED <<xr, late, noise>>
    BY <1>2 DEF SendStart
  <2>2. CASE Head(toSend) = "C"
    <3>1. XWrites(1, 0) /\ xs.at = 1
      BY <1>1, <1>2, <2>1, <2>2 DEF SendStart
    <3>2. PICK j : SenderTurns(j, 1)
      BY <1>1, <3>1, WritesTurns
    <3>3. QED
      BY <2>1, <3>1, <3>2, ReadTurn DEF XStops
  <2>3. CASE Head(toSend) = "CAN"
    <3>1. PICK j : j = [xs EXCEPT !.pc = "failed"]
      OBVIOUS
    <3>2. xs' = j /\ toRecv' = toRecv
      BY <1>2, <2>3, <3>1 DEF SendStart
    <3>3. j \in XSenders /\ j.at = xs.at /\ j.pc = "failed"
      BY <3>1 DEF XInv, XTypes, XSenders, XStops
    <3>4. SenderTurns(j, xs.at)
      BY <3>2, <3>3 DEF SenderTurns, SenderQuiet, XStops
    <3>5. QED
      BY <2>1, <3>4, ReadTurn DEF XStops
  <2>4. CASE Head(toSend) \notin {"C", "CAN"}
    <3>1. xs' = xs /\ toRecv' = toRecv
      BY <1>2, <2>4 DEF SendStart
    <3>2. /\ toSend' \in Seq(XReplies) /\ Len(toSend') = Len(toSend) - 1 /\ Len(toSend) \in Nat /\ 1 <= Len(toSend)
          /\ \A i \in 1..(Len(toSend) - 1) : toSend'[i] = toSend[i + 1]
      BY <2>1, TailFacts DEF XInv, XTypes
    <3>3. late \in 0..MaxLate /\ late' = late /\ late <= late' /\ late' = late + 1 - 1
      <4>1. late \in 0..MaxLate /\ late \in Nat /\ late' = late
        BY <2>1, XFacts DEF XInv, XTypes
      <4>2. QED
        BY <4>1
    <3>4. PICK j : j = xs
      OBVIOUS
    <3>5. j \in XSenders
      BY <3>4 DEF XInv, XTypes
    <3>6. SenderMoves(1, j) /\ SenderQuiet(j)
      BY <2>1, <3>1, <3>2, <3>3, <3>4, <3>5 DEF SenderMoves, SenderQuiet, XStops
    <3>7. QED
      BY <3>6, SenderStep
  <2>5. QED
    BY <2>2, <2>3, <2>4
<1>3. CASE SendReadsReply
  <2>1. xs.pc = "wait" /\ toSend # <<>> /\ toSend' = Tail(toSend) /\ UNCHANGED <<xr, late, noise>>
    BY <1>3 DEF SendReadsReply
  <2>2. CASE Head(toSend) = "ACK"
    <3>1. XWrites(xs.at + 1, 0) /\ xs.at + 1 \in 1..(FileBlocks + 1)
      BY <1>1, <1>3, <2>1, <2>2 DEF SendReadsReply
    <3>2. PICK j : SenderTurns(j, xs.at + 1)
      BY <1>1, <3>1, WritesTurns
    <3>3. QED
      BY <2>1, <2>2, <3>2, ReadTurn DEF XStops
  <2>3. CASE Head(toSend) = "CAN"
    <3>1. PICK j : j = [xs EXCEPT !.pc = "failed"]
      OBVIOUS
    <3>2. xs' = j /\ toRecv' = toRecv
      BY <1>3, <2>3, <3>1 DEF SendReadsReply
    <3>3. j \in XSenders /\ j.at = xs.at /\ j.pc = "failed"
      BY <3>1 DEF XInv, XTypes, XSenders, XStops
    <3>4. SenderTurns(j, xs.at)
      BY <3>2, <3>3 DEF SenderTurns, SenderQuiet, XStops
    <3>5. QED
      BY <2>1, <3>3, <3>4, ReadTurn DEF XStops
  <2>4. CASE Head(toSend) \notin {"ACK", "CAN"}
    <3>1. XAgain
      BY <1>3, <2>4 DEF SendReadsReply
    <3>2. PICK j : SenderTurns(j, xs.at)
      BY <3>1, AgainTurns DEF XInv
    <3>3. QED
      BY <2>1, <2>4, <3>2, ReadTurn DEF XStops
  <2>5. QED
    BY <2>2, <2>3, <2>4
<1>4. CASE SendEnds
  <2>1. xs.pc = "eotwait" /\ toSend # <<>> /\ toSend' = Tail(toSend) /\ UNCHANGED <<xr, late, noise>>
    BY <1>4 DEF SendEnds
  <2>2. CASE Head(toSend) = "ACK"
    <3>1. PICK j : j = [xs EXCEPT !.pc = "ok"]
      OBVIOUS
    <3>2. xs' = j /\ toRecv' = toRecv
      BY <1>4, <2>2, <3>1 DEF SendEnds
    <3>3. j \in XSenders /\ j.at = xs.at /\ j.pc = "ok"
      BY <3>1 DEF XInv, XTypes, XSenders, XStops
    <3>4. /\ toSend' \in Seq(XReplies) /\ Len(toSend') = Len(toSend) - 1 /\ Len(toSend) \in Nat /\ 1 <= Len(toSend)
          /\ toSend[1] = "ACK" /\ \A i \in 1..(Len(toSend) - 1) : toSend'[i] = toSend[i + 1]
      BY <2>1, <2>2, TailFacts DEF XInv, XTypes
    <3>5. late \in 0..MaxLate /\ late' = late /\ late <= late' /\ late' = late + 1 - 1
      <4>1. late \in 0..MaxLate /\ late \in Nat /\ late' = late
        BY <2>1, XFacts DEF XInv, XTypes
      <4>2. QED
        BY <4>1
    <3>6. SenderMoves(1, j) /\ SenderQuiet(j)
      BY <1>1, <2>1, <3>2, <3>3, <3>4, <3>5 DEF SenderMoves, SenderQuiet, XStops
    <3>7. QED
      BY <3>6, SenderStep
  <2>3. CASE Head(toSend) # "ACK"
    <3>1. XAgain
      BY <1>4, <2>3 DEF SendEnds
    <3>2. PICK j : SenderTurns(j, xs.at)
      BY <3>1, AgainTurns DEF XInv
    <3>3. QED
      BY <2>1, <2>3, <3>2, ReadTurn DEF XStops
  <2>4. QED
    BY <2>2, <2>3
<1>5. CASE SendTimesOut
  <2>1. /\ xs.pc \in {"wait", "eotwait"} /\ toSend = <<>> /\ XAgain /\ UNCHANGED <<xr, toSend, noise>>
        /\ xr.pc \in XStops \/ late < MaxLate
        /\ late' = IF xr.pc \in XStops THEN late ELSE late + 1
    BY <1>5 DEF SendTimesOut
  <2>2. PICK j : SenderTurns(j, xs.at)
    BY <2>1, AgainTurns DEF XInv
  <2>3. late \in 0..MaxLate /\ late \in Nat /\ MaxLate \in Nat
    BY XFacts, XmodemAssumption DEF XInv, XTypes
  <2>4. late' \in 0..MaxLate /\ late <= late' /\ (xr.pc \in XGoes => late' = late + 1 - 0)
    BY <2>1, <2>3 DEF XGoes, XStops
  <2>5. toSend' \in Seq(XReplies) /\ toSend' = toSend /\ Len(toSend) \in Nat
    BY <2>1 DEF XInv, XTypes
  <2>6. Len(toSend') = Len(toSend) - 0 /\ \A i \in 1..(Len(toSend) - 0) : toSend'[i] = toSend[i + 0]
    BY <2>5
  <2>7. toSend # <<"CAN">>
    BY <2>1
  <2>8. SenderMoves(0, j)
    BY <2>1, <2>2, <2>4, <2>5, <2>6, <2>7 DEF SenderMoves, SenderTurns, XStops
  <2>9. QED
    BY <2>2, <2>8, SenderStep DEF SenderTurns
<1>6. QED
  BY <1>2, <1>3, <1>4, <1>5

(* The receiver takes m frames off the link. *)
FramesTaken(m) ==
    /\ m \in 1..Len(toRecv) /\ toRecv' \in Seq(XFrames) /\ Len(toRecv') = Len(toRecv) - m
    /\ \A i \in 1..(Len(toRecv) - m) : toRecv'[i] = toRecv[i + m]

LEMMA TailTaken ==
    ASSUME XTypes, toRecv # <<>>, toRecv' = Tail(toRecv)
    PROVE  FramesTaken(1)
<1>1. /\ Tail(toRecv) \in Seq(XFrames) /\ Len(Tail(toRecv)) = Len(toRecv) - 1 /\ Len(toRecv) \in Nat /\ Len(toRecv) >= 1
      /\ \A i \in 1..(Len(toRecv) - 1) : Tail(toRecv)[i] = toRecv[i + 1]
  BY TailFacts DEF XTypes
<1>2. 1 \in 1..Len(toRecv)
  BY <1>1
<1>3. QED
  BY <1>1, <1>2 DEF FramesTaken

LEMMA RestTaken ==
    ASSUME XTypes, toRecv # <<>>, NEW n \in 0..Len(Tail(toRecv)),
           toRecv' = SubSeq(Tail(toRecv), n + 1, Len(Tail(toRecv)))
    PROVE  FramesTaken(n + 1)
<1>1. PICK s \in Seq(XFrames), L \in Nat : s = Tail(toRecv) /\ L = Len(s) /\ Len(toRecv) = L + 1
                  /\ \A i \in 1..L : s[i] = toRecv[i + 1]
  <2>1. /\ Tail(toRecv) \in Seq(XFrames) /\ Len(Tail(toRecv)) = Len(toRecv) - 1 /\ Len(toRecv) \in Nat /\ Len(toRecv) >= 1
        /\ \A i \in 1..(Len(toRecv) - 1) : Tail(toRecv)[i] = toRecv[i + 1]
    BY TailFacts DEF XTypes
  <2>2. Len(Tail(toRecv)) \in Nat /\ Len(toRecv) = Len(Tail(toRecv)) + 1
    BY <2>1
  <2>3. QED
    BY <2>1, <2>2
<1>2. n \in 0..L
  BY <1>1
<1>3. PICK t : t = SubSeq(s, n + 1, L)
  OBVIOUS
<1>4. t \in Seq(XFrames) /\ Len(t) = L - n /\ \A i \in 1..(L - n) : t[i] = s[i + n]
  <2>1. n + 1 \in 1..(L + 1)
    BY <1>2
  <2>2. Len(t) = L - n
    BY <1>1, <1>2, <1>3
  <2>3. t \in Seq(XFrames)
    BY <1>1, <1>2, <1>3
  <2>4. \A i \in 1..(L - n) : t[i] = s[i + n]
    BY <1>1, <1>2, <1>3
  <2>5. QED
    BY <2>2, <2>3, <2>4
<1>5. toRecv' = t
  BY <1>1, <1>3
<1>6. n + 1 \in 1..Len(toRecv) /\ Len(toRecv) - (n + 1) = L - n
  BY <1>1, <1>2
<1>7. ASSUME NEW i \in 1..(L - n)
      PROVE  toRecv'[i] = toRecv[i + (n + 1)]
  <2>1. i + n \in 1..L /\ (i + n) + 1 = i + (n + 1)
    BY <1>2
  <2>2. QED
    BY <1>1, <1>4, <1>5, <2>1
<1>8. QED
  BY <1>4, <1>5, <1>6, <1>7 DEF FramesTaken

(* What taking frames and answering does to the two queues. *)
LEMMA Taken ==
    ASSUME XTypes, NEW m, FramesTaken(m)
    PROVE  /\ m \in Nat /\ m >= 1 /\ Len(toRecv) \in Nat /\ Len(toRecv') \in Nat /\ Len(toRecv') + m = Len(toRecv)
           /\ 1 \in DOMAIN toRecv /\ toRecv # <<>> /\ DOMAIN toRecv' = 1..Len(toRecv')
           /\ \A i \in DOMAIN toRecv' : i \in Nat /\ i + m \in DOMAIN toRecv /\ toRecv'[i] = toRecv[i + m]
<1>1. Len(toRecv) \in Nat /\ DOMAIN toRecv = 1..Len(toRecv)
  BY XFacts
<1>2. m \in Nat /\ m >= 1 /\ m <= Len(toRecv) /\ Len(toRecv') = Len(toRecv) - m /\ toRecv' \in Seq(XFrames)
  BY <1>1 DEF FramesTaken
<1>3. DOMAIN toRecv' = 1..Len(toRecv') /\ Len(toRecv') \in Nat /\ Len(toRecv') + m = Len(toRecv)
  BY <1>1, <1>2
<1>4. 1 \in DOMAIN toRecv /\ toRecv # <<>>
  BY <1>1, <1>2
<1>5. ASSUME NEW i \in DOMAIN toRecv'
      PROVE  i \in Nat /\ i + m \in DOMAIN toRecv /\ toRecv'[i] = toRecv[i + m]
  <2>1. i \in 1..(Len(toRecv) - m)
    BY <1>2, <1>3
  <2>2. toRecv'[i] = toRecv[i + m]
    BY <2>1 DEF FramesTaken
  <2>3. QED
    BY <1>1, <1>2, <2>1, <2>2
<1>6. QED
  BY <1>2, <1>3, <1>4, <1>5, <1>1

LEMMA Answered ==
    ASSUME XTypes, NEW a \in XReplies, XAnswers(a)
    PROVE  /\ toSend' \in Seq(XReplies) /\ Len(toSend) \in Nat /\ Len(toSend') = Len(toSend) + 1
           /\ DOMAIN toSend' = 1..(Len(toSend) + 1) /\ DOMAIN toSend = 1..Len(toSend)
           /\ toSend'[Len(toSend) + 1] = a /\ \A i \in DOMAIN toSend : toSend'[i] = toSend[i]
BY AppendFacts DEF XTypes, XAnswers

(* NAK, or noise passed over while asking: nothing is stored. *)
LEMMA DropStep ==
    ASSUME XInv, NEW m, FramesTaken(m), NEW k \in XReceivers, xr' = k, k.pc \in XGoes, xr.pc \in XGoes,
           k.out = xr.out, k.expect = xr.expect, k.limit = xr.limit, UNCHANGED <<xs, late, noise>>,
           toSend' = toSend \/ XAnswers("NAK"), noise # 0
    PROVE  XInv'
<1>1. XTypes /\ XTypes'
  <2>1. toSend' \in Seq(XReplies)
    BY Answered DEF XInv, XTypes, XReplies
  <2>2. toRecv' \in Seq(XFrames) /\ toRecv # <<>>
    BY Taken DEF FramesTaken, XInv
  <2>3. QED
    BY <2>1, <2>2 DEF XInv, XTypes
<1> SUFFICES ASSUME NotLapped PROVE XExact'
  BY <1>1 DEF XInv, NotLapped
<1>2. PICK n \in Nat, h \in Nat, t \in Nat : n = Len(xr.out) /\ h = xs.at /\ t = late
  BY <1>1, XFacts
<1>3. /\ Len(toRecv) + Len(toSend) <= 1 + t /\ h <= n + 1 + t
      /\ \A i \in DOMAIN toRecv : toRecv[i].kind = "block" => h + Len(toSend) + i <= toRecv[i].at + 1 + t
      /\ \A i \in DOMAIN toSend : toSend[i] = "ACK" => h + i <= n + 1 + t
      /\ XOrder /\ XStored /\ XDone
  BY <1>2 DEF XInv, XExact, XAhead
<1>4. /\ Len(toSend) \in Nat /\ Len(toSend') \in Nat /\ Len(toSend') <= Len(toSend) + 1
      /\ \A i \in DOMAIN toSend' : toSend'[i] = "ACK" => i \in DOMAIN toSend /\ toSend[i] = "ACK"
  <2>1. CASE toSend' = toSend
    BY <1>1, <2>1, XFacts
  <2>2. CASE XAnswers("NAK")
    <3>1. /\ Len(toSend) \in Nat /\ Len(toSend') = Len(toSend) + 1
          /\ DOMAIN toSend' = 1..(Len(toSend) + 1) /\ DOMAIN toSend = 1..Len(toSend)
          /\ toSend'[Len(toSend) + 1] = "NAK" /\ \A i \in DOMAIN toSend : toSend'[i] = toSend[i]
      BY <1>1, <2>2, Answered DEF XReplies
    <3>2. QED
      BY <3>1
  <2>3. QED
    BY <2>1, <2>2
<1>5. XAhead'
  <2>1. Len(toRecv') + Len(toSend') <= 1 + t
    <3>1. PICK p \in Nat, q \in Nat, u \in Nat, v \in Nat, w \in Nat :
                  /\ p = Len(toRecv) /\ q = Len(toRecv') /\ u = Len(toSend) /\ v = Len(toSend') /\ w = m
                  /\ q + w = p /\ w >= 1
      BY <1>1, <1>4, Taken
    <3>2. QED
      BY <1>3, <1>4, <3>1
  <2>2. ASSUME NEW i \in DOMAIN toRecv', toRecv'[i].kind = "block"
        PROVE  h + Len(toSend') + i <= toRecv'[i].at + 1 + t
    <3>1. i \in Nat /\ m \in Nat /\ m >= 1 /\ i + m \in DOMAIN toRecv /\ toRecv'[i] = toRecv[i + m]
      BY <1>1, Taken
    <3>2. PICK f \in XFrames, e \in Nat : f = toRecv[i + m] /\ e = f.at
      BY <1>1, <3>1, XFacts, FrameFacts
    <3>3. h + Len(toSend) + (i + m) <= e + 1 + t
      BY <1>3, <2>2, <3>1, <3>2
    <3>4. h + Len(toSend') + i <= e + 1 + t
      <4>1. PICK u \in Nat, v \in Nat, w \in Nat : u = Len(toSend) /\ v = Len(toSend') /\ w = m
        BY <1>4, <3>1
      <4>2. h + u + (i + w) <= e + 1 + t /\ v <= u + 1 /\ w >= 1
        BY <1>4, <3>1, <3>3, <4>1
      <4>3. h + v + i <= e + 1 + t
        BY <3>1, <4>2
      <4>4. QED
        BY <4>1, <4>3
    <3>5. QED
      BY <3>1, <3>2, <3>4
  <2>3. \A i \in DOMAIN toSend' : toSend'[i] = "ACK" => h + i <= n + 1 + t
    BY <1>3, <1>4
  <2>4. QED
    BY <1>2, <1>3, <2>1, <2>2, <2>3 DEF XAhead
<1>6. XOrder'
  <2>1. ASSUME NEW i \in DOMAIN toRecv'
        PROVE  /\ toRecv'[i].kind = "block" => n <= toRecv'[i].at /\ toRecv'[i].at <= h
               /\ toRecv'[i].kind = "eot" => h = FileBlocks + 1
               /\ toRecv'[i].kind = "can" => xs.pc = "failed" /\ i = Len(toRecv')
    <3>1. i + m \in DOMAIN toRecv /\ toRecv'[i] = toRecv[i + m]
      BY <1>1, Taken
    <3>2. i + m = Len(toRecv) => i = Len(toRecv')
      <4>1. i \in Nat /\ m \in Nat /\ Len(toRecv') \in Nat /\ Len(toRecv') + m = Len(toRecv)
        BY <1>1, Taken
      <4>2. QED
        BY <4>1
    <3>3. QED
      BY <1>2, <1>3, <3>1, <3>2 DEF XOrder
  <2>2. ASSUME NEW i \in DOMAIN toRecv', NEW j \in DOMAIN toRecv', i < j,
               toRecv'[i].kind = "block", toRecv'[j].kind = "block"
        PROVE  toRecv'[i].at <= toRecv'[j].at
    <3>1. /\ i + m \in DOMAIN toRecv /\ toRecv'[i] = toRecv[i + m]
          /\ j + m \in DOMAIN toRecv /\ toRecv'[j] = toRecv[j + m]
      BY <1>1, Taken
    <3>2. i + m < j + m
      <4>1. i \in Nat /\ m \in Nat /\ j \in Nat
        BY <1>1, Taken
      <4>2. QED
        BY <4>1, <2>2
    <3>3. QED
      BY <1>3, <2>2, <3>1, <3>2 DEF XOrder
  <2>3. QED
    BY <1>2, <2>1, <2>2 DEF XOrder
<1>7. XStored' /\ XWhole' /\ XDone'
  BY <1>3 DEF XStored, XWhole, XDone, XGoes
<1>8. QED
  BY <1>5, <1>6, <1>7 DEF XExact

(* ACK for a block: the one that has just been stored, or the last one again. *)
LEMMA AckStep ==
    ASSUME XInv, XTypes', FramesTaken(1), toRecv[1].kind = "block", NEW k \in XReceivers, xr' = k, k.pc \in XGoes,
           xr.pc \in XGoes, UNCHANGED <<xs, late, noise>>, XAnswers("ACK"),
           NotLapped => Len(k.out) = toRecv[1].at,
           k.out = xr.out \/ (k.out = Append(xr.out, toRecv[1].at) /\ (NotLapped => toRecv[1].at = Len(xr.out) + 1))
    PROVE  XInv'
<1> SUFFICES ASSUME NotLapped PROVE XExact'
  BY DEF XInv, NotLapped
<1>1. XTypes /\ XExact
  BY DEF XInv
<1>2. PICK n \in Nat, h \in Nat, t \in Nat, f \in XFrames, e \in Nat :
            n = Len(xr.out) /\ h = xs.at /\ t = late /\ f = toRecv[1] /\ e = f.at
  <2>1. Len(xr.out) \in Nat /\ xs.at \in Nat /\ late \in Nat
    BY <1>1, XFacts
  <2>2. PICK f \in XFrames : f = toRecv[1]
    BY <1>1, XFacts, Taken
  <2>3. f.at \in Nat
    BY FrameFacts
  <2>4. QED
    BY <2>1, <2>2, <2>3
<1>3. Len(k.out) = e /\ n <= e /\ e <= h
  <2>1. 1 \in DOMAIN toRecv
    BY <1>1, Taken
  <2>2. QED
    BY <1>1, <1>2, <2>1 DEF XExact, XOrder
<1>4. /\ Len(toRecv) + Len(toSend) <= 1 + t
      /\ \A i \in DOMAIN toRecv : toRecv[i].kind = "block" => h + Len(toSend) + i <= toRecv[i].at + 1 + t
      /\ \A i \in DOMAIN toSend : toSend[i] = "ACK" => h + i <= n + 1 + t
  BY <1>1, <1>2 DEF XExact, XAhead
<1>5. PICK L \in Nat : /\ L = Len(toSend) /\ Len(toSend') = L + 1 /\ DOMAIN toSend' = 1..(L + 1)
                       /\ DOMAIN toSend = 1..L /\ \A i \in DOMAIN toSend : toSend'[i] = toSend[i]
  BY <1>1, Answered DEF XReplies
<1>6. PICK R \in Nat : /\ R = Len(toRecv') /\ Len(toRecv) = R + 1 /\ DOMAIN toRecv' = 1..R
                       /\ \A i \in DOMAIN toRecv' : i \in Nat /\ i + 1 \in DOMAIN toRecv /\ toRecv'[i] = toRecv[i + 1]
                       /\ 1 \in DOMAIN toRecv
  <2>1. /\ Len(toRecv) \in Nat /\ Len(toRecv') \in Nat /\ Len(toRecv') + 1 = Len(toRecv)
        /\ 1 \in DOMAIN toRecv /\ DOMAIN toRecv' = 1..Len(toRecv')
        /\ \A i \in DOMAIN toRecv' : i \in Nat /\ i + 1 \in DOMAIN toRecv /\ toRecv'[i] = toRecv[i + 1]
    BY <1>1, Taken
  <2>2. QED
    BY <2>1
<1>7. h + L + 1 <= e + 1 + t
  BY <1>2, <1>4, <1>5, <1>6
<1>8. XAhead'
  <2>1. Len(toRecv') + Len(toSend') <= 1 + t
    BY <1>4, <1>5, <1>6
  <2>2. h <= e + 1 + t
    BY <1>7
  <2>3. ASSUME NEW i \in DOMAIN toRecv', toRecv'[i].kind = "block"
        PROVE  h + Len(toSend') + i <= toRecv'[i].at + 1 + t
    <3>1. i \in Nat /\ i + 1 \in DOMAIN toRecv /\ toRecv'[i] = toRecv[i + 1]
      BY <1>6
    <3>2. PICK g \in XFrames, b \in Nat : g = toRecv[i + 1] /\ b = g.at
      BY <1>1, <3>1, XFacts, FrameFacts
    <3>3. h + L + (i + 1) <= b + 1 + t
      BY <1>4, <1>5, <2>3, <3>1, <3>2
    <3>4. h + (L + 1) + i <= b + 1 + t
      BY <3>1, <3>3
    <3>5. QED
      BY <1>5, <3>1, <3>2, <3>4
  <2>4. ASSUME NEW i \in DOMAIN toSend', toSend'[i] = "ACK"
        PROVE  h + i <= e + 1 + t
    <3>1. CASE i \in DOMAIN toSend
      <4>1. i \in Nat /\ h + i <= n + 1 + t
        BY <1>4, <1>5, <2>4, <3>1
      <4>2. QED
        BY <1>3, <4>1
    <3>2. CASE i = L + 1
      BY <1>7, <3>2
    <3>3. QED
      BY <1>5, <3>1, <3>2
  <2>5. QED
    BY <1>2, <1>3, <2>1, <2>2, <2>3, <2>4 DEF XAhead
<1>9. XOrder'
  <2>1. ASSUME NEW i \in DOMAIN toRecv'
        PROVE  /\ toRecv'[i].kind = "block" => e <= toRecv'[i].at /\ toRecv'[i].at <= h
               /\ toRecv'[i].kind = "eot" => h = FileBlocks + 1
               /\ toRecv'[i].kind = "can" => xs.pc = "failed" /\ i = R
    <3>1. i \in Nat /\ i + 1 \in DOMAIN toRecv /\ toRecv'[i] = toRecv[i + 1]
      BY <1>6
    <3>2. i + 1 = R + 1 => i = R
      BY <3>1
    <3>3. 1 < i + 1
      <4>1. i \in 1..R
        BY <1>6
      <4>2. QED
        BY <4>1
    <3>4. QED
      BY <1>1, <1>2, <1>6, <3>1, <3>2, <3>3 DEF XExact, XOrder
  <2>2. ASSUME NEW i \in DOMAIN toRecv', NEW j \in DOMAIN toRecv', i < j,
               toRecv'[i].kind = "block", toRecv'[j].kind = "block"
        PROVE  toRecv'[i].at <= toRecv'[j].at
    <3>1. /\ i \in Nat /\ i + 1 \in DOMAIN toRecv /\ toRecv'[i] = toRecv[i + 1]
          /\ j \in Nat /\ j + 1 \in DOMAIN toRecv /\ toRecv'[j] = toRecv[j + 1]
      BY <1>6
    <3>2. i + 1 < j + 1
      BY <2>2, <3>1
    <3>3. QED
      BY <1>1, <2>2, <3>1, <3>2 DEF XExact, XOrder
  <2>3. QED
    BY <1>2, <1>3, <1>6, <2>1, <2>2 DEF XOrder
<1>10. XWhole'
  <2> SUFFICES ASSUME noise = 0 PROVE XWhole'
    BY DEF XWhole
  <2>1. /\ \A i \in DOMAIN toRecv : toRecv[i].kind = "can" \/ (toRecv[i].ok /\ toRecv[i].kind # "noise")
        /\ \A i \in DOMAIN toRecv : i > 1 /\ toRecv[i].kind # "can" => XLevel(toRecv[i]) <= XLevel(toRecv[i - 1]) + 1
        /\ xs.pc \in {"wait", "eotwait"} => h <= XLevel(toRecv[R + 1])
    <3>1. toRecv # <<>>
      BY <1>1, Taken
    <3>2. QED
      BY <1>1, <1>2, <1>6, <3>1 DEF XExact, XWhole
  <2>2. XLevel(toRecv[1]) = e
    BY <1>2 DEF XLevel
  <2>3. \A g : XLevel(g)' = XLevel(g)
    BY DEF XLevel
  <2>4. ASSUME NEW i \in DOMAIN toRecv'
        PROVE  /\ toRecv'[i].kind = "can" \/ (toRecv'[i].ok /\ toRecv'[i].kind # "noise")
               /\ toRecv'[i].kind # "can" => XLevel(toRecv'[i]) <= XLevel(toRecv[i]) + 1
    <3>1. i \in Nat /\ i + 1 \in DOMAIN toRecv /\ toRecv'[i] = toRecv[i + 1] /\ i + 1 > 1 /\ (i + 1) - 1 = i
      <4>1. i \in 1..R
        BY <1>6
      <4>2. QED
        BY <1>6, <4>1
    <3>2. QED
      BY <2>1, <3>1
  <2>5. toRecv' # <<>> /\ toRecv'[1].kind # "can" => XLevel(toRecv'[1]) <= e + 1
    <3>1. toRecv' # <<>> => 1 \in DOMAIN toRecv'
      BY DEF XTypes
    <3>2. QED
      BY <2>2, <2>4, <3>1
  <2>6. ASSUME NEW i \in DOMAIN toRecv', i > 1, toRecv'[i].kind # "can"
        PROVE  XLevel(toRecv'[i]) <= XLevel(toRecv'[i - 1]) + 1
    <3>1. i - 1 \in DOMAIN toRecv' /\ (i - 1) + 1 = i
      <4>1. i \in 1..R
        BY <1>6
      <4>2. QED
        BY <1>6, <2>6, <4>1
    <3>2. toRecv'[i - 1] = toRecv[i]
      BY <1>6, <3>1
    <3>3. QED
      BY <2>4, <2>6, <3>2
  <2>7. xs.pc \in {"wait", "eotwait"} /\ toRecv' = <<>> => h <= e
    <3>1. toRecv' = <<>> => R = 0
      BY <1>6
    <3>2. R = 0 => R + 1 = 1
      OBVIOUS
    <3>3. QED
      BY <2>1, <2>2, <3>1, <3>2
  <2>8. xs.pc \in {"wait", "eotwait"} /\ toRecv' # <<>> => h <= XLevel(toRecv'[R])
    <3>1. toRecv' # <<>> => R \in DOMAIN toRecv'
      BY <1>6 DEF XTypes
    <3>2. QED
      BY <1>6, <2>1, <3>1
  <2>9. QED
    BY <1>2, <1>3, <1>6, <2>3, <2>4, <2>5, <2>6, <2>7, <2>8 DEF XWhole
<1>11. XStored'
  <2>1. PICK o \in Seq(1..FileBlocks) : o = xr.out /\ \A i \in DOMAIN o : o[i] = i
    BY <1>1, XFacts DEF XExact, XStored
  <2>2. CASE k.out = o
    BY <1>2, <1>3, <2>1, <2>2 DEF XStored
  <2>3. CASE k.out = Append(o, e) /\ e = n + 1
    <3>1. e \in 1..FileBlocks /\ n = Len(o)
      BY <1>2, <2>1, FrameFacts
    <3>2. /\ DOMAIN Append(o, e) = 1..(n + 1) /\ DOMAIN o = 1..n /\ \A i \in 1..n : Append(o, e)[i] = o[i]
          /\ Append(o, e)[n + 1] = e
      BY <3>1, AppendFacts
    <3>3. \A i \in 1..(n + 1) : Append(o, e)[i] = i
      BY <2>1, <2>3, <3>2
    <3>4. QED
      BY <1>2, <1>3, <2>3, <3>2, <3>3 DEF XStored
  <2>4. QED
    BY <1>2, <2>1, <2>2, <2>3
<1>12. XDone'
  BY <1>1 DEF XDone, XGoes, XExact
<1>13. QED
  BY <1>8, <1>9, <1>10, <1>11, <1>12 DEF XExact

(* The receiver is done: what is under way is of no more use. *)
LEMMA StopStep ==
    ASSUME XInv, NEW k \in XReceivers, xr' = k, k.pc \in XStops, k.out = xr.out, k.expect = xr.expect, k.limit = xr.limit,
           xs' = xs, noise' = noise, late' \in {late, late + 1}, late' \in 0..MaxLate,
           toRecv' \in Seq(XFrames), toSend' \in Seq(XReplies), xs.pc = "start" => toRecv' = <<>>,
           NotLapped /\ XExact => XDone'
    PROVE  XInv'
<1>1. XTypes'
  BY DEF XInv, XTypes
<1>2. NotLapped' => NotLapped
  <2>1. late \in Nat /\ late' \in Nat /\ late <= late' /\ BlockMod \in Nat
    <3>1. late \in Nat /\ BlockMod \in Nat
      BY XFacts DEF XInv
    <3>2. QED
      BY <3>1
  <2>2. PICK a \in Nat, b \in Nat, c \in Nat : a = late /\ b = late' /\ c = BlockMod /\ a <= b
    BY <2>1
  <2>3. a <= b
    BY <2>2
  <2>4. b + 2 <= c => a + 2 <= c
    BY <2>3
  <2>5. QED
    BY <2>2, <2>4 DEF NotLapped
<1>3. ASSUME NotLapped' PROVE XExact'
  <2>1. XExact /\ NotLapped
    BY <1>2, <1>3 DEF XInv
  <2>2. XStored'
    BY <2>1 DEF XExact, XStored
  <2>3. XAhead' /\ XOrder' /\ XWhole'
    BY DEF XAhead, XOrder, XWhole, XGoes, XStops
  <2>4. QED
    BY <2>1, <2>2, <2>3 DEF XExact
<1>4. QED
  BY <1>1, <1>3 DEF XInv

(* On a link that damages nothing the receiver never has to ask again. *)
LEMMA WholeHead ==
    ASSUME XInv, xr.pc \in XGoes, noise = 0, toRecv # <<>>
    PROVE  /\ toRecv[1].kind # "noise"
           /\ toRecv[1].kind = "block" => toRecv[1].ok /\ toRecv[1].at \in {Len(xr.out), Len(xr.out) + 1}
           /\ toRecv[1].kind = "eot" => Len(xr.out) = FileBlocks
<1>1. XTypes /\ XExact
  BY DEF XInv, NotLapped
<1>2. PICK f \in XFrames, n \in Nat : f = toRecv[1] /\ n = Len(xr.out) /\ 1 \in DOMAIN toRecv
  <2>1. 1 \in DOMAIN toRecv
    BY <1>1 DEF XTypes
  <2>2. QED
    BY <1>1, <2>1, XFacts
<1>3. f.kind = "can" \/ (f.ok /\ f.kind # "noise" /\ XLevel(f) <= n + 1)
  BY <1>1, <1>2 DEF XExact, XWhole
<1>4. f.kind = "block" => n <= f.at
  BY <1>1, <1>2 DEF XExact, XOrder
<1>5. f.kind = "block" => f.ok /\ f.at \in {n, n + 1}
  <2> SUFFICES ASSUME f.kind = "block" PROVE f.ok /\ f.at \in {n, n + 1}
    OBVIOUS
  <2>1. PICK e \in Nat : e = f.at /\ e = XLevel(f)
    BY FrameFacts
  <2>2. e <= n + 1 /\ n <= e /\ f.ok
    BY <1>3, <1>4, <2>1
  <2>3. QED
    BY <2>1, <2>2
<1>6. f.kind = "eot" => n = FileBlocks
  <2>1. n <= FileBlocks /\ FileBlocks \in Nat
    BY <1>1, <1>2, StoredFits, XmodemAssumption DEF XExact
  <2>2. f.kind = "eot" => FileBlocks + 1 <= n + 1
    BY <1>3, FrameFacts
  <2>3. QED
    BY <2>1, <2>2
<1>7. f.kind # "noise"
  BY <1>3
<1>8. QED
  BY <1>2, <1>5, <1>6, <1>7

(* A receiver that sees EOT has the file: with every answer in time the     *)
(* sender is one block ahead at most.                                       *)
LEMMA EotMeansAll ==
    ASSUME XTypes, XExact, xr.pc \in XGoes, toRecv # <<>>, toRecv[1].kind = "eot", late = 0
    PROVE  Len(xr.out) = FileBlocks
<1>1. PICK n \in Nat, h \in Nat : n = Len(xr.out) /\ h = xs.at /\ FileBlocks \in Nat
  BY XFacts
<1>2. 1 \in DOMAIN toRecv
  BY DEF XTypes
<1>3. h = FileBlocks + 1
  BY <1>1, <1>2 DEF XExact, XOrder
<1>4. h <= n + 1 + 0
  BY <1>1 DEF XExact, XAhead
<1>5. n <= FileBlocks
  BY <1>1, StoredFits DEF XExact
<1>6. QED
  BY <1>1, <1>3, <1>4, <1>5

LEMMA Asks ==
    ASSUME XInv, ReceiveAsks
    PROVE  XInv'
<1>1. /\ xr.pc = "asking" /\ late < MaxLate /\ XAnswers("C") /\ late' = late + 1
      /\ UNCHANGED <<xs, xr, toRecv, noise>> /\ XTypes
  BY DEF ReceiveAsks, XInv
<1>2. PICK n \in Nat, h \in Nat, t \in Nat, R \in Nat, L \in Nat :
            n = Len(xr.out) /\ h = xs.at /\ t = late /\ R = Len(toRecv) /\ L = Len(toSend)
  <2>1. Len(xr.out) \in Nat /\ xs.at \in Nat /\ late \in Nat
    BY <1>1, XFacts
  <2>2. Len(toRecv) \in Nat /\ Len(toSend) \in Nat
    BY <1>1, XFacts
  <2>3. QED
    BY <2>1, <2>2
<1>3. /\ toSend' \in Seq(XReplies) /\ Len(toSend') = L + 1 /\ DOMAIN toSend' = 1..(L + 1)
      /\ DOMAIN toSend = 1..L /\ toSend'[L + 1] = "C" /\ \A i \in DOMAIN toSend : toSend'[i] = toSend[i]
  BY <1>1, <1>2, Answered DEF XReplies
<1>4. XTypes'
  <2>1. late' \in 0..MaxLate
    <3>1. late \in Nat /\ MaxLate \in Nat /\ late < MaxLate
      BY <1>1, <1>2, XmodemAssumption
    <3>2. QED
      BY <1>1, <3>1
  <2>2. QED
    BY <1>1, <1>3, <2>1 DEF XTypes
<1>5. NotLapped' => NotLapped
  <2>1. t + 1 + 2 <= BlockMod => t + 2 <= BlockMod
    BY XmodemAssumption
  <2>2. QED
    BY <1>1, <1>2, <2>1 DEF NotLapped
<1>6. ASSUME NotLapped' PROVE XExact'
  <2>1. XExact
    BY <1>5, <1>6 DEF XInv
  <2>2. /\ R + L <= 1 + t /\ h <= n + 1 + t
        /\ \A i \in DOMAIN toRecv : toRecv[i].kind = "block" => h + L + i <= toRecv[i].at + 1 + t
        /\ \A i \in DOMAIN toSend : toSend[i] = "ACK" => h + i <= n + 1 + t
    BY <1>1, <1>2, <2>1 DEF XExact, XAhead, XGoes
  <2>3. R + (L + 1) <= 1 + (t + 1) /\ h <= n + 1 + (t + 1)
    BY <2>2
  <2>4. ASSUME NEW i \in DOMAIN toRecv, toRecv[i].kind = "block"
        PROVE  h + (L + 1) + i <= toRecv[i].at + 1 + (t + 1)
    <3>1. PICK f \in XFrames, e \in Nat : f = toRecv[i] /\ e = f.at /\ i \in Nat
      <4>1. PICK f \in XFrames : f = toRecv[i]
        BY <1>1, XFacts
      <4>2. f.at \in Nat
        BY FrameFacts
      <4>3. i \in Nat
        BY <1>1, <1>2, XFacts
      <4>4. QED
        BY <4>1, <4>2, <4>3
    <3>2. h + L + i <= e + 1 + t
      BY <2>2, <2>4, <3>1
    <3>3. QED
      BY <3>1, <3>2
  <2>5. ASSUME NEW i \in DOMAIN toSend', toSend'[i] = "ACK"
        PROVE  h + i <= n + 1 + (t + 1)
    <3>1. i \in Nat /\ i \in DOMAIN toSend /\ toSend[i] = "ACK"
      BY <1>3, <2>5
    <3>2. h + i <= n + 1 + t
      BY <2>2, <3>1
    <3>3. QED
      BY <3>1, <3>2
  <2>6. XAhead'
    BY <1>1, <1>2, <1>3, <2>3, <2>4, <2>5 DEF XAhead
  <2>7. XStored' /\ XOrder' /\ XWhole'
    <3>2. \A g : XLevel(g)' = XLevel(g)
      BY DEF XLevel
    <3>3. XStored'
      BY <1>1, <2>1 DEF XStored, XExact
    <3>4. XOrder'
      BY <1>1, <2>1 DEF XOrder, XExact
    <3>5. XWhole'
      <4>1. \A i \in DOMAIN toRecv : XLevel(toRecv[i]) <= XLevel(toRecv[i - 1]) + 1 => (XLevel(toRecv[i]) <= XLevel(toRecv[i - 1]) + 1)'
        BY <1>1, <3>2
      <4>2. QED
        BY <1>1, <2>1, <3>2 DEF XWhole, XExact
    <3>6. QED
      BY <3>3, <3>4, <3>5
  <2>8. XDone'
    BY <1>1, <1>2 DEF XDone
  <2>9. QED
    BY <2>6, <2>7, <2>8 DEF XExact
<1>7. QED
  BY <1>4, <1>6 DEF XInv

LEMMA Damages ==
    ASSUME XInv, LinkDamages
    PROVE  XInv'
<1>1. PICK i, g :
            /\ i \in DOMAIN toRecv /\ g \in {XNoise, [toRecv[i] EXCEPT !.ok = FALSE]}
            /\ toRecv[i].ok /\ (toRecv[i].kind = "eot" => g = XNoise) /\ toRecv' = [toRecv EXCEPT ![i] = g]
  BY DEF LinkDamages
<1>2. noise < MaxNoise /\ noise' = noise + 1 /\ UNCHANGED <<xs, xr, toSend, late>> /\ XTypes
  BY DEF LinkDamages, XInv
<1>3. PICK f \in XFrames : f = toRecv[i]
  BY <1>1, <1>2, XFacts
<1>4. g \in XFrames /\ (g.kind = "noise" \/ (g.kind = f.kind /\ g.at = f.at /\ f.kind # "eot"))
  <2>1. CASE g = XNoise
    BY <2>1 DEF XNoise, XFrames
  <2>2. CASE g = [f EXCEPT !.ok = FALSE] /\ g # XNoise
    BY <1>1, <1>3, <2>2 DEF XFrames
  <2>3. QED
    BY <1>1, <1>3, <2>1, <2>2
<1>5. /\ toRecv' \in Seq(XFrames) /\ Len(toRecv') = Len(toRecv) /\ DOMAIN toRecv' = DOMAIN toRecv
      /\ toRecv'[i] = g /\ \A j \in DOMAIN toRecv : j # i => toRecv'[j] = toRecv[j]
  BY <1>1, <1>2, <1>4 DEF XTypes
<1>6. noise \in Nat /\ noise' \in 0..MaxNoise /\ noise' # 0
  <2>1. noise \in Nat /\ MaxNoise \in Nat
    BY <1>2, XFacts, XmodemAssumption
  <2>2. QED
    BY <1>2, <2>1
<1>7. XTypes'
  <2>1. xs.pc = "start" => toRecv = <<>>
    BY <1>2 DEF XTypes
  <2>2. toRecv # <<>>
    BY <1>1, <1>2 DEF XTypes
  <2>3. QED
    BY <1>2, <1>5, <1>6, <2>1, <2>2 DEF XTypes
<1>8. ASSUME NotLapped' PROVE XExact'
  <2>1. XExact
    BY <1>2, <1>6, <1>8 DEF XInv, NotLapped
  <2>2. \A j \in DOMAIN toRecv : \/ toRecv'[j].kind = "noise"
                                 \/ toRecv'[j].kind = toRecv[j].kind /\ toRecv'[j].at = toRecv[j].at
    BY <1>3, <1>4, <1>5
  <2>3. XAhead'
    BY <1>2, <1>5, <2>1, <2>2 DEF XAhead, XExact
  <2>4. XOrder'
    BY <1>2, <1>5, <2>1, <2>2 DEF XOrder, XExact
  <2>5. XStored' /\ XDone' /\ XWhole'
    BY <1>2, <1>6, <2>1 DEF XStored, XDone, XWhole, XExact
  <2>6. QED
    BY <2>3, <2>4, <2>5 DEF XExact
<1>9. QED
  BY <1>7, <1>8 DEF XInv

LEMMA Naks ==
    ASSUME XInv, xr.pc \in XGoes, toRecv # <<>>, XAnswers("NAK"), xr' = [xr EXCEPT !.pc = "reading"],
           \E n \in 0..Len(Tail(toRecv)) : toRecv' = SubSeq(Tail(toRecv), n + 1, Len(Tail(toRecv))),
           UNCHANGED <<xs, late, noise>>, noise # 0
    PROVE  XInv'
<1>1. PICK m : FramesTaken(m)
  BY RestTaken DEF XInv
<1>2. PICK k : k = [xr EXCEPT !.pc = "reading"]
  OBVIOUS
<1>3. k \in XReceivers /\ k.pc \in XGoes /\ k.out = xr.out /\ k.expect = xr.expect /\ k.limit = xr.limit
  BY <1>2 DEF XInv, XTypes, XReceivers, XGoes
<1>4. QED
  BY <1>1, <1>2, <1>3, DropStep

LEMMA Repeats ==
    ASSUME XInv, xr.pc \in XGoes, toRecv # <<>>, toRecv[1].kind = "block", TakesRepeat(toRecv[1]),
           (toRecv[1].at + 1) % BlockMod = xr.expect, UNCHANGED <<xs, late, noise>>
    PROVE  XInv'
<1>1. XAnswers("ACK") /\ xr' = [xr EXCEPT !.pc = "reading"] /\ toRecv' = Tail(toRecv) /\ XTypes
  BY DEF TakesRepeat, XInv
<1>2. FramesTaken(1)
  BY <1>1, TailTaken
<1>3. PICK k : k = [xr EXCEPT !.pc = "reading"]
  OBVIOUS
<1>4. k \in XReceivers /\ k.pc \in XGoes /\ k.out = xr.out /\ k.expect = xr.expect /\ k.limit = xr.limit
  BY <1>1, <1>3 DEF XTypes, XReceivers, XGoes
<1>5. NotLapped => Len(k.out) = toRecv[1].at
  BY <1>4, WireNumbers
<1>6. XTypes'
  <2>1. toSend' \in Seq(XReplies) /\ toRecv' \in Seq(XFrames)
    BY <1>1, <1>2, Answered DEF FramesTaken, XReplies
  <2>2. QED
    BY <1>1, <1>3, <1>4, <2>1 DEF XTypes
<1>7. QED
  BY <1>1, <1>2, <1>3, <1>4, <1>5, <1>6, AckStep

LEMMA Stores ==
    ASSUME XInv, xr.pc \in XGoes, toRecv # <<>>, toRecv[1].kind = "block", IsNext(toRecv[1]), Len(xr.out) # xr.limit,
           XAnswers("ACK"), toRecv' = Tail(toRecv),
           xr' = [xr EXCEPT !.pc = "reading", !.out = Append(@, toRecv[1].at), !.expect = (@ + 1) % BlockMod],
           UNCHANGED <<xs, late, noise>>
    PROVE  XInv'
<1>1. XTypes
  BY DEF XInv
<1>2. FramesTaken(1)
  BY <1>1, TailTaken
<1>3. PICK o \in Seq(1..FileBlocks), n \in Nat, e \in 1..FileBlocks : o = xr.out /\ n = Len(o) /\ e = toRecv[1].at
  <2>1. toRecv[1] \in XFrames
    BY <1>1, <1>2, XFacts, Taken
  <2>2. toRecv[1].at \in 1..FileBlocks
    BY <2>1, FrameFacts
  <2>3. xr.out \in Seq(1..FileBlocks) /\ Len(xr.out) \in Nat
    BY <1>1, XFacts
  <2>4. QED
    BY <2>2, <2>3
<1>4. PICK k : k = [xr EXCEPT !.pc = "reading", !.out = Append(@, toRecv[1].at), !.expect = (@ + 1) % BlockMod]
  OBVIOUS
<1>5. Append(o, e) \in Seq(1..FileBlocks) /\ Len(Append(o, e)) = n + 1
  BY <1>3, AppendFacts
<1>6. /\ BlockMod \in Nat /\ BlockMod > 0 /\ xr.expect = (n + 1) % BlockMod
  BY <1>1, <1>3, XFacts DEF XTypes
<1>7. (xr.expect + 1) % BlockMod = (n + 1 + 1) % BlockMod /\ (xr.expect + 1) % BlockMod \in 0..(BlockMod - 1)
  <2>1. PICK m \in Nat : m = n + 1
    OBVIOUS
  <2>2. ((m % BlockMod) + 1) % BlockMod = (m + 1) % BlockMod
    BY <1>6, ModNext
  <2>3. PICK q \in Nat : q = m + 1
    OBVIOUS
  <2>4. q % BlockMod \in 0..(BlockMod - 1)
    BY <1>6, DivMod
  <2>5. QED
    BY <1>6, <2>1, <2>2, <2>3, <2>4
<1>8. /\ k.pc = "reading" /\ k.out = Append(o, e) /\ k.expect = (xr.expect + 1) % BlockMod /\ k.limit = xr.limit
      /\ k \in XReceivers
  BY <1>1, <1>3, <1>4, <1>5, <1>7 DEF XTypes, XReceivers, XGoes
<1>9. NotLapped => e = n + 1
  BY <1>3, WireNumbers DEF IsNext
<1>10. XTypes'
  <2>1. toSend' \in Seq(XReplies) /\ toRecv' \in Seq(XFrames)
    BY <1>1, <1>2, Answered DEF FramesTaken, XReplies
  <2>2. n + 1 <= k.limit
    <3>1. n <= xr.limit /\ xr.limit \in Nat /\ n # xr.limit
      BY <1>1, <1>3, XFacts DEF XTypes
    <3>2. QED
      BY <1>8, <3>1
  <2>3. xs.pc # "start"
    BY <1>1 DEF XTypes
  <2>4. QED
    BY <1>1, <1>4, <1>5, <1>7, <1>8, <2>1, <2>2, <2>3 DEF XTypes
<1>11. NotLapped => Len(k.out) = toRecv[1].at
  BY <1>3, <1>5, <1>8, <1>9
<1>12. k.pc \in XGoes /\ xr' = k
  BY <1>4, <1>8 DEF XGoes
<1>13. k.out = Append(xr.out, toRecv[1].at) /\ (NotLapped => toRecv[1].at = Len(xr.out) + 1)
  BY <1>3, <1>8, <1>9
<1>14. QED
  BY <1>2, <1>8, <1>10, <1>11, <1>12, <1>13, AckStep

LEMMA Overflows ==
    ASSUME XInv, xr.pc \in XGoes, toRecv # <<>>, toRecv[1].kind = "block",
           XAnswers("CAN"), toRecv' = Tail(toRecv), xr' = [xr EXCEPT !.pc = "failed"], UNCHANGED <<xs, late, noise>>
    PROVE  XInv'
<1>1. XTypes
  BY DEF XInv
<1>2. FramesTaken(1)
  BY <1>1, TailTaken
<1>3. PICK k : k = [xr EXCEPT !.pc = "failed"]
  OBVIOUS
<1>4. k \in XReceivers /\ k.pc = "failed" /\ k.out = xr.out /\ k.expect = xr.expect /\ k.limit = xr.limit
  BY <1>1, <1>3 DEF XTypes, XReceivers, XStops
<1>5. toSend' \in Seq(XReplies) /\ toRecv' \in Seq(XFrames) /\ xs.pc # "start"
  BY <1>1, <1>2, Answered DEF FramesTaken, XReplies, XTypes
<1>6. ASSUME XExact, late = 0
      PROVE  xs.pc = "failed" \/ (xs.pc = "wait" /\ toSend' = <<"CAN">>)
  <2>1. PICK h \in Nat, f \in XFrames, e \in 1..FileBlocks, R \in Nat, L \in Nat :
              h = xs.at /\ f = toRecv[1] /\ e = f.at /\ R = Len(toRecv) /\ L = Len(toSend) /\ R >= 1
    <3>1. 1 \in DOMAIN toRecv /\ Len(toRecv) \in Nat /\ Len(toSend) \in Nat /\ Len(toRecv) >= 1
      <4>1. 1 \in DOMAIN toRecv /\ Len(toRecv) \in Nat /\ DOMAIN toRecv = 1..Len(toRecv) /\ Len(toSend) \in Nat
        BY <1>1, <1>2, XFacts, Taken
      <4>2. QED
        BY <4>1
    <3>2. PICK f \in XFrames : f = toRecv[1]
      BY <1>1, <3>1, XFacts
    <3>3. f.at \in 1..FileBlocks
      BY <3>2, FrameFacts
    <3>4. xs.at \in Nat
      BY <1>1, XFacts
    <3>5. QED
      BY <3>1, <3>2, <3>3, <3>4
  <2>2. R + L <= 1 + 0 /\ h + L + 1 <= e + 1 + 0
    BY <1>1, <1>2, <1>6, <2>1, Taken DEF XExact, XAhead
  <2>3. L = 0 /\ h <= e
    BY <2>1, <2>2
  <2>4. toSend = <<>>
    <3>1. toSend \in Seq(XReplies) /\ Len(toSend) = 0
      BY <1>1, <2>1, <2>3 DEF XTypes
    <3>2. QED
      BY <3>1
  <2>5. toSend' = <<"CAN">>
    BY <2>4 DEF XAnswers
  <2>6. xs.pc \notin {"eotwait", "ok"}
    <3>1. h # FileBlocks + 1
      <4>1. FileBlocks \in Nat /\ e <= FileBlocks /\ e \in Nat
        BY <2>1, XmodemAssumption
      <4>2. QED
        BY <2>1, <2>3, <4>1
    <3>2. QED
      BY <1>1, <2>1, <3>1 DEF XTypes
  <2>7. xs.pc \in {"start", "wait", "eotwait", "ok", "failed"}
    BY <1>1, XFacts DEF XStops
  <2>8. QED
    BY <1>5, <2>5, <2>6, <2>7
<1>7. XExact => XDone'
  BY <1>3, <1>4, <1>6 DEF XDone, XGoes
<1>8. late \in 0..MaxLate /\ late' \in {late, late + 1}
  BY <1>1 DEF XTypes
<1>9. QED
  BY <1>3, <1>4, <1>5, <1>7, <1>8, StopStep DEF XStops

LEMMA Stops ==
    ASSUME XInv, xr.pc \in XGoes, toRecv # <<>>, toRecv' = Tail(toRecv), UNCHANGED <<xs, late, noise>>,
           \/ toRecv[1].kind = "eot" /\ XAnswers("ACK") /\ xr' = [xr EXCEPT !.pc = "ok"]
           \/ toRecv[1].kind = "can" /\ xr' = [xr EXCEPT !.pc = "failed"] /\ toSend' = toSend
    PROVE  XInv'
<1>1. XTypes
  BY DEF XInv
<1>2. FramesTaken(1) /\ 1 \in DOMAIN toRecv
  BY <1>1, TailTaken, Taken
<1>3. toSend' \in Seq(XReplies) /\ toRecv' \in Seq(XFrames) /\ xs.pc # "start"
  BY <1>1, <1>2, Answered DEF FramesTaken, XReplies, XTypes
<1>4. late' \in 0..MaxLate /\ late' \in {late, late + 1}
  BY <1>1 DEF XTypes
<1>5. CASE toRecv[1].kind = "eot" /\ xr' = [xr EXCEPT !.pc = "ok"]
  <2>1. PICK k : k = [xr EXCEPT !.pc = "ok"]
    OBVIOUS
  <2>2. k \in XReceivers /\ k.pc = "ok" /\ k.out = xr.out /\ k.expect = xr.expect /\ k.limit = xr.limit
    BY <1>1, <2>1 DEF XTypes, XReceivers, XStops
  <2>3. XExact => XDone'
    BY <1>1, <1>5, <2>1, <2>2, WholeHead, EotMeansAll DEF XDone, XGoes
  <2>4. QED
    BY <1>3, <1>4, <1>5, <2>1, <2>2, <2>3, StopStep DEF XStops
<1>6. CASE toRecv[1].kind = "can" /\ xr' = [xr EXCEPT !.pc = "failed"]
  <2>1. PICK k : k = [xr EXCEPT !.pc = "failed"]
    OBVIOUS
  <2>2. k \in XReceivers /\ k.pc = "failed" /\ k.out = xr.out /\ k.expect = xr.expect /\ k.limit = xr.limit
    BY <1>1, <2>1 DEF XTypes, XReceivers, XStops
  <2>3. XExact => XDone'
    BY <1>2, <1>6, <2>1, <2>2 DEF XDone, XGoes, XExact, XOrder
  <2>4. QED
    BY <1>3, <1>4, <1>6, <2>1, <2>2, <2>3, StopStep DEF XStops
<1>7. QED
  BY <1>5, <1>6

LEMMA ReceiverReads ==
    ASSUME XInv, ReceiveReads
    PROVE  XInv'
<1>1. xr.pc \in XGoes /\ toRecv # <<>> /\ UNCHANGED <<xs, late, noise>> /\ XTypes
  BY DEF ReceiveReads, XGoes, XInv
<1>2. PICK f \in XFrames : f = toRecv[1] /\ f = Head(toRecv)
  <2>1. toRecv[1] \in XFrames /\ Head(toRecv) = toRecv[1]
    BY <1>1, TailFacts DEF XTypes
  <2>2. QED
    BY <2>1
<1>3. f.kind \in {"block", "eot", "can", "noise"}
  BY FrameFacts
<1>4. CASE xr.pc = "asking" /\ f.kind = "noise"
  <2>1. xr' = xr /\ toSend' = toSend /\ toRecv' = Tail(toRecv)
    BY <1>2, <1>4 DEF ReceiveReads
  <2>2. FramesTaken(1)
    BY <1>1, <2>1, TailTaken
  <2>3. noise # 0
    BY <1>1, <1>2, <1>4, WholeHead
  <2>4. PICK k \in XReceivers : k = xr
    BY <1>1 DEF XTypes
  <2>5. QED
    BY <1>1, <2>1, <2>2, <2>3, <2>4, DropStep
<1>5. CASE ~(xr.pc = "asking" /\ f.kind = "noise")
  <2>1. CASE f.kind = "eot"
    <3>1. XAnswers("ACK") /\ xr' = [xr EXCEPT !.pc = "ok"] /\ toRecv' = Tail(toRecv)
      BY <1>2, <1>5, <2>1 DEF ReceiveReads
    <3>2. QED
      BY <1>1, <1>2, <2>1, <3>1, Stops
  <2>2. CASE f.kind = "can"
    <3>1. xr' = [xr EXCEPT !.pc = "failed"] /\ toRecv' = Tail(toRecv) /\ toSend' = toSend
      BY <1>2, <1>5, <2>2 DEF ReceiveReads
    <3>2. QED
      BY <1>1, <1>2, <2>2, <3>1, Stops
  <2>3. CASE f.kind = "noise"
    <3>1. /\ XAnswers("NAK") /\ xr' = [xr EXCEPT !.pc = "reading"]
          /\ \E n \in 0..Len(Tail(toRecv)) : toRecv' = SubSeq(Tail(toRecv), n + 1, Len(Tail(toRecv)))
      BY <1>2, <1>5, <2>3 DEF ReceiveReads
    <3>2. noise # 0
      BY <1>1, <1>2, <2>3, WholeHead
    <3>3. QED
      BY <1>1, <3>1, <3>2, Naks
  <2>4. CASE f.kind = "block" /\ (f.at + 1) % BlockMod = xr.expect
    <3>1. TakesRepeat(f)
      BY <1>2, <1>5, <2>4 DEF ReceiveReads
    <3>2. QED
      BY <1>1, <1>2, <2>4, <3>1, Repeats
  <2>5. CASE f.kind = "block" /\ (f.at + 1) % BlockMod # xr.expect /\ f.ok /\ IsNext(f)
    <3>1. CASE Len(xr.out) = xr.limit
      <4>1. XAnswers("CAN") /\ xr' = [xr EXCEPT !.pc = "failed"] /\ toRecv' = Tail(toRecv)
        BY <1>2, <1>5, <2>5, <3>1 DEF ReceiveReads
      <4>2. QED
        BY <1>1, <1>2, <2>5, <4>1, Overflows
    <3>2. CASE Len(xr.out) # xr.limit
      <4>1. /\ XAnswers("ACK") /\ toRecv' = Tail(toRecv)
            /\ xr' = [xr EXCEPT !.pc = "reading", !.out = Append(@, f.at), !.expect = (@ + 1) % BlockMod]
        BY <1>2, <1>5, <2>5, <3>2 DEF ReceiveReads
      <4>2. QED
        BY <1>1, <1>2, <2>5, <3>2, <4>1, Stores
    <3>3. QED
      BY <3>1, <3>2
  <2>6. CASE f.kind = "block" /\ (f.at + 1) % BlockMod # xr.expect /\ ~(f.ok /\ IsNext(f))
    <3>1. /\ XAnswers("NAK") /\ xr' = [xr EXCEPT !.pc = "reading"]
          /\ \E n \in 0..Len(Tail(toRecv)) : toRecv' = SubSeq(Tail(toRecv), n + 1, Len(Tail(toRecv)))
      BY <1>2, <1>5, <2>6 DEF ReceiveReads
    <3>2. noise # 0
      <4>1. xr.expect = (Len(xr.out) + 1) % BlockMod
        BY <1>1 DEF XTypes
      <4>2. f.at # Len(xr.out)
        BY <2>6, <4>1
      <4>3. noise = 0 => f.ok /\ f.at = Len(xr.out) + 1
        BY <1>1, <1>2, <2>6, <4>2, WholeHead
      <4>4. QED
        BY <2>6, <4>1, <4>3 DEF IsNext
    <3>3. QED
      BY <1>1, <3>1, <3>2, Naks
  <2>7. QED
    BY <1>3, <2>1, <2>2, <2>3, <2>4, <2>5, <2>6
<1>6. QED
  BY <1>4, <1>5

LEMMA ReceiverTimesOut ==
    ASSUME XInv, ReceiveTimesOut
    PROVE  XInv'
<1>1. /\ xr.pc = "reading" /\ xr' = [xr EXCEPT !.pc = "failed"] /\ UNCHANGED <<xs, toRecv, toSend, noise>>
      /\ xs.pc \in XStops \/ late < MaxLate
      /\ late' = IF xs.pc \in XStops THEN late ELSE late + 1
  BY DEF ReceiveTimesOut
<1>2. XTypes /\ late \in Nat /\ late \in 0..MaxLate /\ MaxLate \in Nat
  BY XFacts, XmodemAssumption DEF XInv, XTypes
<1>3. PICK k : k = [xr EXCEPT !.pc = "failed"]
  OBVIOUS
<1>4. k \in XReceivers /\ k.pc = "failed" /\ k.out = xr.out /\ k.expect = xr.expect /\ k.limit = xr.limit
  BY <1>2, <1>3 DEF XTypes, XReceivers, XStops
<1>5. late' \in {late, late + 1} /\ late' \in 0..MaxLate
  BY <1>1, <1>2
<1>6. ASSUME XExact PROVE XDone'
  <2>1. late' = 0 => xs.pc \in XStops /\ late = 0
    BY <1>1, <1>2
  <2>2. late = 0 => xs.pc # "ok"
    BY <1>1, <1>6 DEF XExact, XDone, XGoes
  <2>3. QED
    BY <1>1, <1>3, <1>4, <2>1, <2>2 DEF XDone, XGoes, XStops
<1>7. /\ toRecv' \in Seq(XFrames) /\ toSend' \in Seq(XReplies) /\ (xs.pc = "start" => toRecv' = <<>>)
      /\ xs' = xs /\ noise' = noise /\ xr' = k
  BY <1>1, <1>2, <1>3 DEF XTypes
<1>8. QED
  BY <1>4, <1>5, <1>6, <1>7, StopStep DEF XStops

LEMMA XFirst == XmodemInit => XInv
<1> SUFFICES ASSUME XmodemInit PROVE XInv
  OBVIOUS
<1>1. /\ xs = [pc |-> "start", at |-> 1, retry |-> 0]
      /\ xr \in [pc : {"asking"}, out : {<<>>}, expect : {1}, limit : Limits]
      /\ toRecv = <<>> /\ toSend = <<"C">> /\ late = 0 /\ noise = 0
  BY DEF XmodemInit
<1>2. FileBlocks \in Nat /\ MaxRetries \in Nat /\ MaxLate \in Nat /\ MaxNoise \in Nat /\ Limits \subseteq Nat
      /\ BlockMod \in Nat /\ BlockMod > 1
  BY XmodemAssumption
<1>3. /\ xs \in XSenders /\ xs.at = 1 /\ xs.pc = "start"
  BY <1>1, <1>2 DEF XSenders
<1>4. xr.pc = "asking" /\ xr.out = <<>> /\ xr.expect = 1 /\ xr.limit \in Limits /\ xr \in XReceivers
  <2>1. <<>> \in Seq(1..FileBlocks) /\ 1 \in 0..(BlockMod - 1)
    BY <1>2
  <2>2. xr.pc = "asking" /\ xr.out = <<>> /\ xr.expect = 1 /\ xr.limit \in Limits
    BY <1>1
  <2>3. xr \in [pc : XGoes \cup XStops, out : Seq(1..FileBlocks), expect : 0..(BlockMod - 1), limit : Limits]
    BY <1>1, <2>1 DEF XGoes
  <2>4. QED
    BY <2>2, <2>3 DEF XReceivers
<1>5. 1 % BlockMod = 1
  <2>1. 1 \div BlockMod \in Nat /\ 1 % BlockMod \in 0..(BlockMod - 1)
        /\ 1 = BlockMod * (1 \div BlockMod) + (1 % BlockMod)
    BY <1>2, DivMod
  <2>2. PICK q \in Nat, r \in Nat : q = 1 \div BlockMod /\ r = 1 % BlockMod /\ r < BlockMod
    BY <1>2, <2>1
  <2>3. BlockMod * q + r = BlockMod * 0 + 1
    BY <1>2, <2>1, <2>2
  <2>4. r = 1
    BY <1>2, <2>2, <2>3, ModUnique
  <2>5. QED
    BY <2>2, <2>4
<1>6. Len(<<>>) = 0 /\ 0 + 1 = 1
  OBVIOUS
<1>7. XTypes
  <2>1. toRecv \in Seq(XFrames) /\ toSend \in Seq(XReplies)
    BY <1>1 DEF XReplies
  <2>2. Len(xr.out) <= xr.limit /\ xr.expect = (Len(xr.out) + 1) % BlockMod
    <3>1. xr.limit \in Nat
      BY <1>2, <1>4
    <3>2. QED
      BY <1>4, <1>5, <1>6, <3>1
  <2>3. QED
    BY <1>1, <1>2, <1>3, <1>4, <2>1, <2>2 DEF XTypes
<1>8. XAhead
  <2>1. Len(toRecv) = 0 /\ Len(toSend) = 1 /\ DOMAIN toRecv = {} /\ toSend[1] = "C" /\ DOMAIN toSend = {1}
    BY <1>1
  <2>2. QED
    BY <1>1, <1>3, <1>4, <1>6, <2>1 DEF XAhead
<1>9. XStored /\ XOrder /\ XWhole /\ XDone
  BY <1>1, <1>3, <1>4 DEF XStored, XOrder, XWhole, XDone, XGoes
<1>10. QED
  BY <1>7, <1>8, <1>9 DEF XInv, XExact

LEMMA XStep == XInv /\ [XmodemNext]_xvars => XInv'
<1> SUFFICES ASSUME XInv, [XmodemNext]_xvars PROVE XInv'
  OBVIOUS
<1>1. CASE SendStart \/ SendReadsReply \/ SendEnds \/ SendTimesOut
  BY <1>1, SenderActs
<1>2. CASE ReceiveAsks
  BY <1>2, Asks
<1>3. CASE ReceiveReads
  BY <1>3, ReceiverReads
<1>4. CASE ReceiveTimesOut
  BY <1>4, ReceiverTimesOut
<1>5. CASE LinkDamages
  BY <1>5, Damages
<1>6. CASE UNCHANGED xvars
  <2>1. UNCHANGED <<xs, xr, toRecv, toSend, late, noise>>
    BY <1>6 DEF xvars
  <2>2. XTypes => XTypes'
    BY <2>1 DEF XTypes
  <2>3. NotLapped' => NotLapped
    BY <2>1 DEF NotLapped
  <2>4. XStored => XStored'
    BY <2>1 DEF XStored
  <2>5. XAhead => XAhead'
    BY <2>1 DEF XAhead
  <2>6. XOrder => XOrder'
    BY <2>1 DEF XOrder
  <2>7. XWhole => XWhole'
    BY <2>1 DEF XWhole, XLevel
  <2>8. XDone => XDone'
    BY <2>1 DEF XDone
  <2>9. QED
    BY <2>2, <2>3, <2>4, <2>5, <2>6, <2>7, <2>8 DEF XInv, XExact
<1>7. QED
  BY <1>1, <1>2, <1>3, <1>4, <1>5, <1>6 DEF XmodemNext

LEMMA XInvHolds == XmodemSpec => []XInv
<1>1. QED
  BY XFirst, XStep, PTL DEF XmodemSpec

(* Whatever the file, the receiver's limit, the retries and the width of a   *)
(* block number: what is stored is the beginning of the file as long as      *)
(* fewer waits end early than there are numbers to spare, and an end that    *)
(* reports success has, or sent, the whole file: Send and Receive of         *)
(* xmodem.cpp.                                                              *)
THEOREM TransferIsAlwaysExact == XmodemSpec => []TransferIsExact
<1>1. XInv => TransferIsExact
  <2> SUFFICES ASSUME XInv PROVE TransferIsExact
    OBVIOUS
  <2>1. StoredIsPrefix
    BY DEF StoredIsPrefix, XInv, XExact, XStored
  <2>2. WholeUnlessSlipped
    <3>1. late = 0 \/ noise = 0 => NotLapped
      BY XmodemAssumption DEF NotLapped
    <3>2. QED
      BY <3>1 DEF WholeUnlessSlipped, XInv, XExact, XDone
  <2>3. SentMeansReceived
    <3>1. late = 0 => NotLapped
      BY XmodemAssumption DEF NotLapped
    <3>2. xr.pc \in XGoes \cup XStops
      BY XFacts DEF XInv
    <3>3. QED
      BY <3>1, <3>2 DEF SentMeansReceived, XInv, XExact, XDone, XStops
  <2>4. QED
    BY <2>1, <2>2, <2>3 DEF TransferIsExact
<1>2. QED
  BY <1>1, XInvHolds, PTL

(* The sender is at a block of the file or past the last, within its         *)
(* retries, and the receiver keeps within its limit: the members of Send     *)
(* and Receive.                                                             *)
THEOREM TransferTypeCorrect == XmodemSpec => []XmodemTypeOK
<1>1. XInv => XmodemTypeOK
  <2> SUFFICES ASSUME XTypes PROVE XmodemTypeOK
    BY DEF XInv
  <2>1. xs \in XSenders /\ xr \in XReceivers /\ Len(xr.out) <= xr.limit /\ late \in 0..MaxLate /\ noise \in 0..MaxNoise
    BY DEF XTypes
  <2>2. xr.pc \in {"asking", "reading"} \cup XStops /\ xr.limit \in Limits /\ xr.expect \in 0..(BlockMod - 1)
    BY <2>1 DEF XReceivers, XGoes
  <2>3. \A i \in DOMAIN xr.out : xr.out[i] \in 1..FileBlocks
    <3>1. PICK o \in Seq(1..FileBlocks) : o = xr.out
      BY XFacts
    <3>2. \A i \in DOMAIN o : o[i] \in 1..FileBlocks
      BY SeqFacts
    <3>3. QED
      BY <3>1, <3>2
  <2>4. QED
    BY <2>1, <2>2, <2>3 DEF XmodemTypeOK, XSenders
<1>2. QED
  BY <1>1, XInvHolds, PTL

(***************************************************************************)
(* The terminal's input                                                    *)
(***************************************************************************)

Answers == {"wont", "dont", "send ttype"}

(* What is unread is the end of what was typed. *)
RestOf(s, t) == Len(s) <= Len(t) /\ \A i \in 1..Len(s) : s[i] = t[(Len(t) - Len(s)) + i]

TermInv ==
    /\ typed \in Seq(Keys) /\ unread \in Seq(Keys) /\ answers \in Seq(Answers)
    /\ Len(typed) <= MaxKeys /\ RestOf(unread, typed) /\ Len(answers) + Len(unread) <= Len(typed)
    /\ push \in Keys \cup {"none"} /\ {pendingCr, peeking, echo, lost} \subseteq BOOLEAN
    /\ line \in Seq(Printable) /\ heard \in Seq(Seq(Printable))
    /\ ~(peeking /\ pendingCr) /\ (lost => push = "ff")

LEMMA ListedIsSeq ==
    ASSUME NEW S, NEW m \in Nat, NEW f \in [1..m -> S]
    PROVE  f \in Seq(S) /\ Len(f) = m
OBVIOUS

LEMMA RestIsSuffix ==
    ASSUME NEW S, NEW s \in Seq(S), NEW t \in Seq(S), RestOf(s, t)
    PROVE  IsSuffix(s, t)
<1>1. PICK m \in Nat, n \in Nat : m = Len(s) /\ n = Len(t) /\ m <= n
  BY DEF RestOf
<1>2. PICK r, u : r = Reverse(s) /\ u = Reverse(t)
  OBVIOUS
<1>3. r = [i \in 1..m |-> s[(m - i) + 1]] /\ u = [i \in 1..n |-> t[(n - i) + 1]]
  BY <1>1, <1>2 DEF Reverse
<1>4. /\ r \in Seq(S) /\ u \in Seq(S) /\ Len(r) = m /\ Len(u) = n
  <2>1. \A i \in 1..m : s[(m - i) + 1] \in S
    <3> TAKE i \in 1..m
    <3>1. (m - i) + 1 \in 1..m
      BY <1>1
    <3>2. QED
      BY <3>1, <1>1, SeqFacts
  <2>2. \A i \in 1..n : t[(n - i) + 1] \in S
    <3> TAKE i \in 1..n
    <3>1. (n - i) + 1 \in 1..n
      BY <1>1
    <3>2. QED
      BY <3>1, <1>1, SeqFacts
  <2>3. r \in [1..m -> S] /\ u \in [1..n -> S]
    BY <1>3, <2>1, <2>2
  <2>4. r \in Seq(S) /\ Len(r) = m
    BY <1>1, <2>3, ListedIsSeq
  <2>5. u \in Seq(S) /\ Len(u) = n
    BY <1>1, <2>3, ListedIsSeq
  <2>6. QED
    BY <2>4, <2>5
<1>5. \A i \in 1..m : r[i] = u[i]
  <2> TAKE i \in 1..m
  <2>1. i \in 1..n /\ (m - i) + 1 \in 1..m /\ (n - m) + ((m - i) + 1) = (n - i) + 1
    BY <1>1
  <2>2. s[(m - i) + 1] = t[(n - m) + ((m - i) + 1)]
    BY <1>1, <2>1 DEF RestOf
  <2>3. QED
    BY <1>3, <2>1, <2>2
<1>6. SubSeq(r, 1, m) = SubSeq(u, 1, m)
  <2>1. /\ SubSeq(r, 1, m) \in Seq(S) /\ Len(SubSeq(r, 1, m)) = m /\ \A i \in 1..m : SubSeq(r, 1, m)[i] = r[i]
    BY <1>1, <1>4
  <2>2. /\ SubSeq(u, 1, m) \in Seq(S) /\ Len(SubSeq(u, 1, m)) = m /\ \A i \in 1..m : SubSeq(u, 1, m)[i] = u[i]
    BY <1>1, <1>4
  <2>3. PICK p \in Seq(S), q \in Seq(S) : p = SubSeq(r, 1, m) /\ q = SubSeq(u, 1, m)
    BY <2>1, <2>2
  <2>4. Len(p) = m /\ Len(q) = m /\ \A i \in 1..m : p[i] = q[i]
    BY <1>5, <2>1, <2>2, <2>3
  <2>5. p = q
    BY <2>3, <2>4
  <2>6. QED
    BY <2>3, <2>5
<1>7. QED
  BY <1>1, <1>2, <1>4, <1>6 DEF IsSuffix, IsPrefix

(* One key more, and one key read. *)
LEMMA RestGrows ==
    ASSUME NEW S, NEW s \in Seq(S), NEW t \in Seq(S), RestOf(s, t), NEW k \in S
    PROVE  RestOf(Append(s, k), Append(t, k))
<1>1. PICK m \in Nat, n \in Nat : m = Len(s) /\ n = Len(t) /\ m <= n
  BY DEF RestOf
<1>a. Append(s, k) \in Seq(S) /\ Append(t, k) \in Seq(S)
  BY AppendFacts
<1>2. PICK p \in Seq(S), q \in Seq(S) : p = Append(s, k) /\ q = Append(t, k)
  BY <1>a
<1>3. /\ Len(p) = m + 1 /\ p[m + 1] = k /\ \A i \in 1..m : p[i] = s[i]
      /\ Len(q) = n + 1 /\ q[n + 1] = k /\ \A i \in 1..n : q[i] = t[i]
  BY <1>1, <1>2, AppendFacts
<1>4. ASSUME NEW i \in 1..(m + 1) PROVE p[i] = q[((n + 1) - (m + 1)) + i]
  <2>1. CASE i = m + 1
    <3>1. ((n + 1) - (m + 1)) + i = n + 1
      BY <1>1, <2>1
    <3>2. QED
      BY <1>3, <2>1, <3>1
  <2>2. CASE i # m + 1
    <3>1. i \in 1..m /\ ((n + 1) - (m + 1)) + i = (n - m) + i /\ (n - m) + i \in 1..n
      BY <1>1, <1>4, <2>2
    <3>2. s[i] = t[(n - m) + i]
      BY <1>1, <3>1 DEF RestOf
    <3>3. QED
      BY <1>3, <3>1, <3>2
  <2>3. QED
    BY <2>1, <2>2
<1>5. RestOf(p, q)
  BY <1>1, <1>3, <1>4 DEF RestOf
<1>6. QED
  BY <1>2, <1>5

LEMMA RestShrinks ==
    ASSUME NEW S, NEW s \in Seq(S), NEW t \in Seq(S), RestOf(s, t), s # <<>>
    PROVE  RestOf(Tail(s), t)
<1>1. PICK m \in Nat, n \in Nat : m = Len(s) /\ n = Len(t) /\ m <= n
  BY DEF RestOf
<1>a. /\ Tail(s) \in Seq(S) /\ Len(Tail(s)) = Len(s) - 1 /\ Len(s) >= 1
      /\ \A i \in 1..(Len(s) - 1) : Tail(s)[i] = s[i + 1]
  BY TailFacts
<1>b. PICK p \in Seq(S) : p = Tail(s)
  BY <1>a
<1>2. p = Tail(s) /\ Len(p) = m - 1 /\ m >= 1 /\ \A i \in 1..(m - 1) : p[i] = s[i + 1]
  BY <1>1, <1>a, <1>b
<1>3. ASSUME NEW i \in 1..(m - 1) PROVE p[i] = t[(n - (m - 1)) + i]
  <2>1. i + 1 \in 1..m /\ (n - m) + (i + 1) = (n - (m - 1)) + i
    BY <1>1, <1>2
  <2>2. QED
    BY <1>1, <1>2, <2>1 DEF RestOf
<1>4. m - 1 <= n
  BY <1>1
<1>5. RestOf(p, t)
  BY <1>1, <1>2, <1>3, <1>4 DEF RestOf
<1>6. QED
  BY <1>2, <1>5

LEMMA FrontIsSeq ==
    ASSUME NEW S, NEW s \in Seq(S), s # <<>>
    PROVE  Front(s) \in Seq(S)
BY DEF Front

(* A key that has been read is gone from what is unread. *)
LEMMA KeyRead ==
    ASSUME TermInv, unread # <<>>, typed' = typed, unread' = Tail(unread)
    PROVE  /\ Head(unread) \in Keys /\ unread' \in Seq(Keys) /\ RestOf(unread', typed')
           /\ Len(unread') \in Nat /\ Len(unread) = Len(unread') + 1
<1>1. unread \in Seq(Keys) /\ typed \in Seq(Keys) /\ RestOf(unread, typed)
  BY DEF TermInv
<1>2. RestOf(Tail(unread), typed)
  BY <1>1, RestShrinks
<1>3. /\ Tail(unread) \in Seq(Keys) /\ Len(Tail(unread)) = Len(unread) - 1 /\ Len(unread) \in Nat /\ Len(unread) >= 1
      /\ Head(unread) = unread[1] /\ unread[1] \in Keys
  BY <1>1, TailFacts
<1>4. Len(Tail(unread)) \in Nat /\ Len(unread) = Len(Tail(unread)) + 1
  BY <1>3
<1>5. QED
  BY <1>2, <1>3, <1>4

LEMMA LineStays ==
    ASSUME line \in Seq(Printable), heard \in Seq(Seq(Printable)), NEW k, LineTakes(k)
    PROVE  line' \in Seq(Printable) /\ heard' \in Seq(Seq(Printable))
<1>1. heard' \in Seq(Seq(Printable))
  <2>1. Append(heard, line) \in Seq(Seq(Printable))
    BY AppendFacts
  <2>2. QED
    BY <2>1 DEF LineTakes
<1>2. line' = CASE k \in {"cr", "lf"} -> <<>>
                [] k = "bs" -> IF line = <<>> THEN line ELSE Front(line)
                [] k \in {"a", "ff"} -> Append(line, k)
                [] OTHER -> line
  BY DEF LineTakes
<1>3. CASE k \in {"cr", "lf"}
  <2>1. line' = <<>>
    BY <1>2, <1>3
  <2>2. QED
    BY <1>1, <2>1
<1>4. CASE k = "bs"
  <2>1. line' = IF line = <<>> THEN line ELSE Front(line)
    BY <1>2, <1>4
  <2>2. QED
    BY <1>1, <2>1, FrontIsSeq
<1>5. CASE k \in {"a", "ff"}
  <2>1. line' = Append(line, k)
    BY <1>2, <1>5
  <2>2. k \in Printable
    BY <1>5 DEF Printable
  <2>3. QED
    BY <1>1, <2>1, <2>2, AppendFacts
<1>6. CASE k \notin {"cr", "lf", "bs", "a", "ff"}
  <2>1. line' = line
    BY <1>2, <1>6
  <2>2. QED
    BY <1>1, <2>1
<1>7. QED
  BY <1>3, <1>4, <1>5, <1>6

LEMMA AnswersOneMore ==
    ASSUME NEW s \in Seq(Answers), NEW a \in Answers
    PROVE  <<a>> \o s \in Seq(Answers) /\ Len(<<a>> \o s) = Len(s) + 1
OBVIOUS

LEMMA TerminalStep == TermInv /\ [TerminalNext]_tvars => TermInv'
<1> SUFFICES ASSUME TermInv, [TerminalNext]_tvars PROVE TermInv'
  OBVIOUS
<1>0. /\ typed \in Seq(Keys) /\ unread \in Seq(Keys) /\ answers \in Seq(Answers)
      /\ Len(typed) \in Nat /\ Len(unread) \in Nat /\ Len(answers) \in Nat
      /\ Len(typed) <= MaxKeys /\ RestOf(unread, typed) /\ Len(answers) + Len(unread) <= Len(typed)
      /\ push \in Keys \cup {"none"} /\ {pendingCr, peeking, echo, lost} \subseteq BOOLEAN
      /\ line \in Seq(Printable) /\ heard \in Seq(Seq(Printable))
      /\ ~(peeking /\ pendingCr) /\ (lost => push = "ff") /\ MaxKeys \in Nat
  BY TerminalAssumption DEF TermInv
<1>1. ASSUME NEW k \in Keys, UserTypes(k) PROVE TermInv'
  <2>1. /\ Len(typed) < MaxKeys /\ typed' = Append(typed, k) /\ unread' = Append(unread, k)
        /\ UNCHANGED <<push, pendingCr, peeking, line, heard, echo, answers, lost>>
    BY <1>1 DEF UserTypes
  <2>2. /\ typed' \in Seq(Keys) /\ Len(typed') = Len(typed) + 1 /\ unread' \in Seq(Keys) /\ Len(unread') = Len(unread) + 1
    BY <1>0, <2>1, AppendFacts
  <2>3. RestOf(unread', typed')
    BY <1>0, <2>1, RestGrows
  <2>4. Len(typed') <= MaxKeys /\ Len(answers) + Len(unread') <= Len(typed')
    BY <1>0, <2>1, <2>2
  <2>5. QED
    BY <1>0, <2>1, <2>2, <2>3, <2>4 DEF TermInv
<1>2. CASE TermNegotiate
  <2>1. /\ unread # <<>> /\ unread' = Tail(unread) /\ UNCHANGED <<typed, push, pendingCr, peeking, line, heard, lost>>
        /\ echo' = CASE Head(unread) = "do echo" -> TRUE [] Head(unread) = "dont echo" -> FALSE [] OTHER -> echo
        /\ answers' = CASE Head(unread) \in {"dont echo", "do other"} -> <<"wont">> \o answers
                        [] Head(unread) = "will other" -> <<"dont">> \o answers
                        [] Head(unread) = "will ttype" -> <<"send ttype">> \o answers
                        [] OTHER -> answers
    BY <1>2 DEF TermNegotiate
  <2>2. /\ unread' \in Seq(Keys) /\ RestOf(unread', typed') /\ Len(unread') \in Nat /\ Len(unread) = Len(unread') + 1
    BY <2>1, KeyRead
  <2>3. echo' \in BOOLEAN
    BY <1>0, <2>1
  <2>4. answers' \in Seq(Answers) /\ (Len(answers') = Len(answers) \/ Len(answers') = Len(answers) + 1)
    <3>1. answers' = answers \/ \E a \in Answers : answers' = <<a>> \o answers
      <4>1. CASE Head(unread) \in {"dont echo", "do other"}
        BY <2>1, <4>1 DEF Answers
      <4>2. CASE Head(unread) = "will other"
        BY <2>1, <4>2 DEF Answers
      <4>3. CASE Head(unread) = "will ttype"
        BY <2>1, <4>3 DEF Answers
      <4>4. CASE Head(unread) \notin {"dont echo", "do other", "will other", "will ttype"}
        BY <2>1, <4>4
      <4>5. QED
        BY <4>1, <4>2, <4>3, <4>4
    <3>2. QED
      BY <1>0, <3>1, AnswersOneMore
  <2>5. Len(answers') + Len(unread') <= Len(typed)
    BY <1>0, <2>2, <2>4
  <2>6. QED
    BY <1>0, <2>1, <2>2, <2>3, <2>4, <2>5 DEF TermInv
<1>3. ASSUME NEW k \in Keys, GetChar(k) PROVE TermInv'
  <2>1. /\ ~peeking /\ NextPayload(k) /\ UNCHANGED <<typed, echo, answers, lost>>
        /\ pendingCr' = (k = "cr" /\ ~pendingCr) /\ peeking' = (k = "cr" /\ pendingCr)
        /\ UNCHANGED <<line, heard>> \/ LineTakes(k)
    BY <1>3 DEF GetChar
  <2>2. line' \in Seq(Printable) /\ heard' \in Seq(Seq(Printable))
    BY <1>0, <2>1, LineStays
  <2>3. /\ ~lost /\ push' \in Keys \cup {"none"}
        /\ unread' \in Seq(Keys) /\ RestOf(unread', typed') /\ Len(unread') \in Nat /\ Len(unread') <= Len(unread)
    <3>1. CASE push # "none"
      <4>1. ~lost /\ push' = "none" /\ unread' = unread
        BY <2>1, <3>1 DEF NextPayload
      <4>2. QED
        BY <1>0, <2>1, <4>1
    <3>2. CASE push = "none"
      <4>1. ~lost /\ unread # <<>> /\ unread' = Tail(unread) /\ push' = push
        BY <2>1, <3>2 DEF NextPayload
      <4>2. /\ unread' \in Seq(Keys) /\ RestOf(unread', typed') /\ Len(unread') \in Nat /\ Len(unread) = Len(unread') + 1
        BY <2>1, <4>1, KeyRead
      <4>3. Len(unread') <= Len(unread)
        BY <4>2
      <4>4. QED
        BY <1>0, <4>1, <4>2, <4>3
    <3>3. QED
      BY <3>1, <3>2
  <2>4. Len(answers') + Len(unread') <= Len(typed)
    BY <1>0, <2>1, <2>3
  <2>5. {pendingCr', peeking', echo', lost'} \subseteq BOOLEAN /\ ~(peeking' /\ pendingCr')
    BY <1>0, <2>1
  <2>6. QED
    BY <1>0, <2>1, <2>2, <2>3, <2>4, <2>5 DEF TermInv
<1>4. CASE GetCharPeek
  <2>1. /\ peeking /\ ~lost /\ unread # <<>> /\ peeking' = FALSE /\ unread' = Tail(unread)
        /\ UNCHANGED <<typed, echo, answers, lost>>
        /\ \/ UNCHANGED <<push, pendingCr, line, heard>>
           \/ push' = Head(unread) /\ pendingCr' = TRUE /\ LineTakes("cr")
    BY <1>4 DEF GetCharPeek
  <2>2. /\ unread' \in Seq(Keys) /\ RestOf(unread', typed') /\ Len(unread') \in Nat /\ Len(unread) = Len(unread') + 1
        /\ Head(unread) \in Keys
    BY <2>1, KeyRead
  <2>3. line' \in Seq(Printable) /\ heard' \in Seq(Seq(Printable))
    BY <1>0, <2>1, LineStays
  <2>4. push' \in Keys \cup {"none"} /\ {pendingCr', peeking', echo', lost'} \subseteq BOOLEAN
    BY <1>0, <2>1, <2>2
  <2>5. Len(answers') + Len(unread') <= Len(typed)
    BY <1>0, <2>1, <2>2
  <2>6. QED
    BY <1>0, <2>1, <2>2, <2>3, <2>4, <2>5 DEF TermInv
<1>5. CASE PushbackIsCommand
  BY <1>0, <1>5 DEF PushbackIsCommand, TermInv
<1>6. CASE UNCHANGED tvars
  BY <1>0, <1>6 DEF tvars, TermInv
<1>7. QED
  BY <1>1, <1>2, <1>3, <1>4, <1>5, <1>6 DEF TerminalNext

LEMMA TerminalFirst == TerminalInit => TermInv
<1> SUFFICES ASSUME TerminalInit PROVE TermInv
  OBVIOUS
<1>1. /\ typed = <<>> /\ unread = <<>> /\ push = "none" /\ pendingCr = FALSE /\ peeking = FALSE
      /\ line = <<>> /\ heard = <<>> /\ echo = FALSE /\ answers = <<>> /\ lost = FALSE
  BY DEF TerminalInit
<1>2. RestOf(<<>>, <<>>) /\ Len(<<>>) = 0
  BY DEF RestOf
<1>3. MaxKeys \in Nat
  BY TerminalAssumption
<1>4. typed \in Seq(Keys) /\ unread \in Seq(Keys) /\ answers \in Seq(Answers) /\ heard \in Seq(Seq(Printable))
  BY <1>1
<1>a. line \in Seq(Printable)
  BY <1>1
<1>5. Len(typed) <= MaxKeys /\ RestOf(unread, typed) /\ Len(answers) + Len(unread) <= Len(typed)
  BY <1>1, <1>2, <1>3
<1>6. push \in Keys \cup {"none"} /\ {pendingCr, peeking, echo, lost} \subseteq BOOLEAN
  BY <1>1
<1>7. ~(peeking /\ pendingCr) /\ (lost => push = "ff")
  BY <1>1
<1>8. QED
  BY <1>4, <1>a, <1>5, <1>6, <1>7 DEF TermInv

(* For every sequence of keys: what is unread is the end of what was typed,  *)
(* no more is answered than was read, the second CR is never looked behind   *)
(* twice, and the byte read wrongly is the one pushed back: the members of   *)
(* TelnetStream.                                                            *)
THEOREM TerminalTypeCorrect == TerminalSpec => []TerminalTypeOK
<1>1. TermInv => TerminalTypeOK
  <2> SUFFICES ASSUME TermInv PROVE TerminalTypeOK
    OBVIOUS
  <2>1. IsSuffix(unread, typed)
    BY RestIsSuffix DEF TermInv
  <2>2. Len(answers) <= MaxKeys
    <3>1. Len(answers) \in Nat /\ Len(unread) \in Nat /\ Len(typed) \in Nat /\ MaxKeys \in Nat
          /\ Len(typed) <= MaxKeys /\ Len(answers) + Len(unread) <= Len(typed)
      BY TerminalAssumption DEF TermInv
    <3>2. QED
      BY <3>1
  <2>3. QED
    BY <2>1, <2>2 DEF TermInv, TerminalTypeOK, Printable
<1>2. QED
  BY <1>1, TerminalFirst, TerminalStep, PTL DEF TerminalSpec

-----------------------------------------------------------------------------
(* The lines the terminal returns.  Payload and LinesFrom are recursive     *)
(* functions: that there is one with the recursion is shown from the least  *)
(* argument at which there is none, and LinesUnfold is then all that is     *)
(* needed of it.  HeardInv speaks of everything that may still be sent, so  *)
(* that it is kept when a key is.                                           *)

(* What Payload counts through: after each key, what was payload so far. *)
PayBy(s, of) ==
    of = [n \in 0..Len(s) |->
            IF n = 0 THEN <<>>
            ELSE IF s[n] \in Negotiation THEN of[n - 1] ELSE Append(of[n - 1], s[n])]

LEMMA PayloadBy ==
    ASSUME NEW s
    PROVE  Payload(s) = (CHOOSE of : PayBy(s, of))[Len(s)]
BY Zenon DEF Payload, PayBy

LEMMA PayGrows ==
    ASSUME NEW S, NEW s \in Seq(S), NEW k \in S, NEW f, PayBy(s, f), NEW g,
           g = [m \in 0..(Len(s) + 1) |->
                   IF m = Len(s) + 1 THEN IF k \in Negotiation THEN f[Len(s)] ELSE Append(f[Len(s)], k) ELSE f[m]]
    PROVE  PayBy(Append(s, k), g)
<1>1. PICK n \in Nat : n = Len(s)
  BY SeqFacts
<1>2. PICK t : t = Append(s, k)
  OBVIOUS
<1>3. Len(t) = n + 1 /\ t[n + 1] = k /\ \A i \in 1..n : t[i] = s[i]
  BY <1>1, <1>2, AppendFacts
<1>4. ASSUME NEW m \in 0..(n + 1)
      PROVE  g[m] = IF m = 0 THEN <<>> ELSE IF t[m] \in Negotiation THEN g[m - 1] ELSE Append(g[m - 1], t[m])
  <2>1. CASE m = n + 1
    <3>1. g[m] = IF k \in Negotiation THEN f[n] ELSE Append(f[n], k)
      BY <1>1, <2>1
    <3>2. g[m - 1] = f[n] /\ t[m] = k /\ m # 0
      BY <1>1, <1>3, <2>1
    <3>3. QED
      BY <3>1, <3>2
  <2>2. CASE m # n + 1
    <3>1. m \in 0..n /\ g[m] = f[m]
      BY <1>1, <2>2
    <3>2. f[m] = IF m = 0 THEN <<>> ELSE IF s[m] \in Negotiation THEN f[m - 1] ELSE Append(f[m - 1], s[m])
      BY <1>1, <3>1 DEF PayBy
    <3>3. m # 0 => t[m] = s[m] /\ g[m - 1] = f[m - 1]
      <4>1. HAVE m # 0
      <4>2. m \in 1..n /\ m - 1 \in 0..(n + 1) /\ m - 1 # n + 1
        BY <3>1, <4>1
      <4>3. QED
        BY <1>1, <1>3, <4>2
    <3>4. QED
      BY <3>1, <3>2, <3>3
  <2>3. QED
    BY <2>1, <2>2
<1>5. g = [m \in 0..(n + 1) |-> g[m]]
  BY <1>1
<1>6. g = [m \in 0..(n + 1) |-> IF m = 0 THEN <<>> ELSE IF t[m] \in Negotiation THEN g[m - 1] ELSE Append(g[m - 1], t[m])]
  BY <1>4, <1>5
<1>7. PayBy(t, g)
  BY <1>3, <1>6 DEF PayBy
<1>8. QED
  BY <1>2, <1>7

LEMMA LastApart ==
    ASSUME NEW S, NEW s \in Seq(S), s # <<>>
    PROVE  \E u \in Seq(S), k \in S : s = Append(u, k) /\ Len(s) = Len(u) + 1
<1>1. PICK n \in Nat : n = Len(s) /\ n >= 1 /\ n - 1 \in Nat
  BY TailFacts
<1>2. PICK u : u = [i \in 1..(n - 1) |-> s[i]]
  OBVIOUS
<1>3. u \in [1..(n - 1) -> S] /\ s[n] \in S
  BY <1>1, <1>2, SeqFacts
<1>4. u \in Seq(S) /\ Len(u) = n - 1
  BY <1>1, <1>3, ListedIsSeq
<1>a. Append(u, s[n]) \in Seq(S)
  BY <1>3, <1>4, AppendFacts
<1>5. PICK t \in Seq(S) : t = Append(u, s[n])
  BY <1>a
<1>6. Len(t) = n /\ \A i \in 1..n : t[i] = s[i]
  BY <1>1, <1>2, <1>3, <1>4, <1>5, AppendFacts
<1>7. t = s
  BY <1>1, <1>6
<1>8. PICK k \in S : k = s[n]
  BY <1>3
<1>9. s = Append(u, k)
  BY <1>5, <1>7, <1>8, Zenon
<1>b. Len(s) = Len(u) + 1
  BY <1>1, <1>4
<1>10. QED
  BY <1>4, <1>9, <1>b

LEMMA PayExists ==
    ASSUME NEW S, NEW s \in Seq(S)
    PROVE  \E f : PayBy(s, f)
<1> DEFINE Bad == {n \in Nat : \E t \in Seq(S) : Len(t) = n /\ ~\E f : PayBy(t, f)}
<1>1. SUFFICES ASSUME ~\E f : PayBy(s, f) PROVE FALSE
  OBVIOUS
<1>2. Bad \subseteq Nat /\ Bad # {}
  BY <1>1, SeqFacts
<1>3. PICK n \in Bad : \A m \in Bad : n <= m
  BY <1>2, LeastMember
<1>4. PICK t \in Seq(S) : Len(t) = n /\ ~\E f : PayBy(t, f)
  BY <1>3
<1>5. CASE t = <<>>
  <2>1. PICK f : f = [m \in 0..0 |-> <<>>]
    OBVIOUS
  <2>2. f = [m \in 0..0 |-> IF m = 0 THEN <<>> ELSE IF t[m] \in Negotiation THEN f[m - 1] ELSE Append(f[m - 1], t[m])]
    BY <2>1
  <2>3. Len(t) = 0
    BY <1>5
  <2>4. PayBy(t, f)
    BY <2>2, <2>3 DEF PayBy
  <2>5. QED
    BY <1>4, <2>4
<1>6. CASE t # <<>>
  <2>1. PICK u \in Seq(S), k \in S : t = Append(u, k) /\ Len(t) = Len(u) + 1
    BY <1>6, LastApart
  <2>2. Len(u) \in Nat /\ Len(u) < n
    BY <1>4, <2>1, SeqFacts
  <2>3. Len(u) \notin Bad
    BY <1>3, <2>2
  <2>4. PICK f : PayBy(u, f)
    BY <2>2, <2>3
  <2>5. PICK g : g = [m \in 0..(Len(u) + 1) |->
                        IF m = Len(u) + 1 THEN IF k \in Negotiation THEN f[Len(u)] ELSE Append(f[Len(u)], k) ELSE f[m]]
    OBVIOUS
  <2>6. PayBy(t, g)
    BY <2>1, <2>4, <2>5, PayGrows
  <2>7. QED
    BY <1>4, <2>6
<1>7. QED
  BY <1>5, <1>6

LEMMA PayOnlyThat ==
    ASSUME NEW S, NEW s \in Seq(S), NEW f, PayBy(s, f), NEW g, PayBy(s, g)
    PROVE  f[Len(s)] = g[Len(s)]
<1>1. PICK n \in Nat : n = Len(s)
  BY SeqFacts
<1> DEFINE Bad == {m \in 0..n : f[m] # g[m]}
<1>2. SUFFICES ASSUME Bad # {} PROVE FALSE
  BY <1>1
<1>3. PICK m \in Bad : \A j \in Bad : m <= j
  BY <1>2, LeastMember, Bad \subseteq Nat
<1>4. /\ f[m] = IF m = 0 THEN <<>> ELSE IF s[m] \in Negotiation THEN f[m - 1] ELSE Append(f[m - 1], s[m])
      /\ g[m] = IF m = 0 THEN <<>> ELSE IF s[m] \in Negotiation THEN g[m - 1] ELSE Append(g[m - 1], s[m])
  BY <1>1, <1>3 DEF PayBy
<1>5. m # 0 => f[m - 1] = g[m - 1]
  <2>1. HAVE m # 0
  <2>2. m - 1 \in 0..n /\ m - 1 < m
    BY <1>1, <2>1
  <2>3. QED
    BY <1>3, <2>2
<1>6. QED
  BY <1>3, <1>4, <1>5

(* The payload of one key more. *)
LEMMA PayloadAppend ==
    ASSUME NEW S, NEW s \in Seq(S), NEW k \in S
    PROVE  Payload(Append(s, k)) = IF k \in Negotiation THEN Payload(s) ELSE Append(Payload(s), k)
<1>1. PICK f : f = CHOOSE of : PayBy(s, of)
  OBVIOUS
<1>2. PayBy(s, f) /\ Payload(s) = f[Len(s)]
  BY <1>1, PayExists, PayloadBy
<1>3. PICK t \in Seq(S) : t = Append(s, k) /\ Len(t) = Len(s) + 1 /\ Len(s) \in Nat
  BY AppendFacts
<1>4. PICK h : h = CHOOSE of : PayBy(t, of)
  OBVIOUS
<1>5. PayBy(t, h) /\ Payload(t) = h[Len(t)]
  BY <1>4, PayExists, PayloadBy
<1>6. PICK g : g = [m \in 0..(Len(s) + 1) |->
                      IF m = Len(s) + 1 THEN IF k \in Negotiation THEN f[Len(s)] ELSE Append(f[Len(s)], k) ELSE f[m]]
  OBVIOUS
<1>7. PayBy(t, g)
  BY <1>2, <1>3, <1>6, PayGrows
<1>8. h[Len(t)] = g[Len(t)]
  BY <1>5, <1>7, PayOnlyThat
<1>9. g[Len(t)] = IF k \in Negotiation THEN f[Len(s)] ELSE Append(f[Len(s)], k)
  BY <1>3, <1>6
<1>10. QED
  BY <1>2, <1>3, <1>5, <1>8, <1>9

LEMMA PayloadEmpty == Payload(<<>>) = <<>>
<1>1. PICK f : f = CHOOSE of : PayBy(<<>>, of)
  OBVIOUS
<1>2. PayBy(<<>>, f) /\ Payload(<<>>) = f[Len(<<>>)]
  <2>1. \E of : PayBy(<<>>, of)
    <3>1. <<>> \in Seq({})
      OBVIOUS
    <3>2. QED
      BY <3>1, PayExists
  <2>2. QED
    BY <1>1, <2>1, PayloadBy
<1>3. Len(<<>>) = 0
  OBVIOUS
<1>4. f[0] = <<>>
  BY <1>2, <1>3 DEF PayBy
<1>5. QED
  BY <1>2, <1>3, <1>4

(* LinesFrom, unfolded. *)
LineStep(s, from, i) ==
    [l \in Seq(Printable) |->
        IF i > Len(s) THEN <<>>
        ELSE IF Ending(s, i) > 0 THEN <<l>> \o from[i + Ending(s, i)][<<>>]
        ELSE from[i + 1][Edited(l, s[i])]]

ReadBy(s, from) == from = [i \in Nat \ {0} |-> LineStep(s, from, i)]

LEMMA LinesBy ==
    ASSUME NEW s
    PROVE  LinesFrom(s) = CHOOSE from : ReadBy(s, from)
BY Zenon DEF LinesFrom, ReadBy, LineStep

LEMMA EndingIsShort ==
    ASSUME NEW s, NEW i
    PROVE  Ending(s, i) \in 0..3
<1> DEFINE a == Ending(s, i)
<1>1. a = 3 \/ a = 2 \/ a = 1 \/ a = 0
  BY Zenon DEF Ending
<1>2. QED
  BY <1>1

(* What is read from i on depends on what is read from later places alone. *)
LEMMA StepLooksAhead ==
    ASSUME NEW s, NEW f, NEW g, NEW i \in Nat \ {0}, \A j \in Nat \ {0} : j > i => f[j] = g[j]
    PROVE  LineStep(s, f, i) = LineStep(s, g, i)
<1>1. PICK e \in 0..3 : e = Ending(s, i)
  BY EndingIsShort
<1>2. e > 0 => f[i + e] = g[i + e]
  BY <1>1
<1>3. f[i + 1] = g[i + 1]
  OBVIOUS
<1>4. \A l \in Seq(Printable) :
         (IF i > Len(s) THEN <<>> ELSE IF Ending(s, i) > 0 THEN <<l>> \o f[i + Ending(s, i)][<<>>] ELSE f[i + 1][Edited(l, s[i])])
         = (IF i > Len(s) THEN <<>> ELSE IF Ending(s, i) > 0 THEN <<l>> \o g[i + Ending(s, i)][<<>>] ELSE g[i + 1][Edited(l, s[i])])
  BY <1>1, <1>2, <1>3, Zenon
<1>5. QED
  BY <1>4, Zenon DEF LineStep

(* f is what LinesFrom is to be, from n on. *)
ReadSince(s, f, n) == f = [i \in Nat \ {0} |-> f[i]] /\ \A i \in Nat \ {0} : i >= n => f[i] = LineStep(s, f, i)

LEMMA SinceTheEnd ==
    ASSUME NEW s, Len(s) \in Nat
    PROVE  \E f : ReadSince(s, f, Len(s) + 1)
<1>1. PICK f : f = [i \in Nat \ {0} |-> [l \in Seq(Printable) |-> <<>>]]
  OBVIOUS
<1>2. ASSUME NEW i \in Nat \ {0}, i >= Len(s) + 1 PROVE f[i] = LineStep(s, f, i)
  <2>1. i > Len(s)
    BY <1>2
  <2>2. LineStep(s, f, i) = [l \in Seq(Printable) |-> <<>>]
    BY <2>1, Zenon DEF LineStep
  <2>3. QED
    BY <1>1, <2>2
<1>3. f = [i \in Nat \ {0} |-> f[i]]
  BY <1>1
<1>4. QED
  BY <1>2, <1>3 DEF ReadSince

LEMMA SinceEarlier ==
    ASSUME NEW s, NEW n \in Nat \ {0, 1}, NEW f, ReadSince(s, f, n)
    PROVE  \E g : ReadSince(s, g, n - 1)
<1>1. n - 1 \in Nat \ {0}
  OBVIOUS
<1>2. PICK step : step = LineStep(s, f, n - 1)
  OBVIOUS
<1>3. PICK g : g = [i \in Nat \ {0} |-> IF i = n - 1 THEN step ELSE f[i]]
  OBVIOUS
<1>4. g[n - 1] = step /\ (\A i \in Nat \ {0} : i # n - 1 => g[i] = f[i]) /\ g = [i \in Nat \ {0} |-> g[i]]
  BY <1>1, <1>3
<1>5. ASSUME NEW i \in Nat \ {0}, i >= n - 1 PROVE g[i] = LineStep(s, g, i)
  <2>1. \A j \in Nat \ {0} : j > i => f[j] = g[j]
    BY <1>4, <1>5
  <2>2. LineStep(s, f, i) = LineStep(s, g, i)
    BY <2>1, StepLooksAhead
  <2>3. CASE i = n - 1
    BY <1>2, <1>4, <2>2, <2>3
  <2>4. CASE i # n - 1
    <3>1. i >= n
      BY <1>5, <2>4
    <3>2. f[i] = LineStep(s, f, i)
      BY <3>1 DEF ReadSince
    <3>3. g[i] = f[i]
      BY <1>4, <2>4
    <3>4. QED
      BY <2>2, <3>2, <3>3
  <2>5. QED
    BY <2>3, <2>4
<1>6. QED
  BY <1>4, <1>5 DEF ReadSince

LEMMA LinesExist ==
    ASSUME NEW s, Len(s) \in Nat
    PROVE  \E from : ReadBy(s, from)
<1> DEFINE Since == {n \in Nat \ {0} : \E f : ReadSince(s, f, n)}
<1>1. Since \subseteq Nat /\ Len(s) + 1 \in Since
  BY SinceTheEnd
<1>2. PICK n \in Since : \A m \in Since : n <= m
  BY <1>1, LeastMember
<1>3. n = 1
  <2> SUFFICES ASSUME n # 1 PROVE FALSE
    OBVIOUS
  <2>1. n \in Nat \ {0, 1} /\ n - 1 \in Nat \ {0} /\ n - 1 < n
    OBVIOUS
  <2>2. PICK f : ReadSince(s, f, n)
    BY <1>2
  <2>3. n - 1 \in Since
    BY <2>1, <2>2, SinceEarlier
  <2>4. QED
    BY <1>2, <2>1, <2>3
<1>4. PICK f : ReadSince(s, f, 1)
  BY <1>2, <1>3
<1>5. f = [i \in Nat \ {0} |-> f[i]] /\ \A i \in Nat \ {0} : f[i] = LineStep(s, f, i)
  BY <1>4 DEF ReadSince
<1>6. f = [i \in Nat \ {0} |-> LineStep(s, f, i)]
  BY <1>5
<1>7. QED
  BY <1>6 DEF ReadBy

LEMMA LinesUnfold ==
    ASSUME NEW s, Len(s) \in Nat, NEW i \in Nat \ {0}, NEW l \in Seq(Printable)
    PROVE  LinesFrom(s)[i][l] = IF i > Len(s) THEN <<>>
                                ELSE IF Ending(s, i) > 0 THEN <<l>> \o LinesFrom(s)[i + Ending(s, i)][<<>>]
                                ELSE LinesFrom(s)[i + 1][Edited(l, s[i])]
<1>1. PICK f : f = LinesFrom(s)
  OBVIOUS
<1>2. ReadBy(s, f)
  BY <1>1, LinesBy, LinesExist
<1>3. f[i] = LineStep(s, f, i)
  BY <1>2 DEF ReadBy
<1>4. f[i][l] = IF i > Len(s) THEN <<>>
                ELSE IF Ending(s, i) > 0 THEN <<l>> \o f[i + Ending(s, i)][<<>>]
                ELSE f[i + 1][Edited(l, s[i])]
  BY <1>3 DEF LineStep
<1>5. QED
  BY <1>1, <1>4

LEMMA EditedIsSeq ==
    ASSUME NEW l \in Seq(Printable), NEW k
    PROVE  Edited(l, k) \in Seq(Printable)
<1>1. CASE k = "bs" /\ l # <<>>
  BY <1>1, FrontIsSeq DEF Edited
<1>2. CASE ~(k = "bs" /\ l # <<>>) /\ k \in Printable
  <2>1. Edited(l, k) = Append(l, k)
    BY <1>2 DEF Edited, Printable
  <2>2. QED
    BY <1>2, <2>1, AppendFacts
<1>3. CASE ~(k = "bs" /\ l # <<>>) /\ k \notin Printable
  BY <1>3 DEF Edited
<1>4. QED
  BY <1>1, <1>2, <1>3

LEMMA OneLineMore ==
    ASSUME NEW S, NEW l \in S, NEW x \in Seq(S)
    PROVE  <<l>> \o x \in Seq(S)
OBVIOUS

LEMMA LinesTyped ==
    ASSUME NEW s, Len(s) \in Nat, NEW i \in Nat \ {0}, NEW l \in Seq(Printable)
    PROVE  LinesFrom(s)[i][l] \in Seq(Seq(Printable))
<1>1. PICK f : f = LinesFrom(s)
  OBVIOUS
<1>2. \A j \in Nat \ {0} : \A x \in Seq(Printable) :
        f[j][x] = IF j > Len(s) THEN <<>>
                  ELSE IF Ending(s, j) > 0 THEN <<x>> \o f[j + Ending(s, j)][<<>>]
                  ELSE f[j + 1][Edited(x, s[j])]
  BY <1>1, LinesUnfold
<1> DEFINE Bad == {d \in Nat : \E j \in Nat \ {0} : j + d = Len(s) /\ \E x \in Seq(Printable) : f[j][x] \notin Seq(Seq(Printable))}
<1>3. SUFFICES ASSUME f[i][l] \notin Seq(Seq(Printable)) PROVE FALSE
  BY <1>1
<1>4. \A j \in Nat \ {0} : \A x \in Seq(Printable) : j > Len(s) => f[j][x] \in Seq(Seq(Printable))
  <2> TAKE j \in Nat \ {0}
  <2> TAKE x \in Seq(Printable)
  <2>1. HAVE j > Len(s)
  <2>2. f[j][x] = <<>>
    BY <1>2, <2>1
  <2>3. QED
    BY <2>2
<1>5. i <= Len(s)
  BY <1>3, <1>4
<1>6. Len(s) - i \in Bad
  BY <1>3, <1>5
<1>7. PICK d \in Bad : \A c \in Bad : d <= c
  <2>1. Bad \subseteq Nat /\ Bad # {}
    BY <1>6
  <2>2. QED
    BY <2>1, LeastMember
<1>a. ASSUME NEW c \in Nat, c < d, NEW m \in Nat \ {0}, m + c = Len(s), NEW y \in Seq(Printable)
      PROVE  f[m][y] \in Seq(Seq(Printable))
  <2>1. SUFFICES ASSUME f[m][y] \notin Seq(Seq(Printable)) PROVE FALSE
    OBVIOUS
  <2>2. c \in Bad
    BY <1>a, <2>1
  <2>3. d <= c /\ d \in Nat
    BY <1>7, <2>2
  <2>4. QED
    BY <1>a, <2>3
<1>8. PICK j \in Nat \ {0} : j + d = Len(s) /\ \E x \in Seq(Printable) : f[j][x] \notin Seq(Seq(Printable))
  BY <1>7
<1>9. PICK x \in Seq(Printable) : f[j][x] \notin Seq(Seq(Printable))
  BY <1>8
<1>10. \A m \in Nat \ {0} : \A y \in Seq(Printable) : m > j => f[m][y] \in Seq(Seq(Printable))
  <2> TAKE m \in Nat \ {0}
  <2> TAKE y \in Seq(Printable)
  <2>1. HAVE m > j
  <2>2. CASE m > Len(s)
    BY <1>4, <2>2
  <2>3. CASE m <= Len(s)
    <3>1. Len(s) - m \in Nat /\ m + (Len(s) - m) = Len(s) /\ Len(s) - m < d
      BY <1>8, <2>1, <2>3
    <3>2. QED
      BY <1>a, <3>1
  <2>4. QED
    BY <2>2, <2>3
<1>11. PICK e \in 0..3 : e = Ending(s, j)
  BY EndingIsShort
<1>b. ~(j > Len(s))
  BY <1>4, <1>9
<1>12. CASE e > 0
  <2>1. f[j][x] = <<x>> \o f[j + e][<<>>]
    BY <1>2, <1>b, <1>11, <1>12
  <2>2. j + e \in Nat \ {0} /\ j + e > j /\ <<>> \in Seq(Printable)
    BY <1>12
  <2>4. f[j + e][<<>>] \in Seq(Seq(Printable))
    BY <1>10, <2>2
  <2>3. QED
    BY <1>9, <2>1, <2>4, OneLineMore
<1>13. CASE e = 0
  <2>0. ~(Ending(s, j) > 0)
    BY <1>11, <1>13
  <2>1. f[j][x] = f[j + 1][Edited(x, s[j])]
    BY <1>2, <1>b, <2>0, Zenon
  <2>2. Edited(x, s[j]) \in Seq(Printable) /\ j + 1 \in Nat \ {0} /\ j + 1 > j
    BY EditedIsSeq
  <2>3. QED
    BY <1>9, <1>10, <2>1, <2>2
<1>14. QED
  BY <1>12, <1>13

(* t begins with v. *)
Extends(t, v) == Len(v) <= Len(t) /\ \A i \in 1..Len(v) : t[i] = v[i]

(* When the first q bytes of v have been read into the lines h and a line   *)
(* l, whatever is sent next: the lines of all of it are h and those that    *)
(* end after q, ...                                                         *)
Plainly(v, q, l, h) ==
    \A t \in Seq(Keys) : Extends(t, v) => LinesFrom(t)[1][<<>>] = h \o LinesFrom(t)[q + 1][l]

(* ... and when q is a CR that ended a line, those after all of its ending, *)
(* which what follows decides.                                              *)
AfterCr(v, q, h) ==
    /\ q \in 1..Len(v) /\ v[q] = "cr"
    /\ \A t \in Seq(Keys) : Extends(t, v) => LinesFrom(t)[1][<<>>] = h \o LinesFrom(t)[q + Ending(t, q)][<<>>]

LEMMA ExtendedReads ==
    ASSUME NEW v \in Seq(Keys), NEW t \in Seq(Keys), Extends(t, v), NEW q \in 1..Len(v)
    PROVE  Len(t) \in Nat /\ Len(v) \in Nat /\ q <= Len(t) /\ t[q] = v[q] /\ q \in Nat \ {0}
BY SeqFacts DEF Extends

LEMMA NoEnding ==
    ASSUME NEW t, NEW q \in Nat, t[q] \notin {"cr", "lf"}
    PROVE  q <= Len(t) => Ending(t, q) = 0
BY DEF Ending

LEMMA EndsInLf ==
    ASSUME NEW t, NEW q \in Nat, Len(t) \in Nat, q <= Len(t), t[q] = "lf"
    PROVE  Ending(t, q) = 1
BY DEF Ending

LEMMA EndsInCr ==
    ASSUME NEW t, NEW q \in Nat, Len(t) \in Nat, q <= Len(t), t[q] = "cr"
    PROVE  /\ Ending(t, q) \in 1..3
           /\ q = Len(t) => Ending(t, q) = 1
           /\ q + 1 <= Len(t) /\ t[q + 1] \in {"lf", "nul"} => Ending(t, q) = 2
           /\ q + 1 <= Len(t) /\ t[q + 1] \notin {"lf", "nul", "cr"} => Ending(t, q) = 1
           /\ q + 2 <= Len(t) /\ t[q + 1] = "cr" /\ t[q + 2] \in {"lf", "nul"} => Ending(t, q) = 3
           /\ q + 2 <= Len(t) /\ t[q + 1] = "cr" /\ t[q + 2] \notin {"lf", "nul"} => Ending(t, q) = 1
BY DEF Ending

(* A line and the lines after it, after the lines before it. *)
Between(h, l, x) == h \o (<<l>> \o x)
UpTo(h, l, x) == Append(h, l) \o x

LEMMA HeardOneMore ==
    ASSUME NEW h \in Seq(Seq(Printable)), NEW l \in Seq(Printable), NEW x \in Seq(Seq(Printable))
    PROVE  Between(h, l, x) = UpTo(h, l, x)
BY SMTT(60) DEF Between, UpTo

(* A byte that ends no line. *)
LEMMA PlainByte ==
    ASSUME NEW v \in Seq(Keys), NEW q \in Nat, q + 1 <= Len(v), v[q + 1] \notin {"cr", "lf"},
           NEW l \in Seq(Printable), NEW h, Plainly(v, q, l, h)
    PROVE  Plainly(v, q + 1, Edited(l, v[q + 1]), h)
<1> SUFFICES ASSUME NEW t \in Seq(Keys), Extends(t, v)
             PROVE  LinesFrom(t)[1][<<>>] = h \o LinesFrom(t)[(q + 1) + 1][Edited(l, v[q + 1])]
  BY DEF Plainly
<1>1. /\ Len(t) \in Nat /\ q + 1 <= Len(t) /\ t[q + 1] = v[q + 1] /\ q + 1 \in Nat \ {0}
  BY ExtendedReads, SeqFacts
<1>2. Ending(t, q + 1) = 0
  BY <1>1, NoEnding
<1>3. ~(q + 1 > Len(t)) /\ ~(Ending(t, q + 1) > 0)
  BY <1>1, <1>2
<1>4. LinesFrom(t)[q + 1][l] = LinesFrom(t)[(q + 1) + 1][Edited(l, t[q + 1])]
  BY <1>1, <1>3, LinesUnfold, Zenon
<1>5. QED
  BY <1>1, <1>4 DEF Plainly

(* One that does. *)
LEMMA LineEnds ==
    ASSUME NEW t \in Seq(Keys), NEW q \in Nat \ {0}, q <= Len(t), t[q] \in {"cr", "lf"},
           NEW l \in Seq(Printable), NEW h \in Seq(Seq(Printable))
    PROVE  h \o LinesFrom(t)[q][l] = Append(h, l) \o LinesFrom(t)[q + Ending(t, q)][<<>>]
<1>1. Len(t) \in Nat
  BY SeqFacts
<1>2. PICK e \in 1..3 : e = Ending(t, q)
  BY <1>1, EndsInLf, EndsInCr
<1>3. ~(q > Len(t)) /\ Ending(t, q) > 0
  BY <1>1, <1>2
<1>4. LinesFrom(t)[q][l] = <<l>> \o LinesFrom(t)[q + Ending(t, q)][<<>>]
  BY <1>1, <1>3, LinesUnfold, Zenon
<1>5. LinesFrom(t)[q + Ending(t, q)][<<>>] \in Seq(Seq(Printable))
  <2>1. q + Ending(t, q) \in Nat \ {0} /\ <<>> \in Seq(Printable)
    BY <1>2
  <2>2. QED
    BY <1>1, <2>1, LinesTyped
<1>6. PICK x \in Seq(Seq(Printable)) : x = LinesFrom(t)[q + Ending(t, q)][<<>>]
  BY <1>5
<1>7. Between(h, l, x) = UpTo(h, l, x)
  BY <1>6, HeardOneMore
<1>8. QED
  BY <1>4, <1>6, <1>7, Zenon DEF Between, UpTo

LEMMA LineFeed ==
    ASSUME NEW v \in Seq(Keys), NEW q \in Nat, q + 1 <= Len(v), v[q + 1] = "lf",
           NEW l \in Seq(Printable), NEW h \in Seq(Seq(Printable)), Plainly(v, q, l, h)
    PROVE  Plainly(v, q + 1, <<>>, Append(h, l))
<1> SUFFICES ASSUME NEW t \in Seq(Keys), Extends(t, v)
             PROVE  LinesFrom(t)[1][<<>>] = Append(h, l) \o LinesFrom(t)[(q + 1) + 1][<<>>]
  BY DEF Plainly
<1>1. /\ Len(t) \in Nat /\ q + 1 <= Len(t) /\ t[q + 1] = "lf" /\ q + 1 \in Nat \ {0}
  BY ExtendedReads, SeqFacts
<1>2. Ending(t, q + 1) = 1
  BY <1>1, EndsInLf
<1>3. h \o LinesFrom(t)[q + 1][l] = Append(h, l) \o LinesFrom(t)[(q + 1) + Ending(t, q + 1)][<<>>]
  BY <1>1, LineEnds
<1>4. QED
  BY <1>2, <1>3 DEF Plainly

LEMMA CarriageReturn ==
    ASSUME NEW v \in Seq(Keys), NEW q \in Nat, q + 1 <= Len(v), v[q + 1] = "cr",
           NEW l \in Seq(Printable), NEW h \in Seq(Seq(Printable)), Plainly(v, q, l, h)
    PROVE  AfterCr(v, q + 1, Append(h, l))
<1>1. ASSUME NEW t \in Seq(Keys), Extends(t, v)
      PROVE  LinesFrom(t)[1][<<>>] = Append(h, l) \o LinesFrom(t)[(q + 1) + Ending(t, q + 1)][<<>>]
  <2>1. /\ Len(t) \in Nat /\ q + 1 <= Len(t) /\ t[q + 1] = "cr" /\ q + 1 \in Nat \ {0}
    BY <1>1, ExtendedReads, SeqFacts
  <2>2. h \o LinesFrom(t)[q + 1][l] = Append(h, l) \o LinesFrom(t)[(q + 1) + Ending(t, q + 1)][<<>>]
    BY <2>1, LineEnds
  <2>3. LinesFrom(t)[1][<<>>] = h \o LinesFrom(t)[q + 1][l]
    BY <1>1 DEF Plainly
  <2>4. QED
    BY <2>2, <2>3
<1>2. q + 1 \in 1..Len(v)
  BY SeqFacts
<1>3. QED
  BY <1>1, <1>2 DEF AfterCr

(* What follows a CR. *)
LEMMA CrFilled ==
    ASSUME NEW v \in Seq(Keys), NEW q \in Nat, q + 1 <= Len(v), v[q + 1] \in {"lf", "nul"}, NEW h, AfterCr(v, q, h)
    PROVE  Plainly(v, q + 1, <<>>, h)
<1> SUFFICES ASSUME NEW t \in Seq(Keys), Extends(t, v)
             PROVE  LinesFrom(t)[1][<<>>] = h \o LinesFrom(t)[(q + 1) + 1][<<>>]
  BY DEF Plainly
<1>1. q \in 1..Len(v) /\ v[q] = "cr" /\ LinesFrom(t)[1][<<>>] = h \o LinesFrom(t)[q + Ending(t, q)][<<>>]
  BY DEF AfterCr
<1>2. Len(t) \in Nat /\ q + 1 <= Len(t) /\ t[q] = "cr" /\ t[q + 1] = v[q + 1]
  BY <1>1, ExtendedReads, SeqFacts
<1>3. Ending(t, q) = 2
  BY <1>2, EndsInCr
<1>4. q + 2 = (q + 1) + 1
  OBVIOUS
<1>5. QED
  BY <1>1, <1>3, <1>4, Zenon

LEMMA CrAlone ==
    ASSUME NEW v \in Seq(Keys), NEW q \in Nat, q + 1 <= Len(v), v[q + 1] \notin {"lf", "nul", "cr"}, NEW h, AfterCr(v, q, h)
    PROVE  Plainly(v, q, <<>>, h)
<1> SUFFICES ASSUME NEW t \in Seq(Keys), Extends(t, v)
             PROVE  LinesFrom(t)[1][<<>>] = h \o LinesFrom(t)[q + 1][<<>>]
  BY DEF Plainly
<1>1. q \in 1..Len(v) /\ v[q] = "cr" /\ LinesFrom(t)[1][<<>>] = h \o LinesFrom(t)[q + Ending(t, q)][<<>>]
  BY DEF AfterCr
<1>2. Len(t) \in Nat /\ q + 1 <= Len(t) /\ t[q] = "cr" /\ t[q + 1] = v[q + 1]
  BY <1>1, ExtendedReads, SeqFacts
<1>3. Ending(t, q) = 1
  BY <1>2, EndsInCr
<1>4. QED
  BY <1>1, <1>3, Zenon

LEMMA CrCrFilled ==
    ASSUME NEW v \in Seq(Keys), NEW q \in Nat, q + 2 <= Len(v), v[q + 1] = "cr", v[q + 2] \in {"lf", "nul"}, NEW h, AfterCr(v, q, h)
    PROVE  Plainly(v, q + 2, <<>>, h)
<1> SUFFICES ASSUME NEW t \in Seq(Keys), Extends(t, v)
             PROVE  LinesFrom(t)[1][<<>>] = h \o LinesFrom(t)[(q + 2) + 1][<<>>]
  BY DEF Plainly
<1>1. q \in 1..Len(v) /\ v[q] = "cr" /\ LinesFrom(t)[1][<<>>] = h \o LinesFrom(t)[q + Ending(t, q)][<<>>]
  BY DEF AfterCr
<1>2. Len(t) \in Nat /\ q + 2 <= Len(t) /\ t[q] = "cr" /\ t[q + 1] = "cr" /\ t[q + 2] = v[q + 2]
  BY <1>1, ExtendedReads, SeqFacts
<1>3. Ending(t, q) = 3
  BY <1>2, EndsInCr
<1>4. q + 3 = (q + 2) + 1
  OBVIOUS
<1>5. QED
  BY <1>1, <1>3, <1>4, Zenon

LEMMA CrTwice ==
    ASSUME NEW v \in Seq(Keys), NEW q \in Nat, q + 2 <= Len(v), v[q + 1] = "cr", v[q + 2] \notin {"lf", "nul"},
           NEW h \in Seq(Seq(Printable)), AfterCr(v, q, h)
    PROVE  AfterCr(v, q + 1, Append(h, <<>>))
<1>1. q \in 1..Len(v) /\ v[q] = "cr"
  BY DEF AfterCr
<1>2. ASSUME NEW t \in Seq(Keys), Extends(t, v)
      PROVE  LinesFrom(t)[1][<<>>] = Append(h, <<>>) \o LinesFrom(t)[(q + 1) + Ending(t, q + 1)][<<>>]
  <2>1. LinesFrom(t)[1][<<>>] = h \o LinesFrom(t)[q + Ending(t, q)][<<>>]
    BY <1>2 DEF AfterCr
  <2>2. Len(t) \in Nat /\ q + 2 <= Len(t) /\ t[q] = "cr" /\ t[q + 1] = "cr" /\ t[q + 2] = v[q + 2]
    BY <1>1, <1>2, ExtendedReads, SeqFacts
  <2>3. Ending(t, q) = 1
    BY <2>2, EndsInCr
  <2>4. h \o LinesFrom(t)[q + 1][<<>>] = Append(h, <<>>) \o LinesFrom(t)[(q + 1) + Ending(t, q + 1)][<<>>]
    <3>1. q + 1 \in Nat \ {0} /\ q + 1 <= Len(t) /\ t[q + 1] \in {"cr", "lf"} /\ <<>> \in Seq(Printable)
      BY <2>2
    <3>2. QED
      BY <3>1, LineEnds
  <2>5. QED
    BY <2>1, <2>3, <2>4, Zenon
<1>3. q + 1 \in 1..Len(v)
  BY SeqFacts
<1>4. QED
  BY <1>2, <1>3 DEF AfterCr

(* What holds whatever is sent next holds when a byte of it has come. *)
LEMMA ExtendsOnward ==
    ASSUME NEW v \in Seq(Keys), NEW k \in Keys, NEW t, Extends(t, Append(v, k))
    PROVE  Extends(t, v)
BY AppendFacts DEF Extends

LEMMA PlainlyOnward ==
    ASSUME NEW v \in Seq(Keys), NEW k \in Keys, NEW q, NEW l, NEW h, Plainly(v, q, l, h)
    PROVE  Plainly(Append(v, k), q, l, h)
BY ExtendsOnward DEF Plainly

LEMMA AfterCrOnward ==
    ASSUME NEW v \in Seq(Keys), NEW k \in Keys, NEW q, NEW h, AfterCr(v, q, h)
    PROVE  AfterCr(Append(v, k), q, h)
<1>1. q \in 1..Len(v) /\ v[q] = "cr"
  BY DEF AfterCr
<1>2. Append(v, k)[q] = v[q] /\ q \in 1..Len(Append(v, k))
  BY <1>1, AppendFacts
<1>3. QED
  BY <1>1, <1>2, ExtendsOnward DEF AfterCr

(* When nothing more is sent. *)
LEMMA ExtendsItself ==
    ASSUME NEW v \in Seq(Keys)
    PROVE  Extends(v, v)
BY SeqFacts DEF Extends

LEMMA NoneHeardMore ==
    ASSUME NEW S, NEW h \in Seq(S)
    PROVE  h \o <<>> = h
OBVIOUS

LEMMA AllIsHeard ==
    ASSUME NEW v \in Seq(Keys), NEW l \in Seq(Printable), NEW h \in Seq(Seq(Printable)),
           Plainly(v, Len(v), l, h) \/ AfterCr(v, Len(v), h)
    PROVE  LinesFrom(v)[1][<<>>] = h
<1>0. Len(v) \in Nat /\ Len(v) + 1 \in Nat \ {0} /\ Len(v) + 1 > Len(v) /\ <<>> \in Seq(Printable)
  BY SeqFacts
<1>1. LinesFrom(v)[Len(v) + 1][l] = <<>> /\ LinesFrom(v)[Len(v) + 1][<<>>] = <<>>
  BY <1>0, LinesUnfold
<1>2. LinesFrom(v)[1][<<>>] = h \o <<>>
  <2>1. CASE Plainly(v, Len(v), l, h)
    BY <1>1, <2>1, ExtendsItself DEF Plainly
  <2>2. CASE AfterCr(v, Len(v), h)
    <3>1. /\ v[Len(v)] = "cr"
          /\ LinesFrom(v)[1][<<>>] = h \o LinesFrom(v)[Len(v) + Ending(v, Len(v))][<<>>]
      BY <2>2, ExtendsItself DEF AfterCr
    <3>2. Ending(v, Len(v)) = 1
      BY <1>0, <3>1, EndsInCr
    <3>3. QED
      BY <1>1, <3>1, <3>2, Zenon
  <2>3. QED
    BY <2>1, <2>2
<1>3. QED
  BY <1>2, NoneHeardMore

(* Of what has been read, v is payload; GetChar has returned from its first *)
(* q bytes, and one more may be pushed back.                                *)
ReadSoFar(v, q) ==
    /\ v \in Seq(Keys) /\ q \in Nat
    /\ push = "none" => Len(v) = q
    /\ push # "none" => Len(v) = q + 1 /\ v[q + 1] = push /\ ~peeking
    /\ ~pendingCr /\ ~peeking => Plainly(v, q, line, heard)
    /\ pendingCr => line = <<>> /\ AfterCr(v, q, heard)
    /\ peeking => line = <<>> /\ q >= 2 /\ AfterCr(v, q - 1, heard) /\ v[q] = "cr"

HeardInv == \E r \in Seq(Keys) : typed = r \o unread /\ \E q \in Nat : ReadSoFar(Payload(r), q)

LEMMA HeardFirst == TerminalInit => HeardInv
<1> SUFFICES ASSUME TerminalInit PROVE HeardInv
  OBVIOUS
<1>1. /\ typed = <<>> /\ unread = <<>> /\ push = "none" /\ pendingCr = FALSE /\ peeking = FALSE
      /\ line = <<>> /\ heard = <<>>
  BY DEF TerminalInit
<1>a. <<>> \in Seq(Keys) /\ Len(<<>>) = 0
  OBVIOUS
<1>2. PICK r \in Seq(Keys) : r = <<>> /\ Len(r) = 0
  BY <1>a
<1>3. Payload(r) = r
  BY <1>2, PayloadEmpty
<1>4. Plainly(r, 0, line, heard)
  <2> SUFFICES ASSUME NEW t \in Seq(Keys) PROVE LinesFrom(t)[1][<<>>] = <<>> \o LinesFrom(t)[0 + 1][<<>>]
    BY <1>1 DEF Plainly
  <2>1. LinesFrom(t)[1][<<>>] \in Seq(Seq(Printable))
    <3>1. Len(t) \in Nat /\ 1 \in Nat \ {0} /\ <<>> \in Seq(Printable)
      BY SeqFacts
    <3>2. QED
      BY <3>1, LinesTyped
  <2>2. PICK x \in Seq(Seq(Printable)) : x = LinesFrom(t)[1][<<>>]
    BY <2>1
  <2>3. <<>> \o x = x
    OBVIOUS
  <2>4. 0 + 1 = 1
    OBVIOUS
  <2>5. QED
    BY <2>2, <2>3, <2>4, Zenon
<1>5. ReadSoFar(r, 0)
  BY <1>1, <1>2, <1>4 DEF ReadSoFar
<1>6. typed = r \o unread
  BY <1>1, <1>2
<1>7. QED
  BY <1>3, <1>5, <1>6 DEF HeardInv

LEMMA HeardMeansTyped ==
    ASSUME TermInv, HeardInv
    PROVE  LinesAsTyped
<1> SUFFICES ASSUME Waits, ~peeking PROVE heard = LinesOf(typed)
  BY DEF LinesAsTyped
<1>1. PICK r \in Seq(Keys), q \in Nat : typed = r \o unread /\ ReadSoFar(Payload(r), q)
  BY DEF HeardInv
<1>2. push = "none" /\ unread = <<>>
  BY DEF Waits
<1>3. typed = r
  BY <1>1, <1>2
<1>4. PICK v \in Seq(Keys) : v = Payload(typed) /\ ReadSoFar(v, q)
  BY <1>1, <1>3 DEF ReadSoFar
<1>5. Len(v) = q
  BY <1>2, <1>4 DEF ReadSoFar
<1>6. Plainly(v, Len(v), line, heard) \/ AfterCr(v, Len(v), heard)
  BY <1>4, <1>5 DEF ReadSoFar
<1>7. line \in Seq(Printable) /\ heard \in Seq(Seq(Printable))
  BY DEF TermInv
<1>8. LinesFrom(v)[1][<<>>] = heard
  BY <1>6, <1>7, AllIsHeard
<1>9. QED
  BY <1>4, <1>8 DEF LinesOf

(* The key read next is the payload's next byte, or negotiation. *)
LEMMA OneKeyRead ==
    ASSUME NEW r \in Seq(Keys), NEW u \in Seq(Keys), u # <<>>
    PROVE  /\ Head(u) \in Keys /\ Append(r, Head(u)) \in Seq(Keys)
           /\ r \o u = Append(r, Head(u)) \o Tail(u)
<1>1. Head(u) \in Keys /\ Tail(u) \in Seq(Keys) /\ Append(r, Head(u)) \in Seq(Keys)
  BY TailFacts, AppendFacts
<1>2. r \o u = Append(r, Head(u)) \o Tail(u)
  OBVIOUS
<1>3. QED
  BY <1>1, <1>2

LEMMA OneKeyTyped ==
    ASSUME NEW r \in Seq(Keys), NEW u \in Seq(Keys), NEW k \in Keys
    PROVE  Append(r \o u, k) = r \o Append(u, k)
OBVIOUS

(* ReadLine gets a byte that ends no line, a LF, or a CR. *)
LEMMA LineTakesPlain ==
    ASSUME NEW k, LineTakes(k), k \notin {"cr", "lf"}
    PROVE  heard' = heard /\ line' = Edited(line, k)
<1>1. heard' = heard
  BY DEF LineTakes
<1>2. line' = CASE k \in {"cr", "lf"} -> <<>>
                [] k = "bs" -> IF line = <<>> THEN line ELSE Front(line)
                [] k \in {"a", "ff"} -> Append(line, k)
                [] OTHER -> line
  BY DEF LineTakes
<1>3. CASE k = "bs"
  <2>1. line' = IF line = <<>> THEN line ELSE Front(line)
    BY <1>2, <1>3
  <2>2. CASE line = <<>>
    <3>1. Edited(line, k) = line
      BY <1>3, <2>2 DEF Edited, Printable
    <3>2. QED
      BY <1>1, <2>1, <2>2, <3>1
  <2>3. CASE line # <<>>
    <3>1. Edited(line, k) = Front(line)
      BY <1>3, <2>3 DEF Edited, Printable
    <3>2. QED
      BY <1>1, <2>1, <2>3, <3>1
  <2>4. QED
    BY <2>2, <2>3
<1>4. CASE k \in {"a", "ff"}
  <2>1. line' = Append(line, k)
    BY <1>2, <1>4
  <2>2. Edited(line, k) = Append(line, k)
    BY <1>4 DEF Edited, Printable
  <2>3. QED
    BY <1>1, <2>1, <2>2
<1>5. CASE k \notin {"bs", "a", "ff"}
  <2>1. line' = line
    BY <1>2, <1>5
  <2>2. Edited(line, k) = line
    BY <1>5 DEF Edited, Printable
  <2>3. QED
    BY <1>1, <2>1, <2>2
<1>6. QED
  BY <1>3, <1>4, <1>5

LEMMA LineTakesEnd ==
    ASSUME NEW k, LineTakes(k), k \in {"cr", "lf"}
    PROVE  heard' = Append(heard, line) /\ line' = <<>>
BY DEF LineTakes

(* GetChar with a byte that v has after q. *)
LEMMA CharRead ==
    ASSUME TermInv, NEW k \in Keys, GetChar(k), NEW v \in Seq(Keys), NEW q \in Nat,
           Len(v) = q + 1, v[q + 1] = k, push' = "none",
           ~pendingCr => Plainly(v, q, line, heard),
           pendingCr => line = <<>> /\ AfterCr(v, q, heard),
           NEW m \in Nat, m = q + 1
    PROVE  ReadSoFar(v, m)'
<1>0. line \in Seq(Printable) /\ heard \in Seq(Seq(Printable)) /\ pendingCr \in BOOLEAN /\ peeking \in BOOLEAN
  BY DEF TermInv
<1>1. /\ ~peeking /\ pendingCr' = (k = "cr" /\ ~pendingCr) /\ peeking' = (k = "cr" /\ pendingCr)
      /\ IF pendingCr /\ k \in {"lf", "nul", "cr"} THEN UNCHANGED <<line, heard>> ELSE LineTakes(k)
  BY DEF GetChar
<1>a. q + 1 <= Len(v) /\ Len(v) \in Nat
  BY SeqFacts
<1> SUFFICES /\ ~pendingCr' /\ ~peeking' => Plainly(v, q + 1, line', heard')
             /\ pendingCr' => line' = <<>> /\ AfterCr(v, q + 1, heard')
             /\ peeking' => line' = <<>> /\ q + 1 >= 2 /\ AfterCr(v, (q + 1) - 1, heard') /\ v[q + 1] = "cr"
  BY DEF ReadSoFar
<1>2. CASE ~pendingCr
  <2>1. LineTakes(k) /\ peeking' = FALSE /\ Plainly(v, q, line, heard)
    BY <1>1, <1>2
  <2>2. CASE k \notin {"cr", "lf"}
    <3>1. heard' = heard /\ line' = Edited(line, k) /\ pendingCr' = FALSE
      BY <1>1, <2>1, <2>2, LineTakesPlain
    <3>2. Plainly(v, q + 1, Edited(line, k), heard)
      BY <1>0, <1>a, <2>1, <2>2, PlainByte
    <3>3. QED
      BY <2>1, <3>1, <3>2
  <2>3. CASE k = "lf"
    <3>1. heard' = Append(heard, line) /\ line' = <<>> /\ pendingCr' = FALSE
      BY <1>1, <2>1, <2>3, LineTakesEnd
    <3>2. Plainly(v, q + 1, <<>>, Append(heard, line))
      BY <1>0, <1>a, <2>1, <2>3, LineFeed
    <3>3. QED
      BY <2>1, <3>1, <3>2
  <2>4. CASE k = "cr"
    <3>1. heard' = Append(heard, line) /\ line' = <<>> /\ pendingCr' = TRUE
      BY <1>1, <1>2, <2>1, <2>4, LineTakesEnd
    <3>2. AfterCr(v, q + 1, Append(heard, line))
      BY <1>0, <1>a, <2>1, <2>4, CarriageReturn
    <3>3. QED
      BY <2>1, <3>1, <3>2
  <2>5. QED
    BY <2>2, <2>3, <2>4
<1>3. CASE pendingCr
  <2>1. pendingCr' = FALSE /\ line = <<>> /\ AfterCr(v, q, heard) /\ <<>> \in Seq(Printable)
    BY <1>0, <1>1, <1>3
  <2>2. CASE k \in {"lf", "nul"}
    <3>1. heard' = heard /\ line' = <<>> /\ peeking' = FALSE
      BY <1>1, <1>3, <2>1, <2>2
    <3>2. Plainly(v, q + 1, <<>>, heard)
      BY <1>a, <2>1, <2>2, CrFilled
    <3>3. QED
      BY <2>1, <3>1, <3>2
  <2>3. CASE k = "cr"
    <3>1. heard' = heard /\ line' = <<>> /\ peeking' = TRUE
      BY <1>1, <1>3, <2>1, <2>3
    <3>2. q \in Nat /\ q >= 1 /\ (q + 1) - 1 = q
      BY <2>1 DEF AfterCr
    <3>3. QED
      BY <2>1, <2>3, <3>1, <3>2
  <2>4. CASE k \notin {"lf", "nul", "cr"}
    <3>1. LineTakes(k) /\ peeking' = FALSE
      BY <1>1, <2>4
    <3>2. heard' = heard /\ line' = Edited(<<>>, k)
      BY <2>1, <2>4, <3>1, LineTakesPlain
    <3>3. Plainly(v, q, <<>>, heard)
      BY <1>a, <2>1, <2>4, CrAlone
    <3>4. Plainly(v, q + 1, Edited(<<>>, k), heard)
      BY <1>a, <2>1, <2>4, <3>3, PlainByte
    <3>5. QED
      BY <2>1, <3>1, <3>2, <3>4
  <2>5. QED
    BY <2>2, <2>3, <2>4
<1>4. QED
  BY <1>2, <1>3

LEMMA HeardNow ==
    ASSUME NEW p \in Seq(Keys), NEW q \in Nat, typed' = p \o unread', ReadSoFar(Payload(p), q)'
    PROVE  HeardInv'
BY DEF HeardInv

LEMMA HeardStep == TermInv /\ HeardInv /\ [TerminalNext]_tvars => HeardInv'
<1> SUFFICES ASSUME TermInv, HeardInv, [TerminalNext]_tvars PROVE HeardInv'
  OBVIOUS
<1>0. /\ unread \in Seq(Keys) /\ pendingCr \in BOOLEAN /\ peeking \in BOOLEAN /\ ~(peeking /\ pendingCr)
      /\ line \in Seq(Printable) /\ heard \in Seq(Seq(Printable)) /\ (lost => push = "ff")
      /\ push \in Keys \cup {"none"}
  BY DEF TermInv
<1>1. PICK r \in Seq(Keys), q \in Nat : typed = r \o unread /\ ReadSoFar(Payload(r), q)
  BY DEF HeardInv
<1>2. PICK v : v = Payload(r)
  OBVIOUS
<1>3. /\ v \in Seq(Keys) /\ Len(v) \in Nat
      /\ push = "none" => Len(v) = q
      /\ push # "none" => Len(v) = q + 1 /\ v[q + 1] = push /\ ~peeking
      /\ ~pendingCr /\ ~peeking => Plainly(v, q, line, heard)
      /\ pendingCr => line = <<>> /\ AfterCr(v, q, heard)
      /\ peeking => line = <<>> /\ q >= 2 /\ AfterCr(v, q - 1, heard) /\ v[q] = "cr"
  BY <1>1, <1>2, SeqFacts DEF ReadSoFar
<1>a. PICK n \in Nat : n = q + 1
  BY <1>1
<1>4. ASSUME NEW k \in Keys, UserTypes(k) PROVE HeardInv'
  <2>1. /\ typed' = Append(typed, k) /\ unread' = Append(unread, k)
        /\ UNCHANGED <<push, pendingCr, peeking, line, heard>>
    BY <1>4 DEF UserTypes
  <2>2. typed' = r \o unread'
    BY <1>0, <1>1, <2>1, OneKeyTyped
  <2>3. ReadSoFar(Payload(r), q)'
    BY <1>1, <2>1 DEF ReadSoFar
  <2>4. QED
    BY <2>2, <2>3 DEF HeardInv
<1>5. ASSUME unread # <<>>, unread' = Tail(unread), typed' = typed
      PROVE  /\ Head(unread) \in Keys /\ Append(r, Head(unread)) \in Seq(Keys) /\ typed' = Append(r, Head(unread)) \o unread'
             /\ Payload(Append(r, Head(unread))) = IF Head(unread) \in Negotiation THEN v ELSE Append(v, Head(unread))
  <2>1. /\ Head(unread) \in Keys /\ Append(r, Head(unread)) \in Seq(Keys)
        /\ r \o unread = Append(r, Head(unread)) \o Tail(unread)
    BY <1>0, <1>1, <1>5, OneKeyRead
  <2>2. Payload(Append(r, Head(unread))) = IF Head(unread) \in Negotiation THEN v ELSE Append(v, Head(unread))
    BY <1>1, <1>2, <2>1, PayloadAppend
  <2>3. QED
    BY <1>1, <1>5, <2>1, <2>2
<1>6. CASE TermNegotiate
  <2>1. /\ unread # <<>> /\ unread' = Tail(unread) /\ Head(unread) \in Negotiation
        /\ UNCHANGED <<typed, push, pendingCr, peeking, line, heard>>
    BY <1>6 DEF TermNegotiate
  <2>2. PICK p \in Seq(Keys) : typed' = p \o unread' /\ Payload(p) = v
    BY <1>5, <2>1
  <2>3. ReadSoFar(v, q)'
    BY <1>1, <1>2, <2>1 DEF ReadSoFar
  <2>4. ReadSoFar(Payload(p), q)'
    BY <2>2, <2>3
  <2>5. QED
    BY <1>1, <2>2, <2>4 DEF HeardInv
<1>7. ASSUME NEW k \in Keys, GetChar(k) PROVE HeardInv'
  <2>1. NextPayload(k) /\ typed' = typed /\ ~peeking
    BY <1>7 DEF GetChar
  <2>2. CASE push # "none"
    <3>1. k = push /\ push' = "none" /\ unread' = unread
      BY <2>1, <2>2 DEF NextPayload
    <3>2. ReadSoFar(v, n)'
      BY <1>1, <1>3, <1>7, <1>a, <2>1, <2>2, <3>1, CharRead
    <3>3. ReadSoFar(Payload(r), n)'
      BY <1>2, <3>2
    <3>4. QED
      BY <1>1, <1>a, <2>1, <3>1, <3>3, HeardNow
  <2>3. CASE push = "none"
    <3>1. /\ unread # <<>> /\ k = Head(unread) /\ k \notin Negotiation /\ unread' = Tail(unread) /\ push' = "none"
      BY <2>1, <2>3 DEF NextPayload
    <3>2. PICK p \in Seq(Keys) : typed' = p \o unread' /\ Payload(p) = Append(v, k)
      BY <1>5, <2>1, <3>1
    <3>3. PICK w \in Seq(Keys) : w = Append(v, k) /\ Len(w) = q + 1 /\ w[q + 1] = k
      <4>1. Append(v, k) \in Seq(Keys) /\ Len(Append(v, k)) = q + 1 /\ Append(v, k)[q + 1] = k
        BY <1>1, <1>3, <2>3, AppendFacts
      <4>2. QED
        BY <4>1
    <3>4. ~pendingCr => Plainly(w, q, line, heard)
      BY <1>3, <2>1, <3>3, PlainlyOnward
    <3>5. pendingCr => line = <<>> /\ AfterCr(w, q, heard)
      BY <1>3, <3>3, AfterCrOnward
    <3>6. ReadSoFar(w, n)'
      BY <1>1, <1>7, <1>a, <3>1, <3>3, <3>4, <3>5, CharRead
    <3>7. ReadSoFar(Payload(p), n)'
      BY <3>2, <3>3, <3>6
    <3>8. QED
      BY <1>a, <3>2, <3>7, HeardNow
  <2>4. QED
    BY <2>2, <2>3
<1>8. CASE GetCharPeek
  <2>1. /\ peeking /\ unread # <<>> /\ Head(unread) \notin Negotiation /\ peeking' = FALSE /\ unread' = Tail(unread)
        /\ typed' = typed
        /\ IF Head(unread) \in {"lf", "nul"} THEN UNCHANGED <<push, pendingCr, line, heard>>
           ELSE push' = Head(unread) /\ pendingCr' = TRUE /\ LineTakes("cr")
    BY <1>8 DEF GetCharPeek
  <2>2. /\ push = "none" /\ Len(v) = q /\ pendingCr = FALSE /\ line = <<>> /\ q >= 2 /\ AfterCr(v, q - 1, heard) /\ v[q] = "cr"
    BY <1>0, <1>3, <2>1
  <2>3. PICK k \in Keys : k = Head(unread)
    BY <1>5, <2>1
  <2>4. PICK p \in Seq(Keys) : typed' = p \o unread' /\ Payload(p) = Append(v, k)
    BY <1>5, <2>1, <2>3
  <2>5. PICK w \in Seq(Keys) : w = Append(v, k) /\ Len(w) = q + 1 /\ w[q + 1] = k /\ w[q] = "cr" /\ AfterCr(w, q - 1, heard)
    <3>1. q \in 1..Len(v)
      BY <1>1, <2>2
    <3>2. /\ Append(v, k) \in Seq(Keys) /\ Len(Append(v, k)) = q + 1 /\ Append(v, k)[q + 1] = k
          /\ Append(v, k)[q] = v[q]
      BY <1>1, <1>3, <2>2, <3>1, AppendFacts
    <3>3. AfterCr(Append(v, k), q - 1, heard)
      BY <1>3, <2>2, AfterCrOnward
    <3>4. QED
      BY <2>2, <3>2, <3>3
  <2>6. PICK m \in Nat : m = q - 1 /\ q = m + 1 /\ q + 1 = m + 2
    BY <1>1, <2>2
  <2>7. m + 2 <= Len(w) /\ w[m + 1] = "cr" /\ w[m + 2] = k /\ AfterCr(w, m, heard)
    BY <1>1, <2>5, <2>6
  <2>8. CASE k \in {"lf", "nul"}
    <3>1. UNCHANGED <<push, pendingCr, line, heard>>
      BY <2>1, <2>3, <2>8
    <3>2. Plainly(w, q + 1, <<>>, heard)
      BY <2>6, <2>7, <2>8, CrCrFilled
    <3>3. ReadSoFar(w, n)'
      BY <1>1, <1>a, <2>1, <2>2, <2>5, <3>1, <3>2 DEF ReadSoFar
    <3>4. ReadSoFar(Payload(p), n)'
      BY <2>4, <2>5, <3>3
    <3>5. QED
      BY <1>a, <2>4, <3>4, HeardNow
  <2>9. CASE k \notin {"lf", "nul"}
    <3>1. push' = k /\ pendingCr' = TRUE /\ LineTakes("cr")
      BY <2>1, <2>3, <2>9
    <3>2. heard' = Append(heard, <<>>) /\ line' = <<>>
      BY <2>2, <3>1, LineTakesEnd
    <3>3. AfterCr(w, q, Append(heard, <<>>))
      BY <1>0, <2>6, <2>7, <2>9, CrTwice
    <3>4. k # "none"
      BY <2>3, TerminalAssumption DEF TermKeys
    <3>5. ReadSoFar(w, q)'
      BY <1>1, <2>1, <2>5, <3>1, <3>2, <3>3, <3>4 DEF ReadSoFar
    <3>6. ReadSoFar(Payload(p), q)'
      BY <2>4, <2>5, <3>5
    <3>7. QED
      BY <1>1, <2>4, <3>6, HeardNow
  <2>10. QED
    BY <2>8, <2>9
<1>9. ASSUME UNCHANGED <<typed, unread, push, pendingCr, peeking, line, heard>> PROVE HeardInv'
  <2>1. ReadSoFar(Payload(r), q)'
    BY <1>1, <1>9 DEF ReadSoFar
  <2>2. typed' = r \o unread'
    BY <1>1, <1>9
  <2>3. QED
    BY <1>1, <2>1, <2>2 DEF HeardInv
<1>10. CASE PushbackIsCommand
  BY <1>9, <1>10 DEF PushbackIsCommand
<1>11. CASE UNCHANGED tvars
  BY <1>9, <1>11 DEF tvars
<1>12. QED
  BY <1>4, <1>6, <1>7, <1>8, <1>10, <1>11 DEF TerminalNext

(* For every sequence of keys, of any length: when the shell waits for a     *)
(* byte, and is not looking behind a second CR, ReadLine has returned the    *)
(* lines that LinesOf reads from what was sent, line endings folded as       *)
(* GetChar's comment says and negotiation taken out.                         *)
THEOREM LinesAreAlwaysAsTyped == TerminalSpec => []LinesAsTyped
<1>1. TermInv /\ HeardInv => LinesAsTyped
  BY HeardMeansTyped
<1>2. QED
  BY <1>1, TerminalFirst, TerminalStep, HeardFirst, HeardStep, PTL DEF TerminalSpec

(***************************************************************************)
(* The components side by side, as MCClients runs them                     *)
(***************************************************************************)

LEMMA DavTyped == DavInv => DavTypeOK
<1> SUFFICES ASSUME DavInv PROVE DavTypeOK
  OBVIOUS
<1>1. DavTypes /\ DavShape
  BY DEF DavInv
<1>2. ASSUME NEW c \in Clients
      PROVE  /\ req[c].pc \in {"idle", "find", "insert", "unlink", "bind", "unbind", "lock"}
             /\ req[c].uid \in Uids \cup {NoUid} /\ req[c].old \in 0..version
  <2>1. PICK j \in DavReqs : j = req[c]
    BY <1>1 DEF DavTypes
  <2>2. j.old <= version /\ version \in Nat
    BY <1>1, <2>1, DavAssumption DEF DavShape, DavShapeOf, DavTypes
  <2>3. QED
    BY <2>1, <2>2 DEF DavReqs
<1>3. QED
  BY <1>1, <1>2 DEF DavTypes, DavTypeOK

(* One component runs and the others rest, which every one of them allows. *)
LEMMA EachRuns == [MCNext]_clientsVars => [DavNext]_dvars /\ [TerminalNext]_tvars /\ [XmodemNext]_xvars /\ [FetchNext]_fvars
BY DEF MCNext, clientsVars

LEMMA ClientsRun == MCSpec => DavSpec /\ TerminalSpec /\ XmodemSpec /\ FetchSpec
<1>1. MCInit => DavInit /\ TerminalInit /\ XmodemInit /\ FetchInit
  BY DEF MCInit
<1>2. QED
  BY <1>1, EachRuns, PTL DEF MCSpec, DavSpec, TerminalSpec, XmodemSpec, FetchSpec

(* The whole run is well typed, whichever component runs in it. *)
THEOREM ClientsTypeCorrect == MCSpec => []ClientsTypeOK
<1>1. DavSpec => []DavTypeOK
  BY DavInvHolds, DavTyped, PTL
<1>2. DavTypeOK /\ TerminalTypeOK /\ XmodemTypeOK /\ FetchTypeOK => ClientsTypeOK
  BY DEF ClientsTypeOK
<1>3. QED
  BY <1>1, <1>2, ClientsRun, TerminalTypeCorrect, TransferTypeCorrect, FetchTypeCorrect, PTL
=============================================================================
