--------------------------- MODULE SessionsProofs ---------------------------
(***************************************************************************)
(* The listener, the periodic worker, the news feed and mail access: what  *)
(* MCSessions checks of them for one caller, three descriptors and two     *)
(* sessions, for all.  The theorems rest on the inductive invariants       *)
(* WkrInv, FeedInv, CtlInv, CtlCounted and AccInv.                         *)
(***************************************************************************)
EXTENDS MCSessions, OrderLemmas, FiniteSetTheorems, SequenceTheorems, TLAPS

-----------------------------------------------------------------------------
(* Worker *)

WkrCalls == [pc : {"idle", "joinable", "join", "clear"}, of : 0..MaxLoops]

WkrTypes ==
    /\ wRunning \in BOOLEAN /\ wStop \in BOOLEAN /\ wBroken \in BOOLEAN
    /\ wThread \in 0..MaxLoops
    /\ loops \in [Loops -> {"none", "nap", "tick", "sleep", "done"}]
    /\ wCall \in [Stoppers -> WkrCalls]

(* With one caller: the loop thread_ stands for is the one there is, and    *)
(* where the caller is in Stop says what it is doing.                       *)
WkrInv ==
    /\ WkrTypes /\ RunningMeansAlive
    /\ wBroken = FALSE
    /\ wThread # 0 => wRunning = TRUE
    /\ \A c \in Stoppers : /\ wCall[c].pc = "idle" /\ wRunning = TRUE => wThread # 0
                           /\ wCall[c].pc = "joinable" => wThread # 0
                           /\ wCall[c].pc = "join" => wThread # 0 /\ wCall[c].of = wThread
                           /\ wCall[c].pc = "clear" => wThread = 0

OneStopper == \A c, d \in Stoppers : c = d

LEMMA WkrInitial == WorkerInit => WkrInv
<1> SUFFICES ASSUME WorkerInit PROVE WkrInv
  OBVIOUS
<1>1. wRunning = FALSE /\ wStop = FALSE /\ wBroken = FALSE /\ wThread = 0
  BY DEF WorkerInit
<1>2. loops \in [Loops -> {"none", "nap", "tick", "sleep", "done"}] /\ \A n \in Loops : loops[n] = "none"
  BY DEF WorkerInit
<1>3. wCall \in [Stoppers -> WkrCalls] /\ \A c \in Stoppers : wCall[c].pc = "idle"
  BY WorkerAssumption DEF WorkerInit, WkrCalls
<1>4. WkrTypes
  <2>1. wThread \in 0..MaxLoops
    BY <1>1, WorkerAssumption
  <2>2. wRunning \in BOOLEAN /\ wStop \in BOOLEAN /\ wBroken \in BOOLEAN
    BY <1>1, Zenon
  <2>3. QED
    BY <1>2, <1>3, <2>1, <2>2 DEF WkrTypes
<1>5. RunningMeansAlive
  BY <1>2 DEF RunningMeansAlive, Alive
<1>6. QED
  BY <1>1, <1>3, <1>4, <1>5 DEF WkrInv

LEMMA WkrSet ==
    ASSUME WkrTypes, NEW c \in Stoppers, NEW p \in {"idle", "joinable", "join", "clear"}, NEW o \in 0..MaxLoops, WCalls(c, p, o)
    PROVE  /\ wCall' \in [Stoppers -> WkrCalls] /\ wCall'[c].pc = p /\ wCall'[c].of = o
           /\ \A d \in Stoppers \ {c} : wCall'[d] = wCall[d]
<1>1. [pc |-> p, of |-> o] \in WkrCalls
  BY DEF WkrCalls
<1>2. QED
  BY <1>1 DEF WCalls, WkrTypes

LEMMA WkrStep == OneStopper /\ WkrInv /\ [WorkerNext]_wvars => WkrInv'
<1> SUFFICES ASSUME OneStopper, WkrInv, [WorkerNext]_wvars PROVE WkrInv'
  OBVIOUS
<1>0. WkrTypes /\ RunningMeansAlive /\ wBroken = FALSE /\ (wThread # 0 => wRunning = TRUE)
  BY DEF WkrInv
<1>1. /\ loops \in [Loops -> {"none", "nap", "tick", "sleep", "done"}] /\ wThread \in 0..MaxLoops /\ 0 \in 0..MaxLoops
      /\ wCall \in [Stoppers -> WkrCalls] /\ Loops \subseteq 0..MaxLoops /\ 0 \notin Loops
  BY <1>0, WorkerAssumption DEF WkrTypes, Loops
<1>2. \A c \in Stoppers : /\ wCall[c].pc = "idle" /\ wRunning = TRUE => wThread # 0
                          /\ wCall[c].pc = "joinable" => wThread # 0
                          /\ wCall[c].pc = "join" => wThread # 0 /\ wCall[c].of = wThread
                          /\ wCall[c].pc = "clear" => wThread = 0
  BY DEF WkrInv
<1>3. ASSUME NEW c \in Stoppers, WorkerStart(c) PROVE WkrInv'
  <2>1. wRunning = FALSE /\ wThread = 0 /\ wCall[c].pc = "idle" /\ wCall' = wCall /\ wRunning' = TRUE /\ wStop' = FALSE
    BY <1>0, <1>3 DEF WorkerStart, WkrTypes
  <2>2. wBroken' = FALSE
    BY <1>0, <1>3, <2>1 DEF WorkerStart
  <2>3. PICK n \in Loops : loops' = [loops EXCEPT ![n] = "nap"] /\ wThread' = n
    BY <1>3 DEF WorkerStart
  <2>4. \A m \in Loops : ~ Alive(m)
    BY <1>0, <2>1 DEF RunningMeansAlive
  <2>5. RunningMeansAlive'
    BY <1>1, <2>1, <2>3, <2>4 DEF RunningMeansAlive, Alive
  <2>6. \A d \in Stoppers : wCall'[d].pc = "idle"
    BY <2>1 DEF OneStopper
  <2>7. WkrTypes'
    BY <1>1, <2>1, <2>2, <2>3 DEF WkrTypes
  <2>8. QED
    BY <1>1, <2>1, <2>2, <2>3, <2>5, <2>6, <2>7 DEF WkrInv
<1>4. ASSUME NEW c \in Stoppers, WorkerStop(c) PROVE WkrInv'
  <2>1. wRunning = TRUE /\ wThread # 0 /\ wStop' = TRUE /\ WCalls(c, "joinable", 0) /\ UNCHANGED <<wRunning, wThread, loops, wBroken>>
    BY <1>0, <1>2, <1>4 DEF WorkerStop, WkrTypes
  <2>2. wCall' \in [Stoppers -> WkrCalls] /\ wCall'[c].pc = "joinable"
    BY <1>0, <1>1, <2>1, WkrSet
  <2>3. \A d \in Stoppers : d = c
    BY DEF OneStopper
  <2>4. WkrTypes' /\ RunningMeansAlive'
    BY <1>0, <2>1, <2>2 DEF WkrTypes, RunningMeansAlive, Alive
  <2>5. QED
    BY <1>0, <2>1, <2>2, <2>3, <2>4 DEF WkrInv
<1>5. ASSUME NEW c \in Stoppers, WorkerJoinable(c) PROVE WkrInv'
  <2>1. wThread # 0 /\ WCalls(c, "join", wThread) /\ UNCHANGED <<wRunning, wStop, wThread, loops, wBroken>>
    BY <1>2, <1>5 DEF WorkerJoinable
  <2>2. wCall' \in [Stoppers -> WkrCalls] /\ wCall'[c].pc = "join" /\ wCall'[c].of = wThread
    BY <1>0, <1>1, <2>1, WkrSet
  <2>3. \A d \in Stoppers : d = c
    BY DEF OneStopper
  <2>4. WkrTypes' /\ RunningMeansAlive'
    BY <1>0, <2>1, <2>2 DEF WkrTypes, RunningMeansAlive, Alive
  <2>5. QED
    BY <1>0, <2>1, <2>2, <2>3, <2>4 DEF WkrInv
<1>6. ASSUME NEW c \in Stoppers, WorkerJoin(c) PROVE WkrInv'
  <2>1. wThread # 0 /\ wCall[c].of = wThread /\ loops[wThread] = "done" /\ WCalls(c, "clear", 0)
        /\ wThread' = 0 /\ UNCHANGED <<wRunning, wStop, loops>>
    BY <1>2, <1>6 DEF WorkerJoin
  <2>2. wBroken' = FALSE
    BY <1>0, <1>6, <2>1 DEF WorkerJoin
  <2>3. wCall' \in [Stoppers -> WkrCalls] /\ wCall'[c].pc = "clear"
    BY <1>0, <1>1, <2>1, WkrSet
  <2>4. \A d \in Stoppers : d = c
    BY DEF OneStopper
  <2>5. \A m \in Loops : ~ Alive(m)
    BY <1>0, <2>1 DEF RunningMeansAlive, Alive
  <2>6. WkrTypes' /\ RunningMeansAlive'
    BY <1>0, <1>1, <2>1, <2>2, <2>3, <2>5 DEF WkrTypes, RunningMeansAlive, Alive
  <2>7. QED
    BY <2>1, <2>2, <2>3, <2>4, <2>6 DEF WkrInv
<1>7. ASSUME NEW c \in Stoppers, WorkerStopped(c) PROVE WkrInv'
  <2>1. wThread = 0 /\ wRunning' = FALSE /\ WCalls(c, "idle", 0) /\ UNCHANGED <<wStop, wThread, loops, wBroken>>
    BY <1>2, <1>7 DEF WorkerStopped
  <2>2. wCall' \in [Stoppers -> WkrCalls] /\ wCall'[c].pc = "idle"
    BY <1>0, <1>1, <2>1, WkrSet
  <2>3. \A d \in Stoppers : d = c
    BY DEF OneStopper
  <2>4. \A m \in Loops : ~ Alive(m)
    BY <1>0, <1>1, <2>1 DEF RunningMeansAlive
  <2>5. WkrTypes' /\ RunningMeansAlive'
    BY <1>0, <1>1, <2>1, <2>2, <2>4 DEF WkrTypes, RunningMeansAlive, Alive
  <2>6. QED
    BY <1>0, <2>1, <2>2, <2>3, <2>5 DEF WkrInv
<1>8. ASSUME NEW n \in Loops, LoopStep(n) PROVE WkrInv'
  <2>1. UNCHANGED <<wRunning, wStop, wThread, wCall, wBroken>>
    BY <1>8 DEF LoopStep
  <2>2. /\ loops[n] \in {"nap", "tick", "sleep"}
        /\ \E v \in {"none", "nap", "tick", "sleep", "done"} : loops' = [loops EXCEPT ![n] = v]
    BY <1>8 DEF LoopStep
  <2>3. loops' \in [Loops -> {"none", "nap", "tick", "sleep", "done"}] /\ \A m \in Loops \ {n} : loops'[m] = loops[m]
    BY <1>1, <2>2
  <2>4. RunningMeansAlive'
    BY <1>0, <2>1, <2>2, <2>3 DEF RunningMeansAlive, Alive
  <2>5. WkrTypes'
    BY <1>0, <2>1, <2>3 DEF WkrTypes
  <2>6. QED
    BY <1>0, <1>2, <2>1, <2>4, <2>5 DEF WkrInv
<1>9. CASE UNCHANGED wvars
  BY <1>9 DEF wvars, WkrInv, WkrTypes, RunningMeansAlive, Alive
<1>10. QED
  BY <1>3, <1>4, <1>5, <1>6, <1>7, <1>8, <1>9 DEF WorkerNext, WorkerStep

LEMMA WkrTyped == WkrInv => WorkerTypeOK
BY DEF WkrInv, WkrTypes, WorkerTypeOK, WkrCalls

-----------------------------------------------------------------------------
(* Feed *)

PeerPcs == {"cmd", "body", "find", "insert", "record"}
PeerJobs == [pc : PeerPcs, by : {"none", "ihave", "takethis", "post"}, id : Articles, row : 0..MaxRows]
Views == [Articles -> {"open", "settled"}]

(* Types, and: numbers of rows were handed out, one to each; what is stored *)
(* is of a group that is carried; a session that stored an article has its  *)
(* number in hand.                                                          *)
FeedTypes ==
    /\ rows \subseteq (1..MaxRows) \X Articles
    /\ msgids \in [Articles -> 0..MaxRows] /\ nextRow \in 0..MaxRows
    /\ peer \in [Peers -> PeerJobs]
    /\ told \in [Peers -> Views]
    /\ raced \subseteq Articles /\ held \subseteq Articles
    /\ \A r \in rows : r[1] <= nextRow /\ r[2] \in Carried /\ r[2] \in held
    /\ \A r, s \in rows : r[1] = s[1] => r = s
    /\ \A p \in Peers : peer[p].pc = "record" => peer[p].row \in 1..nextRow /\ peer[p].id \in held

Has(p, a) == peer[p].id = a /\ peer[p].pc # "cmd"
Lacks(a) == \A r \in rows : r[2] # a

(* An article that was not raced for is in one session's hands at most;     *)
(* one that is about to insert it found none, and what is there is what     *)
(* citadel_msgids names, or the row that is about to be recorded.           *)
Quiet(a) ==
    /\ \A p, q \in Peers : Has(p, a) /\ Has(q, a) => p = q
    /\ \A p \in Peers : Has(p, a) => peer[p].by \in {"ihave", "takethis"}
    /\ \A p \in Peers : Has(p, a) /\ (peer[p].pc = "insert" \/ (peer[p].pc = "body" /\ peer[p].by = "ihave")) => Lacks(a)
    /\ \A p \in Peers : Has(p, a) /\ peer[p].pc = "record" => \A r \in rows : r[2] = a => r[1] = peer[p].row
    /\ \A r \in rows : r[2] = a => r[1] = msgids[a] \/ \E p \in Peers : Has(p, a) /\ peer[p].pc = "record"

FeedQuiet == \A a \in Articles \ raced : Quiet(a)
FeedInv == FeedTypes /\ FeedQuiet

LEMMA PeerIdleTyped == PeerIdle \in PeerJobs /\ PeerIdle.pc = "cmd"
<1>1. (CHOOSE a \in Articles : TRUE) \in Articles /\ 0 \in 0..MaxRows
  BY FeedAssumption
<1>2. QED
  BY <1>1 DEF PeerIdle, PeerJobs, PeerPcs

LEMMA PeerSet ==
    ASSUME peer \in [Peers -> PeerJobs], NEW p \in Peers, NEW j \in PeerJobs, PeerIs(p, j)
    PROVE  peer' \in [Peers -> PeerJobs] /\ peer'[p] = j /\ \A q \in Peers \ {p} : peer'[q] = peer[q]
BY DEF PeerIs

LEMMA AnswerSet ==
    ASSUME peer \in [Peers -> PeerJobs], told \in [Peers -> Views], NEW p \in Peers, NEW final, NewsAnswer(p, final)
    PROVE  /\ peer' \in [Peers -> PeerJobs] /\ peer'[p].pc = "cmd" /\ (\A q \in Peers \ {p} : peer'[q] = peer[q])
           /\ told' \in [Peers -> Views]
           /\ \A q \in Peers, a \in Articles : told[q][a] # told'[q][a] => q = p /\ a = peer[p].id /\ final
<1>1. peer' \in [Peers -> PeerJobs] /\ peer'[p] = PeerIdle /\ \A q \in Peers \ {p} : peer'[q] = peer[q]
  BY PeerIdleTyped, PeerSet DEF NewsAnswer
<1>2. peer[p].id \in Articles
  BY DEF PeerJobs
<1> DEFINE i == peer[p].id
           v == IF final THEN "settled" ELSE told[p][i]
           w == [told[p] EXCEPT ![i] = v]
<1>3. told' = [told EXCEPT ![p] = w]
  BY DEF NewsAnswer
<1>4. told[p] \in Views
  OBVIOUS
<1>5. v \in {"open", "settled"}
  BY <1>2, <1>4 DEF Views
<1>6. (v # told[p][i]) => final
  OBVIOUS
<1> HIDE DEF v, i
<1>7. w \in Views /\ \A a \in Articles : w[a] = IF a = i THEN v ELSE told[p][a]
  BY <1>2, <1>4, <1>5 DEF Views, i
<1> HIDE DEF w
<1>8. told' \in [Peers -> Views] /\ \A q \in Peers : told'[q] = IF q = p THEN w ELSE told[q]
  BY <1>3, <1>7
<1>9. \A q \in Peers, a \in Articles : told[q][a] # told'[q][a] => q = p /\ a = i /\ final
  BY <1>6, <1>7, <1>8
<1>10. QED
  BY <1>1, <1>8, <1>9, PeerIdleTyped DEF i

LEMMA PeerPc ==
    ASSUME NEW j \in PeerJobs, NEW pc \in PeerPcs
    PROVE  LET k == [j EXCEPT !.pc = pc] IN k \in PeerJobs /\ k.pc = pc /\ k.id = j.id /\ k.by = j.by /\ k.row = j.row
BY DEF PeerJobs

LEMMA PeerRow ==
    ASSUME NEW j \in PeerJobs, NEW pc \in PeerPcs, NEW r \in 0..MaxRows
    PROVE  LET k == [j EXCEPT !.pc = pc, !.row = r] IN k \in PeerJobs /\ k.pc = pc /\ k.id = j.id /\ k.by = j.by /\ k.row = r
BY DEF PeerJobs

(* The session is done: with its row recorded, or without one. *)
LEMMA FeedEnds ==
    ASSUME FeedInv, NEW p \in Peers, peer' \in [Peers -> PeerJobs], told' \in [Peers -> Views], peer'[p].pc = "cmd",
           \A q \in Peers \ {p} : peer'[q] = peer[q], UNCHANGED <<rows, nextRow, raced, held>>,
           IF peer[p].pc = "record" THEN msgids' = [msgids EXCEPT ![peer[p].id] = peer[p].row] ELSE msgids' = msgids
    PROVE  FeedInv'
<1>1. FeedTypes /\ FeedQuiet /\ peer[p] \in PeerJobs
  BY DEF FeedInv, FeedTypes
<1>2. peer[p].row \in 0..MaxRows /\ peer[p].id \in Articles
  BY <1>1 DEF PeerJobs
<1>3. msgids' \in [Articles -> 0..MaxRows]
  BY <1>1, <1>2 DEF FeedTypes
<1>4. FeedTypes'
  <2>1. \A q \in Peers : peer'[q].pc = "record" => peer'[q].row \in 1..nextRow /\ peer'[q].id \in held
    BY <1>1 DEF FeedTypes
  <2>2. QED
    BY <1>1, <1>3, <2>1 DEF FeedTypes
<1>5. ASSUME NEW a \in Articles \ raced PROVE Quiet(a)'
  <2>1. Quiet(a)
    BY <1>1, <1>5 DEF FeedQuiet
  <2>2. \A q \in Peers : Has(q, a)' => q # p /\ Has(q, a) /\ peer'[q] = peer[q]
    BY DEF Has
  <2>3. Lacks(a) => Lacks(a)'
    BY DEF Lacks
  <2>4. \A r \in rows' : r[2] = a => r[1] = msgids'[a] \/ \E q \in Peers : Has(q, a)' /\ peer'[q].pc = "record"
    <3> SUFFICES ASSUME NEW r \in rows, r[2] = a, ~ \E q \in Peers : Has(q, a)' /\ peer'[q].pc = "record"
                 PROVE  r[1] = msgids'[a]
      OBVIOUS
    <3>1. \A q \in Peers \ {p} : ~ (Has(q, a) /\ peer[q].pc = "record")
      BY DEF Has
    <3>2. CASE Has(p, a) /\ peer[p].pc = "record"
      <4>1. r[1] = peer[p].row
        BY <2>1, <3>2 DEF Quiet
      <4>2. msgids'[a] = peer[p].row
        BY <1>1, <1>2, <3>2 DEF Has, FeedTypes
      <4>3. QED
        BY <4>1, <4>2
    <3>3. CASE ~ (Has(p, a) /\ peer[p].pc = "record")
      <4>1. r[1] = msgids[a]
        BY <2>1, <3>1, <3>3 DEF Quiet
      <4>2. msgids'[a] = msgids[a]
        BY <1>1, <1>2, <3>3 DEF Has, FeedTypes
      <4>3. QED
        BY <4>1, <4>2
    <3>4. QED
      BY <3>2, <3>3
  <2>5. QED
    BY <2>1, <2>2, <2>3, <2>4 DEF Quiet
<1>6. QED
  BY <1>4, <1>5 DEF FeedInv, FeedQuiet

(* The session goes on, having found what it looked for. *)
LEMMA FeedMoves ==
    ASSUME FeedInv, NEW p \in Peers, NEW pc \in {"body", "find", "insert"}, PeerIs(p, [peer[p] EXCEPT !.pc = pc]),
           peer[p].pc \in {"body", "find"}, UNCHANGED <<rows, msgids, nextRow, told, raced, held>>,
           (pc = "insert" \/ (pc = "body" /\ peer[p].by = "ihave")) /\ peer[p].id \notin raced => Lacks(peer[p].id)
    PROVE  FeedInv'
<1>1. FeedTypes /\ FeedQuiet /\ peer[p] \in PeerJobs /\ peer \in [Peers -> PeerJobs] /\ pc \in PeerPcs
  BY DEF FeedInv, FeedTypes, PeerPcs
<1> DEFINE k == [peer[p] EXCEPT !.pc = pc]
<1>2. k \in PeerJobs /\ k.pc = pc /\ k.id = peer[p].id /\ k.by = peer[p].by /\ PeerIs(p, k)
  BY <1>1, PeerPc
<1> HIDE DEF k
<1>3. peer' \in [Peers -> PeerJobs] /\ peer'[p] = k /\ \A q \in Peers \ {p} : peer'[q] = peer[q]
  BY <1>1, <1>2, PeerSet
<1>4. FeedTypes'
  <2>1. \A q \in Peers : peer'[q].pc = "record" => peer'[q].row \in 1..nextRow /\ peer'[q].id \in held
    BY <1>1, <1>2, <1>3 DEF FeedTypes
  <2>2. QED
    BY <1>1, <1>3, <2>1 DEF FeedTypes
<1>5. ASSUME NEW a \in Articles \ raced PROVE Quiet(a)'
  <2>1. Quiet(a)
    BY <1>1, <1>5 DEF FeedQuiet
  <2>2. \A q \in Peers : Has(q, a)' <=> Has(q, a)
    BY <1>2, <1>3 DEF Has
  <2>3. \A q \in Peers : (peer'[q].pc = "record" <=> peer[q].pc = "record") /\ peer'[q].by = peer[q].by
                         /\ (q # p => peer'[q] = peer[q])
    BY <1>2, <1>3
  <2>4. Has(p, a) => peer[p].id = a
    BY DEF Has
  <2>5. Lacks(a)' <=> Lacks(a)
    BY DEF Lacks
  <2>6. \A q \in Peers : Has(q, a)' /\ (peer'[q].pc = "insert" \/ (peer'[q].pc = "body" /\ peer'[q].by = "ihave")) => Lacks(a)'
    BY <1>2, <1>3, <1>5, <2>1, <2>2, <2>3, <2>4, <2>5 DEF Quiet
  <2>7. QED
    BY <2>1, <2>2, <2>3, <2>6 DEF Quiet
<1>6. QED
  BY <1>4, <1>5 DEF FeedInv, FeedQuiet

LEMMA FeedOffer ==
    ASSUME FeedInv, NEW p \in Peers, NEW a \in Articles, NEW by \in {"ihave", "takethis", "post"}, NewsOffer(p, a, by)
    PROVE  FeedInv'
<1> DEFINE k == [pc |-> IF by = "ihave" THEN "find" ELSE "body", by |-> by, id |-> a, row |-> 0]
<1>1. /\ FeedTypes /\ FeedQuiet /\ peer \in [Peers -> PeerJobs] /\ 0 \in 0..MaxRows
      /\ PeerIs(p, k) /\ peer[p].pc = "cmd" /\ UNCHANGED <<rows, msgids, nextRow, told, held>>
  BY FeedAssumption DEF FeedInv, FeedTypes, NewsOffer
<1>2. /\ k \in PeerJobs /\ k.pc \in {"find", "body"} /\ k.id = a /\ k.by = by /\ (k.pc = "body" => by # "ihave")
  BY <1>1 DEF PeerJobs, PeerPcs
<1> HIDE DEF k
<1>3. peer' \in [Peers -> PeerJobs] /\ peer'[p] = k /\ \A q \in Peers \ {p} : peer'[q] = peer[q]
  BY <1>1, <1>2, PeerSet
<1>4. \A q \in Peers : peer[q].pc \in PeerPcs
  BY <1>1 DEF PeerJobs
<1>5. raced \subseteq raced' /\ raced' \subseteq Articles /\ (a \notin raced' => by # "post" /\ \A q \in Peers : ~Has(q, a))
  <2>1. Taking(a) = {} => \A q \in Peers : ~Has(q, a)
    BY <1>4 DEF Taking, Has, PeerPcs
  <2>2. raced \subseteq Articles
    BY <1>1 DEF FeedTypes
  <2>3. QED
    BY <2>1, <2>2 DEF NewsOffer
<1>6. FeedTypes'
  <2>1. \A q \in Peers : peer'[q].pc = "record" => peer'[q].row \in 1..nextRow /\ peer'[q].id \in held
    BY <1>1, <1>2, <1>3 DEF FeedTypes
  <2>2. QED
    BY <1>1, <1>3, <1>5, <2>1 DEF FeedTypes
<1>7. ASSUME NEW b \in Articles \ raced' PROVE Quiet(b)'
  <2>1. Quiet(b)
    BY <1>1, <1>5, <1>7 DEF FeedQuiet
  <2>2. \A q \in Peers \ {p} : Has(q, b)' <=> Has(q, b)
    BY <1>3 DEF Has
  <2>3. ~Has(p, b) /\ (Has(p, b)' => b = a)
    BY <1>1, <1>2, <1>3 DEF Has
  <2>4. Lacks(b)' <=> Lacks(b)
    BY <1>1 DEF Lacks
  <2>5. b = a => by # "post" /\ \A q \in Peers : ~Has(q, b)
    BY <1>5, <1>7
  <2>6. \A q, u \in Peers : Has(q, b)' /\ Has(u, b)' => q = u
    BY <2>1, <2>2, <2>3, <2>5 DEF Quiet
  <2>7. \A q \in Peers : Has(q, b)' => peer'[q].by \in {"ihave", "takethis"}
    BY <1>2, <1>3, <2>1, <2>2, <2>3, <2>5 DEF Quiet
  <2>8. \A q \in Peers : Has(q, b)' /\ (peer'[q].pc = "insert" \/ (peer'[q].pc = "body" /\ peer'[q].by = "ihave")) => Lacks(b)'
    BY <1>2, <1>3, <2>1, <2>2, <2>4 DEF Quiet
  <2>9. \A q \in Peers : Has(q, b)' /\ peer'[q].pc = "record" => \A r \in rows : r[2] = b => r[1] = peer'[q].row
    BY <1>2, <1>3, <2>1, <2>2 DEF Quiet
  <2>10. \A r \in rows : r[2] = b => r[1] = msgids[b] \/ \E q \in Peers : Has(q, b)' /\ peer'[q].pc = "record"
    BY <1>3, <2>1, <2>2, <2>3 DEF Quiet
  <2>11. QED
    BY <1>1, <2>6, <2>7, <2>8, <2>9, <2>10 DEF Quiet
<1>8. QED
  BY <1>6, <1>7 DEF FeedInv, FeedQuiet

LEMMA FeedStored ==
    ASSUME FeedInv, NEW p \in Peers, peer[p].pc = "insert", peer[p].id \in Carried, nextRow < MaxRows,
           nextRow' = nextRow + 1, rows' = rows \cup {<<nextRow + 1, peer[p].id>>}, held' = held \cup {peer[p].id},
           PeerIs(p, [peer[p] EXCEPT !.pc = "record", !.row = nextRow + 1]), UNCHANGED <<told, msgids, raced>>
    PROVE  FeedInv'
<1> DEFINE n == nextRow + 1
           i == peer[p].id
           k == [peer[p] EXCEPT !.pc = "record", !.row = n]
<1>1. /\ FeedTypes /\ FeedQuiet /\ peer \in [Peers -> PeerJobs] /\ peer[p] \in PeerJobs /\ MaxRows \in Nat /\ nextRow \in Nat
      /\ n \in 1..MaxRows /\ "record" \in PeerPcs
  BY FeedAssumption DEF FeedInv, FeedTypes, PeerPcs
<1>2. k \in PeerJobs /\ k.pc = "record" /\ k.id = i /\ k.by = peer[p].by /\ k.row = n /\ PeerIs(p, k)
  <2>1. n \in 0..MaxRows
    BY <1>1
  <2>2. PeerIs(p, k)
    OBVIOUS
  <2> DEFINE j == peer[p]
  <2>3. j \in PeerJobs /\ k = [j EXCEPT !.pc = "record", !.row = n]
    BY <1>1
  <2> HIDE DEF n, k, j
  <2>4. k \in PeerJobs /\ k.pc = "record" /\ k.id = j.id /\ k.by = j.by /\ k.row = n
    BY <1>1, <2>1, <2>3 DEF PeerJobs
  <2>5. QED
    BY <2>2, <2>4 DEF j
<1>3. i \in Articles /\ n > nextRow /\ n <= nextRow'
  BY <1>1 DEF PeerJobs
<1> HIDE DEF k
<1>4. peer' \in [Peers -> PeerJobs] /\ peer'[p] = k /\ \A q \in Peers \ {p} : peer'[q] = peer[q]
  BY <1>1, <1>2, PeerSet
<1> DEFINE x == <<n, i>>
<1>5. rows' = rows \cup {x} /\ x[1] = n /\ x[2] = i /\ x \in (1..MaxRows) \X Articles /\ nextRow' = n
  BY <1>1, <1>3
<1>6. \A r \in rows : r[1] <= nextRow /\ r[1] \in Nat /\ r[2] \in Carried /\ r[2] \in held
  BY <1>1 DEF FeedTypes
<1> HIDE DEF n, i, x
<1>7. FeedTypes'
  <2>1. \A q \in Peers : peer'[q].pc = "record" => peer'[q].row \in 1..nextRow' /\ peer'[q].id \in held'
    <3>1. \A q \in Peers : peer[q].pc = "record" => peer[q].row \in 1..nextRow /\ peer[q].id \in held
      BY <1>1 DEF FeedTypes
    <3>2. 1..nextRow \subseteq 1..nextRow' /\ n \in 1..nextRow'
      BY <1>1, <1>5 DEF n
    <3>3. QED
      BY <1>2, <1>4, <3>1, <3>2 DEF i
  <2>2. \A r \in rows' : r[1] <= nextRow' /\ r[2] \in Carried /\ r[2] \in held'
    BY <1>1, <1>3, <1>5, <1>6 DEF i, n
  <2>3. \A r, s \in rows' : r[1] = s[1] => r = s
    <3>1. \A r, s \in rows : r[1] = s[1] => r = s
      BY <1>1 DEF FeedTypes
    <3>2. \A r \in rows : r[1] # n
      BY <1>1, <1>6 DEF n
    <3>3. QED
      BY <1>5, <3>1, <3>2
  <2>4. rows' \subseteq (1..MaxRows) \X Articles /\ nextRow' \in 0..MaxRows /\ held' \subseteq Articles
    BY <1>1, <1>3, <1>5 DEF FeedTypes, i
  <2>5. QED
    BY <1>1, <1>4, <2>1, <2>2, <2>3, <2>4 DEF FeedTypes
<1>8. ASSUME NEW a \in Articles \ raced PROVE Quiet(a)'
  <2>1. Quiet(a)
    BY <1>1, <1>8 DEF FeedQuiet
  <2>2. \A q \in Peers : Has(q, a)' <=> Has(q, a)
    BY <1>2, <1>4 DEF Has, i
  <2>3. \A q \in Peers \ {p} : Has(q, a) => a # i
    BY <2>1 DEF Quiet, Has, i
  <2>4. Has(p, a) <=> a = i
    BY DEF Has, i
  <2>5. a # i => (Lacks(a)' <=> Lacks(a))
    BY <1>5 DEF Lacks
  <2>6. a = i => Lacks(a)
    BY <2>1, <2>4 DEF Quiet
  <2>7. \A q \in Peers : Has(q, a)' => peer'[q].by \in {"ihave", "takethis"}
    BY <1>2, <1>4, <2>1, <2>2 DEF Quiet
  <2>8. \A q \in Peers : Has(q, a)' /\ (peer'[q].pc = "insert" \/ (peer'[q].pc = "body" /\ peer'[q].by = "ihave")) => Lacks(a)'
    BY <1>2, <1>4, <2>1, <2>2, <2>3, <2>5 DEF Quiet
  <2>9. \A q \in Peers : Has(q, a)' /\ peer'[q].pc = "record" => \A r \in rows' : r[2] = a => r[1] = peer'[q].row
    <3> SUFFICES ASSUME NEW q \in Peers, Has(q, a)', peer'[q].pc = "record", NEW r \in rows', r[2] = a PROVE r[1] = peer'[q].row
      OBVIOUS
    <3>1. CASE q = p
      BY <1>2, <1>4, <1>5, <2>2, <2>4, <2>6, <3>1 DEF Lacks
    <3>2. CASE q # p
      BY <1>4, <1>5, <2>1, <2>2, <2>3, <3>2 DEF Quiet
    <3>3. QED
      BY <3>1, <3>2
  <2>10. \A r \in rows' : r[2] = a => r[1] = msgids[a] \/ \E q \in Peers : Has(q, a)' /\ peer'[q].pc = "record"
    <3> SUFFICES ASSUME NEW r \in rows', r[2] = a PROVE r[1] = msgids[a] \/ \E q \in Peers : Has(q, a)' /\ peer'[q].pc = "record"
      OBVIOUS
    <3>1. CASE a = i
      BY <1>2, <1>4, <2>2, <2>4, <3>1
    <3>2. CASE a # i
      <4>1. r \in rows
        BY <1>5, <3>2
      <4>2. r[1] = msgids[a] \/ \E q \in Peers : Has(q, a) /\ peer[q].pc = "record"
        BY <2>1, <4>1 DEF Quiet
      <4>3. \A q \in Peers : Has(q, a) /\ peer[q].pc = "record" => q # p /\ peer'[q].pc = "record"
        BY <1>4, <2>4, <3>2
      <4>4. QED
        BY <2>2, <4>2, <4>3
    <3>3. QED
      BY <3>1, <3>2
  <2>11. QED
    BY <2>1, <2>2, <2>7, <2>8, <2>9, <2>10 DEF Quiet
<1>9. QED
  BY <1>7, <1>8 DEF FeedInv, FeedQuiet

(* Rows go, or a peer hears of one. *)
LEMMA FeedShrinks ==
    ASSUME FeedInv, rows' \subseteq rows, told' \in [Peers -> Views], UNCHANGED <<msgids, nextRow, peer, raced, held>>
    PROVE  FeedInv'
<1>1. FeedTypes'
  BY DEF FeedInv, FeedTypes
<1>2. ASSUME NEW a \in Articles \ raced PROVE Quiet(a)'
  <2>1. Quiet(a)
    BY <1>2 DEF FeedInv, FeedQuiet
  <2>2. \A q \in Peers : Has(q, a)' <=> Has(q, a)
    BY DEF Has
  <2>3. Lacks(a) => Lacks(a)'
    BY DEF Lacks
  <2>4. QED
    BY <2>1, <2>2, <2>3 DEF Quiet
<1>3. QED
  BY <1>1, <1>2 DEF FeedInv, FeedQuiet

LEMMA FeedInitial == FeedInit => FeedInv
<1> SUFFICES ASSUME FeedInit PROVE FeedInv
  OBVIOUS
<1>1. rows = {} /\ raced = {} /\ held = {} /\ nextRow = 0 /\ \A p \in Peers : peer[p] = PeerIdle
  BY DEF FeedInit
<1>2. peer \in [Peers -> PeerJobs] /\ \A p \in Peers : peer[p].pc = "cmd"
  BY PeerIdleTyped DEF FeedInit
<1>3. msgids \in [Articles -> 0..MaxRows] /\ nextRow \in 0..MaxRows /\ told \in [Peers -> Views]
  BY FeedAssumption DEF FeedInit, Views
<1>4. FeedTypes
  BY <1>1, <1>2, <1>3 DEF FeedTypes
<1>5. FeedQuiet
  BY <1>1, <1>2 DEF FeedQuiet, Quiet, Has
<1>6. QED
  BY <1>4, <1>5 DEF FeedInv

LEMMA FeedStep == FeedInv /\ [FeedNext]_nvars => FeedInv'
<1> SUFFICES ASSUME FeedInv, [FeedNext]_nvars PROVE FeedInv'
  OBVIOUS
<1>0. /\ peer \in [Peers -> PeerJobs] /\ told \in [Peers -> Views] /\ FeedTypes /\ FeedQuiet
      /\ \A p \in Peers : peer[p].pc \in PeerPcs /\ peer[p].id \in Articles /\ peer[p].by \in {"none", "ihave", "takethis", "post"}
  BY DEF FeedInv, FeedTypes, PeerJobs
<1>1. ASSUME NEW p \in Peers, NEW a \in Articles, NEW by \in {"ihave", "takethis", "post"}, NewsOffer(p, a, by) PROVE FeedInv'
  BY <1>1, FeedOffer
<1>2. ASSUME NEW p \in Peers, NEW a \in Articles, NewsCheck(p, a) PROVE FeedInv'
  <2>1. told' \in [Peers -> Views]
    BY <1>0, <1>2 DEF NewsCheck, Views
  <2>2. QED
    BY <1>2, <2>1, FeedShrinks DEF NewsCheck
<1>3. ASSUME NEW p \in Peers, NEW final, NewsAnswer(p, final), peer[p].pc # "record", UNCHANGED <<rows, msgids, nextRow, raced, held>>
      PROVE  FeedInv'
  <2>1. /\ peer' \in [Peers -> PeerJobs] /\ peer'[p].pc = "cmd" /\ (\A q \in Peers \ {p} : peer'[q] = peer[q])
        /\ told' \in [Peers -> Views]
    BY <1>0, <1>3, AnswerSet
  <2>2. QED
    BY <1>3, <2>1, FeedEnds
<1>4. ASSUME NEW p \in Peers, NewsFind(p) PROVE FeedInv'
  <2>1. CASE FindByMessageId(peer[p].id)
    BY <1>3, <1>4, <2>1 DEF NewsFind
  <2>2. CASE ~FindByMessageId(peer[p].id)
    <3>1. /\ peer[p].pc = "find" /\ UNCHANGED <<rows, msgids, nextRow, told, raced, held>>
          /\ PeerIs(p, [peer[p] EXCEPT !.pc = IF peer[p].by = "ihave" THEN "body" ELSE "insert"])
      BY <1>4, <2>2 DEF NewsFind
    <3>2. peer[p].id \notin raced => Lacks(peer[p].id)
      <4> SUFFICES ASSUME peer[p].id \notin raced PROVE Lacks(peer[p].id)
        OBVIOUS
      <4> DEFINE i == peer[p].id
      <4>1. Quiet(i)
        BY <1>0 DEF FeedQuiet
      <4>2. \A q \in Peers : ~ (Has(q, i) /\ peer[q].pc = "record")
        BY <3>1, <4>1 DEF Quiet, Has
      <4>3. \A r \in rows : r[2] = i => r = <<r[1], r[2]>>
        BY <1>0 DEF FeedTypes
      <4>4. \A r \in rows : r[2] = i => r[1] = msgids[i]
        BY <4>1, <4>2 DEF Quiet
      <4>5. QED
        BY <2>2, <4>3, <4>4 DEF FindByMessageId, Lacks
    <3>3. PICK pc \in {"body", "insert"} : PeerIs(p, [peer[p] EXCEPT !.pc = pc])
      BY <3>1
    <3>4. QED
      BY <3>1, <3>2, <3>3, FeedMoves
  <2>3. QED
    BY <2>1, <2>2
<1>5. ASSUME NEW p \in Peers, NewsBody(p) PROVE FeedInv'
  <2>1. peer[p].pc = "body" /\ UNCHANGED <<rows, msgids, nextRow, raced, held>>
    BY <1>5 DEF NewsBody
  <2>2. CASE NewsAnswer(p, peer[p].by = "takethis")
    BY <1>3, <2>1, <2>2
  <2>3. CASE /\ PeerIs(p, [peer[p] EXCEPT !.pc = IF peer[p].by = "takethis" THEN "find" ELSE "insert"])
             /\ UNCHANGED told
    <3> DEFINE i == peer[p].id
    <3>1. i \notin raced => Quiet(i) /\ Has(p, i)
      BY <1>0, <2>1 DEF FeedQuiet, Has
    <3>2. i \notin raced => peer[p].by \in {"ihave", "takethis"} /\ (peer[p].by = "ihave" => Lacks(i))
      BY <2>1, <3>1 DEF Quiet
    <3>3. CASE peer[p].by = "takethis"
      <4>1. PeerIs(p, [peer[p] EXCEPT !.pc = "find"])
        BY <2>3, <3>3
      <4>2. QED
        BY <2>1, <2>3, <4>1, FeedMoves
    <3>4. CASE peer[p].by # "takethis"
      <4>1. PeerIs(p, [peer[p] EXCEPT !.pc = "insert"])
        BY <2>3, <3>4
      <4>2. QED
        BY <2>1, <2>3, <3>2, <3>4, <4>1, FeedMoves
    <3>5. QED
      BY <3>3, <3>4
  <2>4. QED
    BY <1>5, <2>2, <2>3 DEF NewsBody
<1>6. ASSUME NEW p \in Peers, NewsInsert(p) PROVE FeedInv'
  <2>1. peer[p].pc = "insert" /\ UNCHANGED <<msgids, raced>>
    BY <1>6 DEF NewsInsert
  <2>2. CASE HasGroup(peer[p].id) /\ nextRow < MaxRows /\ nextRow' = nextRow + 1 /\ rows' = rows \cup {<<nextRow + 1, peer[p].id>>}
             /\ held' = held \cup {peer[p].id} /\ UNCHANGED told
             /\ PeerIs(p, [peer[p] EXCEPT !.pc = "record", !.row = nextRow + 1])
    BY <2>1, <2>2, FeedStored DEF HasGroup
  <2>3. CASE \E final \in BOOLEAN : NewsAnswer(p, final) /\ UNCHANGED <<rows, nextRow, held>>
    BY <1>3, <2>1, <2>3
  <2>4. QED
    BY <1>6, <2>2, <2>3 DEF NewsInsert, Final
<1>7. ASSUME NEW p \in Peers, NewsRecord(p) PROVE FeedInv'
  <2>1. /\ peer' \in [Peers -> PeerJobs] /\ peer'[p].pc = "cmd" /\ (\A q \in Peers \ {p} : peer'[q] = peer[q])
        /\ told' \in [Peers -> Views]
    BY <1>0, <1>7, AnswerSet DEF NewsRecord
  <2>2. QED
    BY <1>7, <2>1, FeedEnds DEF NewsRecord
<1>8. ASSUME NEW r \in rows, NewsExpire(r) PROVE FeedInv'
  BY <1>0, <1>8, FeedShrinks DEF NewsExpire
<1>9. CASE UNCHANGED nvars
  BY <1>0, <1>9, FeedShrinks DEF nvars
<1>10. QED
  BY <1>1, <1>2, <1>4, <1>5, <1>6, <1>7, <1>8, <1>9 DEF FeedNext

LEMMA FeedTyped == FeedInv => FeedTypeOK
<1> SUFFICES ASSUME FeedInv PROVE FeedTypeOK
  OBVIOUS
<1>1. FeedTypes
  BY DEF FeedInv
<1>2. \A p \in Peers : peer[p].pc \in PeerPcs
  BY <1>1 DEF FeedTypes, PeerJobs
<1>3. QED
  BY <1>1, <1>2 DEF FeedTypes, FeedTypeOK, PeerPcs, Views

LEMMA HeldOnce == FeedInv => HeldOnceUnlessRaced
<1> SUFFICES ASSUME FeedInv, NEW a \in Articles \ raced PROVE Cardinality({r \in rows : r[2] = a}) <= 1
  BY DEF HeldOnceUnlessRaced
<1> DEFINE here == {r \in rows : r[2] = a}
<1>1. Quiet(a) /\ FeedTypes
  BY DEF FeedInv, FeedQuiet
<1>2. \A r, s \in here : r = s
  <2> SUFFICES ASSUME NEW r \in rows, NEW s \in rows, r[2] = a, s[2] = a PROVE r = s
    OBVIOUS
  <2>1. r[1] = s[1]
    BY <1>1 DEF Quiet
  <2>2. QED
    BY <1>1, <2>1 DEF FeedTypes
<1>3. CASE here = {}
  BY <1>3, FS_EmptySet
<1>4. CASE here # {}
  <2>1. PICK r \in here : TRUE
    BY <1>4
  <2>2. here = {r}
    BY <1>2, <2>1
  <2>3. Cardinality(here) = 1
    BY <2>2, FS_Singleton
  <2>4. QED
    BY <2>3
<1>5. QED
  BY <1>3, <1>4

(* What a step that settles an article for a peer knew. *)
LEMMA SettlingSteps ==
    ASSUME FeedInv, [FeedNext]_nvars, NEW p \in Peers, NEW a \in Articles, told[p][a] = "open", told'[p][a] = "settled"
    PROVE  /\ peer[p].pc \in {"cmd", "find"} => \E r \in rows : r[2] = a
           /\ peer[p].by # "takethis" => a \in held' \/ a \notin Carried
<1>0. /\ peer \in [Peers -> PeerJobs] /\ told \in [Peers -> Views] /\ FeedTypes /\ told # told' /\ told[p][a] # told'[p][a]
      /\ \A r \in rows : r[2] \in held
  BY DEF FeedInv, FeedTypes
<1>1. ASSUME NEW q \in Peers, NEW final, NewsAnswer(q, final) PROVE q = p /\ a = peer[q].id /\ final
  BY <1>0, <1>1, AnswerSet
<1>2. ASSUME NEW i, FindByMessageId(i) PROVE \E r \in rows : r[2] = i
  BY <1>2 DEF FindByMessageId
<1>3. ASSUME NEW q \in Peers, NEW b \in Articles, NewsCheck(q, b)
      PROVE  (\E r \in rows : r[2] = a) /\ held' = held
  <2>1. told' = [told EXCEPT ![q] = [told[q] EXCEPT ![b] = "settled"]] /\ FindByMessageId(b) /\ held' = held
    BY <1>3 DEF NewsCheck
  <2>2. told[q] \in Views
    BY <1>0
  <2>3. q = p /\ b = a
    BY <1>0, <2>1, <2>2 DEF Views
  <2>4. QED
    BY <1>2, <2>1, <2>3
<1>4. ASSUME NEW q \in Peers, NewsFind(q) PROVE (\E r \in rows : r[2] = a) /\ held' = held
  <2>1. FindByMessageId(peer[q].id) /\ NewsAnswer(q, TRUE) /\ held' = held
    BY <1>0, <1>4 DEF NewsFind
  <2>2. QED
    BY <1>1, <1>2, <2>1
<1>5. ASSUME NEW q \in Peers, NewsBody(q) PROVE q = p /\ peer[q].pc = "body" /\ peer[q].by = "takethis"
  <2>1. NewsAnswer(q, peer[q].by = "takethis") /\ peer[q].pc = "body"
    BY <1>0, <1>5 DEF NewsBody
  <2>2. QED
    BY <1>1, <2>1
<1>6. ASSUME NEW q \in Peers, NewsInsert(q) PROVE q = p /\ peer[q].pc = "insert" /\ (peer[q].by = "takethis" \/ a \notin Carried)
  <2> DEFINE final == Final(peer[q], IF HasGroup(peer[q].id) THEN "insert failed" ELSE "not carried")
  <2>1. NewsAnswer(q, final) /\ peer[q].pc = "insert"
    BY <1>0, <1>6 DEF NewsInsert
  <2>2. final => peer[q].by = "takethis" \/ peer[q].id \notin Carried
    BY DEF Final, HasGroup
  <2> HIDE DEF final
  <2>3. q = p /\ a = peer[q].id /\ final
    BY <1>1, <2>1
  <2>4. QED
    BY <2>1, <2>2, <2>3
<1>7. ASSUME NEW q \in Peers, NewsRecord(q) PROVE q = p /\ peer[q].pc = "record" /\ a \in held'
  <2>1. NewsAnswer(q, TRUE) /\ peer[q].pc = "record" /\ held' = held
    BY <1>7 DEF NewsRecord
  <2>2. q = p /\ a = peer[q].id
    BY <1>1, <2>1
  <2>3. QED
    BY <1>0, <2>1, <2>2 DEF FeedTypes
<1>8. QED
  BY <1>0, <1>3, <1>4, <1>5, <1>6, <1>7 DEF FeedNext, NewsOffer, NewsExpire, nvars

(* For any peers and articles and any number of purges: an article that was *)
(* never in two sessions' hands at once is held in one copy, a peer that    *)
(* IHAVE, POST or CHECK tells to stop offering one is told so of an article *)
(* this server has stored or does not carry, and an article is refused as   *)
(* held only while a row can serve it.                                      *)
THEOREM FeedIsHonest == FeedSpec => HistoryIsHonest
<1>1. FeedInv /\ [FeedNext]_nvars =>
          [\A p \in Peers, a \in Articles :
             (told[p][a] = "open" /\ told'[p][a] = "settled" /\ peer[p].by # "takethis") => a \in held' \/ a \notin Carried]_nvars
  BY SettlingSteps
<1>2. FeedInv /\ [FeedNext]_nvars =>
          [\A p \in Peers, a \in Articles :
             (told[p][a] = "open" /\ told'[p][a] = "settled" /\ peer[p].pc \in {"cmd", "find"}) => \E r \in rows : r[2] = a]_nvars
  BY SettlingSteps
<1>3. FeedSpec => []FeedInv
  BY FeedInitial, FeedStep, PTL DEF FeedSpec
<1>4. FeedSpec => []HeldOnceUnlessRaced
  BY <1>3, HeldOnce, PTL
<1>5. FeedSpec => SettledMeansStored
  BY <1>1, <1>3, PTL DEF FeedSpec, SettledMeansStored
<1>6. FeedSpec => RefusedOnlyIfServed
  BY <1>2, <1>3, PTL DEF FeedSpec, RefusedOnlyIfServed
<1>7. QED
  BY <1>4, <1>5, <1>6 DEF HistoryIsHonest

-----------------------------------------------------------------------------
(* The listener *)

AcPcs == {"none", "top", "accept", "got", "insert", "exit", "done"}
SePcs == {"none", "run", "erase", "close", "leave"}
AcThreads == [pc : AcPcs, fds : SUBSET Fds]
SeThreads == [pc : SePcs, fds : SUBSET Fds]
StCalls == [pc : {"idle", "join", "wake", "wait"}, joins : 0..MaxStarts]

CtlTypes ==
    /\ running \in BOOLEAN /\ stop \in BOOLEAN /\ listening \in BOOLEAN
    /\ gen \in 0..MaxStarts /\ handle \in 0..MaxStarts
    /\ acceptor \in [Gens -> AcThreads]
    /\ clientFds \subseteq Fds /\ shut \subseteq Fds
    /\ owner \in [Fds -> {"nobody", "server", "stranger"}]
    /\ active \in Nat /\ active <= Cardinality(Threads)
    /\ thread \in [Threads -> SeThreads]
    /\ call \in [Callers -> StCalls]

Idle == \A c \in Callers : call[c].pc = "idle"
NoAcceptor == \A g \in Gens : acceptor[g].pc \in {"none", "done"}

(* Only the latest accept thread can be alive, and what the caller is doing *)
(* says how far it and the listening socket can be.                         *)
CtlPhase ==
    /\ aborted = FALSE
    /\ \A g \in Gens : /\ g < gen => acceptor[g].pc = "done"
                       /\ g = gen => acceptor[g].pc # "none"
                       /\ g > gen => acceptor[g].pc = "none"
    /\ handle # 0 => /\ handle = gen /\ stop = FALSE /\ listening = TRUE /\ Idle
                     /\ acceptor[gen].pc \in {"top", "accept", "got", "insert"}
    /\ Idle /\ running = TRUE => handle # 0
    /\ Idle /\ running = FALSE => NoAcceptor
    /\ \A c \in Callers : /\ call[c].pc = "join" => call[c].joins = gen /\ gen # 0 /\ stop = TRUE /\ listening = FALSE
                          /\ call[c].pc \in {"wake", "wait"} => NoAcceptor

(* Every descriptor a thread holds is the server's own and in one place,    *)
(* and client_fds_ lists those a running session holds until it takes its   *)
(* own out again.                                                           *)
FdsApart ==
    /\ \A t \in Threads : \A f \in thread[t].fds : owner[f] = "server"
    /\ \A g \in Gens : \A f \in acceptor[g].fds : owner[f] = "server"
    /\ \A f \in clientFds : owner[f] = "server"
    /\ \A t, u \in Threads : t # u => \A f \in thread[t].fds : f \notin thread[u].fds
    /\ \A t \in Threads, g \in Gens : \A f \in acceptor[g].fds : f \notin thread[t].fds
    /\ \A g \in Gens : \A f \in acceptor[g].fds : f \notin clientFds
    /\ \A g \in Gens : acceptor[g].pc \notin {"got", "insert"} => acceptor[g].fds = {}
    /\ \A t \in Threads : /\ thread[t].pc = "run" => \A f \in thread[t].fds : f \in clientFds
                          /\ thread[t].pc = "close" => \A f \in thread[t].fds : f \notin clientFds
                          /\ thread[t].pc \in {"leave", "none"} => thread[t].fds = {}

Sitting == {t \in Threads : thread[t].pc # "none"}
Seating == \E g \in Gens : acceptor[g].pc = "insert"

(* active_conns_ counts the sessions there are and the one that is about to *)
(* be.                                                                      *)
CtlCount ==
    /\ active = Cardinality(Sitting) + (IF Seating THEN 1 ELSE 0)
    /\ Cap > 0 => active <= Cap

CtlInv == CtlTypes /\ CtlPhase /\ FdsApart /\ CtlCount /\ StopWakesEverySession

OneCaller == \A c, d \in Callers : c = d

LEMMA CtlInitial == ControllerInit => CtlInv
<1> SUFFICES ASSUME ControllerInit PROVE CtlInv
  OBVIOUS
<1>1. running = FALSE /\ stop = FALSE /\ listening = FALSE /\ aborted = FALSE /\ gen = 0 /\ handle = 0 /\ active = 0
      /\ clientFds = {} /\ shut = {}
  BY DEF ControllerInit
<1>2. /\ acceptor \in [Gens -> AcThreads] /\ \A g \in Gens : acceptor[g].pc = "none" /\ acceptor[g].fds = {}
      /\ thread \in [Threads -> SeThreads] /\ \A t \in Threads : thread[t].pc = "none" /\ thread[t].fds = {}
  BY DEF ControllerInit, NoThread, AcThreads, SeThreads, AcPcs, SePcs
<1>3. call \in [Callers -> StCalls] /\ \A c \in Callers : call[c].pc = "idle"
  BY ControllerAssumption DEF ControllerInit, StCalls
<1>4. owner \in [Fds -> {"nobody", "server", "stranger"}]
  BY DEF ControllerInit
<1>5. Cardinality(Threads) \in Nat /\ Sitting = {} /\ Cardinality({}) = 0
  BY <1>2, FS_CardinalityType, FS_EmptySet, ControllerAssumption DEF Sitting
<1>6. running \in BOOLEAN /\ stop \in BOOLEAN /\ listening \in BOOLEAN
  BY <1>1, Zenon
<1>7. CtlTypes
  BY <1>1, <1>2, <1>3, <1>4, <1>5, <1>6, ControllerAssumption DEF CtlTypes
<1>8. CtlPhase
  BY <1>1, <1>2, <1>3 DEF CtlPhase, NoAcceptor, Gens
<1>9. FdsApart
  BY <1>1, <1>2 DEF FdsApart
<1>10. CtlCount
  BY <1>1, <1>2, <1>5, ControllerAssumption DEF CtlCount, Seating
<1>11. QED
  BY <1>3, <1>7, <1>8, <1>9, <1>10 DEF CtlInv, StopWakesEverySession

(* What moving one accept thread, one session or one call changes. *)
LEMMA AccSet ==
    ASSUME acceptor \in [Gens -> AcThreads], NEW g \in Gens, NEW k \in AcThreads, acceptor' = [acceptor EXCEPT ![g] = k]
    PROVE  acceptor' \in [Gens -> AcThreads] /\ acceptor'[g] = k /\ \A h \in Gens \ {g} : acceptor'[h] = acceptor[h]
OBVIOUS

LEMMA AccPc ==
    ASSUME acceptor \in [Gens -> AcThreads], NEW g \in Gens, NEW pc \in AcPcs, acceptor' = [acceptor EXCEPT ![g].pc = pc]
    PROVE  /\ acceptor' \in [Gens -> AcThreads] /\ acceptor'[g].pc = pc /\ acceptor'[g].fds = acceptor[g].fds
           /\ \A h \in Gens \ {g} : acceptor'[h] = acceptor[h]
BY DEF AcThreads

LEMMA SesSet ==
    ASSUME thread \in [Threads -> SeThreads], NEW t \in Threads, NEW k \in SeThreads, thread' = [thread EXCEPT ![t] = k]
    PROVE  thread' \in [Threads -> SeThreads] /\ thread'[t] = k /\ \A u \in Threads \ {t} : thread'[u] = thread[u]
OBVIOUS

LEMMA SesPc ==
    ASSUME thread \in [Threads -> SeThreads], NEW t \in Threads, NEW pc \in SePcs, thread' = [thread EXCEPT ![t].pc = pc]
    PROVE  /\ thread' \in [Threads -> SeThreads] /\ thread'[t].pc = pc /\ thread'[t].fds = thread[t].fds
           /\ \A u \in Threads \ {t} : thread'[u] = thread[u]
BY DEF SeThreads

LEMMA CallSet ==
    ASSUME call \in [Callers -> StCalls], NEW c \in Callers, NEW k \in StCalls, call' = [call EXCEPT ![c] = k]
    PROVE  call' \in [Callers -> StCalls] /\ call'[c] = k /\ \A d \in Callers \ {c} : call'[d] = call[d]
OBVIOUS

LEMMA CallPc ==
    ASSUME call \in [Callers -> StCalls], NEW c \in Callers, NEW pc \in {"idle", "join", "wake", "wait"}, call' = [call EXCEPT ![c].pc = pc]
    PROVE  /\ call' \in [Callers -> StCalls] /\ call'[c].pc = pc /\ call'[c].joins = call[c].joins
           /\ \A d \in Callers \ {c} : call'[d] = call[d]
BY DEF StCalls

(* The sets the count counts. *)
LEMMA SittingCounted == IsFiniteSet(Sitting) /\ Cardinality(Sitting) \in Nat
BY ControllerAssumption, FS_Subset, FS_CardinalityType DEF Sitting

LEMMA SittingSame ==
    ASSUME \A t \in Threads : thread'[t].pc # "none" <=> thread[t].pc # "none", \A g \in Gens : acceptor'[g].pc = "insert" <=> acceptor[g].pc = "insert",
           active' = active, CtlCount
    PROVE  CtlCount'
<1>1. Sitting' = Sitting /\ (Seating' <=> Seating)
  BY DEF Sitting, Seating
<1>2. QED
  BY <1>1 DEF CtlCount

(* One lemma for each action of the listener. *)
LEMMA CtlStart ==
    ASSUME OneCaller, CtlInv, NEW c \in Callers, Start(c) PROVE CtlInv'
<1>1. /\ CtlTypes /\ CtlPhase /\ FdsApart /\ CtlCount /\ StopWakesEverySession /\ acceptor \in [Gens -> AcThreads]
  BY DEF CtlInv, CtlTypes
<1>2. Idle /\ NoAcceptor /\ handle = 0 /\ running = FALSE
  <2>1. Idle /\ running = FALSE
    BY <1>1 DEF Start, OneCaller, Idle, CtlTypes
  <2>2. NoAcceptor
    BY <1>1, <2>1 DEF CtlPhase
  <2>3. handle # 0 => handle \in Gens
    BY <1>1, ControllerAssumption DEF CtlTypes, Gens
  <2>4. handle = 0
    BY <1>1, <2>2, <2>3 DEF CtlPhase, NoAcceptor
  <2>5. QED
    BY <2>1, <2>2, <2>4
<1> DEFINE n == gen + 1
           k == [pc |-> "top", fds |-> {}]
<1>3. n \in Gens /\ gen \in Nat /\ n \in 0..MaxStarts /\ gen' = n /\ handle' = n
  BY <1>1, ControllerAssumption DEF Start, CtlTypes, Gens
<1>4. k \in AcThreads /\ k.pc = "top" /\ k.fds = {}
  BY DEF AcThreads, AcPcs
<1>5. acceptor' = [acceptor EXCEPT ![n] = k] /\ running' = TRUE /\ stop' = FALSE /\ listening' = TRUE /\ aborted' = FALSE
      /\ UNCHANGED <<clientFds, owner, shut, active, thread, call>>
  BY <1>2 DEF Start
<1> HIDE DEF n, k
<1>6. acceptor' \in [Gens -> AcThreads] /\ acceptor'[n] = k /\ \A h \in Gens \ {n} : acceptor'[h] = acceptor[h]
  BY <1>1, <1>3, <1>4, <1>5, AccSet
<1>7. running' \in BOOLEAN /\ stop' \in BOOLEAN /\ listening' \in BOOLEAN
  BY <1>5, Zenon
<1>8. CtlTypes'
  BY <1>1, <1>3, <1>5, <1>6, <1>7 DEF CtlTypes
<1>9. CtlPhase'
  <2>1. \A g \in Gens : (g < n => acceptor'[g].pc = "done") /\ (g = n => acceptor'[g].pc = "top") /\ (g > n => acceptor'[g].pc = "none")
    <3> SUFFICES ASSUME NEW g \in Gens
                 PROVE  (g < n => acceptor'[g].pc = "done") /\ (g = n => acceptor'[g].pc = "top") /\ (g > n => acceptor'[g].pc = "none")
      OBVIOUS
    <3>1. g = gen => acceptor[g].pc = "done"
      <4>1. g = gen => handle = 0 /\ acceptor[g].pc \in {"none", "done"}
        BY <1>2 DEF NoAcceptor
      <4>2. QED
        BY <1>1, <4>1 DEF CtlPhase
    <3>2. g \in Nat /\ (g < n => g < gen \/ g = gen) /\ (g > n => g > gen)
      BY <1>3 DEF n, Gens
    <3>3. QED
      BY <1>1, <1>3, <1>4, <1>6, <3>1, <3>2 DEF CtlPhase
  <2>2. Idle' /\ \A d \in Callers : call'[d].pc = "idle"
    BY <1>2, <1>5 DEF Idle
  <2>3. acceptor'[gen'].pc = "top" /\ handle' = gen' /\ aborted' = FALSE /\ running' = TRUE /\ stop' = FALSE /\ listening' = TRUE
    BY <1>3, <1>4, <1>5, <1>6
  <2>4. \A g \in Gens : /\ g < gen' => acceptor'[g].pc = "done"
                        /\ g = gen' => acceptor'[g].pc # "none"
                        /\ g > gen' => acceptor'[g].pc = "none"
    BY <1>3, <2>1
  <2>5. running' # FALSE
    BY <2>3, Zenon
  <2>6. handle' # 0 => /\ handle' = gen' /\ stop' = FALSE /\ listening' = TRUE /\ Idle'
                       /\ acceptor'[gen'].pc \in {"top", "accept", "got", "insert"}
    BY <2>2, <2>3
  <2>7. Idle' /\ running' = TRUE => handle' # 0
    BY <1>3, <2>3 DEF Gens
  <2>8. \A d \in Callers : call'[d].pc # "join" /\ call'[d].pc \notin {"wake", "wait"}
    BY <2>2
  <2>9. QED
    BY <2>3, <2>4, <2>5, <2>6, <2>7, <2>8 DEF CtlPhase
<1>10. FdsApart'
  BY <1>1, <1>4, <1>5, <1>6 DEF FdsApart
<1>11. CtlCount'
  <2>1. acceptor[n].pc # "insert" /\ acceptor'[n].pc # "insert"
    BY <1>2, <1>3, <1>4, <1>6 DEF NoAcceptor
  <2>2. \A g \in Gens : acceptor'[g].pc = "insert" <=> acceptor[g].pc = "insert"
    BY <1>6, <2>1
  <2>3. QED
    BY <1>1, <1>5, <2>2, SittingSame
<1>12. StopWakesEverySession'
  BY <1>1, <1>5 DEF StopWakesEverySession
<1>13. QED
  BY <1>8, <1>9, <1>10, <1>11, <1>12 DEF CtlInv

(* A step of an accept thread that is alive, seen from Start and Stop. *)
LEMMA AccMoves ==
    ASSUME CtlInv, NEW g \in Gens, acceptor[g].pc \notin {"none", "done"}, \A h \in Gens \ {g} : acceptor'[h] = acceptor[h],
           acceptor'[g].pc # "none", UNCHANGED <<stop, gen, listening, handle, call, aborted>>,
           handle # 0 => running' = running /\ acceptor'[g].pc \in {"top", "accept", "got", "insert"}
    PROVE  g = gen /\ CtlPhase' /\ StopWakesEverySession'
<1>1. CtlPhase /\ running \in BOOLEAN /\ ~NoAcceptor
  BY DEF CtlInv, CtlTypes, NoAcceptor
<1>2. g = gen
  <2>1. g \in Nat /\ gen \in Nat
    BY DEF CtlInv, CtlTypes, Gens
  <2>2. QED
    BY <1>1, <2>1 DEF CtlPhase
<1>3. \A c \in Callers : call'[c].pc \notin {"wake", "wait"}
  BY <1>1 DEF CtlPhase
<1>4. CASE handle = 0
  <2>1. ~Idle
    BY <1>1, <1>4 DEF CtlPhase
  <2>2. ~Idle'
    BY <2>1 DEF Idle
  <2>3. \A h \in Gens : /\ h < gen' => acceptor'[h].pc = "done"
                        /\ h = gen' => acceptor'[h].pc # "none"
                        /\ h > gen' => acceptor'[h].pc = "none"
    BY <1>1, <1>2 DEF CtlPhase, CtlInv, CtlTypes, Gens
  <2>4. CtlPhase'
    BY <1>1, <1>3, <1>4, <2>2, <2>3 DEF CtlPhase
  <2>5. QED
    BY <1>2, <1>3, <2>4 DEF StopWakesEverySession
<1>5. CASE handle # 0
  <2>1. Idle /\ Idle' /\ handle = gen /\ stop = FALSE /\ listening = TRUE
    BY <1>1, <1>5 DEF CtlPhase, Idle
  <2>2. running # FALSE /\ running' # FALSE
    BY <1>1, <1>5, <2>1 DEF CtlPhase
  <2>3. \A h \in Gens : /\ h < gen' => acceptor'[h].pc = "done"
                        /\ h = gen' => acceptor'[h].pc # "none"
                        /\ h > gen' => acceptor'[h].pc = "none"
    BY <1>1, <1>2 DEF CtlPhase, CtlInv, CtlTypes, Gens
  <2>4. \A c \in Callers : call'[c].pc = "idle"
    BY <2>1 DEF Idle
  <2>5. CtlPhase'
    BY <1>1, <1>2, <1>5, <2>1, <2>2, <2>3, <2>4 DEF CtlPhase
  <2>6. QED
    BY <1>2, <1>3, <2>5 DEF StopWakesEverySession
<1>6. QED
  BY <1>4, <1>5

(* A step of an accept thread that keeps its descriptors. *)
LEMMA AccKeeps ==
    ASSUME FdsApart, NEW g \in Gens, \A h \in Gens \ {g} : acceptor'[h] = acceptor[h], acceptor'[g].fds = acceptor[g].fds,
           acceptor'[g].pc \notin {"got", "insert"} => acceptor[g].fds = {},
           UNCHANGED <<owner, clientFds, thread>>
    PROVE  FdsApart'
<1>1. \A h \in Gens : acceptor'[h].fds = acceptor[h].fds
  OBVIOUS
<1>2. \A h \in Gens : acceptor'[h].pc \notin {"got", "insert"} => acceptor'[h].fds = {}
  BY DEF FdsApart
<1>3. QED
  BY <1>1, <1>2 DEF FdsApart

LEMMA CtlTop ==
    ASSUME CtlInv, NEW g \in Gens, AcceptTop(g) \/ AcceptFails(g) PROVE CtlInv'
<1>1. /\ CtlTypes /\ CtlPhase /\ FdsApart /\ CtlCount /\ acceptor \in [Gens -> AcThreads]
      /\ UNCHANGED <<running, stop, gen, listening, handle, clientFds, owner, shut, active, thread, call, aborted>>
  BY DEF CtlInv, CtlTypes, AcceptTop, AcceptFails
<1>2. PICK pc \in {"top", "accept", "exit"} : /\ acceptor' = [acceptor EXCEPT ![g].pc = pc] /\ (pc = "exit" => stop # FALSE)
                                              /\ acceptor[g].pc \in {"top", "accept"}
  BY DEF AcceptTop, AcceptFails
<1>3. pc \in AcPcs
  BY DEF AcPcs
<1>4. /\ acceptor' \in [Gens -> AcThreads] /\ acceptor'[g].pc = pc /\ acceptor'[g].fds = acceptor[g].fds
      /\ \A h \in Gens \ {g} : acceptor'[h] = acceptor[h]
  BY <1>1, <1>2, <1>3, AccPc
<1>5. handle # 0 => pc \in {"top", "accept", "got", "insert"}
  BY <1>1, <1>2 DEF CtlPhase
<1>6. CtlPhase' /\ StopWakesEverySession'
  BY <1>1, <1>2, <1>4, <1>5, AccMoves
<1>7. FdsApart'
  <2>1. acceptor[g].fds = {}
    BY <1>1, <1>2 DEF FdsApart
  <2>2. QED
    BY <1>1, <1>4, <2>1, AccKeeps
<1>8. CtlCount'
  <2>1. \A h \in Gens : acceptor'[h].pc = "insert" <=> acceptor[h].pc = "insert"
    BY <1>2, <1>4
  <2>2. QED
    BY <1>1, <2>1, SittingSame
<1>9. CtlTypes'
  BY <1>1, <1>4 DEF CtlTypes
<1>10. QED
  BY <1>6, <1>7, <1>8, <1>9 DEF CtlInv

LEMMA CtlExit ==
    ASSUME CtlInv, NEW g \in Gens, AcceptExit(g) PROVE CtlInv'
<1>1. /\ CtlTypes /\ CtlPhase /\ FdsApart /\ CtlCount /\ acceptor \in [Gens -> AcThreads] /\ "done" \in AcPcs
      /\ UNCHANGED <<stop, gen, listening, handle, clientFds, owner, shut, active, thread, call, aborted>>
      /\ acceptor' = [acceptor EXCEPT ![g].pc = "done"] /\ acceptor[g].pc = "exit"
  BY DEF CtlInv, CtlTypes, AcceptExit, AcPcs
<1>2. running' \in BOOLEAN
  BY Zenon DEF AcceptExit
<1>3. /\ acceptor' \in [Gens -> AcThreads] /\ acceptor'[g].pc = "done" /\ acceptor'[g].fds = acceptor[g].fds
      /\ \A h \in Gens \ {g} : acceptor'[h] = acceptor[h]
  BY <1>1, AccPc
<1>4. handle = 0
  <2>1. handle # 0 => gen = g
    <3>1. g \in Nat /\ gen \in Nat
      BY <1>1 DEF CtlTypes, Gens
    <3>2. QED
      BY <1>1, <3>1 DEF CtlPhase
  <2>2. QED
    BY <1>1, <2>1 DEF CtlPhase
<1>5. CtlPhase' /\ StopWakesEverySession'
  BY <1>1, <1>3, <1>4, AccMoves
<1>6. FdsApart'
  <2>1. acceptor[g].fds = {}
    BY <1>1 DEF FdsApart
  <2>2. QED
    BY <1>1, <1>3, <2>1, AccKeeps
<1>7. CtlCount'
  <2>1. \A h \in Gens : acceptor'[h].pc = "insert" <=> acceptor[h].pc = "insert"
    BY <1>1, <1>3
  <2>2. QED
    BY <1>1, <2>1, SittingSame
<1>8. CtlTypes'
  BY <1>1, <1>2, <1>3 DEF CtlTypes
<1>9. QED
  BY <1>5, <1>6, <1>7, <1>8 DEF CtlInv

LEMMA CtlPeer ==
    ASSUME CtlInv, NEW g \in Gens, NEW f \in Fds, AcceptPeer(g, f) PROVE CtlInv'
<1> DEFINE k == [pc |-> "got", fds |-> {f}]
<1>1. /\ CtlTypes /\ CtlPhase /\ FdsApart /\ CtlCount /\ acceptor \in [Gens -> AcThreads] /\ owner \in [Fds -> {"nobody", "server", "stranger"}]
      /\ UNCHANGED <<running, stop, gen, listening, handle, clientFds, active, thread, call, aborted>>
      /\ acceptor' = [acceptor EXCEPT ![g] = k] /\ acceptor[g].pc = "accept"
      /\ owner[f] = "nobody" /\ owner' = [owner EXCEPT ![f] = "server"] /\ shut' = shut \ {f}
  BY DEF CtlInv, CtlTypes, AcceptPeer
<1>2. k \in AcThreads /\ k.pc = "got" /\ k.fds = {f}
  BY DEF AcThreads, AcPcs
<1> HIDE DEF k
<1>3. acceptor' \in [Gens -> AcThreads] /\ acceptor'[g] = k /\ \A h \in Gens \ {g} : acceptor'[h] = acceptor[h]
  BY <1>1, <1>2, AccSet
<1>4. owner' \in [Fds -> {"nobody", "server", "stranger"}] /\ owner'[f] = "server" /\ \A e \in Fds \ {f} : owner'[e] = owner[e]
  BY <1>1
<1>5. CtlPhase' /\ StopWakesEverySession'
  BY <1>1, <1>2, <1>3, AccMoves
<1>6. \A e \in Fds : owner[e] = "server" => e # f /\ owner'[e] = "server"
  BY <1>1, <1>4
<1>7. FdsApart'
  <2>1. /\ clientFds \subseteq Fds /\ (\A t \in Threads : thread[t].fds \subseteq Fds) /\ (\A h \in Gens : acceptor[h].fds \subseteq Fds)
    BY <1>1 DEF CtlTypes, AcThreads, SeThreads
  <2>2. /\ \A t \in Threads : \A e \in thread[t].fds : e # f /\ owner'[e] = "server"
        /\ \A h \in Gens : \A e \in acceptor[h].fds : e # f /\ owner'[e] = "server"
        /\ \A e \in clientFds : e # f /\ owner'[e] = "server"
    BY <1>1, <1>6, <2>1 DEF FdsApart
  <2>3. \A h \in Gens : (acceptor'[h].fds = acceptor[h].fds /\ acceptor'[h].pc = acceptor[h].pc) \/ (h = g /\ acceptor'[h].fds = {f} /\ acceptor'[h].pc = "got")
    BY <1>2, <1>3
  <2>4. \A h \in Gens : \A e \in acceptor'[h].fds : /\ owner'[e] = "server" /\ e \notin clientFds
                                                    /\ \A t \in Threads : e \notin thread[t].fds
    BY <1>1, <1>4, <2>2, <2>3 DEF FdsApart
  <2>5. \A h \in Gens : acceptor'[h].pc \notin {"got", "insert"} => acceptor'[h].fds = {}
    BY <1>1, <2>3 DEF FdsApart
  <2>6. QED
    BY <1>1, <2>2, <2>4, <2>5 DEF FdsApart
<1>8. CtlCount'
  <2>1. \A h \in Gens : acceptor'[h].pc = "insert" <=> acceptor[h].pc = "insert"
    BY <1>1, <1>2, <1>3
  <2>2. QED
    BY <1>1, <2>1, SittingSame
<1>9. CtlTypes'
  BY <1>1, <1>3, <1>4 DEF CtlTypes
<1>10. QED
  BY <1>5, <1>7, <1>8, <1>9 DEF CtlInv

LEMMA CtlDrop ==
    ASSUME CtlInv, NEW g \in Gens, AcceptDrop(g) PROVE CtlInv'
<1> DEFINE k == [pc |-> "top", fds |-> {}]
<1>1. /\ CtlTypes /\ CtlPhase /\ FdsApart /\ CtlCount /\ acceptor \in [Gens -> AcThreads] /\ owner \in [Fds -> {"nobody", "server", "stranger"}]
      /\ UNCHANGED <<running, stop, gen, listening, handle, clientFds, shut, active, thread, call, aborted>>
      /\ acceptor' = [acceptor EXCEPT ![g] = k] /\ acceptor[g].pc = "got"
      /\ owner' = [f \in Fds |-> IF f \in acceptor[g].fds THEN "nobody" ELSE owner[f]]
  BY DEF CtlInv, CtlTypes, AcceptDrop
<1>2. k \in AcThreads /\ k.pc = "top" /\ k.fds = {}
  BY DEF AcThreads, AcPcs
<1> HIDE DEF k
<1>3. acceptor' \in [Gens -> AcThreads] /\ acceptor'[g] = k /\ \A h \in Gens \ {g} : acceptor'[h] = acceptor[h]
  BY <1>1, <1>2, AccSet
<1>4. owner' \in [Fds -> {"nobody", "server", "stranger"}] /\ \A e \in Fds : e \notin acceptor[g].fds => owner'[e] = owner[e]
  BY <1>1
<1>5. g = gen /\ CtlPhase' /\ StopWakesEverySession'
  BY <1>1, <1>2, <1>3, AccMoves
<1>6. \A h \in Gens \ {g} : acceptor[h].pc \in {"none", "done"}
  <2>1. gen \in Nat
    BY <1>1 DEF CtlTypes
  <2>2. QED
    BY <1>1, <1>5, <2>1 DEF CtlPhase, Gens
<1>7. FdsApart'
  <2>1. /\ clientFds \subseteq Fds /\ (\A t \in Threads : thread[t].fds \subseteq Fds)
    BY <1>1 DEF CtlTypes, SeThreads
  <2>2. \A h \in Gens : acceptor'[h].fds = {}
    BY <1>1, <1>2, <1>3, <1>6 DEF FdsApart
  <2>3. /\ \A t \in Threads : \A e \in thread[t].fds : owner'[e] = "server"
        /\ \A e \in clientFds : owner'[e] = "server"
    BY <1>1, <1>4, <2>1 DEF FdsApart
  <2>4. QED
    BY <1>1, <2>2, <2>3 DEF FdsApart
<1>8. CtlCount'
  <2>1. \A h \in Gens : acceptor'[h].pc = "insert" <=> acceptor[h].pc = "insert"
    BY <1>1, <1>2, <1>3
  <2>2. QED
    BY <1>1, <2>1, SittingSame
<1>9. CtlTypes'
  BY <1>1, <1>3, <1>4 DEF CtlTypes
<1>10. QED
  BY <1>5, <1>7, <1>8, <1>9 DEF CtlInv

LEMMA CtlCounts ==
    ASSUME CtlInv, NEW g \in Gens, AcceptCount(g) PROVE CtlInv'
<1>1. /\ CtlTypes /\ CtlPhase /\ FdsApart /\ CtlCount /\ acceptor \in [Gens -> AcThreads] /\ "insert" \in AcPcs
      /\ UNCHANGED <<running, stop, gen, listening, handle, clientFds, owner, shut, thread, call, aborted>>
      /\ acceptor' = [acceptor EXCEPT ![g].pc = "insert"] /\ acceptor[g].pc = "got"
      /\ active' = active + 1 /\ active < Cardinality(Threads) /\ ~OverCap
  BY DEF CtlInv, CtlTypes, AcceptCount, AcPcs
<1>2. /\ acceptor' \in [Gens -> AcThreads] /\ acceptor'[g].pc = "insert" /\ acceptor'[g].fds = acceptor[g].fds
      /\ \A h \in Gens \ {g} : acceptor'[h] = acceptor[h]
  BY <1>1, AccPc
<1>3. g = gen /\ CtlPhase' /\ StopWakesEverySession'
  BY <1>1, <1>2, AccMoves
<1>4. \A h \in Gens \ {g} : acceptor[h].pc \in {"none", "done"}
  <2>1. gen \in Nat
    BY <1>1 DEF CtlTypes
  <2>2. QED
    BY <1>1, <1>3, <2>1 DEF CtlPhase, Gens
<1>5. FdsApart'
  BY <1>1, <1>2, AccKeeps
<1>6. CtlCount'
  <2>1. ~Seating /\ Seating' /\ Sitting' = Sitting
    BY <1>1, <1>2, <1>4 DEF Seating, Sitting
  <2>2. active = Cardinality(Sitting) /\ Cardinality(Sitting) \in Nat /\ active' = Cardinality(Sitting') + 1
    BY <1>1, <2>1, SittingCounted DEF CtlCount
  <2>3. Cap > 0 => active' <= Cap
    BY <1>1, <2>2, ControllerAssumption DEF OverCap
  <2>4. QED
    BY <2>1, <2>2, <2>3 DEF CtlCount
<1>7. CtlTypes'
  <2>1. active' \in Nat /\ active' <= Cardinality(Threads)
    BY <1>1, FS_CardinalityType, ControllerAssumption DEF CtlTypes
  <2>2. QED
    BY <1>1, <1>2, <2>1 DEF CtlTypes
<1>8. QED
  BY <1>3, <1>5, <1>6, <1>7 DEF CtlInv

LEMMA CtlSpawn ==
    ASSUME CtlInv, NEW g \in Gens, NEW t \in Threads, AcceptSpawn(g, t) PROVE CtlInv'
<1> DEFINE k == [pc |-> "top", fds |-> {}]
           j == [pc |-> "run", fds |-> acceptor[g].fds]
<1>1. /\ CtlTypes /\ CtlPhase /\ FdsApart /\ CtlCount /\ acceptor \in [Gens -> AcThreads] /\ thread \in [Threads -> SeThreads]
      /\ UNCHANGED <<running, stop, gen, listening, handle, owner, shut, active, call, aborted>>
      /\ acceptor' = [acceptor EXCEPT ![g] = k] /\ acceptor[g].pc = "insert"
      /\ thread' = [thread EXCEPT ![t] = j] /\ thread[t].pc = "none" /\ clientFds' = clientFds \cup acceptor[g].fds
  BY DEF CtlInv, CtlTypes, AcceptSpawn
<1>2. k \in AcThreads /\ k.pc = "top" /\ k.fds = {} /\ acceptor[g].fds \subseteq Fds
  BY <1>1 DEF AcThreads, AcPcs
<1>3. j \in SeThreads /\ j.pc = "run" /\ j.fds = acceptor[g].fds
  BY <1>2 DEF SeThreads, SePcs
<1> HIDE DEF k, j
<1>4. acceptor' \in [Gens -> AcThreads] /\ acceptor'[g] = k /\ \A h \in Gens \ {g} : acceptor'[h] = acceptor[h]
  BY <1>1, <1>2, AccSet
<1>5. thread' \in [Threads -> SeThreads] /\ thread'[t] = j /\ \A u \in Threads \ {t} : thread'[u] = thread[u]
  BY <1>1, <1>3, SesSet
<1>6. g = gen /\ CtlPhase'
  BY <1>1, <1>2, <1>4, AccMoves
<1>7. StopWakesEverySession'
  BY <1>1, <1>2, <1>4, <1>5 DEF StopWakesEverySession, CtlPhase, NoAcceptor
<1>8. \A h \in Gens \ {g} : acceptor[h].pc \in {"none", "done"}
  <2>1. gen \in Nat
    BY <1>1 DEF CtlTypes
  <2>2. QED
    BY <1>1, <1>6, <2>1 DEF CtlPhase, Gens
<1>9. FdsApart'
  <2>1. \A h \in Gens : acceptor'[h].fds = {}
    BY <1>1, <1>2, <1>4, <1>8 DEF FdsApart
  <2>2. \A u \in Threads : (u = t /\ thread'[u].pc = "run" /\ thread'[u].fds = acceptor[g].fds) \/ (u # t /\ thread'[u] = thread[u])
    BY <1>3, <1>5
  <2>3. \A e \in acceptor[g].fds : /\ owner'[e] = "server" /\ e \in clientFds' /\ e \notin clientFds
                                   /\ \A u \in Threads : e \notin thread[u].fds
    BY <1>1 DEF FdsApart
  <2>4. \A u, v \in Threads : u # v => \A e \in thread'[u].fds : e \notin thread'[v].fds
    BY <1>1, <2>2, <2>3 DEF FdsApart
  <2>5. \A u \in Threads : /\ \A e \in thread'[u].fds : owner'[e] = "server"
                           /\ thread'[u].pc = "run" => \A e \in thread'[u].fds : e \in clientFds'
                           /\ thread'[u].pc = "close" => \A e \in thread'[u].fds : e \notin clientFds'
                           /\ thread'[u].pc \in {"leave", "none"} => thread'[u].fds = {}
    BY <1>1, <2>2, <2>3 DEF FdsApart
  <2>6. \A e \in clientFds' : owner'[e] = "server"
    BY <1>1, <2>3 DEF FdsApart
  <2>7. QED
    BY <2>1, <2>4, <2>5, <2>6 DEF FdsApart
<1>10. CtlCount'
  <2>1. Seating /\ ~Seating'
    BY <1>1, <1>2, <1>4, <1>8 DEF Seating
  <2>2. Sitting' = Sitting \cup {t} /\ t \notin Sitting
    BY <1>1, <1>3, <1>5 DEF Sitting
  <2>3. Cardinality(Sitting') = Cardinality(Sitting) + 1
    BY <2>2, SittingCounted, FS_AddElement
  <2>4. active = Cardinality(Sitting) + 1 /\ active' = active
    BY <1>1, <2>1 DEF CtlCount
  <2>5. QED
    BY <1>1, <2>1, <2>3, <2>4, SittingCounted DEF CtlCount
<1>11. CtlTypes'
  BY <1>1, <1>2, <1>4, <1>5 DEF CtlTypes
<1>12. QED
  BY <1>6, <1>7, <1>9, <1>10, <1>11 DEF CtlInv

(* A step that Start, Stop and the accept threads do not see. *)
LEMMA PhaseSame == CtlPhase /\ UNCHANGED <<running, stop, gen, listening, handle, acceptor, call, aborted>> => CtlPhase'
BY DEF CtlPhase, Idle, NoAcceptor

LEMMA CtlReturns ==
    ASSUME CtlInv, NEW t \in Threads, HandlerReturns(t) PROVE CtlInv'
<1>1. /\ CtlTypes /\ CtlPhase /\ FdsApart /\ CtlCount /\ StopWakesEverySession /\ thread \in [Threads -> SeThreads] /\ "erase" \in SePcs
      /\ UNCHANGED <<running, stop, gen, listening, handle, acceptor, clientFds, owner, shut, active, call, aborted>>
      /\ thread' = [thread EXCEPT ![t].pc = "erase"] /\ thread[t].pc = "run"
  BY DEF CtlInv, CtlTypes, HandlerReturns, SePcs
<1>2. /\ thread' \in [Threads -> SeThreads] /\ thread'[t].pc = "erase" /\ thread'[t].fds = thread[t].fds
      /\ \A u \in Threads \ {t} : thread'[u] = thread[u]
  BY <1>1, SesPc
<1>3. CtlPhase'
  BY <1>1, PhaseSame
<1>4. StopWakesEverySession'
  BY <1>1, <1>2 DEF StopWakesEverySession
<1>5. FdsApart'
  <2>1. \A u \in Threads : thread'[u].fds = thread[u].fds
    BY <1>2
  <2>2. \A u \in Threads : thread'[u].pc = thread[u].pc \/ thread'[u].pc = "erase"
    BY <1>2
  <2>3. QED
    BY <1>1, <2>1, <2>2 DEF FdsApart
<1>6. CtlCount'
  BY <1>1, <1>2, SittingSame
<1>7. CtlTypes'
  BY <1>1, <1>2 DEF CtlTypes
<1>8. QED
  BY <1>3, <1>4, <1>5, <1>6, <1>7 DEF CtlInv

LEMMA CtlErase ==
    ASSUME CtlInv, NEW t \in Threads, SessionErase(t) PROVE CtlInv'
<1>1. /\ CtlTypes /\ CtlPhase /\ FdsApart /\ CtlCount /\ StopWakesEverySession /\ thread \in [Threads -> SeThreads] /\ "close" \in SePcs
      /\ UNCHANGED <<running, stop, gen, listening, handle, acceptor, owner, shut, active, call, aborted>>
      /\ thread' = [thread EXCEPT ![t].pc = "close"] /\ thread[t].pc = "erase" /\ clientFds' = clientFds \ thread[t].fds
  BY DEF CtlInv, CtlTypes, SessionErase, SePcs
<1>2. /\ thread' \in [Threads -> SeThreads] /\ thread'[t].pc = "close" /\ thread'[t].fds = thread[t].fds
      /\ \A u \in Threads \ {t} : thread'[u] = thread[u]
  BY <1>1, SesPc
<1>3. CtlPhase'
  BY <1>1, PhaseSame
<1>4. StopWakesEverySession'
  BY <1>1, <1>2 DEF StopWakesEverySession
<1>5. FdsApart'
  <2>1. \A u \in Threads : thread'[u].fds = thread[u].fds
    BY <1>2
  <2>2. \A u \in Threads : (u # t /\ thread'[u].pc = thread[u].pc) \/ (u = t /\ thread'[u].pc = "close")
    BY <1>2
  <2>3. \A u \in Threads \ {t} : \A f \in thread[u].fds : f \in clientFds' <=> f \in clientFds
    BY <1>1 DEF FdsApart
  <2>4. \A u \in Threads : /\ thread'[u].pc = "run" => \A f \in thread'[u].fds : f \in clientFds'
                           /\ thread'[u].pc = "close" => \A f \in thread'[u].fds : f \notin clientFds'
                           /\ thread'[u].pc \in {"leave", "none"} => thread'[u].fds = {}
    BY <1>1, <2>1, <2>2, <2>3 DEF FdsApart
  <2>5. QED
    BY <1>1, <2>1, <2>4 DEF FdsApart
<1>6. CtlCount'
  BY <1>1, <1>2, SittingSame
<1>7. CtlTypes'
  BY <1>1, <1>2 DEF CtlTypes
<1>8. QED
  BY <1>3, <1>4, <1>5, <1>6, <1>7 DEF CtlInv

LEMMA CtlClose ==
    ASSUME CtlInv, NEW t \in Threads, SessionClose(t) PROVE CtlInv'
<1> DEFINE k == [pc |-> "leave", fds |-> {}]
<1>1. /\ CtlTypes /\ CtlPhase /\ FdsApart /\ CtlCount /\ StopWakesEverySession /\ thread \in [Threads -> SeThreads]
      /\ owner \in [Fds -> {"nobody", "server", "stranger"}]
      /\ UNCHANGED <<running, stop, gen, listening, handle, acceptor, clientFds, shut, active, call, aborted>>
      /\ thread' = [thread EXCEPT ![t] = k] /\ thread[t].pc = "close"
      /\ owner' = [f \in Fds |-> IF f \in thread[t].fds THEN "nobody" ELSE owner[f]]
  BY DEF CtlInv, CtlTypes, SessionClose
<1>2. k \in SeThreads /\ k.pc = "leave" /\ k.fds = {}
  BY DEF SeThreads, SePcs
<1> HIDE DEF k
<1>3. thread' \in [Threads -> SeThreads] /\ thread'[t] = k /\ \A u \in Threads \ {t} : thread'[u] = thread[u]
  BY <1>1, <1>2, SesSet
<1>4. owner' \in [Fds -> {"nobody", "server", "stranger"}] /\ \A e \in Fds : e \notin thread[t].fds => owner'[e] = owner[e]
  BY <1>1
<1>5. CtlPhase'
  BY <1>1, PhaseSame
<1>6. StopWakesEverySession'
  BY <1>1, <1>2, <1>3 DEF StopWakesEverySession
<1>7. FdsApart'
  <2>1. /\ clientFds \subseteq Fds /\ (\A u \in Threads : thread[u].fds \subseteq Fds) /\ (\A h \in Gens : acceptor[h].fds \subseteq Fds)
    BY <1>1 DEF CtlTypes, AcThreads, SeThreads
  <2>2. \A u \in Threads : (u = t /\ thread'[u].pc = "leave" /\ thread'[u].fds = {}) \/ (u # t /\ thread'[u] = thread[u])
    BY <1>2, <1>3
  <2>3. /\ \A u \in Threads : \A f \in thread'[u].fds : owner'[f] = "server"
        /\ \A h \in Gens : \A f \in acceptor[h].fds : owner'[f] = "server"
        /\ \A f \in clientFds : owner'[f] = "server"
    BY <1>1, <1>4, <2>1, <2>2 DEF FdsApart
  <2>4. \A u, v \in Threads : u # v => \A e \in thread'[u].fds : e \notin thread'[v].fds
    BY <1>1, <2>2 DEF FdsApart
  <2>5. \A u \in Threads : /\ thread'[u].pc = "run" => \A e \in thread'[u].fds : e \in clientFds
                           /\ thread'[u].pc = "close" => \A e \in thread'[u].fds : e \notin clientFds
                           /\ thread'[u].pc \in {"leave", "none"} => thread'[u].fds = {}
                           /\ \A g \in Gens : \A f \in acceptor[g].fds : f \notin thread'[u].fds
    BY <1>1, <2>2 DEF FdsApart
  <2>6. QED
    BY <1>1, <2>3, <2>4, <2>5 DEF FdsApart
<1>8. CtlCount'
  BY <1>1, <1>2, <1>3, SittingSame
<1>9. CtlTypes'
  BY <1>1, <1>3, <1>4 DEF CtlTypes
<1>10. QED
  BY <1>5, <1>6, <1>7, <1>8, <1>9 DEF CtlInv

LEMMA CtlLeave ==
    ASSUME CtlInv, NEW t \in Threads, SessionLeave(t) PROVE CtlInv'
<1>1. /\ CtlTypes /\ CtlPhase /\ FdsApart /\ CtlCount /\ StopWakesEverySession /\ thread \in [Threads -> SeThreads] /\ "none" \in SePcs
      /\ UNCHANGED <<running, stop, gen, listening, handle, acceptor, clientFds, owner, shut, call, aborted>>
      /\ thread' = [thread EXCEPT ![t].pc = "none"] /\ thread[t].pc = "leave" /\ active' = active - 1
  BY DEF CtlInv, CtlTypes, SessionLeave, SePcs
<1>2. /\ thread' \in [Threads -> SeThreads] /\ thread'[t].pc = "none" /\ thread'[t].fds = thread[t].fds
      /\ \A u \in Threads \ {t} : thread'[u] = thread[u]
  BY <1>1, SesPc
<1>3. CtlPhase'
  BY <1>1, PhaseSame
<1>4. StopWakesEverySession'
  BY <1>1, <1>2 DEF StopWakesEverySession
<1>5. FdsApart'
  <2>1. \A u \in Threads : thread'[u].fds = thread[u].fds
    BY <1>2
  <2>2. \A u \in Threads : thread'[u].pc = thread[u].pc \/ (thread[u].pc = "leave" /\ thread'[u].pc = "none")
    BY <1>1, <1>2
  <2>3. QED
    BY <1>1, <2>1, <2>2 DEF FdsApart
<1>6. Sitting = Sitting' \cup {t} /\ t \notin Sitting' /\ (Seating' <=> Seating) /\ Sitting' \subseteq Sitting
  BY <1>1, <1>2 DEF Sitting, Seating
<1>7. Cardinality(Sitting) = Cardinality(Sitting') + 1 /\ Cardinality(Sitting') \in Nat
  BY <1>6, SittingCounted, FS_AddElement, FS_Subset, FS_CardinalityType
<1>8. CtlCount' /\ active' \in Nat /\ active' <= active
  <2>1. active = Cardinality(Sitting) + (IF Seating THEN 1 ELSE 0)
    BY <1>1 DEF CtlCount
  <2>2. active' = Cardinality(Sitting') + (IF Seating' THEN 1 ELSE 0) /\ active' \in Nat /\ active' <= active
    BY <1>1, <1>6, <1>7, <2>1
  <2>3. QED
    BY <1>1, <2>2, ControllerAssumption DEF CtlCount, CtlTypes
<1>9. CtlTypes'
  BY <1>1, <1>2, <1>8, FS_CardinalityType, ControllerAssumption DEF CtlTypes
<1>10. QED
  BY <1>3, <1>4, <1>5, <1>8, <1>9 DEF CtlInv

LEMMA CtlStranger ==
    ASSUME CtlInv, NEW f \in Fds, StrangerOpens(f) \/ StrangerCloses(f) PROVE CtlInv'
<1>1. /\ CtlTypes /\ CtlPhase /\ FdsApart /\ CtlCount /\ StopWakesEverySession /\ owner \in [Fds -> {"nobody", "server", "stranger"}]
      /\ UNCHANGED <<running, stop, gen, listening, handle, acceptor, clientFds, active, thread, call, aborted>>
      /\ owner[f] # "server" /\ (shut' = shut \ {f} \/ shut' = shut)
  BY DEF CtlInv, CtlTypes, StrangerOpens, StrangerCloses
<1>2. owner' \in [Fds -> {"nobody", "server", "stranger"}] /\ \A e \in Fds : owner[e] = "server" => owner'[e] = "server"
  BY <1>1 DEF StrangerOpens, StrangerCloses
<1>3. /\ clientFds \subseteq Fds /\ (\A u \in Threads : thread[u].fds \subseteq Fds) /\ (\A h \in Gens : acceptor[h].fds \subseteq Fds)
  BY <1>1 DEF CtlTypes, AcThreads, SeThreads
<1>4. CtlPhase'
  BY <1>1, PhaseSame
<1>5. FdsApart'
  BY <1>1, <1>2, <1>3 DEF FdsApart
<1>6. StopWakesEverySession'
  <2>1. \A t \in Threads : f \notin thread[t].fds
    BY <1>1 DEF FdsApart
  <2>2. QED
    BY <1>1, <2>1 DEF StopWakesEverySession
<1>7. CtlCount'
  BY <1>1, SittingSame
<1>8. CtlTypes'
  BY <1>1, <1>2 DEF CtlTypes
<1>9. QED
  BY <1>4, <1>5, <1>6, <1>7, <1>8 DEF CtlInv

LEMMA CtlStopBegin ==
    ASSUME OneCaller, CtlInv, NEW c \in Callers, StopBegin(c) PROVE CtlInv'
<1> DEFINE k == [pc |-> "join", joins |-> handle]
<1>1. /\ CtlTypes /\ CtlPhase /\ FdsApart /\ CtlCount /\ StopWakesEverySession /\ call \in [Callers -> StCalls] /\ handle \in 0..MaxStarts
      /\ UNCHANGED <<running, gen, acceptor, clientFds, owner, shut, active, thread, aborted>>
      /\ call' = [call EXCEPT ![c] = k] /\ stop' = TRUE /\ listening' = FALSE /\ handle' = 0
      /\ call[c].pc = "idle" /\ (running = TRUE \/ handle # 0)
  BY DEF CtlInv, CtlTypes, StopBegin
<1>2. k \in StCalls /\ k.pc = "join" /\ k.joins = handle
  BY <1>1 DEF StCalls
<1> HIDE DEF k
<1>3. call' \in [Callers -> StCalls] /\ call'[c] = k /\ \A d \in Callers : d = c
  BY <1>1, <1>2, CallSet DEF OneCaller
<1>4. Idle /\ ~Idle'
  BY <1>1, <1>2, <1>3 DEF Idle
<1>5. handle = gen /\ gen # 0
  BY <1>1, <1>4 DEF CtlPhase
<1>6. CtlPhase'
  <2>1. \A d \in Callers : call'[d].pc = "join" /\ call'[d].joins = gen
    BY <1>2, <1>3, <1>5
  <2>2. \A g \in Gens : /\ g < gen => acceptor[g].pc = "done"
                        /\ g = gen => acceptor[g].pc # "none"
                        /\ g > gen => acceptor[g].pc = "none"
    BY <1>1 DEF CtlPhase
  <2>3. aborted' = FALSE /\ gen' = gen
    BY <1>1 DEF CtlPhase
  <2>4. QED
    BY <1>1, <1>4, <1>5, <2>1, <2>2, <2>3 DEF CtlPhase
<1>7. StopWakesEverySession'
  BY <1>2, <1>3 DEF StopWakesEverySession
<1>8. FdsApart'
  BY <1>1 DEF FdsApart
<1>9. CtlCount'
  BY <1>1, SittingSame
<1>10. CtlTypes'
  <2>1. stop' \in BOOLEAN /\ listening' \in BOOLEAN
    BY <1>1, Zenon
  <2>2. 0 \in 0..MaxStarts
    BY ControllerAssumption
  <2>3. QED
    BY <1>1, <1>3, <2>1, <2>2 DEF CtlTypes
<1>11. QED
  BY <1>6, <1>7, <1>8, <1>9, <1>10 DEF CtlInv

LEMMA CtlJoin ==
    ASSUME OneCaller, CtlInv, NEW c \in Callers, StopJoin(c) PROVE CtlInv'
<1>1. /\ CtlTypes /\ CtlPhase /\ FdsApart /\ CtlCount /\ StopWakesEverySession /\ call \in [Callers -> StCalls]
      /\ UNCHANGED <<running, stop, gen, listening, handle, acceptor, clientFds, owner, shut, active, thread, aborted>>
      /\ call' = [call EXCEPT ![c].pc = "wake"] /\ call[c].pc = "join" /\ (call[c].joins # 0 => acceptor[call[c].joins].pc = "done")
  BY DEF CtlInv, CtlTypes, StopJoin
<1>2. call' \in [Callers -> StCalls] /\ call'[c].pc = "wake" /\ \A d \in Callers : d = c
  BY <1>1, CallPc DEF OneCaller
<1>3. gen # 0 /\ acceptor[gen].pc = "done"
  BY <1>1 DEF CtlPhase
<1>4. NoAcceptor
  <2>1. gen \in Nat
    BY <1>1 DEF CtlTypes
  <2>2. \A g \in Gens : g < gen \/ g = gen \/ g > gen
    BY <2>1 DEF Gens
  <2>3. QED
    BY <1>1, <1>3, <2>2 DEF CtlPhase, NoAcceptor
<1>5. ~Idle /\ ~Idle' /\ NoAcceptor'
  BY <1>1, <1>2, <1>4 DEF Idle, NoAcceptor
<1>6. CtlPhase'
  <2>1. \A d \in Callers : call'[d].pc = "wake"
    BY <1>2
  <2>2. QED
    BY <1>1, <1>5, <2>1 DEF CtlPhase
<1>7. StopWakesEverySession'
  BY <1>2 DEF StopWakesEverySession
<1>8. FdsApart'
  BY <1>1 DEF FdsApart
<1>9. CtlCount'
  BY <1>1, SittingSame
<1>10. CtlTypes'
  BY <1>1, <1>2 DEF CtlTypes
<1>11. QED
  BY <1>6, <1>7, <1>8, <1>9, <1>10 DEF CtlInv

LEMMA CtlWake ==
    ASSUME OneCaller, CtlInv, NEW c \in Callers, StopWake(c) PROVE CtlInv'
<1>1. /\ CtlTypes /\ CtlPhase /\ FdsApart /\ CtlCount /\ call \in [Callers -> StCalls]
      /\ UNCHANGED <<running, stop, gen, listening, handle, acceptor, clientFds, owner, active, thread, aborted>>
      /\ call' = [call EXCEPT ![c].pc = "wait"] /\ call[c].pc = "wake" /\ shut' = shut \cup clientFds
  BY DEF CtlInv, CtlTypes, StopWake
<1>2. call' \in [Callers -> StCalls] /\ call'[c].pc = "wait" /\ \A d \in Callers : d = c
  BY <1>1, CallPc DEF OneCaller
<1>3. ~Idle /\ ~Idle' /\ NoAcceptor /\ NoAcceptor'
  BY <1>1, <1>2 DEF Idle, NoAcceptor, CtlPhase
<1>4. CtlPhase'
  <2>1. \A d \in Callers : call'[d].pc = "wait"
    BY <1>2
  <2>2. QED
    BY <1>1, <1>3, <2>1 DEF CtlPhase
<1>5. StopWakesEverySession'
  BY <1>1 DEF StopWakesEverySession, FdsApart
<1>6. FdsApart'
  BY <1>1 DEF FdsApart
<1>7. CtlCount'
  BY <1>1, SittingSame
<1>8. CtlTypes'
  BY <1>1, <1>2 DEF CtlTypes
<1>9. QED
  BY <1>4, <1>5, <1>6, <1>7, <1>8 DEF CtlInv

LEMMA CtlStopReturn ==
    ASSUME OneCaller, CtlInv, NEW c \in Callers, StopReturn(c) PROVE CtlInv'
<1> DEFINE k == [pc |-> "idle", joins |-> 0]
<1>1. /\ CtlTypes /\ CtlPhase /\ FdsApart /\ CtlCount /\ call \in [Callers -> StCalls]
      /\ UNCHANGED <<stop, gen, listening, handle, acceptor, clientFds, owner, shut, active, thread, aborted>>
      /\ call' = [call EXCEPT ![c] = k] /\ call[c].pc = "wait" /\ running' = FALSE
  BY DEF CtlInv, CtlTypes, StopReturn
<1>2. k \in StCalls /\ k.pc = "idle"
  BY ControllerAssumption DEF StCalls
<1> HIDE DEF k
<1>3. call' \in [Callers -> StCalls] /\ call'[c] = k /\ \A d \in Callers : d = c
  BY <1>1, <1>2, CallSet DEF OneCaller
<1>4. ~Idle /\ NoAcceptor /\ NoAcceptor' /\ handle = 0
  <2>1. ~Idle /\ NoAcceptor
    BY <1>1 DEF Idle, CtlPhase
  <2>2. handle = 0
    BY <1>1, <2>1 DEF CtlPhase
  <2>3. QED
    BY <1>1, <2>1, <2>2 DEF NoAcceptor
<1>5. CtlPhase'
  <2>1. \A d \in Callers : call'[d].pc = "idle"
    BY <1>2, <1>3
  <2>2. running' # TRUE
    BY <1>1, Zenon
  <2>3. QED
    BY <1>1, <1>4, <2>1, <2>2 DEF CtlPhase
<1>6. StopWakesEverySession'
  BY <1>2, <1>3 DEF StopWakesEverySession
<1>7. FdsApart'
  BY <1>1 DEF FdsApart
<1>8. CtlCount'
  BY <1>1, SittingSame
<1>9. CtlTypes'
  <2>1. running' \in BOOLEAN
    BY <1>1, Zenon
  <2>2. QED
    BY <1>1, <1>3, <2>1 DEF CtlTypes
<1>10. QED
  BY <1>5, <1>6, <1>7, <1>8, <1>9 DEF CtlInv

LEMMA CtlStep == OneCaller /\ CtlInv /\ [ControllerNext]_cvars => CtlInv'
<1> SUFFICES ASSUME OneCaller, CtlInv, [ControllerNext]_cvars PROVE CtlInv'
  OBVIOUS
<1>1. CASE \E c \in Callers : Start(c) \/ StopBegin(c) \/ StopStep(c)
  BY <1>1, CtlStart, CtlStopBegin, CtlJoin, CtlWake, CtlStopReturn DEF StopStep
<1>2. CASE \E g \in Gens : AcceptStep(g)
  BY <1>2, CtlTop, CtlPeer, CtlDrop, CtlCounts, CtlSpawn, CtlExit DEF AcceptStep
<1>3. CASE \E t \in Threads : HandlerReturns(t) \/ SessionEnd(t)
  BY <1>3, CtlReturns, CtlErase, CtlClose, CtlLeave DEF SessionEnd
<1>4. CASE \E f \in Fds : StrangerOpens(f) \/ StrangerCloses(f)
  BY <1>4, CtlStranger
<1>5. CASE UNCHANGED cvars
  <2>1. UNCHANGED <<running, stop, gen, listening, handle, acceptor, clientFds, owner, shut, active, thread, call, aborted>>
    BY <1>5 DEF cvars
  <2>2. CtlPhase' /\ CtlCount'
    BY <2>1, PhaseSame, SittingSame DEF CtlInv
  <2>3. QED
    BY <2>1, <2>2 DEF CtlInv, CtlTypes, FdsApart, StopWakesEverySession
<1>6. QED
  BY <1>1, <1>2, <1>3, <1>4, <1>5 DEF ControllerNext

LEMMA CtlSound == CtlInv => ListenerIsSound
<1> SUFFICES ASSUME CtlInv PROVE ListenerIsSound
  OBVIOUS
<1>1. CapRespected
  <2>1. Cap > 0 => Cardinality(Sitting) <= Cap
    BY SittingCounted, ControllerAssumption DEF CtlInv, CtlCount, CtlTypes
  <2>2. QED
    BY <2>1 DEF CapRespected, Sitting
<1>2. RunningIsTrue
  BY DEF CtlInv, CtlTypes, CtlPhase, RunningIsTrue, Idle, NoAcceptor
<1>3. QED
  BY <1>1, <1>2 DEF CtlInv, FdsApart, NeverShutsStranger, ListenerIsSound

(* With one caller of Start and Stop, however many descriptors, sessions,   *)
(* other users of descriptors and restarts, and whatever the cap: Stop wakes *)
(* every session, shuts down no stranger's descriptor, the cap is kept, and *)
(* a listener that says it is not running has no accept thread left.        *)
THEOREM ListenerIsAlwaysSound == OneCaller => (ControllerSpec => []ListenerIsSound)
<1> SUFFICES ASSUME OneCaller PROVE ControllerSpec => []ListenerIsSound
  OBVIOUS
<1>1. CtlInv /\ [ControllerNext]_cvars => CtlInv'
  BY CtlStep
<1>2. QED
  BY <1>1, CtlInitial, CtlSound, PTL DEF ControllerSpec

(* With one caller of Stop, a worker whose IsRunning() is false has no loop *)
(* left that could still tick.                                              *)
THEOREM WorkerIsAlwaysSound == OneStopper => (WorkerSpec => []RunningMeansAlive)
<1> SUFFICES ASSUME OneStopper PROVE WorkerSpec => []RunningMeansAlive
  OBVIOUS
<1>1. WkrInv /\ [WorkerNext]_wvars => WkrInv'
  BY WkrStep
<1>2. WkrInv => RunningMeansAlive
  BY DEF WkrInv
<1>3. QED
  BY <1>1, <1>2, WkrInitial, PTL DEF WorkerSpec

(* The same two of the composition the runs check, whichever component it   *)
(* is that runs.                                                            *)
THEOREM ThreadsAreAlwaysSound == OneCaller /\ OneStopper => (MCSpec => []ThreadsAreSound)
<1> SUFFICES ASSUME OneCaller, OneStopper PROVE MCSpec => []ThreadsAreSound
  OBVIOUS
<1> DEFINE both == CtlInv /\ WkrInv
<1>1. MCInit => both
  BY CtlInitial, WkrInitial DEF MCInit
<1>2. both /\ [MCNext]_sessionsVars => both'
  <2> SUFFICES ASSUME both, [MCNext]_sessionsVars PROVE both'
    OBVIOUS
  <2>1. [ControllerNext]_cvars /\ [WorkerNext]_wvars
    BY DEF MCNext, sessionsVars
  <2>2. QED
    BY <2>1, CtlStep, WkrStep
<1>3. both => ThreadsAreSound
  BY CtlSound DEF ThreadsAreSound, WkrInv
<1> HIDE DEF both
<1>4. QED
  BY <1>1, <1>2, <1>3, PTL DEF MCSpec
-----------------------------------------------------------------------------
(* Mail access *)

(* Numbers listed in an order: what RoomUids returns, and the order in      *)
(* which positions are expunged.                                            *)
Under(S, x) == {k \in S : k < x}

LEMMA UnderCounts ==
    ASSUME NEW S, S \subseteq Nat, IsFiniteSet(S), NEW x \in S
    PROVE  /\ Cardinality(Under(S, x)) \in 0..(Cardinality(S) - 1)
           /\ Cardinality({k \in S : k > x}) = Cardinality(S) - 1 - Cardinality(Under(S, x))
           /\ \A y \in S : x < y => Cardinality(Under(S, x)) < Cardinality(Under(S, y))
<1>1. Cardinality(S) \in Nat /\ IsFiniteSet(S \ {x}) /\ Cardinality(S \ {x}) = Cardinality(S) - 1
  BY FS_CardinalityType, FS_RemoveElement
<1>2. \A y \in S : IsFiniteSet(Under(S, y)) /\ Cardinality(Under(S, y)) \in Nat
  <2> TAKE y \in S
  <2>1. Under(S, y) \in SUBSET S
    BY DEF Under
  <2> QED
    BY <2>1, FS_Subset, FS_CardinalityType
<1>3. Under(S, x) \in SUBSET (S \ {x})
  BY DEF Under
<1>4. Cardinality(Under(S, x)) <= Cardinality(S) - 1
  BY <1>1, <1>3, FS_Subset
<1>5. Cardinality({k \in S : k > x}) = Cardinality(S) - 1 - Cardinality(Under(S, x))
  <2>0. \A k \in S : k > x <=> k # x /\ ~(k < x)
    <3> TAKE k \in S
    <3>1. k \in Nat /\ x \in Nat
      OBVIOUS
    <3> QED
      BY <3>1
  <2>1. {k \in S : k > x} = (S \ {x}) \ Under(S, x) /\ (S \ {x}) \cap Under(S, x) = Under(S, x)
    <3>1. {k \in S : k > x} = (S \ {x}) \ Under(S, x)
      BY <2>0 DEF Under
    <3> QED
      BY <1>3, <3>1
  <2>2. Cardinality((S \ {x}) \ Under(S, x)) = Cardinality(S \ {x}) - Cardinality((S \ {x}) \cap Under(S, x))
    BY <1>1, FS_Difference
  <2> QED
    BY <1>1, <2>1, <2>2
<1>6. ASSUME NEW y \in S, x < y PROVE Cardinality(Under(S, x)) < Cardinality(Under(S, y))
  <2>0. \A k \in S : k < x => k < y
    <3> TAKE k \in S
    <3>1. k \in Nat /\ x \in Nat /\ y \in Nat
      OBVIOUS
    <3> QED
      BY <1>6, <3>1
  <2>1. Under(S, x) \in SUBSET (Under(S, y) \ {x}) /\ x \in Under(S, y)
    BY <1>3, <1>6, <2>0 DEF Under
  <2>2. IsFiniteSet(Under(S, y) \ {x}) /\ Cardinality(Under(S, y) \ {x}) = Cardinality(Under(S, y)) - 1
    BY <1>2, <2>1, FS_RemoveElement
  <2>3. Cardinality(Under(S, x)) <= Cardinality(Under(S, y) \ {x})
    BY <2>1, <2>2, FS_Subset
  <2> QED
    BY <1>2, <2>2, <2>3
<1>7. QED
  BY <1>1, <1>2, <1>4, <1>5, <1>6

(* Every position is some member's. *)
LEMMA EachPosition ==
    ASSUME NEW S, S \subseteq Nat, IsFiniteSet(S), NEW i \in 1..Cardinality(S)
    PROVE  \E x \in S : /\ Cardinality(Under(S, x)) = i - 1
                        /\ \A y \in S : Cardinality(Under(S, y)) = i - 1 => y = x
<1>1. Cardinality(S) \in Nat
  BY FS_CardinalityType
<1>2. PICK r : r = [x \in S |-> Cardinality(Under(S, x)) + 1]
  OBVIOUS
<1>3. \A x \in S : Cardinality(Under(S, x)) \in 0..(Cardinality(S) - 1)
  BY UnderCounts
<1>4. \A x, y \in S : x < y => Cardinality(Under(S, x)) < Cardinality(Under(S, y))
  BY UnderCounts
<1>5. \A x, y \in S : Cardinality(Under(S, x)) = Cardinality(Under(S, y)) => x = y
  <2> TAKE x, y \in S
  <2>1. x < y \/ y < x \/ x = y
    OBVIOUS
  <2> QED
    BY <1>3, <1>4, <2>1
<1>6. r \in [S -> 1..Cardinality(S)]
  BY <1>1, <1>2, <1>3
<1>7. r \in Injection(S, 1..Cardinality(S))
  <2>1. \A x, y \in S : r[x] = r[y] => x = y
    BY <1>1, <1>2, <1>3, <1>5
  <2> QED
    BY <1>6, <2>1 DEF Injection, IsInjective
<1>8. IsFiniteSet(1..Cardinality(S)) /\ Cardinality(1..Cardinality(S)) = Cardinality(S)
  BY <1>1, FS_Interval
<1>9. r \in Surjection(S, 1..Cardinality(S))
  BY <1>7, <1>8, FS_Injection
<1>10. PICK x \in S : r[x] = i
  BY <1>9 DEF Surjection
<1>11. Cardinality(Under(S, x)) = i - 1
  BY <1>1, <1>2, <1>3, <1>10
<1>12. QED
  BY <1>5, <1>11

LEMMA ListedRises ==
    ASSUME NEW S, S \subseteq Nat, IsFiniteSet(S)
    PROVE  /\ RoomUids(S) \in [1..Cardinality(S) -> S]
           /\ \A i \in 1..Cardinality(S) : Cardinality(Under(S, RoomUids(S)[i])) = i - 1
           /\ \A i, j \in 1..Cardinality(S) : i < j => RoomUids(S)[i] < RoomUids(S)[j]
           /\ \A x \in S : \E i \in 1..Cardinality(S) : RoomUids(S)[i] = x
<1>1. PICK f : f = RoomUids(S)
  OBVIOUS
<1>2. f = [i \in 1..Cardinality(S) |-> CHOOSE n \in S : Cardinality({k \in S : k < n}) = i - 1]
  BY <1>1 DEF Listed, RoomUids
<1>3. Cardinality(S) \in Nat
  BY FS_CardinalityType
<1>4. ASSUME NEW i \in 1..Cardinality(S) PROVE f[i] \in S /\ Cardinality(Under(S, f[i])) = i - 1
  <2>1. PICK x \in S : Cardinality(Under(S, x)) = i - 1
    BY EachPosition
  <2>2. Cardinality({k \in S : k < x}) = i - 1
    BY <2>1 DEF Under
  <2>3. f[i] = CHOOSE n \in S : Cardinality({k \in S : k < n}) = i - 1
    BY <1>2
  <2>4. f[i] \in S /\ Cardinality({k \in S : k < f[i]}) = i - 1
    BY <2>2, <2>3
  <2> QED
    BY <2>4 DEF Under
<1>5. f \in [1..Cardinality(S) -> S]
  BY <1>2, <1>4
<1>6. ASSUME NEW i \in 1..Cardinality(S), NEW j \in 1..Cardinality(S), i < j PROVE f[i] < f[j]
  <2>1. f[i] \in S /\ f[j] \in S /\ Cardinality(Under(S, f[i])) = i - 1 /\ Cardinality(Under(S, f[j])) = j - 1
    BY <1>4
  <2>2. f[j] < f[i] => Cardinality(Under(S, f[j])) < Cardinality(Under(S, f[i]))
    BY <2>1, UnderCounts
  <2>3. f[i] # f[j] /\ ~(j - 1 < i - 1) /\ f[i] \in Nat /\ f[j] \in Nat
    <3>1. i - 1 # j - 1 /\ ~(j - 1 < i - 1)
      BY <1>3, <1>6
    <3>2. f[i] # f[j]
      BY <2>1, <3>1
    <3>3. f[i] \in Nat /\ f[j] \in Nat
      BY <2>1
    <3> QED
      BY <3>1, <3>2, <3>3
  <2>4. ~(f[j] < f[i])
    BY <2>1, <2>2, <2>3
  <2> QED
    BY <2>3, <2>4
<1>7. ASSUME NEW x \in S PROVE \E i \in 1..Cardinality(S) : f[i] = x
  <2>1. Cardinality(Under(S, x)) \in 0..(Cardinality(S) - 1)
    BY UnderCounts
  <2>2. PICK i \in 1..Cardinality(S) : i = Cardinality(Under(S, x)) + 1
    BY <1>3, <2>1
  <2>3. i - 1 = Cardinality(Under(S, x))
    BY <2>1, <2>2
  <2>4. \E w \in S : \A y \in S : Cardinality(Under(S, y)) = i - 1 => y = w
    BY EachPosition
  <2> QED
    BY <1>4, <2>3, <2>4
<1>8. QED
  BY <1>1, <1>4, <1>5, <1>6, <1>7

(* The only list there is of them in that order. *)
LEMMA RisesIsListed ==
    ASSUME NEW S, S \subseteq Nat, IsFiniteSet(S), NEW n \in Nat, NEW f \in [1..n -> S],
           \A i, j \in 1..n : i < j => f[i] < f[j], \A x \in S : \E i \in 1..n : f[i] = x
    PROVE  n = Cardinality(S) /\ f = RoomUids(S)
<1>1. ASSUME NEW i \in 1..n, NEW j \in 1..n, f[i] = f[j] PROVE i = j
  <2>1. i < j \/ j < i \/ i = j
    OBVIOUS
  <2>2. f[i] \in Nat
    OBVIOUS
  <2> QED
    BY <1>1, <2>1, <2>2
<1>2. IsFiniteSet(1..n) /\ Cardinality(1..n) = n
  BY FS_Interval
<1>3. f \in Injection(1..n, S) /\ f \in Surjection(1..n, S)
  BY <1>1 DEF Injection, IsInjective, Surjection
<1>4. Cardinality(S) = n
  BY <1>2, <1>3, FS_Surjection
<1>5. ASSUME NEW i \in 1..n PROVE Cardinality(Under(S, f[i])) = i - 1
  <2>1. PICK g : g = [j \in 1..(i - 1) |-> f[j]]
    OBVIOUS
  <2>2. \A j \in 1..(i - 1) : j \in 1..n /\ f[j] \in Under(S, f[i])
    BY DEF Under
  <2>3. g \in [1..(i - 1) -> Under(S, f[i])]
    BY <2>1, <2>2
  <2>4. \A x \in Under(S, f[i]) : \E j \in 1..(i - 1) : g[j] = x
    <3> TAKE x \in Under(S, f[i])
    <3>1. x \in S /\ x < f[i] /\ f[i] \in Nat
      BY DEF Under
    <3>2. PICK j \in 1..n : f[j] = x
      BY <3>1
    <3>3. ~(i < j) /\ i # j
      BY <3>1, <3>2
    <3>4. j \in 1..(i - 1)
      BY <3>3
    <3> QED
      BY <2>1, <3>2, <3>4
  <2>5. \A j, k \in 1..(i - 1) : g[j] = g[k] => j = k
    BY <1>1, <2>1, <2>2
  <2>6. g \in Injection(1..(i - 1), Under(S, f[i])) /\ g \in Surjection(1..(i - 1), Under(S, f[i]))
    BY <2>3, <2>4, <2>5 DEF Injection, IsInjective, Surjection
  <2>7. IsFiniteSet(1..(i - 1)) /\ Cardinality(1..(i - 1)) = i - 1
    BY FS_Interval
  <2> QED
    BY <2>6, <2>7, FS_Surjection
<1>6. PICK h : h = RoomUids(S)
  OBVIOUS
<1>7. h \in [1..n -> S] /\ \A i \in 1..n : Cardinality(Under(S, h[i])) = i - 1
  BY <1>4, <1>6, ListedRises
<1>8. \A i \in 1..n : f[i] = h[i]
  <2> TAKE i \in 1..n
  <2>1. \E w \in S : \A y \in S : Cardinality(Under(S, y)) = i - 1 => y = w
    BY <1>4, EachPosition
  <2> QED
    BY <1>5, <1>7, <2>1
<1>9. f = h
  BY <1>7, <1>8
<1>10. QED
  BY <1>4, <1>6, <1>9

(* Highest first, they are the same list from its end. *)
LEMMA ListedFalls ==
    ASSUME NEW S, S \subseteq Nat, IsFiniteSet(S)
    PROVE  /\ ExpungeOrder(S) \in [1..Cardinality(S) -> S]
           /\ \A i, j \in 1..Cardinality(S) : i < j => ExpungeOrder(S)[i] > ExpungeOrder(S)[j]
           /\ \A x \in S : \E i \in 1..Cardinality(S) : ExpungeOrder(S)[i] = x
<1>1. PICK f : f = ExpungeOrder(S)
  OBVIOUS
<1>2. f = [i \in 1..Cardinality(S) |-> CHOOSE n \in S : Cardinality({k \in S : k > n}) = i - 1]
  BY <1>1 DEF Listed, ExpungeOrder
<1>3. Cardinality(S) \in Nat
  BY FS_CardinalityType
<1>4. ASSUME NEW i \in 1..Cardinality(S) PROVE f[i] \in S /\ Cardinality(Under(S, f[i])) = Cardinality(S) - i
  <2>1. PICK m \in 1..Cardinality(S) : m = Cardinality(S) - i + 1
    BY <1>3
  <2>2. PICK x \in S : Cardinality(Under(S, x)) = m - 1
    BY EachPosition
  <2>3. Cardinality({k \in S : k > x}) = i - 1
    <3>1. Cardinality({k \in S : k > x}) = Cardinality(S) - 1 - Cardinality(Under(S, x))
      BY UnderCounts
    <3> QED
      BY <1>3, <2>1, <2>2, <3>1
  <2>4. f[i] = CHOOSE n \in S : Cardinality({k \in S : k > n}) = i - 1
    BY <1>2
  <2>5. f[i] \in S /\ Cardinality({k \in S : k > f[i]}) = i - 1
    BY <2>3, <2>4
  <2>6. Cardinality(Under(S, f[i])) \in 0..(Cardinality(S) - 1) /\ Cardinality({k \in S : k > f[i]}) = Cardinality(S) - 1 - Cardinality(Under(S, f[i]))
    BY <2>5, UnderCounts
  <2> QED
    BY <1>3, <2>5, <2>6
<1>5. f \in [1..Cardinality(S) -> S]
  BY <1>2, <1>4
<1>6. ASSUME NEW i \in 1..Cardinality(S), NEW j \in 1..Cardinality(S), i < j PROVE f[i] > f[j]
  <2>1. f[i] \in S /\ f[j] \in S /\ Cardinality(Under(S, f[i])) = Cardinality(S) - i /\ Cardinality(Under(S, f[j])) = Cardinality(S) - j
    BY <1>4
  <2>2. f[i] < f[j] => Cardinality(Under(S, f[i])) < Cardinality(Under(S, f[j]))
    BY <2>1, UnderCounts
  <2>3. f[i] # f[j] /\ ~(Cardinality(S) - i < Cardinality(S) - j) /\ f[i] \in Nat /\ f[j] \in Nat
    <3>1. Cardinality(S) - i # Cardinality(S) - j /\ ~(Cardinality(S) - i < Cardinality(S) - j)
      BY <1>3, <1>6
    <3>2. f[i] # f[j]
      BY <2>1, <3>1
    <3>3. f[i] \in Nat /\ f[j] \in Nat
      BY <2>1
    <3> QED
      BY <3>1, <3>2, <3>3
  <2>4. ~(f[i] < f[j])
    BY <2>1, <2>2, <2>3
  <2> QED
    BY <2>3, <2>4
<1>7. ASSUME NEW x \in S PROVE \E i \in 1..Cardinality(S) : f[i] = x
  <2>1. Cardinality(Under(S, x)) \in 0..(Cardinality(S) - 1)
    BY UnderCounts
  <2>2. PICK i \in 1..Cardinality(S) : i = Cardinality(S) - Cardinality(Under(S, x))
    BY <1>3, <2>1
  <2>3. PICK m \in 1..Cardinality(S) : m = Cardinality(Under(S, x)) + 1
    BY <1>3, <2>1
  <2>4. m - 1 = Cardinality(Under(S, x)) /\ Cardinality(S) - i = m - 1
    BY <1>3, <2>1, <2>2, <2>3
  <2>5. \E w \in S : \A y \in S : Cardinality(Under(S, y)) = m - 1 => y = w
    BY EachPosition
  <2> QED
    BY <1>4, <2>4, <2>5
<1>8. QED
  BY <1>1, <1>5, <1>6, <1>7

(* A member with the same members below it in two sets has one position. *)
LEMMA SamePosition ==
    ASSUME NEW U, U \subseteq Nat, IsFiniteSet(U), NEW V, V \subseteq Nat, IsFiniteSet(V),
           NEW p \in 1..Cardinality(V), NEW x \in U, x = RoomUids(V)[p], Under(U, x) = Under(V, x)
    PROVE  p \in 1..Cardinality(U) /\ x = RoomUids(U)[p]
<1>2. Cardinality(Under(V, x)) = p - 1 /\ x \in U /\ Under(U, x) = Under(V, x)
  BY ListedRises
<1>3. Cardinality(Under(U, x)) = p - 1 /\ Cardinality(Under(U, x)) \in 0..(Cardinality(U) - 1)
  BY <1>2, UnderCounts
<1>4. Cardinality(U) \in Nat /\ Cardinality(V) \in Nat
  BY FS_CardinalityType
<1>5. p \in 1..Cardinality(U)
  <2>1. p \in Nat /\ 1 <= p
    BY <1>4
  <2>2. p - 1 \in 0..(Cardinality(U) - 1)
    BY <1>3
  <2> QED
    BY <1>4, <2>1, <2>2
<1>6. PICK y : y = RoomUids(U)[p]
  OBVIOUS
<1>7. y \in U /\ Cardinality(Under(U, y)) = p - 1
  BY <1>5, <1>6, ListedRises
<1>8. y = x
  BY <1>2, <1>3, <1>5, <1>7, EachPosition
<1>9. QED
  BY <1>5, <1>6, <1>8

(* What "p EXPUNGE" leaves of a list. *)
LEMMA RemoveListed ==
    ASSUME NEW U, U \subseteq Nat, IsFiniteSet(U), NEW p \in 1..Cardinality(U)
    PROVE  RemoveAt(RoomUids(U), p) = RoomUids(U \ {RoomUids(U)[p]})
<1>1. PICK f : f = RoomUids(U)
  OBVIOUS
<1>2. PICK n : n = Cardinality(U)
  OBVIOUS
<1>3. /\ f \in [1..n -> U] /\ \A i, j \in 1..n : i < j => f[i] < f[j]
      /\ \A x \in U : \E i \in 1..n : f[i] = x
      /\ n \in Nat /\ p \in 1..n
  BY <1>1, <1>2, ListedRises, FS_CardinalityType
<1>4. f \in Seq(U) /\ Len(f) = n
  BY <1>3
<1>5. PICK g : g = RemoveAt(f, p)
  OBVIOUS
<1>6. PICK a : a = SubSeq(f, 1, p - 1)
  OBVIOUS
<1>7. a \in Seq(U) /\ Len(a) = p - 1 /\ \A i \in 1..(p - 1) : a[i] = f[i]
  <2>1. \A i \in 1..(p - 1) : f[i] \in U
    BY <1>3
  <2>2. p - 1 \in Int /\ 1 \in Int
    BY <1>3
  <2>3. /\ SubSeq(f, 1, p - 1) \in Seq(U) /\ Len(SubSeq(f, 1, p - 1)) = IF 1 <= p - 1 THEN (p - 1) - 1 + 1 ELSE 0
        /\ \A i \in 1..((p - 1) - 1 + 1) : SubSeq(f, 1, p - 1)[i] = f[1 + i - 1]
    BY <2>1, <2>2, SubSeqProperties
  <2> QED
    BY <1>3, <1>6, <2>3
<1>8. PICK b : b = SubSeq(f, p + 1, n)
  OBVIOUS
<1>9. b \in Seq(U) /\ Len(b) = n - p /\ \A i \in 1..(n - p) : b[i] = f[p + i]
  <2>1. \A i \in (p + 1)..n : f[i] \in U
    BY <1>3
  <2>2. p + 1 \in Int /\ n \in Int
    BY <1>3
  <2>3. /\ SubSeq(f, p + 1, n) \in Seq(U) /\ Len(SubSeq(f, p + 1, n)) = IF p + 1 <= n THEN n - (p + 1) + 1 ELSE 0
        /\ \A i \in 1..(n - (p + 1) + 1) : SubSeq(f, p + 1, n)[i] = f[(p + 1) + i - 1]
    BY <2>1, <2>2, SubSeqProperties
  <2> QED
    BY <1>3, <1>8, <2>3
<1>10. g = a \o b
  BY <1>4, <1>5, <1>6, <1>8 DEF RemoveAt
<1>11. /\ g \in Seq(U) /\ Len(g) = Len(a) + Len(b)
       /\ \A i \in 1..(Len(a) + Len(b)) : g[i] = IF i <= Len(a) THEN a[i] ELSE b[i - Len(a)]
  BY <1>7, <1>9, <1>10, ConcatProperties
<1>12. Len(a) + Len(b) = n - 1 /\ n - 1 \in Nat
  BY <1>3, <1>7, <1>9
<1>13. g \in [1..(n - 1) -> U] /\ \A i \in 1..(n - 1) : g[i] = IF i < p THEN f[i] ELSE f[i + 1]
  <2>1. g \in [1..(n - 1) -> U]
    BY <1>11, <1>12
  <2>2. ASSUME NEW i \in 1..(n - 1) PROVE g[i] = IF i < p THEN f[i] ELSE f[i + 1]
    <3>1. g[i] = IF i <= Len(a) THEN a[i] ELSE b[i - Len(a)]
      BY <1>11, <1>12
    <3>2. CASE i < p
      BY <1>3, <1>7, <3>1, <3>2
    <3>3. CASE ~(i < p)
      <4>1. PICK k \in 1..(n - p) : k = i - Len(a)
        BY <1>3, <1>7, <3>3
      <4>2. b[k] = f[p + k] /\ p + k = i + 1
        BY <1>3, <1>7, <1>9, <4>1
      <4>3. ~(i <= Len(a))
        BY <1>3, <1>7, <3>3
      <4> QED
        BY <3>1, <3>3, <4>1, <4>2, <4>3
    <3> QED
      BY <3>2, <3>3
  <2> QED
    BY <2>1, <2>2
<1>14. PICK W : W = U \ {f[p]}
  OBVIOUS
<1>15. W \subseteq Nat /\ IsFiniteSet(W)
  BY <1>14, FS_Subset
<1>16. PICK e : e = [i \in 1..(n - 1) |-> IF i < p THEN i ELSE i + 1]
  OBVIOUS
<1>17. \A i \in 1..(n - 1) : e[i] \in 1..n /\ e[i] # p /\ g[i] = f[e[i]]
  BY <1>3, <1>13, <1>16
<1>18. \A i, j \in 1..(n - 1) : i < j => e[i] < e[j]
  BY <1>3, <1>16
<1>19. \A i \in 1..n : i # p => f[i] # f[p]
  <2> TAKE i \in 1..n
  <2>1. i < p \/ p < i \/ i = p
    BY <1>3
  <2>2. f[i] \in Nat /\ f[p] \in Nat
    BY <1>3
  <2> QED
    BY <1>3, <2>1, <2>2
<1>20. \A i \in 1..(n - 1) : g[i] \in W
  BY <1>3, <1>14, <1>17, <1>19
<1>21. \A i, j \in 1..(n - 1) : i < j => g[i] < g[j]
  BY <1>3, <1>17, <1>18
<1>22. \A x \in W : \E i \in 1..(n - 1) : g[i] = x
  <2> TAKE x \in W
  <2>0. x \in U /\ x # f[p]
    BY <1>14
  <2>1. PICK j \in 1..n : f[j] = x /\ j # p
    BY <1>3, <2>0
  <2>2. CASE j < p
    <3>1. j \in 1..(n - 1) /\ g[j] = f[j]
      BY <1>3, <1>13, <2>2
    <3> QED
      BY <2>1, <3>1
  <2>3. CASE p < j
    <3>1. PICK k \in 1..(n - 1) : k = j - 1
      BY <1>3, <2>3
    <3>2. ~(k < p) /\ k + 1 = j
      BY <1>3, <2>3, <3>1
    <3>3. g[k] = f[j]
      BY <1>13, <3>2
    <3> QED
      BY <2>1, <3>3
  <2> QED
    BY <1>3, <2>1, <2>2, <2>3
<1>23. g \in [1..(n - 1) -> W]
  BY <1>13, <1>20
<1>24. g = RoomUids(W)
  BY <1>12, <1>15, <1>21, <1>22, <1>23, RisesIsListed
<1>25. QED
  BY <1>1, <1>5, <1>14, <1>24

(* A client that holds the messages V by position and is told to expunge    *)
(* the positions G, highest first, is left with the others: the fold over   *)
(* the list is the one function there is with its recursion, which          *)
(* (for a set of positions of the list) gives what they leave of V.         *)
Leaves(V, ks, s) == V \ {RoomUids(V)[ks[i]] : i \in s}

Folds(v, ks, it) ==
    it = [s \in SUBSET DOMAIN ks |->
            IF s = {} THEN v
            ELSE LET m == CHOOSE x \in s : \A y \in s : x >= y
                 IN  IF ks[m] \in DOMAIN it[s \ {m}] THEN RemoveAt(it[s \ {m}], ks[m]) ELSE it[s \ {m}]]

LEMMA DroppedFolds ==
    ASSUME NEW v, NEW ks
    PROVE  Dropped(v, ks) = (CHOOSE it : Folds(v, ks, it))[DOMAIN ks]
BY Zenon DEF Dropped, FoldLeft, MapThenFoldSet, Max, Folds

LEMMA OneLeaves ==
    ASSUME NEW V, V \subseteq Nat, IsFiniteSet(V), NEW n \in Nat, NEW ks \in [1..n -> 1..Cardinality(V)],
           \A i, j \in 1..n : i < j => ks[i] > ks[j],
           NEW s \in SUBSET (1..n), NEW m \in s, \A y \in s : m >= y
    PROVE  /\ ks[m] \in DOMAIN RoomUids(Leaves(V, ks, s \ {m}))
           /\ RemoveAt(RoomUids(Leaves(V, ks, s \ {m})), ks[m]) = RoomUids(Leaves(V, ks, s))
<1>1. PICK U : U = Leaves(V, ks, s \ {m})
  OBVIOUS
<1>2. PICK W : W = Leaves(V, ks, s)
  OBVIOUS
<1>3. PICK v : v = RoomUids(V)
  OBVIOUS
<1>4. PICK p \in 1..Cardinality(V) : p = ks[m]
  OBVIOUS
<1>5. Cardinality(V) \in Nat /\ v \in [1..Cardinality(V) -> V] /\ \A i, j \in 1..Cardinality(V) : i < j => v[i] < v[j]
  BY <1>3, ListedRises, FS_CardinalityType
<1>6. U = V \ {v[ks[i]] : i \in s \ {m}} /\ W = V \ {v[ks[i]] : i \in s}
  BY <1>1, <1>2, <1>3 DEF Leaves
<1>7. W = U \ {v[p]} /\ U \subseteq V
  BY <1>4, <1>6
<1>8. \A i \in s \ {m} : ks[i] \in 1..Cardinality(V) /\ v[p] < v[ks[i]]
  <2> TAKE i \in s \ {m}
  <2>1. i < m /\ i \in 1..n /\ m \in 1..n
    OBVIOUS
  <2>2. ks[i] > p
    BY <1>4, <2>1
  <2>3. p < ks[i] /\ ks[i] \in 1..Cardinality(V)
    BY <1>4, <1>5, <2>1, <2>2
  <2> QED
    BY <1>5, <2>3
<1>9. v[p] \in U
  <2>1. v[p] \in V /\ v[p] \in Nat
    BY <1>5
  <2>2. \A i \in s \ {m} : v[ks[i]] # v[p]
    <3> TAKE i \in s \ {m}
    <3>1. v[ks[i]] \in Nat /\ v[p] < v[ks[i]]
      BY <1>5, <1>8
    <3> QED
      BY <2>1, <3>1
  <2> QED
    BY <1>6, <2>1, <2>2
<1>10. Under(U, v[p]) = Under(V, v[p])
  <2>1. \A k \in V : k < v[p] => k \in U
    <3> TAKE k \in V
    <3>1. HAVE k < v[p]
    <3>2. \A i \in s \ {m} : v[ks[i]] # k
      <4> TAKE i \in s \ {m}
      <4>1. v[ks[i]] \in Nat /\ v[p] < v[ks[i]] /\ v[p] \in Nat /\ k \in Nat
        BY <1>5, <1>8
      <4> QED
        BY <3>1, <4>1
    <3> QED
      BY <1>6, <3>2
  <2> QED
    BY <1>7, <2>1 DEF Under
<1>11. U \subseteq Nat /\ IsFiniteSet(U)
  BY <1>7, FS_Subset
<1>12. p \in 1..Cardinality(U) /\ RoomUids(U)[p] = v[p]
  <2>1. PICK x \in U : x = v[p]
    BY <1>9
  <2>2. x = RoomUids(V)[p] /\ Under(U, x) = Under(V, x) /\ x \in U /\ p \in 1..Cardinality(V)
    BY <1>3, <1>4, <1>10, <2>1
  <2>3. p \in 1..Cardinality(U)
    BY <1>11, <2>2, SamePosition
  <2>4. x = RoomUids(U)[p]
    BY <1>11, <2>2, SamePosition
  <2> QED
    BY <2>1, <2>3, <2>4
<1>13. DOMAIN RoomUids(U) = 1..Cardinality(U)
  BY <1>11, ListedRises
<1>14. RemoveAt(RoomUids(U), p) = RoomUids(W)
  BY <1>7, <1>11, <1>12, RemoveListed
<1>15. QED
  BY <1>1, <1>2, <1>4, <1>12, <1>13, <1>14

LEMMA FoldsOnlyThat ==
    ASSUME NEW V, V \subseteq Nat, IsFiniteSet(V), NEW n \in Nat, NEW ks \in [1..n -> 1..Cardinality(V)],
           \A i, j \in 1..n : i < j => ks[i] > ks[j],
           NEW it, Folds(RoomUids(V), ks, it), NEW t \in SUBSET (1..n)
    PROVE  it[t] = RoomUids(Leaves(V, ks, t))
<1> DEFINE Bad == {c \in Nat : \E s \in SUBSET (1..n) : Cardinality(s) = c /\ it[s] # RoomUids(Leaves(V, ks, s))}
<1>0. \A s \in SUBSET (1..n) : \A m \in s : (\A y \in s : m >= y)
          => /\ ks[m] \in DOMAIN RoomUids(Leaves(V, ks, s \ {m}))
             /\ RemoveAt(RoomUids(Leaves(V, ks, s \ {m})), ks[m]) = RoomUids(Leaves(V, ks, s))
  BY OneLeaves
<1>1. SUFFICES ASSUME it[t] # RoomUids(Leaves(V, ks, t)) PROVE FALSE
  OBVIOUS
<1>2. \A s \in SUBSET (1..n) : IsFiniteSet(s) /\ Cardinality(s) \in Nat
  <2>1. IsFiniteSet(1..n)
    BY FS_Interval
  <2> QED
    BY <2>1, FS_Subset, FS_CardinalityType
<1>3. Bad \subseteq Nat /\ Bad # {}
  BY <1>1, <1>2
<1>4. PICK c \in Bad : \A d \in Bad : c <= d
  BY <1>3, LeastMember
<1>5. PICK s \in SUBSET (1..n) : Cardinality(s) = c /\ it[s] # RoomUids(Leaves(V, ks, s))
  BY <1>4
<1>6. DOMAIN ks = 1..n
  OBVIOUS
<1>7. it[s] = IF s = {} THEN RoomUids(V)
              ELSE LET m == CHOOSE x \in s : \A y \in s : x >= y
                   IN  IF ks[m] \in DOMAIN it[s \ {m}] THEN RemoveAt(it[s \ {m}], ks[m]) ELSE it[s \ {m}]
  BY <1>6 DEF Folds
<1>8. CASE s = {}
  <2>1. Leaves(V, ks, s) = V
    BY <1>8 DEF Leaves
  <2> QED
    BY <1>5, <1>7, <1>8, <2>1
<1>9. CASE s # {}
  <2>1. s \subseteq 0..n
    OBVIOUS
  <2>2. \E m \in s : \A y \in s : m >= y
    <3>1. \E m \in s : \A y \in s : y <= m
      BY <1>9, <2>1, GreatestMember
    <3>2. \A x, y \in s : y <= x => x >= y
      OBVIOUS
    <3> QED
      BY <3>1, <3>2
  <2>3. PICK m \in s : m = (CHOOSE x \in s : \A y \in s : x >= y) /\ \A y \in s : m >= y
    BY <2>2
  <2>4. it[s] = IF ks[m] \in DOMAIN it[s \ {m}] THEN RemoveAt(it[s \ {m}], ks[m]) ELSE it[s \ {m}]
    BY <1>7, <1>9, <2>3
  <2>5. Cardinality(s \ {m}) = c - 1 /\ c \in Nat /\ c - 1 \in Nat /\ s \ {m} \in SUBSET (1..n)
    <3>1. s \ {m} \in SUBSET (1..n)
      OBVIOUS
    <3>2. Cardinality(s \ {m}) \in Nat
      BY <1>2, <3>1
    <3>3. Cardinality(s \ {m}) = Cardinality(s) - 1
      BY <1>2, FS_RemoveElement
    <3> QED
      BY <1>4, <1>5, <3>1, <3>2, <3>3
  <2>6. c - 1 \notin Bad
    BY <1>4, <2>5
  <2>7. it[s \ {m}] = RoomUids(Leaves(V, ks, s \ {m}))
    BY <2>5, <2>6
  <2>8. ks[m] \in DOMAIN it[s \ {m}] /\ RemoveAt(it[s \ {m}], ks[m]) = RoomUids(Leaves(V, ks, s))
    BY <1>0, <2>3, <2>7
  <2> QED
    BY <1>5, <2>4, <2>8
<1>10. QED
  BY <1>8, <1>9

LEMMA FoldsExists ==
    ASSUME NEW V, V \subseteq Nat, IsFiniteSet(V), NEW n \in Nat, NEW ks \in [1..n -> 1..Cardinality(V)],
           \A i, j \in 1..n : i < j => ks[i] > ks[j]
    PROVE  \E it : Folds(RoomUids(V), ks, it)
<1>0. \A s \in SUBSET (1..n) : \A m \in s : (\A y \in s : m >= y)
          => /\ ks[m] \in DOMAIN RoomUids(Leaves(V, ks, s \ {m}))
             /\ RemoveAt(RoomUids(Leaves(V, ks, s \ {m})), ks[m]) = RoomUids(Leaves(V, ks, s))
  BY OneLeaves
<1>1. PICK it : it = [s \in SUBSET (1..n) |-> RoomUids(Leaves(V, ks, s))]
  OBVIOUS
<1>2. DOMAIN ks = 1..n
  OBVIOUS
<1>3. ASSUME NEW s \in SUBSET (1..n)
      PROVE  it[s] = IF s = {} THEN RoomUids(V)
                     ELSE LET m == CHOOSE x \in s : \A y \in s : x >= y
                          IN  IF ks[m] \in DOMAIN it[s \ {m}] THEN RemoveAt(it[s \ {m}], ks[m]) ELSE it[s \ {m}]
  <2>1. CASE s = {}
    <3>1. Leaves(V, ks, s) = V
      BY <2>1 DEF Leaves
    <3> QED
      BY <1>1, <2>1, <3>1
  <2>2. CASE s # {}
    <3>1. s \subseteq 0..n
      OBVIOUS
    <3>2. \E m \in s : \A y \in s : m >= y
      <4>1. \E m \in s : \A y \in s : y <= m
        BY <2>2, <3>1, GreatestMember
      <4>2. \A x, y \in s : y <= x => x >= y
        OBVIOUS
      <4> QED
        BY <4>1, <4>2
    <3>3. PICK m \in s : m = (CHOOSE x \in s : \A y \in s : x >= y) /\ \A y \in s : m >= y
      BY <3>2
    <3>4. s \ {m} \in SUBSET (1..n)
      OBVIOUS
    <3>5. it[s \ {m}] = RoomUids(Leaves(V, ks, s \ {m})) /\ it[s] = RoomUids(Leaves(V, ks, s))
      BY <1>1, <3>4
    <3>6. ks[m] \in DOMAIN it[s \ {m}] /\ RemoveAt(it[s \ {m}], ks[m]) = it[s]
      BY <1>0, <3>3, <3>5
    <3> QED
      BY <2>2, <3>3, <3>6
  <2> QED
    BY <2>1, <2>2
<1>4. it = [s \in SUBSET DOMAIN ks |->
              IF s = {} THEN RoomUids(V)
              ELSE LET m == CHOOSE x \in s : \A y \in s : x >= y
                   IN  IF ks[m] \in DOMAIN it[s \ {m}] THEN RemoveAt(it[s \ {m}], ks[m]) ELSE it[s \ {m}]]
  BY <1>1, <1>2, <1>3, Zenon
<1>5. Folds(RoomUids(V), ks, it)
  BY <1>4 DEF Folds
<1>6. QED
  BY <1>5

LEMMA DroppedRest ==
    ASSUME NEW V, V \subseteq Nat, IsFiniteSet(V), NEW G, G \subseteq 1..Cardinality(V)
    PROVE  Dropped(RoomUids(V), ExpungeOrder(G)) = RoomUids(V \ {RoomUids(V)[i] : i \in G})
<1>1. PICK ks : ks = ExpungeOrder(G)
  OBVIOUS
<1>2. PICK n : n = Cardinality(G)
  OBVIOUS
<1>3. Cardinality(V) \in Nat /\ G \subseteq Nat /\ IsFiniteSet(G) /\ n \in Nat
  <2>1. Cardinality(V) \in Nat
    BY FS_CardinalityType
  <2>2. IsFiniteSet(1..Cardinality(V))
    BY <2>1, FS_Interval
  <2>3. IsFiniteSet(G)
    BY <2>2, FS_Subset
  <2> QED
    BY <1>2, <2>1, <2>3, FS_CardinalityType
<1>4. /\ ks \in [1..n -> G]
      /\ \A i, j \in 1..n : i < j => ks[i] > ks[j]
      /\ \A x \in G : \E i \in 1..n : ks[i] = x
  BY <1>1, <1>2, <1>3, ListedFalls
<1>5. ks \in [1..n -> 1..Cardinality(V)] /\ DOMAIN ks = 1..n
  BY <1>4
<1>6. PICK it : it = CHOOSE f : Folds(RoomUids(V), ks, f)
  OBVIOUS
<1>7. Folds(RoomUids(V), ks, it)
  BY <1>3, <1>4, <1>5, <1>6, FoldsExists
<1>8. it[1..n] = RoomUids(Leaves(V, ks, 1..n))
  <2>1. \A t \in SUBSET (1..n) : it[t] = RoomUids(Leaves(V, ks, t))
    BY <1>3, <1>4, <1>5, <1>7, FoldsOnlyThat
  <2> QED
    BY <2>1
<1>9. {RoomUids(V)[ks[i]] : i \in 1..n} = {RoomUids(V)[i] : i \in G}
  BY <1>4
<1>10. Dropped(RoomUids(V), ks) = it[1..n]
  BY <1>5, <1>6, DroppedFolds
<1>11. QED
  BY <1>1, <1>8, <1>9, <1>10 DEF Leaves

-----------------------------------------------------------------------------
(* The store holds numbers handed out so far, a session lists numbers in    *)
(* order, and what a POP3 session may delete was in its list, all of which  *)
(* is older than the mail that came in since.  What a client made of the    *)
(* responses (view) may be anything.                                        *)
Lists == {RoomUids(V) : V \in SUBSET MailNums}
ImapPcs == {"cmd", "idle", "report", "closed"}
ImapJobs(W) == [pc : ImapPcs, tls : BOOLEAN, authed : BOOLEAN, selected : BOOLEAN, room : Boxes,
                uids : Lists, view : W, token : W]
PopJobs == [pc : {"cmd", "closed"}, authed : BOOLEAN, drop : Lists, gone : SUBSET MailNums]

ImapJob(j) == (\E W : j \in ImapJobs(W)) /\ (j.selected = TRUE => j.authed = TRUE)

StoreTypes ==
    /\ num \in 0..MaxNum /\ box \in [Boxes -> SUBSET MailNums] /\ tombMax \in [Boxes -> 0..MaxNum]
    /\ flagged \subseteq MailNums /\ lastRead \in 0..MaxNum
    /\ \A b \in Boxes : \A n \in box[b] : n <= num

ImapTypes ==
    /\ \E W : imap \in [Imaps -> ImapJobs(W)]
    /\ \A s \in Imaps : imap[s].selected = TRUE => imap[s].authed = TRUE

PopInv ==
    /\ pop \in [Pops -> PopJobs] /\ late \in [Imaps \cup Pops -> SUBSET MailNums]
    /\ \A p \in Pops : /\ pop[p].gone \subseteq Range(pop[p].drop)
                       /\ \A k \in Range(pop[p].drop) : k <= num /\ \A n \in late[p] : k < n

AccInv == StoreTypes /\ ImapTypes /\ PopInv

LEMMA MailNumbers == MailNums \subseteq Nat /\ MailNums \subseteq 0..MaxNum /\ IsFiniteSet(MailNums) /\ MaxNum \in Nat /\ MaxMail \in Nat
BY AccessAssumption, FS_Interval DEF MailNums

LEMMA ListOf ==
    ASSUME NEW V \in SUBSET MailNums
    PROVE  /\ RoomUids(V) \in [1..Cardinality(V) -> V] /\ RoomUids(V) \in Seq(MailNums)
           /\ Len(RoomUids(V)) = Cardinality(V) /\ DOMAIN RoomUids(V) = 1..Cardinality(V) /\ Cardinality(V) \in Nat
           /\ Range(RoomUids(V)) = V /\ Ascending(RoomUids(V)) /\ RoomUids(V) \in Lists
<1>1. IsFiniteSet(V) /\ V \subseteq Nat /\ Cardinality(V) \in Nat
  BY MailNumbers, FS_Subset, FS_CardinalityType
<1>2. PICK f : f = RoomUids(V)
  OBVIOUS
<1>3. PICK n \in Nat : n = Cardinality(V)
  BY <1>1
<1>4. /\ f \in [1..n -> V] /\ \A i, j \in 1..n : i < j => f[i] < f[j]
      /\ \A x \in V : \E i \in 1..n : f[i] = x
  BY <1>1, <1>2, <1>3, ListedRises
<1>5. f \in Seq(MailNums) /\ Len(f) = n /\ DOMAIN f = 1..n
  BY <1>4
<1>6. Range(f) = V
  <2>1. DOMAIN f = 1..n
    BY <1>4
  <2> QED
    BY <1>4, <2>1 DEF Range
<1>7. Ascending(f)
  BY <1>4, <1>5 DEF Ascending
<1>8. f \in Lists
  BY <1>2 DEF Lists
<1>9. QED
  BY <1>2, <1>3, <1>4, <1>5, <1>6, <1>7, <1>8

LEMMA NoList == <<>> = RoomUids({}) /\ <<>> \in Lists /\ Range(<<>>) = {}
<1>1. {} \in SUBSET MailNums
  OBVIOUS
<1>2. Len(RoomUids({})) = 0 /\ RoomUids({}) \in Seq(MailNums) /\ RoomUids({}) \in Lists /\ Range(RoomUids({})) = {}
  BY <1>1, ListOf, FS_EmptySet
<1>3. RoomUids({}) = <<>>
  BY <1>2, EmptySeq
<1>4. QED
  BY <1>2, <1>3

LEMMA ListIn ==
    ASSUME NEW u \in Lists
    PROVE  /\ Range(u) \in SUBSET MailNums /\ u = RoomUids(Range(u)) /\ u \in Seq(MailNums) /\ Ascending(u)
           /\ \A i \in DOMAIN u : u[i] \in MailNums /\ u[i] \in Range(u)
<1>1. PICK V \in SUBSET MailNums : u = RoomUids(V)
  BY DEF Lists
<1>2. Range(u) = V /\ u \in Seq(MailNums) /\ Ascending(u)
  BY <1>1, ListOf
<1>3. \A i \in DOMAIN u : u[i] \in Range(u)
  BY DEF Range
<1>4. QED
  BY <1>1, <1>2, <1>3

-----------------------------------------------------------------------------
(* Changes to a session, and to the store *)

LEMMA JobOf == ASSUME ImapTypes, NEW s \in Imaps PROVE ImapJob(imap[s])
BY DEF ImapTypes, ImapJob

LEMMA ImapSet ==
    ASSUME ImapTypes, NEW s \in Imaps, NEW j, ImapJob(j), ImapIs(s, j)
    PROVE  ImapTypes' /\ imap'[s] = j
<1>1. PICK W : imap \in [Imaps -> ImapJobs(W)]
  BY DEF ImapTypes
<1>2. PICK X : j \in ImapJobs(X)
  BY DEF ImapJob
<1>3. PICK Y : Y = W \cup X
  OBVIOUS
<1>4. ImapJobs(W) \subseteq ImapJobs(Y) /\ ImapJobs(X) \subseteq ImapJobs(Y)
  BY <1>3 DEF ImapJobs
<1>5. imap \in [Imaps -> ImapJobs(Y)] /\ j \in ImapJobs(Y)
  BY <1>1, <1>2, <1>4
<1>6. imap' \in [Imaps -> ImapJobs(Y)] /\ imap'[s] = j /\ \A t \in Imaps \ {s} : imap'[t] = imap[t]
  BY <1>5 DEF ImapIs
<1>7. \A t \in Imaps : imap'[t].selected = TRUE => imap'[t].authed = TRUE
  BY <1>6 DEF ImapTypes, ImapJob
<1>8. QED
  BY <1>6, <1>7 DEF ImapTypes

LEMMA FreshJob ==
    /\ \A b \in BOOLEAN : ImapJob([ImapFresh EXCEPT !.tls = b])
    /\ \A pc \in ImapPcs : ImapJob([ImapFresh EXCEPT !.pc = pc])
    /\ ImapJob(ImapFresh) /\ ImapFresh.selected = FALSE
<1>1. PICK W : W = {<<>>, 0}
  OBVIOUS
<1>2. ImapFresh \in ImapJobs(W) /\ ImapFresh.selected = FALSE
  <2>1. <<>> \in W /\ 0 \in W /\ <<>> \in Lists /\ Inbox \in Boxes /\ "cmd" \in ImapPcs
    BY <1>1, NoList, AccessAssumption DEF ImapPcs
  <2> QED
    BY <2>1 DEF ImapFresh, ImapJobs
<1>3. ASSUME NEW b \in BOOLEAN PROVE ImapJob([ImapFresh EXCEPT !.tls = b])
  <2>1. PICK j : j = [ImapFresh EXCEPT !.tls = b]
    OBVIOUS
  <2>2. j \in ImapJobs(W) /\ j.selected = FALSE
    BY <1>2, <2>1 DEF ImapJobs
  <2> QED
    BY <2>1, <2>2 DEF ImapJob
<1>4. ASSUME NEW pc \in ImapPcs PROVE ImapJob([ImapFresh EXCEPT !.pc = pc])
  <2>1. PICK j : j = [ImapFresh EXCEPT !.pc = pc]
    OBVIOUS
  <2>2. j \in ImapJobs(W) /\ j.selected = FALSE
    BY <1>2, <2>1 DEF ImapJobs
  <2> QED
    BY <2>1, <2>2 DEF ImapJob
<1>5. ImapJob(ImapFresh)
  BY <1>2 DEF ImapJob
<1>6. QED
  BY <1>2, <1>3, <1>4, <1>5

LEMMA JobUids ==
    ASSUME NEW j, ImapJob(j), NEW u \in Lists, NEW v
    PROVE  /\ ImapJob([j EXCEPT !.uids = u, !.view = v]) /\ ImapJob([j EXCEPT !.uids = u])
           /\ ImapJob([j EXCEPT !.selected = FALSE, !.uids = u, !.view = v])
           /\ \A b \in Boxes : j.authed = TRUE => ImapJob([j EXCEPT !.selected = TRUE, !.room = b, !.uids = u, !.view = v])
<1>1. PICK X : j \in ImapJobs(X)
  BY DEF ImapJob
<1>2. PICK W : W = X \cup {v}
  OBVIOUS
<1>3. j \in ImapJobs(W) /\ v \in W
  BY <1>1, <1>2 DEF ImapJobs
<1>4. j.selected = TRUE => j.authed = TRUE
  BY DEF ImapJob
<1>5. PICK k : k = [j EXCEPT !.uids = u]
  OBVIOUS
<1>6. k \in ImapJobs(W) /\ k.selected = j.selected /\ k.authed = j.authed
  BY <1>3, <1>5 DEF ImapJobs
<1>7. PICK m : m = [k EXCEPT !.view = v]
  OBVIOUS
<1>8. m \in ImapJobs(W) /\ m.selected = j.selected /\ m.authed = j.authed
  BY <1>3, <1>6, <1>7 DEF ImapJobs
<1>9. m = [j EXCEPT !.uids = u, !.view = v]
  BY <1>3, <1>5, <1>7 DEF ImapJobs
<1>10. PICK q : q = [m EXCEPT !.selected = FALSE]
  OBVIOUS
<1>11. q \in ImapJobs(W) /\ q.selected = FALSE
  BY <1>8, <1>10 DEF ImapJobs
<1>12. q = [j EXCEPT !.selected = FALSE, !.uids = u, !.view = v]
  BY <1>3, <1>9, <1>10 DEF ImapJobs
<1>13. ASSUME NEW b \in Boxes, j.authed = TRUE
       PROVE  ImapJob([j EXCEPT !.selected = TRUE, !.room = b, !.uids = u, !.view = v])
  <2>1. PICK r : r = [m EXCEPT !.selected = TRUE, !.room = b]
    OBVIOUS
  <2>2. r \in ImapJobs(W) /\ r.authed = TRUE
    BY <1>8, <1>13, <2>1 DEF ImapJobs
  <2>3. r = [j EXCEPT !.selected = TRUE, !.room = b, !.uids = u, !.view = v]
    BY <1>3, <1>9, <2>1 DEF ImapJobs
  <2>4. ImapJob(r)
    BY <2>2 DEF ImapJob
  <2> QED
    BY <2>3, <2>4
<1>14. ImapJob(k) /\ ImapJob(m) /\ ImapJob(q)
  BY <1>4, <1>6, <1>8, <1>11 DEF ImapJob
<1>15. QED
  BY <1>5, <1>9, <1>12, <1>13, <1>14

LEMMA JobPc ==
    ASSUME NEW j, ImapJob(j), NEW pc \in ImapPcs, NEW t
    PROVE  /\ ImapJob([j EXCEPT !.pc = pc, !.token = t]) /\ ImapJob([j EXCEPT !.pc = pc])
           /\ ImapJob([j EXCEPT !.authed = TRUE])
<1>1. PICK X : j \in ImapJobs(X)
  BY DEF ImapJob
<1>2. PICK W : W = X \cup {t}
  OBVIOUS
<1>3. j \in ImapJobs(W) /\ t \in W
  BY <1>1, <1>2 DEF ImapJobs
<1>4. j.selected = TRUE => j.authed = TRUE
  BY DEF ImapJob
<1>5. PICK k : k = [j EXCEPT !.pc = pc]
  OBVIOUS
<1>6. k \in ImapJobs(W) /\ k.selected = j.selected /\ k.authed = j.authed
  BY <1>3, <1>5 DEF ImapJobs
<1>7. PICK m : m = [j EXCEPT !.pc = pc, !.token = t]
  OBVIOUS
<1>8. m \in ImapJobs(W) /\ m.selected = j.selected /\ m.authed = j.authed
  BY <1>3, <1>7 DEF ImapJobs
<1>9. PICK q : q = [j EXCEPT !.authed = TRUE]
  OBVIOUS
<1>10. q \in ImapJobs(W) /\ q.authed = TRUE
  BY <1>3, <1>9 DEF ImapJobs
<1>11. ImapJob(k) /\ ImapJob(m) /\ ImapJob(q)
  BY <1>4, <1>6, <1>8, <1>10 DEF ImapJob
<1>12. QED
  BY <1>5, <1>7, <1>9, <1>11

LEMMA PopKeeps ==
    ASSUME PopInv, pop' = pop, num \in Nat, num' \in Nat, num <= num', late' \in [Imaps \cup Pops -> SUBSET MailNums],
           \A p \in Pops : late'[p] \subseteq late[p] \cup {num + 1}
    PROVE  PopInv'
<1>1. ASSUME NEW p \in Pops, NEW k \in Range(pop[p].drop) PROVE k <= num' /\ \A n \in late'[p] : k < n
  <2>1. k <= num /\ \A n \in late[p] : k < n
    BY <1>1 DEF PopInv
  <2>2. k \in Nat
    <3>1. pop[p].drop \in Lists
      BY DEF PopInv, PopJobs
    <3> QED
      BY <3>1, ListIn, MailNumbers
  <2>3. k <= num' /\ k < num + 1
    BY <2>1, <2>2
  <2> QED
    BY <2>1, <2>3
<1>2. QED
  BY <1>1 DEF PopInv

LEMMA StoreSame == StoreTypes /\ UNCHANGED store => StoreTypes' /\ num' = num
BY DEF StoreTypes, store

LEMMA DeliverKeeps ==
    ASSUME StoreTypes, PopInv, NEW b \in Boxes, Deliver(b), pop' = pop
    PROVE  /\ num' \in 0..MaxNum /\ box' \in [Boxes -> SUBSET MailNums] /\ num + 1 \in MailNums
           /\ \A d \in Boxes : \A n \in box'[d] : n <= num'
           /\ PopInv'
<1>1. num < MaxMail /\ num' = num + 1 /\ box' = [box EXCEPT ![b] = @ \cup {num + 1}]
  BY DEF Deliver
<1>2. num \in Nat /\ num + 1 \in MailNums /\ num' \in 0..MaxNum
  BY <1>1, MailNumbers, AccessAssumption DEF StoreTypes, MailNums
<1>3. box \in [Boxes -> SUBSET MailNums] /\ \A d \in Boxes : \A n \in box[d] : n <= num
  BY DEF StoreTypes
<1>4. box' \in [Boxes -> SUBSET MailNums]
  BY <1>1, <1>2, <1>3
<1>5. \A d \in Boxes : box'[d] \subseteq box[d] \cup {num + 1}
  BY <1>1, <1>3
<1>6. \A d \in Boxes : \A n \in box'[d] : n <= num'
  <2> TAKE d \in Boxes
  <2> TAKE n \in box'[d]
  <2>1. n \in Nat /\ (n <= num \/ n = num + 1)
    BY <1>3, <1>4, <1>5, MailNumbers
  <2> QED
    BY <1>1, <1>2, <2>1
<1>7. late' \in [Imaps \cup Pops -> SUBSET MailNums] /\ \A p \in Pops : late'[p] \subseteq late[p] \cup {num + 1}
  <2>1. late \in [Imaps \cup Pops -> SUBSET MailNums]
    BY DEF PopInv
  <2> QED
    BY <1>2, <2>1 DEF Deliver
<1>8. PopInv'
  BY <1>1, <1>2, <1>7, PopKeeps
<1>9. QED
  BY <1>2, <1>4, <1>6, <1>8

LEMMA UnlinkKeeps ==
    ASSUME StoreTypes, NEW b \in Boxes, NEW gone, UnlinkAll(b, gone)
    PROVE  /\ num' \in 0..MaxNum /\ num <= num' /\ box' \in [Boxes -> SUBSET MailNums] /\ tombMax' \in [Boxes -> 0..MaxNum]
           /\ \A d \in Boxes : \A n \in box'[d] : n <= num'
           /\ box'[b] = box[b] \ gone
<1>1. PICK here : here = gone \cap box[b]
  OBVIOUS
<1>2. /\ num + Cardinality(here) <= MaxNum /\ num' = num + Cardinality(here)
      /\ box' = [box EXCEPT ![b] = @ \ here] /\ tombMax' = [tombMax EXCEPT ![b] = IF here = {} THEN @ ELSE num']
  BY <1>1 DEF UnlinkAll
<1>3. /\ box \in [Boxes -> SUBSET MailNums] /\ tombMax \in [Boxes -> 0..MaxNum] /\ num \in 0..MaxNum
      /\ \A d \in Boxes : \A n \in box[d] : n <= num
  BY DEF StoreTypes
<1>4. Cardinality(here) \in Nat
  <2>1. here \in SUBSET MailNums
    BY <1>1, <1>3
  <2> QED
    BY <2>1, MailNumbers, FS_Subset, FS_CardinalityType
<1>5. num' \in 0..MaxNum /\ num <= num'
  BY <1>2, <1>3, <1>4, MailNumbers
<1>6. box' \in [Boxes -> SUBSET MailNums] /\ box'[b] = box[b] \ gone /\ \A d \in Boxes : box'[d] \subseteq box[d]
  BY <1>1, <1>2, <1>3
<1>7. tombMax' \in [Boxes -> 0..MaxNum]
  BY <1>2, <1>3, <1>5
<1>8. \A d \in Boxes : \A n \in box'[d] : n <= num'
  <2> TAKE d \in Boxes
  <2> TAKE n \in box'[d]
  <2>1. n \in Nat /\ n <= num
    BY <1>3, <1>6, MailNumbers
  <2> QED
    BY <1>3, <1>5, <2>1
<1>9. QED
  BY <1>5, <1>6, <1>7, <1>8

-----------------------------------------------------------------------------
(* One lemma for each action that changes the store, one for the others *)

LEMMA ImapQuiet ==
    ASSUME AccInv, NEW s \in Imaps,
           \/ ImapStartTls(s) \/ ImapLogin(s) \/ (\E b \in Boxes : ImapSelect(s, b)) \/ ImapClose(s) \/ ImapNoop(s)
           \/ ImapLogout(s) \/ ImapIdle(s) \/ IdlePoll(s) \/ IdleReport(s) \/ IdleEnds(s)
    PROVE  AccInv'
<1>1. StoreTypes /\ ImapTypes /\ PopInv /\ ImapJob(imap[s])
  BY JobOf DEF AccInv
<1>2. UNCHANGED store /\ pop' = pop /\ late' \in [Imaps \cup Pops -> SUBSET MailNums]
      /\ \A p \in Pops : late'[p] \subseteq late[p] \cup {num + 1}
  <2>1. late \in [Imaps \cup Pops -> SUBSET MailNums]
    BY <1>1 DEF PopInv
  <2>2. CASE ImapStartTls(s) \/ ImapLogin(s) \/ (\E b \in Boxes : ImapSelect(s, b)) \/ ImapClose(s) \/ ImapNoop(s)
             \/ ImapLogout(s) \/ IdlePoll(s)
    <3>1. UNCHANGED store /\ pop' = pop /\ late' = late
      BY <2>2 DEF ImapStartTls, ImapLogin, ImapSelect, ImapClose, ImapNoop, ImapLogout, IdlePoll
    <3> QED
      BY <2>1, <3>1
  <2>3. CASE ImapIdle(s) \/ IdleReport(s) \/ IdleEnds(s)
    <3>1. UNCHANGED store /\ pop' = pop
      BY <2>3 DEF ImapIdle, IdleReport, IdleEnds
    <3>2. \E l \in SUBSET late[s] : late' = [late EXCEPT ![s] = l]
      <4>1. CASE ImapIdle(s) \/ IdleEnds(s)
        <5>1. late' = [late EXCEPT ![s] = {}] /\ {} \in SUBSET late[s]
          BY <4>1 DEF ImapIdle, IdleEnds
        <5> QED
          BY <5>1
      <4>2. CASE IdleReport(s)
        <5>1. late' = [late EXCEPT ![s] = @ \ box[imap[s].room]]
          BY <4>2 DEF IdleReport
        <5>2. late' = [late EXCEPT ![s] = late[s] \ box[imap[s].room]]
          BY <2>1, <5>1
        <5> QED
          BY <5>2
      <4> QED
        BY <2>3, <4>1, <4>2
    <3> QED
      BY <2>1, <3>1, <3>2
  <2> QED
    BY <2>2, <2>3
<1>3. StoreTypes' /\ PopInv'
  <2>1. StoreTypes' /\ num' = num
    BY <1>1, <1>2, StoreSame
  <2>2. num \in Nat /\ num' \in Nat /\ num <= num'
    BY <1>1, <2>1, MailNumbers DEF StoreTypes
  <2> QED
    BY <1>1, <1>2, <2>1, <2>2, PopKeeps
<1>4. \E j : ImapJob(j) /\ ImapIs(s, j)
  <2>0. "cmd" \in ImapPcs /\ "idle" \in ImapPcs /\ "report" \in ImapPcs /\ "closed" \in ImapPcs /\ TRUE \in BOOLEAN
    BY DEF ImapPcs
  <2>1. ASSUME NEW b \in Boxes PROVE RoomUids(box[b]) \in Lists
    BY <1>1, ListOf DEF StoreTypes
  <2>2. CASE ImapStartTls(s)
    BY <2>0, <2>2, FreshJob DEF ImapStartTls
  <2>3. CASE ImapLogin(s)
    BY <1>1, <2>0, <2>3, JobPc DEF ImapLogin
  <2>4. ASSUME NEW b \in Boxes, ImapSelect(s, b) PROVE \E j : ImapJob(j) /\ ImapIs(s, j)
    <3>1. PICK now \in Lists : now = RoomUids(box[b])
      BY <2>1
    <3>2. ImapIs(s, [imap[s] EXCEPT !.selected = TRUE, !.room = b, !.uids = now, !.view = now]) /\ imap[s].authed
      BY <2>4, <3>1 DEF ImapSelect, Told
    <3>3. imap[s].authed = TRUE
      BY <1>1, <3>2 DEF ImapJob, ImapJobs
    <3> QED
      BY <1>1, <3>2, <3>3, JobUids
  <2>5. CASE ImapClose(s)
    <3>1. ImapIs(s, [imap[s] EXCEPT !.selected = FALSE, !.uids = <<>>, !.view = <<>>])
      BY <2>5 DEF ImapClose
    <3> QED
      BY <1>1, <3>1, NoList, JobUids
  <2>6. \E j : ImapJob(j) /\ j = ReportChanges(imap[s])
    <3>1. PICK k : k = imap[s]
      OBVIOUS
    <3>2. ImapJob(k) /\ k.room \in Boxes
      BY <1>1, <3>1 DEF ImapJob, ImapJobs
    <3>3. PICK now \in Lists : now = RoomUids(box[k.room])
      BY <2>1, <3>2
    <3>4. PICK v : ReportChanges(k) = [k EXCEPT !.uids = now, !.view = v]
      BY <3>3, Zenon DEF ReportChanges
    <3>5. ImapJob([k EXCEPT !.uids = now, !.view = v])
      BY <3>2, JobUids
    <3> QED
      BY <3>1, <3>4, <3>5
  <2>7. CASE ImapNoop(s)
    BY <2>6, <2>7 DEF ImapNoop
  <2>8. CASE ImapLogout(s)
    BY <2>0, <2>8, FreshJob DEF ImapLogout
  <2>9. CASE ImapIdle(s)
    <3>1. PICK t : t = RoomChangeToken(imap[s].room)
      OBVIOUS
    <3>2. ImapIs(s, [imap[s] EXCEPT !.pc = "idle", !.token = t])
      BY <2>9, <3>1 DEF ImapIdle
    <3> QED
      BY <1>1, <2>0, <3>2, JobPc
  <2>10. CASE IdlePoll(s)
    <3>1. PICK t : t = RoomChangeToken(imap[s].room)
      OBVIOUS
    <3>2. ImapIs(s, [imap[s] EXCEPT !.pc = "report", !.token = t])
      BY <2>10, <3>1 DEF IdlePoll
    <3> QED
      BY <1>1, <2>0, <3>2, JobPc
  <2>11. CASE IdleReport(s)
    <3>1. PICK j : ImapJob(j) /\ j = ReportChanges(imap[s])
      BY <2>6
    <3>2. ImapIs(s, [j EXCEPT !.pc = "idle"])
      BY <2>11, <3>1 DEF IdleReport
    <3> QED
      BY <2>0, <3>1, <3>2, JobPc
  <2>12. CASE IdleEnds(s)
    <3>1. \/ ImapIs(s, [imap[s] EXCEPT !.pc = "cmd", !.token = 0])
          \/ ImapIs(s, [ImapFresh EXCEPT !.pc = "closed"])
      BY <2>12 DEF IdleEnds
    <3> QED
      BY <1>1, <2>0, <3>1, JobPc, FreshJob
  <2> QED
    BY <2>2, <2>3, <2>4, <2>5, <2>7, <2>8, <2>9, <2>10, <2>11, <2>12
<1>5. ImapTypes'
  BY <1>1, <1>4, ImapSet
<1>6. QED
  BY <1>3, <1>5 DEF AccInv

LEMMA AccStore ==
    ASSUME AccInv, NEW s \in Imaps, NEW i \in MailNums, NEW add \in BOOLEAN, ImapStore(s, i, add) PROVE AccInv'
<1>1. StoreTypes /\ ImapTypes /\ PopInv /\ ImapJob(imap[s])
  BY JobOf DEF AccInv
<1>2. i \in DOMAIN imap[s].uids /\ UNCHANGED <<num, box, tombMax, lastRead, imap, pop, late>>
      /\ flagged' = IF add THEN flagged \cup {imap[s].uids[i]} ELSE flagged \ {imap[s].uids[i]}
  BY DEF ImapStore
<1>3. imap[s].uids[i] \in MailNums
  BY <1>1, <1>2, ListIn DEF ImapJob, ImapJobs
<1>4. flagged' \subseteq MailNums
  BY <1>1, <1>2, <1>3 DEF StoreTypes
<1>5. StoreTypes' /\ ImapTypes' /\ PopInv'
  BY <1>1, <1>2, <1>4 DEF StoreTypes, ImapTypes, PopInv
<1>6. QED
  BY <1>5 DEF AccInv

LEMMA AccCopyMove ==
    ASSUME AccInv, NEW s \in Imaps, NEW i \in MailNums, NEW dest \in Boxes, NEW move \in BOOLEAN,
           ImapCopyMove(s, i, dest, move)
    PROVE  AccInv'
<1>1. StoreTypes /\ ImapTypes /\ PopInv /\ ImapJob(imap[s])
  BY JobOf DEF AccInv
<1>2. PICK j : j = imap[s]
  OBVIOUS
<1>3. PICK n : n = j.uids[i]
  OBVIOUS
<1>4. ImapJob(j) /\ j.room \in Boxes /\ i \in DOMAIN j.uids /\ n \in MailNums
  <2>1. i \in DOMAIN j.uids
    BY <1>2 DEF ImapCopyMove
  <2>2. ImapJob(j) /\ j.room \in Boxes /\ j.uids \in Lists
    BY <1>1, <1>2 DEF ImapJob, ImapJobs
  <2> QED
    BY <1>3, <2>1, <2>2, ListIn
<1>5. UNCHANGED <<flagged, lastRead, pop, late>> /\ ImapIs(s, IF move THEN [j EXCEPT !.uids = RoomUids(box'[j.room])] ELSE j)
  BY <1>2 DEF ImapCopyMove
<1>6. /\ box \in [Boxes -> SUBSET MailNums] /\ num \in 0..MaxNum /\ tombMax \in [Boxes -> 0..MaxNum]
      /\ \A b \in Boxes : \A k \in box[b] : k <= num
  BY <1>1 DEF StoreTypes
<1>7. /\ num' \in 0..MaxNum /\ num <= num' /\ tombMax' \in [Boxes -> 0..MaxNum] /\ box' \in [Boxes -> SUBSET MailNums]
      /\ \A b \in Boxes : box'[b] \subseteq box[b] \/ (n \in box[j.room] /\ box'[b] \subseteq box[b] \cup {n})
  <2>1. CASE n \in box[j.room] /\ j.room # dest /\ move
    <3>1. num < MaxNum /\ num' = num + 1 /\ tombMax' = [tombMax EXCEPT ![j.room] = num + 1]
          /\ box' = [box EXCEPT ![j.room] = @ \ {n}, ![dest] = @ \cup {n}]
      BY <1>2, <1>3, <2>1 DEF ImapCopyMove
    <3>2. num' \in 0..MaxNum /\ num <= num' /\ num + 1 \in 0..MaxNum
      BY <1>6, <3>1, MailNumbers
    <3>3. box' = [box EXCEPT ![j.room] = box[j.room] \ {n}, ![dest] = box[dest] \cup {n}]
      BY <1>4, <1>6, <2>1, <3>1
    <3>4. box' \in [Boxes -> SUBSET MailNums] /\ \A b \in Boxes : box'[b] \subseteq box[b] \cup {n}
      BY <1>4, <1>6, <3>3
    <3>5. tombMax' \in [Boxes -> 0..MaxNum]
      BY <1>6, <3>1, <3>2
    <3> QED
      BY <2>1, <3>2, <3>4, <3>5
  <2>2. CASE n \in box[j.room] /\ j.room # dest /\ ~move
    <3>1. num' = num /\ tombMax' = tombMax /\ box' = [box EXCEPT ![dest] = @ \cup {n}]
      BY <1>2, <1>3, <2>2 DEF ImapCopyMove
    <3>2. box' \in [Boxes -> SUBSET MailNums] /\ \A b \in Boxes : box'[b] \subseteq box[b] \cup {n}
      BY <1>4, <1>6, <3>1
    <3> QED
      BY <1>6, <2>2, <3>1, <3>2, MailNumbers
  <2>3. CASE ~(n \in box[j.room] /\ j.room # dest)
    <3>1. num' = num /\ tombMax' = tombMax /\ box' = box
      BY <1>2, <1>3, <2>3 DEF ImapCopyMove
    <3> QED
      BY <1>6, <3>1, MailNumbers
  <2> QED
    BY <2>1, <2>2, <2>3
<1>8. \A b \in Boxes : \A k \in box'[b] : k <= num'
  <2> TAKE b \in Boxes
  <2> TAKE k \in box'[b]
  <2>1. k \in MailNums /\ (k \in box[b] \/ (k = n /\ n \in box[j.room]))
    BY <1>7
  <2>2. k \in Nat /\ k <= num
    BY <1>4, <1>6, <2>1, MailNumbers
  <2> QED
    BY <1>6, <1>7, <2>2, MailNumbers
<1>9. StoreTypes'
  BY <1>1, <1>5, <1>7, <1>8 DEF StoreTypes
<1>10. PopInv'
  <2>1. late' = late /\ late \in [Imaps \cup Pops -> SUBSET MailNums] /\ pop' = pop
    BY <1>1, <1>5 DEF PopInv
  <2>2. num \in Nat /\ num' \in Nat /\ num <= num'
    BY <1>6, <1>7, MailNumbers
  <2>3. late' \in [Imaps \cup Pops -> SUBSET MailNums] /\ \A p \in Pops : late'[p] \subseteq late[p] \cup {num + 1}
    BY <2>1
  <2> QED
    BY <1>1, <2>1, <2>2, <2>3, PopKeeps
<1>11. ImapTypes'
  <2>1. PICK u \in Lists : u = RoomUids(box'[j.room])
    BY <1>4, <1>7, ListOf
  <2>2. ImapJob([j EXCEPT !.uids = u])
    BY <1>4, JobUids
  <2>3. CASE move
    BY <1>1, <1>5, <2>1, <2>2, <2>3, ImapSet
  <2>4. CASE ~move
    BY <1>1, <1>4, <1>5, <2>4, ImapSet
  <2> QED
    BY <2>3, <2>4
<1>12. QED
  BY <1>9, <1>10, <1>11 DEF AccInv

LEMMA AccAppend ==
    ASSUME AccInv, NEW s \in Imaps, NEW b \in Boxes, NEW deleted \in BOOLEAN, ImapAppend(s, b, deleted) PROVE AccInv'
<1>1. StoreTypes /\ ImapTypes /\ PopInv /\ ImapJob(imap[s])
  BY JobOf DEF AccInv
<1>2. PICK j : j = imap[s]
  OBVIOUS
<1>3. /\ Deliver(b) /\ flagged' = (IF deleted THEN flagged \cup {num + 1} ELSE flagged) /\ UNCHANGED <<tombMax, lastRead, pop>>
      /\ ImapIs(s, IF j.selected /\ j.room = b THEN [j EXCEPT !.uids = RoomUids(box'[b])] ELSE j)
  BY <1>2 DEF ImapAppend
<1>4. /\ num' \in 0..MaxNum /\ box' \in [Boxes -> SUBSET MailNums] /\ num + 1 \in MailNums
      /\ \A d \in Boxes : \A n \in box'[d] : n <= num'
      /\ PopInv'
  BY <1>1, <1>3, DeliverKeeps
<1>5. flagged' \subseteq MailNums
  BY <1>1, <1>3, <1>4 DEF StoreTypes
<1>6. StoreTypes'
  BY <1>1, <1>3, <1>4, <1>5 DEF StoreTypes
<1>7. ImapTypes'
  <2>1. PICK u \in Lists : u = RoomUids(box'[b])
    BY <1>4, ListOf
  <2>2. ImapJob([j EXCEPT !.uids = u]) /\ ImapJob(j)
    BY <1>1, <1>2, JobUids
  <2> QED
    BY <1>1, <1>3, <2>1, <2>2, ImapSet
<1>8. QED
  BY <1>4, <1>6, <1>7 DEF AccInv

LEMMA AccExpunge ==
    ASSUME AccInv, NEW s \in Imaps, ImapExpunge(s) PROVE AccInv'
<1>1. StoreTypes /\ ImapTypes /\ PopInv /\ ImapJob(imap[s])
  BY JobOf DEF AccInv
<1>2. PICK j : j = imap[s]
  OBVIOUS
<1>3. PICK ps : ps = {i \in DOMAIN j.uids : j.uids[i] \in flagged}
  OBVIOUS
<1>4. PICK gone : gone = {j.uids[i] : i \in ps}
  OBVIOUS
<1>5. /\ UnlinkAll(j.room, gone) /\ UNCHANGED <<flagged, lastRead, pop, late>>
      /\ ImapIs(s, [j EXCEPT !.uids = RoomUids(box'[j.room]), !.view = Dropped(@, ExpungeOrder(ps))])
  BY <1>2, <1>3, <1>4 DEF ImapExpunge
<1>6. ImapJob(j) /\ j.room \in Boxes
  BY <1>1, <1>2 DEF ImapJob, ImapJobs
<1>7. /\ num' \in 0..MaxNum /\ num <= num' /\ box' \in [Boxes -> SUBSET MailNums] /\ tombMax' \in [Boxes -> 0..MaxNum]
      /\ \A d \in Boxes : \A n \in box'[d] : n <= num'
  BY <1>1, <1>5, <1>6, UnlinkKeeps
<1>8. StoreTypes'
  BY <1>1, <1>5, <1>7 DEF StoreTypes
<1>9. PopInv'
  <2>1. late' = late /\ late \in [Imaps \cup Pops -> SUBSET MailNums] /\ pop' = pop
    BY <1>1, <1>5 DEF PopInv
  <2>2. num \in Nat /\ num' \in Nat
    BY <1>1, <1>7, MailNumbers DEF StoreTypes
  <2>3. late' \in [Imaps \cup Pops -> SUBSET MailNums] /\ \A p \in Pops : late'[p] \subseteq late[p] \cup {num + 1}
    BY <2>1
  <2> QED
    BY <1>1, <1>7, <2>1, <2>2, <2>3, PopKeeps
<1>10. ImapTypes'
  <2>1. PICK u \in Lists : u = RoomUids(box'[j.room])
    BY <1>6, <1>7, ListOf
  <2>2. PICK v : v = Dropped(j.view, ExpungeOrder(ps))
    OBVIOUS
  <2>3. ImapIs(s, [j EXCEPT !.uids = u, !.view = v])
    <3>1. \E W : j \in ImapJobs(W)
      BY <1>6 DEF ImapJob
    <3>2. [j EXCEPT !.uids = RoomUids(box'[j.room]), !.view = Dropped(@, ExpungeOrder(ps))]
          = [j EXCEPT !.uids = u, !.view = v]
      BY <2>1, <2>2, <3>1 DEF ImapJobs
    <3> QED
      BY <1>5, <3>2
  <2>4. ImapJob([j EXCEPT !.uids = u, !.view = v])
    BY <1>6, JobUids
  <2> QED
    BY <1>1, <2>3, <2>4, ImapSet
<1>11. QED
  BY <1>8, <1>9, <1>10 DEF AccInv

LEMMA PopSet ==
    ASSUME pop \in [Pops -> PopJobs], NEW p \in Pops, NEW j \in PopJobs, PopIs(p, j)
    PROVE  pop' \in [Pops -> PopJobs] /\ pop'[p] = j /\ \A q \in Pops \ {p} : pop'[q] = pop[q]
BY DEF PopIs

(* Another list, or another set of numbers to delete, for one session.      *)
LEMMA PopChanges ==
    ASSUME PopInv, num' = num, NEW p \in Pops, NEW j \in PopJobs, PopIs(p, j),
           late' \in [Imaps \cup Pops -> SUBSET MailNums], \A q \in Pops : late'[q] \subseteq late[q],
           j.gone \subseteq Range(j.drop), \A k \in Range(j.drop) : k <= num /\ \A n \in late'[p] : k < n
    PROVE  PopInv'
<1>1. pop' \in [Pops -> PopJobs] /\ pop'[p] = j /\ \A q \in Pops \ {p} : pop'[q] = pop[q]
  BY PopSet DEF PopInv
<1>2. ASSUME NEW q \in Pops
      PROVE  /\ pop'[q].gone \subseteq Range(pop'[q].drop)
             /\ \A k \in Range(pop'[q].drop) : k <= num /\ \A n \in late'[q] : k < n
  <2>1. CASE q = p
    BY <1>1, <2>1
  <2>2. CASE q # p
    <3>1. pop'[q] = pop[q] /\ late'[q] \subseteq late[q]
      BY <1>1, <2>2
    <3> QED
      BY <3>1 DEF PopInv
  <2> QED
    BY <2>1, <2>2
<1>3. QED
  BY <1>1, <1>2 DEF PopInv

LEMMA AccPopQuiet ==
    ASSUME AccInv, NEW p \in Pops,
           PopPass(p) \/ (\E i \in MailNums : PopDele(p, i)) \/ PopRset(p) \/ PopLost(p)
    PROVE  AccInv'
<1>1. StoreTypes /\ ImapTypes /\ PopInv /\ pop[p] \in PopJobs /\ late \in [Imaps \cup Pops -> SUBSET MailNums]
  BY DEF AccInv, PopInv
<1>2. UNCHANGED store /\ imap' = imap
  BY DEF PopPass, PopDele, PopRset, PopLost
<1>3. StoreTypes' /\ num' = num /\ ImapTypes'
  BY <1>1, <1>2, StoreSame DEF ImapTypes
<1>4. /\ \A k \in Range(pop[p].drop) : k <= num /\ \A n \in late[p] : k < n
      /\ pop[p].gone \subseteq Range(pop[p].drop)
  BY <1>1 DEF PopInv
<1>5. CASE PopPass(p)
  <2>1. PICK u \in Lists : u = RoomUids(box[Inbox]) /\ Range(u) = box[Inbox]
    BY <1>1, AccessAssumption, ListOf DEF StoreTypes
  <2>2. PICK j : j = [pop[p] EXCEPT !.authed = TRUE, !.drop = u, !.gone = {}]
    OBVIOUS
  <2>3. j \in PopJobs /\ j.drop = u /\ j.gone = {}
    BY <1>1, <2>2 DEF PopJobs
  <2>4. PopIs(p, j) /\ late' = [late EXCEPT ![p] = {}]
    BY <1>5, <2>1, <2>2 DEF PopPass
  <2>5. late' \in [Imaps \cup Pops -> SUBSET MailNums] /\ late'[p] = {} /\ \A q \in Pops : late'[q] \subseteq late[q]
    BY <1>1, <2>4
  <2>6. \A k \in Range(j.drop) : k <= num
    BY <1>1, <2>1, <2>3, AccessAssumption DEF StoreTypes
  <2>7. PopInv'
    BY <1>1, <1>3, <2>3, <2>4, <2>5, <2>6, PopChanges
  <2> QED
    BY <1>3, <2>7 DEF AccInv
<1>6. ASSUME NEW i \in MailNums, PopDele(p, i) PROVE AccInv'
  <2>1. i \in DOMAIN pop[p].drop /\ late' = late
    BY <1>6 DEF PopDele
  <2>2. PICK n : n = pop[p].drop[i]
    OBVIOUS
  <2>3. n \in MailNums /\ n \in Range(pop[p].drop)
    BY <1>1, <2>1, <2>2, ListIn DEF PopJobs
  <2>4. PICK j : j = [pop[p] EXCEPT !.gone = pop[p].gone \cup {n}]
    OBVIOUS
  <2>5. j \in PopJobs /\ j.drop = pop[p].drop /\ j.gone = pop[p].gone \cup {n}
    BY <1>1, <2>3, <2>4 DEF PopJobs
  <2>6. PopIs(p, j)
    <3>1. j = [pop[p] EXCEPT !.gone = @ \cup {n}]
      BY <1>1, <2>4 DEF PopJobs
    <3> QED
      BY <1>6, <2>2, <3>1 DEF PopDele
  <2>7. PopInv'
    BY <1>1, <1>3, <1>4, <2>1, <2>3, <2>5, <2>6, PopChanges
  <2> QED
    BY <1>3, <2>7 DEF AccInv
<1>7. CASE PopRset(p)
  <2>1. PICK j : j = [pop[p] EXCEPT !.gone = {}]
    OBVIOUS
  <2>2. j \in PopJobs /\ j.drop = pop[p].drop /\ j.gone = {}
    BY <1>1, <2>1 DEF PopJobs
  <2>3. PopIs(p, j) /\ late' = late
    BY <1>7, <2>1 DEF PopRset
  <2>4. PopInv'
    BY <1>1, <1>3, <1>4, <2>2, <2>3, PopChanges
  <2> QED
    BY <1>3, <2>4 DEF AccInv
<1>8. CASE PopLost(p)
  <2>1. PICK j : j = [pop[p] EXCEPT !.pc = "closed", !.gone = {}, !.authed = FALSE, !.drop = <<>>]
    OBVIOUS
  <2>2. j \in PopJobs /\ j.drop = <<>> /\ j.gone = {}
    BY <1>1, <2>1, NoList DEF PopJobs
  <2>3. PopIs(p, j) /\ late' = [late EXCEPT ![p] = {}]
    BY <1>8, <2>1 DEF PopLost
  <2>4. late' \in [Imaps \cup Pops -> SUBSET MailNums] /\ \A q \in Pops : late'[q] \subseteq late[q]
    BY <1>1, <2>3
  <2>5. Range(j.drop) = {}
    BY <2>2, NoList
  <2>6. PopInv'
    BY <1>1, <1>3, <2>2, <2>3, <2>4, <2>5, PopChanges
  <2> QED
    BY <1>3, <2>6 DEF AccInv
<1>9. QED
  BY <1>5, <1>6, <1>7, <1>8

(* What QUIT leaves: last_read moves to a number of the list, if at all.    *)
LEMMA LastIsListed ==
    ASSUME AccInv, NEW p \in Pops, PopQuit(p)
    PROVE  lastRead' = lastRead \/ (lastRead' \in Range(pop[p].drop) /\ lastRead' \in MailNums)
<1>1. PICK u : u = pop[p].drop
  OBVIOUS
<1>2. u \in Lists /\ u \in Seq(MailNums) /\ \A i \in DOMAIN u : u[i] \in MailNums /\ u[i] \in Range(u)
  <2>1. u \in Lists
    BY <1>1 DEF AccInv, PopInv, PopJobs
  <2> QED
    BY <2>1, ListIn
<1>3. lastRead' = IF pop[p].authed THEN LastListed(u) ELSE lastRead
  BY <1>1 DEF PopQuit
<1>4. CASE u = <<>>
  BY <1>3, <1>4 DEF LastListed
<1>5. CASE u # <<>>
  <2>1. Len(u) \in DOMAIN u
    BY <1>2, <1>5
  <2>2. LastListed(u) = u[Len(u)]
    BY <1>5 DEF LastListed
  <2> QED
    BY <1>1, <1>2, <1>3, <2>1, <2>2
<1>6. QED
  BY <1>4, <1>5

LEMMA AccQuit ==
    ASSUME AccInv, NEW p \in Pops, PopQuit(p) PROVE AccInv'
<1>1. StoreTypes /\ ImapTypes /\ PopInv /\ pop[p] \in PopJobs /\ late \in [Imaps \cup Pops -> SUBSET MailNums]
  BY DEF AccInv, PopInv
<1>2. /\ UnlinkAll(Inbox, pop[p].gone) /\ flagged' = flagged \ pop[p].gone
      /\ PopIs(p, [pop[p] EXCEPT !.pc = "closed", !.gone = {}, !.authed = FALSE, !.drop = <<>>])
      /\ UNCHANGED <<imap, late>>
  BY DEF PopQuit
<1>3. /\ num' \in 0..MaxNum /\ num <= num' /\ box' \in [Boxes -> SUBSET MailNums] /\ tombMax' \in [Boxes -> 0..MaxNum]
      /\ \A d \in Boxes : \A n \in box'[d] : n <= num'
  BY <1>1, <1>2, AccessAssumption, UnlinkKeeps
<1>4. flagged' \subseteq MailNums /\ lastRead' \in 0..MaxNum
  BY <1>1, <1>2, LastIsListed, MailNumbers DEF StoreTypes
<1>5. StoreTypes'
  BY <1>3, <1>4 DEF StoreTypes
<1>6. PICK j : j = [pop[p] EXCEPT !.pc = "closed", !.gone = {}, !.authed = FALSE, !.drop = <<>>]
  OBVIOUS
<1>7. j \in PopJobs /\ j.drop = <<>> /\ j.gone = {}
  BY <1>1, <1>6, NoList DEF PopJobs
<1>8. pop' \in [Pops -> PopJobs] /\ pop'[p] = j /\ \A q \in Pops \ {p} : pop'[q] = pop[q]
  BY <1>1, <1>2, <1>6, <1>7, PopSet DEF PopInv
<1>9. ASSUME NEW q \in Pops
      PROVE  /\ pop'[q].gone \subseteq Range(pop'[q].drop)
             /\ \A k \in Range(pop'[q].drop) : k <= num' /\ \A n \in late'[q] : k < n
  <2>1. CASE q = p
    BY <1>7, <1>8, <2>1, NoList
  <2>2. CASE q # p
    <3>1. pop'[q] = pop[q] /\ late' = late /\ pop[q].drop \in Lists
      BY <1>1, <1>2, <1>8, <2>2 DEF PopInv, PopJobs
    <3>2. /\ pop[q].gone \subseteq Range(pop[q].drop)
          /\ \A k \in Range(pop[q].drop) : k <= num /\ \A n \in late[q] : k < n
      BY <1>1 DEF PopInv
    <3>3. \A k \in Range(pop[q].drop) : k \in Nat
      BY <3>1, ListIn, MailNumbers
    <3>4. \A k \in Range(pop[q].drop) : k <= num'
      <4> TAKE k \in Range(pop[q].drop)
      <4>1. k \in Nat /\ k <= num /\ num \in Nat /\ num' \in Nat /\ num <= num'
        BY <1>1, <1>3, <3>2, <3>3, MailNumbers DEF StoreTypes
      <4> QED
        BY <4>1
    <3> QED
      BY <3>1, <3>2, <3>4
  <2> QED
    BY <2>1, <2>2
<1>10. PopInv'
  BY <1>1, <1>2, <1>8, <1>9 DEF PopInv
<1>11. ImapTypes'
  BY <1>1, <1>2 DEF ImapTypes
<1>12. QED
  BY <1>5, <1>10, <1>11 DEF AccInv

LEMMA AccInitial == AccessInit => AccInv
<1> SUFFICES ASSUME AccessInit PROVE AccInv
  OBVIOUS
<1>1. StoreTypes
  BY MailNumbers DEF AccessInit, StoreTypes
<1>2. ImapTypes
  <2>2. ImapFresh.selected = FALSE
    BY FreshJob
  <2>3. PICK W : ImapFresh \in ImapJobs(W)
    BY FreshJob DEF ImapJob
  <2>4. imap = [s \in Imaps |-> ImapFresh]
    BY DEF AccessInit
  <2>5. imap \in [Imaps -> ImapJobs(W)]
    BY <2>3, <2>4
  <2> QED
    BY <2>2, <2>4, <2>5 DEF ImapTypes
<1>3. PopInv
  <2>1. PopFresh \in PopJobs /\ PopFresh.drop = <<>> /\ PopFresh.gone = {}
    BY NoList DEF PopFresh, PopJobs
  <2>2. pop = [p \in Pops |-> PopFresh] /\ late = [x \in Imaps \cup Pops |-> {}]
    BY DEF AccessInit
  <2>3. \A p \in Pops : pop[p] = PopFresh /\ Range(pop[p].drop) = {} /\ pop[p].gone = {}
    BY <2>1, <2>2, NoList
  <2>4. pop \in [Pops -> PopJobs] /\ late \in [Imaps \cup Pops -> SUBSET MailNums]
    BY <2>1, <2>2
  <2> QED
    BY <2>3, <2>4 DEF PopInv
<1>4. QED
  BY <1>1, <1>2, <1>3 DEF AccInv

LEMMA AccArrives == ASSUME AccInv, MailArrives PROVE AccInv'
<1>1. StoreTypes /\ ImapTypes /\ PopInv /\ Inbox \in Boxes
  BY AccessAssumption DEF AccInv
<1>2. Deliver(Inbox) /\ UNCHANGED <<tombMax, flagged, lastRead, imap, pop>>
  BY DEF MailArrives
<1>3. /\ num' \in 0..MaxNum /\ box' \in [Boxes -> SUBSET MailNums]
      /\ \A d \in Boxes : \A n \in box'[d] : n <= num'
      /\ PopInv'
  BY <1>1, <1>2, DeliverKeeps
<1>4. StoreTypes' /\ ImapTypes'
  BY <1>1, <1>2, <1>3 DEF StoreTypes, ImapTypes
<1>5. QED
  BY <1>3, <1>4 DEF AccInv

LEMMA AccStep == AccInv /\ [AccessNext]_avars => AccInv'
<1> SUFFICES ASSUME AccInv, [AccessNext]_avars PROVE AccInv'
  OBVIOUS
<1>1. CASE MailArrives
  BY <1>1, AccArrives
<1>2. ASSUME NEW s \in Imaps, ImapStep(s) PROVE AccInv'
  BY <1>2, ImapQuiet, AccStore, AccCopyMove, AccAppend, AccExpunge DEF ImapStep
<1>3. ASSUME NEW p \in Pops, PopStep(p) PROVE AccInv'
  BY <1>3, AccPopQuiet, AccQuit DEF PopStep
<1>4. CASE UNCHANGED avars
  BY <1>4 DEF avars, AccInv, StoreTypes, ImapTypes, PopInv
<1>5. QED
  BY <1>1, <1>2, <1>3, <1>4 DEF AccessNext

LEMMA AccTyped == AccInv => AccessTypeOK
<1> SUFFICES ASSUME AccInv PROVE AccessTypeOK
  OBVIOUS
<1>1. StoreTypes /\ ImapTypes /\ PopInv
  BY DEF AccInv
<1>2. \A s \in Imaps : /\ imap[s].pc \in {"cmd", "idle", "report", "closed"}
                       /\ imap[s].selected => imap[s].authed
                       /\ Ascending(imap[s].uids)
  <2> TAKE s \in Imaps
  <2>1. PICK j : j = imap[s]
    OBVIOUS
  <2>2. PICK W : j \in ImapJobs(W)
    BY <1>1, <2>1 DEF ImapTypes
  <2>3. j.pc \in ImapPcs /\ j.selected \in BOOLEAN /\ j.authed \in BOOLEAN /\ j.uids \in Lists
    BY <2>2 DEF ImapJobs
  <2>4. j.selected = TRUE => j.authed = TRUE
    BY <1>1, <2>1 DEF ImapTypes
  <2>5. j.selected => j.authed
    BY <2>3, <2>4
  <2> QED
    BY <2>1, <2>3, <2>5, ListIn DEF ImapPcs
<1>3. \A p \in Pops : /\ pop[p].pc \in {"cmd", "closed"} /\ Ascending(pop[p].drop)
                      /\ pop[p].gone \subseteq Range(pop[p].drop)
  <2> TAKE p \in Pops
  <2>1. pop[p].pc \in {"cmd", "closed"} /\ pop[p].drop \in Lists
    BY <1>1 DEF PopInv, PopJobs
  <2> QED
    BY <1>1, <2>1, ListIn DEF PopInv
<1>4. QED
  BY <1>1, <1>2, <1>3 DEF AccessTypeOK, StoreTypes, PopInv

-----------------------------------------------------------------------------
(* What the client is told *)

LEMMA QuitSpares ==
    ASSUME AccInv, NEW p \in Pops, PopQuit(p), NEW n \in late[p]
    PROVE  (n \in box[Inbox] => n \in box'[Inbox]) /\ (n > lastRead => n > lastRead')
<1>1. StoreTypes /\ PopInv /\ Inbox \in Boxes /\ UnlinkAll(Inbox, pop[p].gone)
  BY AccessAssumption DEF AccInv, PopQuit
<1>2. pop[p].gone \subseteq Range(pop[p].drop) /\ \A k \in Range(pop[p].drop) : k < n
  BY <1>1 DEF PopInv
<1>3. n \in MailNums /\ n \in Nat
  BY <1>1, MailNumbers DEF PopInv
<1>4. n \notin Range(pop[p].drop)
  BY <1>2, <1>3
<1>5. box'[Inbox] = box[Inbox] \ pop[p].gone
  BY <1>1, UnlinkKeeps
<1>6. n > lastRead => n > lastRead'
  <2>1. CASE lastRead' = lastRead
    BY <2>1
  <2>2. CASE lastRead' \in Range(pop[p].drop) /\ lastRead' \in MailNums
    <3>1. lastRead' < n /\ lastRead' \in Nat
      BY <1>2, <2>2, MailNumbers
    <3> QED
      BY <1>3, <3>1
  <2> QED
    BY <2>1, <2>2, LastIsListed
<1>7. QED
  BY <1>2, <1>4, <1>5, <1>6

(* The positions that are left are the room's first, and the rest is what   *)
(* the client fetches on EXISTS.                                            *)
LEMMA ReportTellsAll ==
    ASSUME NEW B \in SUBSET MailNums, NEW V \in SUBSET MailNums, \A n \in B \ V : \A k \in V : k < n,
           NEW gone, gone = {i \in DOMAIN RoomUids(V) : RoomUids(V)[i] \notin B},
           NEW left, left = Dropped(RoomUids(V), ExpungeOrder(gone))
    PROVE  RoomUids(B) = IF Len(RoomUids(B)) # Len(RoomUids(V)) - Cardinality(gone)
                         THEN Grown(left, RoomUids(B)) ELSE left
<1>1. PICK v : v = RoomUids(V)
  OBVIOUS
<1>2. /\ v \in [1..Cardinality(V) -> V] /\ Len(v) = Cardinality(V) /\ Cardinality(V) \in Nat /\ DOMAIN v = 1..Cardinality(V)
      /\ IsFiniteSet(V) /\ V \subseteq Nat /\ B \subseteq Nat /\ IsFiniteSet(B)
  BY <1>1, ListOf, MailNumbers, FS_Subset
<1>3. /\ \A i, j \in 1..Cardinality(V) : i < j => v[i] < v[j]
      /\ \A x \in V : \E i \in 1..Cardinality(V) : v[i] = x
  BY <1>1, <1>2, ListedRises
<1>4. \A i, j \in 1..Cardinality(V) : v[i] = v[j] => i = j
  <2> TAKE i, j \in 1..Cardinality(V)
  <2>1. i < j \/ j < i \/ i = j
    BY <1>2
  <2>2. v[i] \in Nat /\ v[j] \in Nat
    BY <1>2
  <2>3. i < j => v[i] < v[j]
    BY <1>3
  <2>4. j < i => v[j] < v[i]
    BY <1>3
  <2> QED
    BY <2>1, <2>2, <2>3, <2>4
<1>5. gone \subseteq 1..Cardinality(V) /\ IsFiniteSet(gone) /\ Cardinality(gone) \in Nat
  <2>1. gone \subseteq 1..Cardinality(V)
    BY <1>1, <1>2
  <2>2. IsFiniteSet(1..Cardinality(V))
    BY <1>2, FS_Interval
  <2> QED
    BY <2>1, <2>2, FS_Subset, FS_CardinalityType
<1>6. PICK L : L = V \cap B
  OBVIOUS
<1>7. {v[i] : i \in gone} = V \ B
  BY <1>1, <1>2, <1>3
<1>8. left = RoomUids(L)
  <2>0. Dropped(RoomUids(V), ExpungeOrder(gone)) = RoomUids(V \ {RoomUids(V)[i] : i \in gone})
    BY <1>2, <1>5, DroppedRest
  <2>1. left = RoomUids(V \ {v[i] : i \in gone})
    BY <1>1, <2>0
  <2>2. V \ {v[i] : i \in gone} = L
    BY <1>6, <1>7
  <2> QED
    BY <2>1, <2>2
<1>9. Cardinality(L) = Cardinality(V) - Cardinality(gone)
  <2>1. PICK f : f = [i \in gone |-> v[i]]
    OBVIOUS
  <2>2. f \in [gone -> V \ B]
    BY <1>7, <2>1
  <2>3. \A x, y \in gone : f[x] = f[y] => x = y
    BY <1>4, <1>5, <2>1
  <2>4. \A y \in V \ B : \E x \in gone : f[x] = y
    BY <1>7, <2>1
  <2>5. f \in Injection(gone, V \ B) /\ f \in Surjection(gone, V \ B)
    BY <2>2, <2>3, <2>4 DEF Injection, IsInjective, Surjection
  <2>6. Cardinality(V \ B) = Cardinality(gone)
    BY <1>5, <2>5, FS_Surjection
  <2>7. Cardinality(V \ B) = Cardinality(V) - Cardinality(V \cap B) /\ Cardinality(V \cap B) \in Nat
    BY <1>2, FS_Difference, FS_Intersection, FS_CardinalityType
  <2> QED
    BY <1>2, <1>5, <1>6, <2>6, <2>7
<1>10. PICK now : now = RoomUids(B)
  OBVIOUS
<1>11. L \in SUBSET MailNums /\ L \subseteq B /\ IsFiniteSet(L) /\ L \subseteq Nat
  BY <1>2, <1>6, FS_Subset
<1>12. /\ now \in [1..Cardinality(B) -> B] /\ now \in Seq(MailNums) /\ Len(now) = Cardinality(B) /\ Cardinality(B) \in Nat
       /\ left \in [1..Cardinality(L) -> L] /\ left \in Seq(MailNums) /\ Len(left) = Cardinality(L) /\ Cardinality(L) \in Nat
  BY <1>8, <1>10, <1>11, ListOf
<1>13. Cardinality(L) <= Cardinality(B) /\ (Cardinality(L) = Cardinality(B) => L = B)
  BY <1>2, <1>11, FS_Subset
<1>14. \A i \in 1..Cardinality(L) : i \in 1..Cardinality(B) /\ now[i] = left[i]
  <2> TAKE i \in 1..Cardinality(L)
  <2>1. PICK x \in L : x = left[i]
    BY <1>12
  <2>2. Under(B, x) = Under(L, x)
    <3>1. \A k \in B : k < x => k \in L
      <4> TAKE k \in B
      <4>1. HAVE k < x
      <4>2. k \notin V => x < k
        BY <1>6, <2>1
      <4>3. k \in Nat /\ x \in Nat
        BY <1>2, <1>11, <2>1
      <4>4. k \in V
        BY <4>1, <4>2, <4>3
      <4> QED
        BY <1>6, <4>4
    <3> QED
      BY <1>11, <3>1 DEF Under
  <2>3. x = RoomUids(L)[i] /\ x \in B
    BY <1>8, <1>11, <2>1
  <2>4. i \in 1..Cardinality(B) /\ x = RoomUids(B)[i]
    <3>1. i \in 1..Cardinality(L) /\ Under(L, x) = Under(B, x) /\ B \subseteq Nat /\ L \subseteq Nat
          /\ IsFiniteSet(B) /\ IsFiniteSet(L)
      BY <1>2, <1>11, <2>2
    <3> QED
      BY <2>2, <2>3, <3>1, SamePosition
  <2> QED
    BY <1>10, <2>1, <2>4
<1>15. CASE Len(now) # Len(v) - Cardinality(gone)
  <2>1. PICK r : r = SubSeq(now, Len(left) + 1, Len(now))
    OBVIOUS
  <2>2. PICK m \in Nat : m = Cardinality(L)
    BY <1>12
  <2>3. PICK n \in Nat : n = Cardinality(B)
    BY <1>12
  <2>4. m <= n
    BY <1>13, <2>2, <2>3
  <2>5. r \in Seq(MailNums) /\ Len(r) = n - m /\ \A i \in 1..(n - m) : r[i] = now[m + i]
    <3>1. \A i \in (m + 1)..n : now[i] \in MailNums
      BY <1>12, <2>2, <2>3
    <3>2. m + 1 \in Int /\ n \in Int
      OBVIOUS
    <3>3. /\ SubSeq(now, m + 1, n) \in Seq(MailNums) /\ Len(SubSeq(now, m + 1, n)) = IF m + 1 <= n THEN n - (m + 1) + 1 ELSE 0
          /\ \A i \in 1..(n - (m + 1) + 1) : SubSeq(now, m + 1, n)[i] = now[(m + 1) + i - 1]
      BY <3>1, <3>2, SubSeqProperties
    <3>4. r = SubSeq(now, m + 1, n)
      BY <1>12, <2>1, <2>2, <2>3
    <3>5. n - (m + 1) + 1 = n - m /\ \A i \in 1..(n - m) : (m + 1) + i - 1 = m + i
      OBVIOUS
    <3>6. Len(r) = n - m
      BY <2>4, <3>3, <3>4
    <3>7. \A i \in 1..(n - m) : r[i] = now[m + i]
      BY <3>3, <3>4, <3>5
    <3> QED
      BY <3>3, <3>4, <3>6, <3>7
  <2>6. PICK g : g = left \o r
    OBVIOUS
  <2>0. left \in Seq(MailNums) /\ r \in Seq(MailNums)
    BY <1>12, <2>5
  <2>7. /\ g \in Seq(MailNums) /\ Len(g) = Len(left) + Len(r)
        /\ \A i \in 1..(Len(left) + Len(r)) : g[i] = IF i <= Len(left) THEN left[i] ELSE r[i - Len(left)]
    BY <2>0, <2>6, ConcatProperties
  <2>8. Len(left) = m /\ Len(left) + Len(r) = n
    BY <1>12, <2>2, <2>4, <2>5
  <2>9. \A i \in 1..n : g[i] = now[i]
    <3> TAKE i \in 1..n
    <3>1. g[i] = IF i <= m THEN left[i] ELSE r[i - m]
      BY <2>7, <2>8
    <3>2. CASE i <= m
      <4>1. i \in 1..Cardinality(L)
        BY <2>2, <3>2
      <4> QED
        BY <1>14, <3>1, <3>2, <4>1
    <3>3. CASE ~(i <= m)
      <4>1. PICK k \in 1..(n - m) : k = i - m
        BY <2>4, <3>3
      <4>2. r[k] = now[m + k] /\ m + k = i
        BY <2>5, <4>1
      <4> QED
        BY <3>1, <3>3, <4>1, <4>2
    <3> QED
      BY <3>2, <3>3
  <2>10. Len(g) = Len(now)
    BY <1>12, <2>3, <2>7, <2>8
  <2>11. \A i \in 1..Len(g) : g[i] = now[i]
    BY <2>7, <2>8, <2>9
  <2>12. g = now
    BY <1>12, <2>7, <2>10, <2>11, SeqEqual
  <2>13. Grown(left, now) = now
    BY <2>1, <2>6, <2>12 DEF Grown
  <2> QED
    BY <1>1, <1>10, <1>15, <2>13
<1>16. CASE ~(Len(now) # Len(v) - Cardinality(gone))
  <2>1. Cardinality(B) = Cardinality(L)
    BY <1>2, <1>9, <1>12, <1>16
  <2>2. L = B
    BY <1>13, <2>1
  <2> QED
    BY <1>1, <1>8, <1>10, <1>16, <2>2
<1>17. QED
  BY <1>15, <1>16

LEMMA ReportKeeps ==
    ASSUME AccInv, NEW s \in Imaps, imap[s].selected, imap[s].view = imap[s].uids, ImapNoop(s) \/ IdleReport(s),
           \A n \in box[imap[s].room] \ Range(imap[s].uids) : \A k \in Range(imap[s].uids) : k < n
    PROVE  imap'[s].view = imap'[s].uids
<1>1. PICK j : j = imap[s]
  OBVIOUS
<1>2. PICK W : imap \in [Imaps -> ImapJobs(W)]
  BY DEF AccInv, ImapTypes
<1>3. j \in ImapJobs(W) /\ j.room \in Boxes /\ j.uids \in Lists
  BY <1>1, <1>2 DEF ImapJobs
<1>4. PICK B \in SUBSET MailNums : B = box[j.room]
  BY <1>3 DEF AccInv, StoreTypes
<1>5. PICK V \in SUBSET MailNums : V = Range(j.uids) /\ j.uids = RoomUids(V)
  BY <1>3, ListIn
<1>6. \A n \in B \ V : \A k \in V : k < n
  BY <1>1, <1>4, <1>5
<1>7. PICK gone : gone = {i \in DOMAIN RoomUids(V) : RoomUids(V)[i] \notin B}
  OBVIOUS
<1>8. PICK left : left = Dropped(RoomUids(V), ExpungeOrder(gone))
  OBVIOUS
<1>9. PICK now : now = RoomUids(B)
  OBVIOUS
<1>10. now = IF Len(now) # Len(RoomUids(V)) - Cardinality(gone) THEN Grown(left, now) ELSE left
  BY <1>6, <1>7, <1>8, <1>9, ReportTellsAll
<1>11. ReportChanges(j) = [j EXCEPT !.uids = now, !.view = now]
  <2>1. j.view = RoomUids(V)
    BY <1>1, <1>5
  <2>2. gone = {i \in DOMAIN j.uids : j.uids[i] \notin box[j.room]} /\ left = Dropped(j.view, ExpungeOrder(gone))
        /\ now = RoomUids(box[j.room])
    BY <1>4, <1>5, <1>7, <1>8, <1>9, <2>1
  <2>3. ReportChanges(j) = [j EXCEPT !.uids = now,
                                     !.view = IF Len(now) # Len(j.uids) - Cardinality(gone) THEN Grown(left, now) ELSE left]
    BY <2>2 DEF ReportChanges
  <2> QED
    BY <1>5, <1>10, <2>3
<1>12. PICK k : k = [j EXCEPT !.uids = now, !.view = now]
  OBVIOUS
<1>13. k.uids = now /\ k.view = now
  BY <1>3, <1>12 DEF ImapJobs
<1>14. CASE ImapNoop(s)
  <2>1. imap' = [imap EXCEPT ![s] = k]
    BY <1>1, <1>11, <1>12, <1>14 DEF ImapNoop, ImapIs
  <2> QED
    BY <1>2, <1>13, <2>1
<1>15. CASE IdleReport(s)
  <2>1. PICK m : m = [k EXCEPT !.pc = "idle"]
    OBVIOUS
  <2>2. imap' = [imap EXCEPT ![s] = m]
    BY <1>1, <1>11, <1>12, <1>15, <2>1 DEF IdleReport, ImapIs
  <2>3. m.uids = k.uids /\ m.view = k.view
    BY <1>3, <1>12, <2>1 DEF ImapJobs
  <2> QED
    BY <1>2, <1>13, <2>2, <2>3
<1>16. QED
  BY <1>14, <1>15

(* A client that counted with the session still does after a report, and    *)
(* what arrived since the maildrop was listed is neither deleted nor passed *)
(* over by QUIT: for any number of sessions, rooms and messages.            *)
THEOREM MailboxIsAlwaysHonest == AccessSpec => MailboxIsHonest
<1>1. AccInv => (\A s \in Imaps :
          LET j == imap[s]
              new == box[j.room] \ Range(j.uids)
          IN  (/\ j.selected /\ j.view = j.uids
               /\ ImapNoop(s) \/ IdleReport(s)
               /\ \A n \in new : \A k \in Range(j.uids) : k < n)
              => imap'[s].view = imap'[s].uids)
  BY ReportKeeps
<1>2. AccInv => (\A p \in Pops : PopQuit(p) =>
          \A n \in late[p] : /\ n \in box[Inbox] => n \in box'[Inbox]
                             /\ n > lastRead => n > lastRead')
  BY QuitSpares
<1>3. QED
  BY <1>1, <1>2, AccInitial, AccStep, PTL DEF AccessSpec, MailboxIsHonest, ReportKeepsStep, UnlistedStaysUnread

-----------------------------------------------------------------------------
(* The listener's types, for any number of callers: several accept threads  *)
(* may then be alive, and active_conns_ counts the sessions there are and   *)
(* each one that an accept thread is about to start.                        *)
Seats == {g \in Gens : acceptor[g].pc = "insert"}

CtlCounted ==
    /\ CtlTypes /\ aborted \in BOOLEAN
    /\ \A g \in Gens : g > gen => acceptor[g].pc = "none"
    /\ active = Cardinality(Sitting) + Cardinality(Seats)

LEMMA SeatsCounted == IsFiniteSet(Seats) /\ Cardinality(Seats) \in Nat
<1>1. IsFiniteSet(Gens)
  BY ControllerAssumption, FS_Interval DEF Gens
<1>2. Seats \in SUBSET Gens
  BY DEF Seats
<1>3. QED
  BY <1>1, <1>2, FS_Subset, FS_CardinalityType

LEMMA CountSame ==
    ASSUME CtlCounted, active' = active, \A t \in Threads : thread'[t].pc # "none" <=> thread[t].pc # "none",
           \A g \in Gens : acceptor'[g].pc = "insert" <=> acceptor[g].pc = "insert"
    PROVE  active' = Cardinality(Sitting') + Cardinality(Seats')
<1>1. Sitting' = Sitting /\ Seats' = Seats
  BY DEF Sitting, Seats
<1>2. QED
  BY <1>1 DEF CtlCounted

LEMMA TypedCalls ==
    ASSUME CtlCounted, NEW c \in Callers, Start(c) \/ StopBegin(c) \/ StopStep(c) PROVE CtlCounted'
<1>1. CtlTypes /\ aborted \in BOOLEAN /\ \A g \in Gens : g > gen => acceptor[g].pc = "none"
  BY DEF CtlCounted
<1>2. call[c] \in StCalls /\ 0 \in 0..MaxStarts /\ handle \in 0..MaxStarts /\ TRUE \in BOOLEAN /\ FALSE \in BOOLEAN
  BY <1>1, ControllerAssumption DEF CtlTypes
<1>3. CASE Start(c)
  <2>1. gen \in Nat /\ gen + 1 \in Gens /\ gen + 1 \in 0..MaxStarts
    BY <1>1, <1>3, ControllerAssumption DEF Start, CtlTypes, Gens
  <2>2. PICK n \in Gens : n = gen + 1
    BY <2>1
  <2>3. PICK k : k = [pc |-> "top", fds |-> {}]
    OBVIOUS
  <2>4. k \in AcThreads /\ k.pc = "top"
    BY <2>3 DEF AcThreads, AcPcs
  <2>5. /\ gen' = n /\ handle' = n /\ acceptor' = [acceptor EXCEPT ![n] = k]
        /\ running' = TRUE /\ stop' = FALSE /\ listening' = TRUE /\ aborted' = (handle # 0)
        /\ UNCHANGED <<clientFds, owner, shut, active, thread, call>>
    BY <1>3, <2>2, <2>3 DEF Start
  <2>6. acceptor' \in [Gens -> AcThreads] /\ acceptor'[n] = k /\ \A h \in Gens \ {n} : acceptor'[h] = acceptor[h]
    BY <1>1, <2>4, <2>5, AccSet DEF CtlTypes
  <2>7. running' \in BOOLEAN /\ stop' \in BOOLEAN /\ listening' \in BOOLEAN
    BY <2>5, Zenon
  <2>8. aborted' \in BOOLEAN
    BY <2>5
  <2>9. gen' \in 0..MaxStarts /\ handle' \in 0..MaxStarts
    BY <2>1, <2>2, <2>5
  <2>10. CtlTypes'
    BY <1>1, <2>5, <2>6, <2>7, <2>9 DEF CtlTypes
  <2>11. \A g \in Gens : g > gen' => acceptor'[g].pc = "none"
    <3> TAKE g \in Gens
    <3>1. HAVE g > gen'
    <3>2. g \in Nat /\ g # n /\ g > gen
      BY <2>1, <2>2, <2>5, <3>1 DEF Gens
    <3> QED
      BY <1>1, <2>6, <3>2
  <2>12. acceptor[n].pc = "none"
    <3>1. n > gen
      BY <2>1, <2>2
    <3> QED
      BY <1>1, <3>1
  <2>13. \A g \in Gens : acceptor'[g].pc = "insert" <=> acceptor[g].pc = "insert"
    BY <2>4, <2>6, <2>12
  <2>14. active' = Cardinality(Sitting') + Cardinality(Seats')
    BY <2>5, <2>13, CountSame
  <2> QED
    BY <2>8, <2>10, <2>11, <2>14 DEF CtlCounted
<1>4. CASE StopBegin(c) \/ StopStep(c)
  <2>1. UNCHANGED <<gen, acceptor, clientFds, owner, active, thread, aborted>>
    BY <1>4 DEF StopBegin, StopStep, StopJoin, StopWake, StopReturn
  <2>2. call' \in [Callers -> StCalls]
    <3>1. CASE StopBegin(c)
      <4>1. [pc |-> "join", joins |-> handle] \in StCalls
        BY <1>2 DEF StCalls
      <4> QED
        BY <1>1, <3>1, <4>1, CallSet DEF StopBegin, CtlTypes
    <3>2. CASE StopJoin(c)
      BY <1>1, <3>2, CallPc DEF StopJoin, CtlTypes
    <3>3. CASE StopWake(c)
      BY <1>1, <3>3, CallPc DEF StopWake, CtlTypes
    <3>4. CASE StopReturn(c)
      <4>1. [pc |-> "idle", joins |-> 0] \in StCalls
        BY <1>2 DEF StCalls
      <4> QED
        BY <1>1, <3>4, <4>1, CallSet DEF StopReturn, CtlTypes
    <3> QED
      BY <1>4, <3>1, <3>2, <3>3, <3>4 DEF StopStep
  <2>3. handle' \in 0..MaxStarts
    BY <1>2, <1>4 DEF StopBegin, StopStep, StopJoin, StopWake, StopReturn
  <2>4. shut' \subseteq Fds
    BY <1>1, <1>4 DEF StopBegin, StopStep, StopJoin, StopWake, StopReturn, CtlTypes
  <2>5. (running' = running \/ running' = FALSE) /\ (stop' = stop \/ stop' = TRUE) /\ (listening' = listening \/ listening' = FALSE)
    BY <1>4 DEF StopBegin, StopStep, StopJoin, StopWake, StopReturn
  <2>6. running \in BOOLEAN /\ stop \in BOOLEAN /\ listening \in BOOLEAN
    BY <1>1 DEF CtlTypes
  <2>7. running' \in BOOLEAN /\ stop' \in BOOLEAN /\ listening' \in BOOLEAN
    BY <2>5, <2>6, Zenon
  <2>8. CtlTypes'
    BY <1>1, <2>1, <2>2, <2>3, <2>4, <2>7 DEF CtlTypes
  <2>9. active' = Cardinality(Sitting') + Cardinality(Seats')
    BY <2>1, CountSame
  <2> QED
    BY <1>1, <2>1, <2>8, <2>9 DEF CtlCounted
<1>5. QED
  BY <1>3, <1>4

(* An accept thread's steps but for the count and the start of a session.   *)
LEMMA TypedAccepts ==
    ASSUME CtlCounted, NEW g \in Gens,
           AcceptTop(g) \/ (\E f \in Fds : AcceptPeer(g, f)) \/ AcceptFails(g) \/ AcceptDrop(g) \/ AcceptExit(g)
    PROVE  CtlCounted'
<1>1. CtlTypes /\ aborted \in BOOLEAN /\ (\A h \in Gens : h > gen => acceptor[h].pc = "none") /\ acceptor \in [Gens -> AcThreads]
      /\ owner \in [Fds -> {"nobody", "server", "stranger"}]
  BY DEF CtlCounted, CtlTypes
<1>2. UNCHANGED <<stop, gen, listening, handle, clientFds, active, thread, call, aborted>>
  BY DEF AcceptTop, AcceptPeer, AcceptFails, AcceptDrop, AcceptExit
<1>3. \E k \in AcThreads : k.pc # "insert" /\ acceptor' = [acceptor EXCEPT ![g] = k]
  <2>1. ASSUME NEW pc \in AcPcs, pc # "insert", acceptor' = [acceptor EXCEPT ![g].pc = pc]
        PROVE  \E k \in AcThreads : k.pc # "insert" /\ acceptor' = [acceptor EXCEPT ![g] = k]
    <3>1. PICK k : k = [acceptor[g] EXCEPT !.pc = pc]
      OBVIOUS
    <3>2. k \in AcThreads /\ k.pc = pc
      BY <1>1, <3>1 DEF AcThreads
    <3>3. acceptor' = [acceptor EXCEPT ![g] = k]
      BY <1>1, <2>1, <3>1
    <3> QED
      BY <2>1, <3>2, <3>3
  <2>2. CASE AcceptTop(g) \/ AcceptFails(g) \/ AcceptExit(g)
    <3>1. PICK pc \in {"top", "accept", "exit", "done"} : acceptor' = [acceptor EXCEPT ![g].pc = pc]
      BY <2>2 DEF AcceptTop, AcceptFails, AcceptExit
    <3>2. pc \in AcPcs /\ pc # "insert"
      BY DEF AcPcs
    <3> QED
      BY <2>1, <3>1, <3>2
  <2>3. ASSUME NEW f \in Fds, AcceptPeer(g, f) PROVE \E k \in AcThreads : k.pc # "insert" /\ acceptor' = [acceptor EXCEPT ![g] = k]
    <3>1. PICK k : k = [pc |-> "got", fds |-> {f}]
      OBVIOUS
    <3>2. k \in AcThreads /\ k.pc # "insert"
      BY <3>1 DEF AcThreads, AcPcs
    <3> QED
      BY <2>3, <3>1, <3>2 DEF AcceptPeer
  <2>4. CASE AcceptDrop(g)
    <3>1. PICK k : k = [pc |-> "top", fds |-> {}]
      OBVIOUS
    <3>2. k \in AcThreads /\ k.pc # "insert"
      BY <3>1 DEF AcThreads, AcPcs
    <3> QED
      BY <2>4, <3>1, <3>2 DEF AcceptDrop
  <2> QED
    BY <2>2, <2>3, <2>4
<1>4. acceptor[g].pc \notin {"none", "insert"}
  BY DEF AcceptTop, AcceptPeer, AcceptFails, AcceptDrop, AcceptExit
<1>5. PICK k \in AcThreads : k.pc # "insert" /\ acceptor' = [acceptor EXCEPT ![g] = k]
  BY <1>3
<1>6. acceptor' \in [Gens -> AcThreads] /\ acceptor'[g] = k /\ \A h \in Gens \ {g} : acceptor'[h] = acceptor[h]
  BY <1>1, <1>5, AccSet
<1>7. owner' \in [Fds -> {"nobody", "server", "stranger"}] /\ shut' \subseteq Fds
  <2>1. shut \subseteq Fds
    BY <1>1 DEF CtlTypes
  <2>2. CASE AcceptTop(g) \/ AcceptFails(g) \/ AcceptExit(g)
    BY <1>1, <2>1, <2>2 DEF AcceptTop, AcceptFails, AcceptExit
  <2>3. ASSUME NEW f \in Fds, AcceptPeer(g, f) PROVE owner' \in [Fds -> {"nobody", "server", "stranger"}] /\ shut' \subseteq Fds
    BY <1>1, <2>1, <2>3 DEF AcceptPeer
  <2>4. CASE AcceptDrop(g)
    <3>1. owner' = [f \in Fds |-> IF f \in acceptor[g].fds THEN "nobody" ELSE owner[f]] /\ shut' = shut
      BY <2>4 DEF AcceptDrop
    <3> QED
      BY <1>1, <2>1, <3>1
  <2> QED
    BY <2>2, <2>3, <2>4
<1>8. running' \in BOOLEAN
  <2>1. running \in BOOLEAN
    BY <1>1 DEF CtlTypes
  <2>2. running' = running \/ running' = FALSE
    BY DEF AcceptTop, AcceptPeer, AcceptFails, AcceptDrop, AcceptExit
  <2> QED
    BY <2>1, <2>2, Zenon
<1>9. CtlTypes'
  BY <1>1, <1>2, <1>6, <1>7, <1>8 DEF CtlTypes
<1>10. \A h \in Gens : h > gen' => acceptor'[h].pc = "none"
  <2> TAKE h \in Gens
  <2>1. HAVE h > gen'
  <2>2. acceptor[h].pc = "none" /\ h # g
    BY <1>1, <1>2, <1>4, <2>1
  <2> QED
    BY <1>6, <2>2
<1>11. \A h \in Gens : acceptor'[h].pc = "insert" <=> acceptor[h].pc = "insert"
  BY <1>4, <1>5, <1>6
<1>12. active' = Cardinality(Sitting') + Cardinality(Seats')
  BY <1>2, <1>11, CountSame
<1>13. QED
  BY <1>1, <1>2, <1>9, <1>10, <1>12 DEF CtlCounted

LEMMA TypedCount == ASSUME CtlCounted, NEW g \in Gens, AcceptCount(g) PROVE CtlCounted'
<1>1. CtlTypes /\ aborted \in BOOLEAN /\ (\A h \in Gens : h > gen => acceptor[h].pc = "none") /\ acceptor \in [Gens -> AcThreads]
      /\ active \in Nat /\ active = Cardinality(Sitting) + Cardinality(Seats)
  BY DEF CtlCounted, CtlTypes
<1>2. /\ acceptor[g].pc = "got" /\ active < Cardinality(Threads) /\ active' = active + 1
      /\ acceptor' = [acceptor EXCEPT ![g].pc = "insert"] /\ "insert" \in AcPcs
      /\ UNCHANGED <<running, stop, gen, listening, handle, clientFds, owner, shut, thread, call, aborted>>
  BY DEF AcceptCount, AcPcs
<1>3. /\ acceptor' \in [Gens -> AcThreads] /\ acceptor'[g].pc = "insert"
      /\ \A h \in Gens \ {g} : acceptor'[h] = acceptor[h]
  BY <1>1, <1>2, AccPc
<1>4. Cardinality(Threads) \in Nat
  BY ControllerAssumption, FS_CardinalityType
<1>5. active' \in Nat /\ active' <= Cardinality(Threads)
  BY <1>1, <1>2, <1>4
<1>6. CtlTypes'
  BY <1>1, <1>2, <1>3, <1>5 DEF CtlTypes
<1>7. \A h \in Gens : h > gen' => acceptor'[h].pc = "none"
  <2> TAKE h \in Gens
  <2>1. HAVE h > gen'
  <2>2. acceptor[h].pc = "none" /\ h # g
    BY <1>1, <1>2, <2>1
  <2> QED
    BY <1>3, <2>2
<1>8. Seats' = Seats \cup {g} /\ g \notin Seats /\ Sitting' = Sitting
  <2>1. \A h \in Gens : acceptor'[h].pc = "insert" <=> acceptor[h].pc = "insert" \/ h = g
    BY <1>3
  <2> QED
    BY <1>2, <2>1 DEF Seats, Sitting
<1>9. Cardinality(Seats') = Cardinality(Seats) + 1
  BY <1>8, SeatsCounted, FS_AddElement
<1>10. active' = Cardinality(Sitting') + Cardinality(Seats')
  BY <1>1, <1>2, <1>8, <1>9, SeatsCounted, SittingCounted
<1>11. QED
  BY <1>1, <1>2, <1>6, <1>7, <1>10 DEF CtlCounted

LEMMA TypedSpawn == ASSUME CtlCounted, NEW g \in Gens, NEW t \in Threads, AcceptSpawn(g, t) PROVE CtlCounted'
<1>1. CtlTypes /\ aborted \in BOOLEAN /\ (\A h \in Gens : h > gen => acceptor[h].pc = "none") /\ acceptor \in [Gens -> AcThreads]
      /\ thread \in [Threads -> SeThreads] /\ clientFds \subseteq Fds /\ active = Cardinality(Sitting) + Cardinality(Seats)
  BY DEF CtlCounted, CtlTypes
<1>2. PICK k : k = [pc |-> "run", fds |-> acceptor[g].fds]
  OBVIOUS
<1>3. PICK m : m = [pc |-> "top", fds |-> {}]
  OBVIOUS
<1>4. k \in SeThreads /\ k.pc = "run" /\ m \in AcThreads /\ m.pc = "top" /\ acceptor[g].fds \subseteq Fds
  <2>1. acceptor[g] \in AcThreads
    BY <1>1
  <2>2. acceptor[g].fds \in SUBSET Fds
    BY <2>1 DEF AcThreads
  <2>3. k \in SeThreads /\ k.pc = "run"
    BY <1>2, <2>2 DEF SeThreads, SePcs
  <2>4. m \in AcThreads /\ m.pc = "top"
    BY <1>3 DEF AcThreads, AcPcs
  <2> QED
    BY <2>2, <2>3, <2>4
<1>5. /\ acceptor[g].pc = "insert" /\ thread[t].pc = "none" /\ clientFds' = clientFds \cup acceptor[g].fds
      /\ thread' = [thread EXCEPT ![t] = k] /\ acceptor' = [acceptor EXCEPT ![g] = m]
      /\ UNCHANGED <<running, stop, gen, listening, handle, owner, shut, active, call, aborted>>
  BY <1>2, <1>3 DEF AcceptSpawn
<1>6. acceptor' \in [Gens -> AcThreads] /\ acceptor'[g] = m /\ \A h \in Gens \ {g} : acceptor'[h] = acceptor[h]
  BY <1>1, <1>4, <1>5, AccSet
<1>7. thread' \in [Threads -> SeThreads] /\ thread'[t] = k /\ \A u \in Threads \ {t} : thread'[u] = thread[u]
  BY <1>1, <1>4, <1>5, SesSet
<1>8. clientFds' \subseteq Fds
  BY <1>1, <1>4, <1>5
<1>9. CtlTypes'
  BY <1>1, <1>5, <1>6, <1>7, <1>8 DEF CtlTypes
<1>10. \A h \in Gens : h > gen' => acceptor'[h].pc = "none"
  <2> TAKE h \in Gens
  <2>1. HAVE h > gen'
  <2>2. acceptor[h].pc = "none" /\ h # g
    BY <1>1, <1>5, <2>1
  <2> QED
    BY <1>6, <2>2
<1>11. Seats' = Seats \ {g} /\ g \in Seats /\ Sitting' = Sitting \cup {t} /\ t \notin Sitting
  <2>1. \A h \in Gens : acceptor'[h].pc = "insert" <=> acceptor[h].pc = "insert" /\ h # g
    BY <1>4, <1>6
  <2>2. \A u \in Threads : thread'[u].pc # "none" <=> thread[u].pc # "none" \/ u = t
    BY <1>4, <1>7
  <2> QED
    BY <1>5, <2>1, <2>2 DEF Seats, Sitting
<1>12. Cardinality(Seats') = Cardinality(Seats) - 1 /\ Cardinality(Sitting') = Cardinality(Sitting) + 1
  BY <1>11, SeatsCounted, SittingCounted, FS_AddElement, FS_RemoveElement
<1>13. active' = Cardinality(Sitting') + Cardinality(Seats')
  BY <1>1, <1>5, <1>12, SeatsCounted, SittingCounted
<1>14. QED
  BY <1>1, <1>5, <1>9, <1>10, <1>13 DEF CtlCounted

LEMMA TypedSession ==
    ASSUME CtlCounted, NEW t \in Threads, HandlerReturns(t) \/ SessionEnd(t) PROVE CtlCounted'
<1>1. CtlTypes /\ aborted \in BOOLEAN /\ (\A h \in Gens : h > gen => acceptor[h].pc = "none")
      /\ thread \in [Threads -> SeThreads] /\ clientFds \subseteq Fds /\ active = Cardinality(Sitting) + Cardinality(Seats)
      /\ owner \in [Fds -> {"nobody", "server", "stranger"}] /\ active \in Nat /\ active <= Cardinality(Threads)
  BY DEF CtlCounted, CtlTypes
<1>2. UNCHANGED <<running, stop, gen, listening, handle, acceptor, shut, call, aborted>> /\ Seats' = Seats
  BY DEF HandlerReturns, SessionEnd, SessionErase, SessionClose, SessionLeave, Seats
<1>3. "erase" \in SePcs /\ "close" \in SePcs /\ "leave" \in SePcs /\ "none" \in SePcs
  BY DEF SePcs
<1>4. CASE HandlerReturns(t)
  <2>1. thread[t].pc = "run" /\ thread' = [thread EXCEPT ![t].pc = "erase"] /\ UNCHANGED <<clientFds, owner, active>>
    BY <1>4 DEF HandlerReturns
  <2>2. /\ thread' \in [Threads -> SeThreads] /\ thread'[t].pc = "erase"
        /\ \A u \in Threads \ {t} : thread'[u] = thread[u]
    BY <1>1, <1>3, <2>1, SesPc
  <2>3. CtlTypes'
    BY <1>1, <1>2, <2>1, <2>2 DEF CtlTypes
  <2>4. active' = Cardinality(Sitting') + Cardinality(Seats')
    BY <1>2, <2>1, <2>2, CountSame
  <2> QED
    BY <1>1, <1>2, <2>3, <2>4 DEF CtlCounted
<1>5. CASE SessionErase(t)
  <2>1. thread[t].pc = "erase" /\ thread' = [thread EXCEPT ![t].pc = "close"] /\ clientFds' = clientFds \ thread[t].fds
        /\ UNCHANGED <<owner, active>>
    BY <1>5 DEF SessionErase
  <2>2. /\ thread' \in [Threads -> SeThreads] /\ thread'[t].pc = "close"
        /\ \A u \in Threads \ {t} : thread'[u] = thread[u]
    BY <1>1, <1>3, <2>1, SesPc
  <2>3. CtlTypes'
    BY <1>1, <1>2, <2>1, <2>2 DEF CtlTypes
  <2>4. active' = Cardinality(Sitting') + Cardinality(Seats')
    BY <1>2, <2>1, <2>2, CountSame
  <2> QED
    BY <1>1, <1>2, <2>3, <2>4 DEF CtlCounted
<1>6. CASE SessionClose(t)
  <2>1. PICK k : k = [pc |-> "leave", fds |-> {}]
    OBVIOUS
  <2>2. k \in SeThreads /\ k.pc = "leave"
    BY <1>3, <2>1 DEF SeThreads
  <2>3. /\ thread[t].pc = "close" /\ thread' = [thread EXCEPT ![t] = k] /\ UNCHANGED <<clientFds, active>>
        /\ owner' = [f \in Fds |-> IF f \in thread[t].fds THEN "nobody" ELSE owner[f]]
    BY <1>6, <2>1 DEF SessionClose
  <2>4. thread' \in [Threads -> SeThreads] /\ thread'[t] = k /\ \A u \in Threads \ {t} : thread'[u] = thread[u]
    BY <1>1, <2>2, <2>3, SesSet
  <2>5. owner' \in [Fds -> {"nobody", "server", "stranger"}]
    BY <1>1, <2>3
  <2>6. CtlTypes'
    BY <1>1, <1>2, <2>3, <2>4, <2>5 DEF CtlTypes
  <2>7. \A u \in Threads : thread'[u].pc # "none" <=> thread[u].pc # "none"
    BY <2>2, <2>3, <2>4
  <2>8. active' = Cardinality(Sitting') + Cardinality(Seats')
    BY <1>2, <2>3, <2>7, CountSame
  <2> QED
    BY <1>1, <1>2, <2>6, <2>8 DEF CtlCounted
<1>7. CASE SessionLeave(t)
  <2>1. thread[t].pc = "leave" /\ thread' = [thread EXCEPT ![t].pc = "none"] /\ active' = active - 1
        /\ UNCHANGED <<clientFds, owner>>
    BY <1>7 DEF SessionLeave
  <2>2. /\ thread' \in [Threads -> SeThreads] /\ thread'[t].pc = "none"
        /\ \A u \in Threads \ {t} : thread'[u] = thread[u]
    BY <1>1, <1>3, <2>1, SesPc
  <2>3. Sitting' = Sitting \ {t} /\ t \in Sitting
    <3>1. \A u \in Threads : thread'[u].pc # "none" <=> thread[u].pc # "none" /\ u # t
      BY <2>2
    <3> QED
      BY <2>1, <3>1 DEF Sitting
  <2>4. Cardinality(Sitting') = Cardinality(Sitting) - 1 /\ Cardinality(Sitting') \in Nat
    <3>1. IsFiniteSet(Sitting') /\ Cardinality(Sitting') = Cardinality(Sitting) - 1
      BY <2>3, SittingCounted, FS_RemoveElement
    <3> QED
      BY <3>1, FS_CardinalityType
  <2>5. active' = Cardinality(Sitting') + Cardinality(Seats')
    BY <1>1, <1>2, <2>1, <2>4, SeatsCounted, SittingCounted
  <2>6. active' \in Nat /\ active' <= Cardinality(Threads)
    <3>1. Cardinality(Threads) \in Nat
      BY ControllerAssumption, FS_CardinalityType
    <3>2. active' \in Nat
      BY <1>2, <2>4, <2>5, SeatsCounted
    <3> QED
      BY <1>1, <2>1, <3>1, <3>2
  <2>7. CtlTypes'
    BY <1>1, <1>2, <2>1, <2>2, <2>6 DEF CtlTypes
  <2> QED
    BY <1>1, <1>2, <2>5, <2>7 DEF CtlCounted
<1>8. QED
  BY <1>4, <1>5, <1>6, <1>7 DEF SessionEnd

LEMMA TypedStranger ==
    ASSUME CtlCounted, NEW f \in Fds, StrangerOpens(f) \/ StrangerCloses(f) PROVE CtlCounted'
<1>1. UNCHANGED <<running, stop, gen, listening, handle, acceptor, clientFds, active, thread, call, aborted>>
  BY DEF StrangerOpens, StrangerCloses
<1>2. owner' \in [Fds -> {"nobody", "server", "stranger"}] /\ shut' \subseteq Fds
  BY DEF StrangerOpens, StrangerCloses, CtlCounted, CtlTypes
<1>3. CtlTypes'
  BY <1>1, <1>2 DEF CtlCounted, CtlTypes
<1>4. active' = Cardinality(Sitting') + Cardinality(Seats')
  BY <1>1, CountSame
<1>5. QED
  BY <1>1, <1>3, <1>4 DEF CtlCounted

LEMMA CountedInitial == ControllerInit => CtlCounted
<1> SUFFICES ASSUME ControllerInit PROVE CtlCounted
  OBVIOUS
<1>1. CtlTypes /\ aborted \in BOOLEAN
  BY CtlInitial DEF CtlInv, CtlPhase
<1>2. Sitting = {} /\ Seats = {} /\ active = 0 /\ \A g \in Gens : acceptor[g].pc = "none"
  BY DEF ControllerInit, NoThread, Sitting, Seats
<1>3. QED
  BY <1>1, <1>2, FS_EmptySet DEF CtlCounted

LEMMA CountedStep == CtlCounted /\ [ControllerNext]_cvars => CtlCounted'
<1> SUFFICES ASSUME CtlCounted, [ControllerNext]_cvars PROVE CtlCounted'
  OBVIOUS
<1>1. ASSUME NEW c \in Callers, Start(c) \/ StopBegin(c) \/ StopStep(c) PROVE CtlCounted'
  BY <1>1, TypedCalls
<1>2. ASSUME NEW g \in Gens, AcceptStep(g) PROVE CtlCounted'
  BY <1>2, TypedAccepts, TypedCount, TypedSpawn DEF AcceptStep
<1>3. ASSUME NEW t \in Threads, HandlerReturns(t) \/ SessionEnd(t) PROVE CtlCounted'
  BY <1>3, TypedSession
<1>4. ASSUME NEW f \in Fds, StrangerOpens(f) \/ StrangerCloses(f) PROVE CtlCounted'
  BY <1>4, TypedStranger
<1>5. CASE UNCHANGED cvars
  <2>1. UNCHANGED <<running, stop, gen, listening, handle, acceptor, clientFds, owner, shut, active, thread, call, aborted>>
    BY <1>5 DEF cvars
  <2>2. CtlTypes'
    BY <2>1 DEF CtlCounted, CtlTypes
  <2>3. active' = Cardinality(Sitting') + Cardinality(Seats')
    BY <2>1, CountSame
  <2> QED
    BY <2>1, <2>2, <2>3 DEF CtlCounted
<1>6. QED
  BY <1>1, <1>2, <1>3, <1>4, <1>5 DEF ControllerNext

LEMMA CountedTyped == CtlCounted => ControllerTypeOK
<1> SUFFICES ASSUME CtlCounted PROVE ControllerTypeOK
  OBVIOUS
<1>1. active \in 0..Cardinality(Threads)
  <2>1. Cardinality(Threads) \in Nat
    BY ControllerAssumption, FS_CardinalityType
  <2> QED
    BY <2>1 DEF CtlCounted, CtlTypes
<1>2. QED
  BY <1>1 DEF CtlCounted, CtlTypes, ControllerTypeOK, AcThreads, AcPcs, SeThreads, SePcs, StCalls

(* However many threads start and stop the listener, its state is what its  *)
(* type says: active_conns_ is never negative, and no more sessions are     *)
(* counted than there can be threads.                                       *)
THEOREM ListenerTypeCorrect == ControllerSpec => []ControllerTypeOK
BY CountedInitial, CountedStep, CountedTyped, PTL DEF ControllerSpec

(* Every component of the composition is well typed; of the worker, which   *)
(* is typed to be running while it holds a thread, this asks for one caller *)
(* of its Stop.                                                             *)
THEOREM SessionsTypeCorrect == OneStopper => (MCSpec => []SessionsTypeOK)
<1> SUFFICES ASSUME OneStopper PROVE MCSpec => []SessionsTypeOK
  OBVIOUS
<1> DEFINE all == CtlCounted /\ WkrInv /\ AccInv /\ FeedInv
<1>1. MCInit => all
  BY CountedInitial, WkrInitial, AccInitial, FeedInitial DEF MCInit
<1>2. all /\ [MCNext]_sessionsVars => all'
  <2> SUFFICES ASSUME all, [MCNext]_sessionsVars PROVE all'
    OBVIOUS
  <2>1. [ControllerNext]_cvars /\ [WorkerNext]_wvars /\ [AccessNext]_avars /\ [FeedNext]_nvars
    BY DEF MCNext, sessionsVars
  <2>2. QED
    BY <2>1, CountedStep, WkrStep, AccStep, FeedStep
<1>3. all => SessionsTypeOK
  BY CountedTyped, WkrTyped, AccTyped, FeedTyped DEF SessionsTypeOK
<1> HIDE DEF all
<1>4. QED
  BY <1>1, <1>2, <1>3, PTL DEF MCSpec
====
