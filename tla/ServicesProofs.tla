--------------------------- MODULE ServicesProofs ----------------------------
(***************************************************************************)
(* Proofs about the services beside the mail: express messages, accounts   *)
(* and their browser sessions, the managed certificate and the wiki, for   *)
(* any number of clients, connections, runs and editors, and at the end     *)
(* that their composition in MCServices is well typed.                     *)
(***************************************************************************)
EXTENDS MCServices, OrderLemmas, FiniteSetTheorems, TLAPS

(* Express *)

ExRows == [st : {"none", "in", "pruned"}, from : Writers \cup {Me}, delivered : BOOLEAN]

Polls == [todo : SUBSET Nums, out : 0..MaxMsg]
Chats == [pc : {"off", "begun", "mark", "typing", "lines"}, with : Talks, seen : 0..MaxMsg, token : 0..MaxMsg]
Webs == [pc : {"idle", "page", "feed", "mark", "sent"}, with : Talks, since : 0..MaxMsg, token : 0..MaxMsg]

(* The types, and: a number is in one writer's hands only, and a number     *)
(* nobody has taken yet has no row.                                         *)
ExpressTypes ==
    /\ exrow \in [Nums -> ExRows]
    /\ taken \in 0..MaxMsg
    /\ writing \in [Writers \cup {Me} -> 0..taken]
    /\ poll \in [Pollers -> Polls]
    /\ chat \in Chats /\ web \in Webs
    /\ shown \subseteq Nums /\ excused \subseteq Nums
    /\ \A n \in Nums : n > taken => exrow[n].st = "none"
    /\ \A v \in Writers \cup {Me} : writing[v] > 0 => exrow[writing[v]].st = "none"
    /\ \A v, u \in Writers \cup {Me} : writing[v] > 0 /\ writing[v] = writing[u] => v = u

Covered == shown \cup excused
(* A token some client holds is the number of a row that has appeared. *)
Appeared(k) == k > 0 => exrow[k].st # "none"
(* A mark through k leaves nothing marked unshown. *)
SafeMark(k) == \A n \in PendingExpress : n <= k => n \in Covered

(* What was marked was shown, what is about to be marked was, and the       *)
(* tokens in hand are numbers of rows.                                      *)
ExpressRest ==
    /\ DeliveredWasShown
    /\ \A r \in Pollers : poll[r].out > 0 => poll[r].out \in shown
    /\ Appeared(chat.seen) /\ Appeared(chat.token) /\ Appeared(web.token)
    /\ chat.pc = "begun" => PendingExpress \subseteq Covered
    /\ chat.pc \in {"mark", "typing", "lines"} => SafeMark(chat.seen)
    /\ web.pc = "mark" => SafeMark(web.token)

ExpressInv == ExpressTypes /\ ExpressRest

-----------------------------------------------------------------------------
LEMMA PendingNums == PendingExpress \subseteq Nums /\ Here \subseteq Nums /\ PendingExpress \subseteq Nat
BY ExpressBounds DEF PendingExpress, Here, Nums

(* The token is 0 or the number of the newest row there is. *)
LEMMA TokenIsARow ==
    ASSUME ExpressTypes
    PROVE  ExpressChangeToken \in 0..MaxMsg /\ Appeared(ExpressChangeToken) /\ \A n \in Here : n <= ExpressChangeToken
<1>1. CASE Here = {}
  BY <1>1, ExpressBounds DEF ExpressChangeToken, Appeared
<1>2. CASE Here # {}
  <2>1. Here \subseteq 0..MaxMsg
    BY ExpressBounds DEF Here, Nums
  <2>2. Max(Here) \in Here /\ \A n \in Here : n <= Max(Here)
    BY <1>2, <2>1, MaxIsGreatest, ExpressBounds
  <2>3. ExpressChangeToken = Max(Here)
    BY <1>2 DEF ExpressChangeToken
  <2>4. QED
    BY <2>1, <2>2, <2>3 DEF Appeared, Here
<1>3. QED
  BY <1>1, <1>2

LEMMA HistoryNums == \A with : ExpressHistory(with) \subseteq Nums /\ LeftOut(with) \subseteq Nums
BY PendingNums DEF ExpressHistory, Between, LeftOut

(* A mark changes nothing but `delivered', and that of waiting rows only. *)
LEMMA MarkKeepsRows ==
    ASSUME ExpressTypes, NEW k, MarkThrough(k)
    PROVE  /\ exrow' \in [Nums -> ExRows]
           /\ \A n \in Nums : /\ exrow'[n].st = exrow[n].st /\ exrow'[n].from = exrow[n].from
                              /\ exrow'[n] = exrow[n] \/ (n \in PendingExpress /\ n <= k /\ exrow'[n].delivered = TRUE)
<1>1. exrow \in [Nums -> ExRows]
  BY DEF ExpressTypes
<1>2. ASSUME NEW n \in Nums
      PROVE  /\ exrow'[n] \in ExRows /\ exrow'[n].st = exrow[n].st /\ exrow'[n].from = exrow[n].from
             /\ exrow'[n] = exrow[n] \/ (n \in PendingExpress /\ n <= k /\ exrow'[n].delivered = TRUE)
  <2>1. exrow'[n] = IF n \in PendingExpress /\ n <= k THEN [exrow[n] EXCEPT !.delivered = TRUE] ELSE exrow[n]
    BY DEF MarkThrough
  <2>2. QED
    BY <1>1, <2>1 DEF ExRows
<1>3. DOMAIN exrow' = Nums /\ exrow' = [n \in Nums |-> exrow'[n]]
  BY DEF MarkThrough
<1>4. exrow' \in [Nums -> ExRows]
  BY <1>2, <1>3
<1>5. QED
  BY <1>2, <1>4

LEMMA ExpressInitial == ExpressInit => ExpressInv
<1> SUFFICES ASSUME ExpressInit PROVE ExpressInv
  OBVIOUS
<1> USE ExpressBounds DEF ExpressInit, Nums
<1>1. ExpressTypes
  BY DEF ExpressTypes, ExRows, NoRow, Talks, Polls, Chats, Webs
<1>2. DeliveredWasShown
  BY DEF DeliveredWasShown, NoRow
<1>3. QED
  BY <1>1, <1>2 DEF ExpressInv, ExpressRest, Appeared

LEMMA ExpressTypesStep == ExpressTypes /\ [ExpressNext]_exvars => ExpressTypes'
<1> SUFFICES ASSUME ExpressTypes, [ExpressNext]_exvars PROVE ExpressTypes'
  OBVIOUS
<1> USE ExpressBounds DEF ExpressTypes
<1>0. 0 \in 0..MaxMsg
  OBVIOUS
<1>1. ASSUME NEW v \in Writers \cup {Me}, SendNumber(v) PROVE ExpressTypes'
  BY <1>1 DEF SendNumber, Nums
<1>2. ASSUME NEW v \in Writers \cup {Me}, SendInsert(v) PROVE ExpressTypes'
  <2> DEFINE n == writing[v]
             r == [st |-> "in", from |-> v, delivered |-> FALSE]
  <2>1. n \in Nums /\ r \in ExRows
    BY <1>2 DEF SendInsert, Nums, ExRows
  <2>2. exrow' = [exrow EXCEPT ![n] = r] /\ writing' = [writing EXCEPT ![v] = 0]
    BY <1>2 DEF SendInsert
  <2>3. exrow' \in [Nums -> ExRows] /\ \A k \in Nums \ {n} : exrow'[k] = exrow[k]
    BY <2>1, <2>2
  <2>4. writing' \in [Writers \cup {Me} -> 0..taken] /\ writing'[v] = 0
        /\ \A u \in (Writers \cup {Me}) \ {v} : writing'[u] = writing[u]
    BY <2>2
  <2>5. \A u \in Writers \cup {Me} : writing'[u] > 0 => writing'[u] \in Nums \ {n}
    BY <2>1, <2>4 DEF Nums
  <2>6. excused' \subseteq Nums
    BY <1>2, <2>1 DEF SendInsert
  <2> HIDE DEF n, r
  <2>7. \A k \in Nums : k > taken => exrow'[k].st = "none"
    BY <2>1, <2>3, n <= taken DEF Nums, n
  <2>8. QED
    BY <1>2, <2>3, <2>4, <2>5, <2>6, <2>7 DEF SendInsert
<1>3. ASSUME NEW r \in Pollers, PollRead(r) PROVE ExpressTypes'
  <2>1. PendingExpress \in SUBSET Nums /\ {Min(PendingExpress)} \in SUBSET Nums
    BY <1>3, PendingNums, MinIsLeast DEF PollRead
  <2>2. PICK todo \in SUBSET Nums : poll' = [poll EXCEPT ![r].todo = todo]
    BY <1>3, <2>1 DEF PollRead
  <2>3. poll' \in [Pollers -> Polls]
    BY <2>2 DEF Polls
  <2>4. QED
    BY <1>3, <2>3 DEF PollRead
<1>4. ASSUME NEW r \in Pollers, PollShow(r) PROVE ExpressTypes'
  <2> DEFINE n == Min(poll[r].todo)
  <2>1. poll[r].todo \subseteq Nums /\ Nums \subseteq Nat /\ poll[r].todo # {}
    BY <1>4 DEF PollShow, Polls, Nums
  <2>2. n \in poll[r].todo
    BY <2>1, MinIsLeast
  <2>3. n \in Nums /\ n \in 0..MaxMsg
    BY <2>1, <2>2 DEF Nums
  <2>4. poll' = [poll EXCEPT ![r] = [todo |-> poll[r].todo \ {n}, out |-> n]] /\ shown' = shown \cup {n}
    BY <1>4 DEF PollShow
  <2> HIDE DEF n
  <2>5. [todo |-> poll[r].todo \ {n}, out |-> n] \in Polls
    BY <2>1, <2>3 DEF Polls
  <2>6. poll' \in [Pollers -> Polls] /\ shown' \subseteq Nums
    BY <2>3, <2>4, <2>5
  <2>7. QED
    BY <1>4, <2>6 DEF PollShow
<1>5. ASSUME NEW r \in Pollers, MarkExpressDelivered(r) PROVE ExpressTypes'
  <2> DEFINE n == poll[r].out
  <2>1. n \in Nums
    BY <1>5 DEF MarkExpressDelivered, Polls, Nums
  <2>2. poll' \in [Pollers -> Polls]
    BY <1>5 DEF MarkExpressDelivered, Polls
  <2>3. exrow' \in [Nums -> ExRows] /\ \A k \in Nums : exrow'[k].st = exrow[k].st
    <3> DEFINE r0 == exrow[n]
               k0 == [r0 EXCEPT !.delivered = TRUE]
    <3>1. (exrow' = [exrow EXCEPT ![n] = k0] \/ exrow' = exrow) /\ exrow \in [Nums -> ExRows] /\ r0 \in ExRows
      BY <1>5, <2>1 DEF MarkExpressDelivered
    <3> HIDE DEF r0, n
    <3>2. k0 \in ExRows /\ k0.st = r0.st
      BY <3>1 DEF ExRows
    <3> HIDE DEF k0
    <3>3. QED
      BY <2>1, <3>1, <3>2 DEF r0
  <2>4. \A v \in Writers \cup {Me} : writing[v] > 0 => writing[v] \in Nums
    BY DEF Nums
  <2>5. QED
    BY <1>5, <2>2, <2>3, <2>4 DEF MarkExpressDelivered
<1>6. ASSUME NEW r \in Pollers, PollLost(r) PROVE ExpressTypes'
  <2>1. poll' \in [Pollers -> Polls]
    BY <1>6 DEF PollLost, Polls
  <2>2. QED
    BY <1>6, <2>1 DEF PollLost
<1>7. ASSUME NEW with \in Talks, ChatBegin(with) PROVE ExpressTypes'
  <2>1. chat' \in Chats
    BY <1>7 DEF ChatBegin, Chats
  <2>2. QED
    BY <1>7, <2>1, HistoryNums DEF ChatBegin
<1>8. CASE ChatToken
  <2>1. chat' \in Chats
    BY <1>8, TokenIsARow DEF ChatToken, Chats
  <2>2. QED
    BY <1>8, <2>1 DEF ChatToken
<1>9. CASE ChatMark
  <2>1. chat' \in Chats
    BY <1>9 DEF ChatMark, Chats
  <2>2. MarkThrough(chat.seen)
    BY <1>9 DEF ChatMark
  <2>3. exrow' \in [Nums -> ExRows] /\ \A k \in Nums : exrow'[k].st = exrow[k].st
    BY <2>2, MarkKeepsRows
  <2>4. \A v \in Writers \cup {Me} : writing[v] > 0 => writing[v] \in Nums
    BY DEF Nums
  <2>5. QED
    BY <1>9, <2>1, <2>3, <2>4 DEF ChatMark
<1>10. CASE ChatRefresh
  <2>1. chat' \in Chats
    BY <1>10, TokenIsARow DEF ChatRefresh, Chats
  <2>2. QED
    BY <1>10, <2>1 DEF ChatRefresh
<1>11. CASE ChatLines
  <2>1. chat' \in Chats
    <3>1. chat \in Chats
      OBVIOUS
    <3> HIDE DEF ExpressTypes
    <3>2. QED
      BY <1>0, <1>11, <3>1 DEF ChatLines, Chats
  <2>2. QED
    BY <1>11, <2>1, HistoryNums DEF ChatLines
<1>12. CASE ChatLeave
  <2>1. chat' \in Chats
    BY <1>12 DEF ChatLeave, Chats, Talks
  <2>2. QED
    BY <1>12, <2>1 DEF ChatLeave
<1>13. ASSUME NEW with \in Talks, GetChat(with) PROVE ExpressTypes'
  <2>1. web' \in Webs
    BY <1>13, TokenIsARow DEF GetChat, Webs
  <2>2. QED
    BY <1>13, <2>1 DEF GetChat
<1>14. CASE GetChatFeed
  <2>1. web' \in Webs
    BY <1>14, TokenIsARow DEF GetChatFeed, Webs
  <2>2. QED
    BY <1>14, <2>1 DEF GetChatFeed
<1>15. CASE RenderLog
  <2>1. web' \in Webs
    <3>1. web \in Webs
      OBVIOUS
    <3> HIDE DEF ExpressTypes
    <3>2. QED
      BY <1>0, <1>15, <3>1 DEF RenderLog, Webs
  <2>2. QED
    BY <1>15, <2>1, HistoryNums DEF RenderLog
<1>16. CASE WebMark
  <2>1. web' \in Webs
    <3>1. web \in Webs
      OBVIOUS
    <3> HIDE DEF ExpressTypes
    <3>2. QED
      BY <1>0, <1>16, <3>1 DEF WebMark, Webs
  <2>2. MarkThrough(web.token)
    BY <1>16 DEF WebMark
  <2>3. exrow' \in [Nums -> ExRows] /\ \A k \in Nums : exrow'[k].st = exrow[k].st
    BY <2>2, MarkKeepsRows
  <2>4. \A v \in Writers \cup {Me} : writing[v] > 0 => writing[v] \in Nums
    BY DEF Nums
  <2>5. QED
    BY <1>16, <2>1, <2>3, <2>4 DEF WebMark
<1>17. ASSUME NEW with \in Partners, PostChatSend(with) PROVE ExpressTypes'
  <2>1. web' \in Webs
    BY <1>17, TokenIsARow DEF PostChatSend, Webs, Talks
  <2>2. QED
    BY <1>17, <2>1 DEF PostChatSend
<1>18. CASE SentLog
  <2>1. web' \in Webs
    <3>1. web \in Webs
      OBVIOUS
    <3> HIDE DEF ExpressTypes
    <3>2. QED
      BY <1>0, <1>18, <3>1 DEF SentLog, Webs
  <2>2. QED
    BY <1>18, <2>1, HistoryNums DEF SentLog
<1>19. ASSUME NEW n \in Nums, PruneExpress(n) PROVE ExpressTypes'
  BY <1>19 DEF PruneExpress, ExRows
<1>20. CASE UNCHANGED exvars
  BY <1>20 DEF exvars
<1>21. QED
  BY <1>1, <1>2, <1>3, <1>4, <1>5, <1>6, <1>7, <1>8, <1>9, <1>10, <1>11, <1>12,
     <1>13, <1>14, <1>15, <1>16, <1>17, <1>18, <1>19, <1>20 DEF ExpressNext

(* A step that adds no waiting row, takes no row away and forgets nothing    *)
(* that was shown: tokens stay the numbers of rows and marks stay safe.     *)
Kept ==
    /\ \A k \in 0..MaxMsg : (Appeared(k) => Appeared(k)') /\ (SafeMark(k) => SafeMark(k)')
    /\ PendingExpress \subseteq Covered => PendingExpress' \subseteq Covered'

LEMMA RowsKept ==
    ASSUME PendingExpress' \subseteq PendingExpress, Covered \subseteq Covered',
           \A n \in Nums : exrow[n].st # "none" => exrow'[n].st # "none"
    PROVE  Kept
<1>1. ASSUME NEW k \in 0..MaxMsg, Appeared(k) PROVE Appeared(k)'
  BY <1>1, ExpressBounds DEF Appeared, Nums
<1>2. ASSUME NEW k \in 0..MaxMsg, SafeMark(k) PROVE SafeMark(k)'
  BY <1>2 DEF SafeMark
<1>3. QED
  BY <1>1, <1>2 DEF Kept

LEMMA StillKept ==
    ASSUME UNCHANGED exrow, Covered \subseteq Covered'
    PROVE  Kept /\ PendingExpress' = PendingExpress
<1>1. PendingExpress' = PendingExpress
  BY DEF PendingExpress, Here
<1>2. QED
  BY <1>1, RowsKept

LEMMA ExpressRestStep == ExpressTypes /\ ExpressRest /\ ExpressTypes' /\ [ExpressNext]_exvars => ExpressRest'
<1> SUFFICES ASSUME ExpressTypes, ExpressRest, ExpressTypes', [ExpressNext]_exvars PROVE ExpressRest'
  OBVIOUS
<1>0. /\ chat.seen \in 0..MaxMsg /\ chat.token \in 0..MaxMsg /\ web.token \in 0..MaxMsg /\ 0 \in 0..MaxMsg
      /\ chat \in Chats /\ web \in Webs /\ poll \in [Pollers -> Polls] /\ exrow \in [Nums -> ExRows]
  BY ExpressBounds DEF ExpressTypes, Chats, Webs
<1>a. ASSUME UNCHANGED exrow, shown \subseteq shown', excused \subseteq excused'
      PROVE  DeliveredWasShown' /\ Kept /\ PendingExpress' = PendingExpress
  BY <1>a, StillKept DEF ExpressRest, DeliveredWasShown, Covered
<1>b. Appeared(0)
  BY DEF Appeared
<1>1. ASSUME NEW v \in Writers \cup {Me}, SendNumber(v) PROVE ExpressRest'
  <2>1. DeliveredWasShown' /\ Kept /\ PendingExpress' = PendingExpress
    BY <1>1, <1>a DEF SendNumber
  <2>2. QED
    BY <1>1, <1>0, <1>b, <2>1 DEF SendNumber, ExpressRest, Kept, Chats, Webs
<1>2. ASSUME NEW v \in Writers \cup {Me}, SendInsert(v) PROVE ExpressRest'
  <2> DEFINE n == writing[v]
  <2>1. /\ n \in Nums /\ exrow[n].st = "none" /\ UNCHANGED <<chat, web, poll, shown>>
        /\ exrow' = [exrow EXCEPT ![n] = [st |-> "in", from |-> v, delivered |-> FALSE]]
        /\ excused' = IF v # Me /\ (chat.pc = "begun" \/ \E k \in Nums : k > n /\ exrow[k].st # "none")
                      THEN excused \cup {n} ELSE excused
    BY <1>2, ExpressBounds DEF SendInsert, ExpressTypes, Nums
  <2> HIDE DEF n
  <2>2. /\ exrow'[n] = [st |-> "in", from |-> v, delivered |-> FALSE]
        /\ \A k \in Nums \ {n} : exrow'[k] = exrow[k]
    BY <1>0, <2>1
  <2>3. PendingExpress' \subseteq PendingExpress \cup {n} /\ (v = Me => PendingExpress' \subseteq PendingExpress)
    BY <2>2 DEF PendingExpress, Here
  <2>4. Covered \subseteq Covered'
    BY <2>1 DEF Covered
  <2>5. ASSUME NEW k \in 0..MaxMsg, Appeared(k) PROVE Appeared(k)' /\ (SafeMark(k) => SafeMark(k)')
    <3>1. Appeared(k)'
      BY <2>1, <2>2, <2>5 DEF Appeared, Nums
    <3>2. ASSUME SafeMark(k), NEW i \in PendingExpress', i <= k PROVE i \in Covered'
      <4>1. CASE i \in PendingExpress
        BY <2>4, <3>2, <4>1 DEF SafeMark
      <4>2. CASE i = n /\ v # Me
        <5>1. k > n /\ k \in Nums /\ exrow[k].st # "none"
          BY <2>1, <2>5, <3>2, <4>2, ExpressBounds DEF Appeared, Nums
        <5>2. QED
          BY <2>1, <4>2, <5>1 DEF Covered
      <4>3. QED
        BY <2>3, <3>2, <4>1, <4>2
    <3>3. QED
      BY <3>1, <3>2 DEF SafeMark
  <2>6. DeliveredWasShown'
    <3>1. \A k \in Nums : k # n => exrow'[k] = exrow[k]
      BY <2>2
    <3>2. exrow'[n].delivered = FALSE /\ exrow'[n].st = "in"
      BY <2>2
    <3>3. QED
      BY <2>1, <3>1, <3>2 DEF DeliveredWasShown, ExpressRest
  <2>7. chat.pc = "begun" => PendingExpress' \subseteq Covered'
    BY <2>1, <2>3, <2>4 DEF ExpressRest, Covered
  <2>8. QED
    BY <1>0, <2>1, <2>5, <2>6, <2>7 DEF ExpressRest
<1>3. ASSUME NEW r \in Pollers, PollRead(r) PROVE ExpressRest'
  <2>1. DeliveredWasShown' /\ Kept /\ PendingExpress' = PendingExpress
    BY <1>3, <1>a DEF PollRead
  <2>2. QED
    BY <1>3, <1>0, <1>b, <2>1 DEF PollRead, ExpressRest, Kept, Chats, Webs, Polls
<1>4. ASSUME NEW r \in Pollers, PollShow(r) PROVE ExpressRest'
  <2> DEFINE n == Min(poll[r].todo)
  <2>1. DeliveredWasShown' /\ Kept /\ PendingExpress' = PendingExpress
    BY <1>4, <1>a DEF PollShow
  <2>2. poll' = [poll EXCEPT ![r] = [todo |-> poll[r].todo \ {n}, out |-> n]] /\ shown' = shown \cup {n}
    BY <1>4 DEF PollShow
  <2> HIDE DEF n
  <2>3. \A t \in Pollers : poll'[t].out > 0 => poll'[t].out \in shown'
    BY <1>0, <2>2 DEF ExpressRest
  <2>4. QED
    BY <1>4, <1>0, <2>1, <2>3 DEF PollShow, ExpressRest, Kept
<1>5. ASSUME NEW r \in Pollers, MarkExpressDelivered(r) PROVE ExpressRest'
  <2> DEFINE n == poll[r].out
  <2>1. /\ n \in Nums /\ n \in shown /\ UNCHANGED <<chat, web, shown, excused>>
        /\ exrow' = IF exrow[n].st = "in" THEN [exrow EXCEPT ![n].delivered = TRUE] ELSE exrow
    BY <1>5, <1>0 DEF MarkExpressDelivered, ExpressRest, Polls, Nums
  <2>2. \A t \in Pollers : poll'[t].out > 0 => poll'[t].out \in shown'
    BY <1>5, <1>0, <2>1 DEF MarkExpressDelivered, ExpressRest, Polls
  <2> HIDE DEF n
  <2>3. \A k \in Nums : /\ exrow'[k].st = exrow[k].st /\ exrow'[k].from = exrow[k].from
                        /\ exrow'[k] = exrow[k] \/ (k = n /\ exrow'[k].delivered = TRUE)
    BY <1>0, <2>1 DEF ExRows
  <2>4. DeliveredWasShown'
    BY <2>1, <2>3 DEF DeliveredWasShown, ExpressRest
  <2>5. PendingExpress' \subseteq PendingExpress
    BY <2>3 DEF PendingExpress, Here
  <2>6. Kept
    BY <2>1, <2>3, <2>5, RowsKept DEF Covered
  <2>7. QED
    BY <1>0, <2>1, <2>2, <2>4, <2>6 DEF ExpressRest, Kept
<1>6. ASSUME NEW r \in Pollers, PollLost(r) PROVE ExpressRest'
  <2>1. DeliveredWasShown' /\ Kept /\ PendingExpress' = PendingExpress
    BY <1>6, <1>a DEF PollLost
  <2>2. QED
    BY <1>6, <1>0, <1>b, <2>1 DEF PollLost, ExpressRest, Kept, Chats, Webs, Polls
<1>7. ASSUME NEW with \in Talks, ChatBegin(with) PROVE ExpressRest'
  <2>1. DeliveredWasShown' /\ Kept /\ PendingExpress' = PendingExpress
    BY <1>7, <1>a DEF ChatBegin
  <2>2. PendingExpress \subseteq Covered'
    BY <1>7 DEF ChatBegin, Covered, LeftOut
  <2>3. chat'.pc = "begun" /\ chat'.seen = 0 /\ chat'.token = 0 /\ UNCHANGED <<exrow, web, poll>> /\ shown \subseteq shown'
    BY <1>7 DEF ChatBegin
  <2>4. QED
    BY <1>0, <1>b, <2>1, <2>2, <2>3 DEF ExpressRest, Kept
<1>8. CASE ChatToken
  <2>1. DeliveredWasShown' /\ Kept /\ PendingExpress' = PendingExpress
    BY <1>8, <1>a DEF ChatToken
  <2>2. /\ chat.pc = "begun" /\ chat'.pc = "mark" /\ chat'.seen = ExpressChangeToken /\ chat'.token = chat.token
        /\ UNCHANGED <<exrow, web, poll, shown, excused>>
    BY <1>8, <1>0 DEF ChatToken, Chats
  <2>3. Appeared(ExpressChangeToken) /\ ExpressChangeToken \in 0..MaxMsg
    BY TokenIsARow
  <2>4. SafeMark(ExpressChangeToken)
    BY <2>2 DEF SafeMark, ExpressRest
  <2>5. QED
    BY <1>0, <2>1, <2>2, <2>3, <2>4 DEF ExpressRest, Kept
<1>9. CASE ChatMark
  <2>1. chat.pc = "mark" /\ chat'.pc = "typing" /\ chat'.seen = chat.seen /\ chat'.token = chat.token /\ UNCHANGED <<web, poll, shown, excused>>
    BY <1>9, <1>0 DEF ChatMark, Chats
  <2>2. /\ MarkThrough(chat.seen) /\ SafeMark(chat.seen)
    BY <1>9, <2>1 DEF ChatMark, ExpressRest
  <2>3. \A n \in Nums : /\ exrow'[n].st = exrow[n].st /\ exrow'[n].from = exrow[n].from
                        /\ exrow'[n] = exrow[n] \/ (n \in PendingExpress /\ n <= chat.seen /\ exrow'[n].delivered = TRUE)
    BY <2>2, MarkKeepsRows
  <2>4. DeliveredWasShown'
    BY <2>1, <2>2, <2>3 DEF DeliveredWasShown, ExpressRest, SafeMark, Covered
  <2>5. PendingExpress' \subseteq PendingExpress
    BY <2>3 DEF PendingExpress, Here
  <2>6. Kept
    <3>1. \A n \in Nums : exrow'[n].st = exrow[n].st
      BY <2>3
    <3>2. Covered \subseteq Covered'
      BY <2>1 DEF Covered
    <3>3. QED
      BY <2>5, <3>1, <3>2, RowsKept
  <2>7. QED
    BY <1>0, <1>b, <2>1, <2>4, <2>6 DEF ExpressRest, Kept
<1>10. CASE ChatRefresh
  <2>1. DeliveredWasShown' /\ Kept /\ PendingExpress' = PendingExpress
    BY <1>10, <1>a DEF ChatRefresh
  <2>2. /\ chat.pc = "typing" /\ chat'.pc = "lines" /\ chat'.seen = chat.seen /\ chat'.token = ExpressChangeToken
        /\ UNCHANGED <<exrow, web, poll, shown, excused>>
    BY <1>10, <1>0 DEF ChatRefresh, Chats
  <2>3. Appeared(ExpressChangeToken) /\ ExpressChangeToken \in 0..MaxMsg
    BY TokenIsARow
  <2>4. QED
    BY <1>0, <2>1, <2>2, <2>3 DEF ExpressRest, Kept
<1>11. CASE ChatLines
  <2>1. DeliveredWasShown' /\ Kept /\ PendingExpress' = PendingExpress
    BY <1>11, <1>a DEF ChatLines
  <2>2. /\ chat.pc = "lines" /\ chat'.pc = "mark" /\ chat'.seen = chat.token /\ chat'.token = 0
        /\ UNCHANGED <<exrow, web, poll>>
        /\ shown' = shown \cup {n \in ExpressHistory(chat.with) : n > chat.seen}
        /\ excused' = excused \cup LeftOut(chat.with)
    BY <1>11, <1>0 DEF ChatLines, Chats
  <2>3. PendingExpress' \subseteq Covered'
    <3> SUFFICES ASSUME NEW n \in PendingExpress PROVE n \in Covered'
      BY <2>1
    <3>1. n \in Nat /\ chat.seen \in Nat
      BY <1>0, PendingNums
    <3>2. CASE n \notin ExpressHistory(chat.with)
      BY <2>2, <3>2 DEF LeftOut, Covered
    <3>3. CASE n \in ExpressHistory(chat.with) /\ n > chat.seen
      BY <2>2, <3>3 DEF Covered
    <3>4. CASE n <= chat.seen
      BY <2>2, <3>4 DEF ExpressRest, SafeMark, Covered
    <3>5. QED
      BY <3>1, <3>2, <3>3, <3>4
  <2>4. SafeMark(chat.seen)'
    BY <2>3 DEF SafeMark
  <2>5. shown \subseteq shown'
    BY <2>2
  <2>6. QED
    BY <1>0, <1>b, <2>1, <2>2, <2>4, <2>5 DEF ExpressRest, Kept
<1>12. CASE ChatLeave
  <2>1. DeliveredWasShown' /\ Kept /\ PendingExpress' = PendingExpress
    BY <1>12, <1>a DEF ChatLeave
  <2>2. QED
    BY <1>12, <1>0, <1>b, <2>1 DEF ChatLeave, ExpressRest, Kept, Chats, Webs
<1>13. ASSUME NEW with \in Talks, GetChat(with) PROVE ExpressRest'
  <2>1. DeliveredWasShown' /\ Kept /\ PendingExpress' = PendingExpress
    BY <1>13, <1>a DEF GetChat
  <2>2. QED
    BY <1>13, <1>0, <1>b, <2>1, TokenIsARow DEF GetChat, ExpressRest, Kept, Chats, Webs
<1>14. CASE GetChatFeed
  <2>1. DeliveredWasShown' /\ Kept /\ PendingExpress' = PendingExpress
    BY <1>14, <1>a DEF GetChatFeed
  <2>2. QED
    BY <1>14, <1>0, <1>b, <2>1, TokenIsARow DEF GetChatFeed, ExpressRest, Kept, Chats, Webs
<1>15. CASE RenderLog
  <2>1. DeliveredWasShown' /\ Kept /\ PendingExpress' = PendingExpress
    BY <1>15, <1>a DEF RenderLog
  <2>2. /\ web'.pc = "mark" /\ web'.token = web.token /\ UNCHANGED <<exrow, chat, poll>>
        /\ shown' = shown \cup ExpressHistory(web.with) /\ excused' = excused \cup LeftOut(web.with)
    BY <1>15, <1>0 DEF RenderLog, Webs
  <2>3. PendingExpress' \subseteq Covered'
    BY <2>1, <2>2 DEF LeftOut, Covered
  <2>4. SafeMark(web.token)'
    BY <2>3 DEF SafeMark
  <2>5. shown \subseteq shown'
    BY <2>2
  <2>6. QED
    BY <1>0, <2>1, <2>2, <2>4, <2>5 DEF ExpressRest, Kept
<1>16. CASE WebMark
  <2>1. web.pc = "mark" /\ web'.pc = "idle" /\ web'.token = 0 /\ UNCHANGED <<chat, poll, shown, excused>>
    BY <1>16, <1>0 DEF WebMark, Webs
  <2>2. /\ MarkThrough(web.token) /\ SafeMark(web.token)
    BY <1>16, <2>1 DEF WebMark, ExpressRest
  <2>3. \A n \in Nums : /\ exrow'[n].st = exrow[n].st /\ exrow'[n].from = exrow[n].from
                        /\ exrow'[n] = exrow[n] \/ (n \in PendingExpress /\ n <= web.token /\ exrow'[n].delivered = TRUE)
    BY <2>2, MarkKeepsRows
  <2>4. DeliveredWasShown'
    BY <2>1, <2>2, <2>3 DEF DeliveredWasShown, ExpressRest, SafeMark, Covered
  <2>5. PendingExpress' \subseteq PendingExpress
    BY <2>3 DEF PendingExpress, Here
  <2>6. Kept
    <3>1. \A n \in Nums : exrow'[n].st = exrow[n].st
      BY <2>3
    <3>2. Covered \subseteq Covered'
      BY <2>1 DEF Covered
    <3>3. QED
      BY <2>5, <3>1, <3>2, RowsKept
  <2>7. QED
    BY <1>0, <1>b, <2>1, <2>4, <2>6 DEF ExpressRest, Kept
<1>17. ASSUME NEW with \in Partners, PostChatSend(with) PROVE ExpressRest'
  <2>1. DeliveredWasShown' /\ Kept /\ PendingExpress' = PendingExpress
    BY <1>17, <1>a DEF PostChatSend
  <2>2. QED
    BY <1>17, <1>0, <1>b, <2>1, TokenIsARow DEF PostChatSend, ExpressRest, Kept, Chats, Webs
<1>18. CASE SentLog
  <2>1. DeliveredWasShown' /\ Kept /\ PendingExpress' = PendingExpress
    BY <1>18, <1>a DEF SentLog
  <2>2. web'.pc = "idle" /\ web'.token = 0 /\ UNCHANGED <<exrow, chat, poll>> /\ shown \subseteq shown'
    BY <1>18, <1>0 DEF SentLog, Webs
  <2>3. QED
    BY <1>0, <1>b, <2>1, <2>2 DEF ExpressRest, Kept
<1>19. ASSUME NEW n \in Nums, PruneExpress(n) PROVE ExpressRest'
  <2>1. /\ exrow[n].delivered /\ exrow[n].st = "in" /\ UNCHANGED <<chat, web, poll, shown, excused>>
        /\ exrow' = [exrow EXCEPT ![n].st = "pruned"]
    BY <1>19 DEF PruneExpress
  <2>2. \A k \in Nums : /\ exrow'[k].st = (IF k = n THEN "pruned" ELSE exrow[k].st)
                       /\ exrow'[k].from = exrow[k].from /\ exrow'[k].delivered = exrow[k].delivered
    BY <1>0, <2>1 DEF ExRows
  <2>3. DeliveredWasShown'
    BY <2>1, <2>2 DEF DeliveredWasShown, ExpressRest
  <2>4. PendingExpress' \subseteq PendingExpress
    BY <2>1, <2>2 DEF PendingExpress, Here
  <2>5. Kept
    BY <2>1, <2>2, <2>4, RowsKept DEF Covered
  <2>6. QED
    BY <1>0, <2>1, <2>3, <2>5 DEF ExpressRest, Kept
<1>20. CASE UNCHANGED exvars
  <2>1. DeliveredWasShown' /\ Kept /\ PendingExpress' = PendingExpress
    BY <1>20, <1>a DEF exvars
  <2>2. QED
    BY <1>20, <1>0, <2>1 DEF exvars, ExpressRest, Kept
<1>21. QED
  BY <1>1, <1>2, <1>3, <1>4, <1>5, <1>6, <1>7, <1>8, <1>9, <1>10, <1>11, <1>12,
     <1>13, <1>14, <1>15, <1>16, <1>17, <1>18, <1>19, <1>20 DEF ExpressNext

LEMMA ExpressInvStep == ExpressInv /\ [ExpressNext]_exvars => ExpressInv'
BY ExpressTypesStep, ExpressRestStep DEF ExpressInv

LEMMA ExTyped == ExpressInv => ExpressTypeOK
<1> SUFFICES ASSUME ExpressInv PROVE ExpressTypeOK
  OBVIOUS
<1>0. ExpressTypes
  BY DEF ExpressInv
<1>1. \A n \in Nums : /\ exrow[n].st \in {"none", "in", "pruned"} /\ exrow[n].from \in Writers \cup {Me}
                      /\ exrow[n].delivered \in BOOLEAN
  BY <1>0 DEF ExpressTypes, ExRows
<1>2. \A r \in Pollers : poll[r].todo \subseteq Nums /\ poll[r].out \in 0..MaxMsg
  BY <1>0 DEF ExpressTypes, Polls
<1>3. /\ chat.pc \in {"off", "begun", "mark", "typing", "lines"} /\ chat.with \in Talks
      /\ web.pc \in {"idle", "page", "feed", "mark", "sent"} /\ web.with \in Talks
  BY <1>0 DEF ExpressTypes, Chats, Webs
<1>4. \A v \in Writers \cup {Me} : writing[v] \in 0..taken /\ (writing[v] > 0 => exrow[writing[v]].st = "none")
  BY <1>0 DEF ExpressTypes
<1>5. QED
  BY <1>0, <1>1, <1>2, <1>3, <1>4 DEF ExpressTypes, ExpressTypeOK

(* An express message that counts as delivered, or is gone, was written out *)
(* to its reader, for any number of writers, pollers and conversations and  *)
(* any length of the screen; the exceptions are the ones the code admits.   *)
THEOREM DeliveredMeansShown == ExpressSpec => []DeliveredWasShown
<1>1. ExpressInv => DeliveredWasShown
  BY DEF ExpressInv, ExpressRest
<1>2. QED
  BY <1>1, ExpressInitial, ExpressInvStep, PTL DEF ExpressSpec

-----------------------------------------------------------------------------
(* Accounts *)

AcPcs == {"ready", "verify", "rehash", "login", "change", "failed", "clear", "refresh", "register", "bind",
          "touch", "serve", "drop", "delete", "prune", "reap"}
AcJobs == [pc : AcPcs, try : 0..MaxGen, for : {"login", "change"}, gen : Nat, tok : Tokens, id : 0..MaxIds,
           expires : Nat, scope : SUBSET Tokens, all : BOOLEAN]
AcRows == [on : BOOLEAN, revoked : BOOLEAN, created : Nat, expires : Nat, presence : 0..MaxIds, gen : Nat,
           crossed : BOOLEAN]
AcOnline == [st : {"unused", "on", "off"}, tok : Tokens, seen : Nat, crossed : BOOLEAN]

AcTypes ==
    /\ now \in 0..MaxNow /\ gen \in 1..MaxGen
    /\ user \in [pw : 0..MaxGen, old : BOOLEAN, enabled : BOOLEAN]
    /\ row \in [Tokens -> AcRows]
    /\ online \in [Ids -> AcOnline]
    /\ fails \subseteq (0..MaxNow) \X Nat /\ IsFiniteSet(fails)
    /\ meant \in [pw : 0..MaxGen, undone : BOOLEAN]
    /\ conn \in [Conns -> AcJobs]

-----------------------------------------------------------------------------
(* A session that is gone stays gone: the only step that could bring a row  *)
(* back, CreateSession, takes a token nobody has had.                       *)
LEMMA GoneStep == AcTypes /\ [AccountsNext]_acvars => \A u \in Tokens : Gone(row[u]) => Gone(row'[u])
<1> SUFFICES ASSUME AcTypes, [AccountsNext]_acvars PROVE \A u \in Tokens : Gone(row[u]) => Gone(row'[u])
  OBVIOUS
<1>1. CASE Tick
  BY <1>1 DEF Tick
<1>2. ASSUME NEW c \in Conns, NEW try \in 0..gen, PostLogin(c, try) PROVE \A u \in Tokens : Gone(row[u]) => Gone(row'[u])
  BY <1>2 DEF PostLogin, Say
<1>3. ASSUME NEW c \in Conns, NEW try \in 0..gen, PostPassword(c, try) PROVE \A u \in Tokens : Gone(row[u]) => Gone(row'[u])
  BY <1>3 DEF PostPassword, Say
<1>4. ASSUME NEW c \in Conns, VerifyRead(c) PROVE \A u \in Tokens : Gone(row[u]) => Gone(row'[u])
  BY <1>4 DEF VerifyRead, Say, PasswordIs, NeedsRehash
<1>5. ASSUME NEW c \in Conns, Rehash(c) PROVE \A u \in Tokens : Gone(row[u]) => Gone(row'[u])
  BY <1>5 DEF Rehash, Say
<1>6. ASSUME NEW c \in Conns, RecordLoginFailure(c) PROVE \A u \in Tokens : Gone(row[u]) => Gone(row'[u])
  BY <1>6 DEF RecordLoginFailure, Say
<1>7. ASSUME NEW c \in Conns, NEW t \in Tokens, CreateSession(c, t) PROVE \A u \in Tokens : Gone(row[u]) => Gone(row'[u])
  BY <1>7 DEF CreateSession, Say, NoSession, Issued, AcTypes, AcRows, Gone
<1>8. ASSUME NEW c \in Conns, NEW t \in Tokens, PostLogout(c, t) PROVE \A u \in Tokens : Gone(row[u]) => Gone(row'[u])
  BY <1>8 DEF PostLogout, Say
<1>9. ASSUME NEW c \in Conns, ClearLoginFailures(c) PROVE \A u \in Tokens : Gone(row[u]) => Gone(row'[u])
  BY <1>9 DEF ClearLoginFailures, Say
<1>10. ASSUME NEW c \in Conns, NEW t \in Tokens, NEW tls \in BOOLEAN, LookupSession(c, t, tls) PROVE \A u \in Tokens : Gone(row[u]) => Gone(row'[u])
  BY <1>10 DEF LookupSession, Say, Capped, Usable, AcTypes, AcRows, Gone
<1>11. ASSUME NEW c \in Conns, RefreshSession(c) PROVE \A u \in Tokens : Gone(row[u]) => Gone(row'[u])
  BY <1>11 DEF RefreshSession, Say, Looked, AcTypes, AcRows, Gone
<1>12. ASSUME NEW c \in Conns, NEW i \in Ids, RegisterSession(c, i) PROVE \A u \in Tokens : Gone(row[u]) => Gone(row'[u])
  BY <1>12 DEF RegisterSession, Say, NextId
<1>13. ASSUME NEW c \in Conns, BindPresence(c) PROVE \A u \in Tokens : Gone(row[u]) => Gone(row'[u])
  BY <1>13 DEF BindPresence, Say, AcTypes, AcRows, Gone
<1>14. ASSUME NEW c \in Conns, TouchSession(c) PROVE \A u \in Tokens : Gone(row[u]) => Gone(row'[u])
  BY <1>14 DEF TouchSession, Say
<1>15. ASSUME NEW c \in Conns, Served(c) PROVE \A u \in Tokens : Gone(row[u]) => Gone(row'[u])
  BY <1>15 DEF Served, Say
<1>16. ASSUME NEW c \in Conns, SetPassword(c) PROVE \A u \in Tokens : Gone(row[u]) => Gone(row'[u])
  BY <1>16 DEF SetPassword, Say, EndsEverything
<1>17. ASSUME NEW c \in Conns, PostUserPasswd(c) PROVE \A u \in Tokens : Gone(row[u]) => Gone(row'[u])
  BY <1>17 DEF PostUserPasswd, Say, EndsEverything
<1>18. ASSUME NEW c \in Conns, PostUserAdd(c) PROVE \A u \in Tokens : Gone(row[u]) => Gone(row'[u])
  BY <1>18 DEF PostUserAdd, Say
<1>19. ASSUME NEW c \in Conns, NEW e \in BOOLEAN, PostUserEnable(c, e) PROVE \A u \in Tokens : Gone(row[u]) => Gone(row'[u])
  BY <1>19 DEF PostUserEnable, Say, EndsEverything
<1>20. ASSUME NEW c \in Conns, PostUserRemove(c) PROVE \A u \in Tokens : Gone(row[u]) => Gone(row'[u])
  BY <1>20 DEF PostUserRemove, Say, EndsEverything
<1>21. ASSUME NEW c \in Conns, PruneSessions(c) PROVE \A u \in Tokens : Gone(row[u]) => Gone(row'[u])
  BY <1>21 DEF PruneSessions, Say, Stale, Dropped, Unused
<1>22. ASSUME NEW c \in Conns, PruneRows(c) PROVE \A u \in Tokens : Gone(row[u]) => Gone(row'[u])
  BY <1>22 DEF PruneRows, Say, Stale, Deleted, NoSession, AcTypes, AcRows, Gone
<1>23. ASSUME NEW c \in Conns, ReapSessions(c) PROVE \A u \in Tokens : Gone(row[u]) => Gone(row'[u])
  BY <1>23 DEF ReapSessions, Say, Dropped, Unused
<1>24. ASSUME NEW c \in Conns, DropPresenceFor(c) PROVE \A u \in Tokens : Gone(row[u]) => Gone(row'[u])
  BY <1>24 DEF DropPresenceFor, Say, Dropped, Unused
<1>25. ASSUME NEW c \in Conns, DeleteSessions(c) PROVE \A u \in Tokens : Gone(row[u]) => Gone(row'[u])
  BY <1>25 DEF DeleteSessions, Say, Deleted, NoSession, AcTypes, AcRows, Gone
<1>26. CASE UNCHANGED acvars
  BY <1>26 DEF acvars
<1>27. QED
  BY <1>1, <1>2, <1>3, <1>4, <1>5, <1>6, <1>7, <1>8, <1>9, <1>10, <1>11, <1>12, <1>13, <1>14,
     <1>15, <1>16, <1>17, <1>18, <1>19, <1>20, <1>21, <1>22, <1>23, <1>24, <1>25, <1>26 DEF AccountsNext, AccountStep

LEMMA ReadyTyped == Ready \in AcJobs /\ Ready.tok \in Tokens
BY AccountsBounds DEF Ready, AcJobs, AcPcs

LEMMA Said ==
    ASSUME NEW c \in Conns, NEW j, Say(c, j), conn \in [Conns -> AcJobs]
    PROVE  conn'[c] = j /\ (\A d \in Conns \ {c} : conn'[d] = conn[d]) /\ (j \in AcJobs => conn' \in [Conns -> AcJobs])
BY DEF Say

LEMMA RowsTyped ==
    NoSession \in AcRows /\ Deleted \in AcRows /\ Unused \in AcOnline /\ Dropped \in AcOnline
<1>1. NoSession \in AcRows
  BY AccountsBounds DEF NoSession, AcRows
<1>2. Deleted \in AcRows
  BY <1>1 DEF Deleted, AcRows
<1>3. Unused \in AcOnline
  BY ReadyTyped DEF Unused, AcOnline
<1>4. Dropped \in AcOnline
  BY <1>3 DEF Dropped, AcOnline
<1>5. QED
  BY <1>1, <1>2, <1>3, <1>4

LEMMA AcTypesStep == AcTypes /\ [AccountsNext]_acvars => AcTypes'
<1> SUFFICES ASSUME AcTypes, [AccountsNext]_acvars PROVE AcTypes'
  OBVIOUS
<1> USE AccountsBounds DEF AcTypes
<1>1. CASE Tick
  BY <1>1 DEF Tick
<1>2. ASSUME NEW c \in Conns, NEW try \in 0..gen, PostLogin(c, try) PROVE AcTypes'
  <2>1. Say(c, [Ready EXCEPT !.pc = "verify", !.try = try])
    BY <1>2 DEF PostLogin
  <2>2. [Ready EXCEPT !.pc = "verify", !.try = try] \in AcJobs
    BY ReadyTyped, try \in 0..MaxGen DEF AcJobs, AcPcs
  <2>3. conn' \in [Conns -> AcJobs]
    BY <2>1, <2>2, Said
  <2>4. QED
    BY <1>2, <2>3 DEF PostLogin
<1>3. ASSUME NEW c \in Conns, NEW try \in 0..gen, PostPassword(c, try) PROVE AcTypes'
  <2>1. Say(c, [Ready EXCEPT !.pc = "verify", !.try = try, !.for = "change"])
    BY <1>3 DEF PostPassword
  <2>2. [Ready EXCEPT !.pc = "verify", !.try = try, !.for = "change"] \in AcJobs
    BY ReadyTyped, try \in 0..MaxGen DEF AcJobs, AcPcs
  <2>3. conn' \in [Conns -> AcJobs]
    BY <2>1, <2>2, Said
  <2>4. QED
    BY <1>3, <2>3 DEF PostPassword
<1>4. ASSUME NEW c \in Conns, VerifyRead(c) PROVE AcTypes'
  <2> DEFINE j == conn[c]
  <2>1. PICK q \in AcPcs, try \in 0..MaxGen, f \in {"login", "change"} :
           Say(c, [j EXCEPT !.gen = gen, !.pc = q, !.try = try, !.for = f])
    <3>1. j \in AcJobs
      OBVIOUS
    <3>2. j.for \in AcPcs /\ j.for \in {"login", "change"} /\ j.try \in 0..MaxGen /\ 0 \in 0..MaxGen
      BY <3>1 DEF AcJobs, AcPcs
    <3>3. \A h \in {"rehash", "failed", "ready"} : h \in AcPcs
      BY DEF AcPcs
    <3>4. QED
      BY <1>4, <3>2, <3>3 DEF VerifyRead
  <2>2. [j EXCEPT !.gen = gen, !.pc = q, !.try = try, !.for = f] \in AcJobs
    <3>1. j \in AcJobs /\ gen \in Nat
      OBVIOUS
    <3> HIDE DEF AcTypes, j
    <3>2. QED
      BY <3>1 DEF AcJobs
  <2>3. conn' \in [Conns -> AcJobs]
    BY <2>1, <2>2, Said
  <2>4. QED
    BY <1>4, <2>3 DEF VerifyRead
<1>5. ASSUME NEW c \in Conns, Rehash(c) PROVE AcTypes'
  <2> DEFINE j == conn[c]
  <2>1. Say(c, [j EXCEPT !.pc = j.for, !.try = 0, !.for = "login"]) /\ j \in AcJobs
    BY <1>5 DEF Rehash
  <2>2. 0 \in 0..MaxGen /\ j.for \in AcPcs
    BY <2>1 DEF AcJobs, AcPcs
  <2>3. [j EXCEPT !.pc = j.for, !.try = 0, !.for = "login"] \in AcJobs
    BY <2>1, <2>2 DEF AcJobs
  <2>4. conn' \in [Conns -> AcJobs]
    BY <2>1, <2>3, Said
  <2>5. /\ user' \in [pw : 0..MaxGen, old : BOOLEAN, enabled : BOOLEAN]
        /\ meant' \in [pw : 0..MaxGen, undone : BOOLEAN]
    BY <1>5, <2>1 DEF Rehash, AcJobs
  <2>6. QED
    BY <1>5, <2>4, <2>5 DEF Rehash
<1>6. ASSUME NEW c \in Conns, RecordLoginFailure(c) PROVE AcTypes'
  <2>1. conn' \in [Conns -> AcJobs]
    BY <1>6, ReadyTyped, Said DEF RecordLoginFailure
  <2>2. Cardinality(fails) \in Nat
    BY FS_CardinalityType
  <2>3. fails' = fails \cup {<<now, Cardinality(fails) + 1>>}
    BY <1>6 DEF RecordLoginFailure
  <2>4. fails' \subseteq (0..MaxNow) \X Nat
    BY <2>2, <2>3
  <2>5. IsFiniteSet(fails')
    BY <2>3, FS_AddElement
  <2>6. QED
    BY <1>6, <2>1, <2>4, <2>5 DEF RecordLoginFailure
<1>7. ASSUME NEW c \in Conns, NEW t \in Tokens, CreateSession(c, t) PROVE AcTypes'
  <2>1. Say(c, [Ready EXCEPT !.pc = "clear"])
    BY <1>7 DEF CreateSession
  <2>2. [Ready EXCEPT !.pc = "clear"] \in AcJobs
    BY <1>7, ReadyTyped DEF AcJobs, AcPcs, Ready
  <2>3. conn' \in [Conns -> AcJobs]
    BY <2>1, <2>2, Said
  <2>4. /\ conn[c] \in AcJobs
        /\ row' = [row EXCEPT ![t] = [NoSession EXCEPT !.on = TRUE, !.created = now, !.expires = now + Idle,
                                        !.gen = conn[c].gen, !.crossed = conn[c].gen # gen]]
    BY <1>7 DEF CreateSession
  <2>5. [NoSession EXCEPT !.on = TRUE, !.created = now, !.expires = now + Idle,
                          !.gen = conn[c].gen, !.crossed = conn[c].gen # gen] \in AcRows
    <3>1. now \in Nat /\ now + Idle \in Nat /\ conn[c].gen \in Nat /\ (conn[c].gen # gen) \in BOOLEAN
      BY <2>4 DEF AcJobs
    <3> HIDE DEF AcTypes
    <3>2. QED
      BY <3>1, RowsTyped DEF AcRows
  <2>6. row' \in [Tokens -> AcRows]
    BY <2>4, <2>5
  <2>7. QED
    BY <1>7, <2>3, <2>6 DEF CreateSession
<1>8. ASSUME NEW c \in Conns, NEW t \in Tokens, PostLogout(c, t) PROVE AcTypes'
  <2>1. Say(c, [Ready EXCEPT !.pc = "drop", !.scope = {t}])
    BY <1>8 DEF PostLogout
  <2>2. [Ready EXCEPT !.pc = "drop", !.scope = {t}] \in AcJobs
    BY <1>8, ReadyTyped DEF AcJobs, AcPcs, Ready
  <2>3. conn' \in [Conns -> AcJobs]
    BY <2>1, <2>2, Said
  <2>4. QED
    BY <1>8, <2>3 DEF PostLogout
<1>9. ASSUME NEW c \in Conns, ClearLoginFailures(c) PROVE AcTypes'
  <2>1. conn' \in [Conns -> AcJobs]
    BY <1>9, ReadyTyped, Said DEF ClearLoginFailures
  <2>2. QED
    BY <1>9, <2>1, FS_EmptySet DEF ClearLoginFailures
<1>10. ASSUME NEW c \in Conns, NEW t \in Tokens, NEW tls \in BOOLEAN, LookupSession(c, t, tls) PROVE AcTypes'
  <2> DEFINE later == Capped(row[t])
  <2>1. row[t] \in AcRows /\ later \in Nat
    BY DEF AcRows, Capped
  <2>2. row' \in [Tokens -> AcRows]
    BY <1>10, <2>1 DEF LookupSession, AcRows
  <2>3. PICK n \in Nat : \/ Say(c, Ready)
                        \/ Say(c, [Ready EXCEPT !.pc = "refresh", !.tok = t, !.id = row[t].presence, !.expires = n])
    BY <1>10, <2>1 DEF LookupSession
  <2>4. [Ready EXCEPT !.pc = "refresh", !.tok = t, !.id = row[t].presence, !.expires = n] \in AcJobs
    BY <2>1, ReadyTyped DEF AcJobs, AcPcs, AcRows
  <2>5. conn' \in [Conns -> AcJobs]
    BY <2>3, <2>4, ReadyTyped, Said
  <2>6. QED
    BY <1>10, <2>2, <2>5 DEF LookupSession
<1>11. ASSUME NEW c \in Conns, RefreshSession(c) PROVE AcTypes'
  <2>1. Say(c, Looked(conn[c])) /\ conn[c] \in AcJobs
    BY <1>11 DEF RefreshSession
  <2>2. Looked(conn[c]) \in AcJobs
    BY <2>1 DEF Looked, AcJobs, AcPcs
  <2>3. conn' \in [Conns -> AcJobs]
    BY <2>1, <2>2, Said
  <2>4. row' \in [Tokens -> AcRows]
    BY <1>11, <2>1 DEF RefreshSession, AcRows, AcJobs
  <2>5. QED
    BY <1>11, <2>3, <2>4 DEF RefreshSession
<1>12. ASSUME NEW c \in Conns, NEW i \in Ids, RegisterSession(c, i) PROVE AcTypes'
  <2>1. Say(c, [conn[c] EXCEPT !.pc = "bind", !.id = i]) /\ conn[c] \in AcJobs /\ i \in 0..MaxIds
    BY <1>12 DEF RegisterSession, Ids
  <2>2. [conn[c] EXCEPT !.pc = "bind", !.id = i] \in AcJobs
    BY <2>1 DEF AcJobs, AcPcs
  <2>3. conn' \in [Conns -> AcJobs]
    BY <2>1, <2>2, Said
  <2>4. PICK b \in BOOLEAN : online' = [online EXCEPT ![i] = [st |-> "on", tok |-> conn[c].tok, seen |-> now, crossed |-> b]]
    BY <1>12 DEF RegisterSession
  <2>5. [st |-> "on", tok |-> conn[c].tok, seen |-> now, crossed |-> b] \in AcOnline
    BY <2>1 DEF AcOnline, AcJobs
  <2>6. online' \in [Ids -> AcOnline]
    BY <2>4, <2>5
  <2>7. QED
    BY <1>12, <2>3, <2>6 DEF RegisterSession
<1>13. ASSUME NEW c \in Conns, BindPresence(c) PROVE AcTypes'
  <2>1. Say(c, [conn[c] EXCEPT !.pc = "touch"]) /\ conn[c] \in AcJobs
    BY <1>13 DEF BindPresence
  <2>2. [conn[c] EXCEPT !.pc = "touch"] \in AcJobs
    BY <2>1 DEF AcJobs, AcPcs
  <2>3. conn' \in [Conns -> AcJobs]
    BY <2>1, <2>2, Said
  <2>4. row' \in [Tokens -> AcRows]
    BY <1>13, <2>1 DEF BindPresence, AcRows, AcJobs
  <2>5. QED
    BY <1>13, <2>3, <2>4 DEF BindPresence
<1>14. ASSUME NEW c \in Conns, TouchSession(c) PROVE AcTypes'
  <2>1. Say(c, [Ready EXCEPT !.pc = "serve"])
    BY <1>14 DEF TouchSession
  <2>2. [Ready EXCEPT !.pc = "serve"] \in AcJobs
    BY <1>14, ReadyTyped DEF AcJobs, AcPcs, Ready
  <2>3. conn' \in [Conns -> AcJobs]
    BY <2>1, <2>2, Said
  <2>4. online' \in [Ids -> AcOnline]
    <3>1. now \in Nat /\ \A k \in Ids : online[k] \in AcOnline
      OBVIOUS
    <3>2. \A k \in Ids : [online[k] EXCEPT !.seen = now] \in AcOnline
      BY <3>1 DEF AcOnline
    <3>3. QED
      BY <1>14, <3>2 DEF TouchSession
  <2>5. QED
    BY <1>14, <2>3, <2>4 DEF TouchSession
<1>15. ASSUME NEW c \in Conns, Served(c) PROVE AcTypes'
  <2>1. conn' \in [Conns -> AcJobs]
    BY <1>15, ReadyTyped, Said DEF Served
  <2>2. QED
    BY <1>15, <2>1 DEF Served
<1>16. ASSUME NEW c \in Conns, SetPassword(c) PROVE AcTypes'
  <2>1. Say(c, [Ready EXCEPT !.pc = "drop", !.scope = Tokens, !.all = TRUE])
    BY <1>16 DEF SetPassword, EndsEverything
  <2>2. [Ready EXCEPT !.pc = "drop", !.scope = Tokens, !.all = TRUE] \in AcJobs
    BY <1>16, ReadyTyped DEF AcJobs, AcPcs, Ready
  <2>3. conn' \in [Conns -> AcJobs]
    BY <2>1, <2>2, Said
  <2>4. QED
    BY <1>16, <2>3 DEF SetPassword
<1>17. ASSUME NEW c \in Conns, PostUserPasswd(c) PROVE AcTypes'
  <2>1. Say(c, [Ready EXCEPT !.pc = "drop", !.scope = Tokens, !.all = TRUE])
    BY <1>17 DEF PostUserPasswd, EndsEverything
  <2>2. [Ready EXCEPT !.pc = "drop", !.scope = Tokens, !.all = TRUE] \in AcJobs
    BY <1>17, ReadyTyped DEF AcJobs, AcPcs, Ready
  <2>3. conn' \in [Conns -> AcJobs]
    BY <2>1, <2>2, Said
  <2>4. QED
    BY <1>17, <2>3 DEF PostUserPasswd
<1>18. ASSUME NEW c \in Conns, PostUserAdd(c) PROVE AcTypes'
  BY <1>18 DEF PostUserAdd
<1>19. ASSUME NEW c \in Conns, NEW e \in BOOLEAN, PostUserEnable(c, e) PROVE AcTypes'
  <2>1. UNCHANGED conn \/ Say(c, [Ready EXCEPT !.pc = "drop", !.scope = Tokens, !.all = TRUE])
    BY <1>19 DEF PostUserEnable, EndsEverything
  <2>2. [Ready EXCEPT !.pc = "drop", !.scope = Tokens, !.all = TRUE] \in AcJobs
    BY ReadyTyped DEF AcJobs, AcPcs
  <2>3. conn' \in [Conns -> AcJobs]
    BY <2>1, <2>2, Said
  <2>4. QED
    BY <1>19, <2>3 DEF PostUserEnable
<1>20. ASSUME NEW c \in Conns, PostUserRemove(c) PROVE AcTypes'
  <2>1. Say(c, [Ready EXCEPT !.pc = "drop", !.scope = Tokens, !.all = TRUE])
    BY <1>20 DEF PostUserRemove, EndsEverything
  <2>2. [Ready EXCEPT !.pc = "drop", !.scope = Tokens, !.all = TRUE] \in AcJobs
    BY <1>20, ReadyTyped DEF AcJobs, AcPcs, Ready
  <2>3. conn' \in [Conns -> AcJobs]
    BY <2>1, <2>2, Said
  <2>4. QED
    BY <1>20, <2>3 DEF PostUserRemove
<1>21. ASSUME NEW c \in Conns, PruneSessions(c) PROVE AcTypes'
  <2>1. Say(c, [conn[c] EXCEPT !.pc = "prune"]) /\ conn[c] \in AcJobs
    BY <1>21 DEF PruneSessions
  <2>2. [conn[c] EXCEPT !.pc = "prune"] \in AcJobs
    BY <2>1 DEF AcJobs, AcPcs
  <2>3. conn' \in [Conns -> AcJobs]
    BY <2>1, <2>2, Said
  <2>4. online' \in [Ids -> AcOnline]
    BY <1>21, RowsTyped DEF PruneSessions
  <2>5. QED
    BY <1>21, <2>3, <2>4 DEF PruneSessions
<1>22. ASSUME NEW c \in Conns, PruneRows(c) PROVE AcTypes'
  <2>1. Say(c, [conn[c] EXCEPT !.pc = "reap"]) /\ conn[c] \in AcJobs
    BY <1>22 DEF PruneRows
  <2>2. [conn[c] EXCEPT !.pc = "reap"] \in AcJobs
    BY <2>1 DEF AcJobs, AcPcs
  <2>3. conn' \in [Conns -> AcJobs]
    BY <2>1, <2>2, Said
  <2>4. row' \in [Tokens -> AcRows] /\ fails' \subseteq fails
    BY <1>22, RowsTyped DEF PruneRows, InWindow
  <2>5. IsFiniteSet(fails')
    BY <2>4, FS_Subset
  <2>6. QED
    BY <1>22, <2>3, <2>4, <2>5 DEF PruneRows
<1>23. ASSUME NEW c \in Conns, ReapSessions(c) PROVE AcTypes'
  <2>1. conn' \in [Conns -> AcJobs]
    BY <1>23, ReadyTyped, Said DEF ReapSessions
  <2>2. online' \in [Ids -> AcOnline]
    BY <1>23, RowsTyped DEF ReapSessions
  <2>3. QED
    BY <1>23, <2>1, <2>2 DEF ReapSessions
<1>24. ASSUME NEW c \in Conns, DropPresenceFor(c) PROVE AcTypes'
  <2>1. Say(c, [conn[c] EXCEPT !.pc = "delete"]) /\ conn[c] \in AcJobs
    BY <1>24 DEF DropPresenceFor
  <2>2. [conn[c] EXCEPT !.pc = "delete"] \in AcJobs
    BY <2>1 DEF AcJobs, AcPcs
  <2>3. conn' \in [Conns -> AcJobs]
    BY <2>1, <2>2, Said
  <2>4. online' \in [Ids -> AcOnline]
    BY <1>24, RowsTyped DEF DropPresenceFor
  <2>5. QED
    BY <1>24, <2>3, <2>4 DEF DropPresenceFor
<1>25. ASSUME NEW c \in Conns, DeleteSessions(c) PROVE AcTypes'
  <2>1. conn' \in [Conns -> AcJobs]
    BY <1>25, ReadyTyped, Said DEF DeleteSessions
  <2>2. row' \in [Tokens -> AcRows]
    BY <1>25, RowsTyped DEF DeleteSessions
  <2>3. QED
    BY <1>25, <2>1, <2>2 DEF DeleteSessions
<1>26. CASE UNCHANGED acvars
  BY <1>26 DEF acvars
<1>27. QED
  BY <1>1, <1>2, <1>3, <1>4, <1>5, <1>6, <1>7, <1>8, <1>9, <1>10, <1>11, <1>12, <1>13, <1>14,
     <1>15, <1>16, <1>17, <1>18, <1>19, <1>20, <1>21, <1>22, <1>23, <1>24, <1>25, <1>26 DEF AccountsNext, AccountStep

-----------------------------------------------------------------------------
(* What a connection holds between its statements. *)
ConnSound(j) ==
    /\ j.gen <= gen
    /\ j.all = TRUE => j.pc \in {"drop", "delete"} /\ j.scope = Tokens
    /\ j.pc \in {"refresh", "register", "bind"} => j.tok \in Issued
    /\ j.pc = "bind" => j.id > 0
    /\ j.pc = "refresh" /\ row[j.tok].on = TRUE => j.expires <= row[j.tok].created + Lifetime
    /\ j.pc = "rehash" => j.try > 0 /\ (j.gen = gen => user.pw > 0 /\ (meant.undone = TRUE \/ user.pw = j.try))

RowSound(r) == r.gen <= gen /\ r.expires <= r.created + Lifetime

(* The connections whose password may still turn out to be a wrong one. *)
Guessing == {c \in Conns : conn[c].pc = "failed" \/ (conn[c].pc = "verify" /\ conn[c].for = "login")}
GuessInv == Cardinality(InWindow) + Cardinality(Guessing) <= MaxFailures + Cardinality(Conns) - 1

(* An uncrossed presence row of a session: some request is about to bind    *)
(* it, or it was bound, or the session has ended.                           *)
Up(i) == online[i].st = "on" /\ online[i].crossed = FALSE
PresenceInv ==
    /\ \A i \in Ids : LET t == online[i].tok IN
           online[i].st = "on" =>
               /\ t \in Issued
               /\ Up(i) => \/ \E c \in Conns : conn[c].pc = "bind" /\ conn[c].tok = t
                           \/ row[t].presence > 0 \/ row[t].on = FALSE
    /\ \A i, k \in Ids : Up(i) /\ Up(k) /\ online[i].tok = online[k].tok => i = k

SoundInv == (\A c \in Conns : ConnSound(conn[c])) /\ (\A t \in Tokens : RowSound(row[t])) /\ PasswordSticksUnlessCrossed
AcInv == AcTypes /\ SoundInv /\ NoOldSessionUnlessCrossed /\ GuessInv /\ PresenceInv

-----------------------------------------------------------------------------
LEMMA SoundStep == AcTypes /\ SoundInv /\ [AccountsNext]_acvars => SoundInv'
<1> SUFFICES ASSUME AcTypes, SoundInv, [AccountsNext]_acvars PROVE SoundInv'
  OBVIOUS
<1>0. /\ conn \in [Conns -> AcJobs] /\ row \in [Tokens -> AcRows] /\ gen \in 1..MaxGen /\ now \in 0..MaxNow
      /\ user \in [pw : 0..MaxGen, old : BOOLEAN, enabled : BOOLEAN] /\ meant \in [pw : 0..MaxGen, undone : BOOLEAN]
      /\ MaxGen \in Nat /\ MaxNow \in Nat
  BY AccountsBounds DEF AcTypes
<1>a. ASSUME NEW c \in Conns, UNCHANGED <<gen, row, user, meant>>,
             \A d \in Conns \ {c} : conn'[d] = conn[d], ConnSound(conn[c])'
      PROVE  SoundInv'
  <2>1. \A d \in Conns \ {c} : ConnSound(conn[d])'
    BY <1>a DEF SoundInv, ConnSound, Issued
  <2>2. QED
    BY <1>a, <2>1 DEF SoundInv, RowSound, PasswordSticksUnlessCrossed
<1>b. ASSUME NEW c \in Conns, UNCHANGED <<gen, user, meant>>, \A d \in Conns \ {c} : conn'[d] = conn[d],
             \A u \in Tokens : row[u].gen > 0 => row'[u] = row[u] \/ (row'[u].gen > 0 /\ row'[u].on = FALSE),
             ConnSound(conn[c])', \A u \in Tokens : RowSound(row[u])'
      PROVE  SoundInv'
  <2>1. \A d \in Conns \ {c} : ConnSound(conn[d])'
    BY <1>b DEF SoundInv, ConnSound, Issued
  <2>2. QED
    BY <1>b, <2>1 DEF SoundInv, PasswordSticksUnlessCrossed
<1>c. ASSUME NEW c \in Conns, gen' = gen + 1, UNCHANGED row, \A d \in Conns \ {c} : conn'[d] = conn[d],
             ConnSound(conn[c])', PasswordSticksUnlessCrossed'
      PROVE  SoundInv'
  <2>1. \A d \in Conns \ {c} : ConnSound(conn[d])'
    BY <1>0, <1>c DEF SoundInv, ConnSound, Issued, AcJobs
  <2>2. \A u \in Tokens : RowSound(row[u])'
    BY <1>0, <1>c DEF SoundInv, RowSound, AcRows
  <2>3. QED
    BY <1>c, <2>1, <2>2 DEF SoundInv
<1>d. ASSUME UNCHANGED <<gen, row, user, meant, conn>> PROVE SoundInv'
  BY <1>d DEF SoundInv, ConnSound, Issued, RowSound, PasswordSticksUnlessCrossed
<1>e. ASSUME NEW c \in Conns, UNCHANGED <<gen, user, meant>>, \A d \in Conns \ {c} : conn'[d] = conn[d],
             \A u \in Tokens : row'[u].gen = row[u].gen /\ row'[u].created = row[u].created /\ row'[u].on = row[u].on,
             ConnSound(conn[c])', \A u \in Tokens : RowSound(row[u])'
      PROVE  SoundInv'
  <2>1. \A d \in Conns \ {c} : ConnSound(conn[d])'
    BY <1>0, <1>e DEF SoundInv, ConnSound, Issued, AcJobs
  <2>2. QED
    BY <1>e, <2>1 DEF SoundInv, PasswordSticksUnlessCrossed
<1>1. CASE Tick
  BY <1>1, <1>d DEF Tick
<1>2. ASSUME NEW c \in Conns, NEW try \in 0..gen, PostLogin(c, try) PROVE SoundInv'
  <2>1. Say(c, [Ready EXCEPT !.pc = "verify", !.try = try])
    BY <1>2 DEF PostLogin
  <2>2. conn'[c] = [Ready EXCEPT !.pc = "verify", !.try = try] /\ \A d \in Conns \ {c} : conn'[d] = conn[d]
    BY <2>1, <1>0, Said
  <2>3. ConnSound(conn[c])'
    BY <1>2, <1>0, <2>2 DEF PostLogin, SoundInv, ConnSound, Ready
  <2>4. QED
    BY <1>2, <1>a, <2>2, <2>3 DEF PostLogin
<1>3. ASSUME NEW c \in Conns, NEW try \in 0..gen, PostPassword(c, try) PROVE SoundInv'
  <2>1. Say(c, [Ready EXCEPT !.pc = "verify", !.try = try, !.for = "change"])
    BY <1>3 DEF PostPassword
  <2>2. conn'[c] = [Ready EXCEPT !.pc = "verify", !.try = try, !.for = "change"] /\ \A d \in Conns \ {c} : conn'[d] = conn[d]
    BY <2>1, <1>0, Said
  <2>3. ConnSound(conn[c])'
    BY <1>3, <1>0, <2>2 DEF PostPassword, SoundInv, ConnSound, Ready
  <2>4. QED
    BY <1>3, <1>a, <2>2, <2>3 DEF PostPassword
<1>4. ASSUME NEW c \in Conns, VerifyRead(c) PROVE SoundInv'
  <2> DEFINE k == conn'[c]
  <2>1. UNCHANGED <<gen, row, user, meant>> /\ conn[c].pc = "verify" /\ conn[c] \in AcJobs
    BY <1>4, <1>0 DEF VerifyRead
  <2>2. /\ \A d \in Conns \ {c} : conn'[d] = conn[d]
        /\ k.gen = gen /\ k.all = conn[c].all
        /\ k.pc \in {"rehash", "login", "change", "failed", "ready"}
        /\ k.pc = "rehash" => k.try = user.pw /\ user.pw > 0
    BY <1>4, <1>0 DEF VerifyRead, Say, PasswordIs, NeedsRehash, AcJobs
  <2>3. ConnSound(conn[c])'
    BY <1>0, <2>1, <2>2 DEF SoundInv, ConnSound
  <2>4. QED
    BY <1>a, <2>1, <2>2, <2>3
<1>5. ASSUME NEW c \in Conns, Rehash(c) PROVE SoundInv'
  <2> DEFINE j == conn[c]
  <2>1. /\ UNCHANGED <<gen, row>> /\ j \in AcJobs /\ ConnSound(j) /\ j.pc = "rehash"
        /\ user' = IF user.pw > 0 THEN [user EXCEPT !.pw = j.try, !.old = FALSE] ELSE user
        /\ meant' = IF user.pw > 0 /\ j.gen # gen THEN [meant EXCEPT !.undone = TRUE] ELSE meant
    BY <1>5, <1>0 DEF Rehash, SoundInv
  <2>2. /\ \A d \in Conns \ {c} : conn'[d] = conn[d]
        /\ conn'[c].gen = j.gen /\ conn'[c].all = j.all /\ conn'[c].pc \in {"login", "change"}
    BY <1>5, <1>0 DEF Rehash, Say, AcJobs
  <2>3. ConnSound(conn[c])'
    BY <2>1, <2>2 DEF ConnSound
  <2>4. /\ user.pw = 0 => user'.pw = 0
        /\ user.pw > 0 => user'.pw = j.try /\ j.try > 0
        /\ meant.undone = TRUE => meant'.undone = TRUE
        /\ user.pw > 0 /\ j.gen # gen => meant'.undone = TRUE
        /\ meant'.pw = meant.pw
    BY <1>0, <2>1 DEF ConnSound
  <2>5. meant.undone = TRUE \/ user.pw = meant.pw
    BY DEF SoundInv, PasswordSticksUnlessCrossed
  <2>6. meant'.undone = TRUE \/ user'.pw = user.pw
    BY <1>0, <2>1, <2>4 DEF ConnSound
  <2>7. \A d \in Conns \ {c} : ConnSound(conn[d])'
    BY <1>0, <2>1, <2>2, <2>4, <2>6 DEF SoundInv, ConnSound, Issued
  <2>8. QED
    BY <2>1, <2>3, <2>4, <2>5, <2>6, <2>7 DEF SoundInv, RowSound, PasswordSticksUnlessCrossed
<1>6. ASSUME NEW c \in Conns, RecordLoginFailure(c) PROVE SoundInv'
  <2>1. Say(c, Ready)
    BY <1>6 DEF RecordLoginFailure
  <2>2. conn'[c] = Ready /\ \A d \in Conns \ {c} : conn'[d] = conn[d]
    BY <2>1, <1>0, Said
  <2>3. ConnSound(conn[c])'
    BY <1>6, <1>0, <2>2 DEF RecordLoginFailure, SoundInv, ConnSound, Ready
  <2>4. QED
    BY <1>6, <1>a, <2>2, <2>3 DEF RecordLoginFailure
<1>7. ASSUME NEW c \in Conns, NEW t \in Tokens, CreateSession(c, t) PROVE SoundInv'
  <2>1. Say(c, [Ready EXCEPT !.pc = "clear"]) /\ UNCHANGED <<gen, user, meant>> /\ t \notin Issued
    BY <1>7 DEF CreateSession
  <2>2. conn'[c] = [Ready EXCEPT !.pc = "clear"] /\ \A d \in Conns \ {c} : conn'[d] = conn[d]
    BY <2>1, <1>0, Said
  <2>3. /\ row'[t].gen = conn[c].gen /\ row'[t].created = now /\ row'[t].expires = now + Idle
        /\ \A u \in Tokens \ {t} : row'[u] = row[u]
    BY <1>7, <1>0 DEF CreateSession, NoSession
  <2>4. \A u \in Issued : row'[u] = row[u]
    BY <2>1, <2>3 DEF Issued
  <2>5. RowSound(row[t])'
    BY <1>0, <2>1, <2>3, AccountsBounds DEF RowSound, SoundInv, ConnSound
  <2>6. ConnSound(conn[c])'
    BY <1>0, <2>1, <2>2 DEF ConnSound, Ready
  <2>7. \A u \in Tokens : RowSound(row[u])'
    BY <2>1, <2>3, <2>5 DEF RowSound, SoundInv
  <2>8. QED
    BY <1>b, <2>1, <2>2, <2>4, <2>6, <2>7 DEF Issued
<1>8. ASSUME NEW c \in Conns, NEW t \in Tokens, PostLogout(c, t) PROVE SoundInv'
  <2>1. Say(c, [Ready EXCEPT !.pc = "drop", !.scope = {t}])
    BY <1>8 DEF PostLogout
  <2>2. conn'[c] = [Ready EXCEPT !.pc = "drop", !.scope = {t}] /\ \A d \in Conns \ {c} : conn'[d] = conn[d]
    BY <2>1, <1>0, Said
  <2>3. ConnSound(conn[c])'
    BY <1>8, <1>0, <2>2 DEF PostLogout, SoundInv, ConnSound, Ready
  <2>4. QED
    BY <1>8, <1>a, <2>2, <2>3 DEF PostLogout
<1>9. ASSUME NEW c \in Conns, ClearLoginFailures(c) PROVE SoundInv'
  <2>1. Say(c, Ready)
    BY <1>9 DEF ClearLoginFailures
  <2>2. conn'[c] = Ready /\ \A d \in Conns \ {c} : conn'[d] = conn[d]
    BY <2>1, <1>0, Said
  <2>3. ConnSound(conn[c])'
    BY <1>9, <1>0, <2>2 DEF ClearLoginFailures, SoundInv, ConnSound, Ready
  <2>4. QED
    BY <1>9, <1>a, <2>2, <2>3 DEF ClearLoginFailures
<1>10. ASSUME NEW c \in Conns, NEW t \in Tokens, NEW tls \in BOOLEAN, LookupSession(c, t, tls) PROVE SoundInv'
  <2>1. /\ t \in Issued /\ UNCHANGED <<gen, user, meant>> /\ row[t] \in AcRows
        /\ row' = row \/ row' = [row EXCEPT ![t].revoked = TRUE]
    BY <1>10, <1>0 DEF LookupSession
  <2>2. \A u \in Tokens : /\ row'[u].gen = row[u].gen /\ row'[u].created = row[u].created
                          /\ row'[u].expires = row[u].expires /\ row'[u].on = row[u].on
    BY <1>0, <2>1 DEF AcRows
  <2>3. \/ Say(c, Ready)
        \/ Say(c, [Ready EXCEPT !.pc = "refresh", !.tok = t, !.id = row[t].presence, !.expires = Capped(row[t])])
        \/ Say(c, [Ready EXCEPT !.pc = "refresh", !.tok = t, !.id = row[t].presence, !.expires = 0])
    BY <1>10 DEF LookupSession
  <2>4. /\ \A d \in Conns \ {c} : conn'[d] = conn[d]
        /\ \/ conn'[c] = Ready
           \/ conn'[c] = [Ready EXCEPT !.pc = "refresh", !.tok = t, !.id = row[t].presence, !.expires = Capped(row[t])]
           \/ conn'[c] = [Ready EXCEPT !.pc = "refresh", !.tok = t, !.id = row[t].presence, !.expires = 0]
    BY <1>0, <2>3, Said
  <2>5. Capped(row[t]) <= row[t].created + Lifetime /\ 0 <= row[t].created + Lifetime
    BY <1>0, <2>1, AccountsBounds DEF Capped, AcRows
  <2>6. ConnSound(conn[c])'
    <3>1. /\ conn'[c].gen = 0 /\ conn'[c].all = FALSE
          /\ \/ conn'[c].pc = "ready"
             \/ conn'[c].pc = "refresh" /\ conn'[c].tok = t /\ conn'[c].expires <= row[t].created + Lifetime
      <4>1. ASSUME NEW e, NEW p, e <= row[t].created + Lifetime,
                   conn'[c] = [Ready EXCEPT !.pc = "refresh", !.tok = t, !.id = p, !.expires = e]
            PROVE  /\ conn'[c].gen = 0 /\ conn'[c].all = FALSE /\ conn'[c].pc = "refresh" /\ conn'[c].tok = t
                   /\ conn'[c].expires <= row[t].created + Lifetime
        BY <4>1 DEF Ready
      <4>2. conn'[c] = Ready => conn'[c].gen = 0 /\ conn'[c].all = FALSE /\ conn'[c].pc = "ready"
        BY DEF Ready
      <4>3. QED
        BY <2>4, <2>5, <4>1, <4>2
    <3>2. row'[t].created = row[t].created /\ t \in Issued' /\ 0 <= gen'
      BY <1>0, <2>1, <2>2 DEF Issued
    <3>3. QED
      BY <3>1, <3>2 DEF ConnSound
  <2>7. \A u \in Tokens : RowSound(row[u])'
    BY <2>1, <2>2 DEF RowSound, SoundInv
  <2>8. QED
    BY <1>e, <2>1, <2>2, <2>4, <2>6, <2>7
<1>11. ASSUME NEW c \in Conns, RefreshSession(c) PROVE SoundInv'
  <2> DEFINE j == conn[c]
  <2>1. /\ UNCHANGED <<gen, user, meant>> /\ j \in AcJobs /\ ConnSound(j) /\ j.pc = "refresh" /\ Say(c, Looked(j))
        /\ row' = IF j.expires > 0 /\ row[j.tok].on THEN [row EXCEPT ![j.tok].expires = j.expires] ELSE row
    BY <1>11, <1>0 DEF RefreshSession, SoundInv
  <2>2. \A u \in Tokens : /\ row'[u].gen = row[u].gen /\ row'[u].created = row[u].created /\ row'[u].on = row[u].on
                          /\ row'[u].expires = row[u].expires \/ (u = j.tok /\ row[u].on = TRUE /\ row'[u].expires = j.expires)
    BY <1>0, <2>1 DEF AcRows
  <2>3. conn'[c] = Looked(j) /\ \A d \in Conns \ {c} : conn'[d] = conn[d]
    BY <1>0, <2>1, Said
  <2>4. /\ conn'[c].gen = j.gen /\ conn'[c].all = j.all /\ conn'[c].tok = j.tok
        /\ conn'[c].pc \in {"register", "touch", "serve"}
    BY <2>1, <2>3 DEF Looked, AcJobs
  <2>5. ConnSound(conn[c])'
    BY <1>0, <2>1, <2>2, <2>4 DEF ConnSound, Issued, AcJobs
  <2>6. \A u \in Tokens : RowSound(row[u])'
    BY <2>1, <2>2 DEF RowSound, SoundInv, ConnSound
  <2>7. QED
    BY <1>e, <2>1, <2>2, <2>3, <2>5, <2>6
<1>12. ASSUME NEW c \in Conns, NEW i \in Ids, RegisterSession(c, i) PROVE SoundInv'
  <2>1. Say(c, [conn[c] EXCEPT !.pc = "bind", !.id = i])
    BY <1>12 DEF RegisterSession
  <2>2. conn'[c] = [conn[c] EXCEPT !.pc = "bind", !.id = i] /\ \A d \in Conns \ {c} : conn'[d] = conn[d]
    BY <2>1, <1>0, Said
  <2>3. ConnSound(conn[c])'
    <3>1. conn[c].pc = "register" /\ i > 0 /\ UNCHANGED <<gen, row, user, meant>> /\ conn[c] \in AcJobs
      BY <1>12, <1>0 DEF RegisterSession, Ids
    <3>2. QED
      BY <1>0, <2>2, <3>1 DEF SoundInv, ConnSound, AcJobs, Issued
  <2>4. QED
    BY <1>12, <1>a, <2>2, <2>3 DEF RegisterSession
<1>13. ASSUME NEW c \in Conns, BindPresence(c) PROVE SoundInv'
  <2> DEFINE j == conn[c]
  <2>1. /\ UNCHANGED <<gen, user, meant>> /\ j \in AcJobs /\ ConnSound(j) /\ j.pc = "bind"
        /\ Say(c, [j EXCEPT !.pc = "touch"])
        /\ row' = IF row[j.tok].on THEN [row EXCEPT ![j.tok].presence = j.id] ELSE row
    BY <1>13, <1>0 DEF BindPresence, SoundInv
  <2>2. \A u \in Tokens : /\ row'[u].gen = row[u].gen /\ row'[u].created = row[u].created
                          /\ row'[u].expires = row[u].expires /\ row'[u].on = row[u].on
    BY <1>0, <2>1 DEF AcRows
  <2>3. conn'[c] = [j EXCEPT !.pc = "touch"] /\ \A d \in Conns \ {c} : conn'[d] = conn[d]
    BY <1>0, <2>1, Said
  <2>4. ConnSound(conn[c])'
    BY <1>0, <2>1, <2>3 DEF ConnSound, AcJobs
  <2>5. \A u \in Tokens : RowSound(row[u])'
    BY <2>1, <2>2 DEF RowSound, SoundInv
  <2>6. QED
    BY <1>e, <2>1, <2>2, <2>3, <2>4, <2>5
<1>14. ASSUME NEW c \in Conns, TouchSession(c) PROVE SoundInv'
  <2>1. Say(c, [Ready EXCEPT !.pc = "serve"])
    BY <1>14 DEF TouchSession
  <2>2. conn'[c] = [Ready EXCEPT !.pc = "serve"] /\ \A d \in Conns \ {c} : conn'[d] = conn[d]
    BY <2>1, <1>0, Said
  <2>3. ConnSound(conn[c])'
    BY <1>14, <1>0, <2>2 DEF TouchSession, SoundInv, ConnSound, Ready
  <2>4. QED
    BY <1>14, <1>a, <2>2, <2>3 DEF TouchSession
<1>15. ASSUME NEW c \in Conns, Served(c) PROVE SoundInv'
  <2>1. Say(c, Ready)
    BY <1>15 DEF Served
  <2>2. conn'[c] = Ready /\ \A d \in Conns \ {c} : conn'[d] = conn[d]
    BY <2>1, <1>0, Said
  <2>3. ConnSound(conn[c])'
    BY <1>15, <1>0, <2>2 DEF Served, SoundInv, ConnSound, Ready
  <2>4. QED
    BY <1>15, <1>a, <2>2, <2>3 DEF Served
<1>16. ASSUME NEW c \in Conns, SetPassword(c) PROVE SoundInv'
  <2>1. Say(c, [Ready EXCEPT !.pc = "drop", !.scope = Tokens, !.all = TRUE])
    BY <1>16 DEF SetPassword, EndsEverything
  <2>2. conn'[c] = [Ready EXCEPT !.pc = "drop", !.scope = Tokens, !.all = TRUE] /\ \A d \in Conns \ {c} : conn'[d] = conn[d]
    BY <2>1, <1>0, Said
  <2>3. gen' = gen + 1 /\ UNCHANGED row /\ PasswordSticksUnlessCrossed'
    BY <1>16 DEF SetPassword, SoundInv, PasswordSticksUnlessCrossed
  <2>4. ConnSound(conn[c])'
    BY <1>0, <2>2, <2>3 DEF ConnSound, Ready
  <2>5. QED
    BY <1>c, <2>2, <2>3, <2>4
<1>17. ASSUME NEW c \in Conns, PostUserPasswd(c) PROVE SoundInv'
  <2>1. Say(c, [Ready EXCEPT !.pc = "drop", !.scope = Tokens, !.all = TRUE])
    BY <1>17 DEF PostUserPasswd, EndsEverything
  <2>2. conn'[c] = [Ready EXCEPT !.pc = "drop", !.scope = Tokens, !.all = TRUE] /\ \A d \in Conns \ {c} : conn'[d] = conn[d]
    BY <2>1, <1>0, Said
  <2>3. gen' = gen + 1 /\ UNCHANGED row /\ PasswordSticksUnlessCrossed'
    BY <1>17 DEF PostUserPasswd, SoundInv, PasswordSticksUnlessCrossed
  <2>4. ConnSound(conn[c])'
    BY <1>0, <2>2, <2>3 DEF ConnSound, Ready
  <2>5. QED
    BY <1>c, <2>2, <2>3, <2>4
<1>18. ASSUME NEW c \in Conns, PostUserAdd(c) PROVE SoundInv'
  <2>1. user'.pw = gen /\ meant'.pw = gen /\ user.pw = 0 /\ UNCHANGED <<gen, row, conn>>
    BY <1>18 DEF PostUserAdd
  <2>2. \A d \in Conns : ConnSound(conn[d])'
    BY <1>0, <2>1 DEF SoundInv, ConnSound, Issued
  <2>3. QED
    BY <2>1, <2>2 DEF SoundInv, RowSound, PasswordSticksUnlessCrossed
<1>19. ASSUME NEW c \in Conns, NEW e \in BOOLEAN, PostUserEnable(c, e) PROVE SoundInv'
  <2>1. CASE e = TRUE
    <3>1. UNCHANGED <<gen, row, conn, meant>> /\ user' = [user EXCEPT !.enabled = e]
      BY <1>19, <2>1 DEF PostUserEnable
    <3>2. user'.pw = user.pw
      BY <1>0, <3>1
    <3>3. QED
      BY <1>0, <3>1, <3>2 DEF SoundInv, ConnSound, Issued, RowSound, PasswordSticksUnlessCrossed
  <2>2. CASE e = FALSE
    <3>1. Say(c, [Ready EXCEPT !.pc = "drop", !.scope = Tokens, !.all = TRUE])
      BY <1>19, <2>2 DEF PostUserEnable, EndsEverything
    <3>2. conn'[c] = [Ready EXCEPT !.pc = "drop", !.scope = Tokens, !.all = TRUE] /\ \A d \in Conns \ {c} : conn'[d] = conn[d]
      BY <3>1, <1>0, Said
    <3>3. gen' = gen + 1 /\ UNCHANGED row /\ PasswordSticksUnlessCrossed'
      BY <1>19, <1>0, <2>2 DEF PostUserEnable, SoundInv, PasswordSticksUnlessCrossed
    <3>4. ConnSound(conn[c])'
      BY <1>0, <3>2, <3>3 DEF ConnSound, Ready
    <3>5. QED
      BY <1>c, <3>2, <3>3, <3>4
  <2>3. QED
    BY <2>1, <2>2
<1>20. ASSUME NEW c \in Conns, PostUserRemove(c) PROVE SoundInv'
  <2>1. Say(c, [Ready EXCEPT !.pc = "drop", !.scope = Tokens, !.all = TRUE])
    BY <1>20 DEF PostUserRemove, EndsEverything
  <2>2. conn'[c] = [Ready EXCEPT !.pc = "drop", !.scope = Tokens, !.all = TRUE] /\ \A d \in Conns \ {c} : conn'[d] = conn[d]
    BY <2>1, <1>0, Said
  <2>3. gen' = gen + 1 /\ UNCHANGED row /\ PasswordSticksUnlessCrossed'
    BY <1>20 DEF PostUserRemove, SoundInv, PasswordSticksUnlessCrossed
  <2>4. ConnSound(conn[c])'
    BY <1>0, <2>2, <2>3 DEF ConnSound, Ready
  <2>5. QED
    BY <1>c, <2>2, <2>3, <2>4
<1>21. ASSUME NEW c \in Conns, PruneSessions(c) PROVE SoundInv'
  <2>1. Say(c, [conn[c] EXCEPT !.pc = "prune"])
    BY <1>21 DEF PruneSessions
  <2>2. conn'[c] = [conn[c] EXCEPT !.pc = "prune"] /\ \A d \in Conns \ {c} : conn'[d] = conn[d]
    BY <2>1, <1>0, Said
  <2>3. ConnSound(conn[c])'
    BY <1>21, <1>0, <2>2 DEF PruneSessions, SoundInv, ConnSound, Ready
  <2>4. QED
    BY <1>21, <1>a, <2>2, <2>3 DEF PruneSessions
<1>22. ASSUME NEW c \in Conns, PruneRows(c) PROVE SoundInv'
  <2>1. /\ UNCHANGED <<gen, user, meant>> /\ Say(c, [conn[c] EXCEPT !.pc = "reap"])
        /\ row' = [t \in Tokens |-> IF Stale(t) THEN Deleted ELSE row[t]]
    BY <1>22 DEF PruneRows
  <2>2. conn'[c] = [conn[c] EXCEPT !.pc = "reap"] /\ \A d \in Conns \ {c} : conn'[d] = conn[d]
    BY <1>0, <2>1, Said
  <2>3. \A u \in Tokens : row'[u] = row[u] \/ row'[u] = Deleted
    BY <2>1
  <2>4. Deleted.gen = 1 /\ Deleted.on = FALSE /\ Deleted.expires = 0 /\ Deleted.created = 0
    BY DEF Deleted, NoSession
  <2>5. \A u \in Tokens : RowSound(row[u])'
    BY <1>0, <2>1, <2>3, <2>4, AccountsBounds DEF RowSound, SoundInv
  <2>6. ConnSound(conn[c])'
    BY <1>22, <1>0, <2>1, <2>2 DEF PruneRows, ConnSound, Ready, SoundInv, AcJobs
  <2>7. \A u \in Issued : row'[u] = row[u] \/ (row'[u].gen > 0 /\ row'[u].on = FALSE)
    BY <2>3, <2>4 DEF Issued
  <2>8. QED
    BY <1>b, <2>1, <2>2, <2>5, <2>6, <2>7 DEF Issued
<1>23. ASSUME NEW c \in Conns, ReapSessions(c) PROVE SoundInv'
  <2>1. Say(c, Ready)
    BY <1>23 DEF ReapSessions
  <2>2. conn'[c] = Ready /\ \A d \in Conns \ {c} : conn'[d] = conn[d]
    BY <2>1, <1>0, Said
  <2>3. ConnSound(conn[c])'
    BY <1>23, <1>0, <2>2 DEF ReapSessions, SoundInv, ConnSound, Ready
  <2>4. QED
    BY <1>23, <1>a, <2>2, <2>3 DEF ReapSessions
<1>24. ASSUME NEW c \in Conns, DropPresenceFor(c) PROVE SoundInv'
  <2>1. Say(c, [conn[c] EXCEPT !.pc = "delete"])
    BY <1>24 DEF DropPresenceFor
  <2>2. conn'[c] = [conn[c] EXCEPT !.pc = "delete"] /\ \A d \in Conns \ {c} : conn'[d] = conn[d]
    BY <2>1, <1>0, Said
  <2>3. ConnSound(conn[c])'
    BY <1>24, <1>0, <2>2 DEF DropPresenceFor, SoundInv, ConnSound, Ready
  <2>4. QED
    BY <1>24, <1>a, <2>2, <2>3 DEF DropPresenceFor
<1>25. ASSUME NEW c \in Conns, DeleteSessions(c) PROVE SoundInv'
  <2>1. /\ UNCHANGED <<gen, user, meant>> /\ Say(c, Ready)
        /\ row' = [t \in Tokens |-> IF t \in conn[c].scope THEN Deleted ELSE row[t]]
    BY <1>25 DEF DeleteSessions
  <2>2. conn'[c] = Ready /\ \A d \in Conns \ {c} : conn'[d] = conn[d]
    BY <1>0, <2>1, Said
  <2>3. \A u \in Tokens : row'[u] = row[u] \/ row'[u] = Deleted
    BY <2>1
  <2>4. Deleted.gen = 1 /\ Deleted.on = FALSE /\ Deleted.expires = 0 /\ Deleted.created = 0
    BY DEF Deleted, NoSession
  <2>5. \A u \in Tokens : RowSound(row[u])'
    BY <1>0, <2>1, <2>3, <2>4, AccountsBounds DEF RowSound, SoundInv
  <2>6. ConnSound(conn[c])'
    BY <1>25, <1>0, <2>1, <2>2 DEF DeleteSessions, ConnSound, Ready, SoundInv, AcJobs
  <2>7. \A u \in Issued : row'[u] = row[u] \/ (row'[u].gen > 0 /\ row'[u].on = FALSE)
    BY <2>3, <2>4 DEF Issued
  <2>8. QED
    BY <1>b, <2>1, <2>2, <2>5, <2>6, <2>7 DEF Issued
<1>26. CASE UNCHANGED acvars
  BY <1>26, <1>d DEF acvars
<1>27. QED
  BY <1>1, <1>2, <1>3, <1>4, <1>5, <1>6, <1>7, <1>8, <1>9, <1>10, <1>11, <1>12, <1>13, <1>14,
     <1>15, <1>16, <1>17, <1>18, <1>19, <1>20, <1>21, <1>22, <1>23, <1>24, <1>25, <1>26 DEF AccountsNext, AccountStep

(* Connection d is about to end every session. *)
Ending(d) == conn[d].all /\ conn[d].pc \in {"drop", "delete"}

LEMMA NoOldStep == AcTypes /\ SoundInv /\ NoOldSessionUnlessCrossed /\ [AccountsNext]_acvars => NoOldSessionUnlessCrossed'
<1> SUFFICES ASSUME AcTypes, SoundInv, NoOldSessionUnlessCrossed, [AccountsNext]_acvars PROVE NoOldSessionUnlessCrossed'
  OBVIOUS
<1>0. conn \in [Conns -> AcJobs] /\ row \in [Tokens -> AcRows] /\ gen \in Nat
  BY AccountsBounds DEF AcTypes
<1>1a. ASSUME UNCHANGED <<gen, row>>, \A d \in Conns : Ending(d) => Ending(d)' PROVE NoOldSessionUnlessCrossed'
  BY <1>1a DEF NoOldSessionUnlessCrossed, Ending
<1>1b. ASSUME UNCHANGED gen, \A d \in Conns : Ending(d) => Ending(d)',
              \A u \in Tokens : row'[u] = row[u] \/ row'[u].on = FALSE \/ row'[u].crossed = TRUE \/ ~ (row'[u].gen < gen)
       PROVE  NoOldSessionUnlessCrossed'
  BY <1>1b DEF NoOldSessionUnlessCrossed, Ending
<1>a. ASSUME NEW c \in Conns, UNCHANGED <<gen, row>>, \A d \in Conns \ {c} : conn'[d] = conn[d],
             conn[c].pc \notin {"drop", "delete"}
      PROVE  NoOldSessionUnlessCrossed'
  BY <1>a, <1>1a DEF Ending
<1>b. ASSUME NEW c \in Conns, conn'[c].all = TRUE, conn'[c].pc = "drop" PROVE NoOldSessionUnlessCrossed'
  BY <1>b DEF NoOldSessionUnlessCrossed
<1>c. ASSUME NEW c \in Conns, UNCHANGED gen, \A d \in Conns \ {c} : conn'[d] = conn[d],
             conn[c].pc \notin {"drop", "delete"},
             \A u \in Tokens : row'[u] = row[u] \/ row'[u].on = FALSE \/ row'[u].crossed = TRUE \/ ~ (row'[u].gen < gen)
      PROVE  NoOldSessionUnlessCrossed'
  BY <1>c, <1>1b DEF Ending
<1>d. ASSUME NEW c \in Conns, UNCHANGED gen, \A d \in Conns \ {c} : conn'[d] = conn[d],
             conn[c].pc \notin {"drop", "delete"},
             \A u \in Tokens : row'[u].gen = row[u].gen /\ row'[u].on = row[u].on /\ row'[u].crossed = row[u].crossed
      PROVE  NoOldSessionUnlessCrossed'
  <2>1. \A d \in Conns : Ending(d) => Ending(d)'
    BY <1>d DEF Ending
  <2>2. QED
    BY <1>d, <2>1 DEF NoOldSessionUnlessCrossed, Ending
<1>1. CASE Tick
  BY <1>1 DEF Tick, NoOldSessionUnlessCrossed
<1>2. ASSUME NEW c \in Conns, NEW try \in 0..gen, PostLogin(c, try) PROVE NoOldSessionUnlessCrossed'
  <2>1. (\A d \in Conns \ {c} : conn'[d] = conn[d]) /\ conn[c].pc \notin {"drop", "delete"} /\ UNCHANGED <<gen, row>>
    BY <1>2, <1>0 DEF PostLogin, Say
  <2>2. QED
    BY <1>a, <2>1
<1>3. ASSUME NEW c \in Conns, NEW try \in 0..gen, PostPassword(c, try) PROVE NoOldSessionUnlessCrossed'
  <2>1. (\A d \in Conns \ {c} : conn'[d] = conn[d]) /\ conn[c].pc \notin {"drop", "delete"} /\ UNCHANGED <<gen, row>>
    BY <1>3, <1>0 DEF PostPassword, Say
  <2>2. QED
    BY <1>a, <2>1
<1>4. ASSUME NEW c \in Conns, VerifyRead(c) PROVE NoOldSessionUnlessCrossed'
  <2>1. (\A d \in Conns \ {c} : conn'[d] = conn[d]) /\ conn[c].pc \notin {"drop", "delete"} /\ UNCHANGED <<gen, row>>
    BY <1>4, <1>0 DEF VerifyRead, Say
  <2>2. QED
    BY <1>a, <2>1
<1>5. ASSUME NEW c \in Conns, Rehash(c) PROVE NoOldSessionUnlessCrossed'
  <2>1. (\A d \in Conns \ {c} : conn'[d] = conn[d]) /\ conn[c].pc \notin {"drop", "delete"} /\ UNCHANGED <<gen, row>>
    BY <1>5, <1>0 DEF Rehash, Say
  <2>2. QED
    BY <1>a, <2>1
<1>6. ASSUME NEW c \in Conns, RecordLoginFailure(c) PROVE NoOldSessionUnlessCrossed'
  <2>1. (\A d \in Conns \ {c} : conn'[d] = conn[d]) /\ conn[c].pc \notin {"drop", "delete"} /\ UNCHANGED <<gen, row>>
    BY <1>6, <1>0 DEF RecordLoginFailure, Say
  <2>2. QED
    BY <1>a, <2>1
<1>7. ASSUME NEW c \in Conns, NEW t \in Tokens, CreateSession(c, t) PROVE NoOldSessionUnlessCrossed'
  <2>1. (\A d \in Conns \ {c} : conn'[d] = conn[d]) /\ conn[c].pc \notin {"drop", "delete"} /\ UNCHANGED gen
    BY <1>7, <1>0 DEF CreateSession, Say
  <2>2. /\ row'[t].gen = conn[c].gen /\ (conn[c].gen # gen => row'[t].crossed = TRUE)
        /\ \A u \in Tokens \ {t} : row'[u] = row[u]
    BY <1>7, <1>0 DEF CreateSession, NoSession
  <2>3. \A u \in Tokens : row'[u] = row[u] \/ row'[u].on = FALSE \/ row'[u].crossed = TRUE \/ ~ (row'[u].gen < gen)
    <3>1. row'[t].crossed = TRUE \/ ~ (row'[t].gen < gen)
      BY <1>0, <2>2
    <3>2. QED
      BY <2>2, <3>1
  <2>4. QED
    BY <1>c, <2>1, <2>3
<1>8. ASSUME NEW c \in Conns, NEW t \in Tokens, PostLogout(c, t) PROVE NoOldSessionUnlessCrossed'
  <2>1. (\A d \in Conns \ {c} : conn'[d] = conn[d]) /\ conn[c].pc \notin {"drop", "delete"} /\ UNCHANGED <<gen, row>>
    BY <1>8, <1>0 DEF PostLogout, Say
  <2>2. QED
    BY <1>a, <2>1
<1>9. ASSUME NEW c \in Conns, ClearLoginFailures(c) PROVE NoOldSessionUnlessCrossed'
  <2>1. (\A d \in Conns \ {c} : conn'[d] = conn[d]) /\ conn[c].pc \notin {"drop", "delete"} /\ UNCHANGED <<gen, row>>
    BY <1>9, <1>0 DEF ClearLoginFailures, Say
  <2>2. QED
    BY <1>a, <2>1
<1>10. ASSUME NEW c \in Conns, NEW t \in Tokens, NEW tls \in BOOLEAN, LookupSession(c, t, tls) PROVE NoOldSessionUnlessCrossed'
  <2>1. /\ (\A d \in Conns \ {c} : conn'[d] = conn[d]) /\ conn[c].pc \notin {"drop", "delete"} /\ UNCHANGED gen
        /\ row' = row \/ row' = [row EXCEPT ![t].revoked = TRUE]
    BY <1>10, <1>0 DEF LookupSession, Say
  <2>2. \A u \in Tokens : row'[u].gen = row[u].gen /\ row'[u].on = row[u].on /\ row'[u].crossed = row[u].crossed
    BY <1>0, <2>1 DEF AcRows
  <2>3. QED
    BY <1>d, <2>1, <2>2
<1>11. ASSUME NEW c \in Conns, RefreshSession(c) PROVE NoOldSessionUnlessCrossed'
  <2>1. /\ (\A d \in Conns \ {c} : conn'[d] = conn[d]) /\ conn[c].pc \notin {"drop", "delete"} /\ UNCHANGED gen
        /\ row' = row \/ row' = [row EXCEPT ![conn[c].tok].expires = conn[c].expires]
    BY <1>11, <1>0 DEF RefreshSession, Say
  <2> DEFINE w == conn[c].tok
             x == conn[c].expires
  <2>h. w \in Tokens /\ (row' = row \/ row' = [row EXCEPT ![w].expires = x])
    BY <1>0, <2>1 DEF AcJobs
  <2> HIDE DEF w, x
  <2>2. \A u \in Tokens : row'[u].gen = row[u].gen /\ row'[u].on = row[u].on /\ row'[u].crossed = row[u].crossed
    BY <1>0, <2>h DEF AcRows
  <2>3. QED
    BY <1>d, <2>1, <2>2
<1>12. ASSUME NEW c \in Conns, NEW i \in Ids, RegisterSession(c, i) PROVE NoOldSessionUnlessCrossed'
  <2>1. (\A d \in Conns \ {c} : conn'[d] = conn[d]) /\ conn[c].pc \notin {"drop", "delete"} /\ UNCHANGED <<gen, row>>
    BY <1>12, <1>0 DEF RegisterSession, Say
  <2>2. QED
    BY <1>a, <2>1
<1>13. ASSUME NEW c \in Conns, BindPresence(c) PROVE NoOldSessionUnlessCrossed'
  <2>1. /\ (\A d \in Conns \ {c} : conn'[d] = conn[d]) /\ conn[c].pc \notin {"drop", "delete"} /\ UNCHANGED gen
        /\ row' = row \/ row' = [row EXCEPT ![conn[c].tok].presence = conn[c].id]
    BY <1>13, <1>0 DEF BindPresence, Say
  <2>2. \A u \in Tokens : row'[u].gen = row[u].gen /\ row'[u].on = row[u].on /\ row'[u].crossed = row[u].crossed
    BY <1>0, <2>1 DEF AcRows, AcJobs
  <2>3. QED
    BY <1>d, <2>1, <2>2
<1>14. ASSUME NEW c \in Conns, TouchSession(c) PROVE NoOldSessionUnlessCrossed'
  <2>1. (\A d \in Conns \ {c} : conn'[d] = conn[d]) /\ conn[c].pc \notin {"drop", "delete"} /\ UNCHANGED <<gen, row>>
    BY <1>14, <1>0 DEF TouchSession, Say
  <2>2. QED
    BY <1>a, <2>1
<1>15. ASSUME NEW c \in Conns, Served(c) PROVE NoOldSessionUnlessCrossed'
  <2>1. (\A d \in Conns \ {c} : conn'[d] = conn[d]) /\ conn[c].pc \notin {"drop", "delete"} /\ UNCHANGED <<gen, row>>
    BY <1>15, <1>0 DEF Served, Say
  <2>2. QED
    BY <1>a, <2>1
<1>16. ASSUME NEW c \in Conns, SetPassword(c) PROVE NoOldSessionUnlessCrossed'
  <2>1. Say(c, [Ready EXCEPT !.pc = "drop", !.scope = Tokens, !.all = TRUE])
    BY <1>16 DEF SetPassword, EndsEverything
  <2>2. conn'[c] = [Ready EXCEPT !.pc = "drop", !.scope = Tokens, !.all = TRUE]
    BY <1>0, <2>1, Said
  <2>3. QED
    BY <1>b, <2>2 DEF Ready
<1>17. ASSUME NEW c \in Conns, PostUserPasswd(c) PROVE NoOldSessionUnlessCrossed'
  <2>1. Say(c, [Ready EXCEPT !.pc = "drop", !.scope = Tokens, !.all = TRUE])
    BY <1>17 DEF PostUserPasswd, EndsEverything
  <2>2. conn'[c] = [Ready EXCEPT !.pc = "drop", !.scope = Tokens, !.all = TRUE]
    BY <1>0, <2>1, Said
  <2>3. QED
    BY <1>b, <2>2 DEF Ready
<1>18. ASSUME NEW c \in Conns, PostUserAdd(c) PROVE NoOldSessionUnlessCrossed'
  BY <1>18 DEF PostUserAdd, NoOldSessionUnlessCrossed
<1>19. ASSUME NEW c \in Conns, NEW e \in BOOLEAN, PostUserEnable(c, e) PROVE NoOldSessionUnlessCrossed'
  <2>1. CASE e = TRUE
    BY <1>19, <2>1 DEF PostUserEnable, NoOldSessionUnlessCrossed
  <2>2. CASE e = FALSE
    <3>1. Say(c, [Ready EXCEPT !.pc = "drop", !.scope = Tokens, !.all = TRUE])
      BY <1>19, <2>2 DEF PostUserEnable, EndsEverything
    <3>2. conn'[c] = [Ready EXCEPT !.pc = "drop", !.scope = Tokens, !.all = TRUE]
      BY <1>0, <3>1, Said
    <3>3. QED
      BY <1>b, <3>2 DEF Ready
  <2>3. QED
    BY <2>1, <2>2
<1>20. ASSUME NEW c \in Conns, PostUserRemove(c) PROVE NoOldSessionUnlessCrossed'
  <2>1. Say(c, [Ready EXCEPT !.pc = "drop", !.scope = Tokens, !.all = TRUE])
    BY <1>20 DEF PostUserRemove, EndsEverything
  <2>2. conn'[c] = [Ready EXCEPT !.pc = "drop", !.scope = Tokens, !.all = TRUE]
    BY <1>0, <2>1, Said
  <2>3. QED
    BY <1>b, <2>2 DEF Ready
<1>21. ASSUME NEW c \in Conns, PruneSessions(c) PROVE NoOldSessionUnlessCrossed'
  <2>1. (\A d \in Conns \ {c} : conn'[d] = conn[d]) /\ conn[c].pc \notin {"drop", "delete"} /\ UNCHANGED <<gen, row>>
    BY <1>21, <1>0 DEF PruneSessions, Say
  <2>2. QED
    BY <1>a, <2>1
<1>22. ASSUME NEW c \in Conns, PruneRows(c) PROVE NoOldSessionUnlessCrossed'
  <2>1. (\A d \in Conns \ {c} : conn'[d] = conn[d]) /\ conn[c].pc \notin {"drop", "delete"} /\ UNCHANGED gen
    BY <1>22, <1>0 DEF PruneRows, Say
  <2>2. \A u \in Tokens : row'[u] = row[u] \/ row'[u].on = FALSE
    BY <1>22 DEF PruneRows, Deleted, NoSession
  <2>3. QED
    BY <1>c, <2>1, <2>2
<1>23. ASSUME NEW c \in Conns, ReapSessions(c) PROVE NoOldSessionUnlessCrossed'
  <2>1. (\A d \in Conns \ {c} : conn'[d] = conn[d]) /\ conn[c].pc \notin {"drop", "delete"} /\ UNCHANGED <<gen, row>>
    BY <1>23, <1>0 DEF ReapSessions, Say
  <2>2. QED
    BY <1>a, <2>1
<1>24. ASSUME NEW c \in Conns, DropPresenceFor(c) PROVE NoOldSessionUnlessCrossed'
  <2>1. /\ \A d \in Conns \ {c} : conn'[d] = conn[d]
        /\ UNCHANGED <<gen, row>>
        /\ conn'[c].all = conn[c].all /\ conn'[c].pc = "delete"
    BY <1>24, <1>0 DEF DropPresenceFor, Say, AcJobs
  <2>2. \A d \in Conns : Ending(d) => Ending(d)'
    BY <2>1 DEF Ending
  <2>3. QED
    BY <1>1a, <2>1, <2>2
<1>25. ASSUME NEW c \in Conns, DeleteSessions(c) PROVE NoOldSessionUnlessCrossed'
  <2>1. (\A d \in Conns \ {c} : conn'[d] = conn[d]) /\ UNCHANGED gen /\ ConnSound(conn[c])
    BY <1>25, <1>0 DEF DeleteSessions, Say, SoundInv
  <2>2. \A u \in Tokens : row'[u] = row[u] \/ row'[u].on = FALSE
    BY <1>25 DEF DeleteSessions, Deleted, NoSession
  <2>3. CASE conn[c].all = TRUE
    <3>1. \A u \in Tokens : row'[u].on = FALSE
      BY <1>25, <2>1, <2>3 DEF DeleteSessions, Deleted, NoSession, ConnSound
    <3>2. QED
      BY <3>1 DEF NoOldSessionUnlessCrossed
  <2>4. CASE conn[c].all = FALSE
    <3>1. \A d \in Conns : Ending(d) => Ending(d)'
      BY <2>1, <2>4 DEF Ending
    <3>2. QED
      BY <1>1b, <2>1, <2>2, <3>1
  <2>5. QED
    BY <1>0, <2>3, <2>4 DEF AcJobs
<1>26. CASE UNCHANGED acvars
  BY <1>26 DEF acvars, NoOldSessionUnlessCrossed
<1>27. QED
  BY <1>1, <1>2, <1>3, <1>4, <1>5, <1>6, <1>7, <1>8, <1>9, <1>10, <1>11, <1>12, <1>13, <1>14,
     <1>15, <1>16, <1>17, <1>18, <1>19, <1>20, <1>21, <1>22, <1>23, <1>24, <1>25, <1>26 DEF AccountsNext, AccountStep

LEMMA GuessStep == AcTypes /\ GuessInv /\ [AccountsNext]_acvars => GuessInv'
<1> SUFFICES ASSUME AcTypes, GuessInv, [AccountsNext]_acvars PROVE GuessInv'
  OBVIOUS
<1>0. conn \in [Conns -> AcJobs] /\ now \in Nat /\ fails \subseteq (0..MaxNow) \X Nat
  BY AccountsBounds DEF AcTypes
<1>1a. /\ IsFiniteSet(InWindow) /\ IsFiniteSet(Guessing)
       /\ Cardinality(InWindow) \in Nat /\ Cardinality(Guessing) \in Nat /\ Cardinality(Conns) \in Nat
  <2>1. InWindow \subseteq fails /\ Guessing \subseteq Conns /\ IsFiniteSet(fails) /\ IsFiniteSet(Conns)
    BY AccountsBounds DEF AcTypes, InWindow, Guessing
  <2>2. QED
    BY <2>1, FS_Subset, FS_CardinalityType
<1>b. ASSUME InWindow' \subseteq InWindow, Guessing' \subseteq Guessing PROVE GuessInv'
  <2>1. /\ Cardinality(InWindow') <= Cardinality(InWindow) /\ Cardinality(Guessing') <= Cardinality(Guessing)
        /\ Cardinality(InWindow') \in Nat /\ Cardinality(Guessing') \in Nat
    BY <1>1a, <1>b, FS_Subset, FS_CardinalityType
  <2>2. QED
    BY <1>1a, <2>1, AccountsBounds DEF GuessInv
<1>a. ASSUME NEW c \in Conns, UNCHANGED now, fails' \subseteq fails, \A d \in Conns \ {c} : conn'[d] = conn[d],
             conn'[c].pc # "failed", conn'[c].pc = "verify" => conn'[c].for # "login"
      PROVE  GuessInv'
  <2>1. InWindow' \subseteq InWindow /\ Guessing' \subseteq Guessing
    BY <1>a DEF InWindow, Guessing
  <2>2. QED
    BY <1>b, <2>1
<1>1. CASE Tick
  <2>1. InWindow' \subseteq InWindow /\ Guessing' = Guessing
    BY <1>1, <1>0, AccountsBounds DEF Tick, InWindow, Guessing
  <2>2. QED
    BY <1>b, <2>1
<1>2. ASSUME NEW c \in Conns, NEW try \in 0..gen, PostLogin(c, try) PROVE GuessInv'
  <2>1. InWindow' = InWindow /\ Cardinality(InWindow) < MaxFailures
    BY <1>2 DEF PostLogin, InWindow, LoginAllowed
  <2>2. Guessing' \subseteq Conns
    BY DEF Guessing
  <2>3. Cardinality(Guessing') \in Nat /\ Cardinality(Guessing') <= Cardinality(Conns) /\ Cardinality(Conns) \in Nat
    BY <2>2, AccountsBounds, FS_Subset, FS_CardinalityType
  <2>4. QED
    BY <1>1a, <2>1, <2>3, AccountsBounds DEF GuessInv
<1>3. ASSUME NEW c \in Conns, NEW try \in 0..gen, PostPassword(c, try) PROVE GuessInv'
  <2>1. /\ \A d \in Conns \ {c} : conn'[d] = conn[d]
        /\ conn'[c].pc # "failed" /\ (conn'[c].pc = "verify" => conn'[c].for # "login")
        /\ UNCHANGED now /\ fails' \subseteq fails
    BY <1>3, <1>0 DEF PostPassword, Say, Ready, AcJobs
  <2>2. QED
    BY <1>a, <2>1
<1>4. ASSUME NEW c \in Conns, VerifyRead(c) PROVE GuessInv'
  <2>1. /\ \A d \in Conns \ {c} : conn'[d] = conn[d]
        /\ conn'[c].pc # "verify" /\ (conn'[c].pc = "failed" => conn[c].pc = "verify" /\ conn[c].for = "login")
        /\ UNCHANGED <<now, fails>>
    BY <1>4, <1>0 DEF VerifyRead, Say, AcJobs
  <2>2. Guessing' \subseteq Guessing /\ InWindow' \subseteq InWindow
    BY <2>1 DEF Guessing, InWindow
  <2>3. QED
    BY <1>b, <2>2
<1>5. ASSUME NEW c \in Conns, Rehash(c) PROVE GuessInv'
  <2>1. /\ \A d \in Conns \ {c} : conn'[d] = conn[d]
        /\ conn'[c].pc # "failed" /\ (conn'[c].pc = "verify" => conn'[c].for # "login")
        /\ UNCHANGED now /\ fails' \subseteq fails
    BY <1>5, <1>0 DEF Rehash, Say, Ready, AcJobs
  <2>2. QED
    BY <1>a, <2>1
<1>6. ASSUME NEW c \in Conns, RecordLoginFailure(c) PROVE GuessInv'
  <2> DEFINE f == <<now, Cardinality(fails) + 1>>
  <2>1. /\ \A d \in Conns \ {c} : conn'[d] = conn[d]
        /\ conn'[c].pc = "ready" /\ conn[c].pc = "failed"
        /\ UNCHANGED now /\ fails' = fails \cup {f}
    BY <1>6, <1>0 DEF RecordLoginFailure, Say, Ready
  <2>2. Guessing' = Guessing \ {c} /\ c \in Guessing
    BY <2>1 DEF Guessing
  <2>3. InWindow' \subseteq InWindow \cup {f}
    BY <2>1 DEF InWindow
  <2> HIDE DEF f
  <2>4. Cardinality(Guessing') = Cardinality(Guessing) - 1
    BY <1>1a, <2>2, FS_RemoveElement
  <2>5. IsFiniteSet(InWindow \cup {f}) /\ Cardinality(InWindow \cup {f}) <= Cardinality(InWindow) + 1
    <3>1. CASE f \in InWindow
      <4>1. InWindow \cup {f} = InWindow
        BY <3>1
      <4>2. QED
        BY <1>1a, <4>1
    <3>2. CASE f \notin InWindow
      <4>1. IsFiniteSet(InWindow \cup {f}) /\ Cardinality(InWindow \cup {f}) = Cardinality(InWindow) + 1
        BY <1>1a, <3>2, FS_AddElement, Zenon
      <4>2. QED
        BY <1>1a, <4>1
    <3>3. QED
      BY <3>1, <3>2
  <2>6. Cardinality(InWindow') <= Cardinality(InWindow \cup {f}) /\ Cardinality(InWindow') \in Nat
    BY <2>3, <2>5, FS_Subset, FS_CardinalityType
  <2>7. Cardinality(InWindow \cup {f}) \in Nat
    BY <2>5, FS_CardinalityType
  <2>8. QED
    BY <1>1a, <2>4, <2>5, <2>6, <2>7, AccountsBounds DEF GuessInv
<1>7. ASSUME NEW c \in Conns, NEW t \in Tokens, CreateSession(c, t) PROVE GuessInv'
  <2>1. /\ \A d \in Conns \ {c} : conn'[d] = conn[d]
        /\ conn'[c].pc # "failed" /\ (conn'[c].pc = "verify" => conn'[c].for # "login")
        /\ UNCHANGED now /\ fails' \subseteq fails
    BY <1>7, <1>0 DEF CreateSession, Say, Ready, AcJobs
  <2>2. QED
    BY <1>a, <2>1
<1>8. ASSUME NEW c \in Conns, NEW t \in Tokens, PostLogout(c, t) PROVE GuessInv'
  <2>1. /\ \A d \in Conns \ {c} : conn'[d] = conn[d]
        /\ conn'[c].pc # "failed" /\ (conn'[c].pc = "verify" => conn'[c].for # "login")
        /\ UNCHANGED now /\ fails' \subseteq fails
    BY <1>8, <1>0 DEF PostLogout, Say, Ready, AcJobs
  <2>2. QED
    BY <1>a, <2>1
<1>9. ASSUME NEW c \in Conns, ClearLoginFailures(c) PROVE GuessInv'
  <2>1. /\ \A d \in Conns \ {c} : conn'[d] = conn[d]
        /\ conn'[c].pc # "failed" /\ (conn'[c].pc = "verify" => conn'[c].for # "login")
        /\ UNCHANGED now /\ fails' \subseteq fails
    BY <1>9, <1>0 DEF ClearLoginFailures, Say, Ready, AcJobs
  <2>2. QED
    BY <1>a, <2>1
<1>10. ASSUME NEW c \in Conns, NEW t \in Tokens, NEW tls \in BOOLEAN, LookupSession(c, t, tls) PROVE GuessInv'
  <2>1. \/ Say(c, Ready)
        \/ Say(c, [Ready EXCEPT !.pc = "refresh", !.tok = t, !.id = row[t].presence, !.expires = Capped(row[t])])
        \/ Say(c, [Ready EXCEPT !.pc = "refresh", !.tok = t, !.id = row[t].presence, !.expires = 0])
    BY <1>10 DEF LookupSession
  <2>2. (\A d \in Conns \ {c} : conn'[d] = conn[d]) /\ conn'[c].pc \in {"ready", "refresh"}
    <3>1. ASSUME NEW e, NEW q PROVE [Ready EXCEPT !.pc = "refresh", !.tok = t, !.id = q, !.expires = e].pc = "refresh"
      BY DEF Ready
    <3>2. Ready.pc = "ready"
      BY DEF Ready
    <3>3. PICK j : Say(c, j) /\ j.pc \in {"ready", "refresh"}
      BY <2>1, <3>1, <3>2
    <3>4. QED
      BY <1>0, <3>3, Said
  <2>3. QED
    BY <1>10, <1>a, <2>2 DEF LookupSession
<1>11. ASSUME NEW c \in Conns, RefreshSession(c) PROVE GuessInv'
  <2>1. /\ \A d \in Conns \ {c} : conn'[d] = conn[d]
        /\ conn'[c].pc # "failed" /\ (conn'[c].pc = "verify" => conn'[c].for # "login")
        /\ UNCHANGED now /\ fails' \subseteq fails
    BY <1>11, <1>0 DEF RefreshSession, Say, Ready, AcJobs, Looked
  <2>2. QED
    BY <1>a, <2>1
<1>12. ASSUME NEW c \in Conns, NEW i \in Ids, RegisterSession(c, i) PROVE GuessInv'
  <2>1. /\ \A d \in Conns \ {c} : conn'[d] = conn[d]
        /\ conn'[c].pc # "failed" /\ (conn'[c].pc = "verify" => conn'[c].for # "login")
        /\ UNCHANGED now /\ fails' \subseteq fails
    BY <1>12, <1>0 DEF RegisterSession, Say, Ready, AcJobs
  <2>2. QED
    BY <1>a, <2>1
<1>13. ASSUME NEW c \in Conns, BindPresence(c) PROVE GuessInv'
  <2>1. /\ \A d \in Conns \ {c} : conn'[d] = conn[d]
        /\ conn'[c].pc # "failed" /\ (conn'[c].pc = "verify" => conn'[c].for # "login")
        /\ UNCHANGED now /\ fails' \subseteq fails
    BY <1>13, <1>0 DEF BindPresence, Say, Ready, AcJobs
  <2>2. QED
    BY <1>a, <2>1
<1>14. ASSUME NEW c \in Conns, TouchSession(c) PROVE GuessInv'
  <2>1. /\ \A d \in Conns \ {c} : conn'[d] = conn[d]
        /\ conn'[c].pc # "failed" /\ (conn'[c].pc = "verify" => conn'[c].for # "login")
        /\ UNCHANGED now /\ fails' \subseteq fails
    BY <1>14, <1>0 DEF TouchSession, Say, Ready, AcJobs
  <2>2. QED
    BY <1>a, <2>1
<1>15. ASSUME NEW c \in Conns, Served(c) PROVE GuessInv'
  <2>1. /\ \A d \in Conns \ {c} : conn'[d] = conn[d]
        /\ conn'[c].pc # "failed" /\ (conn'[c].pc = "verify" => conn'[c].for # "login")
        /\ UNCHANGED now /\ fails' \subseteq fails
    BY <1>15, <1>0 DEF Served, Say, Ready, AcJobs
  <2>2. QED
    BY <1>a, <2>1
<1>16. ASSUME NEW c \in Conns, SetPassword(c) PROVE GuessInv'
  <2>1. Say(c, [Ready EXCEPT !.pc = "drop", !.scope = Tokens, !.all = TRUE]) /\ UNCHANGED <<now, fails>>
    BY <1>16 DEF SetPassword, EndsEverything
  <2>2. (\A d \in Conns \ {c} : conn'[d] = conn[d]) /\ conn'[c] = [Ready EXCEPT !.pc = "drop", !.scope = Tokens, !.all = TRUE]
    BY <1>0, <2>1, Said
  <2>3. conn'[c].pc = "drop"
    BY <2>2 DEF Ready
  <2>4. QED
    BY <1>a, <2>1, <2>2, <2>3
<1>17. ASSUME NEW c \in Conns, PostUserPasswd(c) PROVE GuessInv'
  <2>1. Say(c, [Ready EXCEPT !.pc = "drop", !.scope = Tokens, !.all = TRUE]) /\ UNCHANGED <<now, fails>>
    BY <1>17 DEF PostUserPasswd, EndsEverything
  <2>2. (\A d \in Conns \ {c} : conn'[d] = conn[d]) /\ conn'[c] = [Ready EXCEPT !.pc = "drop", !.scope = Tokens, !.all = TRUE]
    BY <1>0, <2>1, Said
  <2>3. conn'[c].pc = "drop"
    BY <2>2 DEF Ready
  <2>4. QED
    BY <1>a, <2>1, <2>2, <2>3
<1>18. ASSUME NEW c \in Conns, PostUserAdd(c) PROVE GuessInv'
  <2>1. InWindow' \subseteq InWindow /\ Guessing' = Guessing
    BY <1>18 DEF PostUserAdd, InWindow, Guessing
  <2>2. QED
    BY <1>b, <2>1
<1>19. ASSUME NEW c \in Conns, NEW e \in BOOLEAN, PostUserEnable(c, e) PROVE GuessInv'
  <2>1. UNCHANGED <<now, fails>> /\ (UNCHANGED conn \/ Say(c, [Ready EXCEPT !.pc = "drop", !.scope = Tokens, !.all = TRUE]))
    BY <1>19 DEF PostUserEnable, EndsEverything
  <2>2. CASE UNCHANGED conn
    <3>1. InWindow' \subseteq InWindow /\ Guessing' = Guessing
      BY <2>1, <2>2 DEF InWindow, Guessing
    <3>2. QED
      BY <1>b, <3>1
  <2>3. CASE Say(c, [Ready EXCEPT !.pc = "drop", !.scope = Tokens, !.all = TRUE])
    <3>1. (\A d \in Conns \ {c} : conn'[d] = conn[d]) /\ conn'[c] = [Ready EXCEPT !.pc = "drop", !.scope = Tokens, !.all = TRUE]
      BY <1>0, <2>3, Said
    <3>2. conn'[c].pc = "drop"
      BY <3>1 DEF Ready
    <3>3. QED
      BY <1>a, <2>1, <3>1, <3>2
  <2>4. QED
    BY <2>1, <2>2, <2>3
<1>20. ASSUME NEW c \in Conns, PostUserRemove(c) PROVE GuessInv'
  <2>1. Say(c, [Ready EXCEPT !.pc = "drop", !.scope = Tokens, !.all = TRUE]) /\ UNCHANGED <<now, fails>>
    BY <1>20 DEF PostUserRemove, EndsEverything
  <2>2. (\A d \in Conns \ {c} : conn'[d] = conn[d]) /\ conn'[c] = [Ready EXCEPT !.pc = "drop", !.scope = Tokens, !.all = TRUE]
    BY <1>0, <2>1, Said
  <2>3. conn'[c].pc = "drop"
    BY <2>2 DEF Ready
  <2>4. QED
    BY <1>a, <2>1, <2>2, <2>3
<1>21. ASSUME NEW c \in Conns, PruneSessions(c) PROVE GuessInv'
  <2>1. /\ \A d \in Conns \ {c} : conn'[d] = conn[d]
        /\ conn'[c].pc # "failed" /\ (conn'[c].pc = "verify" => conn'[c].for # "login")
        /\ UNCHANGED now /\ fails' \subseteq fails
    BY <1>21, <1>0 DEF PruneSessions, Say, Ready, AcJobs
  <2>2. QED
    BY <1>a, <2>1
<1>22. ASSUME NEW c \in Conns, PruneRows(c) PROVE GuessInv'
  <2>1. /\ \A d \in Conns \ {c} : conn'[d] = conn[d]
        /\ conn'[c].pc # "failed" /\ (conn'[c].pc = "verify" => conn'[c].for # "login")
        /\ UNCHANGED now /\ fails' \subseteq fails
    BY <1>22, <1>0 DEF PruneRows, Say, Ready, AcJobs, InWindow
  <2>2. QED
    BY <1>a, <2>1
<1>23. ASSUME NEW c \in Conns, ReapSessions(c) PROVE GuessInv'
  <2>1. /\ \A d \in Conns \ {c} : conn'[d] = conn[d]
        /\ conn'[c].pc # "failed" /\ (conn'[c].pc = "verify" => conn'[c].for # "login")
        /\ UNCHANGED now /\ fails' \subseteq fails
    BY <1>23, <1>0 DEF ReapSessions, Say, Ready, AcJobs
  <2>2. QED
    BY <1>a, <2>1
<1>24. ASSUME NEW c \in Conns, DropPresenceFor(c) PROVE GuessInv'
  <2>1. /\ \A d \in Conns \ {c} : conn'[d] = conn[d]
        /\ conn'[c].pc # "failed" /\ (conn'[c].pc = "verify" => conn'[c].for # "login")
        /\ UNCHANGED now /\ fails' \subseteq fails
    BY <1>24, <1>0 DEF DropPresenceFor, Say, Ready, AcJobs
  <2>2. QED
    BY <1>a, <2>1
<1>25. ASSUME NEW c \in Conns, DeleteSessions(c) PROVE GuessInv'
  <2>1. /\ \A d \in Conns \ {c} : conn'[d] = conn[d]
        /\ conn'[c].pc # "failed" /\ (conn'[c].pc = "verify" => conn'[c].for # "login")
        /\ UNCHANGED now /\ fails' \subseteq fails
    BY <1>25, <1>0 DEF DeleteSessions, Say, Ready, AcJobs
  <2>2. QED
    BY <1>a, <2>1
<1>26. CASE UNCHANGED acvars
  <2>1. InWindow' \subseteq InWindow /\ Guessing' = Guessing
    BY <1>26 DEF acvars, InWindow, Guessing
  <2>2. QED
    BY <1>b, <2>1
<1>27. QED
  BY <1>1, <1>2, <1>3, <1>4, <1>5, <1>6, <1>7, <1>8, <1>9, <1>10, <1>11, <1>12, <1>13, <1>14,
     <1>15, <1>16, <1>17, <1>18, <1>19, <1>20, <1>21, <1>22, <1>23, <1>24, <1>25, <1>26 DEF AccountsNext, AccountStep

LEMMA PresenceStep == AcTypes /\ SoundInv /\ PresenceInv /\ [AccountsNext]_acvars => PresenceInv'
<1> SUFFICES ASSUME AcTypes, SoundInv, PresenceInv, [AccountsNext]_acvars PROVE PresenceInv'
  OBVIOUS
<1>0. conn \in [Conns -> AcJobs] /\ row \in [Tokens -> AcRows] /\ online \in [Ids -> AcOnline]
  BY DEF AcTypes
<1>a. ASSUME \A i \in Ids : online'[i].st = "on" => /\ online[i].st = "on" /\ online'[i].tok = online[i].tok
                                                    /\ online'[i].crossed = online[i].crossed,
             \A u \in Issued : /\ row'[u].gen > 0
                               /\ \/ row'[u].on = FALSE
                                  \/ row'[u].on = row[u].on /\ (row'[u].presence = row[u].presence \/ row'[u].presence > 0),
             \A d \in Conns : conn[d].pc = "bind" => \/ conn'[d] = conn[d]
                                                     \/ row'[conn[d].tok].presence > 0 \/ row'[conn[d].tok].on = FALSE
      PROVE  PresenceInv'
  <2>1. Issued \subseteq Issued'
    BY <1>a DEF Issued
  <2>2. ASSUME NEW i \in Ids, online'[i].st = "on"
        PROVE  /\ online'[i].tok \in Issued'
               /\ Up(i)' => \/ \E d \in Conns : conn'[d].pc = "bind" /\ conn'[d].tok = online'[i].tok
                            \/ row'[online'[i].tok].presence > 0 \/ row'[online'[i].tok].on = FALSE
    <3> DEFINE t == online[i].tok
    <3>1. online[i].st = "on" /\ online'[i].tok = t /\ online'[i].crossed = online[i].crossed /\ t \in Issued
      BY <1>a, <2>2 DEF PresenceInv
    <3>2. Up(i)' => Up(i)
      BY <3>1 DEF Up
    <3>3. Up(i) => (\E c \in Conns : conn[c].pc = "bind" /\ conn[c].tok = t) \/ row[t].presence > 0 \/ row[t].on = FALSE
      BY <3>1 DEF PresenceInv
    <3> HIDE DEF t
    <3>4. QED
      BY <1>a, <2>1, <3>1, <3>2, <3>3
  <2>3. \A i, k \in Ids : Up(i)' /\ Up(k)' /\ online'[i].tok = online'[k].tok => i = k
    BY <1>a DEF PresenceInv, Up
  <2>4. QED
    BY <2>2, <2>3 DEF PresenceInv
<1>b. ASSUME NEW c \in Conns, UNCHANGED <<row, online>>, \A d \in Conns \ {c} : conn'[d] = conn[d], conn[c].pc # "bind"
      PROVE  PresenceInv'
  BY <1>a, <1>b DEF Issued
<1>b1. ASSUME UNCHANGED <<row, online, conn>> PROVE PresenceInv'
  BY <1>a, <1>b1 DEF Issued
<1>c. ASSUME NEW c \in Conns, UNCHANGED online, \A d \in Conns \ {c} : conn'[d] = conn[d], conn[c].pc # "bind",
             \A u \in Issued : \/ row'[u] = row[u]
                               \/ row'[u].gen > 0 /\ row'[u].on = FALSE
                               \/ row'[u].gen = row[u].gen /\ row'[u].on = row[u].on /\ row'[u].presence = row[u].presence
      PROVE  PresenceInv'
  <2>1. \A u \in Issued : /\ row'[u].gen > 0
                          /\ \/ row'[u].on = FALSE
                             \/ row'[u].on = row[u].on /\ row'[u].presence = row[u].presence
    BY <1>c DEF Issued
  <2>2. QED
    BY <1>a, <1>c, <2>1
<1>d. ASSUME NEW c \in Conns, UNCHANGED row, \A d \in Conns \ {c} : conn'[d] = conn[d], conn[c].pc # "bind",
             \A i \in Ids : \/ online'[i] = online[i]
                            \/ online'[i].st = "off"
                            \/ /\ online'[i].st = online[i].st /\ online'[i].tok = online[i].tok
                               /\ online'[i].crossed = online[i].crossed
      PROVE  PresenceInv'
  <2>1. \A u \in Issued : row'[u].gen > 0 /\ row'[u] = row[u]
    BY <1>d DEF Issued
  <2>2. QED
    BY <1>a, <1>d, <2>1
<1>1. CASE Tick
  BY <1>1, <1>b1 DEF Tick
<1>2. ASSUME NEW c \in Conns, NEW try \in 0..gen, PostLogin(c, try) PROVE PresenceInv'
  <2>1. (\A d \in Conns \ {c} : conn'[d] = conn[d]) /\ conn[c].pc # "bind" /\ UNCHANGED <<row, online>>
    BY <1>2, <1>0 DEF PostLogin, Say
  <2>2. QED
    BY <1>b, <2>1
<1>3. ASSUME NEW c \in Conns, NEW try \in 0..gen, PostPassword(c, try) PROVE PresenceInv'
  <2>1. (\A d \in Conns \ {c} : conn'[d] = conn[d]) /\ conn[c].pc # "bind" /\ UNCHANGED <<row, online>>
    BY <1>3, <1>0 DEF PostPassword, Say
  <2>2. QED
    BY <1>b, <2>1
<1>4. ASSUME NEW c \in Conns, VerifyRead(c) PROVE PresenceInv'
  <2>1. (\A d \in Conns \ {c} : conn'[d] = conn[d]) /\ conn[c].pc # "bind" /\ UNCHANGED <<row, online>>
    BY <1>4, <1>0 DEF VerifyRead, Say
  <2>2. QED
    BY <1>b, <2>1
<1>5. ASSUME NEW c \in Conns, Rehash(c) PROVE PresenceInv'
  <2>1. (\A d \in Conns \ {c} : conn'[d] = conn[d]) /\ conn[c].pc # "bind" /\ UNCHANGED <<row, online>>
    BY <1>5, <1>0 DEF Rehash, Say
  <2>2. QED
    BY <1>b, <2>1
<1>6. ASSUME NEW c \in Conns, RecordLoginFailure(c) PROVE PresenceInv'
  <2>1. (\A d \in Conns \ {c} : conn'[d] = conn[d]) /\ conn[c].pc # "bind" /\ UNCHANGED <<row, online>>
    BY <1>6, <1>0 DEF RecordLoginFailure, Say
  <2>2. QED
    BY <1>b, <2>1
<1>7. ASSUME NEW c \in Conns, NEW t \in Tokens, CreateSession(c, t) PROVE PresenceInv'
  <2>1. (\A d \in Conns \ {c} : conn'[d] = conn[d]) /\ conn[c].pc # "bind" /\ UNCHANGED online
    BY <1>7, <1>0 DEF CreateSession, Say
  <2>2. \A u \in Issued : row'[u] = row[u]
    BY <1>7, <1>0 DEF CreateSession, Issued
  <2>9. QED
    BY <1>c, <2>1, <2>2
<1>8. ASSUME NEW c \in Conns, NEW t \in Tokens, PostLogout(c, t) PROVE PresenceInv'
  <2>1. (\A d \in Conns \ {c} : conn'[d] = conn[d]) /\ conn[c].pc # "bind" /\ UNCHANGED <<row, online>>
    BY <1>8, <1>0 DEF PostLogout, Say
  <2>2. QED
    BY <1>b, <2>1
<1>9. ASSUME NEW c \in Conns, ClearLoginFailures(c) PROVE PresenceInv'
  <2>1. (\A d \in Conns \ {c} : conn'[d] = conn[d]) /\ conn[c].pc # "bind" /\ UNCHANGED <<row, online>>
    BY <1>9, <1>0 DEF ClearLoginFailures, Say
  <2>2. QED
    BY <1>b, <2>1
<1>10. ASSUME NEW c \in Conns, NEW t \in Tokens, NEW tls \in BOOLEAN, LookupSession(c, t, tls) PROVE PresenceInv'
  <2>1. (\A d \in Conns \ {c} : conn'[d] = conn[d]) /\ conn[c].pc # "bind" /\ UNCHANGED online
    BY <1>10, <1>0 DEF LookupSession, Say
  <2>3. row' = row \/ row' = [row EXCEPT ![t].revoked = TRUE]
    BY <1>10 DEF LookupSession
  <2>2. \A u \in Issued : row'[u].gen = row[u].gen /\ row'[u].on = row[u].on /\ row'[u].presence = row[u].presence
    BY <1>0, <2>3 DEF AcRows, Issued
  <2>9. QED
    BY <1>c, <2>1, <2>2
<1>11. ASSUME NEW c \in Conns, RefreshSession(c) PROVE PresenceInv'
  <2>1. (\A d \in Conns \ {c} : conn'[d] = conn[d]) /\ conn[c].pc # "bind" /\ UNCHANGED online
    BY <1>11, <1>0 DEF RefreshSession, Say
  <2> DEFINE w == conn[c].tok
             x == conn[c].expires
  <2>3. w \in Tokens /\ (row' = row \/ row' = [row EXCEPT ![w].expires = x])
    BY <1>11, <1>0 DEF RefreshSession, AcJobs
  <2> HIDE DEF w, x
  <2>2. \A u \in Issued : row'[u].gen = row[u].gen /\ row'[u].on = row[u].on /\ row'[u].presence = row[u].presence
    BY <1>0, <2>3 DEF AcRows, Issued
  <2>9. QED
    BY <1>c, <2>1, <2>2
<1>12. ASSUME NEW c \in Conns, NEW i \in Ids, RegisterSession(c, i) PROVE PresenceInv'
  <2> DEFINE w == conn[c].tok
             clash == \/ \E d \in Conns \ {c} : /\ conn[d].tok = w
                                                /\ \/ conn[d].pc \in {"refresh", "register"} /\ conn[d].id = 0
                                                   \/ conn[d].pc = "bind"
                      \/ row[w].presence > 0 \/ ~row[w].on
  <2>1. /\ \A d \in Conns \ {c} : conn'[d] = conn[d]
        /\ UNCHANGED row /\ w \in Issued /\ conn[c].pc = "register"
        /\ conn'[c].pc = "bind" /\ conn'[c].tok = w
    BY <1>12, <1>0 DEF RegisterSession, Say, SoundInv, ConnSound, AcJobs
  <2>2. online' = [online EXCEPT ![i] = [st |-> "on", tok |-> w, seen |-> now, crossed |-> clash]]
    BY <1>12 DEF RegisterSession
  <2>3. /\ \A k \in Ids \ {i} : online'[k] = online[k]
        /\ online'[i].st = "on" /\ online'[i].tok = w
        /\ clash => online'[i].crossed = TRUE
    BY <1>0, <2>2
  <2>4. /\ \A d \in Conns \ {c} : conn[d].pc = "bind" /\ conn[d].tok = w => clash
        /\ row[w].presence > 0 \/ row[w].on = FALSE => clash
    OBVIOUS
  <2> HIDE DEF clash
  <2>5. ASSUME NEW k \in Ids \ {i}, Up(k), online[k].tok = w PROVE online'[i].crossed = TRUE
    <3>1. \/ \E d \in Conns : conn[d].pc = "bind" /\ conn[d].tok = w
          \/ row[w].presence > 0 \/ row[w].on = FALSE
      BY <2>5 DEF PresenceInv, Up
    <3>2. \A d \in Conns : conn[d].pc = "bind" => d \in Conns \ {c}
      BY <2>1
    <3>3. QED
      BY <2>3, <2>4, <3>1, <3>2
  <2>6. \A k, m \in Ids : Up(k)' /\ Up(m)' /\ online'[k].tok = online'[m].tok => k = m
    <3>1. \A k \in Ids \ {i} : Up(k)' => Up(k)
      BY <2>3 DEF Up
    <3>2. \A k \in Ids \ {i} : Up(k)' /\ online'[k].tok = w => ~ Up(i)'
      BY <2>3, <2>5, <3>1 DEF Up
    <3>3. QED
      BY <2>3, <3>1, <3>2 DEF PresenceInv
  <2>7. \A d \in Conns : conn[d].pc = "bind" => conn'[d] = conn[d]
    BY <2>1
  <2> HIDE DEF w
  <2>8. ASSUME NEW k \in Ids, online'[k].st = "on"
        PROVE  /\ online'[k].tok \in Issued'
               /\ Up(k)' => \/ \E d \in Conns : conn'[d].pc = "bind" /\ conn'[d].tok = online'[k].tok
                            \/ row'[online'[k].tok].presence > 0 \/ row'[online'[k].tok].on = FALSE
    <3>1. CASE k = i
      BY <2>1, <2>3, <3>1 DEF Issued
    <3>2. CASE k # i
      <4>1. online'[k] = online[k]
        BY <2>3, <3>2
      <4>2. QED
        BY <2>1, <2>7, <2>8, <4>1 DEF Issued, Up, PresenceInv
    <3>3. QED
      BY <3>1, <3>2
  <2>9. QED
    BY <2>6, <2>8 DEF PresenceInv
<1>13. ASSUME NEW c \in Conns, BindPresence(c) PROVE PresenceInv'
  <2> DEFINE w == conn[c].tok
             k == conn[c].id
  <2>1. /\ \A d \in Conns \ {c} : conn'[d] = conn[d]
        /\ UNCHANGED online /\ w \in Issued /\ k > 0
        /\ row' = IF row[w].on THEN [row EXCEPT ![w].presence = k] ELSE row
    BY <1>13, <1>0 DEF BindPresence, Say, SoundInv, ConnSound
  <2> HIDE DEF k
  <2>2. w \in Tokens /\ row[w].on \in BOOLEAN
    BY <1>0, <2>1 DEF AcRows, Issued
  <2>3. CASE row[w].on = FALSE
    <3>1. row' = row
      BY <2>1, <2>3
    <3>2. QED
      BY <1>a, <2>1, <2>3, <3>1 DEF Issued
  <2>4. CASE row[w].on = TRUE
    <3>1. row' = [row EXCEPT ![w].presence = k]
      BY <2>1, <2>4
    <3>2. /\ \A u \in Tokens \ {w} : row'[u] = row[u]
          /\ row'[w].presence = k /\ row'[w].gen = row[w].gen /\ row'[w].on = row[w].on
      BY <1>0, <2>2, <3>1 DEF AcRows
    <3>3. QED
      BY <1>a, <2>1, <3>2 DEF Issued
  <2>5. QED
    BY <2>2, <2>3, <2>4
<1>14. ASSUME NEW c \in Conns, TouchSession(c) PROVE PresenceInv'
  <2>1. (\A d \in Conns \ {c} : conn'[d] = conn[d]) /\ conn[c].pc # "bind" /\ UNCHANGED row
    BY <1>14, <1>0 DEF TouchSession, Say
  <2>2. PICK k : online' = online \/ online' = [online EXCEPT ![k].seen = now]
    BY <1>14 DEF TouchSession
  <2>3. \A i \in Ids : online'[i].st = online[i].st /\ online'[i].tok = online[i].tok /\ online'[i].crossed = online[i].crossed
    BY <1>0, <2>2 DEF AcOnline
  <2>4. QED
    BY <1>d, <2>1, <2>3
<1>15. ASSUME NEW c \in Conns, Served(c) PROVE PresenceInv'
  <2>1. (\A d \in Conns \ {c} : conn'[d] = conn[d]) /\ conn[c].pc # "bind" /\ UNCHANGED <<row, online>>
    BY <1>15, <1>0 DEF Served, Say
  <2>2. QED
    BY <1>b, <2>1
<1>16. ASSUME NEW c \in Conns, SetPassword(c) PROVE PresenceInv'
  <2>1. (\A d \in Conns \ {c} : conn'[d] = conn[d]) /\ conn[c].pc # "bind" /\ UNCHANGED <<row, online>>
    BY <1>16, <1>0 DEF SetPassword, Say, EndsEverything
  <2>2. QED
    BY <1>b, <2>1
<1>17. ASSUME NEW c \in Conns, PostUserPasswd(c) PROVE PresenceInv'
  <2>1. (\A d \in Conns \ {c} : conn'[d] = conn[d]) /\ conn[c].pc # "bind" /\ UNCHANGED <<row, online>>
    BY <1>17, <1>0 DEF PostUserPasswd, Say, EndsEverything
  <2>2. QED
    BY <1>b, <2>1
<1>18. ASSUME NEW c \in Conns, PostUserAdd(c) PROVE PresenceInv'
  BY <1>18, <1>b1 DEF PostUserAdd
<1>19. ASSUME NEW c \in Conns, NEW e \in BOOLEAN, PostUserEnable(c, e) PROVE PresenceInv'
  <2>1. CASE e = TRUE
    BY <1>19, <2>1, <1>b1 DEF PostUserEnable
  <2>2. CASE e = FALSE
    <3>1. (\A d \in Conns \ {c} : conn'[d] = conn[d]) /\ conn[c].pc # "bind" /\ UNCHANGED <<row, online>>
      BY <1>19, <2>2, <1>0 DEF PostUserEnable, Say, EndsEverything
    <3>2. QED
      BY <1>b, <3>1
  <2>3. QED
    BY <2>1, <2>2
<1>20. ASSUME NEW c \in Conns, PostUserRemove(c) PROVE PresenceInv'
  <2>1. (\A d \in Conns \ {c} : conn'[d] = conn[d]) /\ conn[c].pc # "bind" /\ UNCHANGED <<row, online>>
    BY <1>20, <1>0 DEF PostUserRemove, Say, EndsEverything
  <2>2. QED
    BY <1>b, <2>1
<1>21. ASSUME NEW c \in Conns, PruneSessions(c) PROVE PresenceInv'
  <2>1. (\A d \in Conns \ {c} : conn'[d] = conn[d]) /\ conn[c].pc # "bind" /\ UNCHANGED row
    BY <1>21, <1>0 DEF PruneSessions, Say
  <2>2. \A i \in Ids : online'[i] = online[i] \/ online'[i].st = "off"
    BY <1>21 DEF PruneSessions, Dropped, Unused
  <2>3. QED
    BY <1>d, <2>1, <2>2
<1>22. ASSUME NEW c \in Conns, PruneRows(c) PROVE PresenceInv'
  <2>1. (\A d \in Conns \ {c} : conn'[d] = conn[d]) /\ conn[c].pc # "bind" /\ UNCHANGED online
    BY <1>22, <1>0 DEF PruneRows, Say
  <2>2. \A u \in Issued : \/ row'[u] = row[u]
                          \/ row'[u].gen > 0 /\ row'[u].on = FALSE
    BY <1>22 DEF PruneRows, Deleted, NoSession, Issued
  <2>9. QED
    BY <1>c, <2>1, <2>2
<1>23. ASSUME NEW c \in Conns, ReapSessions(c) PROVE PresenceInv'
  <2>1. (\A d \in Conns \ {c} : conn'[d] = conn[d]) /\ conn[c].pc # "bind" /\ UNCHANGED row
    BY <1>23, <1>0 DEF ReapSessions, Say
  <2>2. \A i \in Ids : online'[i] = online[i] \/ online'[i].st = "off"
    BY <1>23 DEF ReapSessions, Dropped, Unused
  <2>3. QED
    BY <1>d, <2>1, <2>2
<1>24. ASSUME NEW c \in Conns, DropPresenceFor(c) PROVE PresenceInv'
  <2>1. (\A d \in Conns \ {c} : conn'[d] = conn[d]) /\ conn[c].pc # "bind" /\ UNCHANGED row
    BY <1>24, <1>0 DEF DropPresenceFor, Say
  <2>2. \A i \in Ids : online'[i] = online[i] \/ online'[i].st = "off"
    BY <1>24 DEF DropPresenceFor, Dropped, Unused
  <2>3. QED
    BY <1>d, <2>1, <2>2
<1>25. ASSUME NEW c \in Conns, DeleteSessions(c) PROVE PresenceInv'
  <2>1. (\A d \in Conns \ {c} : conn'[d] = conn[d]) /\ conn[c].pc # "bind" /\ UNCHANGED online
    BY <1>25, <1>0 DEF DeleteSessions, Say
  <2>2. \A u \in Issued : \/ row'[u] = row[u]
                          \/ row'[u].gen > 0 /\ row'[u].on = FALSE
    BY <1>25 DEF DeleteSessions, Deleted, NoSession, Issued
  <2>9. QED
    BY <1>c, <2>1, <2>2
<1>26. CASE UNCHANGED acvars
  BY <1>26, <1>b1 DEF acvars
<1>27. QED
  BY <1>1, <1>2, <1>3, <1>4, <1>5, <1>6, <1>7, <1>8, <1>9, <1>10, <1>11, <1>12, <1>13, <1>14,
     <1>15, <1>16, <1>17, <1>18, <1>19, <1>20, <1>21, <1>22, <1>23, <1>24, <1>25, <1>26 DEF AccountsNext, AccountStep

LEMMA AcInitial == AccountsInit => AcInv
<1> SUFFICES ASSUME AccountsInit PROVE AcInv
  OBVIOUS
<1>1. AcTypes
  <2>1. 1 \in 1..MaxGen /\ 1 \in 0..MaxGen /\ 0 \in 0..MaxNow
    BY AccountsBounds
  <2>2. row \in [Tokens -> AcRows] /\ online \in [Ids -> AcOnline] /\ conn \in [Conns -> AcJobs]
    BY ReadyTyped, RowsTyped DEF AccountsInit
  <2>3. QED
    BY <2>1, <2>2, FS_EmptySet DEF AccountsInit, AcTypes
<1>2. SoundInv
  BY AccountsBounds DEF AccountsInit, SoundInv, ConnSound, RowSound, PasswordSticksUnlessCrossed, Ready, NoSession
<1>3. NoOldSessionUnlessCrossed
  BY DEF AccountsInit, NoOldSessionUnlessCrossed, NoSession
<1>4. GuessInv
  <2>1. InWindow = {} /\ Guessing = {}
    BY DEF AccountsInit, InWindow, Guessing, Ready
  <2>2. Cardinality({}) = 0 /\ Cardinality(Conns) \in Nat
    BY AccountsBounds, FS_EmptySet, FS_CardinalityType
  <2>3. QED
    BY <2>1, <2>2, AccountsBounds DEF GuessInv
<1>5. PresenceInv
  <2>1. \A i \in Ids : online[i].st = "unused"
    BY DEF AccountsInit, Unused
  <2>2. QED
    BY <2>1 DEF PresenceInv, Up
<1>6. QED
  BY <1>1, <1>2, <1>3, <1>4, <1>5 DEF AcInv

LEMMA AcInvStep == AcInv /\ [AccountsNext]_acvars => AcInv'
BY AcTypesStep, SoundStep, NoOldStep, GuessStep, PresenceStep DEF AcInv

LEMMA AcInvAlways == AccountsSpec => []AcInv
BY AcInitial, AcInvStep, PTL DEF AccountsSpec

LEMMA AcTyped == AcInv => AccountsTypeOK
<1> SUFFICES ASSUME AcInv PROVE AccountsTypeOK
  OBVIOUS
<1>0. AcTypes /\ SoundInv
  BY DEF AcInv
<1>1. \A t \in Tokens : /\ row[t].gen \in 0..gen /\ row[t].presence \in 0..MaxIds
                        /\ row[t].expires <= row[t].created + Lifetime
  BY <1>0 DEF AcTypes, AcRows, SoundInv, RowSound
<1>2. \A i \in Ids : online[i].st \in {"unused", "on", "off"} /\ online[i].tok \in Tokens
  BY <1>0 DEF AcTypes, AcOnline
<1>3. \A c \in Conns : conn[c].pc \in AcPcs
  BY <1>0 DEF AcTypes, AcJobs
<1>4. \A f \in fails : f[1] \in 0..MaxNow
  BY <1>0 DEF AcTypes
<1>5. QED
  BY <1>0, <1>1, <1>2, <1>3, <1>4 DEF AcTypes, AcPcs, AccountsTypeOK

(* No session outlives its longest life and every field keeps its type, for *)
(* any number of connections and sessions and any length of the windows.    *)
THEOREM AccountsTypeCorrect == AccountsSpec => []AccountsTypeOK
BY AcTyped, AcInvAlways, PTL

(* The password last set is the one that works, no session survives the     *)
(* change that must end it, wrong guesses in a window are bounded and a     *)
(* browser is listed online once, with the exceptions the properties name:  *)
(* for any number of connections, sessions and presence rows.               *)
THEOREM AccountsAreAlwaysSafe == AccountsSpec => []AccountsAreSafe
<1>1. AcInv => AccountsAreSafe
  <2> SUFFICES ASSUME AcInv PROVE AccountsAreSafe
    OBVIOUS
  <2>1. PasswordSticksUnlessCrossed /\ NoOldSessionUnlessCrossed
    BY DEF AcInv, SoundInv
  <2>2. GuessesBounded
    <3>1. InWindow \subseteq fails /\ Guessing \subseteq Conns /\ IsFiniteSet(fails) /\ IsFiniteSet(Conns)
      BY AccountsBounds DEF AcInv, AcTypes, InWindow, Guessing
    <3>2. Cardinality(InWindow) \in Nat /\ Cardinality(Guessing) \in Nat /\ Cardinality(Conns) \in Nat
      BY <3>1, FS_Subset, FS_CardinalityType
    <3>3. GuessInv
      BY DEF AcInv
    <3>4. QED
      BY <3>2, <3>3, AccountsBounds DEF GuessInv, GuessesBounded
  <2>3. OnePresenceUnlessCrossed
    <3> SUFFICES ASSUME NEW t \in Tokens
                 PROVE  Cardinality({i \in Ids : online[i].st = "on" /\ online[i].tok = t /\ ~online[i].crossed}) <= 1
      BY DEF OnePresenceUnlessCrossed
    <3> DEFINE S == {i \in Ids : online[i].st = "on" /\ online[i].tok = t /\ ~online[i].crossed}
    <3>1. \A i \in S : i \in Ids /\ Up(i) /\ online[i].tok = t
      BY DEF AcInv, AcTypes, AcOnline, Up
    <3> HIDE DEF S
    <3>2. \A i, k \in S : i = k
      BY <3>1 DEF AcInv, PresenceInv
    <3>3. S = {} \/ \E i : S = {i}
      BY <3>2
    <3>4. Cardinality(S) = 0 \/ Cardinality(S) = 1
      BY <3>3, FS_EmptySet, FS_Singleton
    <3>5. QED
      BY <3>4 DEF S
  <2>4. QED
    BY <2>1, <2>2, <2>3 DEF AccountsAreSafe
<1>2. QED
  BY <1>1, AcInvAlways, PTL

(* A session that was revoked or deleted is never usable again, whatever    *)
(* the requests that had read its row go on to write.                       *)
THEOREM RevokedStaysRevoked == AccountsSpec => RevokedIsFinal
<1>1. AcInv /\ [AccountsNext]_acvars => [\A t \in Tokens : Gone(row[t]) => Gone(row'[t])]_acvars
  BY GoneStep DEF AcInv
<1>2. QED
  BY <1>1, AcInvAlways, PTL DEF AccountsSpec, RevokedIsFinal

-----------------------------------------------------------------------------
(* Acme *)

RunPcs == {"idle", "account", "newOrder", "authz", "answer", "poll", "valid", "invalid", "finalize",
           "cert", "key", "store", "issued", "reload"}
CaJobs == [pc : RunPcs, id : Nat, tok : CaTokens \cup {0}, crossed : BOOLEAN]
CaOrders == [on : BOOLEAN, status : {"none", "queued", "pending", "deferred", "issued"}, waits : BOOLEAN]
CaCerts == [on : BOOLEAN, id : Nat, due : BOOLEAN]
CaExcuses == [torn : BOOLEAN, row : BOOLEAN, token : BOOLEAN]

CaTypes ==
    /\ order \in CaOrders /\ cert \in CaCerts
    /\ disk \in [cert : Nat, key : Nat] /\ served \in Nat
    /\ challenges \subseteq CaTokens
    /\ job \in [Runners -> CaJobs]
    /\ admin \in {"idle", "forget"} /\ issued \in 0..MaxIssued /\ deaths \in 0..MaxCrashes
    /\ excuse \in CaExcuses
    /\ cert.id <= issued /\ disk.cert <= issued /\ disk.key <= issued /\ served <= issued
    /\ \A r \in Runners : job[r].id <= issued

(* A run that has written the certificate file and has not reloaded yet. *)
Late(r) == job[r].pc \in {"key", "store", "issued", "reload"}
Alone(r) == disk.cert = job[r].id /\ \A q \in Others(r) : ~ Late(q)

(* An uncrossed run finds its own certificate on disk and nobody else past  *)
(* that point; a file without its half, a listener behind the disk and a row *)
(* behind the disk are each in the hands of a run that is about to fix it.  *)
CaSafe ==
    /\ \A r \in Runners : Late(r) /\ job[r].crossed = FALSE => Alone(r)
    /\ excuse.torn = FALSE =>
          /\ disk.cert = disk.key \/ \E r \in Runners : job[r].pc = "key"
          /\ served = disk.cert \/ \E r \in Runners : Late(r)
          /\ excuse.row = FALSE /\ cert.on = TRUE =>
                cert.id = disk.cert \/ \E r \in Runners : job[r].pc \in {"key", "store"}

(* A token on show belongs to a run that is being asked about it. *)
Asking(r, t) == job[r].pc \in {"answer", "poll", "valid", "invalid"} /\ job[r].tok = t
CaTokensInv == excuse.token = FALSE => \A t \in challenges : \E r \in Runners : Asking(r, t)

CaInv == CaTypes /\ CaSafe /\ CaTokensInv

LEMMA NoJobTyped == NoJob \in CaJobs /\ NoJob.pc = "idle" /\ NoJob.id = 0
BY DEF NoJob, CaJobs, RunPcs

LEMMA JobMoves ==
    ASSUME NEW j \in CaJobs, NEW p \in RunPcs
    PROVE  [j EXCEPT !.pc = p] \in CaJobs /\ [j EXCEPT !.pc = p].id = j.id
BY DEF CaJobs

LEMMA JobAsks ==
    ASSUME NEW j \in CaJobs, NEW p \in RunPcs, NEW t \in CaTokens \cup {0}
    PROVE  [j EXCEPT !.pc = p, !.tok = t] \in CaJobs /\ [j EXCEPT !.pc = p, !.tok = t].id = j.id
BY DEF CaJobs

LEMMA JobAsked ==
    ASSUME NEW j \in CaJobs, NEW p \in RunPcs, NEW t \in CaTokens \cup {0}, NEW k, k = [j EXCEPT !.pc = p, !.tok = t]
    PROVE  k.pc = p /\ k.tok = t
BY DEF CaJobs

LEMMA JobIssues ==
    ASSUME NEW j \in CaJobs, NEW p \in RunPcs, NEW n \in Nat
    PROVE  [j EXCEPT !.pc = p, !.id = n] \in CaJobs /\ [j EXCEPT !.pc = p, !.id = n].id = n
BY DEF CaJobs

LEMMA Stepped ==
    ASSUME NEW r \in Runners, NEW j, Step(r, j), job \in [Runners -> CaJobs]
    PROVE  job'[r] = j /\ (\A q \in Runners \ {r} : job'[q] = job[q]) /\ (j \in CaJobs => job' \in [Runners -> CaJobs])
BY DEF Step

LEMMA CaTypesStep == CaTypes /\ [AcmeNext]_mvars => CaTypes'
<1> SUFFICES ASSUME CaTypes, [AcmeNext]_mvars PROVE CaTypes'
  OBVIOUS
<1>0. /\ order \in CaOrders /\ cert \in CaCerts /\ disk \in [cert : Nat, key : Nat] /\ served \in Nat
      /\ challenges \subseteq CaTokens /\ job \in [Runners -> CaJobs] /\ admin \in {"idle", "forget"}
      /\ issued \in 0..MaxIssued /\ issued \in Nat /\ deaths \in 0..MaxCrashes /\ MaxIssued \in Nat /\ MaxCrashes \in Nat
      /\ excuse \in CaExcuses /\ cert.id <= issued /\ disk.cert <= issued /\ disk.key <= issued /\ served <= issued
      /\ \A r \in Runners : job[r].id <= issued
  BY AcmeBounds DEF CaTypes
<1>1. CASE Order
  BY <1>1, <1>0 DEF Order, CaTypes, CaOrders, CaCerts, NoOrder, NoCert
<1>2. CASE Forget
  BY <1>2, <1>0 DEF Forget, CaTypes, CaOrders, CaCerts, NoOrder, NoCert
<1>3. CASE ForgetCert
  BY <1>3, <1>0 DEF ForgetCert, CaTypes, CaOrders, CaCerts, NoOrder, NoCert
<1>4. CASE WaitOver
  BY <1>4, <1>0 DEF WaitOver, CaTypes, CaOrders, CaCerts, NoOrder, NoCert
<1>5. CASE CertAges
  BY <1>5, <1>0 DEF CertAges, CaTypes, CaOrders, CaCerts, NoOrder, NoCert
<1>6. ASSUME NEW r \in Runners, NEW b \in BOOLEAN, RunOnce(r, b) PROVE CaTypes'
  <2>1. Step(r, [NoJob EXCEPT !.pc = "account"])
    BY <1>6 DEF RunOnce, Defer
  <2>2. [NoJob EXCEPT !.pc = "account"] \in CaJobs /\ [NoJob EXCEPT !.pc = "account"].id <= issued /\ NoJob \in CaJobs /\ NoJob.id <= issued
    <3>1. job[r] \in CaJobs /\ job[r].id <= issued /\ 0 \in CaTokens \cup {0} /\ 0 <= issued
      BY <1>0
    <3>2. \A p \in {"account", "newOrder", "authz", "poll", "valid", "invalid", "finalize", "answer", "reload"} : p \in RunPcs
      BY DEF RunPcs
    <3>3. QED
      BY <3>1, <3>2, NoJobTyped, JobMoves, JobAsks
  <2>3. job' \in [Runners -> CaJobs] /\ \A q \in Runners : job'[q].id <= issued
    BY <1>0, <2>1, <2>2, Stepped
  <2>4. order' \in CaOrders /\ excuse' \in CaExcuses /\ challenges' \subseteq CaTokens
    BY <1>6, <1>0 DEF RunOnce, CaOrders, CaExcuses, Defer, Deferred
  <2>5. QED
    BY <1>6, <1>0, <2>3, <2>4 DEF RunOnce, CaTypes
<1>7. ASSUME NEW r \in Runners, NEW b \in BOOLEAN, EnsureAccount(r, b) PROVE CaTypes'
  <2>1. Step(r, [job[r] EXCEPT !.pc = "newOrder"]) \/ Step(r, NoJob)
    BY <1>7 DEF EnsureAccount, Defer
  <2>2. [job[r] EXCEPT !.pc = "newOrder"] \in CaJobs /\ [job[r] EXCEPT !.pc = "newOrder"].id <= issued /\ NoJob \in CaJobs /\ NoJob.id <= issued
    <3>1. job[r] \in CaJobs /\ job[r].id <= issued /\ 0 \in CaTokens \cup {0} /\ 0 <= issued
      BY <1>0
    <3>2. \A p \in {"account", "newOrder", "authz", "poll", "valid", "invalid", "finalize", "answer", "reload"} : p \in RunPcs
      BY DEF RunPcs
    <3>3. QED
      BY <3>1, <3>2, NoJobTyped, JobMoves, JobAsks
  <2>3. job' \in [Runners -> CaJobs] /\ \A q \in Runners : job'[q].id <= issued
    BY <1>0, <2>1, <2>2, Stepped
  <2>4. order' \in CaOrders /\ excuse' \in CaExcuses /\ challenges' \subseteq CaTokens
    BY <1>7, <1>0 DEF EnsureAccount, CaOrders, CaExcuses, Defer, Deferred
  <2>5. QED
    BY <1>7, <1>0, <2>3, <2>4 DEF EnsureAccount, CaTypes
<1>8. ASSUME NEW r \in Runners, NEW b \in BOOLEAN, NewOrder(r, b) PROVE CaTypes'
  <2>1. Step(r, [job[r] EXCEPT !.pc = "authz"]) \/ Step(r, NoJob)
    BY <1>8 DEF NewOrder, Defer
  <2>2. [job[r] EXCEPT !.pc = "authz"] \in CaJobs /\ [job[r] EXCEPT !.pc = "authz"].id <= issued /\ NoJob \in CaJobs /\ NoJob.id <= issued
    <3>1. job[r] \in CaJobs /\ job[r].id <= issued /\ 0 \in CaTokens \cup {0} /\ 0 <= issued
      BY <1>0
    <3>2. \A p \in {"account", "newOrder", "authz", "poll", "valid", "invalid", "finalize", "answer", "reload"} : p \in RunPcs
      BY DEF RunPcs
    <3>3. QED
      BY <3>1, <3>2, NoJobTyped, JobMoves, JobAsks
  <2>3. job' \in [Runners -> CaJobs] /\ \A q \in Runners : job'[q].id <= issued
    BY <1>0, <2>1, <2>2, Stepped
  <2>4. order' \in CaOrders /\ excuse' \in CaExcuses /\ challenges' \subseteq CaTokens
    BY <1>8, <1>0 DEF NewOrder, CaOrders, CaExcuses, Defer, Deferred
  <2>5. QED
    BY <1>8, <1>0, <2>3, <2>4 DEF NewOrder, CaTypes
<1>9. ASSUME NEW r \in Runners, NEW b \in BOOLEAN, Answer(r, b) PROVE CaTypes'
  <2>1. Step(r, [job[r] EXCEPT !.pc = "poll"]) \/ Step(r, NoJob)
    BY <1>9 DEF Answer, Defer
  <2>2. [job[r] EXCEPT !.pc = "poll"] \in CaJobs /\ [job[r] EXCEPT !.pc = "poll"].id <= issued /\ NoJob \in CaJobs /\ NoJob.id <= issued
    <3>1. job[r] \in CaJobs /\ job[r].id <= issued /\ 0 \in CaTokens \cup {0} /\ 0 <= issued
      BY <1>0
    <3>2. \A p \in {"account", "newOrder", "authz", "poll", "valid", "invalid", "finalize", "answer", "reload"} : p \in RunPcs
      BY DEF RunPcs
    <3>3. QED
      BY <3>1, <3>2, NoJobTyped, JobMoves, JobAsks
  <2>3. job' \in [Runners -> CaJobs] /\ \A q \in Runners : job'[q].id <= issued
    BY <1>0, <2>1, <2>2, Stepped
  <2>4. order' \in CaOrders /\ excuse' \in CaExcuses /\ challenges' \subseteq CaTokens
    BY <1>9, <1>0 DEF Answer, CaOrders, CaExcuses, Defer, Deferred
  <2>5. QED
    BY <1>9, <1>0, <2>3, <2>4 DEF Answer, CaTypes
<1>10. ASSUME NEW r \in Runners, NEW b \in BOOLEAN, Poll(r, b) PROVE CaTypes'
  <2>1. Step(r, [job[r] EXCEPT !.pc = "valid"]) \/ Step(r, [job[r] EXCEPT !.pc = "invalid"])
    BY <1>10 DEF Poll, Defer
  <2>2. [job[r] EXCEPT !.pc = "valid"] \in CaJobs /\ [job[r] EXCEPT !.pc = "valid"].id <= issued /\ [job[r] EXCEPT !.pc = "invalid"] \in CaJobs /\ [job[r] EXCEPT !.pc = "invalid"].id <= issued /\ NoJob \in CaJobs /\ NoJob.id <= issued
    <3>1. job[r] \in CaJobs /\ job[r].id <= issued /\ 0 \in CaTokens \cup {0} /\ 0 <= issued
      BY <1>0
    <3>2. \A p \in {"account", "newOrder", "authz", "poll", "valid", "invalid", "finalize", "answer", "reload"} : p \in RunPcs
      BY DEF RunPcs
    <3>3. QED
      BY <3>1, <3>2, NoJobTyped, JobMoves, JobAsks
  <2>3. job' \in [Runners -> CaJobs] /\ \A q \in Runners : job'[q].id <= issued
    BY <1>0, <2>1, <2>2, Stepped
  <2>4. order' \in CaOrders /\ excuse' \in CaExcuses /\ challenges' \subseteq CaTokens
    BY <1>10, <1>0 DEF Poll, CaOrders, CaExcuses, Defer, Deferred
  <2>5. QED
    BY <1>10, <1>0, <2>3, <2>4 DEF Poll, CaTypes
<1>11. ASSUME NEW r \in Runners, NEW b \in BOOLEAN, NEW t \in CaTokens, Authz(r, b, t) PROVE CaTypes'
  <2>1. Step(r, [job[r] EXCEPT !.pc = "finalize"]) \/ Step(r, [job[r] EXCEPT !.pc = "answer", !.tok = t])
    BY <1>11 DEF Authz, Defer
  <2>2. [job[r] EXCEPT !.pc = "finalize"] \in CaJobs /\ [job[r] EXCEPT !.pc = "finalize"].id <= issued /\ [job[r] EXCEPT !.pc = "answer", !.tok = t] \in CaJobs /\ [job[r] EXCEPT !.pc = "answer", !.tok = t].id <= issued /\ NoJob \in CaJobs /\ NoJob.id <= issued
    <3>1. job[r] \in CaJobs /\ job[r].id <= issued /\ 0 \in CaTokens \cup {0} /\ 0 <= issued
      BY <1>0
    <3>2. \A p \in {"account", "newOrder", "authz", "poll", "valid", "invalid", "finalize", "answer", "reload"} : p \in RunPcs
      BY DEF RunPcs
    <3>3. [job[r] EXCEPT !.pc = "answer", !.tok = t] \in CaJobs /\ [job[r] EXCEPT !.pc = "answer", !.tok = t].id = job[r].id
      <4>1. t \in CaTokens \cup {0} /\ "answer" \in RunPcs
        BY <3>2
      <4>2. QED
        BY <3>1, <4>1, JobAsks
    <3>4. QED
      BY <3>1, <3>2, <3>3, NoJobTyped, JobMoves
  <2>3. job' \in [Runners -> CaJobs] /\ \A q \in Runners : job'[q].id <= issued
    BY <1>0, <2>1, <2>2, Stepped
  <2>4. order' \in CaOrders /\ excuse' \in CaExcuses /\ challenges' \subseteq CaTokens
    BY <1>11, <1>0 DEF Authz, CaOrders, CaExcuses, Defer, Deferred
  <2>5. QED
    BY <1>11, <1>0, <2>3, <2>4 DEF Authz, CaTypes
<1>12. ASSUME NEW r \in Runners, NEW next \in {"authz", "finalize"}, Polled(r, next) PROVE CaTypes'
  <2>1. Step(r, [job[r] EXCEPT !.pc = next, !.tok = 0]) \/ Step(r, NoJob)
    BY <1>12 DEF Polled, Defer
  <2>2. [job[r] EXCEPT !.pc = next, !.tok = 0] \in CaJobs /\ [job[r] EXCEPT !.pc = next, !.tok = 0].id <= issued /\ NoJob \in CaJobs /\ NoJob.id <= issued
    <3>1. job[r] \in CaJobs /\ job[r].id <= issued /\ 0 \in CaTokens \cup {0} /\ 0 <= issued
      BY <1>0
    <3>2. \A p \in {"account", "newOrder", "authz", "poll", "valid", "invalid", "finalize", "answer", "reload"} : p \in RunPcs
      BY DEF RunPcs
    <3>3. [job[r] EXCEPT !.pc = next, !.tok = 0] \in CaJobs /\ [job[r] EXCEPT !.pc = next, !.tok = 0].id = job[r].id
      <4>1. 0 \in CaTokens \cup {0} /\ next \in RunPcs
        BY <3>2
      <4>2. QED
        BY <3>1, <4>1, JobAsks
    <3>4. QED
      BY <3>1, <3>2, <3>3, NoJobTyped, JobMoves
  <2>3. job' \in [Runners -> CaJobs] /\ \A q \in Runners : job'[q].id <= issued
    BY <1>0, <2>1, <2>2, Stepped
  <2>4. order' \in CaOrders /\ excuse' \in CaExcuses /\ challenges' \subseteq CaTokens
    BY <1>12, <1>0 DEF Polled, CaOrders, CaExcuses, Defer, Deferred
  <2>5. QED
    BY <1>12, <1>0, <2>3, <2>4 DEF Polled, CaTypes
<1>13. ASSUME NEW r \in Runners, AuthzFails(r) PROVE CaTypes'
  <2>1. Step(r, NoJob)
    BY <1>13 DEF AuthzFails, Defer
  <2>2. NoJob \in CaJobs /\ NoJob.id <= issued
    <3>1. job[r] \in CaJobs /\ job[r].id <= issued /\ 0 \in CaTokens \cup {0} /\ 0 <= issued
      BY <1>0
    <3>2. \A p \in {"account", "newOrder", "authz", "poll", "valid", "invalid", "finalize", "answer", "reload"} : p \in RunPcs
      BY DEF RunPcs
    <3>3. QED
      BY <3>1, <3>2, NoJobTyped, JobMoves, JobAsks
  <2>3. job' \in [Runners -> CaJobs] /\ \A q \in Runners : job'[q].id <= issued
    BY <1>0, <2>1, <2>2, Stepped
  <2>4. order' \in CaOrders /\ excuse' \in CaExcuses /\ challenges' \subseteq CaTokens
    BY <1>13, <1>0 DEF AuthzFails, CaOrders, CaExcuses, Defer, Deferred
  <2>5. QED
    BY <1>13, <1>0, <2>3, <2>4 DEF AuthzFails, CaTypes
<1>14. ASSUME NEW r \in Runners, Finalize(r) PROVE CaTypes'
  <2>1. Step(r, [job[r] EXCEPT !.pc = "cert", !.id = issued + 1]) /\ issued' = issued + 1
    BY <1>14 DEF Finalize
  <2>2. /\ [job[r] EXCEPT !.pc = "cert", !.id = issued + 1] \in CaJobs
        /\ [job[r] EXCEPT !.pc = "cert", !.id = issued + 1].id = issued + 1
    <3>1. job[r] \in CaJobs /\ "cert" \in RunPcs /\ issued + 1 \in Nat
      BY <1>0 DEF RunPcs
    <3>2. QED
      BY <3>1, JobIssues
  <2>3. job'[r].id = issued + 1
    BY <1>0, <2>1, <2>2, Stepped
  <2>4. job' \in [Runners -> CaJobs] /\ \A q \in Runners : job'[q].id <= issued + 1
    <3>1. \A q \in Runners : job[q].id \in Nat
      BY <1>0 DEF CaJobs
    <3>2. QED
      BY <1>0, <2>1, <2>2, <2>3, <3>1, Stepped
  <2>5. cert.id \in Nat /\ disk.cert \in Nat /\ disk.key \in Nat /\ issued < MaxIssued
    BY <1>14, <1>0 DEF CaCerts, Finalize
  <2>6. QED
    BY <1>14, <1>0, <2>4, <2>5 DEF Finalize, CaTypes
<1>15. ASSUME NEW r \in Runners, FinalizeFails(r) PROVE CaTypes'
  <2>1. Step(r, NoJob)
    BY <1>15 DEF FinalizeFails, Defer
  <2>2. NoJob \in CaJobs /\ NoJob.id <= issued
    <3>1. job[r] \in CaJobs /\ job[r].id <= issued /\ 0 \in CaTokens \cup {0} /\ 0 <= issued
      BY <1>0
    <3>2. \A p \in {"account", "newOrder", "authz", "poll", "valid", "invalid", "finalize", "answer", "reload"} : p \in RunPcs
      BY DEF RunPcs
    <3>3. QED
      BY <3>1, <3>2, NoJobTyped, JobMoves, JobAsks
  <2>3. job' \in [Runners -> CaJobs] /\ \A q \in Runners : job'[q].id <= issued
    BY <1>0, <2>1, <2>2, Stepped
  <2>4. order' \in CaOrders /\ excuse' \in CaExcuses /\ challenges' \subseteq CaTokens
    BY <1>15, <1>0 DEF FinalizeFails, CaOrders, CaExcuses, Defer, Deferred
  <2>5. QED
    BY <1>15, <1>0, <2>3, <2>4 DEF FinalizeFails, CaTypes
<1>16. ASSUME NEW r \in Runners, WriteCert(r) PROVE CaTypes'
  <2> DEFINE meets == Others(r) \cap Writing
  <2>1. job' = [q \in Runners |-> IF q = r THEN [job[r] EXCEPT !.pc = "key", !.crossed = @ \/ meets # {}]
                                  ELSE IF q \in meets THEN [job[q] EXCEPT !.crossed = TRUE] ELSE job[q]]
    BY <1>16 DEF WriteCert
  <2> HIDE DEF meets
  <2>2. [job[r] EXCEPT !.pc = "key", !.crossed = @ \/ meets # {}] \in CaJobs
    BY <1>0 DEF CaJobs, RunPcs
  <2>3. \A q \in Runners : [job[q] EXCEPT !.crossed = TRUE] \in CaJobs
    BY <1>0 DEF CaJobs
  <2>4. job' \in [Runners -> CaJobs]
    BY <1>0, <2>1, <2>2, <2>3
  <2>5. \A q \in Runners : job'[q].id = job[q].id
    BY <1>0, <2>1 DEF CaJobs
  <2>6. disk' \in [cert : Nat, key : Nat] /\ disk'.cert <= issued /\ disk'.key <= issued
    BY <1>16, <1>0 DEF WriteCert, CaJobs
  <2>7. QED
    BY <1>16, <1>0, <2>4, <2>5, <2>6 DEF WriteCert, CaTypes
<1>17. ASSUME NEW r \in Runners, WriteKey(r) PROVE CaTypes'
  <2>1. Step(r, [job[r] EXCEPT !.pc = "store"]) /\ job[r] \in CaJobs
    BY <1>17, <1>0 DEF WriteKey
  <2>2. [job[r] EXCEPT !.pc = "store"] \in CaJobs /\ [job[r] EXCEPT !.pc = "store"].id <= issued
    BY <1>0, NoJobTyped DEF CaJobs, RunPcs
  <2>3. job' \in [Runners -> CaJobs] /\ \A q \in Runners : job'[q].id <= issued
    BY <1>0, <2>1, <2>2, Stepped
  <2>4. disk' \in [cert : Nat, key : Nat] /\ disk'.cert <= issued /\ disk'.key <= issued
    BY <1>17, <1>0 DEF WriteKey, CaJobs
  <2>5. excuse' \in CaExcuses
    BY <1>17, <1>0, <2>1 DEF WriteKey, CaExcuses, CaJobs
  <2>6. QED
    BY <1>17, <1>0, <2>3, <2>4, <2>5 DEF WriteKey, CaTypes
<1>18. ASSUME NEW r \in Runners, WriteFails(r) PROVE CaTypes'
  <2>1. Step(r, NoJob)
    BY <1>18 DEF WriteFails, Defer
  <2>2. NoJob \in CaJobs /\ NoJob.id <= issued
    <3>1. job[r] \in CaJobs /\ job[r].id <= issued /\ 0 \in CaTokens \cup {0} /\ 0 <= issued
      BY <1>0
    <3>2. \A p \in {"account", "newOrder", "authz", "poll", "valid", "invalid", "finalize", "answer", "reload"} : p \in RunPcs
      BY DEF RunPcs
    <3>3. QED
      BY <3>1, <3>2, NoJobTyped, JobMoves, JobAsks
  <2>3. job' \in [Runners -> CaJobs] /\ \A q \in Runners : job'[q].id <= issued
    BY <1>0, <2>1, <2>2, Stepped
  <2>4. order' \in CaOrders /\ excuse' \in CaExcuses /\ challenges' \subseteq CaTokens
    BY <1>18, <1>0 DEF WriteFails, CaOrders, CaExcuses, Defer, Deferred
  <2>5. QED
    BY <1>18, <1>0, <2>3, <2>4 DEF WriteFails, CaTypes
<1>19. ASSUME NEW r \in Runners, StoreCert(r) PROVE CaTypes'
  <2>1. Step(r, [job[r] EXCEPT !.pc = "issued"]) /\ job[r] \in CaJobs
    BY <1>19, <1>0 DEF StoreCert
  <2>2. [job[r] EXCEPT !.pc = "issued"] \in CaJobs /\ [job[r] EXCEPT !.pc = "issued"].id <= issued
    BY <1>0, NoJobTyped DEF CaJobs, RunPcs
  <2>3. job' \in [Runners -> CaJobs] /\ \A q \in Runners : job'[q].id <= issued
    BY <1>0, <2>1, <2>2, Stepped
  <2>4. cert' \in CaCerts /\ cert'.id <= issued
    BY <1>19, <1>0, <2>1 DEF StoreCert, CaCerts, CaJobs
  <2>5. excuse' \in CaExcuses
    BY <1>19, <1>0, <2>1 DEF StoreCert, CaExcuses, CaJobs
  <2>6. QED
    BY <1>19, <1>0, <2>3, <2>4, <2>5 DEF StoreCert, CaTypes
<1>20. ASSUME NEW r \in Runners, MarkIssued(r) PROVE CaTypes'
  <2>1. Step(r, [job[r] EXCEPT !.pc = "reload"])
    BY <1>20 DEF MarkIssued, Defer
  <2>2. [job[r] EXCEPT !.pc = "reload"] \in CaJobs /\ [job[r] EXCEPT !.pc = "reload"].id <= issued /\ NoJob \in CaJobs /\ NoJob.id <= issued
    <3>1. job[r] \in CaJobs /\ job[r].id <= issued /\ 0 \in CaTokens \cup {0} /\ 0 <= issued
      BY <1>0
    <3>2. \A p \in {"account", "newOrder", "authz", "poll", "valid", "invalid", "finalize", "answer", "reload"} : p \in RunPcs
      BY DEF RunPcs
    <3>3. QED
      BY <3>1, <3>2, NoJobTyped, JobMoves, JobAsks
  <2>3. job' \in [Runners -> CaJobs] /\ \A q \in Runners : job'[q].id <= issued
    BY <1>0, <2>1, <2>2, Stepped
  <2>4. order' \in CaOrders /\ excuse' \in CaExcuses /\ challenges' \subseteq CaTokens
    BY <1>20, <1>0 DEF MarkIssued, CaOrders, CaExcuses, Defer, Deferred
  <2>5. QED
    BY <1>20, <1>0, <2>3, <2>4 DEF MarkIssued, CaTypes
<1>21. ASSUME NEW r \in Runners, ReloadListeners(r) PROVE CaTypes'
  <2>1. Step(r, NoJob)
    BY <1>21 DEF ReloadListeners
  <2>2. job' \in [Runners -> CaJobs] /\ \A q \in Runners : job'[q].id <= issued
    BY <1>0, <2>1, NoJobTyped, Stepped
  <2>3. QED
    BY <1>21, <1>0, <2>2 DEF ReloadListeners, CaTypes, Loaded
<1>22. CASE PostAcmeReload
  BY <1>22, <1>0 DEF PostAcmeReload, CaTypes, Loaded
<1>23. CASE AcmeCrash
  <2>1. excuse' \in CaExcuses
    BY <1>23, <1>0 DEF AcmeCrash, CaExcuses
  <2>2. job' \in [Runners -> CaJobs] /\ \A q \in Runners : job'[q].id <= issued
    BY <1>23, <1>0, NoJobTyped DEF AcmeCrash
  <2>3. QED
    BY <1>23, <1>0, <2>1, <2>2 DEF AcmeCrash, CaTypes
<1>24. CASE UNCHANGED mvars
  BY <1>24 DEF mvars, CaTypes
<1>25. QED
  BY <1>1, <1>2, <1>3, <1>4, <1>5, <1>6, <1>7, <1>8, <1>9, <1>10, <1>11, <1>12, <1>13, <1>14,
     <1>15, <1>16, <1>17, <1>18, <1>19, <1>20, <1>21, <1>22, <1>23, <1>24 DEF AcmeNext

LatePcs == {"key", "store", "issued", "reload"}
AskPcs == {"answer", "poll", "valid", "invalid"}

LEMMA CaSafeStep == CaTypes /\ CaSafe /\ [AcmeNext]_mvars => CaSafe'
<1> SUFFICES ASSUME CaTypes, CaSafe, [AcmeNext]_mvars PROVE CaSafe'
  OBVIOUS
<1>0. job \in [Runners -> CaJobs] /\ excuse \in CaExcuses /\ cert \in CaCerts /\ disk \in [cert : Nat, key : Nat]
  BY DEF CaTypes
<1>a. ASSUME NEW r \in Runners, \A q \in Runners \ {r} : job'[q] = job[q], job[r].pc \notin LatePcs, job'[r].pc \notin LatePcs,
             UNCHANGED <<disk, served, cert>>, excuse'.torn = excuse.torn, excuse'.row = excuse.row
      PROVE  CaSafe'
  <2>1. \A q \in Runners : Late(q)' \/ Late(q) => job'[q] = job[q]
    BY <1>a DEF Late, LatePcs
  <2>2. \A q \in Runners : Late(q)' <=> Late(q)
    BY <1>a DEF Late, LatePcs
  <2>3. \A q \in Runners : Late(q)' /\ job'[q].crossed = FALSE => Alone(q)'
    BY <1>a, <2>1, <2>2 DEF CaSafe, Alone, Others
  <2>4. \A q \in Runners : job[q].pc \in {"key", "store"} => job'[q] = job[q]
    BY <2>1 DEF Late
  <2>5. QED
    BY <1>a, <2>2, <2>3, <2>4 DEF CaSafe
<1>b. ASSUME UNCHANGED <<disk, served, cert, job, excuse>> PROVE CaSafe'
  BY <1>b DEF CaSafe, Late, Alone
<1>1. CASE Order
  BY <1>1, <1>b DEF Order
<1>2. CASE Forget
  BY <1>2, <1>b DEF Forget
<1>3. CASE ForgetCert
  <2>1. cert'.on = FALSE /\ UNCHANGED <<disk, served, job, excuse>>
    BY <1>3 DEF ForgetCert, NoCert
  <2>2. QED
    BY <2>1 DEF CaSafe, Late, Alone
<1>4. CASE WaitOver
  BY <1>4, <1>b DEF WaitOver
<1>5. CASE CertAges
  <2>1. cert'.on = cert.on /\ cert'.id = cert.id /\ UNCHANGED <<disk, served, job, excuse>>
    BY <1>5, <1>0 DEF CertAges, CaCerts
  <2>2. QED
    BY <2>1 DEF CaSafe, Late, Alone
<1>6. ASSUME NEW r \in Runners, NEW b \in BOOLEAN, RunOnce(r, b) PROVE CaSafe'
  <2>1. /\ \A q \in Runners \ {r} : job'[q] = job[q]
        /\ job[r].pc \notin LatePcs /\ job'[r].pc \notin LatePcs
    BY <1>6, <1>0, NoJobTyped DEF RunOnce, Step, CaJobs, LatePcs, NoJob
  <2>2. UNCHANGED <<disk, served, cert>> /\ excuse'.torn = excuse.torn /\ excuse'.row = excuse.row
    BY <1>6, <1>0 DEF RunOnce, CaExcuses
  <2>3. QED
    BY <1>a, <2>1, <2>2
<1>7. ASSUME NEW r \in Runners, NEW b \in BOOLEAN, EnsureAccount(r, b) PROVE CaSafe'
  <2>1. /\ \A q \in Runners \ {r} : job'[q] = job[q]
        /\ job[r].pc \notin LatePcs /\ job'[r].pc \notin LatePcs
    BY <1>7, <1>0, NoJobTyped DEF EnsureAccount, Step, CaJobs, LatePcs, NoJob
  <2>2. UNCHANGED <<disk, served, cert>> /\ excuse'.torn = excuse.torn /\ excuse'.row = excuse.row
    BY <1>7, <1>0 DEF EnsureAccount, CaExcuses
  <2>3. QED
    BY <1>a, <2>1, <2>2
<1>8. ASSUME NEW r \in Runners, NEW b \in BOOLEAN, NewOrder(r, b) PROVE CaSafe'
  <2>1. /\ \A q \in Runners \ {r} : job'[q] = job[q]
        /\ job[r].pc \notin LatePcs /\ job'[r].pc \notin LatePcs
    BY <1>8, <1>0, NoJobTyped DEF NewOrder, Step, CaJobs, LatePcs, NoJob, Defer
  <2>2. UNCHANGED <<disk, served, cert>> /\ excuse'.torn = excuse.torn /\ excuse'.row = excuse.row
    BY <1>8, <1>0 DEF NewOrder, CaExcuses
  <2>3. QED
    BY <1>a, <2>1, <2>2
<1>9. ASSUME NEW r \in Runners, NEW b \in BOOLEAN, Answer(r, b) PROVE CaSafe'
  <2>1. /\ \A q \in Runners \ {r} : job'[q] = job[q]
        /\ job[r].pc \notin LatePcs /\ job'[r].pc \notin LatePcs
    BY <1>9, <1>0, NoJobTyped DEF Answer, Step, CaJobs, LatePcs, NoJob, Defer
  <2>2. UNCHANGED <<disk, served, cert>> /\ excuse'.torn = excuse.torn /\ excuse'.row = excuse.row
    BY <1>9, <1>0 DEF Answer, CaExcuses
  <2>3. QED
    BY <1>a, <2>1, <2>2
<1>10. ASSUME NEW r \in Runners, NEW b \in BOOLEAN, Poll(r, b) PROVE CaSafe'
  <2>1. /\ \A q \in Runners \ {r} : job'[q] = job[q]
        /\ job[r].pc \notin LatePcs /\ job'[r].pc \notin LatePcs
    BY <1>10, <1>0, NoJobTyped DEF Poll, Step, CaJobs, LatePcs, NoJob
  <2>2. UNCHANGED <<disk, served, cert>> /\ excuse'.torn = excuse.torn /\ excuse'.row = excuse.row
    BY <1>10, <1>0 DEF Poll, CaExcuses
  <2>3. QED
    BY <1>a, <2>1, <2>2
<1>11. ASSUME NEW r \in Runners, NEW b \in BOOLEAN, NEW t \in CaTokens, Authz(r, b, t) PROVE CaSafe'
  <2>1. Step(r, [job[r] EXCEPT !.pc = "finalize"]) \/ Step(r, [job[r] EXCEPT !.pc = "answer", !.tok = t])
    BY <1>11 DEF Authz, Defer
  <2>a. job[r] \in CaJobs /\ t \in CaTokens \cup {0} /\ "answer" \in RunPcs
    BY <1>0 DEF RunPcs
  <2>b. [job[r] EXCEPT !.pc = "answer", !.tok = t].pc \notin LatePcs /\ [job[r] EXCEPT !.pc = "finalize"].pc \notin LatePcs /\ NoJob.pc \notin LatePcs
    BY <2>a, JobAsked, NoJobTyped DEF LatePcs, CaJobs
  <2>2. /\ \A q \in Runners \ {r} : job'[q] = job[q]
        /\ job[r].pc \notin LatePcs /\ job'[r].pc \notin LatePcs
    BY <1>11, <1>0, <2>1, <2>b, Stepped DEF Authz, LatePcs
  <2>3. QED
    BY <1>11, <1>a, <2>2 DEF Authz
<1>12. ASSUME NEW r \in Runners, NEW next \in {"authz", "finalize"}, Polled(r, next) PROVE CaSafe'
  <2>1. Step(r, NoJob) \/ Step(r, [job[r] EXCEPT !.pc = next, !.tok = 0])
    BY <1>12 DEF Polled, Defer
  <2>a. job[r] \in CaJobs /\ 0 \in CaTokens \cup {0} /\ next \in RunPcs
    BY <1>0 DEF RunPcs
  <2>b. [job[r] EXCEPT !.pc = next, !.tok = 0].pc \notin LatePcs /\ [job[r] EXCEPT !.pc = "finalize"].pc \notin LatePcs /\ NoJob.pc \notin LatePcs
    BY <2>a, JobAsked, NoJobTyped DEF LatePcs, CaJobs
  <2>2. /\ \A q \in Runners \ {r} : job'[q] = job[q]
        /\ job[r].pc \notin LatePcs /\ job'[r].pc \notin LatePcs
    BY <1>12, <1>0, <2>1, <2>b, Stepped DEF Polled, LatePcs
  <2>3. QED
    BY <1>12, <1>a, <2>2 DEF Polled
<1>13. ASSUME NEW r \in Runners, AuthzFails(r) PROVE CaSafe'
  <2>1. /\ \A q \in Runners \ {r} : job'[q] = job[q]
        /\ job[r].pc \notin LatePcs /\ job'[r].pc \notin LatePcs
    BY <1>13, <1>0, NoJobTyped DEF AuthzFails, Step, CaJobs, LatePcs, NoJob, Defer
  <2>2. UNCHANGED <<disk, served, cert>> /\ excuse'.torn = excuse.torn /\ excuse'.row = excuse.row
    BY <1>13, <1>0 DEF AuthzFails, CaExcuses
  <2>3. QED
    BY <1>a, <2>1, <2>2
<1>14. ASSUME NEW r \in Runners, Finalize(r) PROVE CaSafe'
  <2>1. /\ \A q \in Runners \ {r} : job'[q] = job[q]
        /\ job[r].pc \notin LatePcs /\ job'[r].pc \notin LatePcs
    BY <1>14, <1>0, NoJobTyped DEF Finalize, Step, CaJobs, LatePcs, NoJob
  <2>2. UNCHANGED <<disk, served, cert>> /\ excuse'.torn = excuse.torn /\ excuse'.row = excuse.row
    BY <1>14, <1>0 DEF Finalize, CaExcuses
  <2>3. QED
    BY <1>a, <2>1, <2>2
<1>15. ASSUME NEW r \in Runners, FinalizeFails(r) PROVE CaSafe'
  <2>1. /\ \A q \in Runners \ {r} : job'[q] = job[q]
        /\ job[r].pc \notin LatePcs /\ job'[r].pc \notin LatePcs
    BY <1>15, <1>0, NoJobTyped DEF FinalizeFails, Step, CaJobs, LatePcs, NoJob, Defer
  <2>2. UNCHANGED <<disk, served, cert>> /\ excuse'.torn = excuse.torn /\ excuse'.row = excuse.row
    BY <1>15, <1>0 DEF FinalizeFails, CaExcuses
  <2>3. QED
    BY <1>a, <2>1, <2>2
<1>16. ASSUME NEW r \in Runners, WriteCert(r) PROVE CaSafe'
  <2> DEFINE meets == Others(r) \cap Writing
  <2>1. /\ job' = [q \in Runners |-> IF q = r THEN [job[r] EXCEPT !.pc = "key", !.crossed = @ \/ meets # {}]
                                     ELSE IF q \in meets THEN [job[q] EXCEPT !.crossed = TRUE] ELSE job[q]]
        /\ disk' = [disk EXCEPT !.cert = job[r].id] /\ UNCHANGED <<served, cert, excuse>>
    BY <1>16 DEF WriteCert
  <2>2. /\ \A q \in Others(r) : Late(q) => q \in meets
        /\ \A q \in meets : q \in Others(r)
    BY DEF Late, Writing, Others
  <2> HIDE DEF meets
  <2>3. /\ job'[r].pc = "key" /\ job'[r].id = job[r].id
        /\ job'[r].crossed = FALSE => meets = {}
    BY <1>0, <2>1 DEF CaJobs
  <2>4. \A q \in Others(r) : /\ job'[q].pc = job[q].pc
                             /\ q \in meets => job'[q].crossed = TRUE
    BY <1>0, <2>1 DEF CaJobs, Others
  <2>5. disk'.cert = job[r].id
    BY <1>0, <2>1
  <2>6. ASSUME NEW q \in Runners, Late(q)', job'[q].crossed = FALSE PROVE Alone(q)'
    <3>1. CASE q = r
      <4>1. \A p \in Others(r) : ~ Late(p)'
        BY <2>2, <2>3, <2>4, <2>6, <3>1 DEF Late
      <4>2. QED
        BY <2>3, <2>5, <3>1, <4>1 DEF Alone, Others
    <3>2. CASE q # r
      BY <2>2, <2>4, <2>6, <3>2 DEF Late, Others
    <3>3. QED
      BY <3>1, <3>2
  <2>7. QED
    BY <2>3, <2>6 DEF CaSafe, Late
<1>17. ASSUME NEW r \in Runners, WriteKey(r) PROVE CaSafe'
  <2>1. Step(r, [job[r] EXCEPT !.pc = "store"]) /\ job[r].pc = "key"
    BY <1>17 DEF WriteKey
  <2>2. /\ \A q \in Runners \ {r} : job'[q] = job[q]
        /\ job'[r].pc = "store" /\ job'[r].id = job[r].id /\ job'[r].crossed = job[r].crossed
    BY <1>0, <2>1, Stepped DEF CaJobs
  <2>3. /\ disk'.key = job[r].id /\ disk'.cert = disk.cert /\ excuse'.torn = job[r].crossed
        /\ UNCHANGED <<cert, served>>
    BY <1>17, <1>0 DEF WriteKey, CaExcuses
  <2>4. \A q \in Runners : (Late(q)' <=> Late(q)) /\ job'[q].crossed = job[q].crossed /\ job'[q].id = job[q].id
    BY <2>1, <2>2 DEF Late
  <2>5. \A q \in Runners : Late(q)' /\ job'[q].crossed = FALSE => Alone(q)'
    BY <2>3, <2>4 DEF CaSafe, Alone, Others
  <2>6. job[r].crossed = FALSE => disk'.cert = disk'.key
    BY <2>1, <2>3 DEF CaSafe, Late, Alone
  <2>7. QED
    BY <2>2, <2>3, <2>5, <2>6 DEF CaSafe, Late
<1>18. ASSUME NEW r \in Runners, WriteFails(r) PROVE CaSafe'
  <2>1. /\ \A q \in Runners \ {r} : job'[q] = job[q]
        /\ job'[r].pc = "idle" /\ UNCHANGED <<disk, served, cert>>
    BY <1>18, <1>0 DEF WriteFails, Step, NoJob, Defer
  <2>2. CASE job[r].pc = "key"
    <3>1. excuse'.torn = TRUE
      BY <1>18, <1>0, <2>2 DEF WriteFails, CaExcuses
    <3>2. \A q \in Runners : Late(q)' => Late(q) /\ job'[q] = job[q]
      BY <2>1 DEF Late
    <3>3. QED
      BY <2>1, <3>1, <3>2 DEF CaSafe, Alone, Others
  <2>3. CASE job[r].pc = "cert"
    <3>1. excuse'.torn = excuse.torn /\ excuse'.row = excuse.row
      BY <1>18, <1>0, <2>3 DEF WriteFails, CaExcuses
    <3>2. QED
      BY <1>a, <2>1, <2>3, <3>1 DEF LatePcs
  <2>4. QED
    BY <1>18, <2>2, <2>3 DEF WriteFails
<1>19. ASSUME NEW r \in Runners, StoreCert(r) PROVE CaSafe'
  <2>1. Step(r, [job[r] EXCEPT !.pc = "issued"]) /\ job[r].pc = "store"
    BY <1>19 DEF StoreCert
  <2>2. /\ \A q \in Runners \ {r} : job'[q] = job[q]
        /\ job'[r].pc = "issued" /\ job'[r].id = job[r].id /\ job'[r].crossed = job[r].crossed
    BY <1>0, <2>1, Stepped DEF CaJobs
  <2>3. cert'.id = job[r].id /\ excuse'.torn = excuse.torn /\ excuse'.row = job[r].crossed /\ UNCHANGED <<disk, served>>
    BY <1>19, <1>0 DEF StoreCert, CaExcuses
  <2>4. \A q \in Runners : (Late(q)' <=> Late(q)) /\ job'[q].crossed = job[q].crossed /\ job'[q].id = job[q].id
    BY <2>1, <2>2 DEF Late
  <2>5. \A q \in Runners : Late(q)' /\ job'[q].crossed = FALSE => Alone(q)'
    BY <2>3, <2>4 DEF CaSafe, Alone, Others
  <2>6. job[r].crossed = FALSE => cert'.id = disk.cert
    BY <2>1, <2>3 DEF CaSafe, Late, Alone
  <2>7. \A q \in Runners : job[q].pc = "key" => job'[q].pc = "key"
    BY <2>1, <2>2
  <2>8. QED
    BY <2>3, <2>4, <2>5, <2>6, <2>7 DEF CaSafe
<1>20. ASSUME NEW r \in Runners, MarkIssued(r) PROVE CaSafe'
  <2>1. Step(r, [job[r] EXCEPT !.pc = "reload"]) /\ job[r].pc = "issued" /\ UNCHANGED <<disk, served, cert, excuse>>
    BY <1>20 DEF MarkIssued
  <2>2. /\ \A q \in Runners \ {r} : job'[q] = job[q]
        /\ job'[r].pc = "reload" /\ job'[r].id = job[r].id /\ job'[r].crossed = job[r].crossed
    BY <1>0, <2>1, Stepped DEF CaJobs
  <2>4. \A q \in Runners : (Late(q)' <=> Late(q)) /\ job'[q].crossed = job[q].crossed /\ job'[q].id = job[q].id
    BY <2>1, <2>2 DEF Late
  <2>5. \A q \in Runners : Late(q)' /\ job'[q].crossed = FALSE => Alone(q)'
    BY <2>1, <2>4 DEF CaSafe, Alone, Others
  <2>6. \A q \in Runners : job[q].pc \in {"key", "store"} => job'[q].pc = job[q].pc
    BY <2>1, <2>2
  <2>7. QED
    BY <2>1, <2>4, <2>5, <2>6 DEF CaSafe
<1>21. ASSUME NEW r \in Runners, ReloadListeners(r) PROVE CaSafe'
  <2>1. /\ \A q \in Runners \ {r} : job'[q] = job[q]
        /\ job'[r].pc = "idle" /\ UNCHANGED <<disk, cert, excuse>> /\ served' = Loaded /\ job[r].pc = "reload"
    BY <1>21, <1>0 DEF ReloadListeners, Step, NoJob
  <2>2. \A q \in Runners : Late(q)' => Late(q) /\ job'[q] = job[q]
    BY <2>1 DEF Late
  <2>3. \A q \in Runners : job[q].pc \in {"key", "store"} => job'[q] = job[q]
    BY <2>1
  <2>4. \A q \in Runners : Late(q)' /\ job'[q].crossed = FALSE => Alone(q)'
    BY <2>1, <2>2 DEF CaSafe, Alone, Others
  <2>5. excuse.torn = FALSE => disk.cert = disk.key \/ \E q \in Runners : job[q].pc = "key" /\ Late(q)'
    BY <2>3 DEF CaSafe, Late
  <2>6. QED
    BY <2>1, <2>3, <2>4, <2>5 DEF CaSafe, Loaded
<1>22. CASE PostAcmeReload
  <2>1. UNCHANGED <<disk, cert, excuse, job>> /\ served' = Loaded
    BY <1>22 DEF PostAcmeReload
  <2>2. QED
    BY <2>1 DEF CaSafe, Late, Alone, Loaded
<1>23. CASE AcmeCrash
  <2>1. /\ \A q \in Runners : job'[q].pc = "idle"
        /\ UNCHANGED <<disk, cert>> /\ served' = IF disk.cert = disk.key THEN disk.cert ELSE 0
    BY <1>23 DEF AcmeCrash, NoJob
  <2>2. /\ excuse'.torn = FALSE => excuse.torn = FALSE /\ \A q \in Runners : job[q].pc # "key"
        /\ excuse'.row = FALSE => excuse.row = FALSE /\ \A q \in Runners : job[q].pc \notin {"key", "store"}
    <3>1. excuse' = [excuse EXCEPT !.torn = @ \/ \E q \in Runners : job[q].pc = "key",
                                   !.row = @ \/ \E q \in Runners : job[q].pc \in {"key", "store"},
                                   !.token = @ \/ challenges # {}]
      BY <1>23 DEF AcmeCrash
    <3>2. QED
      BY <1>0, <3>1 DEF CaExcuses
  <2>3. QED
    BY <2>1, <2>2 DEF CaSafe, Late
<1>24. CASE UNCHANGED mvars
  BY <1>24, <1>b DEF mvars
<1>25. QED
  BY <1>1, <1>2, <1>3, <1>4, <1>5, <1>6, <1>7, <1>8, <1>9, <1>10, <1>11, <1>12, <1>13, <1>14,
     <1>15, <1>16, <1>17, <1>18, <1>19, <1>20, <1>21, <1>22, <1>23, <1>24 DEF AcmeNext

LEMMA CaTokensStep == CaTypes /\ CaTokensInv /\ [AcmeNext]_mvars => CaTokensInv'
<1> SUFFICES ASSUME CaTypes, CaTokensInv, [AcmeNext]_mvars PROVE CaTokensInv'
  OBVIOUS
<1>0. job \in [Runners -> CaJobs] /\ excuse \in CaExcuses /\ challenges \subseteq CaTokens
  BY DEF CaTypes
<1>a. ASSUME NEW r \in Runners, \A q \in Runners \ {r} : job'[q] = job[q], job[r].pc \notin AskPcs,
             UNCHANGED challenges, excuse'.token = excuse.token
      PROVE  CaTokensInv'
  <2>1. \A q \in Runners, t \in CaTokens : Asking(q, t) => Asking(q, t)'
    BY <1>a DEF Asking, AskPcs
  <2>2. QED
    BY <1>0, <1>a, <2>1 DEF CaTokensInv
<1>b. ASSUME UNCHANGED <<challenges, job, excuse>> PROVE CaTokensInv'
  BY <1>b DEF CaTokensInv, Asking
<1>1. CASE Order
  BY <1>1, <1>b DEF Order
<1>2. CASE Forget
  BY <1>2, <1>b DEF Forget
<1>3. CASE ForgetCert
  BY <1>3, <1>b DEF ForgetCert
<1>4. CASE WaitOver
  BY <1>4, <1>b DEF WaitOver
<1>5. CASE CertAges
  BY <1>5, <1>b DEF CertAges
<1>6. ASSUME NEW r \in Runners, NEW b \in BOOLEAN, RunOnce(r, b) PROVE CaTokensInv'
  <2>1. (\A q \in Runners \ {r} : job'[q] = job[q]) /\ job[r].pc \notin AskPcs
    BY <1>6, <1>0 DEF RunOnce, Step, AskPcs
  <2>2. challenges' = {} \/ (challenges' = challenges /\ (excuse'.token = FALSE => excuse.token = FALSE \/ challenges = {}))
    BY <1>6, <1>0 DEF RunOnce, CaExcuses
  <2>3. \A q \in Runners, t \in CaTokens : Asking(q, t) => Asking(q, t)'
    BY <2>1 DEF Asking, AskPcs
  <2>4. QED
    BY <1>0, <2>2, <2>3 DEF CaTokensInv
<1>7. ASSUME NEW r \in Runners, NEW b \in BOOLEAN, EnsureAccount(r, b) PROVE CaTokensInv'
  <2>1. /\ \A q \in Runners \ {r} : job'[q] = job[q]
        /\ job[r].pc \notin AskPcs /\ UNCHANGED challenges /\ excuse'.token = excuse.token
    BY <1>7, <1>0 DEF EnsureAccount, Step, AskPcs, CaExcuses, Defer
  <2>2. QED
    BY <1>a, <2>1
<1>8. ASSUME NEW r \in Runners, NEW b \in BOOLEAN, NewOrder(r, b) PROVE CaTokensInv'
  <2>1. /\ \A q \in Runners \ {r} : job'[q] = job[q]
        /\ job[r].pc \notin AskPcs /\ UNCHANGED challenges /\ excuse'.token = excuse.token
    BY <1>8, <1>0 DEF NewOrder, Step, AskPcs, CaExcuses, Defer
  <2>2. QED
    BY <1>a, <2>1
<1>9. ASSUME NEW r \in Runners, NEW b \in BOOLEAN, Answer(r, b) PROVE CaTokensInv'
  <2>1. CASE b = TRUE
    <3>1. Step(r, [job[r] EXCEPT !.pc = "poll"]) /\ UNCHANGED challenges /\ excuse'.token = excuse.token
      BY <1>9, <1>0, <2>1 DEF Answer, CaExcuses
    <3>2. \A q \in Runners, t \in CaTokens : Asking(q, t) => Asking(q, t)'
      BY <1>0, <3>1, Stepped DEF Asking, CaJobs
    <3>3. QED
      BY <1>0, <3>1, <3>2 DEF CaTokensInv
  <2>2. CASE b = FALSE
    <3>1. excuse'.token = TRUE
      BY <1>9, <1>0, <2>2 DEF Answer, CaExcuses
    <3>2. QED
      BY <3>1 DEF CaTokensInv
  <2>3. QED
    BY <2>1, <2>2
<1>10. ASSUME NEW r \in Runners, NEW b \in BOOLEAN, Poll(r, b) PROVE CaTokensInv'
  <2>1. PICK p \in {"valid", "invalid"} : Step(r, [job[r] EXCEPT !.pc = p])
    BY <1>10 DEF Poll
  <2>2. \A q \in Runners, t \in CaTokens : Asking(q, t) => Asking(q, t)'
    BY <1>0, <2>1, Stepped DEF Asking, CaJobs
  <2>3. QED
    BY <1>10, <1>0, <2>2 DEF Poll, CaTokensInv
<1>11. ASSUME NEW r \in Runners, NEW b \in BOOLEAN, NEW t \in CaTokens, Authz(r, b, t) PROVE CaTokensInv'
  <2>1. CASE b = TRUE
    BY <1>11, <1>0, <1>a, <2>1 DEF Authz, Step, AskPcs
  <2>2. CASE b = FALSE
    <3>1. /\ Step(r, [job[r] EXCEPT !.pc = "answer", !.tok = t]) /\ challenges' = challenges \cup {t} /\ UNCHANGED excuse
          /\ job[r].pc \notin AskPcs
      BY <1>11, <2>2 DEF Authz, AskPcs
    <3>2. (\A q \in Runners \ {r} : job'[q] = job[q]) /\ job'[r].pc = "answer" /\ job'[r].tok = t
      <4>1. t \in CaTokens \cup {0} /\ "answer" \in RunPcs /\ job[r] \in CaJobs
        BY <1>0 DEF RunPcs
      <4>2. job'[r] = [job[r] EXCEPT !.pc = "answer", !.tok = t] /\ \A q \in Runners \ {r} : job'[q] = job[q]
        BY <1>0, <3>1, Stepped
      <4> DEFINE j == job[r]
                 k == job'[r]
      <4>3. j \in CaJobs /\ k = [j EXCEPT !.pc = "answer", !.tok = t]
        BY <4>1, <4>2
      <4> HIDE DEF j, k
      <4>4. k.pc = "answer" /\ k.tok = t
        BY <4>3 DEF CaJobs
      <4>5. QED
        BY <4>2, <4>4 DEF k
    <3>3. \A q \in Runners, u \in CaTokens : Asking(q, u) => Asking(q, u)'
      BY <3>1, <3>2 DEF Asking, AskPcs
    <3>4. Asking(r, t)'
      BY <3>2 DEF Asking
    <3>5. QED
      BY <1>0, <3>1, <3>3, <3>4 DEF CaTokensInv
  <2>3. QED
    BY <2>1, <2>2
<1>12. ASSUME NEW r \in Runners, NEW next \in {"authz", "finalize"}, Polled(r, next) PROVE CaTokensInv'
  <2>1. (\A q \in Runners \ {r} : job'[q] = job[q]) /\ challenges' = challenges \ {job[r].tok} /\ UNCHANGED excuse
    BY <1>12, <1>0 DEF Polled, Step, Defer
  <2>2. ASSUME NEW t \in challenges', excuse.token = FALSE PROVE \E q \in Runners : Asking(q, t)'
    <3>1. PICK q \in Runners : Asking(q, t)
      BY <2>1, <2>2 DEF CaTokensInv
    <3>2. q # r
      BY <2>1, <2>2, <3>1 DEF Asking
    <3>3. QED
      BY <2>1, <3>1, <3>2 DEF Asking
  <2>3. QED
    BY <2>1, <2>2 DEF CaTokensInv
<1>13. ASSUME NEW r \in Runners, AuthzFails(r) PROVE CaTokensInv'
  <2>1. /\ \A q \in Runners \ {r} : job'[q] = job[q]
        /\ job[r].pc \notin AskPcs /\ UNCHANGED challenges /\ excuse'.token = excuse.token
    BY <1>13, <1>0 DEF AuthzFails, Step, AskPcs, CaExcuses, Defer
  <2>2. QED
    BY <1>a, <2>1
<1>14. ASSUME NEW r \in Runners, Finalize(r) PROVE CaTokensInv'
  <2>1. /\ \A q \in Runners \ {r} : job'[q] = job[q]
        /\ job[r].pc \notin AskPcs /\ UNCHANGED challenges /\ excuse'.token = excuse.token
    BY <1>14, <1>0 DEF Finalize, Step, AskPcs, CaExcuses, Defer
  <2>2. QED
    BY <1>a, <2>1
<1>15. ASSUME NEW r \in Runners, FinalizeFails(r) PROVE CaTokensInv'
  <2>1. /\ \A q \in Runners \ {r} : job'[q] = job[q]
        /\ job[r].pc \notin AskPcs /\ UNCHANGED challenges /\ excuse'.token = excuse.token
    BY <1>15, <1>0 DEF FinalizeFails, Step, AskPcs, CaExcuses, Defer
  <2>2. QED
    BY <1>a, <2>1
<1>16. ASSUME NEW r \in Runners, WriteCert(r) PROVE CaTokensInv'
  <2>1. \A q \in Runners : Asking(q, 0) \/ job[q].pc \in AskPcs => q # r
    BY <1>16 DEF WriteCert, Asking, AskPcs
  <2>2. \A q \in Runners : job[q].pc \in AskPcs => job'[q] = job[q]
    BY <1>16, <2>1 DEF WriteCert, Writing, AskPcs
  <2>3. \A q \in Runners, t \in CaTokens : Asking(q, t) => Asking(q, t)'
    BY <2>2 DEF Asking, AskPcs
  <2>4. QED
    BY <1>16, <1>0, <2>3 DEF WriteCert, CaTokensInv
<1>17. ASSUME NEW r \in Runners, WriteKey(r) PROVE CaTokensInv'
  <2>1. /\ \A q \in Runners \ {r} : job'[q] = job[q]
        /\ job[r].pc \notin AskPcs /\ UNCHANGED challenges /\ excuse'.token = excuse.token
    BY <1>17, <1>0 DEF WriteKey, Step, AskPcs, CaExcuses, Defer
  <2>2. QED
    BY <1>a, <2>1
<1>18. ASSUME NEW r \in Runners, WriteFails(r) PROVE CaTokensInv'
  <2>1. /\ \A q \in Runners \ {r} : job'[q] = job[q]
        /\ job[r].pc \notin AskPcs /\ UNCHANGED challenges /\ excuse'.token = excuse.token
    BY <1>18, <1>0 DEF WriteFails, Step, AskPcs, CaExcuses, Defer
  <2>2. QED
    BY <1>a, <2>1
<1>19. ASSUME NEW r \in Runners, StoreCert(r) PROVE CaTokensInv'
  <2>1. /\ \A q \in Runners \ {r} : job'[q] = job[q]
        /\ job[r].pc \notin AskPcs /\ UNCHANGED challenges /\ excuse'.token = excuse.token
    BY <1>19, <1>0 DEF StoreCert, Step, AskPcs, CaExcuses, Defer
  <2>2. QED
    BY <1>a, <2>1
<1>20. ASSUME NEW r \in Runners, MarkIssued(r) PROVE CaTokensInv'
  <2>1. /\ \A q \in Runners \ {r} : job'[q] = job[q]
        /\ job[r].pc \notin AskPcs /\ UNCHANGED challenges /\ excuse'.token = excuse.token
    BY <1>20, <1>0 DEF MarkIssued, Step, AskPcs, CaExcuses, Defer
  <2>2. QED
    BY <1>a, <2>1
<1>21. ASSUME NEW r \in Runners, ReloadListeners(r) PROVE CaTokensInv'
  <2>1. /\ \A q \in Runners \ {r} : job'[q] = job[q]
        /\ job[r].pc \notin AskPcs /\ UNCHANGED challenges /\ excuse'.token = excuse.token
    BY <1>21, <1>0 DEF ReloadListeners, Step, AskPcs, CaExcuses, Defer
  <2>2. QED
    BY <1>a, <2>1
<1>22. CASE PostAcmeReload
  BY <1>22, <1>b DEF PostAcmeReload
<1>23. CASE AcmeCrash
  <2>1. excuse'.token = FALSE => challenges = {}
    <3>1. excuse' = [excuse EXCEPT !.torn = @ \/ \E q \in Runners : job[q].pc = "key",
                                   !.row = @ \/ \E q \in Runners : job[q].pc \in {"key", "store"},
                                   !.token = @ \/ challenges # {}]
      BY <1>23 DEF AcmeCrash
    <3>2. QED
      BY <1>0, <3>1 DEF CaExcuses
  <2>2. QED
    BY <1>23, <2>1 DEF AcmeCrash, CaTokensInv
<1>24. CASE UNCHANGED mvars
  BY <1>24, <1>b DEF mvars
<1>25. QED
  BY <1>1, <1>2, <1>3, <1>4, <1>5, <1>6, <1>7, <1>8, <1>9, <1>10, <1>11, <1>12, <1>13, <1>14,
     <1>15, <1>16, <1>17, <1>18, <1>19, <1>20, <1>21, <1>22, <1>23, <1>24 DEF AcmeNext

LEMMA CaInitial == AcmeInit => CaInv
<1> SUFFICES ASSUME AcmeInit PROVE CaInv
  OBVIOUS
<1>1. CaTypes
  BY AcmeBounds, NoJobTyped DEF AcmeInit, CaTypes, CaOrders, CaCerts, CaExcuses, NoOrder, NoCert
<1>2. CaSafe
  BY NoJobTyped DEF AcmeInit, CaSafe, Late, NoCert
<1>3. CaTokensInv
  BY DEF AcmeInit, CaTokensInv
<1>4. QED
  BY <1>1, <1>2, <1>3 DEF CaInv

LEMMA CaInvStep == CaInv /\ [AcmeNext]_mvars => CaInv'
BY CaTypesStep, CaSafeStep, CaTokensStep DEF CaInv

LEMMA CaInvAlways == AcmeSpec => []CaInv
BY CaInitial, CaInvStep, PTL DEF AcmeSpec

LEMMA CaTyped == CaInv => AcmeTypeOK
<1> SUFFICES ASSUME CaInv PROVE AcmeTypeOK
  OBVIOUS
<1>0. CaTypes
  BY DEF CaInv
<1>1. order.status \in {"none", "queued", "pending", "deferred", "issued"}
  BY <1>0 DEF CaTypes, CaOrders
<1>2. cert.id \in 0..issued /\ {disk.cert, disk.key, served} \subseteq 0..issued
  BY <1>0, AcmeBounds DEF CaTypes, CaCerts
<1>3. \A r \in Runners : job[r].pc \in RunPcs
  BY <1>0 DEF CaTypes, CaJobs
<1>4. QED
  BY <1>0, <1>1, <1>2, <1>3 DEF CaTypes, RunPcs, AcmeTypeOK

(* Every register of the managed certificate keeps its type, and no file,   *)
(* row or listener names a certificate that was not issued.                 *)
THEOREM AcmeTypeCorrect == AcmeSpec => []AcmeTypeOK
BY CaTyped, CaInvAlways, PTL

(* The certificate in service is whole and described by its row, and no     *)
(* challenge token is left behind, for any number of concurrent runs of the *)
(* client, refusals of the authority and deaths of the process, apart from  *)
(* what a crossing, a failure half way or a death is seen to leave.         *)
THEOREM CertificateIsAlwaysSound == AcmeSpec => []CertificateIsSound
<1>1. CaInv => CertificateIsSound
  <2> SUFFICES ASSUME CaInv PROVE CertificateIsSound
    OBVIOUS
  <2>0. /\ excuse.torn \in BOOLEAN /\ excuse.row \in BOOLEAN /\ excuse.token \in BOOLEAN /\ cert.on \in BOOLEAN
        /\ CaSafe /\ CaTokensInv
    BY DEF CaInv, CaTypes, CaExcuses, CaCerts
  <2>1. FilesArePaired
    BY <2>0 DEF CaSafe, FilesArePaired, Writing
  <2>2. ServedIsOnDisk
    BY <2>0 DEF CaSafe, ServedIsOnDisk, AllIdle, Late
  <2>3. TokensGo
    BY <2>0 DEF CaTokensInv, TokensGo, AllIdle, Asking
  <2>4. QED
    BY <2>1, <2>2, <2>3 DEF CertificateIsSound
<1>2. QED
  BY <1>1, CaInvAlways, PTL

-----------------------------------------------------------------------------
(* Wiki *)

EdPcs == {"idle", "walk", "record", "history", "findHist", "insertHist", "unlinkHist", "insert", "unlink", "unlinkComp"}
WkRevs == [rev : Nat, from : Texts \cup {0}, to : Texts \cup {0}]
WkMsgs == [st : {"none", "page", "hist", "gone"}, text : Texts \cup {0}, revs : Seq(WkRevs)]
EdJobs == [pc : EdPcs, text : Texts \cup {0}, old : Nat, hold : Nat, rev : Nat, revs : Seq(WkRevs)]
WkPasts == [rev : Nat, text : Texts]

RevsBelow(revs, n) == \A i \in 1..Len(revs) : revs[i].rev \in 1..n

WkTypes ==
    /\ wmsg \in [WikiNums -> WkMsgs] /\ wnext \in 0..MaxWikiMsg
    /\ ed \in [Editors -> EdJobs] /\ past \in Seq(WkPasts) /\ marred \in BOOLEAN

EdBounds(j) ==
    /\ j.old <= wnext /\ j.hold <= wnext /\ RevsBelow(j.revs, wnext)
    /\ j.pc \in {"record", "history", "findHist", "insertHist", "unlinkHist", "insert", "unlink"} => j.text \in Texts
    /\ j.pc = "unlinkHist" => j.hold > 0
    /\ j.pc = "unlink" => j.old > 0

(* What is there has a number that was taken, and a history names earlier   *)
(* messages only.                                                           *)
WkBounds ==
    /\ \A n \in WikiNums : (n > wnext => wmsg[n].st = "none") /\ RevsBelow(wmsg[n].revs, n - 1)
    /\ \A e \in Editors : EdBounds(ed[e])
    /\ \A i \in 1..Len(past) : past[i].rev \in 1..wnext

-----------------------------------------------------------------------------
(* The history of a page whose past is `past': one patch for every earlier  *)
(* version, each from the text of the one after it.                         *)
Tells(revs) ==
    /\ Len(revs) + 1 = Len(past)
    /\ \A i \in 1..Len(revs) : /\ revs[i].rev = past[i + 1].rev /\ revs[i].to = past[i + 1].text
                               /\ revs[i].from = past[i].text
(* The same for a page that is about to get the text t. *)
TellsAhead(revs, t) ==
    /\ Len(revs) = Len(past)
    /\ \A i \in 1..Len(revs) : /\ revs[i].rev = past[i].rev /\ revs[i].to = past[i].text
                               /\ revs[i].from = IF i = 1 THEN t ELSE past[i - 1].text

OnlyOne(st) == \A m, n \in WikiNums : wmsg[m].st = st /\ wmsg[n].st = st => m = n
NoneOf(st) == \A n \in WikiNums : wmsg[n].st # st
(* Message p is the page, newest of its past. *)
Newest(p) == p \in WikiNums /\ wmsg[p].st = "page" /\ Len(past) > 0 /\ past[1] = [rev |-> p, text |-> wmsg[p].text]

(* Page and history agree, with one message each, or there is neither. *)
Whole ==
    /\ OnlyOne("page") /\ OnlyOne("hist")
    /\ \/ past = <<>> /\ NoneOf("page") /\ NoneOf("hist")
       \/ Newest(PageNow) /\ Tells(HistoryOf(HistNow))

(* What an unmarred save, restore or removal has made of it so far. *)
UnderWay(j) ==
    /\ j.pc \in {"idle", "walk", "record", "history", "findHist", "insertHist"} => Whole
    /\ j.pc \in {"record", "history", "findHist", "insertHist"} => j.old = PageNow /\ PageNow > 0
    /\ j.pc = "history" => j.revs = <<Patch(wmsg[PageNow].text, j.text, PageNow)>>
    /\ j.pc \in {"findHist", "insertHist", "unlinkHist"} =>
          TellsAhead(IF j.pc = "unlinkHist" THEN HistoryOf(HistNow) ELSE j.revs, j.text)
    /\ j.pc = "insertHist" => j.hold = HistNow
    /\ j.pc = "unlinkHist" =>
          /\ j.hold < HistNow /\ OnlyOne("page") /\ Newest(PageNow) /\ j.old = PageNow
          /\ \A n \in WikiNums : wmsg[n].st = "hist" <=> n \in {j.hold, HistNow}
    /\ j.pc = "insert" =>
          \/ j.old = 0 /\ Whole /\ PageNow = 0
          \/ /\ j.old > 0 /\ OnlyOne("page") /\ Newest(PageNow) /\ j.old = PageNow
             /\ OnlyOne("hist") /\ TellsAhead(HistoryOf(HistNow), j.text)
    /\ j.pc = "unlink" =>
          /\ Newest(PageNow) /\ OnlyOne("hist") /\ Tells(HistoryOf(HistNow)) /\ j.old < PageNow
          /\ \A n \in WikiNums : wmsg[n].st = "page" <=> n \in {j.old, PageNow}
    /\ j.pc = "unlinkComp" => NoneOf("page") /\ OnlyOne("hist")

WkWhole ==
    marred = FALSE =>
        /\ \A e, f \in Editors : ed[e].pc # "idle" /\ ed[f].pc # "idle" => e = f
        /\ \A e \in Editors : ed[e].pc # "idle" => UnderWay(ed[e])
        /\ (\A e \in Editors : ed[e].pc = "idle") => Whole
        /\ \A i, k \in 1..Len(past) : i < k => past[i].rev > past[k].rev

WkInv == WkTypes /\ WkBounds /\ WkWhole

MkEd(p, t, o, h, v, s) == [pc |-> p, text |-> t, old |-> o, hold |-> h, rev |-> v, revs |-> s]

LEMMA MkEdTyped ==
    ASSUME NEW p \in EdPcs, NEW t \in Texts \cup {0}, NEW o \in Nat, NEW h \in Nat, NEW v \in Nat, NEW s \in Seq(WkRevs)
    PROVE  MkEd(p, t, o, h, v, s) \in EdJobs
BY DEF MkEd, EdJobs

LEMMA EdIdleMade == EdIdle = MkEd("idle", 0, 0, 0, 0, <<>>) /\ EdIdle \in EdJobs /\ EdIdle.pc = "idle"
<1>1. <<>> \in Seq(WkRevs) /\ "idle" \in EdPcs
  BY DEF EdPcs
<1>2. QED
  BY <1>1 DEF EdIdle, MkEd, EdJobs

LEMMA EdSet ==
    ASSUME NEW e \in Editors, NEW j, WDo(e, j), ed \in [Editors -> EdJobs]
    PROVE  ed'[e] = j /\ (\A f \in Editors \ {e} : ed'[f] = ed[f]) /\ (j \in EdJobs => ed' \in [Editors -> EdJobs])
BY DEF WDo

(* FindByEuid finds the newest message of its kind, and 0 if there is none. *)
NewestFound ==
    \A st : /\ FindNewest(st) \in 0..MaxWikiMsg
            /\ FindNewest(st) = 0 => \A n \in WikiNums : wmsg[n].st # st
            /\ FindNewest(st) > 0 => /\ FindNewest(st) \in WikiNums /\ wmsg[FindNewest(st)].st = st
                                     /\ \A n \in WikiNums : wmsg[n].st = st => n <= FindNewest(st)

LEMMA FoundNewest == NewestFound
<1> SUFFICES ASSUME NEW st
             PROVE  /\ FindNewest(st) \in 0..MaxWikiMsg
                    /\ FindNewest(st) = 0 => \A n \in WikiNums : wmsg[n].st # st
                    /\ FindNewest(st) > 0 => /\ FindNewest(st) \in WikiNums /\ wmsg[FindNewest(st)].st = st
                                             /\ \A n \in WikiNums : wmsg[n].st = st => n <= FindNewest(st)
  BY DEF NewestFound
<1> DEFINE ns == {n \in WikiNums : wmsg[n].st = st}
<1>1. CASE ns = {}
  BY <1>1, WikiBounds DEF FindNewest
<1>2. CASE ns # {}
  <2>1. ns \subseteq 0..MaxWikiMsg /\ ns \subseteq WikiNums
    BY WikiBounds DEF WikiNums
  <2>2. FindNewest(st) = Max(ns)
    BY <1>2 DEF FindNewest
  <2>3. Max(ns) \in ns /\ \A n \in ns : n <= Max(ns)
    BY <1>2, <2>1, MaxIsGreatest, WikiBounds
  <2>4. QED
    BY <2>1, <2>2, <2>3, WikiBounds DEF WikiNums
<1>3. QED
  BY <1>1, <1>2

LEMMA FoundNewestNext == NewestFound'
BY FoundNewest, PTL

LEMMA SameNewest ==
    ASSUME NEW st, \A n \in WikiNums : wmsg'[n].st = st <=> wmsg[n].st = st
    PROVE  FindNewest(st)' = FindNewest(st)
<1>1. {n \in WikiNums : wmsg[n].st = st} = {n \in WikiNums : wmsg'[n].st = st}
  OBVIOUS
<1>2. QED
  BY <1>1 DEF FindNewest

LEMMA AddedNewest ==
    ASSUME NEW st, NEW k \in WikiNums, wmsg'[k].st = st, \A n \in WikiNums : wmsg'[n].st = st => n <= k
    PROVE  FindNewest(st)' = k
<1>1. /\ FindNewest(st)' \in 0..MaxWikiMsg
      /\ FindNewest(st)' = 0 => \A n \in WikiNums : wmsg'[n].st # st
      /\ FindNewest(st)' > 0 => /\ FindNewest(st)' \in WikiNums /\ wmsg'[FindNewest(st)'].st = st
                                /\ \A n \in WikiNums : wmsg'[n].st = st => n <= FindNewest(st)'
  BY FoundNewestNext DEF NewestFound
<1>2. QED
  BY <1>1, WikiBounds DEF WikiNums

LEMMA NowTyped ==
    ASSUME WkTypes, WkBounds
    PROVE  /\ PageNow \in Nat /\ PageNow <= wnext /\ HistNow \in Nat /\ HistNow <= wnext
           /\ PageNow > 0 => PageNow \in WikiNums /\ wmsg[PageNow].st = "page" /\ wmsg[PageNow].text \in Texts \cup {0}
           /\ HistNow > 0 => HistNow \in WikiNums /\ wmsg[HistNow].st = "hist"
           /\ HistoryOf(HistNow) \in Seq(WkRevs) /\ RevsBelow(HistoryOf(HistNow), wnext)
<1>1. \A st : /\ FindNewest(st) \in 0..MaxWikiMsg
              /\ FindNewest(st) > 0 => FindNewest(st) \in WikiNums /\ wmsg[FindNewest(st)].st = st
  BY FoundNewest DEF NewestFound
<1>2. \A st : st # "none" => FindNewest(st) \in Nat /\ FindNewest(st) <= wnext
  BY <1>1, WikiBounds DEF WkBounds, WkTypes
<1>3. PageNow \in Nat /\ PageNow <= wnext /\ HistNow \in Nat /\ HistNow <= wnext
  BY <1>2 DEF PageNow, HistNow
<1>4. /\ PageNow > 0 => PageNow \in WikiNums /\ wmsg[PageNow].st = "page"
      /\ HistNow > 0 => HistNow \in WikiNums /\ wmsg[HistNow].st = "hist"
  BY <1>1 DEF PageNow, HistNow
<1>5. \A n \in WikiNums : wmsg[n].text \in Texts \cup {0} /\ wmsg[n].revs \in Seq(WkRevs) /\ RevsBelow(wmsg[n].revs, n - 1)
  BY DEF WkTypes, WkMsgs, WkBounds
<1>6. HistoryOf(HistNow) \in Seq(WkRevs)
  BY <1>3, <1>4, <1>5 DEF HistoryOf
<1>7. RevsBelow(HistoryOf(HistNow), wnext)
  <2>1. CASE HistNow = 0
    BY <2>1 DEF HistoryOf, RevsBelow
  <2>2. CASE HistNow > 0
    BY <1>3, <1>4, <1>5, <2>2 DEF HistoryOf, RevsBelow, WkTypes
  <2>3. QED
    BY <1>3, <2>1, <2>2
<1>8. QED
  BY <1>3, <1>4, <1>5, <1>6, <1>7

LEMMA EdPc ==
    ASSUME NEW j \in EdJobs, NEW p
    PROVE  [j EXCEPT !.pc = p] = MkEd(p, j.text, j.old, j.hold, j.rev, j.revs)
BY DEF EdJobs, MkEd

LEMMA EdPcRevs ==
    ASSUME NEW j \in EdJobs, NEW p, NEW s
    PROVE  [j EXCEPT !.pc = p, !.revs = s] = MkEd(p, j.text, j.old, j.hold, j.rev, s)
<1>1. [MkEd(p, j.text, j.old, j.hold, j.rev, j.revs) EXCEPT !.revs = s] = MkEd(p, j.text, j.old, j.hold, j.rev, s)
  BY DEF MkEd
<1>2. [[j EXCEPT !.pc = p] EXCEPT !.revs = s] = MkEd(p, j.text, j.old, j.hold, j.rev, s)
  BY <1>1, EdPc, Zenon
<1>3. [j EXCEPT !.pc = p, !.revs = s] = [[j EXCEPT !.pc = p] EXCEPT !.revs = s]
  OBVIOUS
<1>4. QED
  BY <1>2, <1>3, Zenon

LEMMA EdPcHold ==
    ASSUME NEW j \in EdJobs, NEW p, NEW h
    PROVE  [j EXCEPT !.pc = p, !.hold = h] = MkEd(p, j.text, j.old, h, j.rev, j.revs)
<1>1. [MkEd(p, j.text, j.old, j.hold, j.rev, j.revs) EXCEPT !.hold = h] = MkEd(p, j.text, j.old, h, j.rev, j.revs)
  BY DEF MkEd
<1>2. [[j EXCEPT !.pc = p] EXCEPT !.hold = h] = MkEd(p, j.text, j.old, h, j.rev, j.revs)
  BY <1>1, EdPc, Zenon
<1>3. [j EXCEPT !.pc = p, !.hold = h] = [[j EXCEPT !.pc = p] EXCEPT !.hold = h]
  OBVIOUS
<1>4. QED
  BY <1>2, <1>3, Zenon

LEMMA EdIdlePc ==
    ASSUME NEW p
    PROVE  [EdIdle EXCEPT !.pc = p] = MkEd(p, 0, 0, 0, 0, <<>>)
BY DEF EdIdle, MkEd

LEMMA EdIdleText ==
    ASSUME NEW p, NEW t, NEW o
    PROVE  [EdIdle EXCEPT !.pc = p, !.text = t, !.old = o] = MkEd(p, t, o, 0, 0, <<>>)
<1> DEFINE a == [EdIdle EXCEPT !.pc = p]
           b == [a EXCEPT !.text = t]
           c == [b EXCEPT !.old = o]
<1>1. a = MkEd(p, 0, 0, 0, 0, <<>>)
  BY EdIdlePc
<1>2. [MkEd(p, 0, 0, 0, 0, <<>>) EXCEPT !.text = t] = MkEd(p, t, 0, 0, 0, <<>>)
  BY DEF MkEd
<1>3. b = MkEd(p, t, 0, 0, 0, <<>>)
  BY <1>1, <1>2, Zenon
<1>4. [MkEd(p, t, 0, 0, 0, <<>>) EXCEPT !.old = o] = MkEd(p, t, o, 0, 0, <<>>)
  BY DEF MkEd
<1>5. c = MkEd(p, t, o, 0, 0, <<>>)
  BY <1>3, <1>4, Zenon
<1>6. [EdIdle EXCEPT !.pc = p, !.text = t, !.old = o] = c
  OBVIOUS
<1>7. QED
  BY <1>5, <1>6, Zenon

LEMMA EdIdleTextRev ==
    ASSUME NEW p, NEW t, NEW o, NEW v
    PROVE  [EdIdle EXCEPT !.pc = p, !.text = t, !.old = o, !.rev = v] = MkEd(p, t, o, 0, v, <<>>)
<1> DEFINE c == [EdIdle EXCEPT !.pc = p, !.text = t, !.old = o]
           d == [c EXCEPT !.rev = v]
<1>1. c = MkEd(p, t, o, 0, 0, <<>>)
  BY EdIdleText
<1>2. [MkEd(p, t, o, 0, 0, <<>>) EXCEPT !.rev = v] = MkEd(p, t, o, 0, v, <<>>)
  BY DEF MkEd
<1>3. d = MkEd(p, t, o, 0, v, <<>>)
  BY <1>1, <1>2, Zenon
<1>4. [EdIdle EXCEPT !.pc = p, !.text = t, !.old = o, !.rev = v] = d
  OBVIOUS
<1>5. QED
  BY <1>3, <1>4, Zenon

-----------------------------------------------------------------------------
(* Types and bounds in one: what a step of one editor leaves. *)
LEMMA WkBoundsStep == WkTypes /\ WkBounds /\ [WikiNext]_kvars => WkTypes' /\ WkBounds'
<1> SUFFICES ASSUME WkTypes, WkBounds, [WikiNext]_kvars PROVE WkTypes' /\ WkBounds'
  OBVIOUS
<1>0. /\ wmsg \in [WikiNums -> WkMsgs] /\ wnext \in 0..MaxWikiMsg /\ wnext \in Nat /\ MaxWikiMsg \in Nat
      /\ ed \in [Editors -> EdJobs] /\ past \in Seq(WkPasts) /\ marred \in BOOLEAN
  BY WikiBounds DEF WkTypes
<1>1. \A p \in {"idle", "walk", "record", "history", "findHist", "insertHist", "unlinkHist", "insert", "unlink", "unlinkComp"} :
          p \in EdPcs
  BY DEF EdPcs
<1>2. <<>> \in Seq(WkRevs) /\ 0 \in Texts \cup {0} /\ RevsBelow(<<>>, wnext) /\ EdBounds(EdIdle)
  BY <1>0 DEF RevsBelow, EdBounds, EdIdle
<1>3. \A e \in Editors : /\ ed[e].text \in Texts \cup {0} /\ ed[e].old \in Nat /\ ed[e].hold \in Nat /\ ed[e].rev \in Nat
                         /\ ed[e].revs \in Seq(WkRevs) /\ EdBounds(ed[e])
  BY <1>0 DEF EdJobs, WkBounds
<1>4. \A e \in Editors : /\ RevsBelow(ed[e].revs, wnext) /\ ed[e].old <= wnext /\ ed[e].hold <= wnext
                         /\ ed[e].pc \in {"record", "history", "findHist", "insertHist", "unlinkHist", "insert", "unlink"} =>
                               ed[e].text \in Texts
                         /\ ed[e].pc = "unlinkHist" => ed[e].hold > 0
                         /\ ed[e].pc = "unlink" => ed[e].old > 0
  BY <1>3 DEF EdBounds
<1>5. \A i \in 1..Len(past) : past[i].rev \in 1..wnext
  BY DEF WkBounds
(* One editor moves, the messages stay. *)
<1>a. ASSUME NEW e \in Editors, NEW j \in EdJobs, EdBounds(j), WDo(e, j), UNCHANGED wnext
      PROVE  ed' \in [Editors -> EdJobs] /\ \A f \in Editors : EdBounds(ed[f])'
  <2>1. ed' \in [Editors -> EdJobs] /\ ed'[e] = j /\ \A f \in Editors \ {e} : ed'[f] = ed[f]
    BY <1>0, <1>a, EdSet
  <2>2. EdBounds(ed[e])'
    BY <1>a, <2>1 DEF EdBounds
  <2>3. \A f \in Editors \ {e} : EdBounds(ed[f])'
    BY <1>3, <1>a, <2>1 DEF EdBounds
  <2>4. QED
    BY <2>1, <2>2, <2>3
<1>b. ASSUME NEW e \in Editors, WDo(e, EdIdle), UNCHANGED wnext
      PROVE  ed' \in [Editors -> EdJobs] /\ \A f \in Editors : EdBounds(ed[f])'
  <2>1. ed' \in [Editors -> EdJobs] /\ ed'[e] = EdIdle /\ \A f \in Editors \ {e} : ed'[f] = ed[f]
    BY <1>0, <1>b, EdIdleMade, EdSet
  <2>2. QED
    BY <1>2, <1>3, <1>b, <2>1 DEF EdBounds
<1>c. ASSUME UNCHANGED <<wmsg, wnext>>, ed' \in [Editors -> EdJobs] /\ \A f \in Editors : EdBounds(ed[f])',
             past' = past \/ past' = <<>>, marred' \in BOOLEAN
      PROVE  WkTypes' /\ WkBounds'
  <2>1. past' \in Seq(WkPasts) /\ \A i \in 1..Len(past') : past'[i].rev \in 1..wnext
    <3>1. CASE past' = past
      BY <1>0, <1>5, <3>1
    <3>2. CASE past' = <<>>
      BY <3>2
    <3>3. QED
      BY <1>c, <3>1, <3>2
  <2>2. QED
    BY <1>0, <1>c, <2>1 DEF WkTypes, WkBounds
<1>6. ASSUME NEW e \in Editors, NEW t \in Texts, Save(e, t) PROVE WkTypes' /\ WkBounds'
  <2>1. PICK p \in {"record", "insert"} : WDo(e, [EdIdle EXCEPT !.pc = p, !.text = t, !.old = PageNow])
    BY <1>6 DEF Save
  <2> DEFINE k == MkEd(p, t, PageNow, 0, 0, <<>>)
  <2>2. WDo(e, k)
    BY <2>1, EdIdleText
  <2>3. PageNow \in Nat /\ PageNow <= wnext
    BY NowTyped
  <2>4. k \in EdJobs
    BY <1>1, <1>2, <2>3, MkEdTyped
  <2>5. EdBounds(k)
    BY <1>0, <1>2, <2>3 DEF EdBounds, MkEd
  <2> HIDE DEF k
  <2>6. ed' \in [Editors -> EdJobs] /\ \A f \in Editors : EdBounds(ed[f])'
    BY <1>6, <1>a, <2>2, <2>4, <2>5 DEF Save
  <2>7. UNCHANGED <<wmsg, wnext>> /\ (past' = past \/ past' = <<>>) /\ marred' \in BOOLEAN
    BY <1>6 DEF Save, Crossing, Mar
  <2>8. QED
    BY <1>c, <2>6, <2>7
<1>7. ASSUME NEW e \in Editors, NEW n \in WikiNums, Revert(e, n) PROVE WkTypes' /\ WkBounds'
  <2>1. WDo(e, [EdIdle EXCEPT !.pc = "walk", !.text = wmsg[PageNow].text, !.old = PageNow, !.rev = n])
    BY <1>7 DEF Revert
  <2> DEFINE k == MkEd("walk", wmsg[PageNow].text, PageNow, 0, n, <<>>)
  <2>2. WDo(e, k)
    <3> DEFINE t == wmsg[PageNow].text
               o == PageNow
    <3> HIDE DEF t, o
    <3>1. [EdIdle EXCEPT !.pc = "walk", !.text = t, !.old = o, !.rev = n] = MkEd("walk", t, o, 0, n, <<>>)
      BY EdIdleTextRev
    <3>2. QED
      BY <2>1, <3>1 DEF t, o
  <2>3. n \in Nat /\ PageNow > 0 /\ PageNow \in Nat /\ PageNow <= wnext /\ wmsg[PageNow].text \in Texts \cup {0}
    BY <1>0, <1>7, NowTyped DEF WikiNums, Revert
  <2>4. k \in EdJobs
    BY <1>1, <1>2, <2>3, MkEdTyped
  <2>5. EdBounds(k)
    BY <1>0, <1>2, <2>3 DEF EdBounds, MkEd
  <2> HIDE DEF k
  <2>6. ed' \in [Editors -> EdJobs] /\ \A f \in Editors : EdBounds(ed[f])'
    BY <1>7, <1>a, <2>2, <2>4, <2>5 DEF Revert
  <2>7. UNCHANGED <<wmsg, wnext>> /\ (past' = past \/ past' = <<>>) /\ marred' \in BOOLEAN
    BY <1>7 DEF Revert, Crossing, Mar
  <2>8. QED
    BY <1>c, <2>6, <2>7
<1>8. ASSUME NEW e \in Editors, RevertWalk(e) PROVE WkTypes' /\ WkBounds'
  <2> DEFINE revs == HistoryOf(HistNow)
             walked == Walk(ed[e].text, revs, ed[e].rev)
             t == IF ed[e].rev = ed[e].old THEN ed[e].text ELSE walked
  <2>1. walked \in Texts \cup {0}
    <3> DEFINE fits(k) == \A i \in 1..k : revs[i].from = (IF i = 1 THEN ed[e].text ELSE revs[i - 1].to)
               hits == {k \in 1..Len(revs) : revs[k].rev = ed[e].rev /\ fits(k)}
    <3>1. walked = IF hits = {} THEN 0 ELSE revs[Min(hits)].to
      BY DEF Walk
    <3>2. revs \in Seq(WkRevs)
      BY NowTyped
    <3>3. hits \subseteq 1..Len(revs) /\ hits \subseteq Nat
      BY <3>2
    <3>4. hits # {} => Min(hits) \in 1..Len(revs)
      BY <3>3, MinIsLeast
    <3> HIDE DEF hits, revs
    <3>5. hits # {} => revs[Min(hits)] \in WkRevs
      BY <3>2, <3>4
    <3>6. QED
      BY <3>1, <3>5 DEF WkRevs
  <2>2. t \in Texts \cup {0}
    BY <1>3, <2>1
  <2>3. WDo(e, EdIdle) \/ (t # 0 /\ \E p \in {"record", "insert"} : WDo(e, [EdIdle EXCEPT !.pc = p, !.text = t, !.old = PageNow]))
    BY <1>8 DEF RevertWalk
  <2> HIDE DEF t
  <2>4. ed' \in [Editors -> EdJobs] /\ \A f \in Editors : EdBounds(ed[f])'
    <3>1. CASE WDo(e, EdIdle)
      BY <1>8, <1>b, <3>1 DEF RevertWalk
    <3>2. CASE t # 0 /\ \E p \in {"record", "insert"} : WDo(e, [EdIdle EXCEPT !.pc = p, !.text = t, !.old = PageNow])
      <4>1. PICK p \in {"record", "insert"} : WDo(e, [EdIdle EXCEPT !.pc = p, !.text = t, !.old = PageNow])
        BY <3>2
      <4> DEFINE k == MkEd(p, t, PageNow, 0, 0, <<>>)
      <4>2. WDo(e, k) /\ t \in Texts
        BY <2>2, <3>2, <4>1, EdIdleText
      <4>3. PageNow \in Nat /\ PageNow <= wnext
        BY NowTyped
      <4>4. k \in EdJobs
        BY <1>1, <1>2, <4>2, <4>3, MkEdTyped
      <4>5. EdBounds(k)
        BY <1>0, <1>2, <4>2, <4>3 DEF EdBounds, MkEd
      <4> HIDE DEF k
      <4>6. QED
        BY <1>8, <1>a, <4>2, <4>4, <4>5 DEF RevertWalk
    <3>3. QED
      BY <2>3, <3>1, <3>2
  <2>5. QED
    BY <1>0, <1>8, <1>c, <2>4 DEF RevertWalk
<1>9. ASSUME NEW e \in Editors, RecordRevision(e) PROVE WkTypes' /\ WkBounds'
  <2> DEFINE j == ed[e]
             p == PageNow
  <2>1. \/ WDo(e, EdIdle)
        \/ WDo(e, MkEd("insert", j.text, j.old, j.hold, j.rev, j.revs))
        \/ p > 0 /\ WDo(e, MkEd("history", j.text, j.old, j.hold, j.rev, <<Patch(wmsg[p].text, j.text, p)>>))
    <3>1. j \in EdJobs /\ p \in Nat
      BY <1>0, NowTyped
    <3>2. [j EXCEPT !.pc = "insert"] = MkEd("insert", j.text, j.old, j.hold, j.rev, j.revs)
      BY <3>1, EdPc
    <3> DEFINE s == <<Patch(wmsg[p].text, j.text, p)>>
    <3> HIDE DEF s, j
    <3>3. [j EXCEPT !.pc = "history", !.revs = s] = MkEd("history", j.text, j.old, j.hold, j.rev, s)
      BY <3>1, EdPcRevs
    <3>4. QED
      BY <1>9, <3>1, <3>2, <3>3 DEF RecordRevision, s, j
  <2>2. j.text \in Texts
    BY <1>4, <1>9 DEF RecordRevision
  <2>3. p > 0 => /\ <<Patch(wmsg[p].text, j.text, p)>> \in Seq(WkRevs)
                 /\ RevsBelow(<<Patch(wmsg[p].text, j.text, p)>>, wnext)
    <3>1. p \in Nat /\ p <= wnext /\ (p > 0 => wmsg[p].text \in Texts \cup {0})
      BY NowTyped
    <3>2. QED
      BY <1>0, <2>2, <3>1 DEF Patch, WkRevs, RevsBelow
  <2>4. ed' \in [Editors -> EdJobs] /\ \A f \in Editors : EdBounds(ed[f])'
    <3>1. CASE WDo(e, EdIdle)
      BY <1>9, <1>b, <3>1 DEF RecordRevision
    <3>2. CASE WDo(e, MkEd("insert", j.text, j.old, j.hold, j.rev, j.revs))
      <4> DEFINE k == MkEd("insert", j.text, j.old, j.hold, j.rev, j.revs)
      <4>1. k \in EdJobs
        BY <1>1, <1>3, MkEdTyped
      <4>2. EdBounds(k)
        BY <1>4, <2>2 DEF EdBounds, MkEd
      <4> HIDE DEF k
      <4>3. QED
        BY <1>9, <1>a, <3>2, <4>1, <4>2 DEF RecordRevision, k
    <3>3. CASE p > 0 /\ WDo(e, MkEd("history", j.text, j.old, j.hold, j.rev, <<Patch(wmsg[p].text, j.text, p)>>))
      <4> DEFINE s == <<Patch(wmsg[p].text, j.text, p)>>
                 k == MkEd("history", j.text, j.old, j.hold, j.rev, s)
      <4>1. s \in Seq(WkRevs) /\ RevsBelow(s, wnext) /\ WDo(e, k)
        BY <2>3, <3>3
      <4> HIDE DEF s
      <4>2. k \in EdJobs
        BY <1>1, <1>3, <4>1, MkEdTyped
      <4>3. EdBounds(k)
        BY <1>4, <2>2, <4>1 DEF EdBounds, MkEd
      <4> HIDE DEF k
      <4>4. QED
        BY <1>9, <1>a, <4>1, <4>2, <4>3 DEF RecordRevision
    <3>4. QED
      BY <2>1, <3>1, <3>2, <3>3
  <2>5. QED
    BY <1>0, <1>9, <1>c, <2>4 DEF RecordRevision
<1>10. ASSUME NEW e \in Editors, ReadHistory(e) PROVE WkTypes' /\ WkBounds'
  <2> DEFINE j == ed[e]
             s == j.revs \o HistoryOf(HistNow)
  <2>1. WDo(e, MkEd("findHist", j.text, j.old, j.hold, j.rev, s))
    <3>1. j \in EdJobs
      BY <1>0
    <3> HIDE DEF s, j
    <3>2. [j EXCEPT !.pc = "findHist", !.revs = s] = MkEd("findHist", j.text, j.old, j.hold, j.rev, s)
      BY <3>1, EdPcRevs
    <3>3. QED
      BY <1>10, <3>2 DEF ReadHistory, s, j
  <2>2. s \in Seq(WkRevs) /\ RevsBelow(s, wnext)
    <3>1. j.revs \in Seq(WkRevs) /\ HistoryOf(HistNow) \in Seq(WkRevs) /\ RevsBelow(j.revs, wnext) /\ RevsBelow(HistoryOf(HistNow), wnext)
      BY <1>3, <1>4, NowTyped
    <3>2. ASSUME NEW a \in Seq(WkRevs), NEW b \in Seq(WkRevs), RevsBelow(a, wnext), RevsBelow(b, wnext)
          PROVE  a \o b \in Seq(WkRevs) /\ RevsBelow(a \o b, wnext)
      <4>1. a \o b \in Seq(WkRevs) /\ Len(a \o b) = Len(a) + Len(b)
        OBVIOUS
      <4>2. \A i \in 1..(Len(a) + Len(b)) : (a \o b)[i] = IF i <= Len(a) THEN a[i] ELSE b[i - Len(a)]
        OBVIOUS
      <4>3. Len(a) \in Nat /\ Len(b) \in Nat
        OBVIOUS
      <4>4. ASSUME NEW i \in 1..(Len(a) + Len(b)) PROVE (a \o b)[i].rev \in 1..wnext
        <5>1. CASE i <= Len(a)
          BY <3>2, <4>2, <4>3, <4>4, <5>1 DEF RevsBelow
        <5>2. CASE ~ (i <= Len(a))
          <6>1. i - Len(a) \in 1..Len(b)
            BY <4>3, <4>4, <5>2
          <6>2. QED
            BY <3>2, <4>2, <4>4, <5>2, <6>1 DEF RevsBelow
        <5>3. QED
          BY <5>1, <5>2
      <4>5. QED
        BY <4>1, <4>4 DEF RevsBelow
    <3>3. QED
      BY <3>1, <3>2
  <2> HIDE DEF s
  <2>3. ed' \in [Editors -> EdJobs] /\ \A f \in Editors : EdBounds(ed[f])'
    <3> DEFINE k == MkEd("findHist", j.text, j.old, j.hold, j.rev, s)
    <3>1. k \in EdJobs
      BY <1>1, <1>3, <2>2, MkEdTyped
    <3>2. EdBounds(k)
      BY <1>4, <1>10, <2>2 DEF EdBounds, MkEd, ReadHistory
    <3> HIDE DEF k
    <3>3. QED
      BY <1>10, <1>a, <2>1, <3>1, <3>2 DEF ReadHistory, k
  <2>4. QED
    BY <1>0, <1>10, <1>c, <2>3 DEF ReadHistory
<1>11. ASSUME NEW e \in Editors, FindHistory(e) PROVE WkTypes' /\ WkBounds'
  <2> DEFINE j == ed[e]
  <2>1. WDo(e, MkEd("insertHist", j.text, j.old, HistNow, j.rev, j.revs))
    <3>1. j \in EdJobs
      BY <1>0
    <3>2. [j EXCEPT !.pc = "insertHist", !.hold = HistNow] = MkEd("insertHist", j.text, j.old, HistNow, j.rev, j.revs)
      BY <3>1, EdPcHold
    <3>3. QED
      BY <1>11, <3>2 DEF FindHistory
  <2>2. HistNow \in Nat /\ HistNow <= wnext
    BY NowTyped
  <2>3. ed' \in [Editors -> EdJobs] /\ \A f \in Editors : EdBounds(ed[f])'
    <3> DEFINE k == MkEd("insertHist", j.text, j.old, HistNow, j.rev, j.revs)
    <3>1. k \in EdJobs
      BY <1>1, <1>3, <2>2, MkEdTyped
    <3>2. EdBounds(k)
      BY <1>4, <1>11, <2>2 DEF EdBounds, MkEd, FindHistory
    <3> HIDE DEF k
    <3>3. QED
      BY <1>11, <1>a, <2>1, <3>1, <3>2 DEF FindHistory, k
  <2>4. QED
    BY <1>0, <1>11, <1>c, <2>3 DEF FindHistory

(* A message goes: the numbers stay as they are. *)
<1>d. ASSUME NEW k, UNCHANGED wnext, ed' \in [Editors -> EdJobs] /\ \A f \in Editors : EdBounds(ed[f])',
             \/ wmsg' = [wmsg EXCEPT ![k].st = "gone", ![k].revs = <<>>]
             \/ wmsg' = [wmsg EXCEPT ![k].st = "gone", ![k].text = 0],
             k \in WikiNums => k <= wnext, past' = past \/ past' = <<>>, marred' \in BOOLEAN
      PROVE  WkTypes' /\ WkBounds'
  <2>1. ASSUME NEW m \in WkMsgs
        PROVE  /\ [m EXCEPT !.st = "gone", !.revs = <<>>] \in WkMsgs /\ [m EXCEPT !.st = "gone", !.revs = <<>>].revs = <<>>
               /\ [m EXCEPT !.st = "gone", !.text = 0] \in WkMsgs /\ [m EXCEPT !.st = "gone", !.text = 0].revs = m.revs
    BY <1>2, <2>1 DEF WkMsgs
  <2>2. \A n \in WikiNums : n # k => wmsg'[n] = wmsg[n]
    BY <1>0, <1>d
  <2>3. k \in WikiNums => \/ wmsg'[k] = [wmsg[k] EXCEPT !.st = "gone", !.revs = <<>>]
                          \/ wmsg'[k] = [wmsg[k] EXCEPT !.st = "gone", !.text = 0]
    BY <1>0, <1>d
  <2>4. k \in WikiNums => wmsg'[k] \in WkMsgs /\ (wmsg'[k].revs = <<>> \/ wmsg'[k].revs = wmsg[k].revs)
    BY <1>0, <2>1, <2>3
  <2>5. DOMAIN wmsg' = WikiNums /\ wmsg' = [n \in WikiNums |-> wmsg'[n]]
    BY <1>0, <1>d
  <2>6. wmsg' \in [WikiNums -> WkMsgs]
    BY <1>0, <2>2, <2>4, <2>5
  <2>7. \A n \in WikiNums : (n > wnext => wmsg'[n].st = "none") /\ RevsBelow(wmsg'[n].revs, n - 1)
    <3>1. \A n \in WikiNums : (n > wnext => wmsg[n].st = "none") /\ RevsBelow(wmsg[n].revs, n - 1) /\ RevsBelow(<<>>, n - 1)
      BY DEF WkBounds, RevsBelow
    <3>2. k \in WikiNums => ~ (k > wnext)
      BY <1>0, <1>d DEF WikiNums
    <3>3. QED
      BY <2>2, <2>4, <3>1, <3>2
  <2>8. past' \in Seq(WkPasts) /\ \A i \in 1..Len(past') : past'[i].rev \in 1..wnext
    <3>1. CASE past' = past
      BY <1>0, <1>5, <3>1
    <3>2. CASE past' = <<>>
      BY <3>2
    <3>3. QED
      BY <1>d, <3>1, <3>2
  <2>9. QED
    BY <1>0, <1>d, <2>6, <2>7, <2>8 DEF WkTypes, WkBounds
(* A number is taken, and perhaps a message inserted under it. *)
<1>e. ASSUME NEW e \in Editors, NEW m \in WkMsgs, wnext < MaxWikiMsg, wnext' = wnext + 1, RevsBelow(m.revs, wnext),
             wmsg' = wmsg \/ wmsg' = [wmsg EXCEPT ![wnext + 1] = m],
             \/ WDo(e, EdIdle)
             \/ \E p \in {"unlinkHist", "insert", "unlink"}, s \in {<<>>, ed[e].revs} :
                   /\ WDo(e, MkEd(p, ed[e].text, ed[e].old, ed[e].hold, ed[e].rev, s)) /\ ed[e].text \in Texts
                   /\ p = "unlinkHist" => ed[e].hold > 0
                   /\ p = "unlink" => ed[e].old > 0
      PROVE  /\ wmsg' \in [WikiNums -> WkMsgs] /\ wnext' \in 0..MaxWikiMsg /\ ed' \in [Editors -> EdJobs]
             /\ \A n \in WikiNums : (n > wnext' => wmsg'[n].st = "none") /\ RevsBelow(wmsg'[n].revs, n - 1)
             /\ \A f \in Editors : EdBounds(ed[f])'
  <2>1. wnext + 1 \in WikiNums /\ wnext' \in 0..MaxWikiMsg
    BY <1>0, <1>e DEF WikiNums
  <2>2. wmsg' \in [WikiNums -> WkMsgs]
    BY <1>0, <1>e, <2>1
  <2>3. \A n \in WikiNums : wmsg'[n] = wmsg[n] \/ (n = wnext + 1 /\ wmsg'[n] = m)
    BY <1>0, <1>e, <2>1
  <2>4. \A n \in WikiNums : (n > wnext + 1 => n > wnext) /\ n \in Nat
    BY <1>0 DEF WikiNums
  <2>5. \A n \in WikiNums : (n > wnext => wmsg[n].st = "none") /\ RevsBelow(wmsg[n].revs, n - 1)
    BY DEF WkBounds
  <2>6. (wnext + 1) - 1 = wnext
    BY <1>0
  <2>7. ASSUME NEW n \in WikiNums PROVE (n > wnext' => wmsg'[n].st = "none") /\ RevsBelow(wmsg'[n].revs, n - 1)
    <3>1. CASE wmsg'[n] = wmsg[n]
      BY <1>e, <2>4, <2>5, <3>1
    <3>2. CASE n = wnext + 1 /\ wmsg'[n] = m
      BY <1>0, <1>e, <2>4, <2>6, <3>2
    <3>3. QED
      BY <2>3, <3>1, <3>2
  <2>8. \A f \in Editors : RevsBelow(ed[f].revs, wnext + 1)
    BY <1>0, <1>4 DEF RevsBelow
  <2>9. \A f \in Editors : ed[f].old <= wnext + 1 /\ ed[f].hold <= wnext + 1
    BY <1>0, <1>3, <1>4
  <2>10. ed' \in [Editors -> EdJobs] /\ \A f \in Editors : EdBounds(ed[f])'
    <3>1. CASE WDo(e, EdIdle)
      <4>1. ed' \in [Editors -> EdJobs] /\ ed'[e] = EdIdle /\ \A f \in Editors \ {e} : ed'[f] = ed[f]
        BY <1>0, <3>1, EdIdleMade, EdSet
      <4>2. EdBounds(ed[e])'
        BY <1>0, <1>e, <4>1 DEF EdBounds, EdIdle, RevsBelow
      <4>3. \A f \in Editors \ {e} : EdBounds(ed[f])'
        BY <1>4, <1>e, <2>8, <2>9, <4>1 DEF EdBounds
      <4>4. QED
        BY <4>1, <4>2, <4>3
    <3>2. ASSUME NEW p \in {"unlinkHist", "insert", "unlink"}, NEW s \in {<<>>, ed[e].revs},
                 WDo(e, MkEd(p, ed[e].text, ed[e].old, ed[e].hold, ed[e].rev, s)), ed[e].text \in Texts,
                 p = "unlinkHist" => ed[e].hold > 0, p = "unlink" => ed[e].old > 0
          PROVE  ed' \in [Editors -> EdJobs] /\ \A f \in Editors : EdBounds(ed[f])'
      <4>1. s \in Seq(WkRevs) /\ RevsBelow(s, wnext + 1) /\ p \in EdPcs
        <5>1. p \in EdPcs /\ RevsBelow(<<>>, wnext + 1)
          BY <1>1 DEF RevsBelow
        <5>2. CASE s = <<>>
          BY <1>2, <5>1, <5>2
        <5>3. CASE s = ed[e].revs
          BY <1>3, <2>8, <5>1, <5>3
        <5>4. QED
          BY <5>2, <5>3
      <4>2. MkEd(p, ed[e].text, ed[e].old, ed[e].hold, ed[e].rev, s) \in EdJobs
        BY <1>3, <4>1, MkEdTyped
      <4>3. /\ ed' \in [Editors -> EdJobs] /\ \A f \in Editors \ {e} : ed'[f] = ed[f]
            /\ ed'[e] = MkEd(p, ed[e].text, ed[e].old, ed[e].hold, ed[e].rev, s)
        BY <1>0, <3>2, <4>2, EdSet
      <4>4. EdBounds(ed[e])'
        BY <1>e, <2>9, <3>2, <4>1, <4>3 DEF EdBounds, MkEd
      <4>5. \A f \in Editors \ {e} : EdBounds(ed[f])'
        BY <1>4, <1>e, <2>8, <2>9, <4>3 DEF EdBounds
      <4>6. QED
        BY <4>3, <4>4, <4>5
    <3>3. QED
      BY <1>e, <3>1, <3>2
  <2>11. QED
    BY <2>1, <2>2, <2>7, <2>10
<1>12. ASSUME NEW e \in Editors, UnlinkHistory(e) PROVE WkTypes' /\ WkBounds'
  <2> DEFINE j == ed[e]
  <2>1. WDo(e, MkEd("insert", j.text, j.old, 0, j.rev, j.revs))
    <3>1. j \in EdJobs
      BY <1>0
    <3>2. [j EXCEPT !.pc = "insert", !.hold = 0] = MkEd("insert", j.text, j.old, 0, j.rev, j.revs)
      BY <3>1, EdPcHold
    <3>3. QED
      BY <1>12, <3>2 DEF UnlinkHistory
  <2>2. ed' \in [Editors -> EdJobs] /\ \A f \in Editors : EdBounds(ed[f])'
    <3> DEFINE k == MkEd("insert", j.text, j.old, 0, j.rev, j.revs)
    <3>1. k \in EdJobs
      BY <1>1, <1>3, MkEdTyped
    <3>2. EdBounds(k)
      BY <1>0, <1>4, <1>12 DEF EdBounds, MkEd, UnlinkHistory
    <3> HIDE DEF k
    <3>3. QED
      BY <1>12, <1>a, <2>1, <3>1, <3>2 DEF UnlinkHistory, k
  <2>3. QED
    BY <1>0, <1>4, <1>12, <1>d, <2>2 DEF UnlinkHistory
<1>13. ASSUME NEW e \in Editors, UnlinkPage(e) PROVE WkTypes' /\ WkBounds'
  <2>1. ed' \in [Editors -> EdJobs] /\ \A f \in Editors : EdBounds(ed[f])'
    BY <1>13, <1>b DEF UnlinkPage
  <2>2. QED
    BY <1>0, <1>4, <1>13, <1>d, <2>1 DEF UnlinkPage
<1>14. ASSUME NEW e \in Editors, Remove(e) PROVE WkTypes' /\ WkBounds'
  <2>1. WDo(e, MkEd("unlinkComp", 0, 0, 0, 0, <<>>))
    BY <1>14, EdIdlePc DEF Remove
  <2>2. ed' \in [Editors -> EdJobs] /\ \A f \in Editors : EdBounds(ed[f])'
    <3> DEFINE k == MkEd("unlinkComp", 0, 0, 0, 0, <<>>)
    <3>1. k \in EdJobs
      BY <1>1, <1>2, MkEdTyped
    <3>2. EdBounds(k)
      BY <1>0, <1>2 DEF EdBounds, MkEd
    <3> HIDE DEF k
    <3>3. QED
      BY <1>14, <1>a, <2>1, <3>1, <3>2 DEF Remove, k
  <2>3. QED
    BY <1>0, <1>14, <1>d, <2>2, NowTyped DEF Remove, Crossing, Mar
<1>15. ASSUME NEW e \in Editors, RemoveHistory(e) PROVE WkTypes' /\ WkBounds'
  <2>1. ed' \in [Editors -> EdJobs] /\ \A f \in Editors : EdBounds(ed[f])'
    BY <1>15, <1>b DEF RemoveHistory
  <2>2. past' = <<>> /\ marred' \in BOOLEAN /\ UNCHANGED wnext
    BY <1>15 DEF RemoveHistory
  <2>3. CASE HistNow = 0
    BY <1>15, <1>c, <2>1, <2>2, <2>3 DEF RemoveHistory
  <2>4. CASE HistNow # 0
    BY <1>15, <1>d, <2>1, <2>2, <2>4, NowTyped DEF RemoveHistory
  <2>5. QED
    <3>1. "unlinkHist" \in EdPcs /\ "insert" \in EdPcs
      BY <1>1
    <3>2. QED
      BY <2>3, <2>4, <3>1
<1>16. ASSUME NEW e \in Editors, NEW ok \in BOOLEAN, InsertHistory(e, ok) PROVE WkTypes' /\ WkBounds'
  <2> DEFINE j == ed[e]
             m == [st |-> "hist", text |-> 0, revs |-> j.revs]
  <2>1. m \in WkMsgs /\ m.revs = j.revs
    BY <1>2, <1>3 DEF WkMsgs
  <2>2. j \in EdJobs /\ j.text \in Texts /\ j.pc = "insertHist"
    BY <1>0, <1>4, <1>16 DEF InsertHistory
  <2>3. \A p \in EdPcs : [j EXCEPT !.pc = p, !.revs = <<>>] = MkEd(p, j.text, j.old, j.hold, j.rev, <<>>)
    <3> HIDE DEF j
    <3> TAKE p \in EdPcs
    <3> QED
      BY <2>2, EdPcRevs
  <2>4. \/ WDo(e, EdIdle)
        \/ \E p \in {"unlinkHist", "insert"} : /\ WDo(e, [j EXCEPT !.pc = p, !.revs = <<>>])
                                               /\ p = "unlinkHist" => j.hold > 0
    BY <1>16 DEF InsertHistory
  <2>5. \/ WDo(e, EdIdle)
        \/ \E p \in {"unlinkHist", "insert"} : /\ WDo(e, MkEd(p, j.text, j.old, j.hold, j.rev, <<>>))
                                               /\ p = "unlinkHist" => j.hold > 0
    <3>1. "unlinkHist" \in EdPcs /\ "insert" \in EdPcs
      BY <1>1
    <3>2. QED
      BY <2>3, <2>4, <3>1
  <2>6. wnext < MaxWikiMsg /\ wnext' = wnext + 1 /\ (wmsg' = wmsg \/ wmsg' = [wmsg EXCEPT ![wnext + 1] = m])
    BY <1>16 DEF InsertHistory
  <2>7. RevsBelow(m.revs, wnext)
    BY <1>4, <2>1
  <2> HIDE DEF m
  <2>8. /\ wmsg' \in [WikiNums -> WkMsgs] /\ wnext' \in 0..MaxWikiMsg /\ ed' \in [Editors -> EdJobs]
        /\ \A n \in WikiNums : (n > wnext' => wmsg'[n].st = "none") /\ RevsBelow(wmsg'[n].revs, n - 1)
        /\ \A f \in Editors : EdBounds(ed[f])'
    BY <1>e, <2>1, <2>2, <2>5, <2>6, <2>7
  <2>9. \A i \in 1..Len(past') : past'[i].rev \in 1..wnext'
    BY <1>0, <1>5, <1>16, <2>6 DEF InsertHistory
  <2>10. QED
    BY <1>0, <1>16, <2>8, <2>9 DEF InsertHistory, WkTypes, WkBounds
<1>17. ASSUME NEW e \in Editors, NEW ok \in BOOLEAN, InsertPage(e, ok) PROVE WkTypes' /\ WkBounds'
  <2> DEFINE j == ed[e]
             m == [st |-> "page", text |-> j.text, revs |-> <<>>]
             x == [rev |-> wnext + 1, text |-> j.text]
  <2>1. m \in WkMsgs /\ m.revs = <<>>
    BY <1>2, <1>3 DEF WkMsgs
  <2>2. j \in EdJobs /\ j.text \in Texts /\ j.pc = "insert"
    BY <1>0, <1>4, <1>17 DEF InsertPage
  <2>3. [j EXCEPT !.pc = "unlink"] = MkEd("unlink", j.text, j.old, j.hold, j.rev, j.revs)
    BY <2>2, EdPc
  <2>4. \/ WDo(e, EdIdle)
        \/ WDo(e, MkEd("unlink", j.text, j.old, j.hold, j.rev, j.revs)) /\ j.old > 0
    BY <1>17, <2>3 DEF InsertPage
  <2>5. wnext < MaxWikiMsg /\ wnext' = wnext + 1 /\ (wmsg' = wmsg \/ wmsg' = [wmsg EXCEPT ![wnext + 1] = m])
    BY <1>17 DEF InsertPage
  <2>6. RevsBelow(m.revs, wnext)
    BY <1>2, <2>1
  <2>7. /\ past' = past \/ past' = <<>> \/ past' = <<x>> \o past
        /\ marred' \in BOOLEAN
    BY <1>17 DEF InsertPage, Mar
  <2>8. x \in WkPasts /\ x.rev = wnext + 1
    BY <1>0, <2>2 DEF WkPasts
  <2> HIDE DEF m, x
  <2>9. /\ wmsg' \in [WikiNums -> WkMsgs] /\ wnext' \in 0..MaxWikiMsg /\ ed' \in [Editors -> EdJobs]
        /\ \A n \in WikiNums : (n > wnext' => wmsg'[n].st = "none") /\ RevsBelow(wmsg'[n].revs, n - 1)
        /\ \A f \in Editors : EdBounds(ed[f])'
    BY <1>e, <2>1, <2>2, <2>4, <2>5, <2>6
  <2>10. past' \in Seq(WkPasts) /\ \A i \in 1..Len(past') : past'[i].rev \in 1..wnext'
    <3>1. CASE past' = past
      BY <1>0, <1>5, <2>5, <3>1
    <3>a. CASE past' = <<>>
      BY <3>a
    <3>2. CASE past' = <<x>> \o past
      <4>1. past' \in Seq(WkPasts) /\ Len(past') = Len(past) + 1 /\ past'[1] = x
            /\ \A i \in 1..Len(past') : i > 1 => past'[i] = past[i - 1]
        BY <1>0, <2>8, <3>2
      <4>2. \A i \in 1..Len(past') : i > 1 => i - 1 \in 1..Len(past)
        BY <1>0, <4>1
      <4>3. ASSUME NEW i \in 1..Len(past') PROVE past'[i].rev \in 1..wnext'
        <5>1. CASE i = 1
          BY <1>0, <2>5, <2>8, <4>1, <5>1
        <5>2. CASE i > 1
          <6>1. past'[i] = past[i - 1] /\ i - 1 \in 1..Len(past)
            BY <4>1, <4>2, <5>2
          <6>2. QED
            BY <1>0, <1>5, <2>5, <6>1
        <5>3. QED
          BY <1>0, <4>1, <5>1, <5>2
      <4>4. QED
        BY <4>1, <4>3
    <3>3. QED
      BY <2>7, <3>1, <3>a, <3>2
  <2>11. QED
    BY <2>7, <2>9, <2>10 DEF WkTypes, WkBounds
<1>18. CASE WikiCrash
  <2>1. ed' \in [Editors -> EdJobs] /\ \A f \in Editors : ed'[f] = EdIdle
    BY <1>18, EdIdleMade DEF WikiCrash
  <2>2. \A f \in Editors : EdBounds(ed[f])'
    BY <1>2, <1>18, <2>1 DEF WikiCrash, EdBounds
  <2>3. QED
    BY <1>0, <1>18, <1>c, <2>1, <2>2 DEF WikiCrash, Mar
<1>19. CASE UNCHANGED kvars
  BY <1>19 DEF kvars, WkTypes, WkBounds, EdBounds
<1>20. QED
  BY <1>6, <1>7, <1>8, <1>9, <1>10, <1>11, <1>12, <1>13, <1>14, <1>15, <1>16, <1>17, <1>18, <1>19 DEF WikiNext

-----------------------------------------------------------------------------
(* Facts for the steps that keep page and history in agreement. *)

LEMMA UnderWaySame ==
    ASSUME UNCHANGED <<wmsg, past>>, NEW e \in Editors, UnderWay(ed'[e])
    PROVE  UnderWay(ed[e])'
<1>1. wmsg' = wmsg /\ past' = past
  OBVIOUS
<1>2. PageNow' = PageNow /\ HistNow' = HistNow
  BY <1>1 DEF PageNow, HistNow, FindNewest
<1>3. HistoryOf(HistNow)' = HistoryOf(HistNow) /\ Newest(PageNow)' = Newest(PageNow)
  BY <1>1, <1>2 DEF HistoryOf, Newest
<1>4. /\ OnlyOne("page")' = OnlyOne("page") /\ OnlyOne("hist")' = OnlyOne("hist")
      /\ NoneOf("page")' = NoneOf("page") /\ NoneOf("hist")' = NoneOf("hist")
  BY <1>1 DEF OnlyOne, NoneOf
<1>5. Tells(HistoryOf(HistNow))' = Tells(HistoryOf(HistNow))
  BY <1>1, <1>3 DEF Tells
<1>6. Whole' = Whole
  BY <1>1, <1>3, <1>4, <1>5 DEF Whole
<1>7. /\ TellsAhead(ed[e].revs, ed[e].text)' = TellsAhead(ed'[e].revs, ed'[e].text)
      /\ TellsAhead(HistoryOf(HistNow), ed[e].text)' = TellsAhead(HistoryOf(HistNow), ed'[e].text)
  BY <1>1, <1>3 DEF TellsAhead
<1>8. QED
  BY <1>1, <1>2, <1>3, <1>4, <1>5, <1>6, <1>7 DEF UnderWay

(* What is wanted of the state after a step of one editor. *)
Descends == \A i, k \in 1..Len(past) : i < k => past[i].rev > past[k].rev

LEMMA WkWholeDone ==
    ASSUME NEW e \in Editors, \A f \in Editors \ {e} : ed'[f].pc = "idle", UnderWay(ed[e])', Descends'
    PROVE  WkWhole'
<1>1. (\A f \in Editors : ed'[f].pc = "idle") => Whole'
  BY DEF UnderWay
<1>2. QED
  BY <1>1 DEF WkWhole, Descends

LEMMA WkWholeStart ==
    ASSUME WkWhole, marred = FALSE, NEW e \in Editors
    PROVE  /\ ed[e].pc # "idle" => UnderWay(ed[e]) /\ \A f \in Editors \ {e} : ed[f].pc = "idle"
           /\ ed[e].pc = "idle" /\ ~Busy(e) => Whole /\ \A f \in Editors \ {e} : ed[f].pc = "idle"
           /\ Descends
BY DEF WkWhole, Busy, Descends

(* The page is there and is the newest of its past, or it is not. *)
LEMMA WholePage ==
    ASSUME Whole, WkTypes
    PROVE  /\ PageNow > 0 => Newest(PageNow) /\ Tells(HistoryOf(HistNow))
           /\ PageNow = 0 => past = <<>> /\ NoneOf("page") /\ NoneOf("hist")
<1>1. PageNow > 0 => PageNow \in WikiNums /\ wmsg[PageNow].st = "page"
  BY FoundNewest DEF NewestFound, PageNow
<1>2. PageNow > 0 => ~ NoneOf("page")
  BY <1>1 DEF NoneOf
<1>3. PageNow = 0 => PageNow \notin WikiNums
  BY WikiBounds DEF WikiNums
<1>4. QED
  BY <1>2, <1>3 DEF Whole, Newest

LEMMA UnderWayIdle ==
    ASSUME NEW j, j.pc \in {"idle", "walk"}, Whole
    PROVE  UnderWay(j)
BY DEF UnderWay

(* UpsertByEuid starts on a page that agrees with its history. *)
LEMMA UnderWaySave ==
    ASSUME Whole, WkTypes, NEW t, NEW p, p = IF PageNow > 0 THEN "record" ELSE "insert"
    PROVE  UnderWay(MkEd(p, t, PageNow, 0, 0, <<>>))
<1> DEFINE j == MkEd(p, t, PageNow, 0, 0, <<>>)
<1>1. j.pc = p /\ j.old = PageNow
  BY DEF MkEd
<1>2. PageNow \in Nat
  BY FoundNewest, WikiBounds DEF NewestFound, PageNow
<1> HIDE DEF j
<1>3. UnderWay(j)
  <2>1. CASE PageNow > 0
    BY <1>1, <2>1 DEF UnderWay
  <2>2. CASE PageNow = 0
    BY <1>1, <2>2 DEF UnderWay
  <2>3. QED
    BY <1>2, <2>1, <2>2
<1>4. QED
  BY <1>3 DEF j

LEMMA MkEdFields ==
    ASSUME NEW p, NEW t, NEW o, NEW h, NEW v, NEW s
    PROVE  LET j == MkEd(p, t, o, h, v, s) IN
           j.pc = p /\ j.text = t /\ j.old = o /\ j.hold = h /\ j.rev = v /\ j.revs = s
BY DEF MkEd

(* An inserted message, and one whose pointer went. *)
LEMMA Inserted ==
    ASSUME NEW k \in WikiNums, NEW m, wmsg \in [WikiNums -> WkMsgs], wmsg' = [wmsg EXCEPT ![k] = m]
    PROVE  wmsg'[k] = m /\ \A n \in WikiNums \ {k} : wmsg'[n] = wmsg[n]
OBVIOUS

LEMMA UnlinkedHist ==
    ASSUME NEW k \in WikiNums, wmsg \in [WikiNums -> WkMsgs], wmsg' = [wmsg EXCEPT ![k].st = "gone", ![k].revs = <<>>]
    PROVE  wmsg'[k].st = "gone" /\ \A n \in WikiNums \ {k} : wmsg'[n] = wmsg[n]
<1>1. wmsg[k] \in WkMsgs
  OBVIOUS
<1>2. wmsg'[k] = [wmsg[k] EXCEPT !.st = "gone", !.revs = <<>>] /\ \A n \in WikiNums \ {k} : wmsg'[n] = wmsg[n]
  OBVIOUS
<1>3. QED
  BY <1>1, <1>2 DEF WkMsgs

LEMMA UnlinkedPage ==
    ASSUME NEW k \in WikiNums, wmsg \in [WikiNums -> WkMsgs], wmsg' = [wmsg EXCEPT ![k].st = "gone", ![k].text = 0]
    PROVE  wmsg'[k].st = "gone" /\ \A n \in WikiNums \ {k} : wmsg'[n] = wmsg[n]
<1>1. wmsg[k] \in WkMsgs
  OBVIOUS
<1>2. wmsg'[k] = [wmsg[k] EXCEPT !.st = "gone", !.text = 0] /\ \A n \in WikiNums \ {k} : wmsg'[n] = wmsg[n]
  OBVIOUS
<1>3. QED
  BY <1>1, <1>2 DEF WkMsgs

-----------------------------------------------------------------------------
(* Page and history stay in agreement: the steps that change no message. *)
WkQuiet(e) == (\E t \in Texts : Save(e, t)) \/ (\E n \in WikiNums : Revert(e, n)) \/ RevertWalk(e) \/ RecordRevision(e)
              \/ ReadHistory(e) \/ FindHistory(e)

LEMMA WkQuietKeeps ==
    ASSUME WkInv, NEW e \in Editors, WkQuiet(e), marred' = FALSE
    PROVE  WkWhole'
<1>1. UNCHANGED <<wmsg, wnext, past>> /\ marred = FALSE /\ (ed[e].pc = "idle" => ~Busy(e))
  <2>1. marred \in BOOLEAN
    BY DEF WkInv, WkTypes
  <2>2. UNCHANGED <<wmsg, wnext>> /\ (Crossing(e) \/ (ed[e].pc # "idle" /\ UNCHANGED <<past, marred>>))
    BY DEF WkQuiet, Save, Revert, RevertWalk, RecordRevision, ReadHistory, FindHistory
  <2>3. CASE Crossing(e)
    <3>1. ~marred /\ ~Busy(e)
      BY <2>3 DEF Crossing, Mar
    <3>2. past' = past
      BY <2>3, <3>1 DEF Crossing, Mar
    <3>3. QED
      BY <2>1, <2>2, <3>1, <3>2
  <2>4. QED
    BY <2>2, <2>3
<1>2. /\ ed[e].pc # "idle" => UnderWay(ed[e])
      /\ ed[e].pc = "idle" => Whole
      /\ \A f \in Editors \ {e} : ed[f].pc = "idle"
      /\ Descends
  BY <1>1, WkWholeStart DEF WkInv
<1>3. WkTypes /\ ed \in [Editors -> EdJobs] /\ ed[e] \in EdJobs
  BY DEF WkInv, WkTypes
<1>4. ASSUME NEW k, WDo(e, k), UnderWay(k) PROVE WkWhole'
  <2>1. ed'[e] = k /\ \A f \in Editors \ {e} : ed'[f] = ed[f]
    BY <1>3, <1>4, EdSet
  <2>2. UnderWay(ed[e])'
    BY <1>1, <1>4, <2>1, UnderWaySame
  <2>3. Descends'
    BY <1>1, <1>2 DEF Descends
  <2>4. QED
    BY <1>2, <2>1, <2>2, <2>3, WkWholeDone
<1>5. ASSUME NEW t \in Texts, Save(e, t) PROVE WkWhole'
  <2> DEFINE p == IF PageNow > 0 THEN "record" ELSE "insert"
             k == MkEd(p, t, PageNow, 0, 0, <<>>)
  <2>1. Whole
    BY <1>2, <1>5 DEF Save
  <2>2. UnderWay(k)
    BY <1>3, <2>1, UnderWaySave
  <2>3. WDo(e, k)
    BY <1>5, EdIdleText DEF Save
  <2>4. QED
    BY <1>4, <2>2, <2>3
<1>6. ASSUME NEW n \in WikiNums, Revert(e, n) PROVE WkWhole'
  <2> DEFINE t == wmsg[PageNow].text
             o == PageNow
             k == MkEd("walk", t, o, 0, n, <<>>)
  <2>1. Whole /\ WDo(e, [EdIdle EXCEPT !.pc = "walk", !.text = t, !.old = o, !.rev = n])
    BY <1>2, <1>6 DEF Revert
  <2> HIDE DEF t, o
  <2>2. UnderWay(k)
    BY <2>1, UnderWayIdle, MkEdFields
  <2>3. WDo(e, k)
    BY <2>1, EdIdleTextRev
  <2>4. QED
    BY <1>4, <2>2, <2>3
<1>7. CASE RevertWalk(e)
  <2> DEFINE p == IF PageNow > 0 THEN "record" ELSE "insert"
             t == IF ed[e].rev = ed[e].old THEN ed[e].text ELSE Walk(ed[e].text, HistoryOf(HistNow), ed[e].rev)
             k == MkEd(p, t, PageNow, 0, 0, <<>>)
  <2>1. Whole
    BY <1>2, <1>7 DEF RevertWalk, UnderWay
  <2>2. WDo(e, EdIdle) \/ WDo(e, [EdIdle EXCEPT !.pc = p, !.text = t, !.old = PageNow])
    BY <1>7 DEF RevertWalk
  <2> HIDE DEF t
  <2>3. UnderWay(k) /\ UnderWay(EdIdle)
    BY <1>3, <2>1, UnderWaySave, UnderWayIdle, EdIdleMade
  <2>4. WDo(e, EdIdle) \/ WDo(e, k)
    BY <2>2, EdIdleText
  <2>5. QED
    BY <1>4, <2>3, <2>4
<1>8. CASE RecordRevision(e)
  <2> DEFINE j == ed[e]
             s == <<Patch(wmsg[PageNow].text, j.text, PageNow)>>
             k == MkEd("history", j.text, j.old, j.hold, j.rev, s)
  <2>1. j.pc = "record" /\ UnderWay(j)
    BY <1>2, <1>8 DEF RecordRevision
  <2>2. Whole /\ j.old = PageNow /\ PageNow > 0
    BY <2>1 DEF UnderWay
  <2>3. WDo(e, EdIdle) \/ WDo(e, [j EXCEPT !.pc = "history", !.revs = s])
    BY <1>8, <2>2 DEF RecordRevision
  <2>4. UnderWay(EdIdle)
    BY <2>2, UnderWayIdle, EdIdleMade
  <2>5. k.pc = "history" /\ k.old = j.old /\ k.revs = s /\ k.text = j.text
    BY MkEdFields
  <2>6. UnderWay(k)
    <3> HIDE DEF k
    <3>1. QED
      BY <2>2, <2>5 DEF UnderWay
  <2>7. [j EXCEPT !.pc = "history", !.revs = s] = k
    <3> HIDE DEF s
    <3> QED
      BY <1>3, EdPcRevs
  <2> HIDE DEF k
  <2>8. QED
    BY <1>4, <2>3, <2>4, <2>6, <2>7
<1>9. CASE ReadHistory(e)
  <2> DEFINE j == ed[e]
             hist == HistoryOf(HistNow)
             s == j.revs \o hist
             k == MkEd("findHist", j.text, j.old, j.hold, j.rev, s)
  <2>1. j.pc = "history" /\ UnderWay(j)
    BY <1>2, <1>9 DEF ReadHistory
  <2>2. Whole /\ j.old = PageNow /\ PageNow > 0 /\ j.revs = <<Patch(wmsg[PageNow].text, j.text, PageNow)>>
    BY <2>1 DEF UnderWay
  <2>3. Newest(PageNow) /\ Tells(hist)
    BY <1>3, <2>2, WholePage
  <2>4. TellsAhead(s, j.text)
    <3> DEFINE x == Patch(wmsg[PageNow].text, j.text, PageNow)
    <3>1. hist \in Seq(WkRevs) /\ past \in Seq(WkPasts)
      BY NowTyped DEF WkInv, WkTypes
    <3>2. s = <<x>> \o hist
      BY <2>2
    <3>3. x.rev = past[1].rev /\ x.to = past[1].text /\ x.from = j.text
      BY <2>3 DEF Patch, Newest
    <3> HIDE DEF x, hist, s
    <3>4. Len(s) = Len(hist) + 1 /\ s[1] = x /\ \A i \in 1..Len(s) : i > 1 => s[i] = hist[i - 1]
      BY <3>1, <3>2
    <3>5. \A i \in 1..Len(s) : i > 1 => i - 1 \in 1..Len(hist) /\ (i - 1) + 1 = i
      BY <3>1, <3>4
    <3>6. Len(s) = Len(past)
      BY <2>3, <3>4 DEF Tells
    <3>7. ASSUME NEW i \in 1..Len(s)
          PROVE  s[i].rev = past[i].rev /\ s[i].to = past[i].text /\ s[i].from = IF i = 1 THEN j.text ELSE past[i - 1].text
      <4>1. CASE i = 1
        BY <3>3, <3>4, <4>1
      <4>2. CASE i > 1
        BY <2>3, <3>4, <3>5, <4>2 DEF Tells
      <4>3. QED
        BY <3>1, <3>4, <4>1, <4>2
    <3>8. QED
      BY <3>6, <3>7 DEF TellsAhead
  <2>5. k.pc = "findHist" /\ k.old = j.old /\ k.revs = s /\ k.text = j.text
    <3> HIDE DEF s
    <3> QED
      BY MkEdFields
  <2>6. UnderWay(k)
    <3> HIDE DEF k, s
    <3>1. QED
      BY <2>2, <2>4, <2>5 DEF UnderWay
  <2>7. [j EXCEPT !.pc = "findHist", !.revs = s] = k
    <3> HIDE DEF s
    <3> QED
      BY <1>3, EdPcRevs
  <2>8. WDo(e, k)
    BY <1>9, <2>7 DEF ReadHistory
  <2> HIDE DEF k
  <2>9. QED
    BY <1>4, <2>6, <2>8
<1>10. CASE FindHistory(e)
  <2> DEFINE j == ed[e]
             h == HistNow
             k == MkEd("insertHist", j.text, j.old, h, j.rev, j.revs)
  <2>1. j.pc = "findHist" /\ UnderWay(j)
    BY <1>2, <1>10 DEF FindHistory
  <2>2. Whole /\ j.old = PageNow /\ PageNow > 0 /\ TellsAhead(j.revs, j.text)
    BY <2>1 DEF UnderWay
  <2>3. k.pc = "insertHist" /\ k.old = j.old /\ k.revs = j.revs /\ k.text = j.text /\ k.hold = h
    BY MkEdFields
  <2>4. UnderWay(k)
    <3> HIDE DEF k
    <3>1. QED
      BY <2>2, <2>3 DEF UnderWay
  <2>5. [j EXCEPT !.pc = "insertHist", !.hold = h] = k
    <3> HIDE DEF h
    <3> QED
      BY <1>3, EdPcHold
  <2>6. WDo(e, k)
    BY <1>10, <2>5 DEF FindHistory
  <2> HIDE DEF k
  <2>7. QED
    BY <1>4, <2>4, <2>6
<1>11. QED
  BY <1>5, <1>6, <1>7, <1>8, <1>9, <1>10 DEF WkQuiet

-----------------------------------------------------------------------------
(* Page and history stay in agreement: the history is written. *)
LEMMA WkInsertHistoryKeeps ==
    ASSUME WkInv, NEW e \in Editors, NEW ok \in BOOLEAN, InsertHistory(e, ok), marred' = FALSE
    PROVE  WkWhole'
<1> DEFINE j == ed[e]
           c == wnext + 1
<1>1. marred = FALSE /\ past' = past /\ j.pc = "insertHist" /\ c \in WikiNums /\ wnext \in Nat
  BY WikiBounds DEF InsertHistory, WkInv, WkTypes, WikiNums
<1>2. UnderWay(j) /\ (\A f \in Editors \ {e} : ed[f].pc = "idle") /\ Descends
  BY <1>1, WkWholeStart DEF WkInv
<1>3. Whole /\ j.old = PageNow /\ PageNow > 0 /\ TellsAhead(j.revs, j.text) /\ j.hold = HistNow
  BY <1>1, <1>2 DEF UnderWay
<1>4. WkTypes /\ WkBounds /\ ed \in [Editors -> EdJobs] /\ ed[e] \in EdJobs /\ wmsg \in [WikiNums -> WkMsgs]
  BY DEF WkInv, WkTypes
<1>5. Descends'
  BY <1>1, <1>2 DEF Descends
<1>6. CASE ok = FALSE
  <2>1. WDo(e, EdIdle) /\ UNCHANGED <<wmsg, past>>
    BY <1>6 DEF InsertHistory
  <2>2. ed'[e] = EdIdle /\ \A f \in Editors \ {e} : ed'[f] = ed[f]
    BY <1>4, <2>1, EdSet
  <2>3. UnderWay(ed[e])'
    BY <1>3, <2>1, <2>2, UnderWaySame, UnderWayIdle, EdIdleMade
  <2>4. QED
    BY <1>2, <1>5, <2>2, <2>3, WkWholeDone
<1>7. CASE ok = TRUE
  <2> DEFINE p == IF j.hold > 0 THEN "unlinkHist" ELSE "insert"
             k == MkEd(p, j.text, j.old, j.hold, j.rev, <<>>)
             m == [st |-> "hist", text |-> 0, revs |-> j.revs]
  <2>1. wmsg' = [wmsg EXCEPT ![c] = m] /\ WDo(e, [j EXCEPT !.pc = p, !.revs = <<>>])
    BY <1>7 DEF InsertHistory
  <2>2. m.st = "hist" /\ m.revs = j.revs
    OBVIOUS
  <2> HIDE DEF m
  <2>3. wmsg'[c] = m /\ \A n \in WikiNums \ {c} : wmsg'[n] = wmsg[n]
    BY <1>1, <1>4, <2>1, Inserted
  <2>4. [j EXCEPT !.pc = p, !.revs = <<>>] = k
    <3> HIDE DEF p
    <3> QED
      BY <1>4, EdPcRevs
  <2>5. ed'[e] = k /\ \A f \in Editors \ {e} : ed'[f] = ed[f]
    BY <1>4, <2>1, <2>4, EdSet
  <2>6. k.pc = p /\ k.text = j.text /\ k.old = j.old /\ k.hold = j.hold
    <3> HIDE DEF p
    <3> QED
      BY MkEdFields
  <2> HIDE DEF k
  <2>7. \A n \in WikiNums : n > wnext => wmsg[n].st = "none"
    BY <1>4 DEF WkBounds
  <2>8. wmsg[c].st = "none" /\ c > wnext
    BY <1>1, <2>7
  <2>9. \A n \in WikiNums : n <= wnext \/ n = c \/ wmsg[n].st = "none"
    BY <1>1, <2>7 DEF WikiNums
  <2> HIDE DEF c
  <2>10. PageNow' = PageNow
    <3>1. \A n \in WikiNums : wmsg'[n].st = "page" <=> wmsg[n].st = "page"
      BY <2>2, <2>3, <2>8
    <3>2. QED
      BY <3>1, SameNewest DEF PageNow
  <2>11. HistNow' = c
    <3>1. \A n \in WikiNums : wmsg'[n].st = "hist" => n <= c
      BY <1>1, <2>3, <2>9 DEF c, WikiNums
    <3>2. QED
      BY <1>1, <2>2, <2>3, <3>1, AddedNewest DEF HistNow
  <2>12. HistoryOf(HistNow)' = j.revs
    BY <1>1, <2>2, <2>3, <2>11 DEF HistoryOf, WikiNums
  <2>13. Newest(PageNow) /\ OnlyOne("page")
    BY <1>3, <1>4, WholePage DEF Whole
  <2>14. Newest(PageNow)' /\ OnlyOne("page")'
    BY <1>1, <2>2, <2>3, <2>8, <2>10, <2>13 DEF Newest, OnlyOne
  <2>15. TellsAhead(HistoryOf(HistNow), ed[e].text)'
    BY <1>1, <1>3, <2>5, <2>6, <2>12 DEF TellsAhead
  <2>16. OnlyOne("hist") /\ (HistNow = 0 => \A n \in WikiNums : wmsg[n].st # "hist")
         /\ HistNow \in 0..MaxWikiMsg /\ HistNow <= wnext /\ (HistNow > 0 => HistNow \in WikiNums /\ wmsg[HistNow].st = "hist")
    BY <1>3, <1>4, FoundNewest, NowTyped DEF Whole, NewestFound, HistNow
  <2>17. UnderWay(ed[e])'
    <3>1. CASE HistNow > 0
      <4>1. ed'[e].pc = "unlinkHist" /\ ed'[e].hold = HistNow /\ ed'[e].old = PageNow
        BY <1>3, <2>5, <2>6, <3>1
      <4>2. HistNow < c
        BY <1>1, <2>16 DEF c
      <4>3. \A n \in WikiNums : wmsg'[n].st = "hist" <=> n \in {HistNow, c}
        BY <2>2, <2>3, <2>16, <3>1, <4>2 DEF OnlyOne
      <4>4. QED
        BY <2>10, <2>11, <2>14, <2>15, <4>1, <4>2, <4>3 DEF UnderWay
    <3>2. CASE HistNow = 0
      <4>1. ed'[e].pc = "insert" /\ ed'[e].old = PageNow
        BY <1>3, <2>5, <2>6, <3>2
      <4>2. OnlyOne("hist")'
        BY <2>3, <2>16, <3>2 DEF OnlyOne
      <4>3. QED
        BY <1>3, <2>10, <2>11, <2>14, <2>15, <4>1, <4>2 DEF UnderWay
    <3>3. QED
      BY <2>16, <3>1, <3>2
  <2>18. QED
    BY <1>2, <1>5, <2>5, <2>17, WkWholeDone
<1>8. QED
  BY <1>6, <1>7

LEMMA WkUnlinkHistoryKeeps ==
    ASSUME WkInv, NEW e \in Editors, UnlinkHistory(e), marred' = FALSE
    PROVE  WkWhole'
<1> DEFINE j == ed[e]
           h == j.hold
           k == MkEd("insert", j.text, j.old, 0, j.rev, j.revs)
<1>1. marred = FALSE /\ past' = past /\ j.pc = "unlinkHist" /\ wnext \in Nat
  BY DEF UnlinkHistory, WkInv, WkTypes
<1>2. UnderWay(j) /\ (\A f \in Editors \ {e} : ed[f].pc = "idle") /\ Descends
  BY <1>1, WkWholeStart DEF WkInv
<1>3. /\ TellsAhead(HistoryOf(HistNow), j.text) /\ h < HistNow /\ OnlyOne("page") /\ Newest(PageNow) /\ j.old = PageNow
      /\ \A n \in WikiNums : wmsg[n].st = "hist" <=> n \in {h, HistNow}
  BY <1>1, <1>2 DEF UnderWay
<1>4. WkTypes /\ WkBounds /\ ed \in [Editors -> EdJobs] /\ ed[e] \in EdJobs /\ wmsg \in [WikiNums -> WkMsgs]
  BY DEF WkInv, WkTypes
<1>5. Descends'
  BY <1>1, <1>2 DEF Descends
<1>6. wmsg' = [wmsg EXCEPT ![h].st = "gone", ![h].revs = <<>>] /\ WDo(e, k)
  <2>1. [j EXCEPT !.pc = "insert", !.hold = 0] = k
    BY <1>4, EdPcHold
  <2>2. QED
    BY <2>1 DEF UnlinkHistory
<1>7. ed'[e] = k /\ \A f \in Editors \ {e} : ed'[f] = ed[f]
  BY <1>4, <1>6, EdSet
<1>8. k.pc = "insert" /\ k.text = j.text /\ k.old = j.old
  BY MkEdFields
<1> HIDE DEF k
<1>9. h \in Nat /\ h > 0 /\ HistNow \in Nat /\ HistNow \in WikiNums /\ wmsg[HistNow].st = "hist" /\ h \in WikiNums
  <2>1. h \in Nat /\ h > 0
    BY <1>1, <1>4 DEF EdJobs, WkBounds, EdBounds
  <2>2. HistNow \in Nat /\ HistNow > 0
    BY <1>3, <1>4, <2>1, NowTyped
  <2>3. HistNow \in WikiNums /\ wmsg[HistNow].st = "hist"
    BY <1>4, <2>2, NowTyped
  <2>4. QED
    BY <1>3, <2>1, <2>2, <2>3, WikiBounds DEF WikiNums
<1>10. wmsg'[h].st = "gone" /\ \A n \in WikiNums \ {h} : wmsg'[n] = wmsg[n]
  BY <1>4, <1>6, <1>9, UnlinkedHist
<1>11. HistNow # h
  BY <1>3, <1>9
<1>12. wmsg'[HistNow] = wmsg[HistNow] /\ \A n \in WikiNums : wmsg'[n].st = "hist" => n = HistNow
  BY <1>3, <1>9, <1>10, <1>11
<1>13. HistNow' = HistNow
  <2> DEFINE g == HistNow
  <2> HIDE DEF g
  <2>1. g \in WikiNums /\ wmsg'[g].st = "hist" /\ \A n \in WikiNums : wmsg'[n].st = "hist" => n <= g
    BY <1>9, <1>12 DEF g
  <2>2. FindNewest("hist")' = g
    BY <2>1, AddedNewest
  <2>3. QED
    BY <2>2 DEF HistNow, g
<1>14. HistoryOf(HistNow)' = HistoryOf(HistNow)
  BY <1>9, <1>12, <1>13 DEF HistoryOf
<1>15. PageNow \in WikiNums /\ wmsg[PageNow].st = "page"
  BY <1>3 DEF Newest
<1>16. wmsg[h].st = "hist"
  BY <1>3, <1>9
<1>17. PageNow' = PageNow
  <2>1. \A n \in WikiNums : wmsg'[n].st = "page" <=> wmsg[n].st = "page"
    BY <1>9, <1>10, <1>16
  <2>2. QED
    BY <2>1, SameNewest DEF PageNow
<1>18. Newest(PageNow)' /\ OnlyOne("page")' /\ OnlyOne("hist")'
  <2>1. PageNow # h
    BY <1>15, <1>16
  <2>2. OnlyOne("page")' /\ OnlyOne("hist")'
    BY <1>3, <1>10, <1>12 DEF OnlyOne
  <2>3. wmsg'[PageNow] = wmsg[PageNow]
    BY <1>10, <1>15, <2>1
  <2>4. Newest(PageNow)'
    BY <1>1, <1>3, <1>17, <2>3 DEF Newest
  <2>5. QED
    BY <2>2, <2>4
<1>19. TellsAhead(HistoryOf(HistNow), ed[e].text)'
  BY <1>1, <1>3, <1>7, <1>8, <1>14 DEF TellsAhead
<1>20. PageNow > 0
  BY <1>15, WikiBounds DEF WikiNums
<1>21. UnderWay(ed[e])'
  BY <1>3, <1>7, <1>8, <1>17, <1>18, <1>19, <1>20 DEF UnderWay
<1>22. QED
  BY <1>2, <1>5, <1>7, <1>21, WkWholeDone

(* The page is written: its history then tells of every version before it. *)
LEMMA WkInsertPageKeeps ==
    ASSUME WkInv, NEW e \in Editors, NEW ok \in BOOLEAN, InsertPage(e, ok), marred' = FALSE
    PROVE  WkWhole'
<1> DEFINE j == ed[e]
           c == wnext + 1
<1>1. j.pc = "insert" /\ c \in WikiNums /\ wnext \in Nat /\ marred \in BOOLEAN /\ Mar(~ok /\ j.old > 0, IF ok THEN <<[rev |-> c, text |-> j.text]>> \o past ELSE past)
  BY WikiBounds DEF InsertPage, WkInv, WkTypes, WikiNums
<1>2. marred = FALSE /\ (ok = FALSE => ~ (j.old > 0)) /\ past' = IF ok THEN <<[rev |-> c, text |-> j.text]>> \o past ELSE past
  <2>1. ~marred /\ ~(~ok /\ j.old > 0)
    BY <1>1 DEF Mar
  <2>2. past' = IF ok THEN <<[rev |-> c, text |-> j.text]>> \o past ELSE past
    BY <1>1, <2>1 DEF Mar
  <2>3. QED
    BY <1>1, <2>1, <2>2
<1>3. UnderWay(j) /\ (\A f \in Editors \ {e} : ed[f].pc = "idle") /\ Descends
  BY <1>1, <1>2, WkWholeStart DEF WkInv
<1>4. \/ j.old = 0 /\ Whole /\ PageNow = 0
      \/ /\ j.old > 0 /\ OnlyOne("page") /\ Newest(PageNow) /\ j.old = PageNow
         /\ OnlyOne("hist") /\ TellsAhead(HistoryOf(HistNow), j.text)
  BY <1>1, <1>3 DEF UnderWay
<1>5. /\ WkTypes /\ WkBounds /\ ed \in [Editors -> EdJobs] /\ ed[e] \in EdJobs /\ wmsg \in [WikiNums -> WkMsgs]
      /\ past \in Seq(WkPasts) /\ j.old \in Nat /\ j.old <= wnext /\ j.text \in Texts
  BY <1>1 DEF WkInv, WkTypes, WkBounds, EdBounds, EdJobs
<1>6. CASE ok = FALSE
  <2>1. WDo(e, EdIdle) /\ UNCHANGED <<wmsg, past>> /\ Whole
    BY <1>2, <1>4, <1>6 DEF InsertPage
  <2>2. ed'[e] = EdIdle /\ \A f \in Editors \ {e} : ed'[f] = ed[f]
    BY <1>5, <2>1, EdSet
  <2>3. UnderWay(ed[e])' /\ Descends'
    BY <1>3, <2>1, <2>2, UnderWaySame, UnderWayIdle, EdIdleMade DEF Descends
  <2>4. QED
    BY <1>3, <2>2, <2>3, WkWholeDone
<1>7. CASE ok = TRUE
  <2> DEFINE m == [st |-> "page", text |-> j.text, revs |-> <<>>]
             x == [rev |-> c, text |-> j.text]
             k == MkEd("unlink", j.text, j.old, j.hold, j.rev, j.revs)
  <2>1. wmsg' = [wmsg EXCEPT ![c] = m] /\ WDo(e, IF j.old > 0 THEN k ELSE EdIdle) /\ past' = <<x>> \o past
    <3>1. [j EXCEPT !.pc = "unlink"] = k
      BY <1>5, EdPc
    <3>2. QED
      BY <1>2, <1>7, <3>1 DEF InsertPage
  <2>2. m.st = "page" /\ m.text = j.text /\ x.rev = c /\ x.text = j.text /\ x = [rev |-> c, text |-> m.text] /\ x \in WkPasts
    BY <1>1, <1>5 DEF WkPasts
  <2>3. k.pc = "unlink" /\ k.old = j.old /\ EdIdle.pc = "idle"
    BY MkEdFields, EdIdleMade
  <2> HIDE DEF m, x, k
  <2>4. wmsg'[c] = m /\ \A n \in WikiNums \ {c} : wmsg'[n] = wmsg[n]
    BY <1>1, <1>5, <2>1, Inserted
  <2>5. ed'[e] = (IF j.old > 0 THEN k ELSE EdIdle) /\ \A f \in Editors \ {e} : ed'[f] = ed[f]
    BY <1>5, <2>1, EdSet
  <2>6. Len(past') = Len(past) + 1 /\ past'[1] = x /\ \A i \in 1..Len(past') : i > 1 => past'[i] = past[i - 1]
    BY <1>5, <2>1, <2>2
  <2>7. Len(past) \in Nat /\ \A i \in 1..Len(past') : i > 1 => i - 1 \in 1..Len(past)
    BY <1>5, <2>6
  <2>8. Descends'
    <3>1. \A i \in 1..Len(past) : past[i].rev \in 1..wnext
      BY <1>5 DEF WkBounds
    <3>2. ASSUME NEW a \in 1..Len(past'), NEW b \in 1..Len(past'), a < b PROVE past'[a].rev > past'[b].rev
      <4>1. b > 1 /\ b - 1 \in 1..Len(past) /\ past'[b] = past[b - 1]
        BY <2>6, <2>7, <3>2
      <4>2. CASE a = 1
        BY <1>1, <2>2, <2>6, <3>1, <4>1, <4>2
      <4>3. CASE a > 1
        <5>1. a - 1 \in 1..Len(past) /\ past'[a] = past[a - 1] /\ a - 1 < b - 1
          BY <2>6, <2>7, <3>2, <4>3
        <5>2. QED
          BY <1>3, <4>1, <5>1 DEF Descends
      <4>4. QED
        BY <2>7, <4>2, <4>3
    <3>3. QED
      BY <3>2 DEF Descends
  <2>9. \A n \in WikiNums : n > wnext => wmsg[n].st = "none"
    BY <1>5 DEF WkBounds
  <2>10. wmsg[c].st = "none" /\ c > wnext
    BY <1>1, <2>9
  <2>11. \A n \in WikiNums : n <= wnext \/ n = c \/ wmsg[n].st = "none"
    BY <1>1, <2>9 DEF WikiNums
  <2> HIDE DEF c
  <2>12. HistNow' = HistNow
    <3>1. \A n \in WikiNums : wmsg'[n].st = "hist" <=> wmsg[n].st = "hist"
      BY <2>2, <2>4, <2>10
    <3>2. QED
      BY <3>1, SameNewest DEF HistNow
  <2>13. PageNow' = c
    <3>1. \A n \in WikiNums : wmsg'[n].st = "page" => n <= c
      BY <1>1, <2>4, <2>11 DEF c, WikiNums
    <3>2. QED
      BY <1>1, <2>2, <2>4, <3>1, AddedNewest DEF PageNow
  <2>14. HistoryOf(HistNow)' = HistoryOf(HistNow)
    <3>1. HistNow > 0 => HistNow \in WikiNums /\ wmsg[HistNow].st = "hist"
      BY <1>5, NowTyped
    <3>2. HistNow \in Nat
      BY <1>5, NowTyped
    <3>3. QED
      BY <2>4, <2>10, <2>12, <3>1, <3>2 DEF HistoryOf
  <2>15. Newest(PageNow)'
    BY <1>1, <2>2, <2>4, <2>6, <2>7, <2>13 DEF Newest
  <2>16. OnlyOne("hist")'
    <3>1. OnlyOne("hist")
      BY <1>4 DEF Whole
    <3>2. QED
      BY <2>2, <2>4, <3>1 DEF OnlyOne
  <2>17. CASE j.old = 0
    <3>1. past = <<>> /\ NoneOf("page") /\ NoneOf("hist")
      BY <1>4, <1>5, <2>17, WholePage
    <3>2. OnlyOne("page")'
      BY <2>4, <3>1 DEF OnlyOne, NoneOf
    <3>3. HistoryOf(HistNow) = <<>>
      <4>1. HistNow = 0
        BY <1>5, <3>1, NowTyped DEF NoneOf
      <4>2. QED
        BY <4>1 DEF HistoryOf
    <3>4. Tells(HistoryOf(HistNow))'
      BY <2>6, <2>14, <3>1, <3>3 DEF Tells
    <3>5. Whole'
      BY <2>15, <2>16, <3>2, <3>4 DEF Whole
    <3>6. UnderWay(ed[e])'
      BY <2>3, <2>5, <2>17, <3>5 DEF UnderWay
    <3>7. QED
      BY <1>3, <2>5, <2>8, <3>6, WkWholeDone
  <2>18. CASE j.old > 0
    <3>1. OnlyOne("page") /\ Newest(PageNow) /\ j.old = PageNow /\ TellsAhead(HistoryOf(HistNow), j.text)
      BY <1>4, <2>18
    <3>2. ed'[e].pc = "unlink" /\ ed'[e].old = PageNow
      BY <2>3, <2>5, <2>18, <3>1
    <3>3. \A n \in WikiNums : wmsg'[n].st = "page" <=> n \in {PageNow, c}
      BY <1>1, <2>2, <2>4, <2>10, <3>1 DEF OnlyOne, Newest
    <3>4. Tells(HistoryOf(HistNow))'
      <4> DEFINE revs == HistoryOf(HistNow)
      <4>1. Len(revs) = Len(past) /\ \A i \in 1..Len(revs) : /\ revs[i].rev = past[i].rev /\ revs[i].to = past[i].text
                                                            /\ revs[i].from = IF i = 1 THEN j.text ELSE past[i - 1].text
        BY <3>1 DEF TellsAhead
      <4> HIDE DEF revs
      <4>2. ASSUME NEW i \in 1..Len(revs)
            PROVE  revs[i].rev = past'[i + 1].rev /\ revs[i].to = past'[i + 1].text /\ revs[i].from = past'[i].text
        <5>1. i + 1 \in 1..Len(past') /\ i \in 1..Len(past') /\ i + 1 > 1 /\ (i + 1) - 1 = i
          BY <2>6, <2>7, <4>1, <4>2
        <5>2. past'[i + 1] = past[i]
          BY <2>6, <5>1
        <5>3. CASE i = 1
          BY <2>2, <2>6, <4>1, <5>2, <5>3
        <5>4. CASE i > 1
          BY <2>6, <4>1, <5>1, <5>2, <5>4
        <5>5. QED
          BY <4>1, <2>7, <5>3, <5>4
      <4>3. revs = HistoryOf(HistNow)'
        BY <2>14 DEF revs
      <4>4. QED
        BY <2>6, <2>7, <4>1, <4>2, <4>3 DEF Tells
    <3>5. PageNow < c
      BY <1>1, <1>5, <3>1 DEF c
    <3>6. UnderWay(ed[e])'
      BY <2>13, <2>15, <2>16, <3>2, <3>3, <3>4, <3>5 DEF UnderWay
    <3>7. QED
      BY <1>3, <2>5, <2>8, <3>6, WkWholeDone
  <2>19. QED
    BY <1>5, <2>17, <2>18
<1>8. QED
  BY <1>6, <1>7

(* The old version of the page goes. *)
LEMMA WkUnlinkPageKeeps ==
    ASSUME WkInv, NEW e \in Editors, UnlinkPage(e), marred' = FALSE
    PROVE  WkWhole'
<1> DEFINE j == ed[e]
           o == j.old
<1>1. marred = FALSE /\ past' = past /\ j.pc = "unlink" /\ WDo(e, EdIdle)
      /\ wmsg' = [wmsg EXCEPT ![o].st = "gone", ![o].text = 0]
  BY DEF UnlinkPage
<1>2. UnderWay(j) /\ (\A f \in Editors \ {e} : ed[f].pc = "idle") /\ Descends
  BY <1>1, WkWholeStart DEF WkInv
<1>3. /\ Newest(PageNow) /\ OnlyOne("hist") /\ Tells(HistoryOf(HistNow)) /\ o < PageNow
      /\ \A n \in WikiNums : wmsg[n].st = "page" <=> n \in {o, PageNow}
  BY <1>1, <1>2 DEF UnderWay
<1>4. WkTypes /\ WkBounds /\ ed \in [Editors -> EdJobs] /\ ed[e] \in EdJobs /\ wmsg \in [WikiNums -> WkMsgs]
  BY DEF WkInv, WkTypes
<1>5. Descends'
  BY <1>1, <1>2 DEF Descends
<1>6. ed'[e] = EdIdle /\ \A f \in Editors \ {e} : ed'[f] = ed[f]
  BY <1>1, <1>4, EdSet
<1>7. PageNow \in WikiNums /\ wmsg[PageNow].st = "page" /\ o \in WikiNums
  <2>1. o \in Nat /\ o > 0
    BY <1>1, <1>4 DEF EdJobs, WkBounds, EdBounds
  <2>2. PageNow \in WikiNums /\ wmsg[PageNow].st = "page"
    BY <1>3 DEF Newest
  <2>3. QED
    BY <1>3, <2>1, <2>2, WikiBounds DEF WikiNums
<1>8. wmsg'[o].st = "gone" /\ \A n \in WikiNums \ {o} : wmsg'[n] = wmsg[n]
  BY <1>1, <1>4, <1>7, UnlinkedPage
<1>9. wmsg[o].st = "page" /\ PageNow # o
  BY <1>3, <1>7, WikiBounds DEF WikiNums
<1>10. wmsg'[PageNow] = wmsg[PageNow] /\ \A n \in WikiNums : wmsg'[n].st = "page" => n = PageNow
  BY <1>3, <1>7, <1>8, <1>9
<1>11. PageNow' = PageNow
  <2> DEFINE g == PageNow
  <2> HIDE DEF g
  <2>1. g \in WikiNums /\ wmsg'[g].st = "page" /\ \A n \in WikiNums : wmsg'[n].st = "page" => n <= g
    BY <1>7, <1>10, WikiBounds DEF g, WikiNums
  <2>2. FindNewest("page")' = g
    BY <2>1, AddedNewest
  <2>3. QED
    BY <2>2 DEF PageNow, g
<1>12. HistNow' = HistNow
  <2>1. \A n \in WikiNums : wmsg'[n].st = "hist" <=> wmsg[n].st = "hist"
    BY <1>8, <1>9
  <2>2. QED
    BY <2>1, SameNewest DEF HistNow
<1>13. HistoryOf(HistNow)' = HistoryOf(HistNow)
  <2>1. HistNow \in Nat /\ (HistNow > 0 => HistNow \in WikiNums /\ wmsg[HistNow].st = "hist")
    BY <1>4, NowTyped
  <2>2. QED
    BY <1>8, <1>9, <1>12, <2>1 DEF HistoryOf
<1>14. Newest(PageNow)' /\ OnlyOne("page")' /\ OnlyOne("hist")'
  <2>1. OnlyOne("hist")'
    BY <1>3, <1>8 DEF OnlyOne
  <2>2. OnlyOne("page")'
    BY <1>10 DEF OnlyOne
  <2>3. Newest(PageNow)'
    BY <1>1, <1>3, <1>10, <1>11 DEF Newest
  <2>4. QED
    BY <2>1, <2>2, <2>3
<1>15. Tells(HistoryOf(HistNow))'
  BY <1>1, <1>3, <1>13 DEF Tells
<1>16. UnderWay(ed[e])'
  BY <1>6, <1>14, <1>15, EdIdleMade DEF UnderWay, Whole
<1>17. QED
  BY <1>2, <1>5, <1>6, <1>16, WkWholeDone

(* The page goes, and then its history. *)
LEMMA WkRemoveKeeps ==
    ASSUME WkInv, NEW e \in Editors, Remove(e), marred' = FALSE
    PROVE  WkWhole'
<1> DEFINE k == MkEd("unlinkComp", 0, 0, 0, 0, <<>>)
<1>1. ed[e].pc = "idle" /\ PageNow > 0 /\ WDo(e, k) /\ Crossing(e)
      /\ wmsg' = [wmsg EXCEPT ![PageNow].st = "gone", ![PageNow].text = 0]
  BY EdIdlePc DEF Remove
<1>2. marred = FALSE /\ past' = past /\ ~Busy(e)
  <2>1. ~marred /\ ~Busy(e) /\ marred \in BOOLEAN
    BY <1>1 DEF Crossing, Mar, WkInv, WkTypes
  <2>2. past' = past
    BY <1>1, <2>1 DEF Crossing, Mar
  <2>3. QED
    BY <2>1, <2>2
<1>3. Whole /\ (\A f \in Editors \ {e} : ed[f].pc = "idle") /\ Descends
  BY <1>1, <1>2, WkWholeStart DEF WkInv
<1>4. WkTypes /\ WkBounds /\ ed \in [Editors -> EdJobs] /\ wmsg \in [WikiNums -> WkMsgs]
  BY DEF WkInv, WkTypes
<1>5. ed'[e] = k /\ \A f \in Editors \ {e} : ed'[f] = ed[f]
  BY <1>1, <1>4, EdSet
<1>6. k.pc = "unlinkComp"
  BY MkEdFields
<1> HIDE DEF k
<1>7. PageNow \in WikiNums /\ wmsg[PageNow].st = "page" /\ OnlyOne("page") /\ OnlyOne("hist")
  BY <1>1, <1>3, <1>4, NowTyped DEF Whole
<1>8. wmsg'[PageNow].st = "gone" /\ \A n \in WikiNums \ {PageNow} : wmsg'[n] = wmsg[n]
  BY <1>1, <1>4, <1>7, UnlinkedPage
<1>9. NoneOf("page")' /\ OnlyOne("hist")'
  BY <1>7, <1>8 DEF NoneOf, OnlyOne
<1>10. UnderWay(ed[e])'
  BY <1>5, <1>6, <1>9 DEF UnderWay
<1>11. Descends'
  BY <1>2, <1>3 DEF Descends
<1>12. QED
  BY <1>3, <1>5, <1>10, <1>11, WkWholeDone

LEMMA WkRemoveHistoryKeeps ==
    ASSUME WkInv, NEW e \in Editors, RemoveHistory(e), marred' = FALSE
    PROVE  WkWhole'
<1>1. ed[e].pc = "unlinkComp" /\ past' = <<>> /\ WDo(e, EdIdle)
      /\ wmsg' = IF HistNow = 0 THEN wmsg ELSE [wmsg EXCEPT ![HistNow].st = "gone", ![HistNow].revs = <<>>]
  BY DEF RemoveHistory
<1>2. WkTypes /\ WkBounds /\ ed \in [Editors -> EdJobs] /\ wmsg \in [WikiNums -> WkMsgs] /\ marred \in BOOLEAN
  BY DEF WkInv, WkTypes
<1>3. ed'[e] = EdIdle /\ \A f \in Editors \ {e} : ed'[f] = ed[f]
  BY <1>1, <1>2, EdSet
<1>4. HistNow \in Nat /\ (HistNow > 0 => HistNow \in WikiNums /\ wmsg[HistNow].st = "hist")
      /\ (HistNow = 0 => \A n \in WikiNums : wmsg[n].st # "hist")
  BY <1>2, NowTyped, FoundNewest DEF NewestFound, HistNow
<1>5. (\A f \in Editors \ {e} : ed[f].pc = "idle") /\ \A n \in WikiNums \ {HistNow} : wmsg[n].st \notin {"page", "hist"}
  <2>1. CASE marred = FALSE
    <3>1. UnderWay(ed[e]) /\ \A f \in Editors \ {e} : ed[f].pc = "idle"
      BY <1>1, <2>1, WkWholeStart DEF WkInv
    <3>2. NoneOf("page") /\ OnlyOne("hist")
      BY <1>1, <3>1 DEF UnderWay
    <3>3. QED
      BY <1>4, <3>1, <3>2 DEF NoneOf, OnlyOne
  <2>2. CASE marred = TRUE
    BY <2>2 DEF RemoveHistory, Busy
  <2>3. QED
    BY <1>2, <2>1, <2>2
<1>6. \A n \in WikiNums : wmsg'[n].st \notin {"page", "hist"}
  <2>1. CASE HistNow = 0
    BY <1>1, <1>5, <2>1, WikiBounds DEF WikiNums
  <2>2. CASE HistNow > 0
    <3>1. wmsg'[HistNow].st = "gone" /\ \A n \in WikiNums \ {HistNow} : wmsg'[n] = wmsg[n]
      BY <1>1, <1>2, <1>4, <2>2, UnlinkedHist
    <3>2. QED
      BY <1>5, <3>1
  <2>3. QED
    BY <1>4, <2>1, <2>2
<1>7. Whole'
  BY <1>1, <1>6 DEF Whole, OnlyOne, NoneOf
<1>8. UnderWay(ed[e])' /\ Descends'
  BY <1>1, <1>3, <1>7, EdIdleMade DEF UnderWay, Descends
<1>9. QED
  BY <1>3, <1>5, <1>8, WkWholeDone

-----------------------------------------------------------------------------
LEMMA WkInitial == WikiInit => WkInv
<1> SUFFICES ASSUME WikiInit PROVE WkInv
  OBVIOUS
<1>1. <<>> \in Seq(WkRevs) /\ <<>> \in Seq(WkPasts) /\ Len(<<>>) = 0
  OBVIOUS
<1>2. Absent \in WkMsgs /\ Absent.st = "none" /\ Absent.revs = <<>>
  BY <1>1 DEF Absent, WkMsgs
<1>3. WkTypes
  <2>1. wmsg \in [WikiNums -> WkMsgs] /\ past \in Seq(WkPasts)
    BY <1>1, <1>2 DEF WikiInit
  <2>2. ed \in [Editors -> EdJobs]
    BY EdIdleMade DEF WikiInit
  <2>3. wnext = 0 /\ marred = FALSE
    BY DEF WikiInit
  <2>4. wnext \in 0..MaxWikiMsg
    BY <2>3, WikiBounds
  <2>5. marred \in BOOLEAN
    BY <2>3
  <2>6. QED
    BY <2>1, <2>2, <2>4, <2>5 DEF WkTypes
<1>4. \A e \in Editors : EdBounds(ed[e])
  BY <1>1 DEF WikiInit, EdBounds, EdIdle, RevsBelow
<1>5. \A n \in WikiNums : wmsg[n].st = "none" /\ RevsBelow(wmsg[n].revs, n - 1)
  BY <1>1, <1>2 DEF WikiInit, RevsBelow
<1>6. WkBounds
  BY <1>1, <1>4, <1>5 DEF WkBounds, WikiInit
<1>7. WkWhole
  BY <1>1, <1>5, EdIdleMade DEF WikiInit, WkWhole, Whole, OnlyOne, NoneOf
<1>8. QED
  BY <1>3, <1>6, <1>7 DEF WkInv

LEMMA WkStep == WkInv /\ [WikiNext]_kvars => WkInv'
<1> SUFFICES ASSUME WkInv, [WikiNext]_kvars PROVE WkInv'
  OBVIOUS
<1>1. WkTypes' /\ WkBounds'
  BY WkBoundsStep DEF WkInv
<1>2. WkWhole'
  <2> SUFFICES ASSUME marred' = FALSE PROVE WkWhole'
    BY DEF WkWhole
  <2>1. ASSUME NEW e \in Editors, WkQuiet(e) PROVE WkWhole'
    BY <2>1, WkQuietKeeps
  <2>2. ASSUME NEW e \in Editors, NEW ok \in BOOLEAN, InsertHistory(e, ok) \/ InsertPage(e, ok) PROVE WkWhole'
    BY <2>2, WkInsertHistoryKeeps, WkInsertPageKeeps
  <2>3. ASSUME NEW e \in Editors, UnlinkHistory(e) \/ UnlinkPage(e) \/ Remove(e) \/ RemoveHistory(e) PROVE WkWhole'
    BY <2>3, WkUnlinkHistoryKeeps, WkUnlinkPageKeeps, WkRemoveKeeps, WkRemoveHistoryKeeps
  <2>4. ~ WikiCrash
    BY DEF WikiCrash, Mar
  <2>5. CASE UNCHANGED kvars
    <3>1. wmsg' = wmsg /\ past' = past /\ marred = FALSE /\ ed' = ed
      BY <2>5 DEF kvars
    <3>2. WkWhole
      BY DEF WkInv
    <3>3. CASE \E e \in Editors : ed[e].pc # "idle"
      <4>1. PICK e \in Editors : ed[e].pc # "idle"
        BY <3>3
      <4>2. UnderWay(ed[e]) /\ (\A f \in Editors \ {e} : ed[f].pc = "idle") /\ Descends
        BY <3>1, <3>2, <4>1, WkWholeStart
      <4>3. UnderWay(ed[e])' /\ Descends'
        BY <3>1, <4>2, UnderWaySame DEF Descends
      <4>4. QED
        BY <3>1, <4>2, <4>3, WkWholeDone
    <3>4. CASE \A e \in Editors : ed[e].pc = "idle"
      <4>1. Whole /\ Descends
        BY <3>1, <3>2, <3>4 DEF WkWhole, Descends
      <4>2. PageNow' = PageNow /\ HistNow' = HistNow
        BY <3>1 DEF PageNow, HistNow, FindNewest
      <4>3. Whole' /\ Descends'
        BY <3>1, <4>1, <4>2 DEF Whole, OnlyOne, NoneOf, Newest, Tells, HistoryOf, Descends
      <4>4. QED
        BY <3>1, <3>4, <4>3 DEF WkWhole, Descends
    <3>5. QED
      BY <3>3, <3>4
  <2>6. QED
    BY <2>1, <2>2, <2>3, <2>4, <2>5 DEF WikiNext, WkQuiet
<1>3. QED
  BY <1>1, <1>2 DEF WkInv

LEMMA WkTyped == WkInv => WikiTypeOK
<1> SUFFICES ASSUME WkInv PROVE WikiTypeOK
  OBVIOUS
<1>1. WkTypes /\ WkBounds
  BY DEF WkInv
<1>2. wnext \in 0..MaxWikiMsg /\ \A e \in Editors : ed[e].pc \in EdPcs
  BY <1>1 DEF WkTypes, EdJobs
<1>3. \A n \in WikiNums : /\ wmsg[n].st \in {"none", "page", "hist", "gone"}
                          /\ wmsg[n].text \in Texts \cup {0}
                          /\ RevsBelow(wmsg[n].revs, n - 1)
  BY <1>1 DEF WkTypes, WkMsgs, WkBounds
<1>4. \A i \in 1..Len(past) : past[i].rev \in WikiNums /\ past[i].text \in Texts
  <2> TAKE i \in 1..Len(past)
  <2>1. past[i] \in WkPasts /\ past[i].rev \in 1..wnext
    BY <1>1 DEF WkTypes, WkBounds
  <2>2. QED
    BY <1>2, <2>1, WikiBounds DEF WkPasts, WikiNums
<1>5. QED
  BY <1>2, <1>3, <1>4 DEF WikiTypeOK, EdPcs, RevsBelow

(* Every request, message and version stays of its type, and the history   *)
(* that RecordRevision writes names messages older than the one it is in.   *)
THEOREM WikiTypeCorrect == WikiSpec => []WikiTypeOK
BY WkTyped, WkInitial, WkStep, PTL DEF WikiSpec

(* Walking a history that tells of the past arrives at each version's text. *)
LEMMA WalkArrives ==
    ASSUME WkTypes, Tells(HistoryOf(HistNow)), Descends, WkBounds,
           NEW i \in 1..Len(HistoryOf(HistNow))
    PROVE  Walk(past[1].text, HistoryOf(HistNow), HistoryOf(HistNow)[i].rev) = past[i + 1].text
<1> DEFINE revs == HistoryOf(HistNow)
           text == past[1].text
           fits(k) == \A a \in 1..k : revs[a].from = (IF a = 1 THEN text ELSE revs[a - 1].to)
           hits == {k \in 1..Len(revs) : revs[k].rev = revs[i].rev /\ fits(k)}
<1>1. Walk(text, revs, revs[i].rev) = IF hits = {} THEN 0 ELSE revs[Min(hits)].to
  BY DEF Walk
<1>2. revs \in Seq(WkRevs) /\ past \in Seq(WkPasts) /\ Len(revs) \in Nat
  BY NowTyped DEF WkTypes
<1>3. Len(revs) + 1 = Len(past) /\ \A a \in 1..Len(revs) : /\ revs[a].rev = past[a + 1].rev /\ revs[a].to = past[a + 1].text
                                                          /\ revs[a].from = past[a].text
  BY DEF Tells
<1> HIDE DEF revs
<1>4. \A a \in 1..Len(revs) : a + 1 \in 1..Len(past) /\ (a # 1 => a - 1 \in 1..Len(revs) /\ (a - 1) + 1 = a)
  BY <1>2, <1>3
<1>5. \A a \in 1..Len(revs) : revs[a].from = (IF a = 1 THEN text ELSE revs[a - 1].to)
  BY <1>3, <1>4
<1>6. i \in hits
  <2>1. \A a \in 1..i : a \in 1..Len(revs)
    BY <1>2 DEF revs
  <2>2. fits(i)
    BY <1>5, <2>1
  <2>3. QED
    BY <2>2 DEF revs
<1>7. \A k \in hits : k = i
  <2> SUFFICES ASSUME NEW k \in 1..Len(revs), revs[k].rev = revs[i].rev PROVE k = i
    OBVIOUS
  <2>1. i \in 1..Len(revs) /\ i + 1 \in 1..Len(past) /\ k + 1 \in 1..Len(past)
    BY <1>4 DEF revs
  <2>2. past[k + 1].rev = past[i + 1].rev
    BY <1>3, <2>1
  <2>3. past[k + 1].rev \in Nat
    <3>1. past[k + 1] \in WkPasts
      BY <1>2, <2>1
    <3>2. QED
      BY <3>1 DEF WkPasts
  <2>4. ~ (k + 1 < i + 1) /\ ~ (i + 1 < k + 1)
    BY <2>1, <2>2, <2>3 DEF Descends
  <2>5. QED
    BY <1>2, <2>1, <2>4
<1>8. Min(hits) = i
  <2>1. hits \subseteq Nat /\ hits # {}
    BY <1>2, <1>6
  <2> HIDE DEF hits
  <2>2. QED
    BY <1>7, <2>1, MinIsLeast
<1>9. i \in 1..Len(revs)
  BY DEF revs
<1> HIDE DEF hits
<1>10. Walk(text, revs, revs[i].rev) = past[i + 1].text
  BY <1>1, <1>3, <1>6, <1>8, <1>9
<1>11. QED
  BY <1>10 DEF revs

(* For any number of editors, texts and messages: once no request is under  *)
(* way, and unless one crossed another, was refused half way or was cut off, *)
(* the history that the save hook of UpsertByEuid and RecordRevision keep    *)
(* lists every earlier version, newest first, and RevisionRaw arrives at the *)
(* text of each.                                                            *)
THEOREM HistoryIsAlwaysWhole == WikiSpec => []HistoryIsWholeUnlessMarred
<1>1. WkInv => HistoryIsWholeUnlessMarred
  <2> SUFFICES ASSUME WkInv, \A e \in Editors : ed[e].pc = "idle", ~marred PROVE HistoryIsWholeUnlessMarred
    BY DEF HistoryIsWholeUnlessMarred
  <2> DEFINE revs == HistoryOf(HistNow)
  <2>1. WkTypes /\ WkBounds /\ Whole /\ Descends /\ marred = FALSE
    BY DEF WkInv, WkWhole, Descends, WkTypes
  <2>2. PageNow = 0 => past = <<>> /\ revs = <<>>
    <3> SUFFICES ASSUME PageNow = 0 PROVE past = <<>> /\ revs = <<>>
      OBVIOUS
    <3>1. past = <<>> /\ NoneOf("hist")
      BY <2>1, WholePage
    <3>2. HistNow = 0
      BY <2>1, <3>1, NowTyped DEF NoneOf
    <3>3. QED
      BY <3>1, <3>2 DEF HistoryOf
  <2>3. ASSUME PageNow > 0
        PROVE  /\ past # <<>> /\ past[1] = [rev |-> PageNow, text |-> wmsg[PageNow].text]
               /\ Len(revs) = Len(past) - 1
               /\ \A i \in 1..Len(revs) : /\ revs[i].rev = past[i + 1].rev
                                          /\ Walk(wmsg[PageNow].text, revs, revs[i].rev) = past[i + 1].text
    <3>1. Newest(PageNow) /\ Tells(revs)
      BY <2>1, <2>3, WholePage
    <3>2. past[1] = [rev |-> PageNow, text |-> wmsg[PageNow].text] /\ Len(past) > 0 /\ past \in Seq(WkPasts)
      BY <2>1, <3>1 DEF Newest, WkTypes
    <3>3. past[1].text = wmsg[PageNow].text
      BY <3>2
    <3>4. \A i \in 1..Len(revs) : Walk(past[1].text, revs, revs[i].rev) = past[i + 1].text
      BY <2>1, <3>1, WalkArrives
    <3>5. revs \in Seq(WkRevs)
      BY <2>1, NowTyped
    <3> HIDE DEF revs
    <3>6. Len(revs) = Len(past) - 1 /\ past # <<>>
      BY <3>1, <3>2, <3>5 DEF Tells
    <3>7. \A i \in 1..Len(revs) : revs[i].rev = past[i + 1].rev
      BY <3>1 DEF Tells
    <3>8. QED
      BY <3>2, <3>3, <3>4, <3>6, <3>7
  <2>4. QED
    BY <2>2, <2>3 DEF HistoryIsWholeUnlessMarred
<1>2. QED
  BY <1>1, WkInitial, WkStep, PTL DEF WikiSpec

-----------------------------------------------------------------------------
(* The composition: the component that runs keeps its invariant, and the    *)
(* others are not asked for theirs.                                         *)
ServicesInv ==
    /\ focus = "accounts" => AcInv
    /\ focus = "acme" => CaInv
    /\ focus = "wiki" => WkInv
    /\ focus = "express" => ExpressInv

(* An account, a certificate, a wiki page and the express messages of a     *)
(* user are well typed whichever of them runs, for every number of each.    *)
THEOREM ServicesTypeCorrect == MCSpec => []ServicesTypeOK
<1>1. MCInit => ServicesInv
  BY AcInitial, CaInitial, WkInitial, ExpressInitial DEF MCInit, ServicesInv
<1>2. ServicesInv /\ [MCNext]_servicesVars => ServicesInv'
  <2> SUFFICES ASSUME ServicesInv, [MCNext]_servicesVars PROVE ServicesInv'
    OBVIOUS
  <2>1. focus' = focus
    BY DEF MCNext, servicesVars
  <2>2. /\ focus = "accounts" => [AccountsNext]_acvars
        /\ focus = "acme" => [AcmeNext]_mvars
        /\ focus = "wiki" => [WikiNext]_kvars
        /\ focus = "express" => [ExpressNext]_exvars
    BY DEF MCNext, servicesVars
  <2>3. focus = "accounts" => AcInv'
    BY <2>2, AcInvStep DEF ServicesInv
  <2>4. focus = "acme" => CaInv'
    BY <2>2, CaInvStep DEF ServicesInv
  <2>5. focus = "wiki" => WkInv'
    BY <2>2, WkStep DEF ServicesInv
  <2>6. focus = "express" => ExpressInv'
    BY <2>2, ExpressInvStep DEF ServicesInv
  <2>7. QED
    BY <2>1, <2>3, <2>4, <2>5, <2>6 DEF ServicesInv
<1>3. ServicesInv => ServicesTypeOK
  BY AcTyped, CaTyped, WkTyped, ExTyped DEF ServicesInv, ServicesTypeOK
<1>4. QED
  BY <1>1, <1>2, <1>3, PTL DEF MCSpec
=============================================================================
