------------------------------ MODULE Express -------------------------------
(***************************************************************************)
(* Instant messages: the rows of citadel_express that the BBS shell, XMPP,  *)
(* the Citadel protocol and the web's chat page share. One user reads with  *)
(* several clients at once. A number is taken from the sequence in one      *)
(* statement and its row inserted in another, so rows may appear out of the *)
(* order of their numbers, and `ExpressChangeToken' is the largest number   *)
(* to be seen.                                                              *)
(***************************************************************************)
EXTENDS Naturals, FiniteSets, FiniteSetsExt

CONSTANTS Writers,    \* the people who write to the user
          Pollers,    \* XMPP, GEXP and the BBS prompt: PendingExpress, one by one
          Me,         \* the user, who writes to others
          Partners,   \* writers with whom the user opens a conversation of two
          MaxMsg,     \* bound: messages
          Limit       \* kChatScrollback, kMaxLines

ASSUME ExpressBounds == MaxMsg \in Nat /\ Limit \in Nat \ {0} /\ Me \notin Writers /\ Partners \subseteq Writers

VARIABLES exrow,     \* citadel_express by number
          taken,     \* numbers given out
          writing,   \* the number each writer is about to insert; 0 if none
          poll,      \* a poller: the rows it read and has not dealt with, and what it just wrote out
          chat,      \* the BBS shell's chat mode
          web,       \* the chat page: the browser's log and the request in progress
          shown,     \* history: numbers written out to the user
          excused    \* history: rows that a mark may cover unshown, and why
exvars == <<exrow, taken, writing, poll, chat, web, shown, excused>>

Nums == 1..MaxMsg
NoRow == [st |-> "none", from |-> Me, delivered |-> FALSE]
Everyone == "everyone"
Talks == Partners \cup {Everyone}

ExpressInit ==
    /\ exrow = [n \in Nums |-> NoRow]
    /\ taken = 0
    /\ writing = [w \in Writers \cup {Me} |-> 0]
    /\ poll = [p \in Pollers |-> [todo |-> {}, out |-> 0]]
    /\ chat = [pc |-> "off", with |-> Everyone, seen |-> 0, token |-> 0]
    /\ web = [pc |-> "idle", with |-> Everyone, since |-> 0, token |-> 0]
    /\ shown = {} /\ excused = {}

Here == {n \in Nums : exrow[n].st = "in"}
PendingExpress == {n \in Here : exrow[n].from # Me /\ ~exrow[n].delivered}
ExpressChangeToken == IF Here = {} THEN 0 ELSE Max(Here)

Between(with) == {n \in Here : with = Everyone \/ exrow[n].from \in {with, Me}}
(* The newest lines of a conversation. *)
ExpressHistory(with) == {n \in Between(with) : Cardinality({k \in Between(with) : k > n}) < Limit}
(* What such a screen leaves out although it is waiting: other people's lines, and old ones. *)
LeftOut(with) == PendingExpress \ ExpressHistory(with)

MarkThrough(token) ==
    exrow' = [n \in Nums |-> IF n \in PendingExpress /\ n <= token
                             THEN [exrow[n] EXCEPT !.delivered = TRUE] ELSE exrow[n]]

-----------------------------------------------------------------------------
(* SendExpress *)

SendNumber(w) ==
    /\ writing[w] = 0 /\ taken < MaxMsg
    /\ taken' = taken + 1
    /\ writing' = [writing EXCEPT ![w] = taken + 1]
    /\ UNCHANGED <<exrow, poll, chat, web, shown, excused>>

(* A row that comes late, below the token, or while the shell is between its first screen and *)
(* its token, may be marked unshown.                                                          *)
SendInsert(w) ==
    LET n == writing[w] IN
    /\ n > 0
    /\ exrow' = [exrow EXCEPT ![n] = [st |-> "in", from |-> w, delivered |-> FALSE]]
    /\ writing' = [writing EXCEPT ![w] = 0]
    /\ excused' = IF w # Me /\ (chat.pc = "begun" \/ \E k \in Nums : k > n /\ exrow[k].st # "none")
                  THEN excused \cup {n} ELSE excused
    /\ UNCHANGED <<taken, poll, chat, web, shown>>

-----------------------------------------------------------------------------
(* XMPP's PushIncomingMessages and the shell's ShowPendingExpress take all that is waiting, *)
(* GEXP the oldest; each is written out and then marked.                                    *)

PollRead(p) ==
    /\ poll[p].todo = {} /\ poll[p].out = 0 /\ PendingExpress # {}
    /\ \E todo \in {PendingExpress, {Min(PendingExpress)}} : poll' = [poll EXCEPT ![p].todo = todo]
    /\ UNCHANGED <<exrow, taken, writing, chat, web, shown, excused>>

PollShow(p) ==
    LET n == Min(poll[p].todo) IN
    /\ poll[p].out = 0 /\ poll[p].todo # {}
    /\ poll' = [poll EXCEPT ![p] = [todo |-> @.todo \ {n}, out |-> n]]
    /\ shown' = shown \cup {n}
    /\ UNCHANGED <<exrow, taken, writing, chat, web, excused>>

MarkExpressDelivered(p) ==
    LET n == poll[p].out IN
    /\ n > 0
    /\ exrow' = IF exrow[n].st = "in" THEN [exrow EXCEPT ![n].delivered = TRUE] ELSE exrow
    /\ poll' = [poll EXCEPT ![p].out = 0]
    /\ UNCHANGED <<taken, writing, chat, web, shown, excused>>

(* The connection ends; what was read and not yet marked is still waiting, and a new one begins afresh. *)
PollLost(p) ==
    /\ poll[p] # [todo |-> {}, out |-> 0]
    /\ poll' = [poll EXCEPT ![p] = [todo |-> {}, out |-> 0]]
    /\ UNCHANGED <<exrow, taken, writing, chat, web, shown, excused>>

-----------------------------------------------------------------------------
(* ChatMode of the BBS shell *)

(* The transcript is shown first ... *)
ChatBegin(with) ==
    /\ chat.pc = "off"
    /\ chat' = [pc |-> "begun", with |-> with, seen |-> 0, token |-> 0]
    /\ shown' = shown \cup ExpressHistory(with)
    /\ excused' = excused \cup LeftOut(with)
    /\ UNCHANGED <<exrow, taken, writing, poll, web>>

(* ... then the token is read, and everything up to it marked. *)
ChatToken ==
    /\ chat.pc = "begun"
    /\ chat' = [chat EXCEPT !.pc = "mark", !.seen = ExpressChangeToken]
    /\ UNCHANGED <<exrow, taken, writing, poll, web, shown, excused>>

ChatMark ==
    /\ chat.pc = "mark"
    /\ MarkThrough(chat.seen)
    /\ chat' = [chat EXCEPT !.pc = "typing"]
    /\ UNCHANGED <<taken, writing, poll, web, shown, excused>>

(* After a line or a /r the token is read before the lines are. *)
ChatRefresh ==
    /\ chat.pc = "typing" /\ ExpressChangeToken # chat.seen
    /\ chat' = [chat EXCEPT !.pc = "lines", !.token = ExpressChangeToken]
    /\ UNCHANGED <<exrow, taken, writing, poll, web, shown, excused>>

ChatLines ==
    /\ chat.pc = "lines"
    /\ shown' = shown \cup {n \in ExpressHistory(chat.with) : n > chat.seen}
    /\ excused' = excused \cup LeftOut(chat.with)
    /\ chat' = [chat EXCEPT !.pc = "mark", !.seen = chat.token, !.token = 0]
    /\ UNCHANGED <<exrow, taken, writing, poll, web>>

ChatLeave ==
    /\ chat.pc = "typing"
    /\ chat' = [pc |-> "off", with |-> Everyone, seen |-> 0, token |-> 0]
    /\ UNCHANGED <<exrow, taken, writing, poll, web, shown, excused>>

-----------------------------------------------------------------------------
(* The chat page *)

(* GetChat: the token, then the log, then the mark. The log's feed starts from 0. *)
GetChat(with) ==
    /\ web.pc = "idle"
    /\ web' = [pc |-> "page", with |-> with, since |-> 0, token |-> ExpressChangeToken]
    /\ UNCHANGED <<exrow, taken, writing, poll, chat, shown, excused>>

(* GetChatFeed: nothing unless the token is past the one the browser holds. *)
GetChatFeed ==
    /\ web.pc = "idle" /\ ExpressChangeToken > web.since
    /\ web' = [web EXCEPT !.pc = "feed", !.token = ExpressChangeToken]
    /\ UNCHANGED <<exrow, taken, writing, poll, chat, shown, excused>>

RenderLog ==
    /\ web.pc \in {"page", "feed"}
    /\ shown' = shown \cup ExpressHistory(web.with)
    /\ excused' = excused \cup LeftOut(web.with)
    /\ web' = [web EXCEPT !.pc = "mark", !.since = IF web.pc = "feed" THEN web.token ELSE 0]
    /\ UNCHANGED <<exrow, taken, writing, poll, chat>>

(* A wrong mark: through whatever there is by now. *)
WebMarkNow ==
    /\ web.pc = "mark"
    /\ MarkThrough(ExpressChangeToken)
    /\ web' = [web EXCEPT !.pc = "idle", !.token = 0]
    /\ UNCHANGED <<taken, writing, poll, chat, shown, excused>>

WebMark ==
    /\ web.pc = "mark"
    /\ MarkThrough(web.token)
    /\ web' = [web EXCEPT !.pc = "idle", !.token = 0]
    /\ UNCHANGED <<taken, writing, poll, chat, shown, excused>>

(* PostChatSend, once its own row is in: the log of that conversation, and no mark. *)
PostChatSend(with) ==
    /\ web.pc = "idle" /\ \E n \in Here : exrow[n].from = Me
    /\ web' = [web EXCEPT !.pc = "sent", !.with = with, !.token = ExpressChangeToken]
    /\ UNCHANGED <<exrow, taken, writing, poll, chat, shown, excused>>

SentLog ==
    /\ web.pc = "sent"
    /\ shown' = shown \cup ExpressHistory(web.with)
    /\ web' = [web EXCEPT !.pc = "idle", !.since = web.token, !.token = 0]
    /\ UNCHANGED <<exrow, taken, writing, poll, chat, excused>>

(* PruneExpress: delivered rows, some time later. *)
PruneExpress(n) ==
    /\ exrow[n].st = "in" /\ exrow[n].delivered
    /\ exrow' = [exrow EXCEPT ![n].st = "pruned"]
    /\ UNCHANGED <<taken, writing, poll, chat, web, shown, excused>>

-----------------------------------------------------------------------------
ExpressNext ==
    \/ \E w \in Writers \cup {Me} : SendNumber(w) \/ SendInsert(w)
    \/ \E p \in Pollers : PollRead(p) \/ PollShow(p) \/ MarkExpressDelivered(p) \/ PollLost(p)
    \/ \E with \in Talks : ChatBegin(with)
    \/ ChatToken
    \/ ChatMark
    \/ ChatRefresh
    \/ ChatLines
    \/ ChatLeave
    \/ \E with \in Talks : GetChat(with)
    \/ GetChatFeed
    \/ RenderLog
    \/ WebMark
    \/ \E with \in Partners : PostChatSend(with)
    \/ SentLog
    \/ \E n \in Nums : PruneExpress(n)

ExpressSpec == ExpressInit /\ [][ExpressNext]_exvars

-----------------------------------------------------------------------------
(* Well-typed; a number in somebody's hands has no row yet. *)
ExpressTypeOK ==
    /\ \A n \in Nums : /\ exrow[n].st \in {"none", "in", "pruned"} /\ exrow[n].from \in Writers \cup {Me}
                       /\ exrow[n].delivered \in BOOLEAN
    /\ taken \in 0..MaxMsg
    /\ \A w \in Writers \cup {Me} : writing[w] \in 0..taken /\ (writing[w] > 0 => exrow[writing[w]].st = "none")
    /\ \A p \in Pollers : poll[p].todo \subseteq Nums /\ poll[p].out \in 0..MaxMsg
    /\ chat.pc \in {"off", "begun", "mark", "typing", "lines"} /\ chat.with \in Talks
    /\ web.pc \in {"idle", "page", "feed", "mark", "sent"} /\ web.with \in Talks
    /\ shown \cup excused \subseteq Nums

(* A message that counts as delivered, or is gone, has been written out to  *)
(* its reader by some client. Only a screen that leaves out other people's  *)
(* lines or the oldest ones, a row that appears below a number already seen, *)
(* and one that comes while the shell opens its chat may be marked unshown.  *)
DeliveredWasShown ==
    \A n \in Nums : exrow[n].st # "none" /\ exrow[n].from # Me /\ (exrow[n].delivered \/ exrow[n].st = "pruned")
                        => n \in shown \cup excused
=============================================================================
