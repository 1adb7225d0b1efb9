-------------------------------- MODULE Wiki --------------------------------
(***************************************************************************)
(* One page of a wiki room and the message that holds its history: the save *)
(* hook in UpsertByEuid, RecordRevision, RevisionRaw, and the pages that     *)
(* save, restore and delete. Every statement commits by itself, apart from   *)
(* the insert of a message, which is one transaction.                        *)
(*                                                                         *)
(* A text is a number. A patch made from one text to another applies to the  *)
(* first and to no other text (diff::Apply compares the lines it takes out   *)
(* and the lines around them).                                              *)
(***************************************************************************)
EXTENDS Naturals, Sequences, FiniteSets, FiniteSetsExt

CONSTANTS Editors, Texts,
          MaxWikiMsg      \* bound: message numbers

ASSUME WikiBounds == MaxWikiMsg \in Nat

VARIABLES wmsg,     \* the messages of the room: number -> page or history
          wnext,    \* citadel_msg_seq
          ed,       \* what each editor's request is doing
          past,     \* history: the numbers and texts the page had since it was created, newest
                    \* first, for as long as nothing marred it
          marred    \* history: a save crossed another request, failed half way or was cut off
kvars == <<wmsg, wnext, ed, past, marred>>

WikiNums == 1..MaxWikiMsg
Absent == [st |-> "none", text |-> 0, revs |-> <<>>]
EdIdle == [pc |-> "idle", text |-> 0, old |-> 0, hold |-> 0, rev |-> 0, revs |-> <<>>]

WikiInit ==
    /\ wmsg = [n \in WikiNums |-> Absent]
    /\ wnext = 0
    /\ ed = [e \in Editors |-> EdIdle]
    /\ past = <<>> /\ marred = FALSE

WDo(e, j) == ed' = [ed EXCEPT ![e] = j]

(* FindByEuid: the newest message of that name; 0 if there is none. *)
FindNewest(st) == LET ns == {n \in WikiNums : wmsg[n].st = st} IN IF ns = {} THEN 0 ELSE Max(ns)
PageNow == FindNewest("page")
HistNow == FindNewest("hist")

(* Requests that overlap, and ones that ended half way, may leave a history that does not fit. *)
Busy(e) == \E f \in Editors \ {e} : ed[f].pc # "idle"
Mar(so, then) == marred' = (marred \/ so) /\ past' = IF marred \/ so THEN <<>> ELSE then
Crossing(e) == Mar(Busy(e), past)

-----------------------------------------------------------------------------
(* Reading a revision *)

(* RevisionRaw walks the patches from the page's text; 0 when one does not apply or none is meant. *)
Walk(text, revs, rev) ==
    LET fits(k) == \A i \in 1..k : revs[i].from = (IF i = 1 THEN text ELSE revs[i - 1].to)
        hits == {k \in 1..Len(revs) : revs[k].rev = rev /\ fits(k)}
    IN  IF hits = {} THEN 0 ELSE revs[Min(hits)].to

(* History: what the companion message lists. *)
HistoryOf(h) == IF h = 0 THEN <<>> ELSE wmsg[h].revs

-----------------------------------------------------------------------------
(* Saving *)

(* Save, through SaveObjectRaw: UpsertByEuid looks for the old version. *)
Save(e, t) ==
    /\ ed[e].pc = "idle"
    /\ WDo(e, [EdIdle EXCEPT !.pc = IF PageNow > 0 THEN "record" ELSE "insert", !.text = t, !.old = PageNow])
    /\ Crossing(e)
    /\ UNCHANGED <<wmsg, wnext>>

(* Revert reads the page and ... *)
Revert(e, rev) ==
    /\ ed[e].pc = "idle" /\ PageNow > 0
    /\ WDo(e, [EdIdle EXCEPT !.pc = "walk", !.text = wmsg[PageNow].text, !.old = PageNow, !.rev = rev])
    /\ Crossing(e)
    /\ UNCHANGED <<wmsg, wnext>>

(* ... then its history, and saves what it arrives at as any other text. *)
RevertWalk(e) ==
    LET t == IF ed[e].rev = ed[e].old THEN ed[e].text ELSE Walk(ed[e].text, HistoryOf(HistNow), ed[e].rev) IN
    /\ ed[e].pc = "walk"
    /\ WDo(e, IF t = 0 THEN EdIdle
              ELSE [EdIdle EXCEPT !.pc = IF PageNow > 0 THEN "record" ELSE "insert", !.text = t, !.old = PageNow])
    /\ UNCHANGED <<wmsg, wnext, past, marred>>

(* A wrong patch: from the old text to the new. *)
PatchForwards(old, new, n) == [rev |-> n, from |-> old, to |-> new]

Patch(old, new, n) == [rev |-> n, from |-> new, to |-> old]

(* RecordRevision looks the page up again. A save that changes nothing is refused. *)
RecordRevision(e) ==
    LET j == ed[e]
        p == PageNow
    IN  /\ j.pc = "record"
        /\ WDo(e, IF p = 0 THEN [j EXCEPT !.pc = "insert"]
                  ELSE IF wmsg[p].text = j.text THEN EdIdle
                  ELSE [j EXCEPT !.pc = "history", !.revs = <<Patch(wmsg[p].text, j.text, p)>>])
        /\ UNCHANGED <<wmsg, wnext, past, marred>>

(* The patch goes before the ones that are there. *)
ReadHistory(e) ==
    LET j == ed[e] IN
    /\ j.pc = "history"
    /\ WDo(e, [j EXCEPT !.pc = "findHist", !.revs = j.revs \o HistoryOf(HistNow)])
    /\ UNCHANGED <<wmsg, wnext, past, marred>>

(* UpsertByEuid of the companion: the old one is looked up, ... *)
FindHistory(e) ==
    /\ ed[e].pc = "findHist"
    /\ WDo(e, [ed[e] EXCEPT !.pc = "insertHist", !.hold = HistNow])
    /\ UNCHANGED <<wmsg, wnext, past, marred>>

(* ... the new one inserted, which may be refused, and then the old one goes. *)
InsertHistory(e, ok) ==
    LET j == ed[e] IN
    /\ j.pc = "insertHist" /\ wnext < MaxWikiMsg
    /\ wnext' = wnext + 1
    /\ wmsg' = IF ok THEN [wmsg EXCEPT ![wnext + 1] = [st |-> "hist", text |-> 0, revs |-> j.revs]] ELSE wmsg
    /\ WDo(e, IF ok THEN [j EXCEPT !.pc = IF j.hold > 0 THEN "unlinkHist" ELSE "insert", !.revs = <<>>] ELSE EdIdle)
    /\ UNCHANGED <<past, marred>>

UnlinkHistory(e) ==
    LET j == ed[e] IN
    /\ j.pc = "unlinkHist"
    /\ wmsg' = [wmsg EXCEPT ![j.hold].st = "gone", ![j.hold].revs = <<>>]
    /\ WDo(e, [j EXCEPT !.pc = "insert", !.hold = 0])
    /\ UNCHANGED <<wnext, past, marred>>

(* The page itself. A refusal here comes after the history was written. *)
InsertPage(e, ok) ==
    LET j == ed[e] IN
    /\ j.pc = "insert" /\ wnext < MaxWikiMsg
    /\ wnext' = wnext + 1
    /\ wmsg' = IF ok THEN [wmsg EXCEPT ![wnext + 1] = [st |-> "page", text |-> j.text, revs |-> <<>>]] ELSE wmsg
    /\ Mar(~ok /\ j.old > 0, IF ok THEN <<[rev |-> wnext + 1, text |-> j.text]>> \o past ELSE past)
    /\ WDo(e, IF ok /\ j.old > 0 THEN [j EXCEPT !.pc = "unlink"] ELSE EdIdle)

UnlinkPage(e) ==
    LET j == ed[e] IN
    /\ j.pc = "unlink"
    /\ wmsg' = [wmsg EXCEPT ![j.old].st = "gone", ![j.old].text = 0]
    /\ WDo(e, EdIdle)
    /\ UNCHANGED <<wnext, past, marred>>

-----------------------------------------------------------------------------
(* Remove, through DeletePage: the page, then the companion. *)
Remove(e) ==
    /\ ed[e].pc = "idle" /\ PageNow > 0
    /\ wmsg' = [wmsg EXCEPT ![PageNow].st = "gone", ![PageNow].text = 0]
    /\ WDo(e, [EdIdle EXCEPT !.pc = "unlinkComp"])
    /\ Crossing(e)
    /\ UNCHANGED wnext

RemoveHistory(e) ==
    /\ ed[e].pc = "unlinkComp"
    /\ wmsg' = IF HistNow = 0 THEN wmsg ELSE [wmsg EXCEPT ![HistNow].st = "gone", ![HistNow].revs = <<>>]
    /\ past' = <<>>
    /\ marred' = (marred /\ (Busy(e) \/ \E n \in WikiNums \ {HistNow} : wmsg[n].st \in {"page", "hist"}))
    /\ WDo(e, EdIdle)
    /\ UNCHANGED wnext

(* The process dies. *)
WikiCrash ==
    /\ \E e \in Editors : ed[e].pc # "idle"
    /\ ed' = [e \in Editors |-> EdIdle]
    /\ Mar(TRUE, past)
    /\ UNCHANGED <<wmsg, wnext>>

-----------------------------------------------------------------------------
WikiNext ==
    \/ \E e \in Editors, t \in Texts : Save(e, t)
    \/ \E e \in Editors, n \in WikiNums : Revert(e, n)
    \/ \E e \in Editors : \/ RevertWalk(e)
                          \/ RecordRevision(e)
                          \/ ReadHistory(e)
                          \/ FindHistory(e)
                          \/ UnlinkHistory(e)
                          \/ UnlinkPage(e)
                          \/ Remove(e)
                          \/ RemoveHistory(e)
    \/ \E e \in Editors, ok \in BOOLEAN : InsertHistory(e, ok) \/ InsertPage(e, ok)
    \/ WikiCrash

WikiSpec == WikiInit /\ [][WikiNext]_kvars

-----------------------------------------------------------------------------
(* Well-typed; a revision is the number of an earlier message. *)
WikiTypeOK ==
    /\ wnext \in 0..MaxWikiMsg
    /\ \A n \in WikiNums : /\ wmsg[n].st \in {"none", "page", "hist", "gone"}
                           /\ wmsg[n].text \in Texts \cup {0}
                           /\ \A i \in 1..Len(wmsg[n].revs) : wmsg[n].revs[i].rev \in 1..(n - 1)
    /\ \A e \in Editors : ed[e].pc \in {"idle", "walk", "record", "history", "findHist", "insertHist", "unlinkHist",
                                        "insert", "unlink", "unlinkComp"}
    /\ \A i \in 1..Len(past) : past[i].rev \in WikiNums /\ past[i].text \in Texts

(* The history of a page that nobody is saving is the whole of its past: it  *)
(* lists the versions before the present one, newest first, back to the one  *)
(* the page was created with, and walking it from the present text arrives   *)
(* at the text of each. Saves that cross, a save refused after its history   *)
(* was written and a death in between are the only ways to break it, until   *)
(* the page is deleted, and a page made again under the name starts without. *)
HistoryIsWholeUnlessMarred ==
    (\A e \in Editors : ed[e].pc = "idle") /\ ~marred =>
        LET revs == HistoryOf(HistNow) IN
        /\ PageNow = 0 => past = <<>> /\ revs = <<>>
        /\ PageNow > 0 => /\ past # <<>> /\ past[1] = [rev |-> PageNow, text |-> wmsg[PageNow].text]
                          /\ Len(revs) = Len(past) - 1
                          /\ \A i \in 1..Len(revs) : /\ revs[i].rev = past[i + 1].rev
                                                     /\ Walk(wmsg[PageNow].text, revs, revs[i].rev) = past[i + 1].text
=============================================================================
