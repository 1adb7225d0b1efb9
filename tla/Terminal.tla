------------------------------ MODULE Terminal ------------------------------
(***************************************************************************)
(* The terminal side of the BBS shell (core/src/telnet.cpp): input bytes   *)
(* with option negotiation taken out and answered (NextPayloadByte), line  *)
(* endings of every client folded into one (GetChar) and lines edited and  *)
(* echoed (ReadLine).  A key is one byte or one negotiation sequence; over *)
(* SSH the same bytes come from a pty.                                     *)
(***************************************************************************)
EXTENDS Naturals, Sequences, SequencesExt

CONSTANTS
    Keys,       \* what the user's client may send
    MaxKeys     \* bound on what it sends

(* "a" is any printable byte and "ff" the byte 255, sent doubled. *)
TermKeys == {"a", "ff", "cr", "lf", "nul", "bs", "do echo", "dont echo", "do other", "will other", "will ttype"}
ASSUME TerminalAssumption == Keys \subseteq TermKeys /\ MaxKeys \in Nat

VARIABLES
    typed,      \* everything sent so far
    unread,     \* the part not read yet
    push,       \* pushback_, or "none"
    pendingCr,  \* pending_cr_
    peeking,    \* GetChar has read a second CR and waits for the byte after it
    line,       \* ReadLine's out
    heard,      \* lines returned so far
    echo,       \* echo_
    answers,    \* negotiation sent back, last first
    lost        \* a byte was read as something it is not

tvars == <<typed, unread, push, pendingCr, peeking, line, heard, echo, answers, lost>>

Negotiation == {"do echo", "dont echo", "do other", "will other", "will ttype"}
Printable == {"a", "ff"}

TerminalTypeOK ==
    /\ typed \in Seq(Keys) /\ Len(typed) <= MaxKeys /\ IsSuffix(unread, typed)
    /\ push \in Keys \cup {"none"} /\ {pendingCr, peeking, echo, lost} \subseteq BOOLEAN
    /\ line \in Seq(Printable) /\ heard \in Seq(Seq(Printable))
    /\ Len(answers) <= MaxKeys /\ ~(peeking /\ pendingCr) /\ (lost => push = "ff")

TerminalInit ==
    /\ typed = <<>> /\ unread = <<>> /\ push = "none" /\ pendingCr = FALSE /\ peeking = FALSE
    /\ line = <<>> /\ heard = <<>> /\ echo = FALSE /\ answers = <<>> /\ lost = FALSE

UserTypes(k) ==
    /\ Len(typed) < MaxKeys
    /\ typed' = Append(typed, k) /\ unread' = Append(unread, k)
    /\ UNCHANGED <<push, pendingCr, peeking, line, heard, echo, answers, lost>>

-----------------------------------------------------------------------------
(* Input *)

(* DO and DONT ECHO switch the echo; only ECHO and SGA are ever agreed to,  *)
(* and a client that has a terminal type is asked for it.                   *)
TermNegotiate ==
    /\ push = "none" /\ unread # <<>> /\ Head(unread) \in Negotiation
    /\ echo' = CASE Head(unread) = "do echo" -> TRUE [] Head(unread) = "dont echo" -> FALSE [] OTHER -> echo
    /\ answers' = CASE Head(unread) \in {"dont echo", "do other"} -> <<"wont">> \o answers
                    [] Head(unread) = "will other" -> <<"dont">> \o answers
                    [] Head(unread) = "will ttype" -> <<"send ttype">> \o answers
                    [] OTHER -> answers
    /\ unread' = Tail(unread)
    /\ UNCHANGED <<typed, push, pendingCr, peeking, line, heard, lost>>

(* ReadLine with a character GetChar returned. *)
LineTakes(k) ==
    /\ heard' = IF k \in {"cr", "lf"} THEN Append(heard, line) ELSE heard
    /\ line' = CASE k \in {"cr", "lf"} -> <<>>
                 [] k = "bs" -> IF line = <<>> THEN line ELSE Front(line)
                 [] k \in {"a", "ff"} -> Append(line, k)
                 [] OTHER -> line

(* The next byte: the one pushed back, or the next one sent.  The byte 255  *)
(* pushed back is read again as the start of a command, and takes the bytes *)
(* after it along.                                                          *)
NextPayload(k) ==
    /\ ~lost
    /\ IF push # "none" THEN k = push /\ push # "ff" /\ push' = "none" /\ UNCHANGED unread
       ELSE unread # <<>> /\ k = Head(unread) /\ k \notin Negotiation /\ unread' = Tail(unread) /\ UNCHANGED push

(* Deviation: a CR after a CR ends a line of its own, whatever follows it. *)
GetCharNoPeek(k) ==
    /\ ~peeking /\ NextPayload(k)
    /\ pendingCr' = (k = "cr")
    /\ IF pendingCr /\ k \in {"lf", "nul"} THEN UNCHANGED <<line, heard>> ELSE LineTakes(k)
    /\ UNCHANGED <<typed, peeking, echo, answers, lost>>

(* A LF or NUL after a CR belongs to it; a second CR is looked behind. *)
GetChar(k) ==
    /\ ~peeking /\ NextPayload(k)
    /\ pendingCr' = (k = "cr" /\ ~pendingCr)
    /\ peeking' = (k = "cr" /\ pendingCr)
    /\ IF pendingCr /\ k \in {"lf", "nul", "cr"} THEN UNCHANGED <<line, heard>> ELSE LineTakes(k)
    /\ UNCHANGED <<typed, echo, answers, lost>>

(* CR CR LF is one ending; otherwise the second CR is one too, and the byte *)
(* after it goes back.                                                      *)
GetCharPeek ==
    /\ peeking /\ ~lost /\ unread # <<>> /\ Head(unread) \notin Negotiation
    /\ peeking' = FALSE
    /\ unread' = Tail(unread)
    /\ IF Head(unread) \in {"lf", "nul"} THEN UNCHANGED <<push, pendingCr, line, heard>>
       ELSE push' = Head(unread) /\ pendingCr' = TRUE /\ LineTakes("cr")
    /\ UNCHANGED <<typed, echo, answers, lost>>

PushbackIsCommand ==
    /\ push = "ff" /\ ~lost
    /\ lost' = TRUE
    /\ UNCHANGED <<typed, unread, push, pendingCr, peeking, line, heard, echo, answers>>

TerminalNext ==
    \/ \E k \in Keys : UserTypes(k)
    \/ TermNegotiate
    \/ \E k \in Keys : GetChar(k)
    \/ GetCharPeek
    \/ PushbackIsCommand

TerminalSpec == TerminalInit /\ [][TerminalNext]_tvars

-----------------------------------------------------------------------------
(* Properties *)

(* Where a line of s ends, if one ends at i: CR CR LF, CR CR NUL, CR LF,    *)
(* CR NUL, CR or LF, whichever is longest.                                  *)
Ending(s, i) ==
    LET at(j) == IF j <= Len(s) THEN s[j] ELSE "end"
        fill == {"lf", "nul"}
    IN  IF at(i) = "cr" /\ at(i + 1) = "cr" /\ at(i + 2) \in fill THEN 3
        ELSE IF at(i) = "cr" /\ at(i + 1) \in fill THEN 2
        ELSE IF at(i) \in {"cr", "lf"} THEN 1 ELSE 0

(* What was sent without the negotiation. *)
Payload(sent) ==
    LET of[n \in 0..Len(sent)] ==
            IF n = 0 THEN <<>>
            ELSE IF sent[n] \in Negotiation THEN of[n - 1] ELSE Append(of[n - 1], sent[n])
    IN  of[Len(sent)]

Edited(l, k) == CASE k = "bs" /\ l # <<>> -> Front(l) [] k \in Printable -> Append(l, k) [] OTHER -> l

(* The lines of s that end after i, when l is what its line holds before i. *)
LinesFrom(s) ==
    LET from[i \in Nat \ {0}] == [l \in Seq(Printable) |->
            IF i > Len(s) THEN <<>>
            ELSE IF Ending(s, i) > 0 THEN <<l>> \o from[i + Ending(s, i)][<<>>]
            ELSE from[i + 1][Edited(l, s[i])]]
    IN  from

(* The lines of what was sent, read from left to right. *)
LinesOf(sent) == LinesFrom(Payload(sent))[1][<<>>]

Waits == push = "none" /\ unread = <<>>

(* "CR LF, CR NUL, LF, or bare CR all terminate", and "CR CR LF" counts     *)
(* once: when the shell waits for a byte it has returned exactly the lines  *)
(* that were sent, whichever client sent them and however negotiation is    *)
(* mixed in, unless it is looking behind a second CR.                       *)
LinesAsTyped == Waits /\ ~peeking => heard = LinesOf(typed)

(* "a genuine blank line (Enter pressed twice) must not be swallowed": a    *)
(* line that was ended is returned without another key.                     *)
EnterIsHeard == Waits => heard = LinesOf(typed)
=============================================================================
