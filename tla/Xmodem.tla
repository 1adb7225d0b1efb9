------------------------------- MODULE Xmodem -------------------------------
(***************************************************************************)
(* Xmodem-1K with CRC over a terminal session (telnet/src/xmodem.cpp):     *)
(* Send at one end and Receive at the other.  The link keeps the order of  *)
(* bytes; a frame may be damaged on it, and an answer may come after the   *)
(* sender's timeout.  A frame stands for the block it carries, by its      *)
(* place in the file, and its number on the wire is that place modulo      *)
(* BlockMod (256 in the code).                                             *)
(***************************************************************************)
EXTENDS Naturals, Sequences

CONSTANTS
    FileBlocks,     \* blocks of the file
    BlockMod,       \* block numbers on the wire
    MaxRetries,     \* kMaxRetries
    Limits,         \* max_bytes of a receiver, in blocks
    MaxLate,        \* bound: timeouts of either end
    MaxNoise        \* bound: frames damaged

ASSUME XmodemAssumption ==
    {FileBlocks, BlockMod, MaxRetries, MaxLate, MaxNoise} \cup Limits \subseteq Nat /\ BlockMod > 1

VARIABLES
    xs,         \* Send: where it is, block at hand, retries used
    xr,         \* Receive: where it is, blocks stored, next number expected
    toRecv,     \* frames on the way to the receiver
    toSend,     \* answers on the way to the sender
    late,       \* answers the sender gave up waiting for, and extra 'C's
    noise       \* frames damaged

xvars == <<xs, xr, toRecv, toSend, late, noise>>

XFrame(k) == [kind |-> "block", at |-> k, ok |-> TRUE]
XEot == [kind |-> "eot", at |-> 0, ok |-> TRUE]
XNoise == [kind |-> "noise", at |-> 0, ok |-> FALSE]
XStops == {"ok", "failed"}

XmodemTypeOK ==
    /\ xs \in [pc : {"start", "wait", "eotwait"} \cup XStops, at : 1..(FileBlocks + 1), retry : 0..MaxRetries]
    /\ xr.pc \in {"asking", "reading"} \cup XStops
    /\ xr.limit \in Limits /\ Len(xr.out) <= xr.limit /\ \A i \in DOMAIN xr.out : xr.out[i] \in 1..FileBlocks
    /\ xr.expect \in 0..(BlockMod - 1)
    /\ late \in 0..MaxLate /\ noise \in 0..MaxNoise

XmodemInit ==
    /\ xs = [pc |-> "start", at |-> 1, retry |-> 0]
    /\ xr \in [pc : {"asking"}, out : {<<>>}, expect : {1}, limit : Limits]
    /\ toRecv = <<>> /\ toSend = <<"C">> /\ late = 0 /\ noise = 0

-----------------------------------------------------------------------------
(* Send *)

(* The next frame goes out, or EOT after the last block. *)
XWrites(k, retry) ==
    IF k <= FileBlocks
    THEN /\ xs' = [pc |-> "wait", at |-> k, retry |-> retry]
         /\ toRecv' = Append(toRecv, XFrame(k))
    ELSE /\ xs' = [pc |-> "eotwait", at |-> k, retry |-> retry]
         /\ toRecv' = Append(toRecv, XEot)

(* Two CANs for a block that is not acknowledged; nothing for an EOT. *)
XFails ==
    /\ xs' = [xs EXCEPT !.pc = "failed"]
    /\ toRecv' = IF xs.pc = "wait" THEN Append(toRecv, [XNoise EXCEPT !.kind = "can"]) ELSE toRecv

(* Once more, or give up after MaxRetries. *)
XAgain == IF xs.retry + 1 < MaxRetries THEN XWrites(xs.at, xs.retry + 1) ELSE XFails

(* Nothing but 'C' starts the transfer; CAN ends it. *)
SendStart ==
    /\ xs.pc = "start" /\ toSend # <<>>
    /\ CASE Head(toSend) = "C" -> XWrites(1, 0)
         [] Head(toSend) = "CAN" -> xs' = [xs EXCEPT !.pc = "failed"] /\ UNCHANGED toRecv
         [] OTHER -> UNCHANGED <<xs, toRecv>>
    /\ toSend' = Tail(toSend)
    /\ UNCHANGED <<xr, late, noise>>

(* ACK moves on, CAN ends it, and NAK or anything else sends it again. *)
SendReadsReply ==
    /\ xs.pc = "wait" /\ toSend # <<>>
    /\ CASE Head(toSend) = "ACK" -> XWrites(xs.at + 1, 0)
         [] Head(toSend) = "CAN" -> xs' = [xs EXCEPT !.pc = "failed"] /\ UNCHANGED toRecv
         [] OTHER -> XAgain
    /\ toSend' = Tail(toSend)
    /\ UNCHANGED <<xr, late, noise>>

(* EOT until it is acknowledged; even CAN is only "not an ACK" here. *)
SendEnds ==
    /\ xs.pc = "eotwait" /\ toSend # <<>>
    /\ IF Head(toSend) = "ACK" THEN xs' = [xs EXCEPT !.pc = "ok"] /\ UNCHANGED toRecv ELSE XAgain
    /\ toSend' = Tail(toSend)
    /\ UNCHANGED <<xr, late, noise>>

(* The sender has waited long enough: the answer is late, or will not come. *)
SendTimesOut ==
    /\ xs.pc \in {"wait", "eotwait"} /\ toSend = <<>>
    /\ xr.pc \in XStops \/ late < MaxLate
    /\ late' = IF xr.pc \in XStops THEN late ELSE late + 1
    /\ XAgain
    /\ UNCHANGED <<xr, toSend, noise>>

-----------------------------------------------------------------------------
(* Receive *)

XAnswers(a) == toSend' = Append(toSend, a)

(* 'C' again after three seconds. *)
ReceiveAsks ==
    /\ xr.pc = "asking" /\ late < MaxLate
    /\ XAnswers("C")
    /\ late' = late + 1
    /\ UNCHANGED <<xs, xr, toRecv, noise>>

(* A block whose ACK the sender did not see is acknowledged, damaged or not. *)
TakesRepeat(f) == XAnswers("ACK") /\ xr' = [xr EXCEPT !.pc = "reading"] /\ toRecv' = Tail(toRecv)

(* Deviation: a block that is not the next one is stored as if it were. *)
IsNextAny(f) == TRUE

IsNext(f) == f.at % BlockMod = xr.expect

(* EOT, CAN, noise between blocks, a repeated block, the next block, or     *)
(* NAK.  Noise and a bad block throw away whatever else has arrived.        *)
ReceiveReads ==
    LET f == Head(toRecv)
        rest == Tail(toRecv)
        drops == \E n \in 0..Len(rest) : toRecv' = SubSeq(rest, n + 1, Len(rest))
        nak == XAnswers("NAK") /\ xr' = [xr EXCEPT !.pc = "reading"] /\ drops
    IN  /\ xr.pc \in {"asking", "reading"} /\ toRecv # <<>>
        /\ IF xr.pc = "asking" /\ f.kind = "noise" THEN UNCHANGED <<xr, toSend>> /\ toRecv' = rest
           ELSE CASE f.kind = "eot" -> XAnswers("ACK") /\ xr' = [xr EXCEPT !.pc = "ok"] /\ toRecv' = rest
                  [] f.kind = "can" -> xr' = [xr EXCEPT !.pc = "failed"] /\ toRecv' = rest /\ UNCHANGED toSend
                  [] f.kind = "noise" -> nak
                  [] f.kind = "block" /\ (f.at + 1) % BlockMod = xr.expect -> TakesRepeat(f)
                  [] f.kind = "block" /\ (f.at + 1) % BlockMod # xr.expect /\ f.ok /\ IsNext(f) ->
                        IF Len(xr.out) = xr.limit
                        THEN XAnswers("CAN") /\ xr' = [xr EXCEPT !.pc = "failed"] /\ toRecv' = rest
                        ELSE /\ XAnswers("ACK") /\ toRecv' = rest
                             /\ xr' = [xr EXCEPT !.pc = "reading", !.out = Append(@, f.at),
                                             !.expect = (@ + 1) % BlockMod]
                  [] OTHER -> nak
        /\ UNCHANGED <<xs, late, noise>>

(* Nothing for ten seconds in the middle of a transfer. *)
ReceiveTimesOut ==
    /\ xr.pc = "reading" /\ toRecv = <<>> /\ (xs.pc \in XStops \/ late < MaxLate)
    /\ xr' = [xr EXCEPT !.pc = "failed"]
    /\ late' = IF xs.pc \in XStops THEN late ELSE late + 1
    /\ UNCHANGED <<xs, toRecv, toSend, noise>>

(* The link damages a frame: its payload, or the byte that opens it. *)
LinkDamages ==
    /\ noise < MaxNoise
    /\ \E i \in DOMAIN toRecv : /\ toRecv[i].ok
                                /\ \E g \in {XNoise, [toRecv[i] EXCEPT !.ok = FALSE]} :
                                     /\ toRecv[i].kind = "eot" => g = XNoise
                                     /\ toRecv' = [toRecv EXCEPT ![i] = g]
    /\ noise' = noise + 1
    /\ UNCHANGED <<xs, xr, toSend, late>>

XmodemNext ==
    \/ SendStart \/ SendReadsReply \/ SendEnds \/ SendTimesOut
    \/ ReceiveAsks \/ ReceiveReads \/ ReceiveTimesOut
    \/ LinkDamages

XmodemSpec == XmodemInit /\ [][XmodemNext]_xvars

-----------------------------------------------------------------------------
(* Properties *)

(* Answers in flight let the sender run ahead, by one block for every wait  *)
(* that ended early.  With two fewer of them than there are block numbers,  *)
(* or with no damage, it cannot lap the receiver.                           *)
NotLapped == late + 2 <= BlockMod \/ noise = 0

(* What is stored is the beginning of the file, each block once and in      *)
(* order, although block numbers wrap around and a late answer is taken for *)
(* the answer to a later block.                                             *)
StoredIsPrefix == NotLapped => \A i \in DOMAIN xr.out : xr.out[i] = i

(* A receiver that saw EOT has the whole file, unless the sender ran ahead  *)
(* on late answers and a block it had moved past was damaged.               *)
WholeUnlessSlipped ==
    xr.pc = "ok" /\ (late = 0 \/ noise = 0) => Len(xr.out) = FileBlocks

(* "Returns false if the transfer was not completed": when answers come in  *)
(* time, Send reports success only for a file the receiver has all of.      *)
SentMeansReceived == xs.pc = "ok" /\ late = 0 => xr.pc = "ok" /\ Len(xr.out) = FileBlocks

(* The transfer keeps the file: nothing but its beginning is stored, and    *)
(* both ends call only a whole file done.                                   *)
TransferIsExact == StoredIsPrefix /\ WholeUnlessSlipped /\ SentMeansReceived
=============================================================================
