------------------------- MODULE OutboundQueueProofs -------------------------
(***************************************************************************)
(* Proofs about OutboundQueue for any rows, batch size, number of attempts,*)
(* MX hosts and process deaths.                                            *)
(***************************************************************************)
EXTENDS OutboundQueue, TLAPS

(* What the drainer has in hand at each of its program points. *)
Drainer ==
    /\ relay.pc \in {"off", "sleep"} => relay.batch = {}
    /\ relay.pc \in {"off", "sleep", "drain"} => relay.cur = {}
    /\ relay.pc # "mark" => relay.res = "none"
    /\ relay.pc = "host" => relay.left # 0
    /\ \A i \in relay.batch : i \notin relay.cur

Delivered == relay.pc = "mark" /\ relay.res = "sent"

(* Where the only copy of an unexcused row may be: nowhere, in a delivery   *)
(* that is about to be marked, or behind the status 'sent'.                 *)
OneCopy(i) ==
    /\ copies[i] # 2
    /\ i \in relay.batch => copies[i] = 0
    /\ i \in relay.cur /\ ~Delivered => copies[i] = 0
    /\ i \notin relay.cur /\ status[i] # "sent" => copies[i] = 0

QueueInv == QueueTypeOK /\ Drainer /\ \A i \in Ids : i \in excused \/ OneCopy(i)

-----------------------------------------------------------------------------
LEMMA TypeInitial == QueueInit => QueueTypeOK
BY QueueAssumption DEF QueueInit, QueueTypeOK, Nobody, Relays

LEMMA NextItemTyped == QueueTypeOK => NextItem \in Relays
<1> SUFFICES ASSUME relay \in Relays PROVE NextItem \in Relays
  BY DEF QueueTypeOK
<1>1. \A p \in {"sleep", "drain"} :
          [relay EXCEPT !.pc = p, !.cur = {}, !.left = 0, !.res = "none"] \in Relays
  <2> SUFFICES ASSUME NEW p \in {"sleep", "drain"}
               PROVE  [relay EXCEPT !.pc = p, !.cur = {}, !.left = 0, !.res = "none"] \in Relays
    OBVIOUS
  <2>1. 0 \in 0..Hosts
    BY QueueAssumption
  <2>2. QED
    BY <2>1 DEF Relays
<1>2. (IF relay.batch = {} THEN "sleep" ELSE "drain") \in {"sleep", "drain"}
  OBVIOUS
<1>3. QED
  BY <1>1, <1>2 DEF NextItem

LEMMA TypeStep == QueueTypeOK /\ Drainer /\ [QueueNext]_qvars => QueueTypeOK'
<1> SUFFICES ASSUME QueueTypeOK, Drainer, [QueueNext]_qvars PROVE QueueTypeOK'
  OBVIOUS
<1> USE QueueAssumption DEF QueueTypeOK, ghosts
<1>1. ASSUME NEW i \in Ids, EnqueueOutbound(i) PROVE QueueTypeOK'
  BY <1>1 DEF EnqueueOutbound
<1>2. ASSUME NEW i \in Ids, BackoffOver(i) PROVE QueueTypeOK'
  BY <1>2 DEF BackoffOver
<1>3. CASE RelayStart
  <2>1. relay' \in Relays
    BY <1>3 DEF RelayStart, Relays
  <2>2. QED
    BY <1>3, <2>1 DEF RelayStart
<1>4. CASE RelayStop
  <2>1. relay' \in Relays
    BY <1>4 DEF RelayStop, Relays
  <2>2. QED
    BY <1>4, <2>1 DEF RelayStop
<1>5. CASE ClaimOutboundDue
  <2>1. PICK claimed \in SUBSET Due :
            /\ status' = [i \in Ids |-> IF i \in claimed THEN "sending" ELSE status[i]]
            /\ relay' = [relay EXCEPT !.pc = "drain", !.batch = claimed, !.seen = attempts]
    BY <1>5 DEF ClaimOutboundDue
  <2>2. claimed \in SUBSET Ids
    BY DEF Due
  <2>3. relay' \in Relays
    BY <2>1, <2>2 DEF Relays
  <2>4. status' \in [Ids -> {"absent", "queued", "sending", "sent", "failed"}]
    BY <2>1
  <2>5. QED
    BY <1>5, <2>3, <2>4 DEF ClaimOutboundDue
<1>6. ASSUME NEW i \in Ids, LookupHosts(i) PROVE QueueTypeOK'
  <2>1. PICK n \in 0..Hosts :
            relay' = [relay EXCEPT !.batch = @ \ {i}, !.cur = {i}, !.left = n,
                                   !.pc = IF n = 0 THEN "mark" ELSE "host",
                                   !.res = IF n = 0 THEN "permanent" ELSE "none"]
    BY <1>6 DEF LookupHosts
  <2>2. relay' \in Relays
    <3>1. CASE n = 0
      BY <2>1, <3>1 DEF Relays
    <3>2. CASE n # 0
      BY <2>1, <3>2 DEF Relays
    <3>3. QED
      BY <3>1, <3>2
  <2>3. tries' \in [Ids -> Nat]
    BY <1>6 DEF LookupHosts
  <2>4. QED
    BY <1>6, <2>2, <2>3 DEF LookupHosts
<1>7. ASSUME NEW i \in Ids, Deliver(i) PROVE QueueTypeOK'
  <2>1. PICK o \in Outcomes :
            LET last == o.res # "transient" \/ relay.left = 1 IN
            /\ copies' = IF o.accepted THEN [copies EXCEPT ![i] = OneMore(@)] ELSE copies
            /\ excused' = IF o.accepted /\ o.res = "transient" THEN excused \cup {i} ELSE excused
            /\ relay' = [relay EXCEPT !.left = @ - 1, !.pc = IF last THEN "mark" ELSE "host",
                                      !.res = IF last THEN o.res ELSE "none"]
    BY <1>7 DEF Deliver
  <2>2. o.res \in {"sent", "permanent", "transient"}
    BY DEF Outcomes
  <2>3. copies' \in [Ids -> 0..2]
    BY <2>1 DEF OneMore
  <2>4. excused' \in SUBSET Ids
    BY <2>1
  <2>5. relay.left \in 0..Hosts /\ relay.left # 0
    BY <1>7 DEF Deliver, Drainer, Relays
  <2>6. relay.left - 1 \in 0..Hosts
    BY <2>5
  <2>7. relay' \in Relays
    <3>1. CASE o.res # "transient" \/ relay.left = 1
      <4>1. relay' = [relay EXCEPT !.left = relay.left - 1, !.pc = "mark", !.res = o.res]
        BY <2>1, <3>1
      <4>2. QED
        BY <2>2, <2>6, <4>1 DEF Relays
    <3>2. CASE ~(o.res # "transient" \/ relay.left = 1)
      <4>1. relay' = [relay EXCEPT !.left = relay.left - 1, !.pc = "host", !.res = "none"]
        BY <2>1, <3>2
      <4>2. QED
        BY <2>6, <4>1 DEF Relays
    <3>3. QED
      BY <3>1, <3>2
  <2>8. QED
    BY <1>7, <2>3, <2>4, <2>7 DEF Deliver
<1>8. ASSUME NEW i \in Ids, MarkSent(i) PROVE QueueTypeOK'
  BY <1>8, NextItemTyped DEF MarkSent
<1>9. ASSUME NEW i \in Ids, MarkFailed(i) PROVE QueueTypeOK'
  BY <1>9, NextItemTyped DEF MarkFailed
<1>10. ASSUME NEW i \in Ids, MarkRetry(i) PROVE QueueTypeOK'
  <2>1. relay.seen[i] \in 0..(MaxAttempts - 1)
    BY DEF Relays
  <2>2. relay.seen[i] + 1 \in 0..(MaxAttempts - 1)
    BY <1>10, <2>1 DEF MarkRetry
  <2>3. attempts' \in [Ids -> 0..(MaxAttempts - 1)]
    BY <1>10, <2>2 DEF MarkRetry
  <2>4. QED
    BY <1>10, <2>3, NextItemTyped DEF MarkRetry
<1>11. ASSUME NEW i \in Ids, PostQueueRetry(i) PROVE QueueTypeOK'
  BY <1>11 DEF PostQueueRetry
<1>12. CASE PostQueueFlush
  BY <1>12 DEF PostQueueFlush, Requeue
<1>13. CASE Crash
  <2>1. relay' \in Relays
    BY <1>13 DEF Crash, Nobody, Relays
  <2>2. excused' \in SUBSET Ids
    BY <1>13 DEF Crash, Relays
  <2>3. QED
    BY <1>13, <2>1, <2>2 DEF Crash
<1>14. CASE UNCHANGED qvars
  BY <1>14 DEF qvars
<1>15. QED
  BY <1>1, <1>2, <1>3, <1>4, <1>5, <1>6, <1>7, <1>8, <1>9, <1>10, <1>11, <1>12, <1>13, <1>14
  DEF QueueNext, DrainerStep

-----------------------------------------------------------------------------
LEMMA QueueInvInitial == QueueInit => QueueInv
BY TypeInitial DEF QueueInit, QueueInv, Drainer, OneCopy, Nobody

LEMMA DrainerPreserved == QueueInv /\ [QueueNext]_qvars => Drainer'
<1> SUFFICES ASSUME QueueInv, [QueueNext]_qvars PROVE Drainer'
  OBVIOUS
<1> USE QueueAssumption DEF QueueInv, Drainer, QueueTypeOK, Relays, ghosts
<1>1. CASE UNCHANGED relay
  BY <1>1
<1>2. CASE RelayStart \/ RelayStop
  BY <1>2 DEF RelayStart, RelayStop
<1>3. CASE ClaimOutboundDue
  BY <1>3 DEF ClaimOutboundDue
<1>4. ASSUME NEW i \in Ids, LookupHosts(i) PROVE Drainer'
  BY <1>4 DEF LookupHosts
<1>5. ASSUME NEW i \in Ids, Deliver(i) PROVE Drainer'
  <2>1. PICK o \in Outcomes :
            LET last == o.res # "transient" \/ relay.left = 1 IN
            relay' = [relay EXCEPT !.left = @ - 1, !.pc = IF last THEN "mark" ELSE "host",
                                   !.res = IF last THEN o.res ELSE "none"]
    BY <1>5 DEF Deliver
  <2>2. relay'.batch = relay.batch /\ relay'.cur = relay.cur /\ relay'.left = relay.left - 1
    BY <2>1
  <2>3. CASE o.res # "transient" \/ relay.left = 1
    <3>1. relay'.pc = "mark"
      BY <2>1, <2>3
    <3>2. QED
      BY <2>2, <3>1
  <2>4. CASE ~(o.res # "transient" \/ relay.left = 1)
    <3>1. relay'.pc = "host" /\ relay'.res = "none"
      BY <2>1, <2>4
    <3>2. relay'.left # 0
      BY <2>2, <2>4
    <3>3. QED
      BY <2>2, <3>1, <3>2
  <2>5. QED
    BY <2>3, <2>4
<1>6. ASSUME NEW i \in Ids, MarkSent(i) \/ MarkFailed(i) \/ MarkRetry(i) PROVE Drainer'
  <2>1. relay' = NextItem
    BY <1>6 DEF MarkSent, MarkFailed, MarkRetry
  <2>2. relay'.batch = relay.batch /\ relay'.cur = {} /\ relay'.res = "none"
    BY <2>1 DEF NextItem
  <2>3. relay'.pc = IF relay.batch = {} THEN "sleep" ELSE "drain"
    BY <2>1 DEF NextItem
  <2>4. QED
    BY <2>2, <2>3
<1>7. CASE Crash
  BY <1>7 DEF Crash, Nobody
<1>8. QED
  BY <1>1, <1>2, <1>3, <1>4, <1>5, <1>6, <1>7
  DEF QueueNext, DrainerStep, EnqueueOutbound, BackoffOver, PostQueueRetry, PostQueueFlush,
      Requeue, qvars

(* The step of the argument: no action gives an unexcused row a second copy *)
(* or loses track of its first.                                             *)
LEMMA OneCopyPreserved ==
    ASSUME QueueInv, [QueueNext]_qvars, NEW j \in Ids
    PROVE  (j \in excused \/ OneCopy(j))'
<1> USE QueueAssumption DEF QueueInv, Drainer, QueueTypeOK, Relays, ghosts, OneCopy, Delivered
<1>0. CASE UNCHANGED <<copies, relay>> /\ excused \subseteq excused'
               /\ (status[j] = "sent" => status'[j] = "sent" \/ j \in excused')
  BY <1>0
<1>1. ASSUME NEW i \in Ids, EnqueueOutbound(i) PROVE (j \in excused \/ OneCopy(j))'
  BY <1>0, <1>1 DEF EnqueueOutbound
<1>2. ASSUME NEW i \in Ids, BackoffOver(i) PROVE (j \in excused \/ OneCopy(j))'
  BY <1>0, <1>2 DEF BackoffOver
<1>3. CASE RelayStart \/ RelayStop
  BY <1>3 DEF RelayStart, RelayStop
<1>4. CASE ClaimOutboundDue
  <2>1. PICK claimed \in SUBSET Due :
            /\ status' = [i \in Ids |-> IF i \in claimed THEN "sending" ELSE status[i]]
            /\ relay' = [relay EXCEPT !.pc = "drain", !.batch = claimed, !.seen = attempts]
    BY <1>4 DEF ClaimOutboundDue
  <2>2. relay.cur = {} /\ relay'.cur = {} /\ relay'.batch = claimed /\ relay'.res = "none"
    BY <1>4, <2>1 DEF ClaimOutboundDue
  <2>3. j \in claimed => status[j] = "queued"
    BY DEF Due
  <2>4. UNCHANGED <<copies, excused>>
    BY <1>4 DEF ClaimOutboundDue
  <2>5. QED
    BY <2>1, <2>2, <2>3, <2>4
<1>5. ASSUME NEW i \in Ids, LookupHosts(i) PROVE (j \in excused \/ OneCopy(j))'
  <2>1. PICK n \in 0..Hosts :
            relay' = [relay EXCEPT !.batch = @ \ {i}, !.cur = {i}, !.left = n,
                                   !.pc = IF n = 0 THEN "mark" ELSE "host",
                                   !.res = IF n = 0 THEN "permanent" ELSE "none"]
    BY <1>5 DEF LookupHosts
  <2>2. relay.cur = {} /\ relay'.cur = {i} /\ relay'.batch = relay.batch \ {i} /\ relay'.res # "sent"
    BY <1>5, <2>1 DEF LookupHosts
  <2>3. i \in relay.batch /\ UNCHANGED <<status, copies, excused>>
    BY <1>5 DEF LookupHosts
  <2>4. QED
    BY <2>2, <2>3
<1>6. ASSUME NEW i \in Ids, Deliver(i) PROVE (j \in excused \/ OneCopy(j))'
  <2>1. PICK o \in Outcomes :
            LET last == o.res # "transient" \/ relay.left = 1 IN
            /\ copies' = IF o.accepted THEN [copies EXCEPT ![i] = OneMore(@)] ELSE copies
            /\ excused' = IF o.accepted /\ o.res = "transient" THEN excused \cup {i} ELSE excused
            /\ relay' = [relay EXCEPT !.left = @ - 1, !.pc = IF last THEN "mark" ELSE "host",
                                      !.res = IF last THEN o.res ELSE "none"]
    BY <1>6 DEF Deliver
  <2>2. relay'.cur = {i} /\ relay.cur = {i} /\ relay'.batch = relay.batch /\ relay.pc = "host"
    BY <1>6, <2>1 DEF Deliver
  <2>3. UNCHANGED status
    BY <1>6 DEF Deliver
  <2>4. CASE o.accepted = FALSE
    BY <2>1, <2>2, <2>3, <2>4
  <2>5. CASE o.accepted = TRUE /\ o.res = "transient"
    BY <2>1, <2>2, <2>3, <2>5
  <2>6. CASE o.accepted = TRUE /\ o.res = "sent"
    <3>1. relay'.pc = "mark" /\ relay'.res = "sent"
      BY <2>1, <2>6
    <3>2. excused' = excused /\ copies' = [copies EXCEPT ![i] = OneMore(@)]
      BY <2>1, <2>6
    <3>3. i \in excused \/ copies'[i] = 1
      BY <2>2, <3>2 DEF OneMore
    <3>4. j # i => copies'[j] = copies[j]
      BY <3>2
    <3>5. QED
      BY <2>2, <2>3, <3>1, <3>2, <3>3, <3>4
  <2>7. o.accepted = FALSE \/ (o.accepted = TRUE /\ o.res \in {"sent", "transient"})
    BY DEF Outcomes
  <2>8. QED
    BY <2>4, <2>5, <2>6, <2>7
<1>7. ASSUME NEW i \in Ids, MarkSent(i) PROVE (j \in excused \/ OneCopy(j))'
  BY <1>7 DEF MarkSent, NextItem
<1>8. ASSUME NEW i \in Ids, MarkFailed(i) PROVE (j \in excused \/ OneCopy(j))'
  BY <1>8 DEF MarkFailed, NextItem
<1>9. ASSUME NEW i \in Ids, MarkRetry(i) PROVE (j \in excused \/ OneCopy(j))'
  BY <1>9 DEF MarkRetry, NextItem
<1>10. ASSUME NEW i \in Ids, PostQueueRetry(i) PROVE (j \in excused \/ OneCopy(j))'
  BY <1>0, <1>10 DEF PostQueueRetry
<1>11. CASE PostQueueFlush
  BY <1>0, <1>11 DEF PostQueueFlush, Requeue
<1>12. CASE Crash
  BY <1>12 DEF Crash, Nobody
<1>13. CASE UNCHANGED qvars
  BY <1>0, <1>13 DEF qvars
<1>14. QED
  BY <1>1, <1>2, <1>3, <1>4, <1>5, <1>6, <1>7, <1>8, <1>9, <1>10, <1>11, <1>12, <1>13
  DEF QueueNext, DrainerStep

(* The invariant is inductive. *)
LEMMA QueueInvStep == QueueInv /\ [QueueNext]_qvars => QueueInv'
<1> SUFFICES ASSUME QueueInv, [QueueNext]_qvars PROVE QueueInv'
  OBVIOUS
<1>1. QueueTypeOK'
  BY TypeStep DEF QueueInv
<1>2. Drainer'
  BY DrainerPreserved
<1>3. \A i \in Ids : (i \in excused \/ OneCopy(i))'
  BY OneCopyPreserved
<1>4. QED
  BY <1>1, <1>2, <1>3 DEF QueueInv

(* Every reachable state of the queue and the drainer is well typed; in     *)
(* particular the attempts column stays below MaxAttempts, because a row    *)
(* that reaches it is marked failed instead of being requeued.              *)
THEOREM QueueTypeCorrect == QueueSpec => []QueueTypeOK
<1>1. QueueInv => QueueTypeOK
  BY DEF QueueInv
<1>2. QED
  BY <1>1, QueueInvInitial, QueueInvStep, PTL DEF QueueSpec

(* The remote side gets a message twice only when its first answer was      *)
(* lost, the process died before MarkSent, or the administrator retried     *)
(* that row: for any number of rows and hosts, and any interleaving of      *)
(* flushes with a batch in flight.                                          *)
THEOREM QueueNeverDoubleSends == QueueSpec => []NeverDoubleSends
<1>1. QueueInv => NeverDoubleSends
  BY DEF QueueInv, OneCopy, NeverDoubleSends
<1>2. QED
  BY <1>1, QueueInvInitial, QueueInvStep, PTL DEF QueueSpec
-----------------------------------------------------------------------------
(* The refinement *)

(* What the drainer has in hand is still open, it is at most one row at a    *)
(* time, and a row it is about to mark sent was taken by the remote side.    *)
InHand ==
    /\ \A i \in Ids : i \in relay.batch \/ i \in relay.cur => status[i] \in {"queued", "sending"}
    /\ \A i, j \in Ids : i \in relay.cur /\ j \in relay.cur => i = j
    /\ Delivered => \A i \in Ids : i \in relay.cur => copies[i] # 0

LEMMA InHandInitial == QueueInit => InHand
BY DEF QueueInit, InHand, Nobody, Delivered

LEMMA InHandStep == QueueInv /\ InHand /\ [QueueNext]_qvars => InHand'
<1> SUFFICES ASSUME QueueInv, InHand, [QueueNext]_qvars PROVE InHand'
  OBVIOUS
<1> USE DEF QueueInv, Drainer, QueueTypeOK, Relays, ghosts, InHand, Delivered
<1>0. CASE UNCHANGED <<copies, relay>>
               /\ \A j \in Ids : status[j] \in {"queued", "sending"} => status'[j] \in {"queued", "sending"}
  BY <1>0
<1>1. ASSUME NEW i \in Ids, EnqueueOutbound(i) PROVE InHand'
  BY <1>0, <1>1 DEF EnqueueOutbound
<1>2. ASSUME NEW i \in Ids, BackoffOver(i) PROVE InHand'
  BY <1>0, <1>2 DEF BackoffOver
<1>3. CASE RelayStart \/ RelayStop
  BY <1>3 DEF RelayStart, RelayStop
<1>4. CASE ClaimOutboundDue
  <2>1. PICK claimed \in SUBSET Due :
            /\ status' = [i \in Ids |-> IF i \in claimed THEN "sending" ELSE status[i]]
            /\ relay' = [relay EXCEPT !.pc = "drain", !.batch = claimed, !.seen = attempts]
    BY <1>4 DEF ClaimOutboundDue
  <2>2. relay'.cur = {} /\ relay'.batch = claimed /\ relay'.pc = "drain"
    BY <1>4, <2>1 DEF ClaimOutboundDue
  <2>3. QED
    BY <2>1, <2>2
<1>5. ASSUME NEW i \in Ids, LookupHosts(i) PROVE InHand'
  <2>1. PICK n \in 0..Hosts :
            relay' = [relay EXCEPT !.batch = @ \ {i}, !.cur = {i}, !.left = n,
                                   !.pc = IF n = 0 THEN "mark" ELSE "host",
                                   !.res = IF n = 0 THEN "permanent" ELSE "none"]
    BY <1>5 DEF LookupHosts
  <2>2. relay'.cur = {i} /\ relay'.batch = relay.batch \ {i} /\ relay'.res # "sent"
    BY <2>1
  <2>3. i \in relay.batch /\ UNCHANGED status
    BY <1>5 DEF LookupHosts
  <2>4. QED
    BY <2>2, <2>3
<1>6. ASSUME NEW i \in Ids, Deliver(i) PROVE InHand'
  <2>1. PICK o \in Outcomes :
            LET last == o.res # "transient" \/ relay.left = 1 IN
            /\ copies' = IF o.accepted THEN [copies EXCEPT ![i] = OneMore(@)] ELSE copies
            /\ relay' = [relay EXCEPT !.left = @ - 1, !.pc = IF last THEN "mark" ELSE "host",
                                      !.res = IF last THEN o.res ELSE "none"]
    BY <1>6 DEF Deliver
  <2>2. relay'.cur = {i} /\ relay.cur = {i} /\ relay'.batch = relay.batch /\ UNCHANGED status
    BY <1>6, <2>1 DEF Deliver
  <2>3. relay'.res = "sent" => copies'[i] # 0
    <3>1. relay'.res = "sent" => o.res = "sent"
      BY <2>1
    <3>2. o.res = "sent" => o.accepted = TRUE
      BY DEF Outcomes
    <3>3. QED
      BY <2>1, <3>1, <3>2 DEF OneMore
  <2>4. QED
    BY <2>2, <2>3
<1>7. ASSUME NEW i \in Ids, MarkSent(i) \/ MarkFailed(i) \/ MarkRetry(i) PROVE InHand'
  <2>1. relay' = NextItem /\ relay.cur = {i} /\ i \notin relay.batch
    BY <1>7 DEF MarkSent, MarkFailed, MarkRetry
  <2>2. relay'.batch = relay.batch /\ relay'.cur = {} /\ relay'.res = "none"
    BY <2>1 DEF NextItem
  <2>3. \A j \in Ids : j # i => status'[j] = status[j]
    BY <1>7 DEF MarkSent, MarkFailed, MarkRetry
  <2>4. QED
    BY <2>1, <2>2, <2>3
<1>8. ASSUME NEW i \in Ids, PostQueueRetry(i) PROVE InHand'
  BY <1>0, <1>8 DEF PostQueueRetry
<1>9. CASE PostQueueFlush
  BY <1>0, <1>9 DEF PostQueueFlush, Requeue
<1>10. CASE Crash
  BY <1>10 DEF Crash, Nobody
<1>11. CASE UNCHANGED qvars
  BY <1>0, <1>11 DEF qvars
<1>12. QED
  BY <1>1, <1>2, <1>3, <1>4, <1>5, <1>6, <1>7, <1>8, <1>9, <1>10, <1>11 DEF QueueNext, DrainerStep

LEMMA TransferInitial == QueueInit => Transfer!TransferInit
BY DEF QueueInit, Fate, Transfer!TransferInit

(* Every step of the queue is a step of MailTransfer or changes nothing it   *)
(* speaks of.                                                                *)
LEMMA TransferStep ==
    QueueInv /\ InHand /\ [QueueNext]_qvars => [Transfer!TransferNext]_(Transfer!tvars)
<1> SUFFICES ASSUME QueueInv, InHand, [QueueNext]_qvars
             PROVE  [Transfer!TransferNext]_(Transfer!tvars)
  OBVIOUS
<1> USE DEF QueueInv, Drainer, QueueTypeOK, Relays, ghosts, InHand, Delivered
<1>0. CASE UNCHANGED <<copies, excused>> /\ Fate' = Fate
  BY <1>0 DEF Transfer!tvars
<1>1. ASSUME NEW i \in Ids, EnqueueOutbound(i) PROVE Transfer!TransferNext
  <2>1. Transfer!Accept(i)
    BY <1>1 DEF EnqueueOutbound, Fate, Transfer!Accept
  <2>2. QED
    BY <2>1 DEF Transfer!TransferNext
<1>2. ASSUME UNCHANGED <<status, copies, excused>> PROVE [Transfer!TransferNext]_(Transfer!tvars)
  BY <1>0, <1>2 DEF Fate
<1>3. CASE ClaimOutboundDue
  <2>1. PICK claimed \in SUBSET Due :
            status' = [i \in Ids |-> IF i \in claimed THEN "sending" ELSE status[i]]
    BY <1>3 DEF ClaimOutboundDue
  <2>2. Fate' = Fate
    BY <2>1 DEF Fate, Due
  <2>3. QED
    BY <1>0, <1>3, <2>2 DEF ClaimOutboundDue
<1>4. ASSUME NEW i \in Ids, Deliver(i) PROVE [Transfer!TransferNext]_(Transfer!tvars)
  <2>1. PICK o \in Outcomes :
            /\ copies' = IF o.accepted THEN [copies EXCEPT ![i] = OneMore(@)] ELSE copies
            /\ excused' = IF o.accepted /\ o.res = "transient" THEN excused \cup {i} ELSE excused
    BY <1>4 DEF Deliver
  <2>2. Fate' = Fate
    BY <1>4 DEF Deliver, Fate
  <2>3. CASE o.accepted = FALSE
    BY <1>0, <2>1, <2>2, <2>3
  <2>4. CASE o.accepted = TRUE
    <3>1. Fate[i] = "open"
      BY <1>4 DEF Deliver, Fate
    <3>2. copies[i] = 0 \/ i \in excused
      BY <1>4 DEF Deliver, OneCopy
    <3>3. Transfer!HandOver(i)
      BY <2>1, <2>2, <2>4, <3>1, <3>2 DEF OneMore, Transfer!HandOver
    <3>4. QED
      BY <3>3 DEF Transfer!TransferNext
  <2>5. o.accepted = FALSE \/ o.accepted = TRUE
    BY DEF Outcomes
  <2>6. QED
    BY <2>3, <2>4, <2>5
<1>5. ASSUME NEW i \in Ids, MarkSent(i) PROVE Transfer!TransferNext
  <2>1. Fate[i] = "open" /\ copies[i] > 0
    BY <1>5 DEF MarkSent, Fate
  <2>2. Fate' = [Fate EXCEPT ![i] = "sent"]
    BY <1>5 DEF MarkSent, Fate
  <2>3. Transfer!Settle(i)
    BY <1>5, <2>1, <2>2 DEF MarkSent, Transfer!Settle
  <2>4. QED
    BY <2>3 DEF Transfer!TransferNext
<1>6. ASSUME NEW i \in Ids, MarkFailed(i) PROVE Transfer!TransferNext
  <2>1. Fate[i] = "open" /\ Fate' = [Fate EXCEPT ![i] = "failed"]
    BY <1>6 DEF MarkFailed, Fate
  <2>2. Transfer!Settle(i)
    BY <1>6, <2>1 DEF MarkFailed, Transfer!Settle
  <2>3. QED
    BY <2>2 DEF Transfer!TransferNext
<1>7. ASSUME NEW i \in Ids, MarkRetry(i) PROVE [Transfer!TransferNext]_(Transfer!tvars)
  <2>1. Fate' = Fate
    BY <1>7 DEF MarkRetry, Fate
  <2>2. QED
    BY <1>0, <1>7, <2>1 DEF MarkRetry
<1>8. ASSUME NEW i \in Ids, PostQueueRetry(i) PROVE Transfer!TransferNext
  <2>1. Fate[i] # "none" /\ Fate' = [Fate EXCEPT ![i] = "open"]
    BY <1>8 DEF PostQueueRetry, Fate
  <2>2. Transfer!SendAgain(i)
    BY <1>8, <2>1 DEF PostQueueRetry, Transfer!SendAgain
  <2>3. QED
    BY <2>2 DEF Transfer!TransferNext
<1>9. CASE PostQueueFlush
  <2>1. Fate' = [i \in Ids |-> IF Fate[i] = "failed" THEN "open" ELSE Fate[i]]
    BY <1>9 DEF PostQueueFlush, Requeue, Fate
  <2>2. Transfer!ReopenFailed
    BY <1>9, <2>1 DEF PostQueueFlush, Requeue, Transfer!ReopenFailed
  <2>3. QED
    BY <2>2 DEF Transfer!TransferNext
<1>10. CASE Crash
  <2>1. Fate' = Fate /\ UNCHANGED copies
    BY <1>10 DEF Crash, Fate
  <2>2. CASE excused' = excused
    BY <1>0, <2>1, <2>2
  <2>3. CASE excused' # excused
    <3>1. PICK i \in Ids : i \in relay.cur /\ relay.res = "sent"
      BY <1>10, <2>3 DEF Crash
    <3>2. relay.cur = {i}
      BY <3>1
    <3>3. Fate[i] = "open" /\ copies[i] > 0 /\ excused' = excused \cup {i}
      BY <1>10, <3>1, <3>2 DEF Crash, Fate
    <3>4. Transfer!Doubt(i)
      BY <2>1, <3>3 DEF Transfer!Doubt
    <3>5. QED
      BY <3>4 DEF Transfer!TransferNext
  <2>4. QED
    BY <2>2, <2>3
<1>11. QED
  BY <1>1, <1>2, <1>3, <1>4, <1>5, <1>6, <1>7, <1>8, <1>9, <1>10
  DEF QueueNext, DrainerStep, BackoffOver, RelayStart, RelayStop, LookupHosts, qvars

(* The queue implements MailTransfer for any number of rows, hosts and       *)
(* process deaths: every step of the drainer, the administrator and a        *)
(* restart maps to a step of the abstract transfer or to none.               *)
THEOREM QueueImplementsTransfer == QueueSpec => ImplementsTransfer
<1>1. QueueInit => QueueInv /\ InHand
  BY QueueInvInitial, InHandInitial
<1>2. QueueInv /\ InHand /\ [QueueNext]_qvars => (QueueInv /\ InHand)'
  BY QueueInvStep, InHandStep
<1>3. QED
  BY <1>1, <1>2, TransferInitial, TransferStep, PTL
  DEF QueueSpec, ImplementsTransfer, Transfer!TransferSpec
-----------------------------------------------------------------------------
(* Giving up *)

(* What a row's tries may come to: the attempts it is charged with, one     *)
(* that is under way, and one for each process that died with the row in     *)
(* hand.  The drainer's own count of a row agrees with the column as long as *)
(* it holds the row.                                                        *)
Budget(i) ==
    /\ status[i] = "absent" => tries[i] = 0 /\ i \notin relay.batch /\ i \notin relay.cur
    /\ i \in relay.batch => i \notin relay.cur /\ status[i] \in {"queued", "sending"}
    /\ i \in relay.batch \/ i \in relay.cur => relay.seen[i] = attempts[i]
    /\ i \in relay.cur => tries[i] <= attempts[i] + 1 + crashes
    /\ i \notin relay.cur /\ status[i] \in {"queued", "sending"} => tries[i] <= attempts[i] + crashes
    /\ tries[i] <= MaxAttempts + crashes

LEMMA BudgetFirst == QueueInit => \A i \in Ids : Budget(i)
BY QueueAssumption DEF QueueInit, Budget, Nobody

LEMMA BudgetPreserved ==
    ASSUME QueueInv, [QueueNext]_qvars, NEW j \in Ids, Budget(j)
    PROVE  Budget(j)'
<1> USE QueueAssumption DEF Budget
<1>0. /\ tries \in [Ids -> Nat] /\ attempts \in [Ids -> 0..(MaxAttempts - 1)] /\ crashes \in Nat /\ relay \in Relays
      /\ tries[j] \in Nat /\ attempts[j] \in Nat /\ attempts[j] + 1 <= MaxAttempts
      /\ status \in [Ids -> {"absent", "queued", "sending", "sent", "failed"}]
  BY DEF QueueInv, QueueTypeOK
<1>1. ASSUME NEW i \in Ids, EnqueueOutbound(i) PROVE Budget(j)'
  BY <1>0, <1>1 DEF EnqueueOutbound, ghosts
<1>2. ASSUME NEW i \in Ids, BackoffOver(i) PROVE Budget(j)'
  BY <1>2 DEF BackoffOver, ghosts
<1>3. CASE RelayStart \/ RelayStop
  <2>1. /\ relay'.batch = relay.batch /\ relay'.cur = relay.cur /\ relay'.seen = relay.seen
        /\ UNCHANGED <<status, attempts, tries, crashes>>
    BY <1>0, <1>3 DEF RelayStart, RelayStop, Relays, ghosts
  <2>2. QED
    BY <2>1
<1>4. CASE ClaimOutboundDue
  <2>1. PICK claimed \in SUBSET Due :
            /\ status' = [i \in Ids |-> IF i \in claimed THEN "sending" ELSE status[i]]
            /\ relay' = [relay EXCEPT !.pc = "drain", !.batch = claimed, !.seen = attempts]
    BY <1>4 DEF ClaimOutboundDue
  <2>2. relay'.cur = {} /\ relay'.batch = claimed /\ relay'.seen = attempts /\ relay.cur = {}
    BY <1>0, <1>4, <2>1 DEF ClaimOutboundDue, Relays, QueueInv, Drainer
  <2>3. j \in claimed => status[j] = "queued"
    BY DEF Due
  <2>4. UNCHANGED <<attempts, tries, crashes>>
    BY <1>4 DEF ClaimOutboundDue, ghosts
  <2>5. status'[j] = IF j \in claimed THEN "sending" ELSE status[j]
    BY <2>1
  <2>6. QED
    BY <2>2, <2>3, <2>4, <2>5
<1>5. ASSUME NEW i \in Ids, LookupHosts(i) PROVE Budget(j)'
  <2>1. PICK n \in 0..Hosts :
            relay' = [relay EXCEPT !.batch = @ \ {i}, !.cur = {i}, !.left = n,
                                   !.pc = IF n = 0 THEN "mark" ELSE "host",
                                   !.res = IF n = 0 THEN "permanent" ELSE "none"]
    BY <1>5 DEF LookupHosts
  <2>2. relay.cur = {} /\ relay'.cur = {i} /\ relay'.batch = relay.batch \ {i} /\ relay'.seen = relay.seen
    BY <1>0, <1>5, <2>1 DEF LookupHosts, Relays, QueueInv, Drainer
  <2>3. i \in relay.batch /\ tries' = [tries EXCEPT ![i] = @ + 1] /\ UNCHANGED <<status, attempts, crashes>>
    BY <1>5 DEF LookupHosts
  <2>4. tries'[j] = IF j = i THEN tries[j] + 1 ELSE tries[j]
    BY <1>0, <2>3
  <2>5. QED
    BY <1>0, <2>2, <2>3, <2>4
<1>6. ASSUME NEW i \in Ids, Deliver(i) PROVE Budget(j)'
  <2>1. /\ relay'.batch = relay.batch /\ relay'.cur = relay.cur /\ relay'.seen = relay.seen
        /\ UNCHANGED <<status, attempts, tries, crashes>>
    BY <1>0, <1>6 DEF Deliver, Relays
  <2>2. QED
    BY <2>1
<1>7. ASSUME NEW i \in Ids, MarkSent(i) \/ MarkFailed(i) \/ MarkRetry(i) PROVE Budget(j)'
  <2>1. /\ relay.cur = {i} /\ relay'.cur = {} /\ relay'.batch = relay.batch /\ relay'.seen = relay.seen
        /\ UNCHANGED <<tries, crashes>>
    BY <1>0, <1>7 DEF MarkSent, MarkFailed, MarkRetry, NextItem, Relays, ghosts
  <2>2. /\ j # i => status'[j] = status[j] /\ attempts'[j] = attempts[j]
        /\ status'[i] \in {"sent", "failed", "queued"}
        /\ status'[i] = "queued" => attempts'[i] = relay.seen[i] + 1
    BY <1>0, <1>7 DEF MarkSent, MarkFailed, MarkRetry
  <2>3. CASE j = i
    BY <1>0, <2>1, <2>2, <2>3
  <2>4. CASE j # i
    BY <2>1, <2>2, <2>4
  <2>5. QED
    BY <2>3, <2>4
<1>8. ASSUME NEW i \in Ids, PostQueueRetry(i) PROVE Budget(j)'
  <2>1. /\ UNCHANGED <<attempts, relay, crashes>>
        /\ j # i => status'[j] = status[j] /\ tries'[j] = tries[j]
        /\ status[i] # "absent" /\ status'[i] = "queued" /\ tries'[i] = 0
    BY <1>0, <1>8 DEF PostQueueRetry
  <2>2. QED
    BY <1>0, <2>1
<1>9. CASE PostQueueFlush
  <2>1. /\ UNCHANGED <<attempts, relay, crashes>>
        /\ \/ status'[j] = status[j] /\ tries'[j] = tries[j]
           \/ status[j] # "absent" /\ status'[j] = "queued" /\ tries'[j] = 0
    BY <1>0, <1>9 DEF PostQueueFlush, Requeue
  <2>2. QED
    BY <1>0, <2>1
<1>10. CASE Crash
  <2>1. /\ relay'.batch = {} /\ relay'.cur = {} /\ crashes' = crashes + 1 /\ UNCHANGED <<status, attempts, tries>>
    BY <1>10 DEF Crash, Nobody
  <2>2. QED
    BY <1>0, <2>1
<1>11. CASE UNCHANGED qvars
  BY <1>11 DEF qvars
<1>12. QED
  BY <1>1, <1>2, <1>3, <1>4, <1>5, <1>6, <1>7, <1>8, <1>9, <1>10, <1>11 DEF QueueNext, DrainerStep

(* The drainer gives up: a row is tried at most MaxAttempts times after the *)
(* administrator last touched it, and once more for each process that died, *)
(* for any number of rows, hosts and attempts, with flushes of rows in       *)
(* flight: ProcessOne and MarkOutboundRetry.                                *)
THEOREM QueueGivesUp == QueueSpec => []GivesUp
<1> DEFINE Inv == QueueInv /\ \A i \in Ids : Budget(i)
<1>1. QueueInit => Inv
  BY BudgetFirst, QueueInvInitial
<1>2. Inv /\ [QueueNext]_qvars => Inv'
  BY BudgetPreserved, QueueInvStep
<1>3. Inv => GivesUp
  BY DEF GivesUp, Budget
<1>4. QED
  BY <1>1, <1>2, <1>3, PTL DEF QueueSpec
=============================================================================
