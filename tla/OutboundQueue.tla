---------------------------- MODULE OutboundQueue ----------------------------
(***************************************************************************)
(* The outbound relay queue: the quackmail_outbound table of               *)
(* core/src/mail_store.cpp, the relay drainer of smtp_out that claims and  *)
(* delivers its rows, the SMTP client it delivers with, and the two        *)
(* administrator's buttons of http/src/web_admin_ops.cpp that requeue      *)
(* rows while the drainer is at work.  The drainer is one thread, each SQL *)
(* statement commits by itself, and the remote host decides what happens   *)
(* to a message: it may also accept one and have its answer lost.          *)
(***************************************************************************)
EXTENDS Naturals, FiniteSets

CONSTANTS
    Ids,            \* rows of quackmail_outbound
    MaxAttempts,    \* transient failures before the drainer gives up (10)
    Batch,          \* LIMIT of ClaimOutboundDue (20)
    Hosts,          \* most MX hosts a domain has; the smarthost counts as one
    MaxCrashes,     \* bound on process deaths
    Ops             \* what else happens: {"retry", "flush", "stop"}

ASSUME QueueAssumption ==
    /\ MaxAttempts \in Nat \ {0}
    /\ Batch \in Nat \ {0}
    /\ Hosts \in Nat \ {0}
    /\ MaxCrashes \in Nat
    /\ Ops \subseteq {"retry", "flush", "stop"}

VARIABLES
    status,     \* the status column; "absent" before the row exists
    attempts,   \* the attempts column
    due,        \* next_attempt_at <= now()
    relay,      \* the drainer thread
    copies,     \* copies of the message the remote side accepted, up to 2
    excused,    \* rows for which the remote side may rightly hold two copies
    tries,      \* delivery attempts since the administrator last touched the row
    crashes     \* process deaths so far

qvars == <<status, attempts, due, relay, copies, excused, tries, crashes>>
ghosts == <<copies, excused, tries, crashes>>

Nobody == [pc |-> "off", batch |-> {}, seen |-> [i \in Ids |-> 0],
           cur |-> {}, left |-> 0, res |-> "none"]

Relays == [pc : {"off", "sleep", "drain", "host", "mark"},
           batch : SUBSET Ids,                  \* claimed, not yet processed
           seen : [Ids -> 0..(MaxAttempts - 1)],\* attempts as RETURNING gave it
           cur : SUBSET Ids,                    \* the item ProcessOne works on
           left : 0..Hosts,                     \* MX hosts not tried yet
           res : {"none", "sent", "permanent", "transient"}]

QueueTypeOK ==
    /\ status \in [Ids -> {"absent", "queued", "sending", "sent", "failed"}]
    /\ attempts \in [Ids -> 0..(MaxAttempts - 1)]
    /\ due \in [Ids -> BOOLEAN]
    /\ relay \in Relays
    /\ copies \in [Ids -> 0..2]
    /\ excused \in SUBSET Ids
    /\ tries \in [Ids -> Nat]
    /\ crashes \in 0..MaxCrashes

QueueInit ==
    /\ status = [i \in Ids |-> "absent"]
    /\ attempts = [i \in Ids |-> 0]
    /\ due = [i \in Ids |-> FALSE]
    /\ relay = Nobody
    /\ copies = [i \in Ids |-> 0]
    /\ excused = {}
    /\ tries = [i \in Ids |-> 0]
    /\ crashes = 0

-----------------------------------------------------------------------------
(* A row is queued by submission, a Sieve redirect, a list or a bounce. *)
EnqueueOutbound(i) ==
    /\ status[i] = "absent"
    /\ status' = [status EXCEPT ![i] = "queued"]
    /\ due' = [due EXCEPT ![i] = TRUE]
    /\ UNCHANGED <<attempts, relay, ghosts>>

(* The backoff of a retried row runs out. *)
BackoffOver(i) ==
    /\ status[i] = "queued"
    /\ ~due[i]
    /\ due' = [due EXCEPT ![i] = TRUE]
    /\ UNCHANGED <<status, attempts, relay, ghosts>>

-----------------------------------------------------------------------------
(* The relay drainer *)

RelayStart ==
    /\ relay.pc = "off"
    /\ relay' = [relay EXCEPT !.pc = "sleep"]
    /\ UNCHANGED <<status, attempts, due, ghosts>>

(* Stop joins the thread, which looks at stop_ only between two ticks. *)
RelayStop ==
    /\ "stop" \in Ops
    /\ relay.pc = "sleep"
    /\ relay' = [relay EXCEPT !.pc = "off"]
    /\ UNCHANGED <<status, attempts, due, ghosts>>

Due == {i \in Ids : status[i] = "queued" /\ due[i]}

(* One UPDATE ... RETURNING; which rows come first is next_attempt_at's     *)
(* business and is left open.                                               *)
ClaimOutboundDue ==
    /\ relay.pc = "sleep"
    /\ \E claimed \in SUBSET Due :
          /\ claimed # {}
          /\ Cardinality(claimed) = Batch \/ (claimed = Due /\ Cardinality(Due) <= Batch)
          /\ status' = [i \in Ids |-> IF i \in claimed THEN "sending" ELSE status[i]]
          /\ relay' = [relay EXCEPT !.pc = "drain", !.batch = claimed, !.seen = attempts]
    /\ UNCHANGED <<attempts, due, ghosts>>

(* ProcessOne: the hosts to try; none at all for an address with no domain. *)
LookupHosts(i) ==
    /\ relay.pc = "drain"
    /\ i \in relay.batch
    /\ \E n \in 0..Hosts :
          relay' = [relay EXCEPT !.batch = @ \ {i}, !.cur = {i}, !.left = n,
                                 !.pc = IF n = 0 THEN "mark" ELSE "host",
                                 !.res = IF n = 0 THEN "permanent" ELSE "none"]
    /\ tries' = [tries EXCEPT ![i] = @ + 1]
    /\ UNCHANGED <<status, attempts, due, copies, excused, crashes>>

(* What the remote host did, and what smtp::Deliver makes of it: a connection *)
(* lost after the final dot is "no reply after data", a transient failure.    *)
Outcomes == {[res |-> "sent", accepted |-> TRUE], [res |-> "permanent", accepted |-> FALSE],
             [res |-> "transient", accepted |-> FALSE], [res |-> "transient", accepted |-> TRUE]}

OneMore(n) == IF n < 2 THEN n + 1 ELSE 2

Deliver(i) ==
    /\ relay.pc = "host"
    /\ relay.cur = {i}
    /\ \E o \in Outcomes :
          LET last == o.res # "transient" \/ relay.left = 1 IN
          /\ copies' = IF o.accepted THEN [copies EXCEPT ![i] = OneMore(@)] ELSE copies
          /\ excused' = IF o.accepted /\ o.res = "transient" THEN excused \cup {i} ELSE excused
          /\ relay' = [relay EXCEPT !.left = @ - 1, !.pc = IF last THEN "mark" ELSE "host",
                                    !.res = IF last THEN o.res ELSE "none"]
    /\ UNCHANGED <<status, attempts, due, tries, crashes>>

(* The drainer goes on with its batch, or to sleep when it was the last. *)
NextItem == [relay EXCEPT !.pc = IF relay.batch = {} THEN "sleep" ELSE "drain",
                          !.cur = {}, !.left = 0, !.res = "none"]

(* Deviation: a lost answer counts as a delivery. *)
MarkSentUnheard(i) ==
    /\ relay.pc = "mark" /\ relay.cur = {i} /\ relay.res \in {"sent", "transient"}
    /\ status' = [status EXCEPT ![i] = "sent"]
    /\ relay' = NextItem
    /\ UNCHANGED <<attempts, due, ghosts>>

MarkSent(i) ==
    /\ relay.pc = "mark" /\ relay.cur = {i} /\ relay.res = "sent"
    /\ status' = [status EXCEPT ![i] = "sent"]
    /\ relay' = NextItem
    /\ UNCHANGED <<attempts, due, ghosts>>

MarkFailed(i) ==
    /\ relay.pc = "mark" /\ relay.cur = {i}
    /\ \/ relay.res = "permanent"
       \/ relay.res = "transient" /\ relay.seen[i] + 1 >= MaxAttempts
    /\ status' = [status EXCEPT ![i] = "failed"]
    /\ relay' = NextItem
    /\ UNCHANGED <<attempts, due, ghosts>>

(* Deviation: the attempt count is not written back. *)
MarkRetryUncounted(i) ==
    /\ relay.pc = "mark" /\ relay.cur = {i} /\ relay.res = "transient"
    /\ relay.seen[i] + 1 < MaxAttempts
    /\ status' = [status EXCEPT ![i] = "queued"]
    /\ due' = [due EXCEPT ![i] = FALSE]
    /\ relay' = NextItem
    /\ UNCHANGED <<attempts, ghosts>>

(* Deviation: it gives up one attempt late. *)
MarkRetryOnceMore(i) ==
    /\ relay.pc = "mark" /\ relay.cur = {i} /\ relay.res = "transient"
    /\ status' = [status EXCEPT ![i] = "queued"]
    /\ attempts' = [attempts EXCEPT ![i] = relay.seen[i] + 1]
    /\ due' = [due EXCEPT ![i] = FALSE]
    /\ relay' = NextItem
    /\ UNCHANGED ghosts

(* Deviation: the row stays claimed, with its backoff set. *)
MarkRetryClaimed(i) ==
    /\ relay.pc = "mark" /\ relay.cur = {i} /\ relay.res = "transient"
    /\ relay.seen[i] + 1 < MaxAttempts
    /\ attempts' = [attempts EXCEPT ![i] = relay.seen[i] + 1]
    /\ due' = [due EXCEPT ![i] = FALSE]
    /\ relay' = NextItem
    /\ UNCHANGED <<status, ghosts>>

MarkRetry(i) ==
    /\ relay.pc = "mark" /\ relay.cur = {i} /\ relay.res = "transient"
    /\ relay.seen[i] + 1 < MaxAttempts
    /\ status' = [status EXCEPT ![i] = "queued"]
    /\ attempts' = [attempts EXCEPT ![i] = relay.seen[i] + 1]
    /\ due' = [due EXCEPT ![i] = FALSE]
    /\ relay' = NextItem
    /\ UNCHANGED ghosts

-----------------------------------------------------------------------------
(* The administrator *)

PostQueueRetry(i) ==
    /\ "retry" \in Ops
    /\ status[i] # "absent"
    /\ status' = [status EXCEPT ![i] = "queued"]
    /\ due' = [due EXCEPT ![i] = TRUE]
    /\ excused' = excused \cup {i}
    /\ tries' = [tries EXCEPT ![i] = 0]
    /\ UNCHANGED <<attempts, relay, copies, crashes>>

Requeue(touched) ==
    /\ status' = [i \in Ids |-> IF i \in touched THEN "queued" ELSE status[i]]
    /\ due' = [i \in Ids |-> due[i] \/ i \in touched]
    /\ tries' = [i \in Ids |-> IF i \in touched THEN 0 ELSE tries[i]]
    /\ UNCHANGED <<attempts, relay, copies, excused, crashes>>

(* Deviation: every row is requeued, delivered ones included. *)
PostQueueFlushAll ==
    /\ "flush" \in Ops
    /\ Requeue({i \in Ids : status[i] # "absent"})

PostQueueFlush ==
    /\ "flush" \in Ops
    /\ Requeue({i \in Ids : status[i] \notin {"absent", "sent"}})

(* The process dies.  A row the remote side accepted and nobody marked is   *)
(* one it may be given again.                                               *)
Crash ==
    /\ crashes < MaxCrashes
    /\ relay.pc # "off"
    /\ relay' = Nobody
    /\ excused' = excused \cup (IF relay.res = "sent" THEN relay.cur ELSE {})
    /\ crashes' = crashes + 1
    /\ UNCHANGED <<status, attempts, due, copies, tries>>

DrainerStep ==
    \/ ClaimOutboundDue
    \/ \E i \in Ids : LookupHosts(i)
    \/ \E i \in Ids : Deliver(i)
    \/ \E i \in Ids : MarkSent(i)
    \/ \E i \in Ids : MarkFailed(i)
    \/ \E i \in Ids : MarkRetry(i)

QueueNext ==
    \/ \E i \in Ids : EnqueueOutbound(i)
    \/ \E i \in Ids : BackoffOver(i)
    \/ RelayStart
    \/ RelayStop
    \/ DrainerStep
    \/ \E i \in Ids : PostQueueRetry(i)
    \/ PostQueueFlush
    \/ Crash

QueueSpec == QueueInit /\ [][QueueNext]_qvars

(* The drainer thread runs, the clock advances, and qm_smtp_relay_start is   *)
(* part of the server's start script, so a restarted process runs it again.  *)
QueueFairness ==
    /\ WF_qvars(DrainerStep)
    /\ WF_qvars(RelayStart)
    /\ \A i \in Ids : WF_qvars(BackoffOver(i))

FairQueueSpec == QueueSpec /\ QueueFairness

-----------------------------------------------------------------------------
(* Properties *)

(* mail_store.hpp: rows are flipped to 'sending' "so a single drainer never *)
(* double-sends".  With the administrator requeueing rows that are in       *)
(* flight, the remote side gets a message twice only if its first answer    *)
(* was lost, the process died before it was recorded, or somebody pressed   *)
(* "Retry now" on that very row.                                            *)
NeverDoubleSends ==
    \A i \in Ids : copies[i] = 2 => i \in excused

(* The drainer gives up: however transient failures, flushes and retries    *)
(* mix, a row is tried at most MaxAttempts times after the administrator    *)
(* last touched it, and once more for each process death, whose attempt     *)
(* was never counted.                                                       *)
GivesUp ==
    \A i \in Ids : tries[i] <= MaxAttempts + crashes

(* The queue page: "The relay drainer picks up anything whose next attempt  *)
(* is due."  Every queued message is sent or reported failed in the end,    *)
(* through transient failures, backoff and flushes of rows in flight.       *)
DueIsPickedUp ==
    \A i \in Ids : status[i] = "queued" ~> status[i] \in {"sent", "failed"}

(* The same as long as the drainer is neither stopped nor killed.           *)
DueIsPickedUpWhileRunning ==
    \A i \in Ids : status[i] = "queued" ~> status[i] \in {"sent", "failed"} \/ relay.pc = "off"

(* What the status column says of a row, without who has claimed it. *)
Fate == [i \in Ids |-> IF status[i] = "absent" THEN "none"
                       ELSE IF status[i] \in {"queued", "sending"} THEN "open" ELSE status[i]]

Transfer == INSTANCE MailTransfer WITH Messages <- Ids, fate <- Fate, taken <- copies, doubted <- excused

(* The queue implements MailTransfer: through claims, hosts, lost answers,  *)
(* requeued rows in flight and restarts, 'sent' is recorded only of a       *)
(* message the remote side has, a delivered row is reopened only by hand,   *)
(* and a second copy goes out only of one whose delivery is in doubt.       *)
ImplementsTransfer == Transfer!TransferSpec
=============================================================================
