----------------------------- MODULE Submission -----------------------------
(***************************************************************************)
(* Authenticated submission: the SMTP dialogue of HandleSubmission         *)
(* (smtp_out), the send quota of policy::CheckRate and RecordSend          *)
(* (core/src/mailpolicy.cpp) and submission::Send, which queues the remote *)
(* recipients one by one and then delivers the local ones.  All sessions   *)
(* are one user's, and everything happens inside one burst window, so no   *)
(* row of the send log ages out.                                           *)
(***************************************************************************)
EXTENDS Naturals, Sequences, FiniteSets

CONSTANTS
    Sessions,       \* connections of the user
    Remote, Local,  \* recipients outside and inside the site
    BurstMax,       \* the user's burst_max; 0 is unlimited
    MaxRcpts,       \* bound: RCPT commands in one transaction
    MaxMails,       \* bound: MAIL commands in one session
    LocalFails      \* whether LocalDeliver may fail

ASSUME SubmissionAssumption ==
    /\ Remote \cap Local = {}
    /\ IsFiniteSet(Sessions)
    /\ BurstMax \in Nat /\ MaxRcpts \in Nat /\ MaxMails \in Nat
    /\ LocalFails \in BOOLEAN

VARIABLES
    session,    \* the dialogue of each connection
    outbox,     \* rows put on quackmail_outbound, as a set of records
    sendLog,    \* rows of quackmail_send_log
    named,      \* recipients the client named in each of its transactions
    refused     \* transactions answered 451 after submission::Send

svars == <<session, outbox, sendLog, named, refused>>

Rcpts == Remote \cup Local

Fresh(tls) == [pc |-> "cmd", tls |-> tls, authed |-> FALSE, mail |-> 0, open |-> FALSE,
               rcpts |-> <<>>, next |-> 0]

SessionStates == [pc : {"cmd", "body", "send", "charge", "closed"},
                  tls : BOOLEAN, authed : BOOLEAN,
                  mail : 0..MaxMails,                     \* MAIL commands so far
                  open : BOOLEAN,                         \* have_mail
                  rcpts : UNION {[1..n -> Rcpts] : n \in 0..MaxRcpts},
                  next : 0..(MaxRcpts + 1)]               \* loop index of Send or RecordSend

SubmissionTypeOK ==
    /\ session \in [Sessions -> SessionStates]
    /\ outbox \subseteq [by : Sessions, mail : 1..MaxMails, at : 1..MaxRcpts, rcpt : Remote]
    /\ sendLog \in 0..(Cardinality(Sessions) * MaxMails * MaxRcpts)
    /\ named \in [Sessions -> [1..MaxMails -> SUBSET Rcpts]]
    /\ refused \subseteq Sessions \X (1..MaxMails)

(* An MSA connection starts in the clear, an SMTPS one inside TLS. *)
SubmissionInit ==
    /\ session \in [Sessions -> {Fresh(FALSE), Fresh(TRUE)}]
    /\ outbox = {}
    /\ sendLog = 0
    /\ named = [s \in Sessions |-> [k \in 1..MaxMails |-> {}]]
    /\ refused = {}

Now(s, j) == session' = [session EXCEPT ![s] = j]

Cleared(j) == [j EXCEPT !.pc = "cmd", !.open = FALSE, !.rcpts = <<>>, !.next = 0]

-----------------------------------------------------------------------------
(* Commands *)

StartTls(s) ==
    /\ session[s].pc = "cmd"
    /\ ~session[s].tls
    /\ Now(s, [Cleared(session[s]) EXCEPT !.tls = TRUE, !.authed = FALSE])
    /\ UNCHANGED <<outbox, sendLog, named, refused>>

(* A failed exchange leaves the session as it was. *)
Auth(s) ==
    /\ session[s].pc = "cmd"
    /\ session[s].tls /\ ~session[s].authed
    /\ Now(s, [session[s] EXCEPT !.authed = TRUE])
    /\ UNCHANGED <<outbox, sendLog, named, refused>>

(* Deviation: MAIL keeps the recipients of the transaction before it. *)
MailKeepsRcpts(s) ==
    /\ session[s].pc = "cmd"
    /\ session[s].authed
    /\ session[s].mail < MaxMails
    /\ Now(s, [session[s] EXCEPT !.open = TRUE, !.mail = @ + 1])
    /\ UNCHANGED <<outbox, sendLog, named, refused>>

Mail(s) ==
    /\ session[s].pc = "cmd"
    /\ session[s].authed
    /\ session[s].mail < MaxMails
    /\ Now(s, [session[s] EXCEPT !.rcpts = <<>>, !.open = TRUE, !.mail = @ + 1])
    /\ UNCHANGED <<outbox, sendLog, named, refused>>

Rcpt(s, r) ==
    /\ session[s].pc = "cmd"
    /\ session[s].authed
    /\ session[s].open
    /\ Len(session[s].rcpts) < MaxRcpts
    /\ Now(s, [session[s] EXCEPT !.rcpts = Append(@, r)])
    /\ named' = [named EXCEPT ![s][session[s].mail] = @ \cup {r}]
    /\ UNCHANGED <<outbox, sendLog, refused>>

Rset(s) ==
    /\ session[s].pc = "cmd"
    /\ Now(s, Cleared(session[s]))
    /\ UNCHANGED <<outbox, sendLog, named, refused>>

(* QUIT; a lost connection and a failed TLS handshake end a session alike. *)
Quit(s) ==
    /\ session[s].pc = "cmd"
    /\ Now(s, [session[s] EXCEPT !.pc = "closed"])
    /\ UNCHANGED <<outbox, sendLog, named, refused>>

-----------------------------------------------------------------------------
(* DATA *)

(* CheckRate: what the log holds, plus what this message would add.  The    *)
(* daily limit is the same test over a longer window.                       *)
Allowed(count) == BurstMax > 0 => sendLog + count <= BurstMax

(* 354, or 451 and a cleared envelope.  Without MAIL and RCPT: 503. *)
Data(s) ==
    LET j == session[s] IN
    /\ j.pc = "cmd"
    /\ j.authed /\ j.open /\ j.rcpts # <<>>
    /\ Now(s, IF Allowed(Len(j.rcpts)) THEN [j EXCEPT !.pc = "body"] ELSE Cleared(j))
    /\ UNCHANGED <<outbox, sendLog, named, refused>>

(* ReadDotStuffed: the body arrives, or it is too large or the peer left. *)
Body(s) ==
    /\ session[s].pc = "body"
    /\ \/ Now(s, [session[s] EXCEPT !.pc = "send", !.next = 1])
       \/ Now(s, [session[s] EXCEPT !.pc = "closed"])
    /\ UNCHANGED <<outbox, sendLog, named, refused>>

(* Deviation: local recipients are queued for the relay as well. *)
SendNextEveryone(s) ==
    LET j == session[s] IN
    /\ j.pc = "send"
    /\ j.next <= Len(j.rcpts)
    /\ outbox' = outbox \cup {[by |-> s, mail |-> j.mail, at |-> j.next, rcpt |-> j.rcpts[j.next]]}
    /\ Now(s, [j EXCEPT !.next = @ + 1])
    /\ UNCHANGED <<sendLog, named, refused>>

(* submission::Send: one EnqueueOutbound per remote recipient, in order. *)
SendNext(s) ==
    LET j == session[s]
        r == j.rcpts[j.next]
    IN  /\ j.pc = "send"
        /\ j.next <= Len(j.rcpts)
        /\ outbox' = IF r \in Remote
                     THEN outbox \cup {[by |-> s, mail |-> j.mail, at |-> j.next, rcpt |-> r]}
                     ELSE outbox
        /\ Now(s, [j EXCEPT !.next = @ + 1])
        /\ UNCHANGED <<sendLog, named, refused>>

(* Then LocalDeliver, when there is anybody local.  Its failure is the      *)
(* whole message's: 451, nothing is charged and the envelope is cleared.    *)
DeliverLocal(s) ==
    LET j == session[s]
        someLocal == \E i \in DOMAIN j.rcpts : j.rcpts[i] \in Local
    IN  /\ j.pc = "send"
        /\ j.next > Len(j.rcpts)
        /\ \/ Now(s, [j EXCEPT !.pc = "charge", !.next = 1]) /\ UNCHANGED refused
           \/ /\ someLocal /\ LocalFails
              /\ Now(s, Cleared(j))
              /\ refused' = refused \cup {<<s, j.mail>>}
        /\ UNCHANGED <<outbox, sendLog, named>>

(* RecordSend, one row per recipient, and then "250 OK". *)
Charge(s) ==
    LET j == session[s] IN
    /\ j.pc = "charge"
    /\ sendLog' = sendLog + 1
    /\ Now(s, IF j.next = Len(j.rcpts) THEN Cleared(j) ELSE [j EXCEPT !.next = @ + 1])
    /\ UNCHANGED <<outbox, named, refused>>

SubmissionNext ==
    \E s \in Sessions :
        \/ StartTls(s)
        \/ Auth(s)
        \/ Mail(s)
        \/ \E r \in Rcpts : Rcpt(s, r)
        \/ Rset(s)
        \/ Quit(s)
        \/ Data(s)
        \/ Body(s)
        \/ SendNext(s)
        \/ DeliverLocal(s)
        \/ Charge(s)

SubmissionSpec == SubmissionInit /\ [][SubmissionNext]_svars

-----------------------------------------------------------------------------
(* Properties *)

(* A message goes to nobody the client did not name for that very message:  *)
(* recipients must not leak from one transaction into the next through      *)
(* RSET, a refused DATA, a 451 or a second MAIL.                            *)
EnvelopesDoNotLeak ==
    \A m \in outbox : m.rcpt \in named[m.by][m.mail]

(* The listener relays for authenticated users only: a recipient is never   *)
(* on the envelope of a session that has not logged in under TLS, whatever  *)
(* the order of STARTTLS, AUTH, MAIL, RCPT and RSET.                        *)
EnvelopeNeedsLogin ==
    \A s \in Sessions :
        session[s].rcpts # <<>> => session[s].open /\ session[s].authed /\ session[s].tls

(* "Charge the quota only for a message we actually accepted": the copies   *)
(* of accepted messages stay within the limit, through refusals, failures   *)
(* and messages sent again, as long as the user has one session.            *)
AcceptedWithinQuota ==
    BurstMax > 0 => Cardinality({m \in outbox : <<m.by, m.mail>> \notin refused}) <= BurstMax

(* docs/mail.md: "A send quota bounds how much mail an account may put on   *)
(* the wire."  No more copies are queued in a burst window than it allows.  *)
SendQuotaBoundsWire ==
    BurstMax > 0 => Cardinality(outbox) <= BurstMax

(* A message goes to the recipients given for it, by somebody who logged    *)
(* in, and within the quota of what was accepted before.                    *)
SubmissionIsSound == EnvelopesDoNotLeak /\ EnvelopeNeedsLogin /\ AcceptedWithinQuota
=============================================================================
