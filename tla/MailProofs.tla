----------------------------- MODULE MailProofs -----------------------------
(***************************************************************************)
(* What MCMailFlow checks of one session, two connections and two messages *)
(* proved for all: submission (EnvelopeInv, IndexInv, QuotaInv,            *)
(* SubCounted), rooms (RoomsInv, RoCounted), held messages                 *)
(* (ModerationInv), the fan-out of lists (ListInv) and inbound mail        *)
(* (ConnInv, RoomInv, GotInv), each component's inductive invariant beside *)
(* it.                                                                     *)
(***************************************************************************)
EXTENDS MCMailFlow, OrderLemmas, FiniteSetTheorems, TLAPS

-----------------------------------------------------------------------------
(* Submission *)

SubPcs == {"cmd", "body", "send", "charge", "closed"}
SubJobs == [pc : SubPcs, tls : BOOLEAN, authed : BOOLEAN, mail : 0..MaxMails, open : BOOLEAN, rcpts : Seq(Rcpts), next : Nat]
SubRows == [by : Sessions, mail : 1..MaxMails, at : Nat, rcpt : Remote]

SubTypes ==
    /\ session \in [Sessions -> SubJobs]
    /\ outbox \subseteq SubRows
    /\ sendLog \in Nat
    /\ named \in [Sessions -> [1..MaxMails -> SUBSET Rcpts]]

(* What the envelope of one session, j, is, and who was named for it. *)
Envelope(j, names) ==
    /\ j.authed = TRUE => j.tls = TRUE
    /\ j.open = TRUE => j.mail \in 1..MaxMails
    /\ j.rcpts # <<>> => j.open = TRUE /\ j.authed = TRUE
    /\ j.pc \in {"body", "send", "charge"} => j.rcpts # <<>>
    /\ j.open = TRUE => \A i \in 1..Len(j.rcpts) : j.rcpts[i] \in names[j.mail]

EnvelopeInv ==
    /\ SubTypes
    /\ \A s \in Sessions : Envelope(session[s], named[s])
    /\ EnvelopesDoNotLeak

LEMMA SubInitial == SubmissionInit => EnvelopeInv
<1> SUFFICES ASSUME SubmissionInit PROVE EnvelopeInv
  OBVIOUS
<1>1. 0 \in 0..MaxMails /\ 0 \in Nat /\ <<>> \in Seq(Rcpts)
  BY SubmissionAssumption
<1>2. Fresh(TRUE) \in SubJobs /\ Fresh(FALSE) \in SubJobs
  BY <1>1 DEF Fresh, SubJobs, SubPcs
<1>3. session \in [Sessions -> SubJobs]
  BY <1>2 DEF SubmissionInit
<1>4. \A s \in Sessions : session[s].authed = FALSE /\ session[s].open = FALSE /\ session[s].rcpts = <<>> /\ session[s].pc = "cmd"
  BY DEF SubmissionInit, Fresh
<1>5. outbox = {} /\ sendLog = 0 /\ named \in [Sessions -> [1..MaxMails -> SUBSET Rcpts]]
  BY DEF SubmissionInit
<1>6. QED
  BY <1>3, <1>4, <1>5 DEF EnvelopeInv, SubTypes, Envelope, EnvelopesDoNotLeak

LEMMA NowSet ==
    ASSUME session \in [Sessions -> SubJobs], NEW s \in Sessions, NEW k \in SubJobs, Now(s, k)
    PROVE  session' \in [Sessions -> SubJobs] /\ session'[s] = k /\ \A u \in Sessions \ {s} : session'[u] = session[u]
BY DEF Now

(* The shapes a session's record is changed to. *)
LEMMA JobCleared ==
    ASSUME NEW j \in SubJobs
    PROVE  LET k == Cleared(j)
           IN  /\ k \in SubJobs /\ k.pc = "cmd" /\ k.open = FALSE /\ k.rcpts = <<>> /\ k.next = 0
               /\ k.tls = j.tls /\ k.authed = j.authed /\ k.mail = j.mail
<1>1. "cmd" \in SubPcs /\ FALSE \in BOOLEAN /\ <<>> \in Seq(Rcpts) /\ 0 \in Nat
  BY DEF SubPcs
<1>2. QED
  BY <1>1 DEF Cleared, SubJobs

LEMMA JobTls ==
    ASSUME NEW j \in SubJobs
    PROVE  LET k == [j EXCEPT !.tls = TRUE, !.authed = FALSE]
           IN  /\ k \in SubJobs /\ k.pc = j.pc /\ k.open = j.open /\ k.rcpts = j.rcpts /\ k.authed = FALSE /\ k.mail = j.mail
               /\ k.next = j.next
BY DEF SubJobs

LEMMA JobAuth ==
    ASSUME NEW j \in SubJobs
    PROVE  LET k == [j EXCEPT !.authed = TRUE]
           IN  /\ k \in SubJobs /\ k.pc = j.pc /\ k.open = j.open /\ k.rcpts = j.rcpts /\ k.authed = TRUE /\ k.tls = j.tls
               /\ k.mail = j.mail /\ k.next = j.next
BY DEF SubJobs

LEMMA JobMail ==
    ASSUME NEW j \in SubJobs, j.mail < MaxMails
    PROVE  LET k == [j EXCEPT !.rcpts = <<>>, !.open = TRUE, !.mail = @ + 1]
           IN  /\ k \in SubJobs /\ k.pc = j.pc /\ k.open = TRUE /\ k.rcpts = <<>> /\ k.authed = j.authed /\ k.tls = j.tls
               /\ k.mail = j.mail + 1 /\ k.next = j.next /\ k.mail \in 1..MaxMails
<1>1. j.mail \in Nat /\ j.mail + 1 \in 0..MaxMails /\ j.mail + 1 \in 1..MaxMails /\ <<>> \in Seq(Rcpts) /\ TRUE \in BOOLEAN
  BY SubmissionAssumption DEF SubJobs
<1> DEFINE m == j.mail + 1
<1> HIDE DEF m
<1>2. m \in 0..MaxMails /\ m \in 1..MaxMails
  BY <1>1 DEF m
<1> DEFINE k == [j EXCEPT !.rcpts = <<>>, !.open = TRUE, !.mail = m]
<1>3. /\ k \in SubJobs /\ k.pc = j.pc /\ k.open = TRUE /\ k.rcpts = <<>> /\ k.authed = j.authed /\ k.tls = j.tls
      /\ k.mail = m /\ k.next = j.next
  BY <1>1, <1>2 DEF SubJobs
<1>4. k = [j EXCEPT !.rcpts = <<>>, !.open = TRUE, !.mail = @ + 1]
  BY DEF m
<1> HIDE DEF k
<1>5. QED
  BY <1>2, <1>3, <1>4 DEF m

LEMMA JobRcpts ==
    ASSUME NEW j \in SubJobs, NEW q \in Seq(Rcpts)
    PROVE  LET k == [j EXCEPT !.rcpts = q]
           IN  /\ k \in SubJobs /\ k.pc = j.pc /\ k.open = j.open /\ k.rcpts = q /\ k.authed = j.authed /\ k.tls = j.tls
               /\ k.mail = j.mail /\ k.next = j.next
BY DEF SubJobs

LEMMA JobPc ==
    ASSUME NEW j \in SubJobs, NEW pc \in SubPcs
    PROVE  LET k == [j EXCEPT !.pc = pc]
           IN  /\ k \in SubJobs /\ k.pc = pc /\ k.open = j.open /\ k.rcpts = j.rcpts /\ k.authed = j.authed /\ k.tls = j.tls
               /\ k.mail = j.mail /\ k.next = j.next
BY DEF SubJobs

LEMMA JobNext ==
    ASSUME NEW j \in SubJobs, NEW n \in Nat
    PROVE  LET k == [j EXCEPT !.next = n]
           IN  /\ k \in SubJobs /\ k.pc = j.pc /\ k.open = j.open /\ k.rcpts = j.rcpts /\ k.authed = j.authed /\ k.tls = j.tls
               /\ k.mail = j.mail /\ k.next = n
BY DEF SubJobs

(* What each command of the dialogue does. *)
LEMMA OfStartTls ==
    ASSUME SubTypes, NEW s \in Sessions, StartTls(s)
    PROVE  /\ session' \in [Sessions -> SubJobs] /\ (\A u \in Sessions \ {s} : session'[u] = session[u])
           /\ session'[s].pc = "cmd" /\ session'[s].open = FALSE /\ session'[s].rcpts = <<>> /\ session'[s].authed = FALSE
           /\ session'[s].mail = session[s].mail /\ session[s].pc = "cmd" /\ UNCHANGED <<outbox, sendLog, named, refused>>
<1> DEFINE j == session[s]
           i == Cleared(j)
           k == [i EXCEPT !.tls = TRUE, !.authed = FALSE]
<1>1. j \in SubJobs /\ Now(s, k) /\ session \in [Sessions -> SubJobs] /\ j.pc = "cmd" /\ UNCHANGED <<outbox, sendLog, named, refused>>
  BY DEF StartTls, SubTypes
<1> HIDE DEF j
<1>2. i \in SubJobs /\ i.pc = "cmd" /\ i.open = FALSE /\ i.rcpts = <<>> /\ i.mail = j.mail
  BY <1>1, JobCleared
<1> HIDE DEF i
<1>3. k \in SubJobs /\ k.pc = "cmd" /\ k.open = FALSE /\ k.rcpts = <<>> /\ k.authed = FALSE /\ k.mail = j.mail
  BY <1>2, JobTls
<1> HIDE DEF k
<1>4. session' \in [Sessions -> SubJobs] /\ session'[s] = k /\ \A u \in Sessions \ {s} : session'[u] = session[u]
  BY <1>1, <1>3, NowSet
<1>5. QED
  BY <1>1, <1>3, <1>4 DEF j

LEMMA OfAuth ==
    ASSUME SubTypes, NEW s \in Sessions, Auth(s)
    PROVE  /\ session' \in [Sessions -> SubJobs] /\ (\A u \in Sessions \ {s} : session'[u] = session[u])
           /\ session'[s].open = session[s].open /\ session'[s].rcpts = session[s].rcpts /\ session'[s].tls = session[s].tls
           /\ session'[s].pc = "cmd" /\ session'[s].mail = session[s].mail /\ session[s].pc = "cmd" /\ session[s].tls = TRUE /\ UNCHANGED <<outbox, sendLog, named, refused>>
<1> DEFINE j == session[s]
           k == [j EXCEPT !.authed = TRUE]
<1>1. /\ j \in SubJobs /\ Now(s, k) /\ session \in [Sessions -> SubJobs]
      /\ j.pc = "cmd" /\ j.tls = TRUE /\ UNCHANGED <<outbox, sendLog, named, refused>>
  BY DEF Auth, SubTypes
<1> HIDE DEF j
<1>2. k \in SubJobs /\ k.pc = j.pc /\ k.open = j.open /\ k.rcpts = j.rcpts /\ k.tls = j.tls /\ k.mail = j.mail
  BY <1>1, JobAuth
<1> HIDE DEF k
<1>3. session' \in [Sessions -> SubJobs] /\ session'[s] = k /\ \A u \in Sessions \ {s} : session'[u] = session[u]
  BY <1>1, <1>2, NowSet
<1>4. QED
  BY <1>1, <1>2, <1>3 DEF j

LEMMA OfMail ==
    ASSUME SubTypes, NEW s \in Sessions, Mail(s)
    PROVE  /\ session' \in [Sessions -> SubJobs] /\ (\A u \in Sessions \ {s} : session'[u] = session[u])
           /\ session'[s].pc = "cmd" /\ session'[s].rcpts = <<>> /\ session'[s].mail = session[s].mail + 1 /\ session'[s].mail \in 1..MaxMails
           /\ session'[s].authed = session[s].authed /\ session'[s].tls = session[s].tls
           /\ session[s].pc = "cmd" /\ UNCHANGED <<outbox, sendLog, named, refused>>
<1> DEFINE j == session[s]
           k == [j EXCEPT !.rcpts = <<>>, !.open = TRUE, !.mail = @ + 1]
<1>1. /\ j \in SubJobs /\ Now(s, k) /\ session \in [Sessions -> SubJobs]
      /\ j.pc = "cmd" /\ j.mail < MaxMails /\ UNCHANGED <<outbox, sendLog, named, refused>>
  BY DEF Mail, SubTypes
<1> HIDE DEF j
<1>2. k \in SubJobs /\ k.pc = j.pc /\ k.open = TRUE /\ k.rcpts = <<>> /\ k.authed = j.authed /\ k.tls = j.tls /\ k.mail = j.mail + 1 /\ k.mail \in 1..MaxMails
  BY <1>1, JobMail
<1> HIDE DEF k
<1>3. session' \in [Sessions -> SubJobs] /\ session'[s] = k /\ \A u \in Sessions \ {s} : session'[u] = session[u]
  BY <1>1, <1>2, NowSet
<1>4. QED
  BY <1>1, <1>2, <1>3 DEF j

LEMMA OfRcpt ==
    ASSUME SubTypes, NEW s \in Sessions, NEW r \in Rcpts, Rcpt(s, r)
    PROVE  /\ session' \in [Sessions -> SubJobs] /\ (\A u \in Sessions \ {s} : session'[u] = session[u])
           /\ session'[s].pc = "cmd" /\ session'[s].rcpts = Append(session[s].rcpts, r) /\ session'[s].mail = session[s].mail
           /\ session'[s].authed = session[s].authed /\ session'[s].tls = session[s].tls /\ session'[s].open = session[s].open
           /\ session[s].pc = "cmd" /\ session[s].authed = TRUE /\ session[s].open = TRUE
           /\ named' = [named EXCEPT ![s] = [named[s] EXCEPT ![session[s].mail] = @ \cup {r}]] /\ UNCHANGED <<outbox, sendLog, refused>>
<1> DEFINE j == session[s]
           k == [j EXCEPT !.rcpts = Append(@, r)]
<1>1. /\ j \in SubJobs /\ Now(s, k) /\ session \in [Sessions -> SubJobs]
      /\ j.pc = "cmd" /\ j.authed = TRUE /\ j.open = TRUE /\ named' = [named EXCEPT ![s] = [named[s] EXCEPT ![j.mail] = @ \cup {r}]] /\ UNCHANGED <<outbox, sendLog, refused>>
  BY DEF Rcpt, SubTypes
<1> HIDE DEF j
<1>0. Append(j.rcpts, r) \in Seq(Rcpts)
  BY <1>1 DEF SubJobs
<1>2. k \in SubJobs /\ k.pc = j.pc /\ k.open = j.open /\ k.rcpts = Append(j.rcpts, r) /\ k.authed = j.authed /\ k.tls = j.tls /\ k.mail = j.mail
  BY <1>1, <1>0, JobRcpts
<1> HIDE DEF k
<1>3. session' \in [Sessions -> SubJobs] /\ session'[s] = k /\ \A u \in Sessions \ {s} : session'[u] = session[u]
  BY <1>1, <1>2, NowSet
<1>4. QED
  BY <1>1, <1>2, <1>3 DEF j

LEMMA OfRset ==
    ASSUME SubTypes, NEW s \in Sessions, Rset(s)
    PROVE  /\ session' \in [Sessions -> SubJobs] /\ (\A u \in Sessions \ {s} : session'[u] = session[u])
           /\ session'[s].pc = "cmd" /\ session'[s].open = FALSE /\ session'[s].rcpts = <<>> /\ session'[s].mail = session[s].mail
           /\ session'[s].authed = session[s].authed /\ session'[s].tls = session[s].tls
           /\ session[s].pc = "cmd" /\ UNCHANGED <<outbox, sendLog, named, refused>>
<1> DEFINE j == session[s]
           k == Cleared(j)
<1>1. /\ j \in SubJobs /\ Now(s, k) /\ session \in [Sessions -> SubJobs]
      /\ j.pc = "cmd" /\ UNCHANGED <<outbox, sendLog, named, refused>>
  BY DEF Rset, SubTypes
<1> HIDE DEF j
<1>2. k \in SubJobs /\ k.pc = "cmd" /\ k.open = FALSE /\ k.rcpts = <<>> /\ k.tls = j.tls /\ k.authed = j.authed /\ k.mail = j.mail
  BY <1>1, JobCleared
<1> HIDE DEF k
<1>3. session' \in [Sessions -> SubJobs] /\ session'[s] = k /\ \A u \in Sessions \ {s} : session'[u] = session[u]
  BY <1>1, <1>2, NowSet
<1>4. QED
  BY <1>1, <1>2, <1>3 DEF j

LEMMA OfQuit ==
    ASSUME SubTypes, NEW s \in Sessions, Quit(s)
    PROVE  /\ session' \in [Sessions -> SubJobs] /\ (\A u \in Sessions \ {s} : session'[u] = session[u])
           /\ session'[s].pc = "closed" /\ session'[s].open = session[s].open /\ session'[s].rcpts = session[s].rcpts
           /\ session'[s].authed = session[s].authed /\ session'[s].tls = session[s].tls /\ session'[s].mail = session[s].mail
           /\ session[s].pc = "cmd" /\ UNCHANGED <<outbox, sendLog, named, refused>>
<1> DEFINE j == session[s]
           k == [j EXCEPT !.pc = "closed"]
<1>1. /\ j \in SubJobs /\ Now(s, k) /\ session \in [Sessions -> SubJobs]
      /\ j.pc = "cmd" /\ UNCHANGED <<outbox, sendLog, named, refused>>
  BY DEF Quit, SubTypes
<1> HIDE DEF j
<1>0. "closed" \in SubPcs
  BY DEF SubPcs
<1>2. k \in SubJobs /\ k.pc = "closed" /\ k.open = j.open /\ k.rcpts = j.rcpts /\ k.authed = j.authed /\ k.tls = j.tls /\ k.mail = j.mail
  BY <1>1, <1>0, JobPc
<1> HIDE DEF k
<1>3. session' \in [Sessions -> SubJobs] /\ session'[s] = k /\ \A u \in Sessions \ {s} : session'[u] = session[u]
  BY <1>1, <1>2, NowSet
<1>4. QED
  BY <1>1, <1>2, <1>3 DEF j

LEMMA OfData ==
    ASSUME SubTypes, NEW s \in Sessions, Data(s)
    PROVE  /\ session' \in [Sessions -> SubJobs] /\ (\A u \in Sessions \ {s} : session'[u] = session[u])
           /\ session[s].pc = "cmd" /\ session[s].rcpts # <<>> /\ UNCHANGED <<outbox, sendLog, named, refused>>
           /\ session'[s].authed = session[s].authed /\ session'[s].tls = session[s].tls /\ session'[s].mail = session[s].mail
           /\ \/ /\ session'[s].pc = "body" /\ session'[s].rcpts = session[s].rcpts /\ session'[s].open = session[s].open
                 /\ Allowed(Len(session[s].rcpts))
              \/ session'[s].pc = "cmd" /\ session'[s].rcpts = <<>> /\ session'[s].open = FALSE
<1> DEFINE j == session[s]
<1>1. /\ j \in SubJobs /\ session \in [Sessions -> SubJobs] /\ j.pc = "cmd" /\ j.rcpts # <<>> /\ UNCHANGED <<outbox, sendLog, named, refused>>
      /\ (Allowed(Len(j.rcpts)) /\ Now(s, [j EXCEPT !.pc = "body"])) \/ Now(s, Cleared(j))
  BY DEF Data, SubTypes
<1> HIDE DEF j
<1>2. "body" \in SubPcs
  BY DEF SubPcs
<1>3. CASE Allowed(Len(j.rcpts)) /\ Now(s, [j EXCEPT !.pc = "body"])
  <2> DEFINE k == [j EXCEPT !.pc = "body"]
  <2>1. /\ k \in SubJobs /\ k.pc = "body" /\ k.open = j.open /\ k.rcpts = j.rcpts /\ k.authed = j.authed /\ k.tls = j.tls
        /\ k.mail = j.mail /\ Now(s, k)
    BY <1>1, <1>2, <1>3, JobPc
  <2> HIDE DEF k
  <2>2. session' \in [Sessions -> SubJobs] /\ session'[s] = k /\ \A u \in Sessions \ {s} : session'[u] = session[u]
    BY <1>1, <2>1, NowSet
  <2>3. QED
    BY <1>1, <1>3, <2>1, <2>2 DEF j
<1>4. CASE Now(s, Cleared(j))
  <2> DEFINE k == Cleared(j)
  <2>1. /\ k \in SubJobs /\ k.pc = "cmd" /\ k.open = FALSE /\ k.rcpts = <<>> /\ k.authed = j.authed /\ k.tls = j.tls
        /\ k.mail = j.mail /\ Now(s, k)
    BY <1>1, <1>4, JobCleared
  <2> HIDE DEF k
  <2>2. session' \in [Sessions -> SubJobs] /\ session'[s] = k /\ \A u \in Sessions \ {s} : session'[u] = session[u]
    BY <1>1, <2>1, NowSet
  <2>3. QED
    BY <1>1, <2>1, <2>2 DEF j
<1>5. QED
  BY <1>1, <1>3, <1>4

LEMMA OfBody ==
    ASSUME SubTypes, NEW s \in Sessions, Body(s)
    PROVE  /\ session' \in [Sessions -> SubJobs] /\ (\A u \in Sessions \ {s} : session'[u] = session[u])
           /\ session[s].pc = "body" /\ UNCHANGED <<outbox, sendLog, named, refused>>
           /\ session'[s].authed = session[s].authed /\ session'[s].tls = session[s].tls /\ session'[s].mail = session[s].mail
           /\ session'[s].rcpts = session[s].rcpts /\ session'[s].open = session[s].open
           /\ (session'[s].pc = "send" /\ session'[s].next = 1) \/ session'[s].pc = "closed"
<1> DEFINE j == session[s]
<1>1. /\ j \in SubJobs /\ session \in [Sessions -> SubJobs] /\ j.pc = "body" /\ UNCHANGED <<outbox, sendLog, named, refused>>
      /\ Now(s, [j EXCEPT !.pc = "send", !.next = 1]) \/ Now(s, [j EXCEPT !.pc = "closed"])
  BY DEF Body, SubTypes
<1> HIDE DEF j
<1>2. "send" \in SubPcs /\ "closed" \in SubPcs /\ 1 \in Nat
  BY DEF SubPcs
<1>3. CASE Now(s, [j EXCEPT !.pc = "send", !.next = 1])
  <2> DEFINE k == [j EXCEPT !.pc = "send", !.next = 1]
  <2>1. /\ k \in SubJobs /\ k.pc = "send" /\ k.open = j.open /\ k.rcpts = j.rcpts /\ k.authed = j.authed /\ k.tls = j.tls
        /\ k.mail = j.mail /\ k.next = 1 /\ Now(s, k)
    BY <1>1, <1>2, <1>3 DEF SubJobs
  <2> HIDE DEF k
  <2>2. session' \in [Sessions -> SubJobs] /\ session'[s] = k /\ \A u \in Sessions \ {s} : session'[u] = session[u]
    BY <1>1, <2>1, NowSet
  <2>3. QED
    BY <1>1, <2>1, <2>2 DEF j
<1>4. CASE Now(s, [j EXCEPT !.pc = "closed"])
  <2> DEFINE k == [j EXCEPT !.pc = "closed"]
  <2>1. /\ k \in SubJobs /\ k.pc = "closed" /\ k.open = j.open /\ k.rcpts = j.rcpts /\ k.authed = j.authed /\ k.tls = j.tls
        /\ k.mail = j.mail /\ Now(s, k)
    BY <1>1, <1>2, <1>4, JobPc
  <2> HIDE DEF k
  <2>2. session' \in [Sessions -> SubJobs] /\ session'[s] = k /\ \A u \in Sessions \ {s} : session'[u] = session[u]
    BY <1>1, <2>1, NowSet
  <2>3. QED
    BY <1>1, <2>1, <2>2 DEF j
<1>5. QED
  BY <1>1, <1>3, <1>4

(* The row queued for the recipient submission::Send has come to. *)
NextRow(s) == [by |-> s, mail |-> session[s].mail, at |-> session[s].next, rcpt |-> session[s].rcpts[session[s].next]]

LEMMA OfSendNext ==
    ASSUME SubTypes, NEW s \in Sessions, SendNext(s)
    PROVE  /\ session' \in [Sessions -> SubJobs] /\ (\A u \in Sessions \ {s} : session'[u] = session[u])
           /\ session[s].pc = "send" /\ UNCHANGED <<sendLog, named, refused>>
           /\ session'[s].authed = session[s].authed /\ session'[s].tls = session[s].tls /\ session'[s].mail = session[s].mail
           /\ session'[s].rcpts = session[s].rcpts /\ session'[s].open = session[s].open
           /\ session[s].next <= Len(session[s].rcpts) /\ session'[s].next = session[s].next + 1 /\ session'[s].pc = "send"
           /\ \/ outbox' = outbox
              \/ outbox' = outbox \cup {NextRow(s)} /\ NextRow(s).rcpt \in Remote
<1> DEFINE j == session[s]
           n == j.next + 1
           k == [j EXCEPT !.next = n]
<1>1. /\ j \in SubJobs /\ session \in [Sessions -> SubJobs] /\ j.pc = "send" /\ UNCHANGED <<sendLog, named, refused>>
      /\ Now(s, k) /\ j.next <= Len(j.rcpts)
  BY DEF SendNext, SubTypes
<1>2. outbox' = outbox \/ (outbox' = outbox \cup {NextRow(s)} /\ NextRow(s).rcpt \in Remote)
  BY DEF SendNext, NextRow
<1>3. n \in Nat
  BY <1>1 DEF SubJobs
<1> HIDE DEF j, n
<1>4. /\ k \in SubJobs /\ k.pc = j.pc /\ k.open = j.open /\ k.rcpts = j.rcpts /\ k.authed = j.authed /\ k.tls = j.tls
      /\ k.mail = j.mail /\ k.next = n
  BY <1>1, <1>3, JobNext
<1> HIDE DEF k
<1>5. session' \in [Sessions -> SubJobs] /\ session'[s] = k /\ \A u \in Sessions \ {s} : session'[u] = session[u]
  BY <1>1, <1>4, NowSet
<1>6. QED
  BY <1>1, <1>2, <1>4, <1>5 DEF j, n

LEMMA OfDeliver ==
    ASSUME SubTypes, NEW s \in Sessions, DeliverLocal(s)
    PROVE  /\ session' \in [Sessions -> SubJobs] /\ (\A u \in Sessions \ {s} : session'[u] = session[u])
           /\ session[s].pc = "send" /\ UNCHANGED <<outbox, sendLog, named>>
           /\ session'[s].authed = session[s].authed /\ session'[s].tls = session[s].tls /\ session'[s].mail = session[s].mail
           /\ session[s].next > Len(session[s].rcpts)
           /\ \/ /\ session'[s].pc = "charge" /\ session'[s].next = 1 /\ refused' = refused
                 /\ session'[s].rcpts = session[s].rcpts /\ session'[s].open = session[s].open
              \/ /\ session'[s].pc = "cmd" /\ session'[s].rcpts = <<>> /\ session'[s].open = FALSE
                 /\ refused' = refused \cup {<<s, session[s].mail>>}
<1> DEFINE j == session[s]
<1>1. /\ j \in SubJobs /\ session \in [Sessions -> SubJobs] /\ j.pc = "send" /\ UNCHANGED <<outbox, sendLog, named>> /\ j.next > Len(j.rcpts)
      /\ \/ Now(s, [j EXCEPT !.pc = "charge", !.next = 1]) /\ refused' = refused
         \/ Now(s, Cleared(j)) /\ refused' = refused \cup {<<s, j.mail>>}
  BY DEF DeliverLocal, SubTypes
<1> HIDE DEF j
<1>2. "charge" \in SubPcs /\ 1 \in Nat
  BY DEF SubPcs
<1>3. CASE Now(s, [j EXCEPT !.pc = "charge", !.next = 1]) /\ refused' = refused
  <2> DEFINE k == [j EXCEPT !.pc = "charge", !.next = 1]
  <2>1. /\ k \in SubJobs /\ k.pc = "charge" /\ k.open = j.open /\ k.rcpts = j.rcpts /\ k.authed = j.authed /\ k.tls = j.tls
        /\ k.mail = j.mail /\ k.next = 1 /\ Now(s, k)
    BY <1>1, <1>2, <1>3 DEF SubJobs
  <2> HIDE DEF k
  <2>2. session' \in [Sessions -> SubJobs] /\ session'[s] = k /\ \A u \in Sessions \ {s} : session'[u] = session[u]
    BY <1>1, <2>1, NowSet
  <2>3. QED
    BY <1>1, <1>3, <2>1, <2>2 DEF j
<1>4. CASE Now(s, Cleared(j)) /\ refused' = refused \cup {<<s, j.mail>>}
  <2> DEFINE k == Cleared(j)
  <2>1. /\ k \in SubJobs /\ k.pc = "cmd" /\ k.open = FALSE /\ k.rcpts = <<>> /\ k.authed = j.authed /\ k.tls = j.tls
        /\ k.mail = j.mail /\ Now(s, k)
    BY <1>1, <1>4, JobCleared
  <2> HIDE DEF k
  <2>2. session' \in [Sessions -> SubJobs] /\ session'[s] = k /\ \A u \in Sessions \ {s} : session'[u] = session[u]
    BY <1>1, <2>1, NowSet
  <2>3. QED
    BY <1>1, <1>4, <2>1, <2>2 DEF j
<1>5. QED
  BY <1>1, <1>3, <1>4

LEMMA OfCharge ==
    ASSUME SubTypes, NEW s \in Sessions, Charge(s)
    PROVE  /\ session' \in [Sessions -> SubJobs] /\ (\A u \in Sessions \ {s} : session'[u] = session[u])
           /\ session[s].pc = "charge" /\ UNCHANGED <<outbox, named, refused>> /\ sendLog' = sendLog + 1
           /\ session'[s].authed = session[s].authed /\ session'[s].tls = session[s].tls /\ session'[s].mail = session[s].mail
           /\ \/ /\ session'[s].pc = "charge" /\ session'[s].next = session[s].next + 1 /\ session[s].next # Len(session[s].rcpts)
                 /\ session'[s].rcpts = session[s].rcpts /\ session'[s].open = session[s].open
              \/ /\ session'[s].pc = "cmd" /\ session'[s].rcpts = <<>> /\ session'[s].open = FALSE
                 /\ session[s].next = Len(session[s].rcpts)
<1> DEFINE j == session[s]
           n == j.next + 1
<1>1. /\ j \in SubJobs /\ session \in [Sessions -> SubJobs] /\ j.pc = "charge" /\ UNCHANGED <<outbox, named, refused>> /\ sendLog' = sendLog + 1
      /\ \/ Now(s, [j EXCEPT !.next = n]) /\ j.next # Len(j.rcpts)
         \/ Now(s, Cleared(j)) /\ j.next = Len(j.rcpts)
  BY DEF Charge, SubTypes
<1>2. n \in Nat
  BY <1>1 DEF SubJobs
<1> HIDE DEF j, n
<1>3. CASE Now(s, [j EXCEPT !.next = n]) /\ j.next # Len(j.rcpts)
  <2> DEFINE k == [j EXCEPT !.next = n]
  <2>1. /\ k \in SubJobs /\ k.pc = j.pc /\ k.open = j.open /\ k.rcpts = j.rcpts /\ k.authed = j.authed /\ k.tls = j.tls
        /\ k.mail = j.mail /\ k.next = n /\ Now(s, k)
    BY <1>1, <1>2, <1>3, JobNext
  <2> HIDE DEF k
  <2>2. session' \in [Sessions -> SubJobs] /\ session'[s] = k /\ \A u \in Sessions \ {s} : session'[u] = session[u]
    BY <1>1, <2>1, NowSet
  <2>3. QED
    BY <1>1, <1>3, <2>1, <2>2 DEF j, n
<1>4. CASE Now(s, Cleared(j)) /\ j.next = Len(j.rcpts)
  <2> DEFINE k == Cleared(j)
  <2>1. /\ k \in SubJobs /\ k.pc = "cmd" /\ k.open = FALSE /\ k.rcpts = <<>> /\ k.authed = j.authed /\ k.tls = j.tls
        /\ k.mail = j.mail /\ Now(s, k)
    BY <1>1, <1>4, JobCleared
  <2> HIDE DEF k
  <2>2. session' \in [Sessions -> SubJobs] /\ session'[s] = k /\ \A u \in Sessions \ {s} : session'[u] = session[u]
    BY <1>1, <2>1, NowSet
  <2>3. QED
    BY <1>1, <1>4, <2>1, <2>2 DEF j
<1>5. QED
  BY <1>1, <1>3, <1>4

(* A step that leaves every other session alone keeps the envelopes if it   *)
(* keeps its own and forgets no name and queues only what was named.        *)
LEMMA EnvelopeMoves ==
    ASSUME EnvelopeInv, NEW s \in Sessions, session' \in [Sessions -> SubJobs], \A u \in Sessions \ {s} : session'[u] = session[u],
           SubTypes', UNCHANGED <<named, outbox>>, Envelope(session'[s], named[s])
    PROVE  EnvelopeInv'
<1>1. \A u \in Sessions : Envelope(session'[u], named'[u])
  BY DEF EnvelopeInv
<1>2. QED
  BY <1>1 DEF EnvelopeInv, EnvelopesDoNotLeak

LEMMA EnvelopeRcpt ==
    ASSUME EnvelopeInv, NEW s \in Sessions, NEW r \in Rcpts, Rcpt(s, r) PROVE EnvelopeInv'
<1>1. SubTypes /\ Envelope(session[s], named[s]) /\ session \in [Sessions -> SubJobs] /\ session[s] \in SubJobs
  BY DEF EnvelopeInv, SubTypes
<1> DEFINE m == session[s].mail
           q == session[s].rcpts
<1>2. /\ session' \in [Sessions -> SubJobs] /\ (\A u \in Sessions \ {s} : session'[u] = session[u])
      /\ session'[s].pc = "cmd" /\ session'[s].rcpts = Append(q, r) /\ session'[s].mail = m
      /\ session'[s].authed = session[s].authed /\ session'[s].tls = session[s].tls /\ session'[s].open = session[s].open
      /\ session[s].authed = TRUE /\ session[s].open = TRUE
      /\ named' = [named EXCEPT ![s] = [named[s] EXCEPT ![m] = @ \cup {r}]] /\ UNCHANGED <<outbox, sendLog, refused>>
  BY <1>1, OfRcpt
<1>3. m \in 1..MaxMails
  BY <1>1, <1>2 DEF Envelope
<1>4. q \in Seq(Rcpts) /\ Len(q) \in Nat
  BY <1>1 DEF SubJobs
<1>5. Append(q, r) # <<>> /\ \A i \in 1..Len(Append(q, r)) : Append(q, r)[i] = r \/ (i \in 1..Len(q) /\ Append(q, r)[i] = q[i])
  BY <1>4
<1> HIDE DEF m, q
<1>6. named \in [Sessions -> [1..MaxMails -> SUBSET Rcpts]]
  BY <1>1 DEF SubTypes
<1> DEFINE w == [named[s] EXCEPT ![m] = @ \cup {r}]
<1>7. w \in [1..MaxMails -> SUBSET Rcpts] /\ r \in w[m] /\ \A n \in 1..MaxMails : named[s][n] \subseteq w[n]
  BY <1>3, <1>6
<1>8. named' = [named EXCEPT ![s] = w]
  BY <1>2
<1> HIDE DEF w
<1>9. named' \in [Sessions -> [1..MaxMails -> SUBSET Rcpts]] /\ named'[s] = w /\ \A u \in Sessions \ {s} : named'[u] = named[u]
  BY <1>6, <1>7, <1>8
<1>10. SubTypes'
  BY <1>1, <1>2, <1>9 DEF SubTypes
<1>11. Envelope(session'[s], named'[s])
  <2>1. \A i \in 1..Len(q) : q[i] \in w[m]
    BY <1>1, <1>2, <1>3, <1>7 DEF Envelope, m, q
  <2>2. \A i \in 1..Len(Append(q, r)) : Append(q, r)[i] \in w[m]
    BY <1>5, <1>7, <2>1
  <2>3. QED
    BY <1>1, <1>2, <1>3, <1>9, <2>2 DEF Envelope
<1>12. EnvelopesDoNotLeak'
  <2>1. \A u \in Sessions, n \in 1..MaxMails : named[u][n] \subseteq named'[u][n]
    BY <1>7, <1>9
  <2>2. outbox \subseteq SubRows
    BY <1>1 DEF SubTypes
  <2>3. QED
    BY <1>2, <2>1, <2>2 DEF EnvelopeInv, EnvelopesDoNotLeak, SubRows
<1>13. QED
  BY <1>2, <1>9, <1>10, <1>11, <1>12 DEF EnvelopeInv

LEMMA EnvelopeSend ==
    ASSUME EnvelopeInv, NEW s \in Sessions, SendNext(s), session[s].next \in 1..Len(session[s].rcpts) PROVE EnvelopeInv'
<1>1. SubTypes /\ Envelope(session[s], named[s]) /\ session \in [Sessions -> SubJobs] /\ session[s] \in SubJobs
  BY DEF EnvelopeInv, SubTypes
<1>2. /\ session' \in [Sessions -> SubJobs] /\ (\A u \in Sessions \ {s} : session'[u] = session[u])
      /\ session[s].pc = "send" /\ UNCHANGED <<sendLog, named, refused>>
      /\ session'[s].authed = session[s].authed /\ session'[s].tls = session[s].tls /\ session'[s].mail = session[s].mail
      /\ session'[s].rcpts = session[s].rcpts /\ session'[s].open = session[s].open /\ session'[s].pc = "send"
      /\ (outbox' = outbox \/ (outbox' = outbox \cup {NextRow(s)} /\ NextRow(s).rcpt \in Remote))
  BY <1>1, OfSendNext
<1>3. session[s].mail \in 1..MaxMails /\ session[s].rcpts[session[s].next] \in named[s][session[s].mail]
  BY <1>1, <1>2 DEF Envelope
<1>4. NextRow(s).rcpt \in Remote => NextRow(s) \in SubRows
  BY <1>1, <1>3 DEF NextRow, SubRows, SubJobs
<1>5. NextRow(s).rcpt \in named[NextRow(s).by][NextRow(s).mail]
  BY <1>3 DEF NextRow
<1>6. SubTypes'
  BY <1>1, <1>2, <1>4 DEF SubTypes
<1>7. Envelope(session'[s], named[s])
  BY <1>1, <1>2 DEF Envelope
<1>8. EnvelopesDoNotLeak'
  BY <1>2, <1>5 DEF EnvelopeInv, EnvelopesDoNotLeak
<1>9. QED
  BY <1>2, <1>6, <1>7, <1>8 DEF EnvelopeInv

(* Send and RecordSend go through the recipients from the first. *)
IndexInv ==
    \A s \in Sessions : /\ session[s].pc = "send" => session[s].next \in 1..(Len(session[s].rcpts) + 1)
                        /\ session[s].pc = "charge" => session[s].next \in 1..Len(session[s].rcpts)

LEMMA EnvelopeStep == EnvelopeInv /\ IndexInv /\ [SubmissionNext]_svars => EnvelopeInv' /\ IndexInv'
<1> SUFFICES ASSUME EnvelopeInv, IndexInv, [SubmissionNext]_svars PROVE EnvelopeInv' /\ IndexInv'
  OBVIOUS
<1>0. SubTypes /\ session \in [Sessions -> SubJobs] /\ \A s \in Sessions : Envelope(session[s], named[s]) /\ session[s].rcpts \in Seq(Rcpts)
  BY DEF EnvelopeInv, SubTypes, SubJobs
<1>1. ASSUME NEW s \in Sessions, session' \in [Sessions -> SubJobs], \A u \in Sessions \ {s} : session'[u] = session[u],
             UNCHANGED <<named, outbox>>, sendLog' \in Nat, Envelope(session'[s], named[s]),
             session'[s].pc = "send" => session'[s].next \in 1..(Len(session'[s].rcpts) + 1),
             session'[s].pc = "charge" => session'[s].next \in 1..Len(session'[s].rcpts)
      PROVE  EnvelopeInv' /\ IndexInv'
  <2>1. SubTypes'
    BY <1>0, <1>1 DEF SubTypes
  <2>2. EnvelopeInv'
    BY <1>1, <2>1, EnvelopeMoves
  <2>3. QED
    BY <1>1, <2>2 DEF IndexInv
<1>2. sendLog \in Nat
  BY <1>0 DEF SubTypes
<1>3. ASSUME NEW s \in Sessions, StartTls(s) PROVE EnvelopeInv' /\ IndexInv'
  <2>1. Envelope(session'[s], named[s]) /\ session'[s].pc = "cmd"
    BY <1>0, <1>3, OfStartTls DEF Envelope
  <2>2. QED
    BY <1>0, <1>1, <1>2, <1>3, <2>1, OfStartTls
<1>4. ASSUME NEW s \in Sessions, Auth(s) PROVE EnvelopeInv' /\ IndexInv'
  <2>1. session'[s] \in SubJobs /\ session'[s].pc = "cmd"
    BY <1>0, <1>4, OfAuth
  <2>2. session'[s].authed = TRUE \/ session'[s].authed = FALSE
    BY <2>1 DEF SubJobs
  <2>3. session[s].rcpts # <<>> => session'[s].authed = TRUE
    <3>1. session[s].rcpts = <<>>
      BY <1>0, <1>4 DEF Auth, Envelope
    <3>2. QED
      BY <3>1
  <2>4. Envelope(session'[s], named[s])
    BY <1>0, <1>4, <2>1, <2>3, OfAuth DEF Envelope
  <2>5. QED
    BY <1>0, <1>1, <1>2, <1>4, <2>1, <2>4, OfAuth
<1>5. ASSUME NEW s \in Sessions, Mail(s) PROVE EnvelopeInv' /\ IndexInv'
  <2>1. Envelope(session'[s], named[s]) /\ session'[s].pc = "cmd"
    BY <1>0, <1>5, OfMail DEF Envelope
  <2>2. QED
    BY <1>0, <1>1, <1>2, <1>5, <2>1, OfMail
<1>6. ASSUME NEW s \in Sessions, NEW r \in Rcpts, Rcpt(s, r) PROVE EnvelopeInv' /\ IndexInv'
  <2>1. EnvelopeInv'
    BY <1>6, EnvelopeRcpt
  <2>2. IndexInv'
    BY <1>0, <1>6, OfRcpt DEF IndexInv
  <2>3. QED
    BY <2>1, <2>2
<1>7. ASSUME NEW s \in Sessions, Rset(s) PROVE EnvelopeInv' /\ IndexInv'
  <2>1. Envelope(session'[s], named[s]) /\ session'[s].pc = "cmd"
    BY <1>0, <1>7, OfRset DEF Envelope
  <2>2. QED
    BY <1>0, <1>1, <1>2, <1>7, <2>1, OfRset
<1>8. ASSUME NEW s \in Sessions, Quit(s) PROVE EnvelopeInv' /\ IndexInv'
  <2>1. Envelope(session'[s], named[s]) /\ session'[s].pc = "closed"
    BY <1>0, <1>8, OfQuit DEF Envelope
  <2>2. QED
    BY <1>0, <1>1, <1>2, <1>8, <2>1, OfQuit
<1>9. ASSUME NEW s \in Sessions, Data(s) PROVE EnvelopeInv' /\ IndexInv'
  <2>1. Envelope(session'[s], named[s]) /\ session'[s].pc \in {"body", "cmd"}
    BY <1>0, <1>9, OfData DEF Envelope
  <2>2. QED
    BY <1>0, <1>1, <1>2, <1>9, <2>1, OfData
<1>10. ASSUME NEW s \in Sessions, Body(s) PROVE EnvelopeInv' /\ IndexInv'
  <2>1. Envelope(session'[s], named[s])
    BY <1>0, <1>10, OfBody DEF Envelope
  <2>2. session'[s].pc = "closed" \/ (session'[s].pc = "send" /\ session'[s].next \in 1..(Len(session'[s].rcpts) + 1))
    BY <1>0, <1>10, OfBody
  <2>3. QED
    BY <1>0, <1>1, <1>2, <1>10, <2>1, <2>2, OfBody
<1>11. ASSUME NEW s \in Sessions, SendNext(s) PROVE EnvelopeInv' /\ IndexInv'
  <2>1. session[s].next \in 1..Len(session[s].rcpts) /\ session'[s].pc = "send" /\ session'[s].next \in 1..(Len(session'[s].rcpts) + 1)
    BY <1>0, <1>11, OfSendNext DEF IndexInv
  <2>2. EnvelopeInv'
    BY <1>11, <2>1, EnvelopeSend
  <2>3. \A u \in Sessions \ {s} : session'[u] = session[u]
    BY <1>0, <1>11, OfSendNext
  <2>4. QED
    BY <2>1, <2>2, <2>3 DEF IndexInv
<1>12. ASSUME NEW s \in Sessions, DeliverLocal(s) PROVE EnvelopeInv' /\ IndexInv'
  <2>1. Envelope(session'[s], named[s])
    BY <1>0, <1>12, OfDeliver DEF Envelope
  <2>2. session[s].rcpts # <<>>
    BY <1>0, <1>12, OfDeliver DEF Envelope
  <2> DEFINE q == session[s].rcpts
  <2>3. Len(q) \in Nat /\ Len(q) # 0
    <3>1. q \in Seq(Rcpts) /\ q # <<>>
      BY <1>0, <2>2
    <3> HIDE DEF q
    <3>2. QED
      BY <3>1
  <2>4. 1 \in 1..Len(q)
    BY <2>3
  <2> HIDE DEF q
  <2>5. session'[s].pc = "cmd" \/ (session'[s].pc = "charge" /\ session'[s].next = 1 /\ session'[s].rcpts = q)
    BY <1>0, <1>12, OfDeliver DEF q
  <2>6. session'[s].pc = "cmd" \/ (session'[s].pc = "charge" /\ session'[s].next \in 1..Len(session'[s].rcpts))
    BY <2>4, <2>5
  <2>7. QED
    BY <1>0, <1>1, <1>2, <1>12, <2>1, <2>6, OfDeliver
<1>13. ASSUME NEW s \in Sessions, Charge(s) PROVE EnvelopeInv' /\ IndexInv'
  <2>0. session[s].pc = "charge" /\ sendLog' \in Nat
    BY <1>2, <1>13 DEF Charge
  <2>1. Envelope(session'[s], named[s])
    BY <1>0, <1>13, OfCharge DEF Envelope
  <2> DEFINE n == session[s].next
             q == session[s].rcpts
  <2>2. Len(q) \in Nat /\ n \in 1..Len(q)
    BY <1>0, <2>0 DEF IndexInv
  <2>3. session'[s].pc = "cmd" \/ (session'[s].pc = "charge" /\ session'[s].next = n + 1 /\ session'[s].rcpts = q /\ n # Len(q))
    BY <1>0, <1>13, OfCharge
  <2> HIDE DEF n, q
  <2>4. session'[s].pc = "cmd" \/ (session'[s].pc = "charge" /\ session'[s].next \in 1..Len(session'[s].rcpts))
    BY <2>2, <2>3
  <2>5. QED
    BY <1>0, <1>1, <1>13, <2>0, <2>1, <2>4, OfCharge
<1>14. CASE UNCHANGED svars
  BY <1>14 DEF svars, EnvelopeInv, SubTypes, EnvelopesDoNotLeak, IndexInv
<1>15. QED
  BY <1>3, <1>4, <1>5, <1>6, <1>7, <1>8, <1>9, <1>10, <1>11, <1>12, <1>13, <1>14 DEF SubmissionNext

OneSession == \A s, u \in Sessions : s = u

Accepted == {m \in outbox : <<m.by, m.mail>> \notin refused}
Before(s) == {m \in Accepted : m.mail # session[s].mail}

(* How far the copies of accepted messages are ahead of the log: by none    *)
(* between messages, by what is queued while a message is sent, by what is  *)
(* not charged yet after; and the log plus what is due fits the limit.      *)
Within(j, log, a, b) ==
    /\ j.pc \in {"cmd", "body", "closed"} => a <= log /\ log <= BurstMax
    /\ j.pc \in {"body", "send"} => log + Len(j.rcpts) <= BurstMax
    /\ j.pc = "send" => b <= log /\ a + 1 <= log + j.next
    /\ j.pc = "charge" => a + j.next <= log + Len(j.rcpts) + 1 /\ log + Len(j.rcpts) + 1 <= BurstMax + j.next

QuotaInv ==
    /\ IsFiniteSet(outbox)
    /\ BurstMax > 0 => \A s \in Sessions : Within(session[s], sendLog, Cardinality(Accepted), Cardinality(Before(s)))

LEMMA SetsCounted ==
    ASSUME IsFiniteSet(outbox), NEW s \in Sessions
    PROVE  /\ IsFiniteSet(Accepted) /\ IsFiniteSet(Before(s)) /\ Cardinality(Accepted) \in Nat /\ Cardinality(Before(s)) \in Nat
           /\ Cardinality(Before(s)) <= Cardinality(Accepted)
<1>1. Accepted \subseteq outbox /\ Before(s) \subseteq Accepted
  BY DEF Accepted, Before
<1>2. IsFiniteSet(Accepted) /\ IsFiniteSet(Before(s))
  BY <1>1, FS_Subset
<1>3. QED
  BY <1>1, <1>2, FS_Subset, FS_CardinalityType

(* A step that queues and refuses nothing. *)
LEMMA QuotaMoves ==
    ASSUME OneSession, EnvelopeInv, QuotaInv, NEW s \in Sessions, UNCHANGED <<outbox, refused>>,
           BurstMax > 0 => \A a, b, c \in Nat :
               (c <= a /\ (session'[s].mail = session[s].mail => c = b) /\ Within(session[s], sendLog, a, b))
                   => Within(session'[s], sendLog', a, c)
    PROVE  QuotaInv'
<1> DEFINE a == Cardinality(Accepted)
           b == Cardinality(Before(s))
           c == Cardinality(Before(s)')
<1>1. IsFiniteSet(outbox) /\ IsFiniteSet(outbox)' /\ Accepted' = Accepted
  BY DEF QuotaInv, Accepted
<1>2. a \in Nat /\ b \in Nat /\ b <= a
  BY <1>1, SetsCounted
<1>3. c \in Nat /\ c <= a
  <2>1. Before(s)' \subseteq Accepted /\ IsFiniteSet(Accepted)
    BY <1>1, SetsCounted DEF Before
  <2>2. QED
    BY <2>1, FS_Subset, FS_CardinalityType
<1>4. session'[s].mail = session[s].mail => c = b
  BY <1>1 DEF Before
<1>5. BurstMax > 0 => Within(session[s], sendLog, a, b)
  BY DEF QuotaInv
<1> HIDE DEF a, b, c
<1>6. BurstMax > 0 => Within(session'[s], sendLog', a, c)
  BY <1>2, <1>3, <1>4, <1>5
<1>7. \A u \in Sessions : u = s
  BY DEF OneSession
<1>8. QED
  BY <1>1, <1>6, <1>7 DEF QuotaInv, a, c

LEMMA QuotaSend ==
    ASSUME OneSession, EnvelopeInv, IndexInv, QuotaInv, NEW s \in Sessions, SendNext(s) PROVE QuotaInv'
<1>1. SubTypes /\ session[s] \in SubJobs
  BY DEF EnvelopeInv, SubTypes
<1>2. /\ session[s].pc = "send" /\ session'[s].pc = "send" /\ UNCHANGED <<sendLog, named, refused>>
      /\ session'[s].mail = session[s].mail /\ session'[s].rcpts = session[s].rcpts /\ session'[s].next = session[s].next + 1
      /\ (outbox' = outbox \/ (outbox' = outbox \cup {NextRow(s)} /\ NextRow(s).rcpt \in Remote))
  BY <1>1, OfSendNext
<1>3. IsFiniteSet(outbox)
  BY DEF QuotaInv
<1>4. IsFiniteSet(outbox)'
  BY <1>2, <1>3, FS_AddElement
<1> DEFINE a == Cardinality(Accepted)
           b == Cardinality(Before(s))
           a2 == Cardinality(Accepted')
<1>5. Before(s)' = Before(s)
  BY <1>2 DEF Before, Accepted, NextRow
<1>6. a \in Nat /\ a2 \in Nat /\ a2 <= a + 1
  <2>1. IsFiniteSet(Accepted) /\ a \in Nat
    BY <1>3, SetsCounted
  <2> DEFINE x == NextRow(s)
             more == Accepted \cup {x}
  <2>2. Accepted' \subseteq more
    BY <1>2 DEF Accepted
  <2> HIDE DEF x
  <2>3. IsFiniteSet(more) /\ (Cardinality(more) = a \/ Cardinality(more) = a + 1)
    BY <2>1, FS_AddElement
  <2> HIDE DEF more
  <2>4. Cardinality(more) \in Nat /\ a2 <= Cardinality(more) /\ a2 \in Nat
    BY <2>2, <2>3, FS_Subset, FS_CardinalityType
  <2>5. QED
    BY <2>1, <2>3, <2>4
<1>7. BurstMax > 0 => Within(session[s], sendLog, a, b)
  BY DEF QuotaInv
<1>8. session[s].next \in Nat /\ sendLog \in Nat
  BY <1>1 DEF SubTypes, SubJobs
<1> HIDE DEF a, a2, b
<1>9. BurstMax > 0 => Within(session'[s], sendLog', a2, b)
  BY <1>2, <1>6, <1>7, <1>8 DEF Within
<1>10. \A u \in Sessions : u = s
  BY DEF OneSession
<1>11. QED
  BY <1>4, <1>5, <1>9, <1>10 DEF QuotaInv, a2, b

LEMMA QuotaRefuse ==
    ASSUME OneSession, EnvelopeInv, IndexInv, QuotaInv, NEW s \in Sessions, session[s].pc = "send", session'[s].pc = "cmd",
           UNCHANGED <<outbox, sendLog>>, refused' = refused \cup {<<s, session[s].mail>>}, session'[s].mail = session[s].mail
    PROVE  QuotaInv'
<1>1. SubTypes /\ session[s] \in SubJobs /\ sendLog \in Nat /\ Len(session[s].rcpts) \in Nat /\ outbox \subseteq SubRows
  BY DEF EnvelopeInv, SubTypes, SubJobs
<1>2. \A u \in Sessions : u = s
  BY DEF OneSession
<1>3. Accepted' \subseteq Before(s)
  <2>1. \A m \in outbox : m.by = s
    BY <1>1, <1>2 DEF SubRows
  <2>2. QED
    BY <2>1 DEF Accepted, Before
<1> DEFINE a == Cardinality(Accepted)
           b == Cardinality(Before(s))
           a2 == Cardinality(Accepted')
<1>4. IsFiniteSet(outbox) /\ IsFiniteSet(outbox)' /\ (BurstMax > 0 => Within(session[s], sendLog, a, b))
  BY DEF QuotaInv
<1>5. a2 <= b /\ a2 \in Nat /\ b \in Nat
  <2>1. IsFiniteSet(Before(s)) /\ b \in Nat
    BY <1>4, SetsCounted
  <2>2. QED
    BY <1>3, <2>1, FS_Subset, FS_CardinalityType
<1> HIDE DEF a, a2, b
<1>6. BurstMax > 0 => \A n : Within(session'[s], sendLog', a2, n)
  BY <1>1, <1>4, <1>5, SubmissionAssumption DEF Within
<1>7. QED
  BY <1>2, <1>4, <1>6 DEF QuotaInv, a2

LEMMA QuotaStep == OneSession /\ EnvelopeInv /\ IndexInv /\ QuotaInv /\ [SubmissionNext]_svars => QuotaInv'
<1> SUFFICES ASSUME OneSession, EnvelopeInv, IndexInv, QuotaInv, [SubmissionNext]_svars PROVE QuotaInv'
  OBVIOUS
<1>0. SubTypes /\ sendLog \in Nat /\ \A s \in Sessions : session[s] \in SubJobs /\ Len(session[s].rcpts) \in Nat /\ session[s].next \in Nat
  BY DEF EnvelopeInv, SubTypes, SubJobs
<1>1. ASSUME NEW s \in Sessions, UNCHANGED <<outbox, refused, sendLog>>, session[s].pc \in {"cmd", "body"},
             session'[s].pc \in {"cmd", "closed"}
      PROVE  QuotaInv'
  <2>1. \A a, b, c : Within(session[s], sendLog, a, b) => Within(session'[s], sendLog', a, c)
    BY <1>1 DEF Within
  <2>2. QED
    BY <1>1, <2>1, QuotaMoves
<1>2. ASSUME NEW s \in Sessions, StartTls(s) \/ Auth(s) \/ Mail(s) \/ Rset(s) \/ Quit(s) PROVE QuotaInv'
  BY <1>0, <1>1, <1>2, OfStartTls, OfAuth, OfMail, OfRset, OfQuit
<1>3. ASSUME NEW s \in Sessions, NEW r \in Rcpts, Rcpt(s, r) PROVE QuotaInv'
  BY <1>0, <1>1, <1>3, OfRcpt
<1>4. ASSUME NEW s \in Sessions, Data(s) PROVE QuotaInv'
  <2>1. UNCHANGED <<outbox, refused, sendLog>> /\ session[s].pc = "cmd" /\ session'[s].mail = session[s].mail
    BY <1>0, <1>4, OfData
  <2>2. CASE session'[s].pc = "cmd"
    BY <1>1, <2>1, <2>2
  <2>3. CASE session'[s].pc = "body" /\ session'[s].rcpts = session[s].rcpts /\ Allowed(Len(session[s].rcpts))
    <3>1. BurstMax > 0 => sendLog + Len(session[s].rcpts) <= BurstMax
      BY <2>3 DEF Allowed
    <3>2. BurstMax > 0 => \A a, b, c : Within(session[s], sendLog, a, b) => Within(session'[s], sendLog', a, c)
      BY <2>1, <2>3, <3>1 DEF Within
    <3>3. QED
      BY <2>1, <3>2, QuotaMoves
  <2>4. QED
    BY <1>0, <1>4, <2>2, <2>3, OfData
<1>5. ASSUME NEW s \in Sessions, Body(s) PROVE QuotaInv'
  <2>1. /\ UNCHANGED <<outbox, refused, sendLog>> /\ session[s].pc = "body" /\ session'[s].mail = session[s].mail
        /\ session'[s].rcpts = session[s].rcpts
        /\ (session'[s].pc = "send" /\ session'[s].next = 1) \/ session'[s].pc = "closed"
    BY <1>0, <1>5, OfBody
  <2>2. \A a, b, c \in Nat : c <= a /\ Within(session[s], sendLog, a, b) => Within(session'[s], sendLog', a, c)
    BY <1>0, <2>1 DEF Within
  <2>3. QED
    BY <2>1, <2>2, QuotaMoves
<1>6. ASSUME NEW s \in Sessions, SendNext(s) PROVE QuotaInv'
  BY <1>6, QuotaSend
<1>7. ASSUME NEW s \in Sessions, DeliverLocal(s) PROVE QuotaInv'
  <2>1. /\ UNCHANGED <<outbox, sendLog>> /\ session[s].pc = "send" /\ session'[s].mail = session[s].mail
        /\ session[s].next > Len(session[s].rcpts)
    BY <1>0, <1>7, OfDeliver
  <2>2. CASE session'[s].pc = "cmd" /\ refused' = refused \cup {<<s, session[s].mail>>}
    BY <2>1, <2>2, QuotaRefuse
  <2>3. CASE session'[s].pc = "charge" /\ session'[s].next = 1 /\ refused' = refused /\ session'[s].rcpts = session[s].rcpts
    <3>1. session[s].next <= Len(session[s].rcpts) + 1
      BY <1>0, <2>1 DEF IndexInv
    <3>2. BurstMax > 0 => \A a, b, c \in Nat : Within(session[s], sendLog, a, b) => Within(session'[s], sendLog', a, c)
      BY <1>0, <2>1, <2>3, <3>1, SubmissionAssumption DEF Within
    <3>3. QED
      BY <2>1, <2>3, <3>2, QuotaMoves
  <2>4. QED
    BY <1>0, <1>7, <2>2, <2>3, OfDeliver
<1>8. ASSUME NEW s \in Sessions, Charge(s) PROVE QuotaInv'
  <2>1. /\ UNCHANGED <<outbox, refused>> /\ session[s].pc = "charge" /\ session'[s].mail = session[s].mail /\ sendLog' = sendLog + 1
        /\ \/ session'[s].pc = "charge" /\ session'[s].next = session[s].next + 1 /\ session'[s].rcpts = session[s].rcpts
           \/ session'[s].pc = "cmd" /\ session[s].next = Len(session[s].rcpts)
    BY <1>0, <1>8, OfCharge
  <2>2. ASSUME NEW a \in Nat, NEW b \in Nat, NEW c \in Nat, Within(session[s], sendLog, a, b)
        PROVE  Within(session'[s], sendLog', a, c)
    <3> DEFINE n == session[s].next
               l == Len(session[s].rcpts)
    <3>1. n \in Nat /\ l \in Nat /\ a + n <= sendLog + l + 1 /\ sendLog + l + 1 <= BurstMax + n /\ BurstMax \in Nat
      BY <1>0, <2>1, <2>2, SubmissionAssumption DEF Within
    <3>0. sendLog' = sendLog + 1 /\ sendLog \in Nat
      BY <1>0, <2>1
    <3>2. CASE session'[s].pc = "charge" /\ session'[s].next = n + 1 /\ session'[s].rcpts = session[s].rcpts
      <4> HIDE DEF n, l
      <4>1. a + (n + 1) <= sendLog' + l + 1 /\ sendLog' + l + 1 <= BurstMax + (n + 1)
        BY <3>0, <3>1
      <4>2. QED
        BY <3>2, <4>1 DEF Within, n, l
    <3>3. CASE session'[s].pc = "cmd" /\ n = l
      <4> HIDE DEF n, l
      <4>1. a <= sendLog' /\ sendLog' <= BurstMax
        BY <3>0, <3>1, <3>3
      <4>2. QED
        BY <3>3, <4>1 DEF Within
    <3>4. QED
      BY <2>1, <3>2, <3>3
  <2>3. QED
    BY <2>1, <2>2, QuotaMoves
<1>9. CASE UNCHANGED svars
  <2>1. UNCHANGED <<session, outbox, sendLog, refused>>
    BY <1>9 DEF svars
  <2>2. Accepted' = Accepted /\ \A s \in Sessions : Before(s)' = Before(s)
    BY <2>1 DEF Accepted, Before
  <2>3. QED
    BY <2>1, <2>2 DEF QuotaInv
<1>10. QED
  BY <1>2, <1>3, <1>4, <1>5, <1>6, <1>7, <1>8, <1>9 DEF SubmissionNext

LEMMA QuotaInitial == SubmissionInit => IndexInv /\ QuotaInv
<1> SUFFICES ASSUME SubmissionInit PROVE IndexInv /\ QuotaInv
  OBVIOUS
<1>1. \A s \in Sessions : session[s].pc = "cmd"
  BY DEF SubmissionInit, Fresh
<1>2. outbox = {} /\ sendLog = 0
  BY DEF SubmissionInit
<1>3. Accepted = {} /\ IsFiniteSet(outbox) /\ Cardinality(Accepted) = 0
  BY <1>2, FS_EmptySet DEF Accepted
<1>4. QED
  BY <1>1, <1>2, <1>3, SubmissionAssumption DEF IndexInv, QuotaInv, Within

LEMMA QuotaKept == EnvelopeInv /\ IndexInv /\ QuotaInv => AcceptedWithinQuota
<1> SUFFICES ASSUME EnvelopeInv, IndexInv, QuotaInv, BurstMax > 0 PROVE Cardinality(Accepted) <= BurstMax
  BY DEF AcceptedWithinQuota, Accepted
<1>1. outbox \subseteq SubRows /\ sendLog \in Nat /\ \A s \in Sessions : session[s] \in SubJobs
  BY DEF EnvelopeInv, SubTypes
<1>2. CASE Sessions = {}
  <2>1. Accepted = {}
    BY <1>1, <1>2 DEF Accepted, SubRows
  <2>2. QED
    BY <2>1, FS_EmptySet, SubmissionAssumption
<1>3. CASE Sessions # {}
  <2>1. PICK s \in Sessions : TRUE
    BY <1>3
  <2>2. Within(session[s], sendLog, Cardinality(Accepted), Cardinality(Before(s))) /\ Cardinality(Accepted) \in Nat
    BY SetsCounted DEF QuotaInv
  <2> DEFINE n == session[s].next
             l == Len(session[s].rcpts)
             a == Cardinality(Accepted)
  <2>3. n \in Nat /\ l \in Nat /\ session[s].pc \in SubPcs /\ BurstMax \in Nat
    BY <1>1, SubmissionAssumption DEF SubJobs
  <2>4. session[s].pc = "send" => n <= l + 1
    BY <2>3 DEF IndexInv
  <2>5. \/ a <= sendLog /\ sendLog <= BurstMax
        \/ sendLog + l <= BurstMax /\ a + 1 <= sendLog + n /\ n <= l + 1
        \/ a + n <= sendLog + l + 1 /\ sendLog + l + 1 <= BurstMax + n
    BY <2>2, <2>3, <2>4 DEF Within, SubPcs
  <2> HIDE DEF n, l, a
  <2>6. a <= BurstMax
    BY <1>1, <2>2, <2>3, <2>5 DEF a
  <2>7. QED
    BY <2>6 DEF a
<1>4. QED
  BY <1>2, <1>3

(* For any number of sessions of the user, recipients and messages: nobody  *)
(* is sent a message they were not named for, and no recipient is ever on   *)
(* the envelope of a session that has not logged in under TLS.              *)
THEOREM EnvelopesAreHonest == SubmissionSpec => [](EnvelopesDoNotLeak /\ EnvelopeNeedsLogin)
<1>1. EnvelopeInv /\ IndexInv => EnvelopesDoNotLeak /\ EnvelopeNeedsLogin
  BY DEF EnvelopeInv, Envelope, EnvelopeNeedsLogin
<1>2. SubmissionInit => EnvelopeInv /\ IndexInv
  BY SubInitial, QuotaInitial
<1>3. QED
  BY <1>1, <1>2, EnvelopeStep, PTL DEF SubmissionSpec

(* With one session the copies of accepted messages are within the quota    *)
(* as well, whatever is refused, fails, or is sent again.                   *)
THEOREM SubmissionIsAlwaysSound == OneSession => (SubmissionSpec => []SubmissionIsSound)
<1> SUFFICES ASSUME OneSession PROVE SubmissionSpec => []SubmissionIsSound
  OBVIOUS
<1> DEFINE all == EnvelopeInv /\ IndexInv /\ QuotaInv
<1>1. SubmissionInit => all
  BY SubInitial, QuotaInitial
<1>2. all /\ [SubmissionNext]_svars => all'
  BY EnvelopeStep, QuotaStep
<1>3. all => SubmissionIsSound
  BY QuotaKept DEF SubmissionIsSound, EnvelopeInv, Envelope, EnvelopeNeedsLogin
<1> HIDE DEF all
<1>4. QED
  BY <1>1, <1>2, <1>3, PTL DEF SubmissionSpec

(* The rows of the send log, each named for the session, the message and    *)
(* the recipient RecordSend wrote it for.                                   *)
LogRows == (Sessions \X (1..MaxMails)) \X (1..MaxRcpts)

(* A message nobody has been charged for yet, and what of the log may be of *)
(* the session s whose dialogue is j: earlier messages, or the recipients   *)
(* of this one that its RecordSend has passed.                              *)
Uncharged(j) == j.pc \in {"body", "send"} \/ (j.pc = "cmd" /\ j.open = TRUE)
LogOf(rows, s, j) ==
    \A m \in 1..MaxMails, i \in 1..MaxRcpts : <<<<s, m>>, i>> \in rows =>
        /\ m <= j.mail
        /\ m = j.mail => ~Uncharged(j) /\ (j.pc = "charge" => i < j.next)

SubBounds ==
    /\ refused \subseteq Sessions \X (1..MaxMails)
    /\ \A row \in outbox : row.at \in 1..MaxRcpts
    /\ \A s \in Sessions : Len(session[s].rcpts) <= MaxRcpts /\ session[s].next <= MaxRcpts + 1
SubLogged ==
    \E rows \in SUBSET LogRows : sendLog = Cardinality(rows) /\ \A s \in Sessions : LogOf(rows, s, session[s])
SubCounted == SubBounds /\ SubLogged

LEMMA LogRowsFinite == IsFiniteSet(LogRows) /\ Cardinality(LogRows) = Cardinality(Sessions) * MaxMails * MaxRcpts
<1>1. MaxMails \in Nat /\ MaxRcpts \in Nat /\ IsFiniteSet(Sessions)
  BY SubmissionAssumption
<1>2. IsFiniteSet(1..MaxMails) /\ Cardinality(1..MaxMails) = MaxMails /\ IsFiniteSet(1..MaxRcpts) /\ Cardinality(1..MaxRcpts) = MaxRcpts
  BY <1>1, FS_Interval
<1> DEFINE pairs == Sessions \X (1..MaxMails)
<1>3. IsFiniteSet(pairs) /\ Cardinality(pairs) = Cardinality(Sessions) * MaxMails
  BY <1>1, <1>2, FS_Product
<1> HIDE DEF pairs
<1>4. IsFiniteSet(pairs \X (1..MaxRcpts)) /\ Cardinality(pairs \X (1..MaxRcpts)) = Cardinality(pairs) * MaxRcpts
  BY <1>2, <1>3, FS_Product
<1>5. QED
  BY <1>3, <1>4 DEF LogRows, pairs

(* The index of a session is reset, kept, or moved to the next recipient.   *)
LEMMA NextMoves ==
    ASSUME SubTypes, NEW s \in Sessions
    PROVE  /\ (StartTls(s) \/ Auth(s) \/ Mail(s) \/ Rset(s) \/ Quit(s) \/ Data(s) \/ \E r \in Rcpts : Rcpt(s, r))
                  => session'[s].next \in {0, session[s].next}
           /\ Body(s) => session'[s].next \in {1, session[s].next}
           /\ DeliverLocal(s) => session'[s].next \in {0, 1}
           /\ Charge(s) => session'[s].next = 0 \/ (session'[s].next = session[s].next + 1 /\ session[s].next # Len(session[s].rcpts))
<1> DEFINE j == session[s]
<1>1. j \in SubJobs /\ session \in [Sessions -> SubJobs] /\ j.rcpts \in Seq(Rcpts) /\ j.next \in Nat
  BY DEF SubTypes, SubJobs
<1>2. ASSUME NEW k \in SubJobs, Now(s, k) PROVE session'[s] = k
  BY <1>1, <1>2, NowSet
<1>3. Cleared(j) \in SubJobs /\ Cleared(j).next = 0
  BY <1>1, JobCleared
<1>4. SubPcs = {"cmd", "body", "send", "charge", "closed"}
  BY DEF SubPcs
<1>5. CASE StartTls(s)
  <2> DEFINE k == [Cleared(j) EXCEPT !.tls = TRUE, !.authed = FALSE]
  <2>1. k \in SubJobs /\ k.next = 0 /\ Now(s, k)
    BY <1>3, <1>5, JobTls DEF StartTls
  <2> HIDE DEF k
  <2>2. session'[s].next = 0
    BY <1>2, <2>1
  <2>3. QED
    BY <1>5, <2>2 DEF StartTls, Body, DeliverLocal, Charge
<1>6. CASE Auth(s)
  <2> DEFINE k == [j EXCEPT !.authed = TRUE]
  <2>1. k \in SubJobs /\ k.next = j.next /\ Now(s, k)
    BY <1>1, <1>6, JobAuth DEF Auth
  <2> HIDE DEF k
  <2>2. session'[s].next = j.next
    BY <1>2, <2>1
  <2>3. QED
    BY <1>6, <2>2 DEF Auth, Body, DeliverLocal, Charge
<1>7. CASE Mail(s)
  <2> DEFINE k == [j EXCEPT !.rcpts = <<>>, !.open = TRUE, !.mail = @ + 1]
  <2>1. k \in SubJobs /\ k.next = j.next /\ Now(s, k)
    BY <1>1, <1>7, JobMail DEF Mail
  <2> HIDE DEF k
  <2>2. session'[s].next = j.next
    BY <1>2, <2>1
  <2>3. QED
    BY <1>7, <2>2 DEF Mail, Body, DeliverLocal, Charge
<1>8. ASSUME NEW r \in Rcpts, Rcpt(s, r) PROVE session'[s].next = j.next /\ j.pc = "cmd"
  <2> DEFINE q == Append(j.rcpts, r)
             k == [j EXCEPT !.rcpts = q]
  <2>1. q \in Seq(Rcpts)
    BY <1>1
  <2>2. Now(s, k) /\ j.pc = "cmd"
    BY <1>8 DEF Rcpt
  <2> HIDE DEF q
  <2>3. k \in SubJobs /\ k.next = j.next
    BY <1>1, <2>1, JobRcpts
  <2> HIDE DEF k
  <2>4. QED
    BY <1>2, <2>2, <2>3
<1>9. CASE Rset(s)
  BY <1>2, <1>3, <1>9 DEF Rset, Body, DeliverLocal, Charge
<1>10. CASE Quit(s)
  <2> DEFINE k == [j EXCEPT !.pc = "closed"]
  <2>1. k \in SubJobs /\ k.next = j.next /\ Now(s, k)
    BY <1>1, <1>4, <1>10, JobPc DEF Quit
  <2> HIDE DEF k
  <2>2. session'[s].next = j.next
    BY <1>2, <2>1
  <2>3. QED
    BY <1>10, <2>2 DEF Quit, Body, DeliverLocal, Charge
<1>11. CASE Data(s)
  <2> DEFINE k == [j EXCEPT !.pc = "body"]
  <2>1. k \in SubJobs /\ k.next = j.next /\ (Now(s, k) \/ Now(s, Cleared(j)))
    BY <1>1, <1>4, <1>11, JobPc DEF Data
  <2> HIDE DEF k
  <2>2. session'[s].next \in {0, j.next}
    BY <1>2, <1>3, <2>1
  <2>3. QED
    BY <1>11, <2>2 DEF Data, Body, DeliverLocal, Charge
<1>12. CASE Body(s)
  <2> DEFINE k == [j EXCEPT !.pc = "closed"]
  <2>1. k \in SubJobs /\ k.next = j.next
    BY <1>1, <1>4, JobPc
  <2>2. Now(s, [j EXCEPT !.pc = "send", !.next = 1]) \/ Now(s, k)
    BY <1>12 DEF Body
  <2>3. [j EXCEPT !.pc = "send", !.next = 1] \in SubJobs /\ [j EXCEPT !.pc = "send", !.next = 1].next = 1
    BY <1>1, <1>4 DEF SubJobs
  <2> HIDE DEF k
  <2>4. session'[s].next \in {1, j.next}
    BY <1>2, <2>1, <2>2, <2>3
  <2>5. QED
    BY <1>8, <1>12, <2>4 DEF StartTls, Auth, Mail, Rset, Quit, Data, Body, DeliverLocal, Charge
<1>13. CASE DeliverLocal(s)
  <2>1. Now(s, [j EXCEPT !.pc = "charge", !.next = 1]) \/ Now(s, Cleared(j))
    BY <1>13 DEF DeliverLocal
  <2>2. [j EXCEPT !.pc = "charge", !.next = 1] \in SubJobs /\ [j EXCEPT !.pc = "charge", !.next = 1].next = 1
    BY <1>1, <1>4 DEF SubJobs
  <2>3. session'[s].next \in {0, 1}
    BY <1>2, <1>3, <2>1, <2>2
  <2>4. QED
    BY <1>8, <1>13, <2>3 DEF StartTls, Auth, Mail, Rset, Quit, Data, Body, DeliverLocal, Charge
<1>14. CASE Charge(s)
  <2> DEFINE n == j.next + 1
             k == [j EXCEPT !.next = n]
  <2>1. n \in Nat
    BY <1>1
  <2>2. (Now(s, k) /\ j.next # Len(j.rcpts)) \/ Now(s, Cleared(j))
    BY <1>14 DEF Charge
  <2> HIDE DEF n
  <2>3. k \in SubJobs /\ k.next = n
    BY <1>1, <2>1, JobNext
  <2> HIDE DEF k
  <2>4. session'[s].next = 0 \/ (session'[s].next = n /\ j.next # Len(j.rcpts))
    BY <1>2, <1>3, <2>2, <2>3
  <2>5. QED
    BY <1>8, <1>14, <2>4 DEF StartTls, Auth, Mail, Rset, Quit, Data, Body, DeliverLocal, Charge, n
<1>15. QED
  BY <1>5, <1>6, <1>7, <1>8, <1>9, <1>10, <1>11, <1>12, <1>13, <1>14 DEF Body, DeliverLocal, Charge

(* A step that writes no row of the log: its session goes on to a later     *)
(* message, or is charged for this one only if it was not before.           *)
Later(j, k) ==
    \/ k.mail = j.mail + 1
    \/ /\ k.mail = j.mail
       /\ Uncharged(k) \/ k.pc = "charge" => Uncharged(j)

LEMMA LogMoves ==
    ASSUME SubTypes, SubTypes', SubLogged, NEW s \in Sessions, \A u \in Sessions \ {s} : session'[u] = session[u],
           UNCHANGED sendLog, Later(session[s], session'[s])
    PROVE  SubLogged'
<1>1. PICK rows \in SUBSET LogRows : sendLog = Cardinality(rows) /\ \A u \in Sessions : LogOf(rows, u, session[u])
  BY DEF SubLogged
<1>2. session[s].mail \in Nat /\ session'[s].mail \in Nat
  BY DEF SubTypes, SubJobs
<1>3. LogOf(rows, s, session'[s])
  <2> SUFFICES ASSUME NEW m \in 1..MaxMails, NEW i \in 1..MaxRcpts, <<<<s, m>>, i>> \in rows
               PROVE  /\ m <= session'[s].mail
                      /\ m = session'[s].mail => ~Uncharged(session'[s]) /\ (session'[s].pc = "charge" => i < session'[s].next)
    BY DEF LogOf
  <2>1. /\ m <= session[s].mail
        /\ m = session[s].mail => ~Uncharged(session[s])
    BY <1>1 DEF LogOf
  <2>2. QED
    BY <1>2, <2>1 DEF Later
<1>4. \A u \in Sessions : LogOf(rows, u, session'[u])
  BY <1>1, <1>3
<1>5. sendLog' = Cardinality(rows)
  BY <1>1
<1>6. QED
  BY <1>4, <1>5 DEF SubLogged, LogRows

(* RecordSend for one recipient of the message: a row there was not before. *)
LEMMA LogCharge ==
    ASSUME SubTypes, SubTypes', SubBounds, SubLogged, IndexInv, NEW s \in Sessions, Charge(s), session[s].mail \in 1..MaxMails
    PROVE  SubLogged'
<1> DEFINE j == session[s]
           row == <<<<s, j.mail>>, j.next>>
<1>1. PICK rows \in SUBSET LogRows : sendLog = Cardinality(rows) /\ \A u \in Sessions : LogOf(rows, u, session[u])
  BY DEF SubLogged
<1>2. /\ j.pc = "charge" /\ sendLog' = sendLog + 1 /\ session'[s].mail = j.mail
      /\ \A u \in Sessions \ {s} : session'[u] = session[u]
      /\ \/ session'[s].pc = "charge" /\ session'[s].next = j.next + 1
         \/ session'[s].pc = "cmd" /\ session'[s].open = FALSE
  BY OfCharge
<1>3. j.next \in 1..Len(j.rcpts) /\ Len(j.rcpts) \in Nat /\ Len(j.rcpts) <= MaxRcpts /\ MaxRcpts \in Nat
  BY <1>2, SubmissionAssumption DEF IndexInv, SubBounds, SubTypes, SubJobs
<1>4. j.next \in 1..MaxRcpts /\ j.mail \in 1..MaxMails
  BY <1>3
<1>5. row \in LogRows
  BY <1>4 DEF LogRows
<1>6. LogOf(rows, s, j)
  BY <1>1
<1>7. row \notin rows
  <2> SUFFICES ASSUME row \in rows PROVE FALSE
    OBVIOUS
  <2> HIDE DEF j
  <2>1. j.next < j.next
    BY <1>2, <1>4, <1>6 DEF LogOf
  <2>2. QED
    BY <1>4, <2>1
<1>8. IsFiniteSet(rows)
  BY LogRowsFinite, FS_Subset
<1>9. Cardinality(rows \cup {row}) = sendLog'
  BY <1>1, <1>2, <1>7, <1>8, FS_AddElement
<1>10. ASSUME NEW u \in Sessions, u # s PROVE LogOf(rows \cup {row}, u, session'[u])
  <2>1. LogOf(rows, u, session[u]) /\ session'[u] = session[u]
    BY <1>1, <1>2, <1>10
  <2>2. QED
    BY <1>10, <2>1 DEF LogOf
<1>11. LogOf(rows \cup {row}, s, session'[s])
  <2> SUFFICES ASSUME NEW m \in 1..MaxMails, NEW i \in 1..MaxRcpts, <<<<s, m>>, i>> \in rows \cup {row}
               PROVE  /\ m <= session'[s].mail
                      /\ m = session'[s].mail => ~Uncharged(session'[s]) /\ (session'[s].pc = "charge" => i < session'[s].next)
    BY DEF LogOf
  <2>1. ~Uncharged(session'[s])
    BY <1>2 DEF Uncharged
  <2> HIDE DEF j
  <2>2. m <= j.mail /\ (m = j.mail => i <= j.next)
    BY <1>2, <1>4, <1>6 DEF LogOf
  <2>3. QED
    BY <1>2, <1>4, <2>1, <2>2
<1>12. \A u \in Sessions : LogOf(rows \cup {row}, u, session'[u])
  BY <1>10, <1>11
<1>13. rows \cup {row} \in SUBSET LogRows
  BY <1>5
<1>14. QED
  BY <1>9, <1>12, <1>13 DEF SubLogged, LogRows

LEMMA BoundsMove ==
    ASSUME SubTypes, SubBounds, NEW s \in Sessions, \A u \in Sessions \ {s} : session'[u] = session[u],
           UNCHANGED outbox, refused' \subseteq Sessions \X (1..MaxMails),
           Len(session'[s].rcpts) <= MaxRcpts, session'[s].next <= MaxRcpts + 1
    PROVE  SubBounds'
<1>1. \A u \in Sessions : Len(session'[u].rcpts) <= MaxRcpts /\ session'[u].next <= MaxRcpts + 1
  BY DEF SubBounds
<1>2. QED
  BY <1>1 DEF SubBounds

LEMMA SubCountStep == EnvelopeInv /\ IndexInv /\ SubCounted /\ [SubmissionNext]_svars => SubCounted'
<1> SUFFICES ASSUME EnvelopeInv, IndexInv, SubCounted, [SubmissionNext]_svars PROVE SubCounted'
  OBVIOUS
<1>1. SubTypes /\ SubTypes' /\ SubBounds /\ SubLogged
  BY EnvelopeStep DEF EnvelopeInv, SubCounted
<1>2. /\ MaxRcpts \in Nat /\ MaxMails \in Nat /\ refused \subseteq Sessions \X (1..MaxMails)
      /\ \A s \in Sessions : /\ session[s] \in SubJobs /\ session[s].rcpts \in Seq(Rcpts) /\ Len(session[s].rcpts) \in Nat
                             /\ session[s].next \in Nat /\ session[s].mail \in Nat
                             /\ Len(session[s].rcpts) <= MaxRcpts /\ session[s].next <= MaxRcpts + 1
                             /\ Envelope(session[s], named[s])
  BY <1>1, SubmissionAssumption DEF SubTypes, SubJobs, SubBounds, EnvelopeInv
<1>3. Len(<<>>) = 0
  OBVIOUS
<1>4. ASSUME NEW s \in Sessions, \A u \in Sessions \ {s} : session'[u] = session[u], UNCHANGED <<outbox, sendLog, refused>>,
             Later(session[s], session'[s]), Len(session'[s].rcpts) <= MaxRcpts, session'[s].next <= MaxRcpts + 1
      PROVE  SubCounted'
  BY <1>1, <1>2, <1>4, BoundsMove, LogMoves DEF SubCounted
<1>5. ASSUME NEW s \in Sessions, StartTls(s) PROVE SubCounted'
  <2>1. /\ \A u \in Sessions \ {s} : session'[u] = session[u]
        /\ UNCHANGED <<outbox, sendLog, refused>>
        /\ session'[s].pc = "cmd" /\ session'[s].open = FALSE /\ session'[s].rcpts = <<>> /\ session'[s].mail = session[s].mail
    BY <1>1, <1>5, OfStartTls
  <2>2. session'[s].next \in {0, session[s].next}
    BY <1>1, <1>5, NextMoves
  <2>3. Later(session[s], session'[s])
    BY <2>1 DEF Later, Uncharged
  <2>4. QED
    BY <1>2, <1>3, <1>4, <2>1, <2>2, <2>3
<1>6. ASSUME NEW s \in Sessions, Auth(s) PROVE SubCounted'
  <2>1. /\ \A u \in Sessions \ {s} : session'[u] = session[u]
        /\ UNCHANGED <<outbox, sendLog, refused>> /\ session[s].pc = "cmd" /\ session'[s].pc = "cmd"
        /\ session'[s].open = session[s].open /\ session'[s].rcpts = session[s].rcpts /\ session'[s].mail = session[s].mail
    BY <1>1, <1>6, OfAuth
  <2>2. session'[s].next \in {0, session[s].next}
    BY <1>1, <1>6, NextMoves
  <2>3. Later(session[s], session'[s])
    BY <2>1 DEF Later, Uncharged
  <2>4. QED
    BY <1>2, <1>4, <2>1, <2>2, <2>3
<1>7. ASSUME NEW s \in Sessions, Mail(s) PROVE SubCounted'
  <2>1. /\ \A u \in Sessions \ {s} : session'[u] = session[u]
        /\ UNCHANGED <<outbox, sendLog, refused>> /\ session'[s].rcpts = <<>> /\ session'[s].mail = session[s].mail + 1
    BY <1>1, <1>7, OfMail
  <2>2. session'[s].next \in {0, session[s].next}
    BY <1>1, <1>7, NextMoves
  <2>3. Later(session[s], session'[s])
    BY <2>1 DEF Later
  <2>4. QED
    BY <1>2, <1>3, <1>4, <2>1, <2>2, <2>3
<1>8. ASSUME NEW s \in Sessions, NEW r \in Rcpts, Rcpt(s, r) PROVE SubCounted'
  <2>1. /\ \A u \in Sessions \ {s} : session'[u] = session[u]
        /\ UNCHANGED <<outbox, sendLog, refused>> /\ session[s].pc = "cmd" /\ session'[s].pc = "cmd"
        /\ session'[s].rcpts = Append(session[s].rcpts, r) /\ session'[s].mail = session[s].mail /\ session'[s].open = session[s].open
    BY <1>1, <1>8, OfRcpt
  <2>2. Len(session[s].rcpts) < MaxRcpts
    BY <1>8 DEF Rcpt
  <2>3. Len(session'[s].rcpts) <= MaxRcpts
    BY <1>2, <2>1, <2>2
  <2>4. session'[s].next \in {0, session[s].next}
    BY <1>1, <1>8, NextMoves
  <2>5. Later(session[s], session'[s])
    BY <2>1 DEF Later, Uncharged
  <2>6. QED
    BY <1>2, <1>4, <2>1, <2>3, <2>4, <2>5
<1>9. ASSUME NEW s \in Sessions, Rset(s) PROVE SubCounted'
  <2>1. /\ \A u \in Sessions \ {s} : session'[u] = session[u]
        /\ UNCHANGED <<outbox, sendLog, refused>>
        /\ session'[s].pc = "cmd" /\ session'[s].open = FALSE /\ session'[s].rcpts = <<>> /\ session'[s].mail = session[s].mail
    BY <1>1, <1>9, OfRset
  <2>2. session'[s].next \in {0, session[s].next}
    BY <1>1, <1>9, NextMoves
  <2>3. Later(session[s], session'[s])
    BY <2>1 DEF Later, Uncharged
  <2>4. QED
    BY <1>2, <1>3, <1>4, <2>1, <2>2, <2>3
<1>10. ASSUME NEW s \in Sessions, Quit(s) PROVE SubCounted'
  <2>1. /\ \A u \in Sessions \ {s} : session'[u] = session[u]
        /\ UNCHANGED <<outbox, sendLog, refused>>
        /\ session'[s].pc = "closed" /\ session'[s].rcpts = session[s].rcpts /\ session'[s].mail = session[s].mail
    BY <1>1, <1>10, OfQuit
  <2>2. session'[s].next \in {0, session[s].next}
    BY <1>1, <1>10, NextMoves
  <2>3. Later(session[s], session'[s])
    BY <2>1 DEF Later, Uncharged
  <2>4. QED
    BY <1>2, <1>4, <2>1, <2>2, <2>3
<1>11. ASSUME NEW s \in Sessions, Data(s) PROVE SubCounted'
  <2>1. /\ \A u \in Sessions \ {s} : session'[u] = session[u]
        /\ UNCHANGED <<outbox, sendLog, refused>> /\ session[s].pc = "cmd" /\ session'[s].mail = session[s].mail
        /\ \/ session'[s].pc = "body" /\ session'[s].rcpts = session[s].rcpts
           \/ session'[s].pc = "cmd" /\ session'[s].rcpts = <<>> /\ session'[s].open = FALSE
    BY <1>1, <1>11, OfData
  <2>2. session'[s].next \in {0, session[s].next}
    BY <1>1, <1>11, NextMoves
  <2>3. session[s].open = TRUE
    BY <1>2, <1>11 DEF Data, Envelope
  <2>4. Later(session[s], session'[s])
    BY <2>1, <2>3 DEF Later, Uncharged
  <2>5. Len(session'[s].rcpts) <= MaxRcpts
    BY <1>2, <1>3, <2>1
  <2>6. QED
    BY <1>2, <1>4, <2>1, <2>2, <2>4, <2>5
<1>12. ASSUME NEW s \in Sessions, Body(s) PROVE SubCounted'
  <2>1. /\ \A u \in Sessions \ {s} : session'[u] = session[u]
        /\ UNCHANGED <<outbox, sendLog, refused>> /\ session[s].pc = "body" /\ session'[s].mail = session[s].mail
        /\ session'[s].rcpts = session[s].rcpts /\ (session'[s].pc = "send" \/ session'[s].pc = "closed")
    BY <1>1, <1>12, OfBody
  <2>2. session'[s].next \in {1, session[s].next}
    BY <1>1, <1>12, NextMoves
  <2>3. Later(session[s], session'[s])
    BY <2>1 DEF Later, Uncharged
  <2>4. QED
    BY <1>2, <1>4, <2>1, <2>2, <2>3
<1>13. ASSUME NEW s \in Sessions, SendNext(s) PROVE SubCounted'
  <2> DEFINE row == NextRow(s)
  <2>1. /\ \A u \in Sessions \ {s} : session'[u] = session[u]
        /\ UNCHANGED <<sendLog, refused>> /\ session[s].pc = "send" /\ session'[s].pc = "send" /\ session'[s].mail = session[s].mail
        /\ session'[s].rcpts = session[s].rcpts /\ session'[s].next = session[s].next + 1 /\ session[s].next <= Len(session[s].rcpts)
        /\ outbox' = outbox \/ outbox' = outbox \cup {row}
    BY <1>1, <1>13, OfSendNext
  <2>2. session[s].next \in 1..MaxRcpts /\ session'[s].next <= MaxRcpts + 1
    BY <1>2, <2>1 DEF IndexInv
  <2>3. row.at = session[s].next
    BY DEF NextRow
  <2>4. \A m \in outbox' : m.at \in 1..MaxRcpts
    BY <1>1, <2>1, <2>2, <2>3 DEF SubBounds
  <2>5. \A u \in Sessions : Len(session'[u].rcpts) <= MaxRcpts /\ session'[u].next <= MaxRcpts + 1
    BY <1>2, <2>1, <2>2
  <2>6. SubBounds'
    BY <1>2, <2>1, <2>4, <2>5 DEF SubBounds
  <2>7. Later(session[s], session'[s])
    BY <2>1 DEF Later, Uncharged
  <2>8. QED
    BY <1>1, <2>1, <2>6, <2>7, LogMoves DEF SubCounted
<1>14. ASSUME NEW s \in Sessions, DeliverLocal(s) PROVE SubCounted'
  <2>1. /\ \A u \in Sessions \ {s} : session'[u] = session[u]
        /\ UNCHANGED <<outbox, sendLog>> /\ session[s].pc = "send" /\ session'[s].mail = session[s].mail
        /\ \/ session'[s].pc = "charge" /\ refused' = refused /\ session'[s].rcpts = session[s].rcpts
           \/ /\ session'[s].pc = "cmd" /\ session'[s].rcpts = <<>> /\ session'[s].open = FALSE
              /\ refused' = refused \cup {<<s, session[s].mail>>}
    BY <1>1, <1>14, OfDeliver
  <2>2. session'[s].next \in {0, 1}
    BY <1>1, <1>14, NextMoves
  <2>3. session[s].mail \in 1..MaxMails
    BY <1>2, <2>1 DEF Envelope
  <2>4. refused' \subseteq Sessions \X (1..MaxMails)
    BY <1>2, <2>1, <2>3
  <2>5. Len(session'[s].rcpts) <= MaxRcpts /\ session'[s].next <= MaxRcpts + 1
    BY <1>2, <1>3, <2>1, <2>2
  <2>6. SubBounds'
    BY <1>1, <2>1, <2>4, <2>5, BoundsMove
  <2>7. Later(session[s], session'[s])
    BY <2>1 DEF Later, Uncharged
  <2>8. QED
    BY <1>1, <2>1, <2>6, <2>7, LogMoves DEF SubCounted
<1>15. ASSUME NEW s \in Sessions, Charge(s) PROVE SubCounted'
  <2>1. /\ \A u \in Sessions \ {s} : session'[u] = session[u]
        /\ UNCHANGED <<outbox, refused>> /\ session[s].pc = "charge"
        /\ session'[s].rcpts = session[s].rcpts \/ session'[s].rcpts = <<>>
    BY <1>1, <1>15, OfCharge
  <2>2. session'[s].next = 0 \/ (session'[s].next = session[s].next + 1 /\ session[s].next # Len(session[s].rcpts))
    BY <1>1, <1>15, NextMoves
  <2>3. session[s].next \in 1..Len(session[s].rcpts)
    BY <2>1 DEF IndexInv
  <2>4. session[s].mail \in 1..MaxMails
    BY <1>2, <2>1 DEF Envelope
  <2>5. Len(session'[s].rcpts) <= MaxRcpts /\ session'[s].next <= MaxRcpts + 1
    BY <1>2, <1>3, <2>1, <2>2, <2>3
  <2>6. SubBounds'
    BY <1>1, <1>2, <2>1, <2>5, BoundsMove
  <2>7. QED
    BY <1>1, <1>15, <2>4, <2>6, LogCharge DEF SubCounted
<1>16. CASE UNCHANGED svars
  BY <1>1, <1>16 DEF svars, SubCounted, SubBounds, SubLogged, LogRows
<1>17. QED
  BY <1>5, <1>6, <1>7, <1>8, <1>9, <1>10, <1>11, <1>12, <1>13, <1>14, <1>15, <1>16 DEF SubmissionNext

LEMMA SubCountInitial == SubmissionInit => SubCounted
<1> SUFFICES ASSUME SubmissionInit PROVE SubCounted
  OBVIOUS
<1>1. /\ \A s \in Sessions : session[s].rcpts = <<>> /\ session[s].next = 0
      /\ outbox = {} /\ sendLog = 0 /\ refused = {}
  BY DEF SubmissionInit, Fresh
<1>2. SubBounds
  BY <1>1, SubmissionAssumption DEF SubBounds
<1>3. Cardinality({}) = 0 /\ {} \in SUBSET LogRows /\ \A s \in Sessions : LogOf({}, s, session[s])
  BY FS_EmptySet DEF LogOf
<1>4. QED
  BY <1>1, <1>2, <1>3 DEF SubCounted, SubLogged

LEMMA SubmissionTyped == EnvelopeInv /\ IndexInv /\ SubCounted => SubmissionTypeOK
<1> SUFFICES ASSUME EnvelopeInv, IndexInv, SubCounted PROVE SubmissionTypeOK
  OBVIOUS
<1>1. SubTypes /\ SubBounds /\ SubLogged /\ MaxRcpts \in Nat
  BY SubmissionAssumption DEF EnvelopeInv, SubCounted
<1>2. ASSUME NEW s \in Sessions PROVE session[s] \in SessionStates
  <2>1. session[s] \in SubJobs /\ session[s].next \in 0..(MaxRcpts + 1)
    BY <1>1 DEF SubTypes, SubJobs, SubBounds
  <2>2. session[s].rcpts \in Seq(Rcpts) /\ Len(session[s].rcpts) \in 0..MaxRcpts
    BY <1>1, <2>1 DEF SubJobs, SubBounds
  <2>3. session[s].rcpts \in [1..Len(session[s].rcpts) -> Rcpts]
    BY <2>2
  <2>4. session[s].rcpts \in UNION {[1..n -> Rcpts] : n \in 0..MaxRcpts}
    BY <2>2, <2>3
  <2>5. QED
    BY <2>1, <2>4 DEF SubJobs, SubPcs, SessionStates
<1>3. session \in [Sessions -> SessionStates]
  BY <1>1, <1>2 DEF SubTypes
<1>4. outbox \subseteq [by : Sessions, mail : 1..MaxMails, at : 1..MaxRcpts, rcpt : Remote]
  BY <1>1 DEF SubTypes, SubRows, SubBounds
<1>5. sendLog \in 0..(Cardinality(Sessions) * MaxMails * MaxRcpts)
  <2>1. PICK rows \in SUBSET LogRows : sendLog = Cardinality(rows)
    BY <1>1 DEF SubLogged
  <2>2. IsFiniteSet(rows) /\ Cardinality(rows) <= Cardinality(LogRows) /\ Cardinality(rows) \in Nat /\ Cardinality(LogRows) \in Nat
    BY LogRowsFinite, FS_Subset, FS_CardinalityType
  <2> DEFINE most == Cardinality(Sessions) * MaxMails * MaxRcpts
  <2>3. most = Cardinality(LogRows)
    BY LogRowsFinite
  <2> HIDE DEF most
  <2>4. sendLog \in 0..most
    BY <2>1, <2>2, <2>3
  <2>5. QED
    BY <2>4 DEF most
<1>6. QED
  BY <1>1, <1>3, <1>4, <1>5 DEF SubmissionTypeOK, SubTypes, SubBounds

(* Every reachable state of the submission sessions is well typed: indices  *)
(* stay within the envelope, and the send log has one row at most for each  *)
(* session, message and recipient.                                          *)
THEOREM SubmissionTypeCorrect == SubmissionSpec => []SubmissionTypeOK
<1> DEFINE all == EnvelopeInv /\ IndexInv /\ SubCounted
<1>1. SubmissionInit => all
  BY SubInitial, QuotaInitial, SubCountInitial
<1>2. all /\ [SubmissionNext]_svars => all'
  BY EnvelopeStep, SubCountStep
<1>3. all => SubmissionTypeOK
  BY SubmissionTyped
<1> HIDE DEF all
<1>4. QED
  BY <1>1, <1>2, <1>3, PTL DEF SubmissionSpec

-----------------------------------------------------------------------------
(* Rooms *)

RoPcs == {"free", "assign", "insert user", "settle", "find", "create", "insert", "kill msgs", "kill row", "update", "kill floor"}
RoNames == FolderNames \cup RoomNames \cup {""}
RoTasks == [pc : RoPcs, msg : Parcels \cup {""}, name : RoNames, num : Nat, at : 0..MaxRooms, floor : Nat]
Places == [st : {"unused", "taken", "on", "gone"}, owner : Nat, name : RoNames, floor : Nat]
Excuses == [unfiled : SUBSET Parcels, deleted : SUBSET Parcels, orphan : SUBSET RoomNums, astray : SUBSET RoomNums]

RoTypes ==
    /\ usernum \in Nat /\ userSeq \in Nat /\ floorSeq \in Nat
    /\ place \in [RoomNums -> Places]
    /\ filed \subseteq RoomNums \X Parcels
    /\ floors \subseteq Nat /\ 0 \in floors
    /\ accepted \subseteq Parcels
    /\ carrier \in [Carriers -> RoTasks]
    /\ excuse \in Excuses

(* What a connection with task j knows, when the user's number is u and the *)
(* rooms are p.                                                             *)
Knows(j, u, p) ==
    /\ j.pc = "assign" \/ j.pc = "insert user" => j.msg \in Parcels
    /\ j.pc = "insert user" => j.num # 0
    /\ j.pc = "settle" => u # 0 /\ j.msg \in Parcels
    /\ j.pc \in {"find", "create"} => j.num = u /\ u # 0 /\ j.msg \in Parcels
    /\ j.pc \in {"create", "update", "insert", "kill msgs", "kill row"} => j.at \in RoomNums
    /\ j.pc \in {"insert", "kill msgs", "kill row"} => p[j.at].st \in {"on", "gone"}
    /\ j.pc = "insert" => j.msg \in Parcels
    /\ j.pc = "kill floor" => j.floor # 0

AllKnow == \A c \in Carriers : Knows(carrier[c], usernum, place)
Owned == \A r \in RoomNums : place[r].st \in {"on", "gone"} => place[r].owner = usernum /\ usernum # 0

(* From the moment its pointers are deleted, what is filed in a room is in  *)
(* one that a delivery crossed.                                             *)
FallingIsEmpty == \A r \in RoomNums : Falling(r) /\ (\E m \in Parcels : <<r, m>> \in filed) => r \in excuse.orphan

RoomsInv == RoTypes /\ AllKnow /\ Owned /\ FallingIsEmpty /\ AcceptedIsFoundUnlessRaced /\ FloorsHoldUnlessCrossed

LEMMA RoomsInitial == RoomsInit => RoomsInv
<1> SUFFICES ASSUME RoomsInit PROVE RoomsInv
  OBVIOUS
<1>1. NoPlace \in Places /\ Free \in RoTasks /\ 0 \in Nat
  BY RoomsBounds DEF NoPlace, Free, Places, RoTasks, RoPcs, RoNames
<1>2. place \in [RoomNums -> Places] /\ carrier \in [Carriers -> RoTasks]
      /\ (\A r \in RoomNums : place[r].st = "unused") /\ (\A c \in Carriers : carrier[c].pc = "free")
  BY <1>1 DEF RoomsInit, NoPlace, Free
<1>3. usernum = 0 /\ userSeq = 0 /\ filed = {} /\ floors = {0} /\ floorSeq = 0 /\ accepted = {} /\ excuse \in Excuses
  BY DEF RoomsInit, Excuses
<1>4. RoTypes
  BY <1>1, <1>2, <1>3 DEF RoTypes
<1>5. AllKnow /\ Owned /\ FallingIsEmpty
  BY <1>2, <1>3 DEF AllKnow, Knows, Owned, FallingIsEmpty
<1>6. AcceptedIsFoundUnlessRaced /\ FloorsHoldUnlessCrossed
  BY <1>2, <1>3 DEF AcceptedIsFoundUnlessRaced, FloorsHoldUnlessCrossed, Standing
<1>7. QED
  BY <1>4, <1>5, <1>6 DEF RoomsInv

(* What the others know stays true while the user keeps a number once there *)
(* is one and a room that was created stays created.                        *)
LEMMA KnowMoves ==
    ASSUME RoomsInv, NEW c \in Carriers, \A d \in Carriers \ {c} : carrier'[d] = carrier[d],
           usernum # 0 => usernum' = usernum,
           \A r \in RoomNums : place[r].st \in {"on", "gone"} => place'[r].st \in {"on", "gone"},
           Knows(carrier'[c], usernum', place')
    PROVE  AllKnow'
<1>1. ASSUME NEW d \in Carriers, d # c PROVE Knows(carrier'[d], usernum', place')
  <2>1. carrier'[d] = carrier[d] /\ Knows(carrier[d], usernum, place)
    BY <1>1 DEF RoomsInv, AllKnow
  <2>2. QED
    BY <2>1 DEF Knows
<1>2. QED
  BY <1>1 DEF AllKnow

(* A step of one connection that changes no row. *)
LEMMA TaskMoves ==
    ASSUME RoomsInv, NEW c \in Carriers, NEW k \in RoTasks, Turn(c, k), Knows(k, usernum, place), k.pc # "kill row",
           userSeq' \in Nat, UNCHANGED <<usernum, place, filed, floors, floorSeq, accepted, excuse>>
    PROVE  RoomsInv'
<1>1. RoTypes /\ carrier \in [Carriers -> RoTasks]
  BY DEF RoomsInv, RoTypes
<1>2. carrier' \in [Carriers -> RoTasks] /\ carrier'[c] = k /\ \A d \in Carriers \ {c} : carrier'[d] = carrier[d]
  BY <1>1 DEF Turn
<1>3. RoTypes'
  BY <1>1, <1>2 DEF RoTypes
<1>4. AllKnow'
  BY <1>2, KnowMoves
<1>5. \A r \in RoomNums : Falling(r)' => Falling(r)
  BY <1>2 DEF Falling
<1>6. FallingIsEmpty' /\ Owned'
  BY <1>5 DEF RoomsInv, FallingIsEmpty, Owned
<1>7. AcceptedIsFoundUnlessRaced' /\ FloorsHoldUnlessCrossed'
  BY DEF RoomsInv, AcceptedIsFoundUnlessRaced, FloorsHoldUnlessCrossed, Standing
<1>8. QED
  BY <1>3, <1>4, <1>6, <1>7 DEF RoomsInv

(* The tasks a connection takes up. *)
LEMMA TaskFree == Free \in RoTasks /\ Free.pc = "free" /\ Free.msg = "" /\ Free.at = 0 /\ \A u, p : Knows(Free, u, p)
<1>1. Free \in RoTasks /\ Free.pc = "free" /\ Free.msg = "" /\ Free.at = 0
  BY RoomsBounds DEF Free, RoTasks, RoPcs, RoNames
<1>2. QED
  BY <1>1 DEF Knows

LEMMA TaskPc ==
    ASSUME NEW j \in RoTasks, NEW pc \in RoPcs
    PROVE  LET k == [j EXCEPT !.pc = pc]
           IN  k \in RoTasks /\ k.pc = pc /\ k.msg = j.msg /\ k.name = j.name /\ k.num = j.num /\ k.at = j.at /\ k.floor = j.floor
BY DEF RoTasks

LEMMA ReadSteps ==
    ASSUME RoomsInv, NEW c \in Carriers,
           \/ \E m \in Parcels, f \in FolderNames : LocalDeliver(c, m, f)
           \/ AssignRead(c)
           \/ AssignSettled(c)
           \/ InsertFails(c)
           \/ \E r \in RoomNums : KillRoom(c, r)
           \/ \E r \in RoomNums, n \in RoomNames, f \in 0..floorSeq : UpdateRoom(c, r, n, f)
           \/ \E f \in floors : KillFloor(c, f)
    PROVE  RoomsInv'
<1> DEFINE j == carrier[c]
<1>1. RoTypes /\ j \in RoTasks /\ Knows(j, usernum, place)
  BY DEF RoomsInv, RoTypes, AllKnow
<1>2. RoPcs = {"free", "assign", "insert user", "settle", "find", "create", "insert", "kill msgs", "kill row", "update", "kill floor"}
  BY DEF RoPcs
<1>0. userSeq \in Nat /\ usernum \in Nat /\ floorSeq \in Nat
  BY <1>1 DEF RoTypes
<1>3. ASSUME NEW m \in Parcels, NEW f \in FolderNames, LocalDeliver(c, m, f) PROVE RoomsInv'
  <2> DEFINE k == [Free EXCEPT !.pc = "assign", !.msg = m, !.name = f]
  <2>1. k \in RoTasks /\ k.pc = "assign" /\ k.msg = m
    BY <1>2, TaskFree DEF RoTasks, RoNames
  <2>2. Turn(c, k) /\ UNCHANGED <<usernum, userSeq, place, filed, floors, floorSeq, accepted, excuse>>
    BY <1>3 DEF LocalDeliver
  <2> HIDE DEF k
  <2>3. Knows(k, usernum, place)
    BY <2>1 DEF Knows
  <2>4. QED
    BY <1>0, <2>1, <2>2, <2>3, TaskMoves
<1>4. CASE AssignRead(c) /\ usernum > 0
  <2> DEFINE k == [j EXCEPT !.pc = "find", !.num = usernum]
  <2>1. k \in RoTasks /\ k.pc = "find" /\ k.msg = j.msg /\ k.num = usernum
    BY <1>0, <1>1, <1>2 DEF RoTasks
  <2>2. Turn(c, k) /\ UNCHANGED <<usernum, userSeq, place, filed, floors, floorSeq, accepted, excuse>> /\ j.pc = "assign"
    BY <1>4 DEF AssignRead
  <2> HIDE DEF k, j
  <2>3. Knows(k, usernum, place)
    BY <1>0, <1>1, <1>4, <2>1, <2>2 DEF Knows
  <2>4. QED
    BY <1>0, <2>1, <2>2, <2>3, TaskMoves
<1>5. CASE AssignRead(c) /\ ~(usernum > 0)
  <2> DEFINE n == userSeq + 1
             k == [j EXCEPT !.pc = "insert user", !.num = n]
  <2>1. n \in Nat /\ n # 0
    BY <1>0
  <2>2. Turn(c, k) /\ userSeq' = n /\ UNCHANGED <<usernum, place, filed, floors, floorSeq, accepted, excuse>> /\ j.pc = "assign"
    BY <1>5 DEF AssignRead
  <2> HIDE DEF n
  <2>3. k \in RoTasks /\ k.pc = "insert user" /\ k.msg = j.msg /\ k.num = n
    BY <1>1, <1>2, <2>1 DEF RoTasks
  <2> HIDE DEF k, j
  <2>4. Knows(k, usernum, place)
    BY <1>1, <2>1, <2>2, <2>3 DEF Knows
  <2>5. QED
    BY <2>1, <2>2, <2>3, <2>4, TaskMoves
<1>6. CASE AssignSettled(c)
  <2> DEFINE k == [j EXCEPT !.pc = "find", !.num = usernum]
  <2>1. k \in RoTasks /\ k.pc = "find" /\ k.msg = j.msg /\ k.num = usernum
    BY <1>0, <1>1, <1>2 DEF RoTasks
  <2>2. Turn(c, k) /\ UNCHANGED <<usernum, userSeq, place, filed, floors, floorSeq, accepted, excuse>> /\ j.pc = "settle"
    BY <1>6 DEF AssignSettled
  <2> HIDE DEF k, j
  <2>3. Knows(k, usernum, place)
    BY <1>1, <2>1, <2>2 DEF Knows
  <2>4. QED
    BY <1>0, <2>1, <2>2, <2>3, TaskMoves
<1>7. CASE InsertFails(c)
  BY <1>0, <1>7, TaskFree, TaskMoves DEF InsertFails
<1>8. ASSUME NEW r \in RoomNums, KillRoom(c, r) PROVE RoomsInv'
  <2> DEFINE k == [Free EXCEPT !.pc = "kill msgs", !.at = r]
  <2>0. r \in 0..MaxRooms
    BY RoomsBounds DEF RoomNums
  <2>1. k \in RoTasks /\ k.pc = "kill msgs" /\ k.at = r
    BY <1>2, <2>0, TaskFree DEF RoTasks
  <2>2. Turn(c, k) /\ UNCHANGED <<usernum, userSeq, place, filed, floors, floorSeq, accepted, excuse>> /\ place[r].st = "on"
    BY <1>8 DEF KillRoom, Standing
  <2> HIDE DEF k
  <2>3. Knows(k, usernum, place)
    BY <2>1, <2>2 DEF Knows
  <2>4. QED
    BY <1>0, <2>1, <2>2, <2>3, TaskMoves
<1>9. ASSUME NEW r \in RoomNums, NEW n \in RoomNames, NEW f \in 0..floorSeq, UpdateRoom(c, r, n, f) PROVE RoomsInv'
  <2> DEFINE k == [Free EXCEPT !.pc = "update", !.at = r, !.name = n, !.floor = f]
  <2>0. r \in 0..MaxRooms /\ f \in Nat
    BY <1>0, RoomsBounds DEF RoomNums
  <2>1. k \in RoTasks /\ k.pc = "update" /\ k.at = r
    BY <1>2, <2>0, TaskFree DEF RoTasks, RoNames
  <2>2. Turn(c, k) /\ UNCHANGED <<usernum, userSeq, place, filed, floors, floorSeq, accepted, excuse>>
    BY <1>9 DEF UpdateRoom
  <2> HIDE DEF k
  <2>3. Knows(k, usernum, place)
    BY <2>1, <2>2 DEF Knows
  <2>4. QED
    BY <1>0, <2>1, <2>2, <2>3, TaskMoves
<1>10. ASSUME NEW f \in floors, KillFloor(c, f) PROVE RoomsInv'
  <2> DEFINE k == [Free EXCEPT !.pc = "kill floor", !.floor = f]
  <2>0. f \in Nat
    BY <1>1 DEF RoTypes
  <2>1. k \in RoTasks /\ k.pc = "kill floor" /\ k.floor = f
    BY <1>2, <2>0, TaskFree DEF RoTasks
  <2>2. Turn(c, k) /\ UNCHANGED <<usernum, userSeq, place, filed, floors, floorSeq, accepted, excuse>> /\ f # 0
    BY <1>10 DEF KillFloor
  <2> HIDE DEF k
  <2>3. Knows(k, usernum, place)
    BY <2>1, <2>2 DEF Knows
  <2>4. QED
    BY <1>0, <2>1, <2>2, <2>3, TaskMoves
<1>11. QED
  BY <1>3, <1>4, <1>5, <1>6, <1>7, <1>8, <1>9, <1>10

(* What a step of c does to its own task. *)
LEMMA TurnSet ==
    ASSUME RoTypes, NEW c \in Carriers, NEW k \in RoTasks, Turn(c, k)
    PROVE  carrier' \in [Carriers -> RoTasks] /\ carrier'[c] = k /\ \A d \in Carriers \ {c} : carrier'[d] = carrier[d]
BY DEF Turn, RoTypes

LEMMA AssignInsertStep == ASSUME RoomsInv, NEW c \in Carriers, AssignInsert(c) PROVE RoomsInv'
<1> DEFINE j == carrier[c]
           k == [j EXCEPT !.pc = "settle"]
<1>1. RoTypes /\ j \in RoTasks /\ Knows(j, usernum, place) /\ Owned
  BY DEF RoomsInv, RoTypes, AllKnow
<1>2. "settle" \in RoPcs
  BY DEF RoPcs
<1>3. /\ Turn(c, k) /\ j.pc = "insert user" /\ UNCHANGED <<userSeq, place, filed, floors, floorSeq, accepted, excuse>>
      /\ (usernum = 0 => usernum' = j.num) /\ (usernum # 0 => usernum' = usernum)
  BY DEF AssignInsert
<1>4. j.num \in Nat /\ j.num # 0 /\ j.msg \in Parcels
  BY <1>1, <1>3 DEF RoTasks, Knows
<1> HIDE DEF j
<1>5. k \in RoTasks /\ k.pc = "settle" /\ k.msg = j.msg
  BY <1>1, <1>2, TaskPc
<1> HIDE DEF k
<1>6. carrier' \in [Carriers -> RoTasks] /\ carrier'[c] = k /\ \A d \in Carriers \ {c} : carrier'[d] = carrier[d]
  BY <1>1, <1>3, <1>5, TurnSet
<1>7. usernum' \in Nat /\ usernum' # 0
  BY <1>1, <1>3, <1>4 DEF RoTypes
<1>8. RoTypes'
  BY <1>1, <1>3, <1>6, <1>7 DEF RoTypes
<1>9. AllKnow'
  <2>1. Knows(carrier'[c], usernum', place')
    BY <1>4, <1>5, <1>6, <1>7 DEF Knows
  <2>2. QED
    BY <1>3, <1>6, <2>1, KnowMoves
<1>10. Owned'
  BY <1>1, <1>3 DEF Owned
<1>11. FallingIsEmpty'
  <2>1. \A r \in RoomNums : Falling(r)' => Falling(r)
    BY <1>3, <1>5, <1>6 DEF Falling
  <2>2. QED
    BY <1>3, <2>1 DEF RoomsInv, FallingIsEmpty
<1>12. AcceptedIsFoundUnlessRaced'
  <2>1. \A r \in Standing : place[r].owner = usernum => place[r].owner = usernum'
    BY <1>1, <1>3 DEF Owned, Standing
  <2>2. Standing' = Standing
    BY <1>3 DEF Standing
  <2>3. QED
    BY <1>3, <2>1, <2>2 DEF RoomsInv, AcceptedIsFoundUnlessRaced
<1>13. FloorsHoldUnlessCrossed'
  BY <1>3 DEF RoomsInv, FloorsHoldUnlessCrossed, Standing
<1>14. QED
  BY <1>8, <1>9, <1>10, <1>11, <1>12, <1>13 DEF RoomsInv

LEMMA FindRoomStep == ASSUME RoomsInv, NEW c \in Carriers, FindRoom(c) PROVE RoomsInv'
<1> DEFINE j == carrier[c]
<1>1. RoTypes /\ j \in RoTasks /\ Knows(j, usernum, place) /\ Owned
  BY DEF RoomsInv, RoTypes, AllKnow
<1>2. "insert" \in RoPcs /\ "create" \in RoPcs
  BY DEF RoPcs
<1>3. j.pc = "find" /\ UNCHANGED <<usernum, userSeq, filed, floors, floorSeq, accepted, excuse>>
  BY DEF FindRoom
<1>4. ASSUME NEW r \in Keyed(j.num, j.name), Turn(c, [j EXCEPT !.pc = "insert", !.at = r]), UNCHANGED place PROVE RoomsInv'
  <2> DEFINE k == [j EXCEPT !.pc = "insert", !.at = r]
  <2>1. r \in RoomNums /\ place[r].st = "on" /\ j.msg \in Parcels
    BY <1>1, <1>3 DEF Keyed, Standing, Knows
  <2>2. k \in RoTasks /\ k.pc = "insert" /\ k.at = r /\ k.msg = j.msg /\ Turn(c, k)
    <3> HIDE DEF j
    <3>1. r \in 0..MaxRooms
      BY <2>1, RoomsBounds DEF RoomNums
    <3>2. QED
      BY <1>1, <1>2, <1>4, <3>1 DEF RoTasks
  <2> HIDE DEF k
  <2>3. Knows(k, usernum, place)
    BY <2>1, <2>2 DEF Knows
  <2>4. userSeq' \in Nat
    BY <1>1, <1>3 DEF RoTypes
  <2>5. QED
    BY <1>3, <1>4, <2>2, <2>3, <2>4, TaskMoves
<1>5. ASSUME NEW r \in RoomNums, NextRoom(r), place' = [place EXCEPT ![r].st = "taken"], Turn(c, [j EXCEPT !.pc = "create", !.at = r])
      PROVE  RoomsInv'
  <2> DEFINE k == [j EXCEPT !.pc = "create", !.at = r]
  <2>1. place[r].st = "unused" /\ place[r] \in Places /\ place \in [RoomNums -> Places]
    BY <1>1, <1>5 DEF NextRoom, RoTypes
  <2>2. place' \in [RoomNums -> Places] /\ place'[r].st = "taken" /\ \A q \in RoomNums \ {r} : place'[q] = place[q]
    BY <1>5, <2>1 DEF Places
  <2>3. j.msg \in Parcels /\ j.num = usernum /\ usernum # 0
    BY <1>1, <1>3 DEF Knows
  <2>4. k \in RoTasks /\ k.pc = "create" /\ k.at = r /\ k.msg = j.msg /\ k.num = j.num /\ Turn(c, k)
    <3> HIDE DEF j
    <3>1. r \in 0..MaxRooms
      BY RoomsBounds DEF RoomNums
    <3>2. QED
      BY <1>1, <1>2, <1>5, <3>1 DEF RoTasks
  <2> HIDE DEF k, j
  <2>5. carrier' \in [Carriers -> RoTasks] /\ carrier'[c] = k /\ \A d \in Carriers \ {c} : carrier'[d] = carrier[d]
    BY <1>1, <2>4, TurnSet
  <2>6. RoTypes'
    BY <1>1, <1>3, <2>2, <2>5 DEF RoTypes
  <2>7. AllKnow'
    <3>1. Knows(carrier'[c], usernum', place')
      BY <1>3, <2>3, <2>4, <2>5 DEF Knows
    <3>2. \A q \in RoomNums : place[q].st \in {"on", "gone"} => place'[q].st \in {"on", "gone"}
      BY <2>1, <2>2
    <3>3. QED
      BY <1>3, <2>5, <3>1, <3>2, KnowMoves
  <2>8. Owned'
    BY <1>1, <1>3, <2>2 DEF Owned
  <2>9. FallingIsEmpty'
    <3>1. \A q \in RoomNums : Falling(q)' => Falling(q)
      BY <2>2, <2>4, <2>5 DEF Falling
    <3>2. QED
      BY <1>3, <3>1 DEF RoomsInv, FallingIsEmpty
  <2>10. Standing' = Standing /\ \A q \in Standing : place'[q] = place[q]
    BY <2>1, <2>2 DEF Standing
  <2>11. AcceptedIsFoundUnlessRaced' /\ FloorsHoldUnlessCrossed'
    BY <1>3, <2>10 DEF RoomsInv, AcceptedIsFoundUnlessRaced, FloorsHoldUnlessCrossed
  <2>12. QED
    BY <2>6, <2>7, <2>8, <2>9, <2>11 DEF RoomsInv
<1>6. QED
  BY <1>4, <1>5 DEF FindRoom

LEMMA CreateRoomStep == ASSUME RoomsInv, NEW c \in Carriers, CreateRoom(c) PROVE RoomsInv'
<1> DEFINE j == carrier[c]
           r == j.at
<1>1. RoTypes /\ j \in RoTasks /\ Knows(j, usernum, place) /\ Owned
  BY DEF RoomsInv, RoTypes, AllKnow
<1>2. "insert" \in RoPcs
  BY DEF RoPcs
<1>3. j.pc = "create" /\ UNCHANGED <<usernum, userSeq, filed, floors, floorSeq>>
  BY DEF CreateRoom
<1>4. r \in RoomNums /\ j.msg \in Parcels /\ j.num = usernum /\ usernum # 0
  BY <1>1, <1>3 DEF Knows
<1>5. CASE place' = [place EXCEPT ![r] = [st |-> "on", owner |-> j.num, name |-> j.name, floor |-> 0]]
           /\ Turn(c, [j EXCEPT !.pc = "insert"]) /\ UNCHANGED <<accepted, excuse>>
  <2> DEFINE k == [j EXCEPT !.pc = "insert"]
             p == [st |-> "on", owner |-> j.num, name |-> j.name, floor |-> 0]
  <2>1. p \in Places /\ p.st = "on" /\ p.owner = usernum /\ p.floor = 0
    BY <1>1, <1>4 DEF RoTasks, Places
  <2>2. k \in RoTasks /\ k.pc = "insert" /\ k.at = r /\ k.msg = j.msg /\ Turn(c, k)
    <3> HIDE DEF j
    <3>1. QED
      BY <1>1, <1>2, <1>5, TaskPc
  <2>3. place' = [place EXCEPT ![r] = p]
    BY <1>5
  <2> HIDE DEF k, p, j, r
  <2>4. place' \in [RoomNums -> Places] /\ place'[r] = p /\ \A q \in RoomNums \ {r} : place'[q] = place[q]
    BY <1>1, <1>4, <2>1, <2>3 DEF RoTypes
  <2>5. carrier' \in [Carriers -> RoTasks] /\ carrier'[c] = k /\ \A d \in Carriers \ {c} : carrier'[d] = carrier[d]
    BY <1>1, <2>2, TurnSet
  <2>6. RoTypes'
    BY <1>1, <1>3, <1>5, <2>4, <2>5 DEF RoTypes
  <2>7. AllKnow'
    <3>1. Knows(carrier'[c], usernum', place')
      BY <1>4, <2>1, <2>2, <2>4, <2>5 DEF Knows
    <3>2. \A q \in RoomNums : place[q].st \in {"on", "gone"} => place'[q].st \in {"on", "gone"}
      BY <2>1, <2>4
    <3>3. QED
      BY <1>3, <2>5, <3>1, <3>2, KnowMoves
  <2>8. Owned'
    BY <1>1, <1>3, <1>4, <2>1, <2>4 DEF Owned
  <2>9. FallingIsEmpty'
    <3>1. \A q \in RoomNums : Falling(q)' => Falling(q)
      BY <2>1, <2>2, <2>4, <2>5 DEF Falling
    <3>2. QED
      BY <1>3, <1>5, <3>1 DEF RoomsInv, FallingIsEmpty
  <2>10. \A q \in Standing : q \in Standing' /\ (place[q].owner = usernum => place'[q].owner = usernum)
    BY <2>1, <2>4 DEF Standing
  <2>11. AcceptedIsFoundUnlessRaced'
    BY <1>3, <1>5, <2>10 DEF RoomsInv, AcceptedIsFoundUnlessRaced
  <2>12. FloorsHoldUnlessCrossed'
    <3>1. \A q \in Standing' : q = r \/ (q \in Standing /\ place'[q] = place[q])
      BY <2>4 DEF Standing
    <3>2. 0 \in floors'
      BY <1>1, <1>3 DEF RoTypes
    <3>3. QED
      BY <1>3, <1>5, <2>1, <2>4, <3>1, <3>2 DEF RoomsInv, FloorsHoldUnlessCrossed
  <2>13. QED
    BY <2>6, <2>7, <2>8, <2>9, <2>11, <2>12 DEF RoomsInv
<1>6. CASE accepted' = accepted \cup {j.msg} /\ excuse' = [excuse EXCEPT !.unfiled = @ \cup {j.msg}] /\ Turn(c, Free) /\ UNCHANGED place
  <2> DEFINE m == j.msg
  <2>1. m \in Parcels
    BY <1>4
  <2>2. accepted' = accepted \cup {m} /\ excuse' = [excuse EXCEPT !.unfiled = @ \cup {m}]
    BY <1>6
  <2> HIDE DEF m, j, r
  <2>3. /\ excuse' \in Excuses /\ excuse'.unfiled = excuse.unfiled \cup {m} /\ excuse'.deleted = excuse.deleted
        /\ excuse'.orphan = excuse.orphan /\ excuse'.astray = excuse.astray
    <3>1. excuse \in Excuses
      BY <1>1 DEF RoTypes
    <3>2. QED
      BY <2>1, <2>2, <3>1 DEF Excuses
  <2>4. carrier' \in [Carriers -> RoTasks] /\ carrier'[c] = Free /\ \A d \in Carriers \ {c} : carrier'[d] = carrier[d]
    BY <1>1, <1>6, TurnSet, TaskFree
  <2>5. RoTypes'
    BY <1>1, <1>3, <1>6, <2>1, <2>2, <2>3, <2>4 DEF RoTypes
  <2>6. AllKnow'
    BY <1>3, <1>6, <2>4, TaskFree, KnowMoves
  <2>7. Owned'
    BY <1>1, <1>3, <1>6 DEF Owned
  <2>8. FallingIsEmpty'
    <3>1. \A q \in RoomNums : Falling(q)' => Falling(q)
      BY <1>6, <2>4, TaskFree DEF Falling
    <3>2. QED
      BY <1>3, <2>3, <3>1 DEF RoomsInv, FallingIsEmpty
  <2>9. Standing' = Standing
    BY <1>6 DEF Standing
  <2>10. AcceptedIsFoundUnlessRaced'
    BY <1>3, <1>6, <2>2, <2>3, <2>9 DEF RoomsInv, AcceptedIsFoundUnlessRaced
  <2>11. FloorsHoldUnlessCrossed'
    BY <1>3, <1>6, <2>3, <2>9 DEF RoomsInv, FloorsHoldUnlessCrossed
  <2>12. QED
    BY <2>5, <2>6, <2>7, <2>8, <2>10, <2>11 DEF RoomsInv
<1>7. QED
  BY <1>5, <1>6 DEF CreateRoom

LEMMA InsertMessageStep == ASSUME RoomsInv, NEW c \in Carriers, InsertMessage(c) PROVE RoomsInv'
<1> DEFINE j == carrier[c]
           r == j.at
           m == j.msg
           more == IF Falling(r) THEN excuse.orphan \cup {r} ELSE excuse.orphan
<1>1. RoTypes /\ j \in RoTasks /\ Knows(j, usernum, place) /\ Owned /\ excuse \in Excuses
  BY DEF RoomsInv, RoTypes, AllKnow
<1>2. /\ j.pc = "insert" /\ UNCHANGED <<usernum, userSeq, place, floors, floorSeq>> /\ filed' = filed \cup {<<r, m>>}
      /\ accepted' = accepted \cup {m} /\ excuse' = [excuse EXCEPT !.orphan = more] /\ Turn(c, Free)
  BY DEF InsertMessage
<1>3. r \in RoomNums /\ m \in Parcels /\ place[r].st \in {"on", "gone"}
  BY <1>1, <1>2 DEF Knows
<1>4. more \subseteq RoomNums /\ excuse.orphan \subseteq more /\ (Falling(r) => r \in more)
  BY <1>1, <1>3 DEF Excuses
<1> HIDE DEF j, r, m, more
<1>5. /\ excuse' \in Excuses /\ excuse'.unfiled = excuse.unfiled /\ excuse'.deleted = excuse.deleted
      /\ excuse'.orphan = more /\ excuse'.astray = excuse.astray
  BY <1>1, <1>2, <1>4 DEF Excuses
<1>6. carrier' \in [Carriers -> RoTasks] /\ carrier'[c] = Free /\ \A d \in Carriers \ {c} : carrier'[d] = carrier[d]
  BY <1>1, <1>2, TurnSet, TaskFree
<1>7. RoTypes'
  BY <1>1, <1>2, <1>3, <1>5, <1>6 DEF RoTypes
<1>8. AllKnow'
  BY <1>2, <1>6, TaskFree, KnowMoves
<1>9. Owned'
  BY <1>1, <1>2 DEF Owned
<1>10. FallingIsEmpty'
  <2>1. \A q \in RoomNums : Falling(q)' => Falling(q)
    BY <1>2, <1>6, TaskFree DEF Falling
  <2>2. QED
    BY <1>2, <1>4, <1>5, <2>1 DEF RoomsInv, FallingIsEmpty
<1>11. AcceptedIsFoundUnlessRaced'
  <2>1. Standing' = Standing
    BY <1>2 DEF Standing
  <2>2. r \in excuse'.orphan \/ (r \in Standing' /\ place'[r].owner = usernum')
    BY <1>1, <1>2, <1>3, <1>4, <1>5, <2>1 DEF Falling, Owned, Standing
  <2>3. QED
    BY <1>2, <1>3, <1>4, <1>5, <2>1, <2>2 DEF RoomsInv, AcceptedIsFoundUnlessRaced
<1>12. FloorsHoldUnlessCrossed'
  BY <1>2, <1>5 DEF RoomsInv, FloorsHoldUnlessCrossed, Standing
<1>13. QED
  BY <1>7, <1>8, <1>9, <1>10, <1>11, <1>12 DEF RoomsInv

LEMMA KillPointersStep == ASSUME RoomsInv, NEW c \in Carriers, KillPointers(c) PROVE RoomsInv'
<1> DEFINE j == carrier[c]
           r == j.at
           here == {m \in Parcels : <<r, m>> \in filed}
           k == [j EXCEPT !.pc = "kill row"]
           gone == excuse.deleted \cup here
           left == filed \ {<<r, m>> : m \in here}
<1>1. RoTypes /\ j \in RoTasks /\ Knows(j, usernum, place) /\ Owned /\ excuse \in Excuses
  BY DEF RoomsInv, RoTypes, AllKnow
<1>2. /\ j.pc = "kill msgs" /\ UNCHANGED <<usernum, userSeq, place, floors, floorSeq, accepted>>
      /\ filed' = left /\ excuse' = [excuse EXCEPT !.deleted = gone] /\ Turn(c, k)
  BY DEF KillPointers
<1>3. r \in RoomNums /\ place[r].st \in {"on", "gone"} /\ gone \subseteq Parcels /\ excuse.deleted \subseteq gone
  BY <1>1, <1>2 DEF Knows, Excuses
<1>4. "kill row" \in RoPcs
  BY DEF RoPcs
<1>5. left \subseteq filed /\ (\A m \in Parcels : <<r, m>> \notin left) /\ (\A q \in RoomNums \ {r}, m \in Parcels : <<q, m>> \in filed => <<q, m>> \in left)
      /\ (\A m \in Parcels : <<r, m>> \in filed => m \in gone)
  OBVIOUS
<1> HIDE DEF gone, left, here
<1>6. k \in RoTasks /\ k.pc = "kill row" /\ k.at = r
  <2> HIDE DEF j
  <2>1. QED
    BY <1>1, <1>4, TaskPc
<1> HIDE DEF k, j, r
<1>7. carrier' \in [Carriers -> RoTasks] /\ carrier'[c] = k /\ \A d \in Carriers \ {c} : carrier'[d] = carrier[d]
  BY <1>1, <1>2, <1>6, TurnSet
<1>8. /\ excuse' \in Excuses /\ excuse'.unfiled = excuse.unfiled /\ excuse'.deleted = gone
      /\ excuse'.orphan = excuse.orphan /\ excuse'.astray = excuse.astray
  BY <1>1, <1>2, <1>3 DEF Excuses
<1>9. RoTypes'
  BY <1>1, <1>2, <1>5, <1>7, <1>8 DEF RoTypes
<1>10. AllKnow'
  <2>1. Knows(carrier'[c], usernum', place')
    BY <1>2, <1>3, <1>6, <1>7 DEF Knows
  <2>2. QED
    BY <1>2, <1>7, <2>1, KnowMoves
<1>11. Owned'
  BY <1>1, <1>2 DEF Owned
<1>12. FallingIsEmpty'
  <2>1. \A q \in RoomNums \ {r} : Falling(q)' => Falling(q)
    BY <1>2, <1>6, <1>7 DEF Falling
  <2>2. \A m \in Parcels : <<r, m>> \notin filed'
    BY <1>2, <1>5
  <2>3. QED
    BY <1>2, <1>5, <1>8, <2>1, <2>2 DEF RoomsInv, FallingIsEmpty
<1>13. Standing' = Standing
  BY <1>2 DEF Standing
<1>14. AcceptedIsFoundUnlessRaced'
  <2> SUFFICES ASSUME NEW m \in accepted
               PROVE  \/ m \in excuse'.unfiled \cup excuse'.deleted
                      \/ \E q \in RoomNums : <<q, m>> \in filed' /\ (q \in excuse'.orphan \/ (q \in Standing' /\ place'[q].owner = usernum'))
    BY <1>2 DEF AcceptedIsFoundUnlessRaced
  <2>1. m \in Parcels
    BY <1>1 DEF RoTypes
  <2>2. \/ m \in excuse.unfiled \cup excuse.deleted
        \/ \E q \in RoomNums : <<q, m>> \in filed /\ (q \in excuse.orphan \/ (q \in Standing /\ place[q].owner = usernum))
    BY DEF RoomsInv, AcceptedIsFoundUnlessRaced
  <2>3. QED
    BY <1>2, <1>3, <1>5, <1>8, <1>13, <2>1, <2>2
<1>15. FloorsHoldUnlessCrossed'
  BY <1>2, <1>8, <1>13 DEF RoomsInv, FloorsHoldUnlessCrossed
<1>16. QED
  BY <1>9, <1>10, <1>11, <1>12, <1>14, <1>15 DEF RoomsInv

LEMMA KillRowStep == ASSUME RoomsInv, NEW c \in Carriers, KillRow(c) PROVE RoomsInv'
<1> DEFINE j == carrier[c]
           r == j.at
<1>1. RoTypes /\ j \in RoTasks /\ Knows(j, usernum, place) /\ Owned /\ place \in [RoomNums -> Places]
  BY DEF RoomsInv, RoTypes, AllKnow
<1>2. /\ j.pc = "kill row" /\ UNCHANGED <<usernum, userSeq, filed, floors, floorSeq, accepted, excuse>>
      /\ place' = [place EXCEPT ![r].st = "gone"] /\ Turn(c, Free)
  BY DEF KillRow
<1>3. r \in RoomNums /\ place[r].st \in {"on", "gone"} /\ Falling(r)
  BY <1>1, <1>2 DEF Knows, Falling
<1> HIDE DEF j, r
<1>4. place' \in [RoomNums -> Places] /\ place'[r].st = "gone" /\ place'[r].owner = place[r].owner /\ \A q \in RoomNums \ {r} : place'[q] = place[q]
  BY <1>1, <1>2, <1>3 DEF Places
<1>5. carrier' \in [Carriers -> RoTasks] /\ carrier'[c] = Free /\ \A d \in Carriers \ {c} : carrier'[d] = carrier[d]
  BY <1>1, <1>2, TurnSet, TaskFree
<1>6. RoTypes'
  BY <1>1, <1>2, <1>4, <1>5 DEF RoTypes
<1>7. AllKnow'
  <2>1. \A q \in RoomNums : place[q].st \in {"on", "gone"} => place'[q].st \in {"on", "gone"}
    BY <1>4
  <2>2. QED
    BY <1>2, <1>5, <2>1, TaskFree, KnowMoves
<1>8. Owned'
  BY <1>1, <1>2, <1>3, <1>4 DEF Owned
<1>9. FallingIsEmpty'
  <2>1. \A q \in RoomNums : Falling(q)' => Falling(q)
    BY <1>3, <1>4, <1>5, TaskFree DEF Falling
  <2>2. QED
    BY <1>2, <2>1 DEF RoomsInv, FallingIsEmpty
<1>10. Standing' = Standing \ {r}
  BY <1>4 DEF Standing
<1>11. AcceptedIsFoundUnlessRaced'
  <2> SUFFICES ASSUME NEW m \in accepted
               PROVE  \/ m \in excuse.unfiled \cup excuse.deleted
                      \/ \E q \in RoomNums : <<q, m>> \in filed /\ (q \in excuse.orphan \/ (q \in Standing' /\ place'[q].owner = usernum))
    BY <1>2 DEF AcceptedIsFoundUnlessRaced
  <2>1. m \in Parcels
    BY <1>1 DEF RoTypes
  <2>2. <<r, m>> \in filed => r \in excuse.orphan
    BY <1>3, <2>1 DEF RoomsInv, FallingIsEmpty
  <2>3. \/ m \in excuse.unfiled \cup excuse.deleted
        \/ \E q \in RoomNums : <<q, m>> \in filed /\ (q \in excuse.orphan \/ (q \in Standing /\ place[q].owner = usernum))
    BY DEF RoomsInv, AcceptedIsFoundUnlessRaced
  <2>4. QED
    BY <1>3, <1>4, <1>10, <2>2, <2>3
<1>12. FloorsHoldUnlessCrossed'
  BY <1>2, <1>4, <1>10 DEF RoomsInv, FloorsHoldUnlessCrossed, Standing
<1>13. QED
  BY <1>6, <1>7, <1>8, <1>9, <1>11, <1>12 DEF RoomsInv

LEMMA UpdateRowStep == ASSUME RoomsInv, NEW c \in Carriers, UpdateRow(c) PROVE RoomsInv'
<1> DEFINE j == carrier[c]
           r == j.at
           ok == place[r].st = "on" /\ Keyed(place[r].owner, j.name) \subseteq {r}
           lost == IF ok /\ j.floor \notin floors THEN excuse.astray \cup {r} ELSE excuse.astray
<1>1. RoTypes /\ j \in RoTasks /\ Knows(j, usernum, place) /\ Owned /\ place \in [RoomNums -> Places] /\ excuse \in Excuses
  BY DEF RoomsInv, RoTypes, AllKnow
<1>2. /\ j.pc = "update" /\ UNCHANGED <<usernum, userSeq, filed, floors, floorSeq, accepted>>
      /\ place' = IF ok THEN [place EXCEPT ![r].name = j.name, ![r].floor = j.floor] ELSE place
      /\ excuse' = [excuse EXCEPT !.astray = lost] /\ Turn(c, Free)
  BY DEF UpdateRow
<1>3. r \in RoomNums /\ j.name \in RoNames /\ j.floor \in Nat
  BY <1>1, <1>2 DEF Knows, RoTasks
<1>4. lost \subseteq RoomNums /\ excuse.astray \subseteq lost /\ (ok /\ j.floor \notin floors => r \in lost)
  BY <1>1, <1>3 DEF Excuses
<1>5. place' \in [RoomNums -> Places] /\ \A q \in RoomNums : /\ place'[q].st = place[q].st /\ place'[q].owner = place[q].owner
                                                             /\ place'[q].floor = place[q].floor \/ (ok /\ q = r /\ place'[q].floor = j.floor)
  <2>1. CASE ok
    <3> DEFINE n == j.name
               f == j.floor
               half == [place EXCEPT ![r].name = n]
    <3>1. place' = [half EXCEPT ![r].floor = f]
      BY <1>1, <1>2, <2>1, <1>3
    <3> HIDE DEF ok, j, r
    <3>2. n \in RoNames /\ f \in Nat
      BY <1>3
    <3> HIDE DEF n, f
    <3>3. half \in [RoomNums -> Places] /\ \A q \in RoomNums : half[q].st = place[q].st /\ half[q].owner = place[q].owner /\ half[q].floor = place[q].floor
      BY <1>1, <1>3, <3>2 DEF Places
    <3> HIDE DEF half
    <3>4. place' \in [RoomNums -> Places] /\ \A q \in RoomNums : /\ place'[q].st = half[q].st /\ place'[q].owner = half[q].owner
                                                                 /\ place'[q].floor = half[q].floor \/ (q = r /\ place'[q].floor = f)
      BY <1>3, <3>1, <3>2, <3>3 DEF Places
    <3>5. QED
      BY <2>1, <3>3, <3>4 DEF f
  <2>2. CASE ~ok
    BY <1>1, <1>2, <2>2
  <2>3. QED
    BY <2>1, <2>2
<1> HIDE DEF ok, lost, j, r
<1>6. /\ excuse' \in Excuses /\ excuse'.unfiled = excuse.unfiled /\ excuse'.deleted = excuse.deleted
      /\ excuse'.orphan = excuse.orphan /\ excuse'.astray = lost
  BY <1>1, <1>2, <1>4 DEF Excuses
<1>7. carrier' \in [Carriers -> RoTasks] /\ carrier'[c] = Free /\ \A d \in Carriers \ {c} : carrier'[d] = carrier[d]
  BY <1>1, <1>2, TurnSet, TaskFree
<1>8. RoTypes'
  BY <1>1, <1>2, <1>5, <1>6, <1>7 DEF RoTypes
<1>9. AllKnow'
  BY <1>2, <1>5, <1>7, TaskFree, KnowMoves
<1>10. Owned'
  BY <1>1, <1>2, <1>5 DEF Owned
<1>11. FallingIsEmpty'
  <2>1. \A q \in RoomNums : Falling(q)' => Falling(q)
    BY <1>5, <1>7, TaskFree DEF Falling
  <2>2. QED
    BY <1>2, <1>6, <2>1 DEF RoomsInv, FallingIsEmpty
<1>12. Standing' = Standing
  BY <1>5 DEF Standing
<1>13. AcceptedIsFoundUnlessRaced'
  BY <1>2, <1>5, <1>6, <1>12 DEF RoomsInv, AcceptedIsFoundUnlessRaced
<1>14. FloorsHoldUnlessCrossed'
  BY <1>2, <1>4, <1>5, <1>6, <1>12 DEF RoomsInv, FloorsHoldUnlessCrossed, Standing
<1>15. QED
  BY <1>8, <1>9, <1>10, <1>11, <1>13, <1>14 DEF RoomsInv

LEMMA FloorSteps == ASSUME RoomsInv, CreateFloor \/ \E c \in Carriers : KillFloorRow(c) PROVE RoomsInv'
<1>1. RoTypes /\ AllKnow /\ Owned /\ excuse \in Excuses
  BY DEF RoomsInv, RoTypes
<1>2. CASE CreateFloor
  <2>1. floorSeq + 1 \in Nat /\ UNCHANGED <<usernum, userSeq, place, filed, accepted, carrier, excuse>>
        /\ floors' = floors \cup {floorSeq + 1} /\ floorSeq' = floorSeq + 1
    BY <1>1, <1>2 DEF CreateFloor, RoTypes
  <2>2. RoTypes' /\ AllKnow' /\ Owned'
    BY <1>1, <2>1 DEF RoTypes, AllKnow, Owned
  <2>3. FallingIsEmpty' /\ AcceptedIsFoundUnlessRaced' /\ FloorsHoldUnlessCrossed'
    BY <2>1 DEF RoomsInv, FallingIsEmpty, Falling, AcceptedIsFoundUnlessRaced, FloorsHoldUnlessCrossed, Standing
  <2>4. QED
    BY <2>2, <2>3 DEF RoomsInv
<1>3. ASSUME NEW c \in Carriers, KillFloorRow(c) PROVE RoomsInv'
  <2> DEFINE f == carrier[c].floor
             lost == excuse.astray \cup {r \in Standing : place[r].floor = f}
  <2>1. f # 0 /\ UNCHANGED <<usernum, userSeq, place, filed, floorSeq, accepted>> /\ floors' = floors \ {f}
        /\ excuse' = [excuse EXCEPT !.astray = lost] /\ Turn(c, Free)
    BY <1>1, <1>3 DEF KillFloorRow, AllKnow, Knows
  <2>2. lost \subseteq RoomNums /\ excuse.astray \subseteq lost /\ \A r \in Standing : place[r].floor = f => r \in lost
    BY <1>1 DEF Excuses, Standing
  <2> HIDE DEF f, lost
  <2>3. /\ excuse' \in Excuses /\ excuse'.unfiled = excuse.unfiled /\ excuse'.deleted = excuse.deleted
        /\ excuse'.orphan = excuse.orphan /\ excuse'.astray = lost
    BY <1>1, <2>1, <2>2 DEF Excuses
  <2>4. carrier' \in [Carriers -> RoTasks] /\ carrier'[c] = Free /\ \A d \in Carriers \ {c} : carrier'[d] = carrier[d]
    BY <1>1, <2>1, TurnSet, TaskFree
  <2>5. RoTypes'
    BY <1>1, <2>1, <2>3, <2>4 DEF RoTypes
  <2>6. AllKnow' /\ Owned'
    BY <1>1, <2>1, <2>4, TaskFree, KnowMoves DEF Owned
  <2>7. Standing' = Standing /\ \A q \in RoomNums : Falling(q)' => Falling(q)
    BY <2>1, <2>4, TaskFree DEF Standing, Falling
  <2>8. FallingIsEmpty' /\ AcceptedIsFoundUnlessRaced'
    BY <2>1, <2>3, <2>7 DEF RoomsInv, FallingIsEmpty, AcceptedIsFoundUnlessRaced
  <2>9. FloorsHoldUnlessCrossed'
    BY <2>1, <2>2, <2>3, <2>7 DEF RoomsInv, FloorsHoldUnlessCrossed
  <2>10. QED
    BY <2>5, <2>6, <2>8, <2>9 DEF RoomsInv
<1>4. QED
  BY <1>2, <1>3

LEMMA RoomsStep == RoomsInv /\ [RoomsNext]_rvars => RoomsInv'
<1> SUFFICES ASSUME RoomsInv, [RoomsNext]_rvars PROVE RoomsInv'
  OBVIOUS
<1>1. ASSUME NEW c \in Carriers, CarrierStep(c) PROVE RoomsInv'
  BY <1>1, ReadSteps, AssignInsertStep, FindRoomStep, CreateRoomStep, InsertMessageStep, KillPointersStep, KillRowStep, UpdateRowStep, FloorSteps
     DEF CarrierStep
<1>2. CASE UNCHANGED rvars
  BY <1>2 DEF rvars, RoomsInv, RoTypes, AllKnow, Owned, FallingIsEmpty, Falling, AcceptedIsFoundUnlessRaced, FloorsHoldUnlessCrossed, Standing
<1>3. QED
  BY <1>1, <1>2, FloorSteps DEF RoomsNext

(* For any number of connections, messages, folders, rooms and floors: what *)
(* is accepted is in a room its owner finds unless it was raced, nothing    *)
(* stays under a deleted room's number unless it was written across the     *)
(* deletion, and no room is on a missing floor unless the two crossed.      *)
THEOREM RoomsAreAlwaysSound == RoomsSpec => []RoomsAreSound
<1>1. RoomsInv => RoomsAreSound
  BY DEF RoomsInv, RoomsAreSound, NoLeftoversUnlessCrossed, FallingIsEmpty, Falling
<1>2. QED
  BY <1>1, RoomsInitial, RoomsStep, PTL DEF RoomsSpec

(* The numbers of users and floors that rooms and deliveries carry were     *)
(* drawn from their sequences, and the sequences keep to their bounds.      *)
Numbered(t) == t.num <= userSeq /\ t.floor <= floorSeq
RoCounted ==
    /\ usernum <= userSeq /\ userSeq <= MaxUserNum /\ floorSeq <= MaxFloor
    /\ floors \subseteq 0..floorSeq
    /\ \A r \in RoomNums : place[r].owner <= userSeq /\ place[r].floor <= floorSeq
    /\ \A c \in Carriers : Numbered(carrier[c])

(* A step of one connection that takes up task k, draws no floor and puts   *)
(* nothing into a room that was not drawn.                                  *)
LEMMA CountKept ==
    ASSUME RoTypes, RoTypes', RoCounted, NEW c \in Carriers, NEW k \in RoTasks, Turn(c, k),
           userSeq <= userSeq', userSeq' <= MaxUserNum, usernum' <= userSeq', UNCHANGED floorSeq, floors' \subseteq floors,
           k.num <= userSeq', k.floor <= floorSeq,
           \A r \in RoomNums : place'[r].owner <= userSeq' /\ place'[r].floor <= floorSeq
    PROVE  RoCounted'
<1>1. userSeq \in Nat /\ userSeq' \in Nat /\ \A d \in Carriers : carrier[d].num \in Nat
  BY DEF RoTypes, RoTasks
<1>2. \A d \in Carriers \ {c} : carrier'[d].num <= userSeq' /\ carrier'[d].floor <= floorSeq'
  BY <1>1, TurnSet DEF RoCounted, Numbered
<1>3. carrier'[c].num <= userSeq' /\ carrier'[c].floor <= floorSeq'
  BY TurnSet
<1>4. \A d \in Carriers : Numbered(carrier[d])'
  BY <1>2, <1>3 DEF Numbered
<1>5. floors' \subseteq 0..floorSeq' /\ floorSeq' <= MaxFloor
  BY DEF RoCounted
<1>6. QED
  BY <1>4, <1>5 DEF RoCounted

LEMMA CountStep == RoomsInv /\ RoCounted /\ [RoomsNext]_rvars => RoCounted'
<1> SUFFICES ASSUME RoomsInv, RoCounted, [RoomsNext]_rvars PROVE RoCounted'
  OBVIOUS
<1>1. RoTypes /\ RoTypes'
  BY RoomsStep DEF RoomsInv
<1>2. /\ userSeq \in Nat /\ usernum \in Nat /\ floorSeq \in Nat /\ place \in [RoomNums -> Places]
      /\ \A c \in Carriers : carrier[c] \in RoTasks /\ carrier[c].num \in Nat /\ carrier[c].floor \in Nat
  BY <1>1 DEF RoTypes, RoTasks
<1>3. /\ usernum <= userSeq /\ userSeq <= MaxUserNum /\ floors \subseteq 0..floorSeq
      /\ (\A r \in RoomNums : place[r].owner <= userSeq /\ place[r].floor <= floorSeq)
      /\ \A c \in Carriers : carrier[c].num <= userSeq /\ carrier[c].floor <= floorSeq
  BY DEF RoCounted, Numbered
<1>4. Free \in RoTasks /\ Free.num = 0 /\ Free.floor = 0 /\ 0 <= userSeq /\ 0 <= floorSeq
  <2>1. Free.num = 0 /\ Free.floor = 0
    BY DEF Free
  <2>2. Free \in RoTasks
    BY TaskFree
  <2>3. 0 <= userSeq /\ 0 <= floorSeq
    BY <1>2
  <2>4. QED
    BY <2>1, <2>2, <2>3
<1>5. RoPcs = {"free", "assign", "insert user", "settle", "find", "create", "insert", "kill msgs", "kill row", "update", "kill floor"}
  BY DEF RoPcs
<1>6. ASSUME NEW c \in Carriers, NEW k \in RoTasks, Turn(c, k), k.num <= userSeq, k.floor <= floorSeq,
             UNCHANGED <<usernum, userSeq, floorSeq, place>>, floors' \subseteq floors
      PROVE  RoCounted'
  BY <1>1, <1>2, <1>3, <1>6, CountKept
<1>7. ASSUME NEW c \in Carriers, NEW m \in Parcels, NEW f \in FolderNames, LocalDeliver(c, m, f) PROVE RoCounted'
  <2> DEFINE k == [Free EXCEPT !.pc = "assign", !.msg = m, !.name = f]
  <2>1. k \in RoTasks /\ k.num = 0 /\ k.floor = 0
    BY <1>4, <1>5 DEF RoTasks, RoNames
  <2>2. Turn(c, k) /\ UNCHANGED <<usernum, userSeq, floorSeq, place, floors>>
    BY <1>7 DEF LocalDeliver
  <2> HIDE DEF k
  <2>3. QED
    BY <1>4, <1>6, <2>1, <2>2
<1>8. ASSUME NEW c \in Carriers, AssignRead(c), usernum > 0 PROVE RoCounted'
  <2> DEFINE k == [carrier[c] EXCEPT !.pc = "find", !.num = usernum]
  <2>1. k \in RoTasks /\ k.num = usernum /\ k.floor = carrier[c].floor
    BY <1>2, <1>5 DEF RoTasks
  <2>2. Turn(c, k) /\ UNCHANGED <<usernum, userSeq, floorSeq, place, floors>>
    BY <1>8 DEF AssignRead
  <2> HIDE DEF k
  <2>3. QED
    BY <1>3, <1>6, <2>1, <2>2
<1>9. ASSUME NEW c \in Carriers, AssignRead(c), ~(usernum > 0) PROVE RoCounted'
  <2> DEFINE n == userSeq + 1
             k == [carrier[c] EXCEPT !.pc = "insert user", !.num = n]
  <2>1. Turn(c, k) /\ userSeq' = n /\ userSeq < MaxUserNum /\ UNCHANGED <<usernum, floorSeq, place, floors>>
    BY <1>9 DEF AssignRead
  <2>2. n \in Nat /\ userSeq <= n /\ n <= MaxUserNum
    BY <1>2, <2>1, RoomsBounds
  <2> HIDE DEF n
  <2>3. k \in RoTasks /\ k.num = n /\ k.floor = carrier[c].floor
    BY <1>2, <1>5, <2>2 DEF RoTasks
  <2> HIDE DEF k
  <2>4. \A r \in RoomNums : place[r].owner \in Nat
    BY <1>2 DEF Places
  <2>5. usernum <= n /\ \A r \in RoomNums : place'[r].owner <= n /\ place'[r].floor <= floorSeq
    BY <1>2, <1>3, <2>1, <2>2, <2>4
  <2>6. k.num <= n /\ k.floor <= floorSeq
    BY <1>3, <2>2, <2>3
  <2>7. QED
    BY <1>1, <2>1, <2>2, <2>3, <2>5, <2>6, CountKept
<1>10. ASSUME NEW c \in Carriers, AssignInsert(c) PROVE RoCounted'
  <2> DEFINE k == [carrier[c] EXCEPT !.pc = "settle"]
  <2>1. k \in RoTasks /\ k.num = carrier[c].num /\ k.floor = carrier[c].floor
    BY <1>2, <1>5, TaskPc
  <2>2. Turn(c, k) /\ UNCHANGED <<userSeq, floorSeq, place, floors>> /\ usernum' \in {carrier[c].num, usernum}
    BY <1>10 DEF AssignInsert
  <2> HIDE DEF k
  <2>3. QED
    BY <1>1, <1>2, <1>3, <2>1, <2>2, CountKept
<1>11. ASSUME NEW c \in Carriers, AssignSettled(c) PROVE RoCounted'
  <2> DEFINE k == [carrier[c] EXCEPT !.pc = "find", !.num = usernum]
  <2>1. k \in RoTasks /\ k.num = usernum /\ k.floor = carrier[c].floor
    BY <1>2, <1>5 DEF RoTasks
  <2>2. Turn(c, k) /\ UNCHANGED <<usernum, userSeq, floorSeq, place, floors>>
    BY <1>11 DEF AssignSettled
  <2> HIDE DEF k
  <2>3. QED
    BY <1>3, <1>6, <2>1, <2>2
<1>12. ASSUME NEW c \in Carriers, FindRoom(c) PROVE RoCounted'
  <2>1. PICK r \in RoomNums, pc \in {"insert", "create"} :
            /\ Turn(c, [carrier[c] EXCEPT !.pc = pc, !.at = r]) /\ UNCHANGED <<usernum, userSeq, floorSeq, floors>>
            /\ place' = place \/ place' = [place EXCEPT ![r].st = "taken"]
    BY <1>12 DEF FindRoom, Keyed, Standing
  <2> DEFINE k == [carrier[c] EXCEPT !.pc = pc, !.at = r]
  <2>2. r \in 0..MaxRooms
    BY RoomsBounds DEF RoomNums
  <2>3. k \in RoTasks /\ k.num = carrier[c].num /\ k.floor = carrier[c].floor
    BY <1>2, <1>5, <2>2 DEF RoTasks
  <2> HIDE DEF k
  <2>4. \A q \in RoomNums : place'[q].owner = place[q].owner /\ place'[q].floor = place[q].floor
    BY <1>2, <2>1 DEF Places
  <2>5. \A q \in RoomNums : place'[q].owner <= userSeq /\ place'[q].floor <= floorSeq
    BY <1>3, <2>4
  <2>6. k.num <= userSeq /\ k.floor <= floorSeq /\ Turn(c, k)
    BY <1>3, <2>1, <2>3 DEF k
  <2>7. QED
    BY <1>1, <1>2, <1>3, <2>1, <2>3, <2>5, <2>6, CountKept
<1>13. ASSUME NEW c \in Carriers, CreateRoom(c) PROVE RoCounted'
  <2> DEFINE j == carrier[c]
             made == [st |-> "on", owner |-> j.num, name |-> j.name, floor |-> 0]
  <2>1. /\ UNCHANGED <<usernum, userSeq, floorSeq, floors>>
        /\ \/ Turn(c, [j EXCEPT !.pc = "insert"]) /\ place' = [place EXCEPT ![j.at] = made]
           \/ Turn(c, Free) /\ UNCHANGED place
    BY <1>13 DEF CreateRoom
  <2>2. CASE Turn(c, Free) /\ UNCHANGED place
    BY <1>4, <1>6, <2>1, <2>2
  <2>3. CASE Turn(c, [j EXCEPT !.pc = "insert"]) /\ place' = [place EXCEPT ![j.at] = made]
    <3> DEFINE k == [j EXCEPT !.pc = "insert"]
    <3>1. k \in RoTasks /\ k.num = j.num /\ k.floor = j.floor /\ Turn(c, k)
      BY <1>2, <1>5, <2>3, TaskPc
    <3>2. made.owner = j.num /\ made.floor = 0
      OBVIOUS
    <3>3. \A q \in RoomNums : place'[q] = place[q] \/ place'[q] = made
      BY <1>2, <2>3
    <3>4. j.num <= userSeq /\ j.floor <= floorSeq
      BY <1>3
    <3> HIDE DEF made, j, k
    <3>5. \A q \in RoomNums : place'[q].owner <= userSeq /\ place'[q].floor <= floorSeq
      BY <1>3, <1>4, <3>2, <3>3, <3>4
    <3>6. QED
      BY <1>1, <1>2, <1>3, <2>1, <3>1, <3>4, <3>5, CountKept
  <2>4. QED
    BY <2>1, <2>2, <2>3
<1>14. ASSUME NEW c \in Carriers, InsertMessage(c) \/ InsertFails(c) PROVE RoCounted'
  <2>1. Turn(c, Free) /\ UNCHANGED <<usernum, userSeq, floorSeq, place, floors>>
    BY <1>14 DEF InsertMessage, InsertFails
  <2>2. QED
    BY <1>4, <1>6, <2>1
<1>15. ASSUME NEW c \in Carriers, NEW r \in RoomNums, KillRoom(c, r) PROVE RoCounted'
  <2> DEFINE k == [Free EXCEPT !.pc = "kill msgs", !.at = r]
  <2>1. r \in 0..MaxRooms
    BY RoomsBounds DEF RoomNums
  <2>2. k \in RoTasks /\ k.num = 0 /\ k.floor = 0
    BY <1>4, <1>5, <2>1 DEF RoTasks
  <2>3. Turn(c, k) /\ UNCHANGED <<usernum, userSeq, floorSeq, place, floors>>
    BY <1>15 DEF KillRoom
  <2> HIDE DEF k
  <2>4. QED
    BY <1>4, <1>6, <2>2, <2>3
<1>16. ASSUME NEW c \in Carriers, KillPointers(c) PROVE RoCounted'
  <2> DEFINE k == [carrier[c] EXCEPT !.pc = "kill row"]
  <2>1. k \in RoTasks /\ k.num = carrier[c].num /\ k.floor = carrier[c].floor
    BY <1>2, <1>5, TaskPc
  <2>2. Turn(c, k) /\ UNCHANGED <<usernum, userSeq, floorSeq, place, floors>>
    BY <1>16 DEF KillPointers
  <2> HIDE DEF k
  <2>3. QED
    BY <1>3, <1>6, <2>1, <2>2
<1>17. ASSUME NEW c \in Carriers, KillRow(c) PROVE RoCounted'
  <2>1. /\ Turn(c, Free) /\ UNCHANGED <<usernum, userSeq, floorSeq, floors>>
        /\ place' = [place EXCEPT ![carrier[c].at].st = "gone"]
    BY <1>17 DEF KillRow
  <2>2. \A q \in RoomNums : place'[q].owner = place[q].owner /\ place'[q].floor = place[q].floor
    BY <1>2, <2>1 DEF Places
  <2>3. \A q \in RoomNums : place'[q].owner <= userSeq /\ place'[q].floor <= floorSeq
    BY <1>3, <2>2
  <2>4. QED
    BY <1>1, <1>2, <1>3, <1>4, <2>1, <2>3, CountKept
<1>18. ASSUME NEW c \in Carriers, NEW r \in RoomNums, NEW n \in RoomNames, NEW f \in 0..floorSeq, UpdateRoom(c, r, n, f) PROVE RoCounted'
  <2> DEFINE k == [Free EXCEPT !.pc = "update", !.at = r, !.name = n, !.floor = f]
  <2>1. r \in 0..MaxRooms /\ f \in Nat /\ f <= floorSeq
    BY <1>2, RoomsBounds DEF RoomNums
  <2>2. k \in RoTasks /\ k.num = 0 /\ k.floor = f
    BY <1>4, <1>5, <2>1 DEF RoTasks, RoNames
  <2>3. Turn(c, k) /\ UNCHANGED <<usernum, userSeq, floorSeq, place, floors>>
    BY <1>18 DEF UpdateRoom
  <2> HIDE DEF k
  <2>4. QED
    BY <1>4, <1>6, <2>1, <2>2, <2>3
<1>19. ASSUME NEW c \in Carriers, UpdateRow(c) PROVE RoCounted'
  <2> DEFINE j == carrier[c]
  <2>1. /\ Turn(c, Free) /\ UNCHANGED <<usernum, userSeq, floorSeq, floors>>
        /\ place' = place \/ place' = [place EXCEPT ![j.at].name = j.name, ![j.at].floor = j.floor]
    BY <1>19 DEF UpdateRow
  <2>2. \A q \in RoomNums : place'[q].owner = place[q].owner /\ (place'[q].floor = place[q].floor \/ place'[q].floor = j.floor)
    BY <1>2, <2>1 DEF Places
  <2>3. j.floor <= floorSeq
    BY <1>3
  <2> HIDE DEF j
  <2>4. \A q \in RoomNums : place'[q].owner <= userSeq /\ place'[q].floor <= floorSeq
    BY <1>3, <2>2, <2>3
  <2>5. QED
    BY <1>1, <1>2, <1>3, <1>4, <2>1, <2>4, CountKept
<1>20. CASE CreateFloor
  <2>1. /\ floorSeq' = floorSeq + 1 /\ floorSeq < MaxFloor /\ floors' = floors \cup {floorSeq + 1}
        /\ UNCHANGED <<usernum, userSeq, place, carrier>>
    BY <1>20 DEF CreateFloor
  <2>2. floorSeq' \in Nat /\ floorSeq <= floorSeq' /\ floorSeq' <= MaxFloor /\ floors' \subseteq 0..floorSeq'
    BY <1>2, <1>3, <2>1, RoomsBounds
  <2>3. \A r \in RoomNums : place[r].floor \in Nat
    BY <1>2 DEF Places
  <2>4. \A r \in RoomNums : place'[r].owner <= userSeq' /\ place'[r].floor <= floorSeq'
    BY <1>2, <1>3, <2>1, <2>2, <2>3
  <2>5. \A c \in Carriers : carrier'[c].num <= userSeq' /\ carrier'[c].floor <= floorSeq'
    BY <1>2, <1>3, <2>1, <2>2
  <2>6. QED
    BY <1>3, <2>1, <2>2, <2>4, <2>5 DEF RoCounted, Numbered
<1>21. ASSUME NEW c \in Carriers, NEW f \in floors, KillFloor(c, f) PROVE RoCounted'
  <2> DEFINE k == [Free EXCEPT !.pc = "kill floor", !.floor = f]
  <2>1. f \in Nat /\ f <= floorSeq
    BY <1>2, <1>3
  <2>2. k \in RoTasks /\ k.num = 0 /\ k.floor = f
    BY <1>4, <1>5, <2>1 DEF RoTasks
  <2>3. Turn(c, k) /\ UNCHANGED <<usernum, userSeq, floorSeq, place, floors>>
    BY <1>21 DEF KillFloor
  <2> HIDE DEF k
  <2>4. QED
    BY <1>4, <1>6, <2>1, <2>2, <2>3
<1>22. ASSUME NEW c \in Carriers, KillFloorRow(c) PROVE RoCounted'
  <2>1. Turn(c, Free) /\ UNCHANGED <<usernum, userSeq, floorSeq, place>> /\ floors' \subseteq floors
    BY <1>22 DEF KillFloorRow
  <2>2. QED
    BY <1>4, <1>6, <2>1
<1>23. ASSUME NEW c \in Carriers, CarrierStep(c) PROVE RoCounted'
  BY <1>7, <1>8, <1>9, <1>10, <1>11, <1>12, <1>13, <1>14, <1>15, <1>16, <1>17, <1>18, <1>19, <1>21, <1>22, <1>23 DEF CarrierStep
<1>24. CASE UNCHANGED rvars
  BY <1>24 DEF rvars, RoCounted, Numbered
<1>25. QED
  BY <1>20, <1>23, <1>24 DEF RoomsNext

LEMMA CountInitial == RoomsInit => RoCounted
<1> SUFFICES ASSUME RoomsInit PROVE RoCounted
  OBVIOUS
<1>1. \A r \in RoomNums : place[r].owner = 0 /\ place[r].floor = 0
  BY DEF RoomsInit, NoPlace
<1>2. \A c \in Carriers : carrier[c].num = 0 /\ carrier[c].floor = 0
  BY DEF RoomsInit, Free
<1>3. QED
  BY <1>1, <1>2, RoomsBounds DEF RoomsInit, RoCounted, Numbered

LEMMA RoomsTyped == RoomsInv /\ RoCounted => RoomsTypeOK
<1> SUFFICES ASSUME RoomsInv, RoCounted PROVE RoomsTypeOK
  OBVIOUS
<1>1. RoTypes
  BY DEF RoomsInv
<1>2. /\ userSeq \in Nat /\ usernum \in Nat /\ floorSeq \in Nat /\ MaxUserNum \in Nat /\ MaxFloor \in Nat
      /\ \A r \in RoomNums : place[r] \in Places
  BY <1>1, RoomsBounds DEF RoTypes
<1>3. \A r \in RoomNums : /\ place[r].st \in {"unused", "taken", "on", "gone"} /\ place[r].owner \in 0..userSeq
                          /\ place[r].floor \in 0..floorSeq
  BY <1>2 DEF RoCounted, Places
<1>4. usernum \in 0..userSeq /\ userSeq \in 0..MaxUserNum /\ floorSeq \in 0..MaxFloor /\ floors \subseteq 0..floorSeq
  BY <1>2 DEF RoCounted
<1>5. \A c \in Carriers : carrier[c].pc \in RoPcs
  BY <1>1 DEF RoTypes, RoTasks
<1>6. QED
  BY <1>1, <1>3, <1>4, <1>5 DEF RoomsTypeOK, RoTypes, RoPcs

(* Every reachable state of the rooms and the deliveries is well typed: no  *)
(* number of a user or a floor is in use that its sequence has not given.   *)
THEOREM RoomsTypeCorrect == RoomsSpec => []RoomsTypeOK
<1> DEFINE all == RoomsInv /\ RoCounted
<1>1. RoomsInit => all
  BY RoomsInitial, CountInitial
<1>2. all /\ [RoomsNext]_rvars => all'
  BY RoomsStep, CountStep
<1>3. all => RoomsTypeOK
  BY RoomsTyped
<1> HIDE DEF all
<1>4. QED
  BY <1>1, <1>2, <1>3, PTL DEF RoomsSpec

-----------------------------------------------------------------------------
(* Held messages *)

(* What is known of a held message that no two moderators had at once: at   *)
(* most one of them is at work on it, it was still unsent when read, and    *)
(* from then until it is marked the row is as it was or gone.               *)
HeldSound(h) ==
    /\ \A d, e \in Moderators : modq[d].id = h /\ modq[e].id = h => d = e
    /\ \A d \in Moderators : modq[d].id = h =>
          /\ held[h] \in {"held", "gone"}
          /\ posted[h] = IF modq[d].pc = "mark" THEN 1 ELSE 0
    /\ posted[h] <= 1
    /\ (\A d \in Moderators : modq[d].id # h) /\ held[h] \notin {"approved", "gone"} => posted[h] = 0

ModerationInv ==
    /\ ModerationTypeOK
    /\ \A d \in Moderators : modq[d].pc = "idle" <=> modq[d].id = NoHeld
    /\ \A d \in Moderators : modq[d].pc = "mark" => posted[modq[d].id] > 0
    /\ \A h \in HeldIds \ doubly : HeldSound(h)

LEMMA ModerationInitial == ModerationInit => ModerationInv
BY ModerationAssumption DEF ModerationInit, ModerationInv, ModerationTypeOK, HeldSound, ModIdle

LEMMA ModerationStep == ModerationInv /\ [ModerationNext]_mvars => ModerationInv'
<1> SUFFICES ASSUME ModerationInv, [ModerationNext]_mvars PROVE ModerationInv'
  OBVIOUS
<1> USE ModerationAssumption DEF ModerationInv, ModerationTypeOK, HeldSound
<1>1. ASSUME NEW h \in HeldIds, Hold(h) PROVE ModerationInv'
  BY <1>1 DEF Hold
<1>2. ASSUME NEW h \in HeldIds, Reject(h) PROVE ModerationInv'
  BY <1>2 DEF Reject
<1>3. ASSUME NEW d \in Moderators, NEW h \in HeldIds, ApproveRead(d, h) PROVE ModerationInv'
  BY <1>3 DEF ApproveRead, Others
<1>4. ASSUME NEW d \in Moderators, ApprovePost(d) PROVE ModerationInv'
  <2>1. CASE /\ modq[d].pc = "post" /\ posted[modq[d].id] < MaxPosted
             /\ posted' = [posted EXCEPT ![modq[d].id] = @ + 1]
             /\ modq' = [modq EXCEPT ![d].pc = "mark"]
             /\ UNCHANGED <<held, doubly>>
    BY <2>1, SMTT(60)
  <2>2. CASE modq' = [modq EXCEPT ![d] = ModIdle] /\ UNCHANGED <<posted, held, doubly>> /\ modq[d].pc = "post"
    BY <2>2, SMTT(60) DEF ModIdle
  <2>3. QED
    BY <1>4, <2>1, <2>2 DEF ApprovePost
<1>5. ASSUME NEW d \in Moderators, ApproveMark(d) PROVE ModerationInv'
  BY <1>5 DEF ApproveMark, ModIdle
<1>6. ASSUME NEW d \in Moderators, ApproveLost(d) PROVE ModerationInv'
  BY <1>6 DEF ApproveLost, ModIdle
<1>7. CASE HeldRemoved
  BY <1>7 DEF HeldRemoved
<1>8. CASE UNCHANGED mvars
  BY <1>8 DEF mvars
<1>9. QED
  BY <1>1, <1>2, <1>3, <1>4, <1>5, <1>6, <1>7, <1>8 DEF ModerationNext

(* "an approved message cannot be sent twice", for any number of moderators *)
(* and messages: two postings of one message, or a posting of a rejected    *)
(* one, take two moderators at work on it or a process that dies before the *)
(* row is marked.                                                           *)
THEOREM ModerationIsSafe == ModerationSpec => []ApprovedOnce
<1>1. ModerationInv => ApprovedOnce
  <2> SUFFICES ASSUME ModerationInv, NEW h \in HeldIds \ doubly
               PROVE  posted[h] <= IF held[h] = "rejected" THEN 0 ELSE 1
    BY DEF ApprovedOnce
  <2> QED
    BY DEF ModerationInv, ModerationTypeOK, HeldSound
<1>2. QED
  BY <1>1, ModerationInitial, ModerationStep, PTL DEF ModerationSpec

-----------------------------------------------------------------------------
(* The fan-out of Listserv *)

SpoolJobs == [pc : {"idle", "subs", "msgs", "send", "digest", "digestsend"}, sent : Nat, digest : Nat,
              mode : ListModes, subs : SUBSET Addresses, msgs : SUBSET Nat, high : Nat]

JobWithin(j) == j.msgs \subseteq 1..highest /\ j.sent <= highest /\ j.digest <= highest /\ j.high <= highest

(* The parts of the type the property needs that ListTypeOK leaves out, and *)
(* no watermark, stored or read, beyond the room's highest message.         *)
ListTypes ==
    /\ ListTypeOK
    /\ spool \in [Spoolers -> SpoolJobs]
    /\ copies \in [(1..MaxPosts) \X Addresses -> 0..2]
    /\ mailed \subseteq (1..token) \X Addresses \X {"subscribe", "unsubscribe"}
    /\ lateSubs \subseteq Addresses /\ overlap \in BOOLEAN /\ admin \in Nat
    /\ list.lastSent <= highest /\ list.lastDigest <= highest
    /\ \A w \in Spoolers : JobWithin(spool[w])

(* What a spooler has read is consistent with itself. *)
JobSound(j) ==
    /\ j.pc \in {"subs", "msgs"} => j.high = j.sent
    /\ j.pc = "digestsend" => j.msgs # {}
    /\ j.pc \in {"msgs", "send"} => \A a \in j.subs : KindOf[a] = "post"

(* A message owed to a subscriber is still ahead of the spooler j. *)
StillAhead(j, m, a) ==
    /\ KindOf[a] = "post" =>
          /\ j.pc \in {"subs", "msgs"} => m > j.sent
          /\ j.pc = "msgs" => a \in j.subs
          /\ j.pc = "send" => m > j.high /\ ((m \in j.msgs /\ a \in j.subs) \/ \A k \in j.msgs : k < m)
    /\ KindOf[a] = "digest" =>
          /\ j.pc \notin {"idle", "digestsend"} => m > j.digest
          /\ j.pc = "digestsend" => m \in j.msgs \/ \A k \in j.msgs : k < m

Mark(a) == IF KindOf[a] = "post" THEN list.lastSent ELSE list.lastDigest

(* What is owed is in the room and to a subscriber, and neither the list's  *)
(* watermark nor any spooler has passed it.                                 *)
OwedSound(m, a) ==
    /\ m \in room /\ a \in Active
    /\ a \in lateSubs \/ (m > Mark(a) /\ \A w \in Spoolers : StillAhead(spool[w], m, a))

(* A spooler that has read the subscribers and not yet the messages knows   *)
(* everybody who is subscribed, the late ones apart.                        *)
KnowsSubscribers(j) == j.pc = "msgs" => \A a \in Active : KindOf[a] = "post" => a \in j.subs \cup lateSubs

OwedInv ==
    /\ \A w \in Spoolers : JobSound(spool[w]) /\ KnowsSubscribers(spool[w])
    /\ \A m \in 1..MaxPosts, a \in Addresses : <<m, a>> \in owed => OwedSound(m, a)
    /\ ~list.there => owed = {}

(* A spooler works on the list as it is. *)
OnList(j) ==
    /\ list.there /\ j.digest = list.lastDigest
    /\ j.pc \in {"subs", "msgs", "send"} => j.sent = list.lastSent /\ j.sent <= j.high
    /\ j.pc = "send" => \A k \in j.msgs : k > j.high
    /\ j.pc = "digestsend" => \A k \in j.msgs : k > j.digest

(* Without an overlap one spooler runs at a time, on the list as it read it. *)
Alone ==
    /\ \A v, w \in Spoolers : spool[v].pc # "idle" /\ spool[w].pc # "idle" => v = w
    /\ \A w \in Spoolers : spool[w].pc # "idle" => OnList(spool[w])

(* A message that was copied is below a watermark or behind the spooler. *)
Copied(m, a) ==
    /\ copies[<<m, a>>] <= 1
    /\ copies[<<m, a>>] > 0 =>
          \/ m <= Mark(a)
          \/ KindOf[a] = "post" /\ \E w \in Spoolers : spool[w].pc = "send" /\ m <= spool[w].high

CopiesInv == ~overlap => Alone /\ \A m \in 1..MaxPosts, a \in Addresses : Copied(m, a)

ListInv == ListTypes /\ OwedInv /\ CopiesInv

-----------------------------------------------------------------------------

(* What SpoolBegin ... SpoolDigestSend have in common. *)
LEMMA SpoolSet ==
    ASSUME ListTypes, NEW w \in Spoolers, NEW j, j \in SpoolJobs, JobWithin(j), SpoolIs(w, j),
           UNCHANGED <<highest, subs, token>>
    PROVE  /\ spool' \in [Spoolers -> SpoolJobs]
           /\ spool'[w] = j /\ \A v \in Spoolers \ {w} : spool'[v] = spool[v]
           /\ (\A v \in Spoolers : JobWithin(spool[v]))'
           /\ \A v \in Spoolers : spool'[v].pc \in {"idle", "subs", "msgs", "send", "digest", "digestsend"}
           /\ \A v \in Spoolers : spool'[v].msgs \subseteq 1..highest' /\ spool'[v].subs \subseteq Addresses
<1>1. spool' = [spool EXCEPT ![w] = j]
  BY DEF SpoolIs
<1>2. spool \in [Spoolers -> SpoolJobs] /\ \A v \in Spoolers : JobWithin(spool[v])
  BY DEF ListTypes
<1>3. spool' \in [Spoolers -> SpoolJobs]
  BY <1>1, <1>2
<1>4. spool'[w] = j /\ \A v \in Spoolers \ {w} : spool'[v] = spool[v]
  BY <1>1, <1>2
<1>5. \A v \in Spoolers : JobWithin(spool'[v])
  BY <1>2, <1>4
<1>6. (\A v \in Spoolers : JobWithin(spool[v]))'
  BY <1>5 DEF JobWithin
<1>7. QED
  BY <1>3, <1>4, <1>5, <1>6 DEF SpoolJobs, JobWithin

LEMMA SpoolIdleTyped == ListTypes => SpoolIdle \in SpoolJobs /\ JobWithin(SpoolIdle)
BY ListAssumption DEF ListTypes, ListTypeOK, SpoolIdle, SpoolJobs, JobWithin, ListModes

(* The job each of them leaves behind. *)
Begun == [SpoolIdle EXCEPT !.pc = IF list.mode = "digest" THEN "digest" ELSE "subs", !.mode = list.mode,
                           !.sent = list.lastSent, !.digest = list.lastDigest, !.high = list.lastSent]
WithSubs(j) == [j EXCEPT !.pc = "msgs", !.subs = {a \in Active : KindOf[a] = "post"}]
WithMsgs(j) == [j EXCEPT !.pc = "send", !.msgs = Above(j.sent)]
SentOne(j, m) == [j EXCEPT !.msgs = @ \ {m}, !.high = m]

LEMMA SpoolJobsTyped ==
    ASSUME ListTypes, NEW w \in Spoolers
    PROVE  /\ Begun \in SpoolJobs /\ JobWithin(Begun)
           /\ WithSubs(spool[w]) \in SpoolJobs /\ JobWithin(WithSubs(spool[w]))
           /\ WithMsgs(spool[w]) \in SpoolJobs /\ JobWithin(WithMsgs(spool[w]))
           /\ \A m \in spool[w].msgs : SentOne(spool[w], m) \in SpoolJobs /\ JobWithin(SentOne(spool[w], m))
           /\ SpoolEnds(spool[w]) \in SpoolJobs /\ JobWithin(SpoolEnds(spool[w]))
           /\ \A ms \in SUBSET room :
                 LET d == [spool[w] EXCEPT !.pc = "digestsend", !.msgs = ms]
                 IN  d \in SpoolJobs /\ JobWithin(d)
<1> DEFINE j == spool[w]
<1>1. /\ j \in SpoolJobs /\ JobWithin(j) /\ room \subseteq 1..highest /\ highest \in Nat /\ Active \subseteq Addresses
      /\ list.lastSent \in Nat /\ list.lastDigest \in Nat /\ list.mode \in ListModes
      /\ list.lastSent <= highest /\ list.lastDigest <= highest
  BY ListAssumption DEF ListTypes, ListTypeOK, Active
<1> HIDE DEF j
<1> USE <1>1
<1>2. Begun \in SpoolJobs /\ JobWithin(Begun)
  BY SpoolIdleTyped DEF Begun, SpoolIdle, SpoolJobs, JobWithin
<1>3. WithSubs(j) \in SpoolJobs /\ JobWithin(WithSubs(j))
  BY DEF WithSubs, SpoolJobs, JobWithin
<1>4. WithMsgs(j) \in SpoolJobs /\ JobWithin(WithMsgs(j))
  <2>1. Above(j.sent) \subseteq room
    BY DEF Above
  <2>2. \A ms \in SUBSET room : ms \subseteq 1..highest /\ ms \in SUBSET Nat
    OBVIOUS
  <2>3. QED
    BY <2>1, <2>2 DEF WithMsgs, SpoolJobs, JobWithin
<1>5. \A m \in j.msgs : SentOne(j, m) \in SpoolJobs /\ JobWithin(SentOne(j, m))
  <2> TAKE m \in j.msgs
  <2>1. m \in Nat /\ m <= highest
    BY DEF JobWithin
  <2>2. QED
    BY <2>1 DEF SentOne, SpoolJobs, JobWithin
<1>6. SpoolEnds(j) \in SpoolJobs /\ JobWithin(SpoolEnds(j))
  BY SpoolIdleTyped DEF SpoolEnds, SpoolJobs, JobWithin
<1>7. \A ms \in SUBSET room :
         LET d == [j EXCEPT !.pc = "digestsend", !.msgs = ms]
         IN  d \in SpoolJobs /\ JobWithin(d)
  <2> TAKE ms \in SUBSET room
  <2>1. ms \subseteq 1..highest /\ ms \in SUBSET Nat
    OBVIOUS
  <2>2. QED
    BY <2>1 DEF SpoolJobs, JobWithin
<1>8. QED
  BY <1>2, <1>3, <1>4, <1>5, <1>6, <1>7 DEF j

LEMMA ListTypesStep == ListTypes /\ OwedInv /\ [ListNext]_lvars => ListTypes'
<1> SUFFICES ASSUME ListTypes, OwedInv, [ListNext]_lvars PROVE ListTypes'
  OBVIOUS
<1> USE ListAssumption DEF ListTypes, ListTypeOK
<1>1. ASSUME NEW a \in Addresses, AskSubscribe(a) PROVE ListTypes'
  BY <1>1 DEF AskSubscribe, MakeToken, SubIs, Forgive, JobWithin
<1>2. ASSUME NEW a \in Addresses, AskUnsubscribe(a) PROVE ListTypes'
  BY <1>2 DEF AskUnsubscribe, MakeToken, SubIs, Forgive, JobWithin
<1>3. ASSUME NEW a \in Addresses, PostListSubscribe(a) PROVE ListTypes'
  BY <1>3 DEF PostListSubscribe, ByAdmin, SubIs, Joins, JobWithin
<1>4. ASSUME NEW a \in Addresses, PostListUnsubscribe(a) PROVE ListTypes'
  BY <1>4 DEF PostListUnsubscribe, ByAdmin, SubIs, Forgive, JobWithin
<1>5. ASSUME NEW x \in mailed, Confirm(x[1], x[2]) PROVE ListTypes'
  BY <1>5 DEF Confirm, SubIs, Forgive, Joins, JobWithin
<1>6. CASE ListPost
  <2>1. highest' = highest + 1 /\ highest' \in 0..MaxPosts
    BY <1>6 DEF ListPost, PostsNew
  <2>2. room' \subseteq 1..highest'
    BY <1>6, <2>1 DEF ListPost, PostsNew
  <2>3. owed' \subseteq (1..highest') \X Addresses
    BY <1>6, <2>1 DEF ListPost, PostsNew, Active
  <2>4. (\A w \in Spoolers : JobWithin(spool[w]))'
    BY <1>6, <2>1 DEF ListPost, JobWithin, SpoolJobs
  <2>5. \A w \in Spoolers : spool'[w].msgs \subseteq 1..highest'
    BY <2>4 DEF JobWithin
  <2>6. QED
    BY <1>6, <2>1, <2>2, <2>3, <2>4, <2>5 DEF ListPost
<1>7. ASSUME NEW m \in room, ListMessageDeleted(m) PROVE ListTypes'
  BY <1>7 DEF ListMessageDeleted, JobWithin
<1>8. ASSUME NEW mode \in ListModes, SetMode(mode) PROVE ListTypes'
  BY <1>8 DEF SetMode, ByAdmin, ListModes, JobWithin
<1>9. CASE RemoveList
  <2>1. /\ list' \in [there : BOOLEAN, mode : ListModes, lastSent : 0..MaxPosts, lastDigest : 0..MaxPosts]
        /\ list'.lastSent <= highest /\ list'.lastDigest <= highest
    BY <1>9 DEF RemoveList
  <2>2. /\ subs' \in [Addresses -> [state : {"none", "pending", "active", "unsub_pending"}, token : 0..token]]
        /\ \A a \in Addresses : subs'[a].state # "active"
    BY <1>9 DEF RemoveList
  <2>3. QED
    BY <1>9, <2>1, <2>2 DEF RemoveList, ByAdmin, JobWithin
<1>10. CASE SetList
  BY <1>10 DEF SetList, ByAdmin, ListModes, JobWithin
<1>11. ASSUME NEW w \in Spoolers, SpoolBegin(w) PROVE ListTypes'
  <2>1. SpoolIs(w, Begun) /\ UNCHANGED <<highest, subs, token>>
    BY <1>11 DEF SpoolBegin, SpoolOnly, Begun
  <2>2. QED
    BY <1>11, <2>1, SpoolJobsTyped, SpoolSet DEF SpoolBegin, SpoolOnly
<1>12. ASSUME NEW w \in Spoolers, SpoolSubs(w) PROVE ListTypes'
  <2>1. SpoolIs(w, WithSubs(spool[w])) /\ UNCHANGED <<highest, subs, token>>
    BY <1>12 DEF SpoolSubs, SpoolOnly, WithSubs
  <2>2. QED
    BY <1>12, <2>1, SpoolJobsTyped, SpoolSet DEF SpoolSubs, SpoolOnly
<1>13. ASSUME NEW w \in Spoolers, SpoolMsgs(w) PROVE ListTypes'
  <2>1. SpoolIs(w, WithMsgs(spool[w])) /\ UNCHANGED <<highest, subs, token>>
    BY <1>13 DEF SpoolMsgs, SpoolOnly, WithMsgs
  <2>2. QED
    BY <1>13, <2>1, SpoolJobsTyped, SpoolSet DEF SpoolMsgs, SpoolOnly
<1>14. ASSUME NEW w \in Spoolers, SpoolSend(w) PROVE ListTypes'
  <2> DEFINE m == Min(spool[w].msgs)
  <2>1. m \in spool[w].msgs
    BY <1>14, MinIsLeast DEF SpoolSend, JobWithin, SpoolJobs
  <2>2. SpoolIs(w, SentOne(spool[w], m)) /\ UNCHANGED <<highest, subs, token>>
    BY <1>14 DEF SpoolSend, SpoolOnly, SentOne
  <2>3. copies' \in [(1..MaxPosts) \X Addresses -> 0..2] /\ owed' \subseteq owed
    BY <1>14 DEF SpoolSend, Queued
  <2>4. QED
    BY <1>14, <2>1, <2>2, <2>3, SpoolJobsTyped, SpoolSet DEF SpoolSend, SpoolOnly
<1>15. ASSUME NEW w \in Spoolers, SpoolAdvance(w) PROVE ListTypes'
  <2>1. SpoolIs(w, SpoolEnds(spool[w])) /\ UNCHANGED <<highest, subs, token>>
    BY <1>15 DEF SpoolAdvance
  <2>2. spool[w].high \in 0..MaxPosts /\ spool[w].high <= highest
    BY DEF JobWithin, SpoolJobs
  <2>3. /\ list' \in [there : BOOLEAN, mode : ListModes, lastSent : 0..MaxPosts, lastDigest : 0..MaxPosts]
        /\ list'.lastSent <= highest /\ list'.lastDigest <= highest
    BY <1>15, <2>2 DEF SpoolAdvance
  <2>4. QED
    BY <1>15, <2>1, <2>3, SpoolJobsTyped, SpoolSet DEF SpoolAdvance
<1>16. ASSUME NEW w \in Spoolers, SpoolDigest(w) PROVE ListTypes'
  <2>1. PICK j : j \in SpoolJobs /\ JobWithin(j) /\ SpoolIs(w, j)
    <3> DEFINE pending == Above(spool[w].digest)
               first == {m \in pending : Cardinality({n \in pending : n <= m}) <= DigestMax}
    <3>1. first \in SUBSET room
      BY DEF Above
    <3>2. SpoolIs(w, [spool[w] EXCEPT !.pc = "digestsend", !.msgs = first]) \/ SpoolIs(w, SpoolIdle)
      BY <1>16 DEF SpoolDigest
    <3>3. QED
      BY <3>1, <3>2, SpoolJobsTyped, SpoolIdleTyped
  <2>2. UNCHANGED <<highest, subs, token>>
    BY <1>16 DEF SpoolDigest, SpoolOnly
  <2>3. QED
    BY <1>16, <2>1, <2>2, SpoolSet DEF SpoolDigest, SpoolOnly
<1>17. ASSUME NEW w \in Spoolers, SpoolDigestSend(w) PROVE ListTypes'
  <2>1. SpoolIs(w, SpoolIdle) /\ UNCHANGED <<highest, subs, token>>
    BY <1>17 DEF SpoolDigestSend
  <2>2. Max(spool[w].msgs) \in spool[w].msgs /\ spool[w].msgs \subseteq 1..highest
    BY <1>17, MaxIsGreatest DEF JobSound, OwedInv, JobWithin, SpoolJobs, SpoolDigestSend
  <2>3. /\ list' \in [there : BOOLEAN, mode : ListModes, lastSent : 0..MaxPosts, lastDigest : 0..MaxPosts]
        /\ list'.lastSent <= highest /\ list'.lastDigest <= highest
    BY <1>17, <2>2 DEF SpoolDigestSend
  <2>4. QED
    BY <1>17, <2>1, <2>3, SpoolIdleTyped, SpoolSet DEF SpoolDigestSend, Queued
<1>18. CASE ListCrash
  BY <1>18, SpoolIdleTyped DEF ListCrash, JobWithin, SpoolJobs
<1>19. CASE UNCHANGED lvars
  BY <1>19 DEF lvars, JobWithin
<1>20. QED
  BY <1>1, <1>2, <1>3, <1>4, <1>5, <1>6, <1>7, <1>8, <1>9, <1>10, <1>11, <1>12, <1>13, <1>14, <1>15, <1>16, <1>17, <1>18, <1>19 DEF ListNext

(* A spooler's step leaves OwedInv true if the job it leaves behind is      *)
(* sound and what is still owed is ahead of that job and of the watermark.  *)
LEMMA OwedSet ==
    ASSUME ListTypes, OwedInv, NEW w \in Spoolers, NEW j, SpoolIs(w, j), JobSound(j), KnowsSubscribers(j),
           UNCHANGED <<room, subs, lateSubs>>, owed' \subseteq owed, list'.there = list.there,
           \A m \in 1..MaxPosts, a \in Addresses :
              <<m, a>> \in owed' /\ a \notin lateSubs => m > Mark(a)' /\ StillAhead(j, m, a)
    PROVE  OwedInv'
<1>1. spool'[w] = j /\ \A v \in Spoolers \ {w} : spool'[v] = spool[v]
  BY DEF ListTypes, SpoolIs
<1>2. \A v \in Spoolers : JobSound(spool'[v]) /\ KnowsSubscribers(spool'[v])
  BY <1>1 DEF OwedInv
<1>3. \A v \in Spoolers : KnowsSubscribers(spool[v])'
  BY <1>2 DEF KnowsSubscribers, Active
<1>4. ASSUME NEW m \in 1..MaxPosts, NEW a \in Addresses, <<m, a>> \in owed' PROVE OwedSound(m, a)'
  <2>1. OwedSound(m, a)
    BY <1>4 DEF OwedInv
  <2>2. m \in room' /\ a \in Active' /\ (a \in lateSubs' <=> a \in lateSubs)
    BY <2>1 DEF OwedSound, Active
  <2>3. a \in lateSubs \/ \A v \in Spoolers : StillAhead(spool'[v], m, a)
    BY <1>1, <1>4, <2>1 DEF OwedSound
  <2>4. QED
    BY <1>4, <2>2, <2>3 DEF OwedSound
<1>5. QED
  BY <1>2, <1>3, <1>4 DEF OwedInv

LEMMA OwedStep == ListTypes /\ OwedInv /\ [ListNext]_lvars => OwedInv'
<1> SUFFICES ASSUME ListTypes, OwedInv, [ListNext]_lvars PROVE OwedInv'
  OBVIOUS
<1> USE ListAssumption DEF OwedInv, OwedSound, KnowsSubscribers, Mark, Active
<1>0. /\ spool \in [Spoolers -> SpoolJobs] /\ subs \in [Addresses -> [state : {"none", "pending", "active", "unsub_pending"}, token : 0..token]]
      /\ highest \in Nat /\ room \subseteq 1..highest /\ owed \subseteq (1..highest) \X Addresses
      /\ list \in [there : BOOLEAN, mode : ListModes, lastSent : 0..MaxPosts, lastDigest : 0..MaxPosts]
      /\ list.lastSent <= highest /\ list.lastDigest <= highest
      /\ \A w \in Spoolers : JobWithin(spool[w])
  BY DEF ListTypes, ListTypeOK
<1>1. ASSUME NEW a \in Addresses, AskSubscribe(a) PROVE OwedInv'
  BY <1>1, <1>0 DEF AskSubscribe, SubIs, Forgive
<1>2. ASSUME NEW a \in Addresses, AskUnsubscribe(a) PROVE OwedInv'
  BY <1>2, <1>0 DEF AskUnsubscribe, SubIs, Forgive
<1>3. ASSUME NEW a \in Addresses, PostListSubscribe(a) PROVE OwedInv'
  BY <1>3, <1>0 DEF PostListSubscribe, SubIs, Joins
<1>4. ASSUME NEW a \in Addresses, PostListUnsubscribe(a) PROVE OwedInv'
  BY <1>4, <1>0 DEF PostListUnsubscribe, SubIs, Forgive
<1>5. ASSUME NEW x \in mailed, Confirm(x[1], x[2]) PROVE OwedInv'
  BY <1>5, <1>0 DEF Confirm, SubIs, Forgive, Joins
<1>6. CASE ListPost
  <2>1. /\ highest' = highest + 1 /\ room' = room \cup {highest + 1} /\ UNCHANGED <<list, subs, spool, lateSubs>>
        /\ owed' = IF list.there THEN owed \cup ({highest + 1} \X Active) ELSE owed
    BY <1>6 DEF ListPost, PostsNew
  <2>2. \A a \in Addresses : Mark(a) <= highest /\ Mark(a)' = Mark(a)
    BY <1>0, <2>1
  <2>3. ASSUME NEW a \in Active, a \notin lateSubs, NEW w \in Spoolers PROVE StillAhead(spool[w], highest + 1, a)
    <3>1. spool[w] \in SpoolJobs /\ JobWithin(spool[w]) /\ KnowsSubscribers(spool[w])
      BY <1>0
    <3>2. \A k \in spool[w].msgs : k < highest + 1
      BY <1>0, <3>1 DEF JobWithin, SpoolJobs
    <3>3. QED
      BY <1>0, <2>3, <3>1, <3>2 DEF StillAhead, JobWithin, SpoolJobs
  <2>4. ASSUME NEW m \in 1..MaxPosts, NEW a \in Addresses, <<m, a>> \in owed' PROVE OwedSound(m, a)'
    <3>1. CASE <<m, a>> \in owed
      BY <2>1, <3>1
    <3>2. CASE m = highest + 1 /\ a \in Active
      <4>1. a \in lateSubs \/ \A w \in Spoolers : StillAhead(spool[w], m, a)
        BY <2>3, <3>2
      <4>2. m > Mark(a)'
        BY <1>0, <2>2, <3>2
      <4>3. QED
        BY <2>1, <3>2, <4>1, <4>2
    <3>3. QED
      BY <2>1, <2>4, <3>1, <3>2
  <2>5. QED
    BY <2>1, <2>4
<1>7. ASSUME NEW m \in room, ListMessageDeleted(m) PROVE OwedInv'
  BY <1>7, <1>0 DEF ListMessageDeleted
<1>8. ASSUME NEW mode \in ListModes, SetMode(mode) PROVE OwedInv'
  BY <1>8, <1>0 DEF SetMode
<1>9. CASE RemoveList
  BY <1>9, <1>0 DEF RemoveList
<1>10. CASE SetList
  BY <1>10, <1>0 DEF SetList
<1>11. ASSUME NEW w \in Spoolers, SpoolBegin(w) PROVE OwedInv'
  <2>1. SpoolIs(w, Begun) /\ UNCHANGED <<room, subs, lateSubs, owed, list>>
    BY <1>11 DEF SpoolBegin, SpoolOnly, Begun
  <2>2. JobSound(Begun) /\ KnowsSubscribers(Begun)
    BY DEF JobSound, Begun, SpoolIdle
  <2>3. \A m \in 1..MaxPosts, a \in Addresses : m > Mark(a) => StillAhead(Begun, m, a)
    BY DEF StillAhead, Begun, SpoolIdle
  <2>4. QED
    BY <2>1, <2>2, <2>3, OwedSet
<1>12. ASSUME NEW w \in Spoolers, SpoolSubs(w) PROVE OwedInv'
  <2> DEFINE j == spool[w]
  <2>1. j.pc = "subs" /\ SpoolIs(w, WithSubs(j)) /\ UNCHANGED <<room, subs, lateSubs, owed, list>>
    BY <1>12 DEF SpoolSubs, SpoolOnly, WithSubs
  <2>2. JobSound(j) /\ j \in SpoolJobs
    BY <1>0
  <2>3. JobSound(WithSubs(j)) /\ KnowsSubscribers(WithSubs(j))
    BY <2>1, <2>2 DEF JobSound, WithSubs, SpoolJobs
  <2>4. \A m \in 1..MaxPosts, a \in Addresses :
           a \in Active /\ StillAhead(j, m, a) => StillAhead(WithSubs(j), m, a)
    BY <2>1, <2>2 DEF StillAhead, WithSubs, SpoolJobs
  <2>5. QED
    BY <2>1, <2>3, <2>4, OwedSet
<1>13. ASSUME NEW w \in Spoolers, SpoolMsgs(w) PROVE OwedInv'
  <2> DEFINE j == spool[w]
  <2>1. j.pc = "msgs" /\ SpoolIs(w, WithMsgs(j)) /\ UNCHANGED <<room, subs, lateSubs, owed, list>>
    BY <1>13 DEF SpoolMsgs, SpoolOnly, WithMsgs
  <2>2. JobSound(j) /\ j \in SpoolJobs
    BY <1>0
  <2>3. JobSound(WithMsgs(j)) /\ KnowsSubscribers(WithMsgs(j))
    BY <2>1, <2>2 DEF JobSound, WithMsgs, SpoolJobs
  <2>4. \A m \in 1..MaxPosts, a \in Addresses :
           m \in room /\ StillAhead(j, m, a) => StillAhead(WithMsgs(j), m, a)
    BY <2>1, <2>2 DEF StillAhead, WithMsgs, SpoolJobs, Above, JobSound
  <2>5. QED
    BY <2>1, <2>3, <2>4, OwedSet
<1>14. ASSUME NEW w \in Spoolers, SpoolSend(w) PROVE OwedInv'
  <2> DEFINE j == spool[w]
             n == Min(j.msgs)
  <2>1. /\ j.pc = "send" /\ SpoolIs(w, SentOne(j, n)) /\ UNCHANGED <<room, subs, lateSubs, list>>
        /\ owed' = owed \ (({n} \cap room) \X j.subs)
    BY <1>14 DEF SpoolSend, SpoolOnly, SentOne, Queued
  <2>2. JobSound(j) /\ j \in SpoolJobs
    BY <1>0
  <2>3. n \in j.msgs /\ n \in Nat /\ \A k \in j.msgs : n <= k /\ k \in Nat
    BY <1>14, <2>2, MinIsLeast DEF SpoolSend, SpoolJobs
  <2> HIDE DEF n
  <2>4. JobSound(SentOne(j, n)) /\ KnowsSubscribers(SentOne(j, n))
    BY <2>1, <2>2 DEF JobSound, SentOne, SpoolJobs
  <2>5. ASSUME NEW m \in 1..MaxPosts, NEW a \in Addresses, <<m, a>> \in owed', a \notin lateSubs
        PROVE  m > Mark(a)' /\ StillAhead(SentOne(j, n), m, a)
    <3>1. m > Mark(a) /\ StillAhead(j, m, a) /\ m \in room
      BY <2>1, <2>5
    <3>2. ~(m = n /\ a \in j.subs)
      BY <2>1, <2>5, <3>1
    <3>3. QED
      BY <2>1, <2>2, <2>3, <3>1, <3>2 DEF StillAhead, SentOne, SpoolJobs
  <2>6. QED
    BY <2>1, <2>4, <2>5, OwedSet
<1>15. ASSUME NEW w \in Spoolers, SpoolAdvance(w) PROVE OwedInv'
  <2> DEFINE j == spool[w]
  <2>1. /\ j.pc = "send" /\ j.msgs = {} /\ SpoolIs(w, SpoolEnds(j)) /\ UNCHANGED <<room, subs, lateSubs, owed>>
        /\ list' = IF j.high = j.sent \/ ~list.there THEN list ELSE [list EXCEPT !.lastSent = j.high]
    BY <1>15 DEF SpoolAdvance
  <2>2. JobSound(j) /\ j \in SpoolJobs
    BY <1>0
  <2>3. JobSound(SpoolEnds(j)) /\ KnowsSubscribers(SpoolEnds(j))
    BY <2>1, <2>2 DEF JobSound, SpoolEnds, SpoolIdle, SpoolJobs
  <2>4. ASSUME NEW m \in 1..MaxPosts, NEW a \in Addresses, <<m, a>> \in owed', a \notin lateSubs
        PROVE  m > Mark(a)' /\ StillAhead(SpoolEnds(j), m, a)
    <3>1. m > Mark(a) /\ StillAhead(j, m, a)
      BY <2>1, <2>4
    <3>2. m > Mark(a)'
      BY <1>0, <2>1, <2>2, <3>1 DEF StillAhead
    <3>3. StillAhead(SpoolEnds(j), m, a)
      BY <2>1, <2>2, <3>1 DEF StillAhead, SpoolEnds, SpoolIdle, SpoolJobs
    <3>4. QED
      BY <3>2, <3>3
  <2>5. QED
    BY <2>1, <2>3, <2>4, OwedSet
<1>16. ASSUME NEW w \in Spoolers, SpoolDigest(w) PROVE OwedInv'
  <2> DEFINE j == spool[w]
             pending == Above(j.digest)
             first == {m \in pending : Cardinality({n \in pending : n <= m}) <= DigestMax}
             d == [j EXCEPT !.pc = "digestsend", !.msgs = first]
  <2>1. j.pc = "digest" /\ UNCHANGED <<room, subs, lateSubs, owed, list>>
    BY <1>16 DEF SpoolDigest, SpoolOnly
  <2>2. JobSound(j) /\ j \in SpoolJobs
    BY <1>0
  <2>3. CASE SpoolIs(w, SpoolIdle)
    <3>1. JobSound(SpoolIdle) /\ KnowsSubscribers(SpoolIdle)
      BY DEF JobSound, SpoolIdle
    <3>2. \A m \in 1..MaxPosts, a \in Addresses : StillAhead(SpoolIdle, m, a)
      BY DEF StillAhead, SpoolIdle
    <3>3. QED
      BY <2>1, <2>3, <3>1, <3>2, OwedSet
  <2>4. CASE first # {} /\ SpoolIs(w, d)
    <3>1. pending \subseteq 1..highest
      BY <1>0 DEF Above
    <3>2. ASSUME NEW m \in pending, m \notin first, NEW k \in first PROVE k < m
      <4> DEFINE Upto(x) == {n \in pending : n <= x}
      <4> SUFFICES ASSUME ~(k < m) PROVE FALSE
        OBVIOUS
      <4>1. m \in Nat /\ k \in Nat /\ m <= k /\ k \in pending
        BY <3>1
      <4>2. Upto(m) \subseteq Upto(k)
        BY <3>1, <4>1
      <4>3. IsFiniteSet(1..highest)
        BY <1>0, FS_Interval
      <4>4. IsFiniteSet(Upto(k))
        <5>1. Upto(k) \subseteq 1..highest
          BY <3>1
        <5>2. QED
          BY <4>3, <5>1, FS_Subset
      <4>5. Cardinality(Upto(m)) <= Cardinality(Upto(k)) /\ IsFiniteSet(Upto(m))
        BY <4>2, <4>4, FS_Subset
      <4>6. Cardinality(Upto(m)) \in Nat /\ Cardinality(Upto(k)) \in Nat
        BY <4>4, <4>5, FS_CardinalityType
      <4>7. Cardinality(Upto(k)) <= DigestMax /\ ~(Cardinality(Upto(m)) <= DigestMax)
        BY <3>2
      <4>8. QED
        BY <4>5, <4>6, <4>7
    <3> HIDE DEF first
    <3>3. JobSound(d) /\ KnowsSubscribers(d)
      BY <2>2, <2>4 DEF JobSound, SpoolJobs
    <3>4. ASSUME NEW m \in 1..MaxPosts, NEW a \in Addresses, m \in room, StillAhead(j, m, a) PROVE StillAhead(d, m, a)
      <4>1. KindOf[a] = "digest" => m \in pending
        BY <2>1, <3>4 DEF StillAhead, Above
      <4>2. QED
        BY <2>2, <4>1, <3>2 DEF StillAhead, SpoolJobs
    <3>5. QED
      BY <2>1, <2>4, <3>3, <3>4, OwedSet
  <2>5. QED
    BY <1>16, <2>3, <2>4 DEF SpoolDigest
<1>17. ASSUME NEW w \in Spoolers, SpoolDigestSend(w) PROVE OwedInv'
  <2> DEFINE j == spool[w]
             n == Max(j.msgs)
  <2>1. /\ j.pc = "digestsend" /\ SpoolIs(w, SpoolIdle) /\ UNCHANGED <<room, subs, lateSubs>>
        /\ owed' = owed \ (j.msgs \X {a \in Active : KindOf[a] = "digest"})
        /\ list' = IF list.there THEN [list EXCEPT !.lastDigest = n] ELSE list
    BY <1>17 DEF SpoolDigestSend, Queued
  <2>2. JobSound(j) /\ j \in SpoolJobs /\ JobWithin(j)
    BY <1>0
  <2>3. n \in j.msgs /\ n \in Nat
    BY <1>0, <2>1, <2>2, MaxIsGreatest DEF JobSound, JobWithin, SpoolJobs
  <2> HIDE DEF n
  <2>4. JobSound(SpoolIdle) /\ KnowsSubscribers(SpoolIdle)
    BY DEF JobSound, SpoolIdle
  <2>5. ASSUME NEW m \in 1..MaxPosts, NEW a \in Addresses, <<m, a>> \in owed', a \notin lateSubs
        PROVE  m > Mark(a)' /\ StillAhead(SpoolIdle, m, a)
    <3>1. m > Mark(a) /\ StillAhead(j, m, a) /\ a \in Active
      BY <2>1, <2>5
    <3>2. KindOf[a] = "digest" => m > n
      BY <2>1, <2>3, <2>5, <3>1 DEF StillAhead
    <3>3. m > Mark(a)'
      BY <1>0, <2>1, <3>1, <3>2
    <3>4. StillAhead(SpoolIdle, m, a)
      BY DEF StillAhead, SpoolIdle
    <3>5. QED
      BY <3>3, <3>4
  <2>6. QED
    BY <2>1, <2>4, <2>5, OwedSet
<1>18. CASE ListCrash
  BY <1>18, <1>0 DEF ListCrash, SpoolIdle, JobSound, StillAhead
<1>19. CASE UNCHANGED lvars
  BY <1>19 DEF lvars
<1>20. QED
  BY <1>1, <1>2, <1>3, <1>4, <1>5, <1>6, <1>7, <1>8, <1>9, <1>10,
     <1>11, <1>12, <1>13, <1>14, <1>15, <1>16, <1>17, <1>18, <1>19 DEF ListNext

LEMMA JobFields ==
    ASSUME NEW j \in SpoolJobs
    PROVE  /\ Begun.pc \in {"subs", "digest"} /\ Begun.sent = list.lastSent /\ Begun.digest = list.lastDigest
           /\ Begun.high = list.lastSent
           /\ WithSubs(j).pc = "msgs" /\ WithSubs(j).sent = j.sent /\ WithSubs(j).digest = j.digest
           /\ WithSubs(j).high = j.high
           /\ WithMsgs(j).pc = "send" /\ WithMsgs(j).sent = j.sent /\ WithMsgs(j).digest = j.digest
           /\ WithMsgs(j).high = j.high /\ WithMsgs(j).msgs = Above(j.sent)
           /\ \A n : /\ SentOne(j, n).pc = j.pc /\ SentOne(j, n).sent = j.sent /\ SentOne(j, n).digest = j.digest
                     /\ SentOne(j, n).high = n /\ SentOne(j, n).msgs = j.msgs \ {n}
<1>1. /\ Begun.pc \in {"subs", "digest"} /\ Begun.sent = list.lastSent /\ Begun.digest = list.lastDigest
      /\ Begun.high = list.lastSent
  BY DEF Begun, SpoolIdle
<1>2. /\ WithSubs(j).pc = "msgs" /\ WithSubs(j).sent = j.sent /\ WithSubs(j).digest = j.digest
      /\ WithSubs(j).high = j.high
  BY DEF WithSubs, SpoolJobs
<1>3. /\ WithMsgs(j).pc = "send" /\ WithMsgs(j).sent = j.sent /\ WithMsgs(j).digest = j.digest
      /\ WithMsgs(j).high = j.high /\ WithMsgs(j).msgs = Above(j.sent)
  BY DEF WithMsgs, SpoolJobs
<1>4. \A n : /\ SentOne(j, n).pc = j.pc /\ SentOne(j, n).sent = j.sent /\ SentOne(j, n).digest = j.digest
            /\ SentOne(j, n).high = n /\ SentOne(j, n).msgs = j.msgs \ {n}
  BY DEF SentOne, SpoolJobs
<1>5. QED
  BY <1>1, <1>2, <1>3, <1>4

(* The spooler that steps is the one that was running, and its new job is   *)
(* still on the list.                                                       *)
LEMMA StaysAlone ==
    ASSUME ListTypes, Alone, NEW w \in Spoolers, NEW j, SpoolIs(w, j), UNCHANGED list,
           j.pc # "idle" => OnList(j), spool[w].pc # "idle"
    PROVE  Alone'
<1>1. spool'[w] = j /\ \A v \in Spoolers \ {w} : spool'[v] = spool[v]
  BY DEF ListTypes, SpoolIs
<1>2. \A v \in Spoolers \ {w} : spool[v].pc = "idle"
  BY DEF Alone
<1>3. \A v \in Spoolers : spool'[v].pc # "idle" => v = w
  BY <1>1, <1>2
<1>4. spool'[w].pc # "idle" => OnList(spool[w])'
  BY <1>1 DEF OnList
<1>5. QED
  BY <1>3, <1>4 DEF Alone

LEMMA CopiesStep == ListTypes /\ OwedInv /\ CopiesInv /\ [ListNext]_lvars => CopiesInv'
<1> SUFFICES ASSUME ListTypes, OwedInv, CopiesInv, [ListNext]_lvars, ~overlap'
             PROVE  Alone' /\ \A m \in 1..MaxPosts, a \in Addresses : Copied(m, a)'
  BY DEF CopiesInv
<1> DEFINE Goal == Alone' /\ \A m \in 1..MaxPosts, a \in Addresses : Copied(m, a)'
<1> SUFFICES Goal
  OBVIOUS
<1> USE ListAssumption
<1>0. /\ spool \in [Spoolers -> SpoolJobs] /\ copies \in [(1..MaxPosts) \X Addresses -> 0..2]
      /\ highest \in Nat /\ room \subseteq 1..highest
      /\ list \in [there : BOOLEAN, mode : ListModes, lastSent : 0..MaxPosts, lastDigest : 0..MaxPosts]
      /\ list.lastSent <= highest /\ list.lastDigest <= highest
      /\ \A w \in Spoolers : JobWithin(spool[w]) /\ JobSound(spool[w])
  BY DEF ListTypes, ListTypeOK, OwedInv
<1>1. ASSUME NEW a \in Addresses, AskSubscribe(a) PROVE Goal
  BY <1>1, <1>0 DEF AskSubscribe, CopiesInv, Alone, OnList, Copied, Mark
<1>2. ASSUME NEW a \in Addresses, AskUnsubscribe(a) PROVE Goal
  BY <1>2, <1>0 DEF AskUnsubscribe, CopiesInv, Alone, OnList, Copied, Mark
<1>3. ASSUME NEW a \in Addresses, PostListSubscribe(a) PROVE Goal
  BY <1>3, <1>0 DEF PostListSubscribe, CopiesInv, Alone, OnList, Copied, Mark
<1>4. ASSUME NEW a \in Addresses, PostListUnsubscribe(a) PROVE Goal
  BY <1>4, <1>0 DEF PostListUnsubscribe, CopiesInv, Alone, OnList, Copied, Mark
<1>5. ASSUME NEW x \in mailed, Confirm(x[1], x[2]) PROVE Goal
  BY <1>5, <1>0 DEF Confirm, CopiesInv, Alone, OnList, Copied, Mark
<1>6. CASE ListPost
  BY <1>6, <1>0 DEF ListPost, CopiesInv, Alone, OnList, Copied, Mark
<1>7. ASSUME NEW m \in room, ListMessageDeleted(m) PROVE Goal
  BY <1>7, <1>0 DEF ListMessageDeleted, CopiesInv, Alone, OnList, Copied, Mark
<1>8. ASSUME NEW mode \in ListModes, SetMode(mode) PROVE Goal
  BY <1>8, <1>0 DEF SetMode, CopiesInv, Alone, OnList, Copied, Mark
<1>9. CASE RemoveList
  BY <1>9, <1>0 DEF RemoveList, CopiesInv, Alone, OnList, Copied, Mark
<1>10. CASE SetList
  <2>1. /\ UNCHANGED <<spool, copies>> /\ ~overlap /\ \A w \in Spoolers : spool[w].pc = "idle"
        /\ list'.lastSent = highest /\ list'.lastDigest = highest
    BY <1>10 DEF SetList
  <2>2. ASSUME NEW m \in 1..MaxPosts, NEW a \in Addresses PROVE Copied(m, a)'
    <3>1. Copied(m, a) /\ copies'[<<m, a>>] = copies[<<m, a>>]
      BY <2>1 DEF CopiesInv
    <3>2. Mark(a) <= highest /\ Mark(a)' = highest /\ Mark(a) \in Nat
      BY <1>0, <2>1 DEF Mark
    <3>3. copies[<<m, a>>] > 0 => m <= Mark(a)'
      BY <1>0, <2>1, <3>1, <3>2 DEF Copied
    <3>4. QED
      BY <3>1, <3>3 DEF Copied
  <2>3. QED
    BY <2>1, <2>2 DEF Alone
<1>11. ASSUME NEW w \in Spoolers, SpoolBegin(w) PROVE Goal
  <2>1. /\ SpoolIs(w, Begun) /\ UNCHANGED <<copies, list>> /\ ~overlap /\ list.there
        /\ \A v \in Spoolers : spool[v].pc = "idle"
    BY <1>11 DEF SpoolBegin, SpoolOnly, Begun
  <2>2. spool'[w] = Begun /\ \A v \in Spoolers \ {w} : spool'[v] = spool[v]
    BY <1>0, <2>1 DEF SpoolIs
  <2>3. Alone'
    <3>1. OnList(Begun)
      BY <1>0, <2>1, JobFields, Begun.pc \in {"subs", "digest"} DEF OnList
    <3>2. \A v \in Spoolers : spool'[v].pc # "idle" => v = w
      BY <2>1, <2>2
    <3>3. OnList(spool[w])'
      BY <2>1, <2>2, <3>1 DEF OnList
    <3>4. QED
      BY <3>2, <3>3 DEF Alone
  <2>4. QED
    BY <2>1, <2>2, <2>3 DEF CopiesInv, Copied, Mark
<1>12. ASSUME NEW w \in Spoolers, SpoolSubs(w) PROVE Goal
  <2>1. SpoolIs(w, WithSubs(spool[w])) /\ spool[w].pc = "subs" /\ UNCHANGED <<copies, list, overlap>>
    BY <1>12 DEF SpoolSubs, SpoolOnly, WithSubs
  <2>2. spool'[w] = WithSubs(spool[w]) /\ \A v \in Spoolers \ {w} : spool'[v] = spool[v]
    BY <1>0, <2>1 DEF SpoolIs
  <2>3. Alone'
    <3>1. ~overlap /\ Alone /\ OnList(spool[w])
      BY <2>1 DEF CopiesInv, Alone
    <3>2. OnList(WithSubs(spool[w]))
      BY <1>0, <2>1, <3>1, JobFields DEF OnList
    <3>3. QED
      BY <2>1, <3>1, <3>2, StaysAlone
  <2>4. QED
    BY <2>1, <2>2, <2>3 DEF CopiesInv, Copied, Mark
<1>13. ASSUME NEW w \in Spoolers, SpoolMsgs(w) PROVE Goal
  <2>1. SpoolIs(w, WithMsgs(spool[w])) /\ spool[w].pc = "msgs" /\ UNCHANGED <<copies, list, overlap>>
    BY <1>13 DEF SpoolMsgs, SpoolOnly, WithMsgs
  <2>2. spool'[w] = WithMsgs(spool[w]) /\ \A v \in Spoolers \ {w} : spool'[v] = spool[v]
    BY <1>0, <2>1 DEF SpoolIs
  <2>3. spool[w].high = spool[w].sent
    BY <1>0, <2>1 DEF JobSound
  <2>4. Alone'
    <3>1. ~overlap /\ Alone /\ OnList(spool[w])
      BY <2>1 DEF CopiesInv, Alone
    <3>2. OnList(WithMsgs(spool[w]))
      BY <1>0, <2>1, <2>3, <3>1, JobFields DEF OnList, Above
    <3>3. QED
      BY <2>1, <3>1, <3>2, StaysAlone
  <2>5. QED
    BY <2>1, <2>2, <2>4 DEF CopiesInv, Copied, Mark
<1>14. ASSUME NEW w \in Spoolers, SpoolSend(w) PROVE Goal
  <2> DEFINE j == spool[w]
             n == Min(j.msgs)
  <2>1. /\ j.pc = "send" /\ SpoolIs(w, SentOne(j, n)) /\ UNCHANGED <<list, overlap>>
        /\ copies' = [q \in DOMAIN copies |-> IF q \in ({n} \cap room) \X j.subs /\ copies[q] < 2
                                              THEN copies[q] + 1 ELSE copies[q]]
    BY <1>14 DEF SpoolSend, SpoolOnly, SentOne, Queued
  <2>2. j \in SpoolJobs /\ JobSound(j) /\ ~overlap /\ Alone
    BY <1>0, <2>1 DEF CopiesInv
  <2>3. n \in j.msgs /\ n \in Nat /\ \A k \in j.msgs : n <= k /\ k \in Nat
    BY <1>14, <2>2, MinIsLeast DEF SpoolSend, SpoolJobs
  <2> HIDE DEF n
  <2>4. spool'[w] = SentOne(j, n) /\ \A v \in Spoolers \ {w} : spool'[v] = spool[v]
    BY <1>0, <2>1 DEF SpoolIs
  <2>5. /\ SentOne(j, n).pc = "send" /\ SentOne(j, n).sent = j.sent /\ SentOne(j, n).digest = j.digest
        /\ SentOne(j, n).high = n /\ SentOne(j, n).msgs = j.msgs \ {n}
    BY <2>1, <2>2, JobFields
  <2>6. n > j.high /\ OnList(j)
    BY <2>1, <2>2, <2>3 DEF Alone, OnList
  <2>7. Alone'
    <3>1. \A k \in j.msgs \ {n} : k > n
      BY <2>3
    <3>2. j.sent <= n
      BY <2>1, <2>2, <2>3, <2>6 DEF OnList, SpoolJobs
    <3>3. OnList(SentOne(j, n))
      BY <2>1, <2>5, <2>6, <3>1, <3>2 DEF OnList
    <3>4. QED
      BY <2>1, <2>2, <3>3, StaysAlone
  <2>8. ASSUME NEW m \in 1..MaxPosts, NEW a \in Addresses PROVE Copied(m, a)'
    <3>1. Copied(m, a)
      BY <2>2 DEF CopiesInv
    <3>2. copies'[<<m, a>>] = IF m = n /\ n \in room /\ a \in j.subs /\ copies[<<m, a>>] < 2
                              THEN copies[<<m, a>>] + 1 ELSE copies[<<m, a>>]
      BY <1>0, <2>1
    <3>3. Mark(a)' = Mark(a)
      BY <2>1 DEF Mark
    <3>4. CASE m = n /\ n \in room /\ a \in j.subs /\ copies[<<m, a>>] < 2
      <4>1. KindOf[a] = "post"
        BY <2>1, <2>2, <3>4 DEF JobSound
      <4>2. \A v \in Spoolers : spool[v].pc = "send" => v = w
        BY <2>1, <2>2 DEF Alone
      <4>3. Mark(a) <= j.high
        BY <2>1, <2>6, <4>1 DEF OnList, Mark
      <4>4. copies[<<m, a>>] = 0
        <5>1. copies[<<m, a>>] \in 0..2 /\ Mark(a) \in Nat /\ j.high \in Nat
          BY <1>0, <2>2 DEF Mark, SpoolJobs
        <5>2. QED
          BY <2>3, <2>6, <3>1, <3>4, <4>2, <4>3, <5>1 DEF Copied
      <4>5. spool'[w].pc = "send" /\ m <= spool'[w].high
        BY <2>3, <2>4, <2>5, <3>4
      <4>6. QED
        BY <3>2, <3>4, <4>1, <4>4, <4>5 DEF Copied
    <3>5. CASE copies'[<<m, a>>] = copies[<<m, a>>]
      <4>1. \A v \in Spoolers : spool[v].pc = "send" /\ m <= spool[v].high
               => spool'[v].pc = "send" /\ m <= spool'[v].high
        BY <2>1, <2>2, <2>3, <2>4, <2>5, <2>6 DEF SpoolJobs
      <4>2. QED
        BY <3>1, <3>3, <3>5, <4>1 DEF Copied
    <3>6. QED
      BY <3>2, <3>4, <3>5
  <2>9. QED
    BY <2>7, <2>8
<1>15. ASSUME NEW w \in Spoolers, SpoolAdvance(w) PROVE Goal
  <2> DEFINE j == spool[w]
  <2>1. /\ j.pc = "send" /\ j.msgs = {} /\ SpoolIs(w, SpoolEnds(j)) /\ UNCHANGED <<copies, overlap>>
        /\ list' = IF j.high = j.sent \/ ~list.there THEN list ELSE [list EXCEPT !.lastSent = j.high]
    BY <1>15 DEF SpoolAdvance
  <2>2. j \in SpoolJobs /\ ~overlap /\ Alone
    BY <1>0, <2>1 DEF CopiesInv
  <2>3. /\ list.there /\ j.digest = list.lastDigest /\ j.sent = list.lastSent /\ j.sent <= j.high
        /\ \A v \in Spoolers : spool[v].pc # "idle" => v = w
    BY <2>1, <2>2 DEF Alone, OnList
  <2>4. list'.there /\ list'.lastDigest = list.lastDigest /\ list'.lastSent = j.high
    BY <1>0, <2>1, <2>3
  <2>5. spool'[w] = SpoolEnds(j) /\ \A v \in Spoolers \ {w} : spool'[v] = spool[v]
    BY <1>0, <2>1 DEF SpoolIs
  <2>6. SpoolEnds(j).pc \in {"idle", "digest"} /\ (SpoolEnds(j).pc = "digest" => SpoolEnds(j).digest = j.digest)
    BY <2>2 DEF SpoolEnds, SpoolIdle, SpoolJobs
  <2>7. Alone'
    BY <2>3, <2>4, <2>5, <2>6 DEF Alone, OnList
  <2>8. ASSUME NEW m \in 1..MaxPosts, NEW a \in Addresses PROVE Copied(m, a)'
    <3>1. Copied(m, a) /\ copies'[<<m, a>>] = copies[<<m, a>>]
      BY <2>1, <2>2 DEF CopiesInv
    <3>2. m <= Mark(a) => m <= Mark(a)'
      BY <1>0, <2>2, <2>3, <2>4 DEF Mark, SpoolJobs
    <3>3. KindOf[a] = "post" /\ (\E v \in Spoolers : spool[v].pc = "send" /\ m <= spool[v].high) => m <= Mark(a)'
      BY <2>3, <2>4 DEF Mark
    <3>4. QED
      BY <3>1, <3>2, <3>3 DEF Copied
  <2>9. QED
    BY <2>7, <2>8
<1>16. ASSUME NEW w \in Spoolers, SpoolDigest(w) PROVE Goal
  <2> DEFINE j == spool[w]
             pending == Above(j.digest)
             first == {m \in pending : Cardinality({n \in pending : n <= m}) <= DigestMax}
             d == [j EXCEPT !.pc = "digestsend", !.msgs = first]
  <2>1. j.pc = "digest" /\ UNCHANGED <<copies, list, overlap>> /\ (SpoolIs(w, SpoolIdle) \/ SpoolIs(w, d))
    BY <1>16 DEF SpoolDigest, SpoolOnly
  <2>2. j \in SpoolJobs /\ ~overlap /\ Alone
    BY <1>0, <2>1 DEF CopiesInv
  <2>3. \A k \in first : k > j.digest
    BY DEF Above
  <2> HIDE DEF first
  <2>4. d.pc = "digestsend" /\ d.digest = j.digest /\ d.msgs = first
    BY <2>2 DEF SpoolJobs
  <2>5. spool'[w] \in {SpoolIdle, d} /\ \A v \in Spoolers \ {w} : spool'[v] = spool[v]
    BY <1>0, <2>1 DEF SpoolIs
  <2> HIDE DEF d
  <2>6. Alone'
    <3>1. OnList(j)
      BY <2>1, <2>2 DEF Alone
    <3>2. OnList(d) /\ SpoolIdle.pc = "idle"
      BY <2>3, <2>4, <3>1 DEF OnList, SpoolIdle
    <3>3. QED
      BY <2>1, <2>2, <3>2, StaysAlone
  <2>7. QED
    BY <2>1, <2>2, <2>5, <2>6 DEF CopiesInv, Copied, Mark
<1>17. ASSUME NEW w \in Spoolers, SpoolDigestSend(w) PROVE Goal
  <2> DEFINE j == spool[w]
             n == Max(j.msgs)
             readers == {a \in Active : KindOf[a] = "digest"}
  <2>1. /\ j.pc = "digestsend" /\ SpoolIs(w, SpoolIdle) /\ UNCHANGED overlap
        /\ list' = IF list.there THEN [list EXCEPT !.lastDigest = n] ELSE list
        /\ copies' = [q \in DOMAIN copies |-> IF q \in j.msgs \X readers /\ copies[q] < 2
                                              THEN copies[q] + 1 ELSE copies[q]]
    BY <1>17 DEF SpoolDigestSend, Queued
  <2>2. j \in SpoolJobs /\ JobSound(j) /\ JobWithin(j) /\ ~overlap /\ Alone
    BY <1>0, <2>1 DEF CopiesInv
  <2>3. n \in j.msgs /\ n \in Nat /\ \A k \in j.msgs : k \in Nat /\ k <= n
    BY <1>0, <2>1, <2>2, MaxIsGreatest DEF JobSound, JobWithin, SpoolJobs
  <2> HIDE DEF n
  <2>4. /\ list.there /\ j.digest = list.lastDigest /\ (\A k \in j.msgs : k > list.lastDigest)
        /\ \A v \in Spoolers : spool[v].pc # "idle" => v = w
    BY <2>1, <2>2 DEF Alone, OnList
  <2>5. list'.lastDigest = n /\ list'.lastSent = list.lastSent
    BY <1>0, <2>1, <2>4
  <2>6. \A v \in Spoolers : spool'[v].pc = "idle"
    BY <1>0, <2>1, <2>4 DEF SpoolIs, SpoolIdle
  <2>7. Alone'
    BY <2>6 DEF Alone
  <2>8. ASSUME NEW m \in 1..MaxPosts, NEW a \in Addresses PROVE Copied(m, a)'
    <3>1. Copied(m, a) /\ copies[<<m, a>>] \in 0..2 /\ list.lastDigest \in Nat /\ list.lastSent \in Nat
      BY <1>0, <2>2 DEF CopiesInv
    <3>2. copies'[<<m, a>>] = IF m \in j.msgs /\ a \in readers /\ copies[<<m, a>>] < 2
                              THEN copies[<<m, a>>] + 1 ELSE copies[<<m, a>>]
      BY <1>0, <2>1
    <3>3. CASE m \in j.msgs /\ a \in readers /\ copies[<<m, a>>] < 2
      <4>1. KindOf[a] = "digest" /\ Mark(a) = list.lastDigest /\ Mark(a)' = n
        BY <2>5, <3>3 DEF Mark
      <4>2. copies[<<m, a>>] = 0
        BY <2>4, <3>1, <3>3, <4>1 DEF Copied
      <4>3. QED
        BY <2>3, <3>2, <3>3, <4>1, <4>2 DEF Copied
    <3>4. CASE copies'[<<m, a>>] = copies[<<m, a>>]
      <4>1. m <= Mark(a) => m <= Mark(a)'
        BY <2>3, <2>4, <2>5, <3>1 DEF Mark
      <4>2. \A v \in Spoolers : spool[v].pc # "send"
        BY <2>1, <2>4
      <4>3. QED
        BY <3>1, <3>4, <4>1, <4>2 DEF Copied
    <3>5. QED
      BY <3>2, <3>3, <3>4
  <2>9. QED
    BY <2>7, <2>8
<1>18. CASE ListCrash
  BY <1>18 DEF ListCrash
<1>19. CASE UNCHANGED lvars
  BY <1>19 DEF lvars, CopiesInv, Alone, OnList, Copied, Mark
<1>20. QED
  BY <1>1, <1>2, <1>3, <1>4, <1>5, <1>6, <1>7, <1>8, <1>9, <1>10,
     <1>11, <1>12, <1>13, <1>14, <1>15, <1>16, <1>17, <1>18, <1>19 DEF ListNext

LEMMA ListInitial == ListInit => ListInv
<1> SUFFICES ASSUME ListInit PROVE ListInv
  OBVIOUS
<1> USE ListAssumption DEF ListInit, SpoolIdle
<1>1. ListTypes
  <2>1. spool \in [Spoolers -> SpoolJobs] /\ \A w \in Spoolers : JobWithin(spool[w])
    BY DEF SpoolJobs, JobWithin, ListModes
  <2>2. list \in [there : BOOLEAN, mode : ListModes, lastSent : 0..MaxPosts, lastDigest : 0..MaxPosts]
    BY DEF ListModes
  <2>3. ListTypeOK
    BY <2>2 DEF ListTypeOK
  <2>4. copies \in [(1..MaxPosts) \X Addresses -> 0..2] /\ mailed = {} /\ lateSubs = {} /\ overlap = FALSE /\ admin = 0
    OBVIOUS
  <2>5. list.lastSent <= highest /\ list.lastDigest <= highest
    OBVIOUS
  <2> HIDE DEF ListInit, SpoolIdle
  <2>6. QED
    BY <2>1, <2>3, <2>4, <2>5 DEF ListTypes
<1>2. OwedInv
  BY DEF OwedInv, JobSound, KnowsSubscribers
<1>3. CopiesInv
  BY DEF CopiesInv, Alone, Copied
<1>4. QED
  BY <1>1, <1>2, <1>3 DEF ListInv

LEMMA ListInvStep == ListInv /\ [ListNext]_lvars => ListInv'
BY ListTypesStep, OwedStep, CopiesStep DEF ListInv

(* The types of the list, its subscriptions and its spoolers' registers. *)
THEOREM ListTypeCorrect == ListSpec => []ListTypeOK
<1>1. ListInv => ListTypeOK
  BY DEF ListInv, ListTypes
<1>2. QED
  BY <1>1, ListInitial, ListInvStep, PTL DEF ListSpec

(* The fan-out is exact for any addresses, number of concurrent spoolers,   *)
(* digest size and history of posts, deletions, confirmations, changes of   *)
(* mode, removals and crashes: no watermark passes a message owed to a      *)
(* subscriber who was not late, and while spoolers do not overlap nobody    *)
(* gets a message twice.                                                    *)
THEOREM FanOutIsExact == ListSpec => []CopiesAreExact
<1>1. ListInv => CopiesAreExact
  <2> SUFFICES ASSUME ListInv PROVE FanOutSkipsNobody /\ OneCopyEach
    BY DEF CopiesAreExact
  <2>1. owed \subseteq (1..MaxPosts) \X Addresses /\ DOMAIN copies = (1..MaxPosts) \X Addresses
    BY ListAssumption DEF ListInv, ListTypes, ListTypeOK
  <2>2. FanOutSkipsNobody
    <3> SUFFICES ASSUME NEW q \in owed, q[2] \notin lateSubs PROVE q[1] > Mark(q[2])
      BY DEF FanOutSkipsNobody, Mark
    <3>1. q = <<q[1], q[2]>> /\ q[1] \in 1..MaxPosts /\ q[2] \in Addresses
      BY <2>1
    <3>2. OwedSound(q[1], q[2])
      BY <3>1 DEF ListInv, OwedInv
    <3>3. QED
      BY <3>2 DEF OwedSound
  <2>3. OneCopyEach
    <3> SUFFICES ASSUME ~overlap, NEW q \in DOMAIN copies PROVE copies[q] <= 1
      BY DEF OneCopyEach
    <3>1. q = <<q[1], q[2]>> /\ q[1] \in 1..MaxPosts /\ q[2] \in Addresses
      BY <2>1
    <3>2. Copied(q[1], q[2])
      BY <3>1 DEF ListInv, CopiesInv
    <3>3. QED
      BY <3>1, <3>2 DEF Copied
  <2>4. QED
    BY <2>2, <2>3
<1>2. QED
  BY <1>1, ListInitial, ListInvStep, PTL DEF ListSpec

-----------------------------------------------------------------------------
(* Inbound mail *)

(* A delivery on its way to the insert, and the users it is for.            *)
InTransit == {"rcpt", "script", "insert"}
Meant(j) == UNION {Resolve[a].users : a \in j.rcpts}
Claims(j) == j.cur \cup Owners(j.rooms)

(* A dialogue between two transactions, and one that has a message; past is *)
(* what the vacation table holds.                                           *)
Between(j) ==
    j.pc = "cmd" => /\ j.letter = NoLetter /\ j.todo = {} /\ j.cur = {} /\ j.rooms = {} /\ j.over = {}
                    /\ j.sent = {} /\ j.known = {} /\ j.ok = TRUE
Sender(j) ==
    /\ j.pc # "cmd" => j.letter \in Letters /\ j.open = TRUE
    /\ j.open = TRUE => j.sender \in Senders
    /\ j.mode = "lmtp" => j.spf = NoVerdict
    /\ j.open = TRUE /\ j.spf.res = "pass" => j.spf.of = j.sender
Loop(j) ==
    j.pc \in InTransit => /\ j.todo \cup Claims(j) \subseteq Meant(j)
                          /\ j.over \cap (j.todo \cup Claims(j)) = {}
                          /\ j.todo \cap Claims(j) = {}
Quiet(j, past) ==
    /\ j.known \subseteq past
    /\ \A u \in j.sent : <<u, j.sender>> \in past \/ (j.pc = "vacrecord" /\ j.cur = {u})
    /\ j.pc = "vacsend" => \A u \in j.cur : <<u, j.sender>> \notin j.known

ConnOK(j, past) == Between(j) /\ Sender(j) /\ Loop(j) /\ Quiet(j, past)

OneLetter ==
    \A c, d \in Conns : c # d /\ conn[c].pc # "cmd" /\ conn[d].pc # "cmd" => conn[c].letter # conn[d].letter

ConnInv ==
    /\ InboundTypeOK
    /\ \A c \in Conns : ConnOK(conn[c], replied)
    /\ wire \subseteq replied
    /\ OneLetter

LEMMA ConnsTyped == InboundTypeOK => conn \in [Conns -> ConnStates]
BY DEF InboundTypeOK

LEMMA OwnersOf ==
    /\ \A R : Owners(R) \subseteq Users
    /\ Owners({}) = {}
    /\ Owners({<<"public", "room">>}) = {}
    /\ \A R, u, f : Owners(R \cup {<<u, f>>}) \subseteq Owners(R) \cup {u}
<1>1. \A f \in Folders : f # "room"
  BY DEF Folders
<1> QED
  BY <1>1 DEF Owners

LEMMA GreetingIs ==
    ASSUME NEW mode \in {"mx", "lmtp"}, NEW n \in Nat, NEW past
    PROVE  LET k == [Greeting(mode) EXCEPT !.mails = n]
           IN  k \in ConnStates /\ ConnOK(k, past) /\ k.pc = "cmd" /\ k.open = FALSE /\ k.letter = NoLetter
<1>0. PICK k : k = [Greeting(mode) EXCEPT !.mails = n]
  OBVIOUS
<1>1. k \in ConnStates
  BY <1>0 DEF Greeting, ConnStates, NoVerdict
<1>2. /\ k.pc = "cmd" /\ k.mode = mode /\ k.open = FALSE /\ k.rcpts = {} /\ k.letter = NoLetter
      /\ k.spf = NoVerdict /\ k.todo = {} /\ k.cur = {} /\ k.rooms = {} /\ k.over = {} /\ k.sent = {} /\ k.known = {} /\ k.ok = TRUE
  BY <1>0 DEF Greeting
<1>3. NoVerdict.res = "none"
  BY DEF NoVerdict
<1>4. ConnOK(k, past)
  BY <1>1, <1>2, <1>3 DEF ConnOK, Between, Sender, Loop, Quiet, InTransit
<1> QED
  BY <1>0, <1>1, <1>2, <1>4

-----------------------------------------------------------------------------
(* What a step does to the deliveries. *)

Turns(c, k) == conn' = [conn EXCEPT ![c] = k] /\ k \in ConnStates /\ ConnOK(k, replied') /\ UNCHANGED filter

(* Nothing that others see changes, except that the vacation table grows. *)
Calm(j, k) ==
    /\ k.pc = "cmd" <=> j.pc = "cmd"
    /\ k.letter = j.letter
    /\ j.pc # "cmd" => k.rcpts = j.rcpts
    /\ k.pc \in InTransit => j.pc \in InTransit /\ Claims(k) \subseteq Claims(j)
    /\ j.pc # "cmd" /\ j.pc \notin InTransit => k.ok = j.ok /\ k.over = j.over
Moves(c, k) ==
    /\ Turns(c, k) /\ Calm(conn[c], k)
    /\ replied \subseteq replied' /\ replied' \subseteq Users \X Senders
    /\ UNCHANGED <<crowded, kept, got, wire, letter>>

(* A user is found to have room. *)
Checks(c, u, k) ==
    /\ Turns(c, k) /\ conn[c].pc = "rcpt" /\ k.pc = "script"
    /\ u \in conn[c].todo /\ Claims(k) \subseteq Claims(conn[c]) \cup {u} /\ u \in Claims(k)
    /\ k.letter = conn[c].letter /\ k.rcpts = conn[c].rcpts
    /\ ~WouldExceed(u, Size[conn[c].letter])
    /\ crowded' = IF Limit[u] > 0 /\ \E d \in Conns \ {c} : Checked(d, u) THEN crowded \cup {u} ELSE crowded
    /\ UNCHANGED <<kept, got, replied, wire, letter>>

(* The body of letter m is read. *)
Starts(c, m, k) ==
    /\ Turns(c, k) /\ conn[c].pc = "cmd" /\ k.pc \in {"rcpt", "reply"} /\ k.letter = m /\ Claims(k) = {}
    /\ m \in Letters /\ k.rcpts = conn[c].rcpts
    /\ \A a \in k.rcpts : letter[m][a] \in {"none", "later"}
    /\ \A d \in Conns : conn[d].letter # m
    /\ UNCHANGED <<crowded, kept, got, replied, wire, letter>>

(* A delivery is over, or its letter was refused at once. *)
Ends(c, m, k) ==
    /\ Turns(c, k) /\ k.pc = "cmd"
    /\ m \in Letters /\ (conn[c].pc # "cmd" => conn[c].letter = m)
    /\ letter' \in [Letters -> [Addrs -> Answers]]
    /\ \A n \in Letters, a \in Addrs : n # m \/ a \notin conn[c].rcpts => letter'[n][a] = letter[n][a]
    /\ \A a \in conn[c].rcpts : letter'[m][a] \in {"none", "later"} =>
           conn[c].pc = "reply" /\ (conn[c].ok = TRUE => Resolve[a].users \subseteq conn[c].over)
    /\ wire \subseteq wire' /\ wire' \subseteq replied
    /\ UNCHANGED <<crowded, kept, got, replied>>

(* The letter is stored. *)
Stores(c, k) ==
    LET to == {<<u, conn[c].letter>> : u \in Owners(conn[c].rooms)} IN
    /\ conn[c].pc = "insert" /\ k.pc = "vacation" /\ k \in ConnStates /\ ConnOK(k, replied)
    /\ conn' \in [Conns -> ConnStates] /\ conn'[c] = k
    /\ \A d \in Conns \ {c} : ConnOK(conn'[d], replied) /\ Calm(conn[d], conn'[d])
    /\ k.letter = conn[c].letter /\ k.rcpts = conn[c].rcpts /\ k.over = conn[c].over /\ k.ok = TRUE
    /\ kept' = kept \cup to
    /\ got' = [p \in DOMAIN got |-> IF p \in to THEN CopyMore(got[p]) ELSE got[p]]
    /\ UNCHANGED <<filter, crowded, replied, wire, letter>>

-----------------------------------------------------------------------------
LEMMA OfMxMail == ASSUME ConnInv, NEW c \in Conns, NEW s \in SendersOf[c], MxMail(c, s) PROVE \E k : Moves(c, k)
<1> DEFINE j == conn[c]
<1>1. j \in ConnStates /\ ConnOK(j, replied) /\ replied \subseteq Users \X Senders /\ s \in Senders
  BY InboundAssumption DEF ConnInv, InboundTypeOK
<1>2. j.pc = "cmd" /\ replied' = replied /\ UNCHANGED <<crowded, kept, got, wire, letter, filter>>
  BY DEF MxMail
<1>3. PICK res \in {"none", "pass", "fail"} :
        /\ j.mode = "mx" \/ res = j.spf.res
        /\ LET k == [j EXCEPT !.mails = @ + 1, !.spf = IF j.mode = "mx" THEN [of |-> s, res |-> res] ELSE @]
           IN  Say(c, IF j.mode = "mx" /\ res = "fail" /\ "spf" \in Enforce THEN k
                      ELSE [k EXCEPT !.sender = s, !.rcpts = {}, !.open = TRUE])
  <2>1. j.spf.res \in {"none", "pass", "fail"}
    BY <1>1 DEF ConnStates
  <2> QED
    BY <2>1 DEF MxMail
<1>4. PICK v : v = IF j.mode = "mx" THEN [of |-> s, res |-> res] ELSE j.spf
  OBVIOUS
<1>5. PICK n \in Nat : n = j.mails + 1
  BY <1>1 DEF ConnStates
<1>5a. PICK k : k = [j EXCEPT !.mails = n, !.spf = v]
  OBVIOUS
<1>6. /\ v \in [of : Senders \cup {NoSender}, res : {"none", "pass", "fail"}]
      /\ j.mode = "lmtp" => v = j.spf
      /\ j.mode # "lmtp" => v.of = s /\ v.res = res
  BY <1>1, <1>4 DEF ConnStates
<1>7. /\ k \in ConnStates /\ k.pc = "cmd" /\ k.letter = j.letter /\ k.cur = j.cur /\ k.rooms = j.rooms /\ k.todo = j.todo
      /\ k.over = j.over /\ k.sent = j.sent /\ k.known = j.known /\ k.ok = j.ok /\ k.open = j.open /\ k.sender = j.sender
      /\ k.mode = j.mode /\ k.spf = v /\ k.rcpts = j.rcpts
  BY <1>1, <1>2, <1>5a, <1>6 DEF ConnStates
<1>8. PICK e : e = [k EXCEPT !.sender = s, !.rcpts = {}, !.open = TRUE]
  OBVIOUS
<1>9. /\ e \in ConnStates /\ e.pc = "cmd" /\ e.letter = k.letter /\ e.cur = k.cur /\ e.rooms = k.rooms /\ e.todo = k.todo
      /\ e.over = k.over /\ e.sent = k.sent /\ e.known = k.known /\ e.ok = k.ok /\ e.open = TRUE /\ e.sender = s
      /\ e.mode = k.mode /\ e.spf = k.spf /\ e.rcpts = {}
  BY <1>1, <1>7, <1>8 DEF ConnStates
<1>10. j.mode \in {"mx", "lmtp"}
  BY <1>1 DEF ConnStates
<1>11. conn' = [conn EXCEPT ![c] = IF j.mode = "mx" /\ res = "fail" /\ "spf" \in Enforce THEN k ELSE e]
  BY <1>3, <1>4, <1>5, <1>5a, <1>8 DEF Say
<1>12. CASE j.mode = "mx" /\ res = "fail" /\ "spf" \in Enforce
  <2>1. ConnOK(k, replied)
    BY <1>1, <1>2, <1>6, <1>7, <1>12 DEF ConnOK, Between, Sender, Loop, Quiet, InTransit
  <2>2. Calm(j, k)
    BY <1>1, <1>2, <1>7 DEF Calm, Claims, InTransit
  <2> QED
    BY <1>1, <1>2, <1>7, <1>11, <1>12, <2>1, <2>2 DEF Moves, Turns
<1>13. CASE ~(j.mode = "mx" /\ res = "fail" /\ "spf" \in Enforce)
  <2>1. ConnOK(e, replied)
    <3>1. e.mode = "lmtp" => e.spf = NoVerdict
      BY <1>1, <1>6, <1>7, <1>9 DEF ConnOK, Sender
    <3>2. e.spf.res = "pass" => e.spf.of = e.sender
      <4>1. CASE j.mode = "lmtp"
        BY <3>1, <1>7, <1>9, <4>1 DEF NoVerdict
      <4>2. CASE j.mode # "lmtp"
        BY <1>6, <1>7, <1>9, <4>2
      <4> QED
        BY <4>1, <4>2
    <3> QED
      BY <1>1, <1>2, <1>7, <1>9, <3>1, <3>2 DEF ConnOK, Between, Sender, Loop, Quiet, InTransit
  <2>2. Calm(j, e)
    BY <1>1, <1>2, <1>7, <1>9 DEF Calm, Claims, InTransit
  <2> QED
    BY <1>1, <1>2, <1>9, <1>11, <1>13, <2>1, <2>2 DEF Moves, Turns
<1> QED
  BY <1>12, <1>13

LEMMA OfMxRcpt == ASSUME ConnInv, NEW c \in Conns, NEW a \in Addrs, MxRcpt(c, a) PROVE \E k : Moves(c, k)
<1> DEFINE j == conn[c]
<1>1. j \in ConnStates /\ ConnOK(j, replied) /\ replied \subseteq Users \X Senders
  BY DEF ConnInv, InboundTypeOK
<1>2. j.pc = "cmd" /\ replied' = replied /\ UNCHANGED <<crowded, kept, got, wire, letter, filter>>
  BY DEF MxRcpt
<1>3. PICK k : k = [j EXCEPT !.rcpts = @ \cup {a}]
  OBVIOUS
<1>4. /\ k \in ConnStates /\ k.pc = "cmd" /\ k.letter = j.letter /\ k.cur = j.cur /\ k.rooms = j.rooms /\ k.todo = j.todo
      /\ k.over = j.over /\ k.sent = j.sent /\ k.known = j.known /\ k.ok = j.ok /\ k.open = j.open /\ k.sender = j.sender
      /\ k.mode = j.mode /\ k.spf = j.spf
  BY <1>1, <1>2, <1>3 DEF ConnStates
<1>5. conn' = [conn EXCEPT ![c] = k]
  BY <1>3 DEF MxRcpt, Say
<1>6. ConnOK(k, replied)
  BY <1>1, <1>2, <1>4 DEF ConnOK, Between, Sender, Loop, Quiet, InTransit
<1>7. Calm(j, k)
  BY <1>1, <1>2, <1>4 DEF Calm, Claims, InTransit
<1> QED
  BY <1>1, <1>2, <1>4, <1>5, <1>6, <1>7 DEF Moves, Turns

LEMMA ResetIs ==
    ASSUME NEW j \in ConnStates, NEW past
    PROVE  LET k == ResetTransaction(j)
           IN  k \in ConnStates /\ ConnOK(k, past) /\ k.pc = "cmd" /\ k.letter = NoLetter
<1>1. PICK mode \in {"mx", "lmtp"}, n \in Nat : mode = j.mode /\ n = j.mails
  BY DEF ConnStates
<1>2. ResetTransaction(j) = [Greeting(mode) EXCEPT !.mails = n]
  BY <1>1 DEF ResetTransaction
<1>3. PICK k : k = [Greeting(mode) EXCEPT !.mails = n]
  OBVIOUS
<1>4. k \in ConnStates /\ ConnOK(k, past) /\ k.pc = "cmd" /\ k.letter = NoLetter
  BY <1>3, GreetingIs
<1> QED
  BY <1>2, <1>3, <1>4

LEMMA OfMxRset == ASSUME ConnInv, NEW c \in Conns, MxRset(c) PROVE \E k : Moves(c, k)
<1> DEFINE j == conn[c]
<1>1. j \in ConnStates /\ ConnOK(j, replied) /\ replied \subseteq Users \X Senders
  BY DEF ConnInv, InboundTypeOK
<1>2. j.pc = "cmd" /\ replied' = replied /\ UNCHANGED <<crowded, kept, got, wire, letter, filter>>
  BY DEF MxRset
<1>3. PICK k : k = ResetTransaction(j)
  OBVIOUS
<1>4. k \in ConnStates /\ ConnOK(k, replied) /\ k.pc = "cmd" /\ k.letter = NoLetter
  BY <1>1, <1>3, ResetIs
<1>5. conn' = [conn EXCEPT ![c] = k]
  BY <1>3 DEF MxRset, Say
<1>6. Calm(j, k)
  BY <1>1, <1>2, <1>4 DEF Calm, InTransit, ConnOK, Between
<1> QED
  BY <1>1, <1>2, <1>4, <1>5, <1>6 DEF Moves, Turns

LEMMA SettleIs ==
    ASSUME NEW m \in Letters, NEW R \in SUBSET Addrs, NEW answer \in [Addrs -> Answers], Settle(m, R, answer),
           letter \in [Letters -> [Addrs -> Answers]]
    PROVE  /\ letter' \in [Letters -> [Addrs -> Answers]]
           /\ \A n \in Letters, a \in Addrs : n # m \/ a \notin R => letter'[n][a] = letter[n][a]
           /\ \A a \in R : letter'[m][a] = answer[a]
<1>1. PICK f : f = [a \in Addrs |-> IF a \in R THEN answer[a] ELSE letter[m][a]]
  OBVIOUS
<1>2. letter[m] \in [Addrs -> Answers]
  OBVIOUS
<1>3. f \in [Addrs -> Answers]
  BY <1>1, <1>2
<1>4. letter' = [letter EXCEPT ![m] = f]
  BY <1>1 DEF Settle
<1> QED
  BY <1>1, <1>3, <1>4

LEMMA OfDataRejected == ASSUME ConnInv, NEW c \in Conns, NEW m \in Letters, DataRejected(c, m) PROVE \E k : Ends(c, m, k)
<1> DEFINE j == conn[c]
<1>1. j \in ConnStates /\ letter \in [Letters -> [Addrs -> Answers]] /\ wire \subseteq replied
  BY DEF ConnInv, InboundTypeOK
<1>2. j.pc = "cmd" /\ replied' = replied /\ UNCHANGED <<filter, crowded, kept, replied, got, wire>>
  BY DEF DataRejected, Offers
<1>3. PICK k : k = ResetTransaction(j)
  OBVIOUS
<1>4. k \in ConnStates /\ ConnOK(k, replied) /\ k.pc = "cmd"
  BY <1>1, <1>3, ResetIs
<1>5. conn' = [conn EXCEPT ![c] = k] /\ Settle(m, j.rcpts, [a \in Addrs |-> "never"])
  BY <1>3 DEF DataRejected, Say
<1>6. [a \in Addrs |-> "never"] \in [Addrs -> Answers] /\ j.rcpts \in SUBSET Addrs
  BY <1>1 DEF Answers, ConnStates
<1>7. /\ letter' \in [Letters -> [Addrs -> Answers]]
      /\ \A n \in Letters, a \in Addrs : n # m \/ a \notin j.rcpts => letter'[n][a] = letter[n][a]
      /\ \A a \in j.rcpts : letter'[m][a] = [b \in Addrs |-> "never"][a]
  BY <1>1, <1>5, <1>6, SettleIs
<1>8. \A a \in j.rcpts : letter'[m][a] = "never"
  BY <1>6, <1>7
<1> QED
  BY <1>1, <1>2, <1>4, <1>5, <1>7, <1>8 DEF Ends, Turns

LEMMA OfMxData == ASSUME ConnInv, NEW c \in Conns, NEW m \in Letters, MxData(c, m) PROVE \E k : Starts(c, m, k)
<1> DEFINE j == conn[c]
<1>1. j \in ConnStates /\ ConnOK(j, replied) /\ wire \subseteq replied /\ wire \in SUBSET (Users \X Senders)
  BY DEF ConnInv, InboundTypeOK
<1>2. j.pc = "cmd" /\ replied' = replied /\ UNCHANGED <<filter, crowded, kept, replied, got, wire, letter>>
  BY DEF MxData, Offers
<1>3. /\ j.open = TRUE /\ \A a \in j.rcpts : letter[m][a] \in {"none", "later"}
      /\ \A d \in Conns : conn[d].letter # m
  BY <1>1 DEF MxData, Offers, ConnStates
<1>4. PICK rooms : rooms = IF \E a \in j.rcpts : Resolve[a].room THEN {<<"public", "room">>} ELSE {}
  OBVIOUS
<1>5. rooms \in SUBSET InRooms /\ Owners(rooms) = {}
  BY <1>4, OwnersOf DEF InRooms
<1>6. Meant(j) \in SUBSET Users
  <2>1. \A a \in j.rcpts : Resolve[a].users \in SUBSET Users
    BY <1>1, InboundAssumption DEF ConnStates
  <2> QED
    BY <2>1 DEF Meant
<1>7. PICK q \in {FALSE} \cup {j.mode = "mx" /\ "dmarc" \in Enforce} :
        Say(c, [j EXCEPT !.letter = m, !.quarantine = q, !.todo = Meant(j), !.rooms = rooms, !.known = wire, !.spf = NoVerdict,
                         !.pc = IF Meant(j) = {} /\ rooms = {} THEN "reply" ELSE "rcpt"])
  BY <1>4 DEF MxData, Meant
<1>8. PICK b \in BOOLEAN : b = q
  BY <1>7
<1>9. PICK pc \in {"reply", "rcpt"} : pc = IF Meant(j) = {} /\ rooms = {} THEN "reply" ELSE "rcpt"
  OBVIOUS
<1>9a. PICK users \in SUBSET Users : users = Meant(j)
  BY <1>6
<1>10. PICK k : k = [j EXCEPT !.letter = m, !.quarantine = b, !.todo = users, !.rooms = rooms, !.known = wire,
                              !.spf = NoVerdict, !.pc = pc]
  OBVIOUS
<1>11. NoVerdict \in [of : Senders \cup {NoSender}, res : {"none", "pass", "fail"}] /\ NoVerdict.res = "none"
  BY DEF NoVerdict
<1>11a. k \in ConnStates
  <2>1. PICK e : e = [j EXCEPT !.letter = m, !.quarantine = b, !.todo = users, !.rooms = rooms]
    OBVIOUS
  <2>2. e \in ConnStates
    BY <1>1, <1>5, <1>8, <1>9a, <2>1 DEF ConnStates
  <2>3. PICK w \in SUBSET (Users \X Senders), v \in [of : Senders \cup {NoSender}, res : {"none", "pass", "fail"}] :
            w = wire /\ v = NoVerdict
    BY <1>1, <1>11
  <2>3a. k = [e EXCEPT !.known = w, !.spf = v, !.pc = pc]
    BY <1>10, <2>1, <2>3
  <2>4. pc \in {"cmd", "rcpt", "script", "insert", "vacation", "vacsend", "vacrecord", "reply"}
    BY <1>9
  <2> QED
    BY <2>2, <2>3a, <2>4 DEF ConnStates
<1>12. /\ k \in ConnStates /\ k.pc = pc /\ k.letter = m /\ k.cur = j.cur /\ k.rooms = rooms /\ k.todo = users
       /\ k.over = j.over /\ k.sent = j.sent /\ k.known = wire /\ k.ok = j.ok /\ k.open = j.open /\ k.sender = j.sender
       /\ k.mode = j.mode /\ k.spf = NoVerdict /\ k.rcpts = j.rcpts
  BY <1>1, <1>10, <1>11a DEF ConnStates
<1>13. conn' = [conn EXCEPT ![c] = k]
  BY <1>7, <1>8, <1>9, <1>9a, <1>10 DEF Say
<1>14. Claims(k) = {} /\ Meant(k) = Meant(j)
  BY <1>1, <1>2, <1>5, <1>12 DEF ConnOK, Between, Claims, Meant
<1>15. ConnOK(k, replied)
  <2>1. Between(k) /\ Sender(k)
    BY <1>1, <1>3, <1>11, <1>12 DEF ConnOK, Between, Sender
  <2>2. Loop(k)
    BY <1>1, <1>2, <1>9a, <1>12, <1>14 DEF ConnOK, Between, Loop
  <2>3. Quiet(k, replied)
    BY <1>1, <1>2, <1>12 DEF ConnOK, Between, Quiet
  <2> QED
    BY <2>1, <2>2, <2>3 DEF ConnOK
<1> QED
  BY <1>2, <1>3, <1>12, <1>13, <1>14, <1>15 DEF Starts, Turns
-----------------------------------------------------------------------------
LEMMA OfRcptQuota ==
    ASSUME ConnInv, NEW c \in Conns, NEW u \in Users, RcptQuota(c, u)
    PROVE  \E k : Moves(c, k) \/ Checks(c, u, k)
<1> DEFINE j == conn[c]
<1>1. j \in ConnStates /\ ConnOK(j, replied) /\ replied \subseteq Users \X Senders
  BY DEF ConnInv, InboundTypeOK
<1>2. /\ j.pc = "rcpt" /\ u \in j.todo /\ replied' = replied
      /\ UNCHANGED <<filter, kept, replied, got, wire, letter>>
  BY DEF RcptQuota
<1>3. CASE WouldExceed(u, Size[j.letter])
  <2>1. PICK k : k = [j EXCEPT !.todo = @ \ {u}, !.over = @ \cup {u}]
    OBVIOUS
  <2>2. /\ k \in ConnStates /\ k.pc = "rcpt" /\ k.letter = j.letter /\ k.cur = j.cur /\ k.rooms = j.rooms
        /\ k.todo = j.todo \ {u} /\ k.over = j.over \cup {u} /\ k.sent = j.sent /\ k.known = j.known
        /\ k.open = j.open /\ k.sender = j.sender /\ k.mode = j.mode /\ k.spf = j.spf /\ k.rcpts = j.rcpts
    BY <1>1, <1>2, <2>1 DEF ConnStates
  <2>3. conn' = [conn EXCEPT ![c] = k] /\ crowded' = crowded
    BY <1>3, <2>1 DEF RcptQuota, Say
  <2>4. Claims(k) = Claims(j) /\ Meant(k) = Meant(j)
    BY <2>2 DEF Claims, Meant
  <2>5. ConnOK(k, replied)
    <3>1. Between(k) /\ Sender(k)
      BY <1>1, <1>2, <2>2 DEF ConnOK, Between, Sender
    <3>2. Loop(k)
      BY <1>1, <1>2, <2>2, <2>4 DEF ConnOK, Loop, InTransit
    <3>3. Quiet(k, replied)
      BY <1>1, <1>2, <2>2 DEF ConnOK, Quiet
    <3> QED
      BY <3>1, <3>2, <3>3 DEF ConnOK
  <2>6. Calm(j, k)
    BY <1>2, <2>2, <2>4 DEF Calm, InTransit
  <2> QED
    BY <1>1, <1>2, <2>2, <2>3, <2>5, <2>6 DEF Moves, Turns
<1>4. CASE ~WouldExceed(u, Size[j.letter])
  <2>1. PICK k : k = [j EXCEPT !.todo = @ \ {u}, !.cur = {u}, !.pc = "script"]
    OBVIOUS
  <2>2. /\ k \in ConnStates /\ k.pc = "script" /\ k.letter = j.letter /\ k.cur = {u} /\ k.rooms = j.rooms
        /\ k.todo = j.todo \ {u} /\ k.over = j.over /\ k.sent = j.sent /\ k.known = j.known
        /\ k.open = j.open /\ k.sender = j.sender /\ k.mode = j.mode /\ k.spf = j.spf /\ k.rcpts = j.rcpts
    BY <1>1, <1>2, <2>1 DEF ConnStates
  <2>3. /\ conn' = [conn EXCEPT ![c] = k]
        /\ crowded' = IF Limit[u] > 0 /\ \E d \in Conns \ {c} : Checked(d, u) THEN crowded \cup {u} ELSE crowded
    BY <1>4, <2>1 DEF RcptQuota, Say
  <2>4. Claims(k) \subseteq Claims(j) \cup {u} /\ u \in Claims(k) /\ Meant(k) = Meant(j)
    BY <2>2 DEF Claims, Meant
  <2>5. ConnOK(k, replied)
    <3>1. Between(k) /\ Sender(k)
      BY <1>1, <1>2, <2>2 DEF ConnOK, Between, Sender
    <3>2. Loop(k)
      BY <1>1, <1>2, <2>2, <2>4 DEF ConnOK, Loop, InTransit
    <3>3. Quiet(k, replied)
      BY <1>1, <1>2, <2>2 DEF ConnOK, Quiet
    <3> QED
      BY <3>1, <3>2, <3>3 DEF ConnOK
  <2> QED
    BY <1>1, <1>2, <1>4, <2>2, <2>3, <2>4, <2>5 DEF Checks, Turns
<1> QED
  BY <1>3, <1>4

LEMMA OfRcptScript == ASSUME ConnInv, NEW c \in Conns, NEW u \in Users, RcptScript(c, u) PROVE \E k : Moves(c, k)
<1> DEFINE j == conn[c]
<1>1. j \in ConnStates /\ ConnOK(j, replied) /\ replied \subseteq Users \X Senders
  BY DEF ConnInv, InboundTypeOK
<1>2. /\ j.pc = "script" /\ j.cur = {u} /\ replied' = replied
      /\ UNCHANGED <<filter, crowded, kept, replied, got, wire, letter>>
  BY DEF RcptScript
<1>3. PICK folder \in Folders, rooms \in SUBSET InRooms, rejected \in SUBSET Users, vacations \in SUBSET Users :
        /\ rooms = j.rooms \/ rooms = j.rooms \cup {<<u, folder>>}
        /\ Say(c, [j EXCEPT !.cur = {}, !.pc = "rcpt", !.rooms = rooms, !.rejected = rejected, !.vacations = vacations])
  <2> DEFINE does == IF j.quarantine THEN "quarantine" ELSE filter[u]
             folder == CASE does = "quarantine" -> "Quarantine" [] does = "file" -> "Other" [] OTHER -> "Mail"
             rooms == IF does \in {"redirect", "discard", "reject"} THEN j.rooms ELSE j.rooms \cup {<<u, folder>>}
             rejected == IF does = "reject" THEN j.rejected \cup {u} ELSE j.rejected
             vacations == IF does = "vacation" THEN j.vacations \cup {u} ELSE j.vacations
  <2>1. folder \in Folders
    BY DEF Folders
  <2>2. rejected \in SUBSET Users /\ vacations \in SUBSET Users
    BY <1>1 DEF ConnStates
  <2>3. [[j EXCEPT !.cur = {}, !.pc = "rcpt"] EXCEPT !.rooms = rooms, !.rejected = rejected, !.vacations = vacations]
        = [j EXCEPT !.cur = {}, !.pc = "rcpt", !.rooms = rooms, !.rejected = rejected, !.vacations = vacations]
    OBVIOUS
  <2>4. PICK k : k = [j EXCEPT !.cur = {}, !.pc = "rcpt"]
    OBVIOUS
  <2>5. k.rooms = j.rooms /\ k.rejected = j.rejected /\ k.vacations = j.vacations
    BY <1>1, <2>4 DEF ConnStates
  <2>6. Say(c, [k EXCEPT !.rooms = rooms, !.rejected = rejected, !.vacations = vacations])
    BY <2>4, <2>5 DEF RcptScript
  <2>7. Say(c, [j EXCEPT !.cur = {}, !.pc = "rcpt", !.rooms = rooms, !.rejected = rejected, !.vacations = vacations])
    BY <2>3, <2>4, <2>6
  <2>8. rooms = j.rooms \/ rooms = j.rooms \cup {<<u, folder>>}
    OBVIOUS
  <2>9. rooms \in SUBSET InRooms
    <3>1. j.rooms \in SUBSET InRooms /\ <<u, folder>> \in InRooms
      BY <1>1, <2>1 DEF ConnStates, InRooms
    <3> HIDE DEF rooms, folder
    <3> QED
      BY <2>8, <3>1
  <2> HIDE DEF does, folder, rooms, rejected, vacations
  <2> QED
    BY <2>1, <2>2, <2>7, <2>8, <2>9
<1>4. rooms \in SUBSET InRooms /\ Owners(rooms) \subseteq Owners(j.rooms) \cup {u}
  <2>2. Owners(j.rooms \cup {<<u, folder>>}) \subseteq Owners(j.rooms) \cup {u}
    BY DEF Owners
  <2> QED
    BY <1>3, <2>2
<1>5. PICK k : k = [j EXCEPT !.cur = {}, !.pc = "rcpt", !.rooms = rooms, !.rejected = rejected, !.vacations = vacations]
  OBVIOUS
<1>6. /\ k \in ConnStates /\ k.pc = "rcpt" /\ k.letter = j.letter /\ k.cur = {} /\ k.rooms = rooms
      /\ k.todo = j.todo /\ k.over = j.over /\ k.sent = j.sent /\ k.known = j.known
      /\ k.open = j.open /\ k.sender = j.sender /\ k.mode = j.mode /\ k.spf = j.spf /\ k.rcpts = j.rcpts
  BY <1>1, <1>3, <1>4, <1>5 DEF ConnStates
<1>7. conn' = [conn EXCEPT ![c] = k]
  BY <1>3, <1>5 DEF Say
<1>8. Claims(k) \subseteq Claims(j) /\ Meant(k) = Meant(j)
  BY <1>2, <1>4, <1>6 DEF Claims, Meant
<1>9. ConnOK(k, replied)
  <2>1. Between(k) /\ Sender(k)
    BY <1>1, <1>2, <1>6 DEF ConnOK, Between, Sender
  <2>2. Loop(k)
    BY <1>1, <1>2, <1>6, <1>8 DEF ConnOK, Loop, InTransit
  <2>3. Quiet(k, replied)
    BY <1>1, <1>2, <1>6 DEF ConnOK, Quiet
  <2> QED
    BY <2>1, <2>2, <2>3 DEF ConnOK
<1>10. Calm(j, k)
  BY <1>2, <1>6, <1>8 DEF Calm, InTransit
<1> QED
  BY <1>1, <1>2, <1>6, <1>7, <1>9, <1>10 DEF Moves, Turns

LEMMA OfInsertBegin == ASSUME ConnInv, NEW c \in Conns, InsertBegin(c) PROVE \E k : Moves(c, k)
<1> DEFINE j == conn[c]
<1>1. j \in ConnStates /\ ConnOK(j, replied) /\ replied \subseteq Users \X Senders
  BY DEF ConnInv, InboundTypeOK
<1>2. j.pc = "rcpt" /\ replied' = replied /\ UNCHANGED <<filter, crowded, kept, replied, got, wire, letter>>
  BY DEF InsertBegin
<1>3. PICK pc \in {"vacation", "reply", "insert"}, ok \in BOOLEAN, stale \in SUBSET InRooms :
        Say(c, [j EXCEPT !.pc = pc, !.ok = ok, !.stale = stale])
  <2>1. j.ok \in BOOLEAN /\ j.stale \in SUBSET InRooms /\ {} \in SUBSET InRooms
    BY <1>1 DEF ConnStates
  <2>2. /\ [j EXCEPT !.pc = "vacation"] = [j EXCEPT !.pc = "vacation", !.ok = j.ok, !.stale = j.stale]
        /\ [j EXCEPT !.pc = "reply", !.ok = FALSE] = [j EXCEPT !.pc = "reply", !.ok = FALSE, !.stale = j.stale]
        /\ [j EXCEPT !.pc = "insert", !.stale = {}] = [j EXCEPT !.pc = "insert", !.ok = j.ok, !.stale = {}]
    BY <1>1 DEF ConnStates
  <2>3. CASE j.rooms = {}
    BY <2>1, <2>2, <2>3 DEF InsertBegin
  <2>4. CASE j.rooms # {} /\ \E u \in Owners(j.rooms) : IsOver(u)
    BY <2>1, <2>2, <2>4 DEF InsertBegin
  <2>5. CASE j.rooms # {} /\ ~\E u \in Owners(j.rooms) : IsOver(u)
    BY <2>1, <2>2, <2>5 DEF InsertBegin
  <2> QED
    BY <2>3, <2>4, <2>5
<1>4. PICK k : k = [j EXCEPT !.pc = pc, !.ok = ok, !.stale = stale]
  OBVIOUS
<1>4a. k \in ConnStates
  <2>1. pc \in {"cmd", "rcpt", "script", "insert", "vacation", "vacsend", "vacrecord", "reply"}
    BY <1>3
  <2> QED
    BY <1>1, <1>3, <1>4, <2>1 DEF ConnStates
<1>5. /\ k \in ConnStates /\ k.pc = pc /\ k.letter = j.letter /\ k.cur = j.cur /\ k.rooms = j.rooms
      /\ k.todo = j.todo /\ k.over = j.over /\ k.sent = j.sent /\ k.known = j.known
      /\ k.open = j.open /\ k.sender = j.sender /\ k.mode = j.mode /\ k.spf = j.spf /\ k.rcpts = j.rcpts
  BY <1>1, <1>4, <1>4a DEF ConnStates
<1>6. conn' = [conn EXCEPT ![c] = k]
  BY <1>3, <1>4 DEF Say
<1>7. Claims(k) = Claims(j) /\ Meant(k) = Meant(j)
  BY <1>5 DEF Claims, Meant
<1>8. ConnOK(k, replied)
  <2>1. Between(k) /\ Sender(k)
    BY <1>1, <1>2, <1>3, <1>5 DEF ConnOK, Between, Sender
  <2>2. Loop(k)
    BY <1>1, <1>2, <1>5, <1>7 DEF ConnOK, Loop, InTransit
  <2>3. Quiet(k, replied)
    BY <1>1, <1>2, <1>3, <1>5 DEF ConnOK, Quiet
  <2> QED
    BY <2>1, <2>2, <2>3 DEF ConnOK
<1>9. Calm(j, k)
  BY <1>2, <1>3, <1>5, <1>7 DEF Calm, InTransit
<1> QED
  BY <1>1, <1>2, <1>5, <1>6, <1>8, <1>9 DEF Moves, Turns
-----------------------------------------------------------------------------
LEMMA OfInsertCommit ==
    ASSUME ConnInv, NEW c \in Conns, InsertCommit(c)
    PROVE  \E k : Moves(c, k) \/ Stores(c, k)
<1> DEFINE j == conn[c]
<1>0. conn \in [Conns -> ConnStates]
  BY DEF ConnInv, InboundTypeOK
<1>1. j \in ConnStates /\ ConnOK(j, replied) /\ replied \subseteq Users \X Senders
  BY DEF ConnInv, InboundTypeOK
<1>2. j.pc = "insert" /\ replied' = replied /\ UNCHANGED <<filter, crowded, replied, wire, letter>>
  BY DEF InsertCommit
<1>3. PICK aborts \in BOOLEAN : aborts = (j.stale \cap j.rooms # {})
  OBVIOUS
<1>4. PICK pc \in {"reply", "vacation"}, ok \in BOOLEAN : pc = (IF aborts THEN "reply" ELSE "vacation") /\ ok = ~aborts
  BY <1>3
<1>5. PICK k : k = [j EXCEPT !.pc = pc, !.ok = ok, !.stale = {}, !.rooms = {}, !.quarantine = FALSE]
  OBVIOUS
<1>5a. k \in ConnStates
  <2>1. pc \in {"cmd", "rcpt", "script", "insert", "vacation", "vacsend", "vacrecord", "reply"} /\ {} \in SUBSET InRooms
    BY <1>4
  <2>2. PICK e : e = [j EXCEPT !.pc = pc, !.ok = ok]
    OBVIOUS
  <2>3. e \in ConnStates
    <3>1. ok \in BOOLEAN /\ pc \in {"cmd", "rcpt", "script", "insert", "vacation", "vacsend", "vacrecord", "reply"}
      BY <1>4
    <3> QED
      BY <1>1, <2>2, <3>1 DEF ConnStates
  <2>4. k = [e EXCEPT !.stale = {}, !.rooms = {}, !.quarantine = FALSE]
    BY <1>5, <2>2
  <2> QED
    BY <2>1, <2>3, <2>4 DEF ConnStates
<1>6. /\ k \in ConnStates /\ k.pc = pc /\ k.letter = j.letter /\ k.cur = j.cur /\ k.rooms = {} /\ k.ok = ok
      /\ k.todo = j.todo /\ k.over = j.over /\ k.sent = j.sent /\ k.known = j.known
      /\ k.open = j.open /\ k.sender = j.sender /\ k.mode = j.mode /\ k.spf = j.spf /\ k.rcpts = j.rcpts
  BY <1>1, <1>5, <1>5a DEF ConnStates
<1>7. ConnOK(k, replied)
  <2>1. Between(k) /\ Sender(k)
    BY <1>1, <1>2, <1>4, <1>6 DEF ConnOK, Between, Sender
  <2>2. Loop(k)
    BY <1>4, <1>6 DEF Loop, InTransit
  <2>3. Quiet(k, replied)
    BY <1>1, <1>2, <1>4, <1>6 DEF ConnOK, Quiet
  <2> QED
    BY <2>1, <2>2, <2>3 DEF ConnOK
<1>8. conn' = [d \in Conns |->
                 IF d = c THEN k
                 ELSE IF ~aborts /\ conn[d].pc = "insert" THEN [conn[d] EXCEPT !.stale = @ \cup j.rooms] ELSE conn[d]]
  BY <1>3, <1>4, <1>5 DEF InsertCommit
<1>9. CASE aborts
  <2>1. conn' = [conn EXCEPT ![c] = k]
    BY <1>0, <1>8, <1>9
  <2>2. Calm(j, k)
    BY <1>2, <1>4, <1>6, <1>9 DEF Calm, InTransit
  <2>3. kept' = kept /\ got' = got
    BY <1>3, <1>9 DEF InsertCommit
  <2> QED
    BY <1>1, <1>2, <1>6, <1>7, <2>1, <2>2, <2>3 DEF Moves, Turns
<1>10. CASE ~aborts
  <2>1. ASSUME NEW d \in Conns \ {c}
        PROVE  conn'[d] \in ConnStates /\ ConnOK(conn'[d], replied) /\ Calm(conn[d], conn'[d])
    <3>1. PICK e \in ConnStates : e = conn[d] /\ ConnOK(e, replied)
      BY DEF ConnInv, InboundTypeOK
    <3>2. PICK stale \in SUBSET InRooms : stale = e.stale \cup j.rooms
      BY <1>1, <3>1 DEF ConnStates
    <3>3. PICK f : f = [e EXCEPT !.stale = stale]
      OBVIOUS
    <3>4. /\ f \in ConnStates /\ f.pc = e.pc /\ f.letter = e.letter /\ f.cur = e.cur /\ f.rooms = e.rooms /\ f.ok = e.ok
          /\ f.todo = e.todo /\ f.over = e.over /\ f.sent = e.sent /\ f.known = e.known
          /\ f.open = e.open /\ f.sender = e.sender /\ f.mode = e.mode /\ f.spf = e.spf /\ f.rcpts = e.rcpts
      BY <3>1, <3>2, <3>3 DEF ConnStates
    <3>5. conn'[d] = f \/ conn'[d] = e
      BY <1>8, <3>1, <3>2, <3>3
    <3>6. Claims(f) = Claims(e) /\ Meant(f) = Meant(e)
      BY <3>4 DEF Claims, Meant
    <3>7. ConnOK(f, replied)
      <4>1. Between(f) /\ Sender(f)
        BY <3>1, <3>4 DEF ConnOK, Between, Sender
      <4>2. Loop(f)
        BY <3>1, <3>4, <3>6 DEF ConnOK, Loop
      <4>3. Quiet(f, replied)
        BY <3>1, <3>4 DEF ConnOK, Quiet
      <4> QED
        BY <4>1, <4>2, <4>3 DEF ConnOK
    <3>8. Calm(e, f) /\ Calm(e, e)
      BY <3>4, <3>6 DEF Calm
    <3> QED
      BY <3>1, <3>4, <3>5, <3>7, <3>8
  <2>2. conn' \in [Conns -> ConnStates] /\ conn'[c] = k
    <3>1. conn'[c] = k /\ DOMAIN conn' = Conns
      BY <1>8
    <3>2. \A d \in Conns : conn'[d] \in ConnStates
      BY <1>6, <2>1, <3>1
    <3>3. conn' = [d \in Conns |-> conn'[d]]
      BY <1>8
    <3> QED
      BY <3>1, <3>2, <3>3
  <2>3. /\ kept' = kept \cup {<<u, j.letter>> : u \in Owners(j.rooms)}
        /\ got' = [p \in DOMAIN got |-> IF p \in {<<u, j.letter>> : u \in Owners(j.rooms)} THEN CopyMore(got[p]) ELSE got[p]]
    BY <1>3, <1>10 DEF InsertCommit
  <2>4. k.pc = "vacation" /\ k.ok = TRUE
    BY <1>4, <1>6, <1>10
  <2> QED
    BY <1>2, <1>6, <1>7, <2>1, <2>2, <2>3, <2>4 DEF Stores
<1> QED
  BY <1>9, <1>10

(* The vacation answers of a delivery whose letter is stored. *)
(* What one of them leaves: pc, those who may still answer, who does now,   *)
(* and who has.                                                             *)
Answering(c, pc, vacations, cur, sent) ==
    /\ Say(c, [conn[c] EXCEPT !.pc = pc, !.vacations = vacations, !.cur = cur, !.sent = sent])
    /\ replied \subseteq replied' /\ replied' \subseteq Users \X Senders
    /\ UNCHANGED <<filter, crowded, kept, got, wire, letter>>
    /\ \A u \in sent : <<u, conn[c].sender>> \in replied' \/ (pc = "vacrecord" /\ cur = {u})
    /\ pc = "vacsend" => \A u \in cur : <<u, conn[c].sender>> \notin replied

LEMMA VacationMove ==
    ASSUME ConnInv, NEW c \in Conns, conn[c].pc \in {"vacation", "vacsend", "vacrecord"},
           NEW pc \in {"vacation", "vacsend", "vacrecord", "reply"}, NEW vacations \in SUBSET Users,
           NEW cur \in SUBSET Users, NEW sent \in SUBSET Users, Answering(c, pc, vacations, cur, sent)
    PROVE  \E k : Moves(c, k)
<1> DEFINE j == conn[c]
<1>1. j \in ConnStates /\ ConnOK(j, replied) /\ replied \subseteq Users \X Senders
  BY DEF ConnInv, InboundTypeOK
<1>2. /\ j.pc \in {"vacation", "vacsend", "vacrecord"} /\ replied \subseteq replied' /\ UNCHANGED <<filter, crowded, kept, got, wire, letter>>
  BY DEF Answering
<1>4. /\ Say(c, [j EXCEPT !.pc = pc, !.vacations = vacations, !.cur = cur, !.sent = sent])
      /\ replied' \subseteq Users \X Senders
      /\ \A u \in sent : <<u, j.sender>> \in replied' \/ (pc = "vacrecord" /\ cur = {u})
      /\ pc = "vacsend" => \A u \in cur : <<u, j.sender>> \notin replied
  BY DEF Answering
<1>5. PICK k : k = [j EXCEPT !.pc = pc, !.vacations = vacations, !.cur = cur, !.sent = sent]
  OBVIOUS
<1>6. /\ k \in ConnStates /\ k.pc = pc /\ k.letter = j.letter /\ k.cur = cur /\ k.rooms = j.rooms
      /\ k.todo = j.todo /\ k.over = j.over /\ k.sent = sent /\ k.known = j.known /\ k.ok = j.ok
      /\ k.open = j.open /\ k.sender = j.sender /\ k.mode = j.mode /\ k.spf = j.spf /\ k.rcpts = j.rcpts
  BY <1>1, <1>5 DEF ConnStates
<1>7. conn' = [conn EXCEPT ![c] = k]
  BY <1>4, <1>5 DEF Say
<1>8. ConnOK(k, replied')
  <2>1. Between(k) /\ Sender(k)
    BY <1>1, <1>2, <1>6 DEF ConnOK, Between, Sender
  <2>2. Loop(k)
    BY <1>6 DEF Loop, InTransit
  <2>3. j.known \subseteq replied
    BY <1>1 DEF ConnOK, Quiet
  <2>4. Quiet(k, replied')
    BY <1>2, <1>4, <1>6, <2>3 DEF Quiet
  <2> QED
    BY <2>1, <2>2, <2>4 DEF ConnOK
<1>9. Calm(j, k)
  BY <1>2, <1>6 DEF Calm, InTransit
<1> QED
  BY <1>1, <1>2, <1>4, <1>6, <1>7, <1>8, <1>9 DEF Moves, Turns

LEMMA OfVacations ==
    ASSUME ConnInv, NEW c \in Conns,
           (\E u \in Users : VacationAlreadySent(c, u) \/ SendVacation(c, u) \/ RecordVacation(c, u))
             \/ VacationOverRate(c) \/ VacationsDone(c)
    PROVE  \E k : Moves(c, k)
<1>1. PICK j : j = conn[c]
  OBVIOUS
<1>2. j \in ConnStates /\ ConnOK(j, replied) /\ replied \subseteq Users \X Senders
  BY <1>1 DEF ConnInv, InboundTypeOK
<1>3. /\ j.pc \in {"vacation", "vacsend", "vacrecord"} /\ replied \subseteq replied'
      /\ UNCHANGED <<filter, crowded, kept, got, wire, letter>>
  BY <1>1 DEF VacationAlreadySent, SendVacation, RecordVacation, VacationOverRate, VacationsDone
<1>4. j.sender \in Senders
  BY <1>2, <1>3 DEF ConnOK, Sender
<1>5. j.vacations \in SUBSET Users /\ j.cur \in SUBSET Users /\ j.sent \in SUBSET Users
  BY <1>2 DEF ConnStates
<1>6. \A u \in j.sent : <<u, j.sender>> \in replied \/ (j.pc = "vacrecord" /\ j.cur = {u})
  BY <1>2 DEF ConnOK, Quiet
<1>7. SUFFICES \E pc \in {"vacation", "vacsend", "vacrecord", "reply"}, v \in SUBSET Users, cur \in SUBSET Users, sent \in SUBSET Users :
                   Answering(c, pc, v, cur, sent)
  BY <1>1, <1>3, VacationMove
<1>8. ASSUME NEW u \in Users, VacationAlreadySent(c, u), <<u, j.sender>> \in replied PROVE Answering(c, j.pc, j.vacations \ {u}, j.cur, j.sent)
  <2>1. Say(c, [j EXCEPT !.pc = j.pc, !.vacations = j.vacations \ {u}, !.cur = j.cur, !.sent = j.sent])
    <3>1. [j EXCEPT !.vacations = @ \ {u}] = [j EXCEPT !.pc = j.pc, !.vacations = j.vacations \ {u}, !.cur = j.cur, !.sent = j.sent]
      BY <1>2 DEF ConnStates
    <3> QED
      BY <1>1, <1>8, <3>1 DEF VacationAlreadySent
  <2>2. j.pc = "vacation" /\ replied' = replied
    BY <1>1, <1>8 DEF VacationAlreadySent
  <2> QED
    BY <1>1, <1>2, <1>3, <1>6, <2>1, <2>2 DEF Answering
<1>9. ASSUME NEW u \in Users, VacationAlreadySent(c, u), <<u, j.sender>> \notin replied PROVE Answering(c, "vacsend", j.vacations \ {u}, {u}, j.sent)
  <2>1. Say(c, [j EXCEPT !.pc = "vacsend", !.vacations = j.vacations \ {u}, !.cur = {u}, !.sent = j.sent])
    <3>1. [j EXCEPT !.vacations = @ \ {u}, !.cur = {u}, !.pc = "vacsend"]
          = [j EXCEPT !.pc = "vacsend", !.vacations = j.vacations \ {u}, !.cur = {u}, !.sent = j.sent]
      BY <1>2 DEF ConnStates
    <3> QED
      BY <1>1, <1>9, <3>1 DEF VacationAlreadySent
  <2>2. j.pc = "vacation" /\ replied' = replied
    BY <1>1, <1>9 DEF VacationAlreadySent
  <2> QED
    BY <1>1, <1>2, <1>3, <1>6, <1>9, <2>1, <2>2 DEF Answering
<1>10. ASSUME NEW u \in Users, SendVacation(c, u) PROVE Answering(c, "vacrecord", j.vacations, j.cur, j.sent \cup {u})
  <2>1. Say(c, [j EXCEPT !.pc = "vacrecord", !.vacations = j.vacations, !.cur = j.cur, !.sent = j.sent \cup {u}])
    <3>1. [j EXCEPT !.pc = "vacrecord", !.sent = @ \cup {u}]
          = [j EXCEPT !.pc = "vacrecord", !.vacations = j.vacations, !.cur = j.cur, !.sent = j.sent \cup {u}]
      BY <1>2 DEF ConnStates
    <3> QED
      BY <1>1, <1>10, <3>1 DEF SendVacation
  <2>2. j.pc = "vacsend" /\ j.cur = {u} /\ replied' = replied
    BY <1>1, <1>10 DEF SendVacation
  <2> QED
    BY <1>1, <1>2, <1>3, <1>6, <2>1, <2>2 DEF Answering
<1>11. ASSUME NEW u \in Users, RecordVacation(c, u) PROVE Answering(c, "vacation", j.vacations, {}, j.sent)
  <2>1. Say(c, [j EXCEPT !.pc = "vacation", !.vacations = j.vacations, !.cur = {}, !.sent = j.sent])
    <3>1. [j EXCEPT !.cur = {}, !.pc = "vacation"] = [j EXCEPT !.pc = "vacation", !.vacations = j.vacations, !.cur = {}, !.sent = j.sent]
      BY <1>2 DEF ConnStates
    <3> QED
      BY <1>1, <1>11, <3>1 DEF RecordVacation
  <2>2. j.pc = "vacrecord" /\ j.cur = {u} /\ replied' = replied \cup {<<u, j.sender>>}
    BY <1>1, <1>11 DEF RecordVacation
  <2>3. \A w \in j.sent : <<w, j.sender>> \in replied'
    <3> TAKE w \in j.sent
    <3>1. {w} = {u} => w = u
      OBVIOUS
    <3> QED
      BY <1>6, <2>2, <3>1
  <2>4. replied' \subseteq Users \X Senders
    <3>1. <<u, j.sender>> \in Users \X Senders
      BY <1>4
    <3> QED
      BY <1>2, <2>2, <3>1
  <2> QED
    BY <1>1, <1>3, <2>1, <2>3, <2>4 DEF Answering
<1>12. ASSUME VacationOverRate(c) PROVE Answering(c, "vacation", j.vacations, {}, j.sent)
  <2>1. Say(c, [j EXCEPT !.pc = "vacation", !.vacations = j.vacations, !.cur = {}, !.sent = j.sent])
    <3>1. [j EXCEPT !.cur = {}, !.pc = "vacation"] = [j EXCEPT !.pc = "vacation", !.vacations = j.vacations, !.cur = {}, !.sent = j.sent]
      BY <1>2 DEF ConnStates
    <3> QED
      BY <1>1, <1>12, <3>1 DEF VacationOverRate
  <2>2. j.pc = "vacsend" /\ replied' = replied
    BY <1>1, <1>12 DEF VacationOverRate
  <2> QED
    BY <1>1, <1>2, <1>3, <1>6, <2>1, <2>2 DEF Answering
<1>13. ASSUME VacationsDone(c) PROVE Answering(c, "reply", j.vacations, j.cur, j.sent)
  <2>1. Say(c, [j EXCEPT !.pc = "reply", !.vacations = j.vacations, !.cur = j.cur, !.sent = j.sent])
    <3>1. [j EXCEPT !.pc = "reply"] = [j EXCEPT !.pc = "reply", !.vacations = j.vacations, !.cur = j.cur, !.sent = j.sent]
      BY <1>2 DEF ConnStates
    <3> QED
      BY <1>1, <1>13, <3>1 DEF VacationsDone
  <2>2. j.pc = "vacation" /\ replied' = replied
    BY <1>1, <1>13 DEF VacationsDone
  <2> QED
    BY <1>1, <1>2, <1>3, <1>6, <2>1, <2>2 DEF Answering
<1>14. \A u \in Users : {u} \in SUBSET Users /\ j.vacations \ {u} \in SUBSET Users /\ j.sent \cup {u} \in SUBSET Users
  BY <1>5
<1>15. ASSUME NEW u \in Users, VacationAlreadySent(c, u)
       PROVE  \E pc \in {"vacation", "vacsend", "vacrecord", "reply"}, v \in SUBSET Users, cur \in SUBSET Users, sent \in SUBSET Users :
                  Answering(c, pc, v, cur, sent)
  <2>1. CASE <<u, j.sender>> \in replied
    BY <1>3, <1>5, <1>8, <1>14, <1>15, <2>1
  <2>2. CASE <<u, j.sender>> \notin replied
    BY <1>5, <1>9, <1>14, <1>15, <2>2
  <2> QED
    BY <2>1, <2>2
<1>16. CASE \E u \in Users : SendVacation(c, u)
  BY <1>5, <1>10, <1>14, <1>16
<1>17. CASE (\E u \in Users : RecordVacation(c, u)) \/ VacationOverRate(c) \/ VacationsDone(c)
  <2>1. {} \in SUBSET Users
    OBVIOUS
  <2> QED
    BY <1>5, <1>11, <1>12, <1>13, <1>17, <2>1
<1> QED
  BY <1>15, <1>16, <1>17

LEMMA OfReply == ASSUME ConnInv, NEW c \in Conns, Reply(c) PROVE \E k : Ends(c, conn[c].letter, k)
<1> DEFINE j == conn[c]
<1>1. j \in ConnStates /\ ConnOK(j, replied) /\ letter \in [Letters -> [Addrs -> Answers]] /\ wire \subseteq replied
  BY DEF ConnInv, InboundTypeOK
<1>2. j.pc = "reply" /\ replied' = replied /\ UNCHANGED <<filter, crowded, kept, got>>
  BY DEF Reply
<1>3. j.letter \in Letters /\ j.rcpts \in SUBSET Addrs /\ j.ok \in BOOLEAN
  BY <1>1, <1>2 DEF ConnOK, Sender, ConnStates
<1>4. PICK k : k = ResetTransaction(j)
  OBVIOUS
<1>5. k \in ConnStates /\ ConnOK(k, replied) /\ k.pc = "cmd"
  BY <1>1, <1>4, ResetIs
<1>6. conn' = [conn EXCEPT ![c] = k] /\ wire' = wire \cup {<<u, j.sender>> : u \in j.sent}
  BY <1>4 DEF Reply, Say
<1>7. PICK answer : answer = [a \in Addrs |-> Answer(j, a)]
  OBVIOUS
<1>8. \A a \in Addrs : Answer(j, a) \in Answers
  BY DEF Answer, Answers
<1>9. /\ letter' \in [Letters -> [Addrs -> Answers]]
      /\ \A n \in Letters, a \in Addrs : n # j.letter \/ a \notin j.rcpts => letter'[n][a] = letter[n][a]
      /\ \A a \in j.rcpts : letter'[j.letter][a] = answer[a]
  <2>1. answer \in [Addrs -> Answers] /\ Settle(j.letter, j.rcpts, answer)
    BY <1>7, <1>8 DEF Reply
  <2> QED
    BY <1>1, <1>3, <2>1, SettleIs
<1>10. ASSUME NEW a \in j.rcpts, letter'[j.letter][a] \in {"none", "later"}, j.ok = TRUE
       PROVE  Resolve[a].users \subseteq j.over
  <2>1. a \in Addrs /\ Answer(j, a) \in {"none", "later"}
    BY <1>3, <1>7, <1>9, <1>10
  <2>2. Full(j, a)
    BY <1>10, <2>1 DEF Answer
  <2> QED
    BY <2>2 DEF Full
<1>11. wire' \subseteq replied
  <2>1. \A u \in j.sent : <<u, j.sender>> \in replied
    BY <1>1, <1>2 DEF ConnOK, Quiet
  <2> QED
    BY <1>1, <1>6, <2>1
<1>12. wire \subseteq wire'
  BY <1>6
<1> QED
  BY <1>2, <1>3, <1>5, <1>6, <1>9, <1>10, <1>11, <1>12 DEF Ends, Turns
-----------------------------------------------------------------------------
LEMMA InboundKinds ==
    ASSUME ConnInv, InboundNext
    PROVE  \/ \E c \in Conns : \E k : Moves(c, k) \/ Stores(c, k)
           \/ \E c \in Conns, u \in Users : \E k : Checks(c, u, k)
           \/ \E c \in Conns, m \in Letters : \E k : Starts(c, m, k) \/ Ends(c, m, k)
           \/ \E u \in Users, m \in Letters : UserDeletes(u, m)
<1>1. CASE \E u \in Users, m \in Letters : UserDeletes(u, m)
  BY <1>1
<1>2. ASSUME NEW c \in Conns,
             \/ \E s \in SendersOf[c] : MxMail(c, s)
             \/ \E a \in Addrs : MxRcpt(c, a)
             \/ MxRset(c)
             \/ \E u \in Users : RcptScript(c, u)
             \/ InsertBegin(c)
      PROVE  \E k : Moves(c, k)
  BY <1>2, OfMxMail, OfMxRcpt, OfMxRset, OfRcptScript, OfInsertBegin
<1>3. ASSUME NEW c \in Conns, NEW m \in Letters, MxData(c, m) \/ DataRejected(c, m)
      PROVE  \E k : Starts(c, m, k) \/ Ends(c, m, k)
  BY <1>3, OfMxData, OfDataRejected
<1>4. ASSUME NEW c \in Conns, NEW u \in Users, RcptQuota(c, u) PROVE \E k : Moves(c, k) \/ Checks(c, u, k)
  BY <1>4, OfRcptQuota
<1>5. ASSUME NEW c \in Conns, InsertCommit(c) PROVE \E k : Moves(c, k) \/ Stores(c, k)
  BY <1>5, OfInsertCommit
<1>6. ASSUME NEW c \in Conns,
             (\E u \in Users : VacationAlreadySent(c, u) \/ SendVacation(c, u) \/ RecordVacation(c, u))
               \/ VacationOverRate(c) \/ VacationsDone(c)
      PROVE  \E k : Moves(c, k)
  BY <1>6, OfVacations
<1>7. ASSUME NEW c \in Conns, Reply(c) PROVE \E m \in Letters : \E k : Ends(c, m, k)
  <2>1. PICK k : Ends(c, conn[c].letter, k)
    BY <1>7, OfReply
  <2>2. conn[c].letter \in Letters
    BY <2>1 DEF Ends
  <2> QED
    BY <2>1, <2>2
<1>8. CASE ~\E u \in Users, m \in Letters : UserDeletes(u, m)
  <2>1. PICK c \in Conns :
          \/ \E s \in SendersOf[c] : MxMail(c, s)
          \/ \E a \in Addrs : MxRcpt(c, a)
          \/ MxRset(c)
          \/ \E m \in Letters : MxData(c, m) \/ DataRejected(c, m)
          \/ \E u \in Users : RcptQuota(c, u)
          \/ \E u \in Users : RcptScript(c, u)
          \/ InsertBegin(c)
          \/ InsertCommit(c)
          \/ (\E u \in Users : VacationAlreadySent(c, u) \/ SendVacation(c, u) \/ RecordVacation(c, u))
               \/ VacationOverRate(c) \/ VacationsDone(c)
          \/ Reply(c)
    BY <1>8 DEF InboundNext
  <2> QED
    BY <1>2, <1>3, <1>4, <1>5, <1>6, <1>7, <2>1
<1> QED
  BY <1>1, <1>8

LEMMA StillOK == ASSUME NEW j, NEW past, NEW more, ConnOK(j, past), past \subseteq more PROVE ConnOK(j, more)
BY DEF ConnOK, Quiet

LEMMA Turned ==
    ASSUME ConnInv, NEW c \in Conns, NEW k, Turns(c, k), replied \subseteq replied'
    PROVE  /\ conn' \in [Conns -> ConnStates] /\ conn'[c] = k /\ \A d \in Conns \ {c} : conn'[d] = conn[d]
           /\ \A d \in Conns : ConnOK(conn'[d], replied')
<1>1. conn' \in [Conns -> ConnStates] /\ conn'[c] = k /\ \A d \in Conns \ {c} : conn'[d] = conn[d]
  BY DEF Turns, ConnInv, InboundTypeOK
<1>2. ConnOK(conn'[c], replied')
  BY <1>1 DEF Turns
<1>3. ASSUME NEW d \in Conns \ {c} PROVE ConnOK(conn'[d], replied')
  BY <1>1, StillOK DEF ConnInv
<1> QED
  BY <1>1, <1>2, <1>3

LEMMA InboundTyped ==
    ASSUME ConnInv, conn' \in [Conns -> ConnStates], \A d \in Conns : ConnOK(conn'[d], replied'), UNCHANGED filter,
           kept' \subseteq Users \X Letters, replied' \subseteq Users \X Senders,
           got' \in [Users \X Letters -> 0..(Cardinality(Conns) + 1)], wire' \subseteq replied',
           crowded' \subseteq Users, letter' \in [Letters -> [Addrs -> Answers]], OneLetter'
    PROVE  ConnInv'
<1>1. \A d \in Conns : conn'[d].pc = "cmd" => conn'[d].letter = NoLetter /\ conn'[d].rooms = {} /\ conn'[d].over = {}
  BY DEF ConnOK, Between
<1>2. InboundTypeOK'
  BY <1>1 DEF InboundTypeOK, ConnInv
<1> QED
  BY <1>2 DEF ConnInv

LEMMA MovesKeeps == ASSUME ConnInv, NEW c \in Conns, NEW k, Moves(c, k) PROVE ConnInv'
<1>1. /\ conn' \in [Conns -> ConnStates] /\ conn'[c] = k /\ \A d \in Conns \ {c} : conn'[d] = conn[d]
      /\ \A d \in Conns : ConnOK(conn'[d], replied')
  BY Turned DEF Moves
<1>2. OneLetter'
  BY <1>1 DEF Moves, Calm, OneLetter, ConnInv
<1>3. wire' \subseteq replied'
  BY DEF Moves, ConnInv
<1> QED
  BY <1>1, <1>2, <1>3, InboundTyped DEF Moves, Turns, ConnInv, InboundTypeOK

LEMMA ChecksKeeps == ASSUME ConnInv, NEW c \in Conns, NEW u \in Users, NEW k, Checks(c, u, k) PROVE ConnInv'
<1>1. /\ conn' \in [Conns -> ConnStates] /\ conn'[c] = k /\ \A d \in Conns \ {c} : conn'[d] = conn[d]
      /\ \A d \in Conns : ConnOK(conn'[d], replied')
  BY Turned DEF Checks
<1>2. OneLetter'
  BY <1>1 DEF Checks, OneLetter, ConnInv
<1>3. wire' \subseteq replied' /\ crowded' \subseteq Users
  BY DEF Checks, ConnInv, InboundTypeOK
<1> QED
  BY <1>1, <1>2, <1>3, InboundTyped DEF Checks, Turns, ConnInv, InboundTypeOK

LEMMA StartsKeeps == ASSUME ConnInv, NEW c \in Conns, NEW m \in Letters, NEW k, Starts(c, m, k) PROVE ConnInv'
<1>1. /\ conn' \in [Conns -> ConnStates] /\ conn'[c] = k /\ \A d \in Conns \ {c} : conn'[d] = conn[d]
      /\ \A d \in Conns : ConnOK(conn'[d], replied')
  BY Turned DEF Starts
<1>2. OneLetter'
  BY <1>1 DEF Starts, OneLetter, ConnInv
<1>3. wire' \subseteq replied'
  BY DEF Starts, ConnInv
<1> QED
  BY <1>1, <1>2, <1>3, InboundTyped DEF Starts, Turns, ConnInv, InboundTypeOK

LEMMA EndsKeeps == ASSUME ConnInv, NEW c \in Conns, NEW m \in Letters, NEW k, Ends(c, m, k) PROVE ConnInv'
<1>1. /\ conn' \in [Conns -> ConnStates] /\ conn'[c] = k /\ \A d \in Conns \ {c} : conn'[d] = conn[d]
      /\ \A d \in Conns : ConnOK(conn'[d], replied')
  BY Turned DEF Ends
<1>2. OneLetter'
  BY <1>1 DEF Ends, OneLetter, ConnInv
<1>3. wire' \subseteq replied'
  BY DEF Ends
<1> QED
  BY <1>1, <1>2, <1>3, InboundTyped DEF Ends, Turns, ConnInv, InboundTypeOK

LEMMA StoresKeeps == ASSUME ConnInv, NEW c \in Conns, NEW k, Stores(c, k) PROVE ConnInv'
<1>1. PICK m \in Letters : m = conn[c].letter
  BY DEF Stores, ConnInv, ConnOK, Sender
<1>2. PICK to \in SUBSET (Users \X Letters) : to = {<<u, m>> : u \in Owners(conn[c].rooms)}
  <2>1. PICK o \in SUBSET Users : o = Owners(conn[c].rooms)
    BY DEF Owners
  <2>2. \A u \in o : <<u, m>> \in Users \X Letters
    BY <1>1
  <2>3. {<<u, m>> : u \in o} \in SUBSET (Users \X Letters)
    BY <2>2
  <2> QED
    BY <2>1, <2>3
<1>3. conn' \in [Conns -> ConnStates] /\ \A d \in Conns : ConnOK(conn'[d], replied')
  BY DEF Stores
<1>4. OneLetter'
  BY <1>3 DEF Stores, Calm, OneLetter, ConnInv
<1>5. kept' \subseteq Users \X Letters
  BY <1>1, <1>2 DEF Stores, ConnInv, InboundTypeOK
<1>6. got' \in [Users \X Letters -> 0..(Cardinality(Conns) + 1)]
  <2>1. PICK n \in Nat : n = Cardinality(Conns)
    BY InboundAssumption, FS_CardinalityType
  <2>2. got \in [Users \X Letters -> 0..(n + 1)]
    BY <2>1 DEF ConnInv, InboundTypeOK
  <2>3. \A p \in Users \X Letters : CopyMore(got[p]) \in 0..(n + 1)
    BY <2>1, <2>2 DEF CopyMore
  <2>4. got' = [p \in Users \X Letters |-> IF p \in to THEN CopyMore(got[p]) ELSE got[p]]
    BY <1>1, <1>2, <2>2 DEF Stores
  <2>5. got' \in [Users \X Letters -> 0..(n + 1)]
    BY <2>2, <2>3, <2>4
  <2> QED
    BY <2>1, <2>5
<1>7. wire' \subseteq replied'
  BY DEF Stores, ConnInv
<1> QED
  BY <1>3, <1>4, <1>5, <1>6, <1>7, InboundTyped DEF Stores, ConnInv, InboundTypeOK

LEMMA ConnInvStep == ConnInv /\ [InboundNext]_invars => ConnInv'
<1> SUFFICES ASSUME ConnInv, [InboundNext]_invars PROVE ConnInv'
  OBVIOUS
<1>1. CASE UNCHANGED invars
  BY <1>1 DEF ConnInv, OneLetter, InboundTypeOK, invars
<1>2. ASSUME NEW u \in Users, NEW m \in Letters, UserDeletes(u, m) PROVE ConnInv'
  BY <1>2 DEF UserDeletes, ConnInv, OneLetter, InboundTypeOK
<1> QED
  BY <1>1, <1>2, InboundKinds, MovesKeeps, ChecksKeeps, StartsKeeps, EndsKeeps, StoresKeeps

LEMMA ConnInitial == InboundInit => ConnInv
<1> SUFFICES ASSUME InboundInit PROVE ConnInv
  OBVIOUS
<1>1. \A c \in Conns : conn[c] \in ConnStates /\ ConnOK(conn[c], replied) /\ conn[c].pc = "cmd"
  <2> TAKE c \in Conns
  <2>1. PICK mode \in {"mx", "lmtp"} : mode = ModeOf[c]
    BY InboundAssumption
  <2>2. PICK k : k = Greeting(mode)
    OBVIOUS
  <2>3. k \in ConnStates
    BY <2>2 DEF Greeting, ConnStates, NoVerdict
  <2>4. /\ k.pc = "cmd" /\ k.mode = mode /\ k.open = FALSE /\ k.rcpts = {} /\ k.letter = NoLetter
        /\ k.spf = NoVerdict /\ k.todo = {} /\ k.cur = {} /\ k.rooms = {} /\ k.over = {} /\ k.sent = {} /\ k.known = {} /\ k.ok = TRUE
    BY <2>2 DEF Greeting
  <2>5. NoVerdict.res = "none"
    BY DEF NoVerdict
  <2>6. ConnOK(k, replied)
    BY <2>4, <2>5 DEF ConnOK, Between, Sender, Loop, Quiet, InTransit
  <2>7. conn[c] = k
    BY <2>1, <2>2 DEF InboundInit
  <2> QED
    BY <2>3, <2>4, <2>6, <2>7
<1>2. conn \in [Conns -> ConnStates]
  BY <1>1 DEF InboundInit
<1>3. \A c \in Conns : conn[c].letter = NoLetter /\ conn[c].rooms = {} /\ conn[c].over = {}
  BY <1>1 DEF ConnOK, Between
<1>4. DOMAIN filter = Users /\ \A u \in Users : filter[u] \in Filters[u]
  BY DEF InboundInit
<1>5. got \in [Users \X Letters -> 0..(Cardinality(Conns) + 1)]
  <2>1. PICK n \in Nat : n = Cardinality(Conns)
    BY InboundAssumption, FS_CardinalityType
  <2>2. 0 \in 0..(n + 1)
    OBVIOUS
  <2> QED
    BY <2>1, <2>2 DEF InboundInit
<1>6. letter \in [Letters -> [Addrs -> Answers]]
  BY DEF InboundInit, Answers
<1>7. InboundTypeOK
  BY <1>2, <1>3, <1>4, <1>5, <1>6 DEF InboundTypeOK, InboundInit
<1>8. OneLetter /\ wire \subseteq replied
  BY <1>1 DEF OneLetter, InboundInit
<1> QED
  BY <1>1, <1>7, <1>8 DEF ConnInv

(* Inbound mail's variables keep their types, through every interleaving of *)
(* dialogues, deliveries and deletions.                                     *)
THEOREM InboundTypeCorrect == InboundSpec => []InboundTypeOK
<1>1. ConnInv => InboundTypeOK
  BY DEF ConnInv
<1> QED
  BY <1>1, ConnInitial, ConnInvStep, PTL DEF InboundSpec

(* A reply goes out only to those not on record, and what is on record was  *)
(* put there first; an SPF verdict stays with the sender that earned it.    *)
LEMMA DialogueIsSound == ConnInv => QuietAfterReply /\ PassIsEarned
<1> SUFFICES ASSUME ConnInv PROVE QuietAfterReply /\ PassIsEarned
  OBVIOUS
<1>1. \A c \in Conns : ConnOK(conn[c], replied) /\ conn[c] \in ConnStates
  BY DEF ConnInv, InboundTypeOK
<1>2. QuietAfterReply
  BY <1>1 DEF QuietAfterReply, ConnOK, Quiet
<1>3. PassIsEarned
  <2>1. \A c \in Conns : conn[c].open \in BOOLEAN
    BY <1>1 DEF ConnStates
  <2> QED
    BY <1>1, <2>1 DEF PassIsEarned, ConnOK, Sender
<1> QED
  BY <1>2, <1>3

-----------------------------------------------------------------------------
(* Quotas *)

(* What limit lim allows a mailbox with x in it, while the deliveries P,    *)
(* with sizes s, are past the check.  Until two ever were at once, the one  *)
(* in flight fits; from then on the first of them to store fits, and each   *)
(* other brings at most M more.  n bounds the number of deliveries.         *)
Roomy(x, P, s, lim, late, M, n) ==
    IF late
    THEN /\ x + M <= lim + n * M
         /\ P # {} => \E c \in P : x + s[c] + Cardinality(P) * M <= lim + n * M
    ELSE /\ x <= lim
         /\ \A c, d \in P : c = d
         /\ \A c \in P : x + s[c] <= lim

LEMMA Multiples ==
    ASSUME NEW M \in Nat, NEW a \in Nat, NEW b \in Nat, a <= b
    PROVE  a * M <= b * M /\ a * M \in Nat /\ b * M \in Nat
<1>1. PICK d \in Nat : b = a + d
  <2>1. b - a \in Nat /\ b = a + (b - a)
    OBVIOUS
  <2> QED
    BY <2>1
<1>2. b * M = a * M + d * M /\ a * M \in Nat /\ d * M \in Nat
  BY <1>1
<1> QED
  BY <1>2

LEMMA OneMore == ASSUME NEW M \in Nat, NEW a \in Nat PROVE (a + 1) * M = a * M + M
OBVIOUS

(* Deliveries that give up, mail that is deleted. *)
LEMMA RoomyLess ==
    ASSUME NEW P, IsFiniteSet(P), NEW R \in SUBSET P, NEW M \in Nat, NEW n \in Nat, NEW s \in [P -> 0..M], NEW t,
           \A c \in R : t[c] = s[c],
           NEW lim \in Nat, NEW late \in BOOLEAN, NEW x \in Nat, NEW y \in Nat, y <= x,
           Roomy(x, P, s, lim, late, M, n)
    PROVE  Roomy(y, R, t, lim, late, M, n)
<1>1. CASE ~late
  <2>1. \A c \in R : s[c] \in Nat /\ x + s[c] <= lim
    BY <1>1 DEF Roomy
  <2>2. \A c \in R : y + t[c] <= lim
    BY <2>1
  <2>3. y <= lim /\ \A c, d \in R : c = d
    BY <1>1 DEF Roomy
  <2> QED
    BY <1>1, <2>2, <2>3 DEF Roomy
<1>2. CASE late
  <2>1. PICK p \in Nat, r \in Nat : p = Cardinality(P) /\ r = Cardinality(R) /\ r <= p
    BY FS_CardinalityType, FS_Subset
  <2>2. PICK nM \in Nat, pM \in Nat, rM \in Nat : nM = n * M /\ pM = p * M /\ rM = r * M /\ rM <= pM
    BY <2>1, Multiples
  <2>3. y + M <= lim + n * M
    <3>1. x + M <= lim + nM
      BY <1>2, <2>2 DEF Roomy
    <3> QED
      BY <2>2, <3>1
  <2>4. ASSUME R # {} PROVE \E c \in R : y + t[c] + rM <= lim + nM
    <3>1. PICK c \in P : x + s[c] + pM <= lim + nM
      BY <1>2, <2>1, <2>2, <2>4 DEF Roomy
    <3>2. CASE c \in R
      <4>1. s[c] \in Nat /\ t[c] = s[c]
        BY <3>2
      <4>2. y + t[c] + rM <= lim + nM
        BY <2>2, <3>1, <4>1
      <4> QED
        BY <3>2, <4>2
    <3>3. CASE c \notin R
      <4>1. PICK d \in R : TRUE
        BY <2>4
      <4>2. PICK sc \in 0..M, sd \in 0..M : sc = s[c] /\ sd = s[d] /\ sd = t[d]
        OBVIOUS
      <4>3. r + 1 <= p
        <5>1. R \in SUBSET (P \ {c}) /\ IsFiniteSet(P \ {c}) /\ Cardinality(P \ {c}) = p - 1
          BY <2>1, <3>1, <3>3, FS_RemoveElement
        <5>2. r <= p - 1
          BY <2>1, <5>1, FS_Subset
        <5> QED
          BY <2>1, <5>2
      <4>4. rM + M <= pM
        <5>1. (r + 1) * M <= p * M /\ (r + 1) * M = r * M + M
          BY <2>1, <4>3, Multiples, OneMore
        <5> QED
          BY <2>2, <5>1
      <4>5. y + sd + rM <= lim + nM
        BY <2>2, <3>1, <4>2, <4>4
      <4> QED
        BY <4>2, <4>5
    <3> QED
      BY <3>2, <3>3
  <2> QED
    BY <1>2, <2>1, <2>2, <2>3, <2>4 DEF Roomy
<1> QED
  BY <1>1, <1>2

(* Delivery d stores its letter. *)
LEMMA RoomyStores ==
    ASSUME NEW P, IsFiniteSet(P), NEW d \in P, NEW R \in SUBSET (P \ {d}), NEW M \in Nat, NEW n \in Nat,
           NEW s \in [P -> 0..M], NEW t, \A c \in R : t[c] = s[c],
           NEW lim \in Nat, NEW late \in BOOLEAN, NEW x \in Nat, NEW y \in Nat, y <= x + s[d],
           Roomy(x, P, s, lim, late, M, n)
    PROVE  Roomy(y, R, t, lim, late, M, n)
<1>0. PICK sd \in 0..M : sd = s[d]
  OBVIOUS
<1>1. CASE ~late
  <2>1. R = {} /\ x + sd <= lim
    BY <1>0, <1>1 DEF Roomy
  <2>2. y <= lim
    BY <1>0, <2>1
  <2> QED
    BY <1>1, <2>1, <2>2 DEF Roomy
<1>2. CASE late
  <2>1. PICK p \in Nat, r \in Nat : p = Cardinality(P) /\ r = Cardinality(R) /\ r + 1 <= p
    <3>1. IsFiniteSet(P \ {d}) /\ Cardinality(P \ {d}) = Cardinality(P) - 1
      BY FS_RemoveElement
    <3>2. IsFiniteSet(R) /\ Cardinality(R) <= Cardinality(P \ {d})
      BY <3>1, FS_Subset
    <3>3. PICK p \in Nat, r \in Nat : p = Cardinality(P) /\ r = Cardinality(R)
      BY <3>2, FS_CardinalityType
    <3>4. r <= p - 1
      BY <3>1, <3>2, <3>3
    <3> QED
      BY <3>3, <3>4
  <2>2. PICK nM \in Nat, pM \in Nat, rM \in Nat : nM = n * M /\ pM = p * M /\ rM = r * M /\ rM + M <= pM
    <3>1. PICK q \in Nat : q = r + 1
      OBVIOUS
    <3>2. q * M <= p * M /\ q * M \in Nat /\ p * M \in Nat
      BY <2>1, <3>1, Multiples
    <3>3. q * M = r * M + M
      BY <3>1, OneMore
    <3>4. r * M \in Nat /\ n * M \in Nat
      BY Multiples
    <3> QED
      BY <3>2, <3>3, <3>4
  <2>3. PICK c \in P : x + s[c] + pM <= lim + nM
    BY <1>2, <2>1, <2>2 DEF Roomy
  <2>4. PICK sc \in 0..M : sc = s[c]
    OBVIOUS
  <2>5. y + M <= lim + nM
    <3>1. CASE c = d
      BY <1>0, <2>2, <2>3, <2>4, <3>1
    <3>2. CASE c # d
      <4>1. 1 + 1 <= p
        <5>1. IsFiniteSet(P \ {d}) /\ Cardinality(P \ {d}) = Cardinality(P) - 1 /\ c \in P \ {d}
          BY <3>2, FS_RemoveElement
        <5>2. Cardinality(P \ {d}) # 0 /\ Cardinality(P \ {d}) \in Nat
          BY <5>1, FS_EmptySet, FS_CardinalityType
        <5> QED
          BY <2>1, <5>1, <5>2
      <4>2. (1 + 1) * M <= p * M /\ (1 + 1) * M = 1 * M + M
        BY <2>1, <4>1, Multiples, OneMore
      <4>3. M + M <= pM
        BY <2>2, <4>2
      <4> QED
        BY <1>0, <2>2, <2>3, <2>4, <4>3
    <3> QED
      BY <3>1, <3>2
  <2>6. ASSUME R # {} PROVE \E e \in R : y + t[e] + rM <= lim + nM
    <3>1. CASE c \in R
      <4>1. t[c] = sc
        BY <2>4, <3>1
      <4>2. c # d
        BY <3>1
      <4>3. y + sc + rM <= lim + nM
        BY <1>0, <2>2, <2>3, <2>4
      <4> QED
        BY <3>1, <4>1, <4>3
    <3>2. CASE c \notin R
      <4>1. PICK e \in R : TRUE
        BY <2>6
      <4>2. PICK se \in 0..M : se = s[e] /\ se = t[e]
        OBVIOUS
      <4>3. CASE c = d
        <5>1. y + se + rM <= lim + nM
          BY <1>0, <2>2, <2>3, <2>4, <4>2, <4>3
        <5> QED
          BY <4>2, <5>1
      <4>4. CASE c # d
        <5>1. r + 1 + 1 <= p
          <6>1. R \in SUBSET ((P \ {d}) \ {c}) /\ c \in P \ {d}
            BY <3>2, <4>4
          <6>2. IsFiniteSet(P \ {d}) /\ Cardinality(P \ {d}) = Cardinality(P) - 1
            BY FS_RemoveElement
          <6>3. IsFiniteSet((P \ {d}) \ {c}) /\ Cardinality((P \ {d}) \ {c}) = Cardinality(P \ {d}) - 1
            BY <6>1, <6>2, FS_RemoveElement
          <6>4. Cardinality(R) <= Cardinality((P \ {d}) \ {c})
            BY <6>1, <6>3, FS_Subset
          <6>5. r <= p - 1 - 1
            BY <2>1, <6>2, <6>3, <6>4
          <6> QED
            BY <2>1, <6>5
        <5>2. PICK q \in Nat, q1 \in Nat : q = r + 1 /\ q1 = q + 1 /\ q1 <= p
          BY <5>1
        <5>3. rM + M + M <= pM
          <6>1. q1 * M <= p * M /\ q1 * M \in Nat
            BY <5>2, Multiples
          <6>2. q1 * M = q * M + M
            BY <5>2, OneMore
          <6>3. q * M = r * M + M
            BY <5>2, OneMore
          <6> QED
            BY <2>2, <6>1, <6>2, <6>3
        <5>4. y + se + rM <= lim + nM
          BY <1>0, <2>2, <2>3, <2>4, <4>2, <5>3
        <5> QED
          BY <4>2, <5>4
      <4> QED
        BY <4>3, <4>4
    <3> QED
      BY <3>1, <3>2
  <2>7. y + M <= lim + n * M
    BY <2>2, <2>5
  <2> QED
    BY <1>2, <2>1, <2>2, <2>6, <2>7 DEF Roomy
<1> QED
  BY <1>1, <1>2

(* Delivery c is found to fit; others may have been found to. *)
LEMMA RoomyChecks ==
    ASSUME NEW R, IsFiniteSet(R), NEW c \in R, NEW M \in Nat, NEW n \in Nat, Cardinality(R) <= n,
           NEW s, NEW t \in [R -> 0..M], \A e \in R \ {c} : t[e] = s[e],
           NEW lim \in Nat, NEW late \in BOOLEAN, NEW x \in Nat, x + t[c] <= lim,
           Roomy(x, R \ {c}, s, lim, late, M, n)
    PROVE  Roomy(x, R, t, lim, late \/ R \ {c} # {}, M, n)
<1>0. PICK tc \in 0..M : tc = t[c]
  OBVIOUS
<1>1. CASE ~late /\ R \ {c} = {}
  <2>1. R = {c}
    BY <1>1
  <2> QED
    BY <1>0, <1>1, <2>1 DEF Roomy
<1>2. CASE late \/ R \ {c} # {}
  <2>1. PICK r \in Nat : r = Cardinality(R) /\ r <= n /\ 1 <= n
    <3>1. Cardinality(R) \in Nat /\ Cardinality(R) # 0
      BY FS_CardinalityType, FS_EmptySet
    <3> QED
      BY <3>1
  <2>2. PICK nM \in Nat, rM \in Nat : nM = n * M /\ rM = r * M /\ rM <= nM /\ M <= nM
    <3>1. r * M <= n * M /\ r * M \in Nat /\ n * M \in Nat /\ 1 * M <= n * M
      BY <2>1, Multiples
    <3> QED
      BY <3>1
  <2>3. x + tc + rM <= lim + nM
    BY <1>0, <2>2
  <2>4. x + M <= lim + nM
    BY <1>0, <2>2
  <2> QED
    BY <1>0, <1>2, <2>1, <2>2, <2>3, <2>4 DEF Roomy
<1> QED
  BY <1>1, <1>2
-----------------------------------------------------------------------------
Biggest == IF Letters = {} THEN 0 ELSE Max({Size[m] : m \in Letters})

(* The deliveries that found room for user u, and what they bring. *)
Past(u) == {d \in Conns : Checked(d, u)}
Brings(u) == [d \in Past(u) |-> Size[conn[d].letter]]

RoomInv ==
    /\ \A u \in Users : Limit[u] > 0 =>
           Roomy(Used(u), Past(u), Brings(u), Limit[u], u \in crowded, Biggest, Cardinality(Conns))
    /\ crowded # {} => Conns # {} /\ Letters # {}

LEMMA BiggestIs == Biggest \in Nat /\ \A m \in Letters : Size[m] \in 0..Biggest
<1>1. CASE Letters = {}
  BY <1>1 DEF Biggest
<1>2. CASE Letters # {}
  <2>1. Size \in [Letters -> Nat] /\ IsFiniteSet(Letters)
    BY InboundAssumption
  <2>2. PICK b \in Nat : \A m \in Letters : Size[m] <= b
    BY <2>1, FiniteBound
  <2>3. PICK S : S = {Size[m] : m \in Letters}
    OBVIOUS
  <2>4. S \subseteq 0..b /\ S # {}
    BY <1>2, <2>1, <2>2, <2>3
  <2>5. Max(S) \in S /\ \A m \in S : m <= Max(S)
    BY <2>4, MaxIsGreatest
  <2>6. PICK x \in 0..b : x = Max(S)
    BY <2>4, <2>5
  <2>7. \A m \in Letters : Size[m] \in Nat /\ Size[m] <= x
    BY <2>1, <2>3, <2>5, <2>6
  <2> QED
    BY <1>2, <2>3, <2>6, <2>7 DEF Biggest
<1> QED
  BY <1>1, <1>2

(* What a user keeps, and how it changes with one letter. *)
Keeps(u) == {m \in Letters : <<u, m>> \in kept}

LEMMA UsedIs ==
    \E T : /\ Additive(Size, Letters, T)
           /\ \A u \in Users : Used(u) = T[Keeps(u)] /\ (Used(u))' = T[(Keeps(u))']
<1>1. Size \in [Letters -> Nat] /\ IsFiniteSet(Letters)
  BY InboundAssumption
<1>2. PICK T : Additive(Size, Letters, T) /\ \A S \in SUBSET Letters : SumOver(Size, S) = T[S]
  BY <1>1, SumIsAdditive
<1>3. ASSUME NEW u \in Users PROVE Used(u) = T[Keeps(u)]
  <2>1. Used(u) = SumOver(Size, Keeps(u))
    BY DEF Used, Keeps, MapThenSumSet, MapThenFoldSet, SumOver, Adds
  <2>2. Keeps(u) \in SUBSET Letters
    BY DEF Keeps
  <2> QED
    BY <1>2, <2>1, <2>2
<1>4. ASSUME NEW u \in Users PROVE (Used(u))' = T[(Keeps(u))']
  <2>1. (Used(u))' = SumOver(Size, (Keeps(u))')
    BY DEF Used, Keeps, MapThenSumSet, MapThenFoldSet, SumOver, Adds
  <2>2. (Keeps(u))' \in SUBSET Letters
    BY DEF Keeps
  <2> QED
    BY <1>2, <2>1, <2>2
<1> QED
  BY <1>2, <1>3, <1>4

LEMMA UsedSteps ==
    ASSUME NEW u \in Users
    PROVE  /\ Used(u) \in Nat /\ (Used(u))' \in Nat
           /\ (Keeps(u))' = Keeps(u) => (Used(u))' = Used(u)
           /\ \A m \in Letters : (Keeps(u))' = Keeps(u) \cup {m} => (Used(u))' <= Used(u) + Size[m]
           /\ \A m \in Letters : (Keeps(u))' = Keeps(u) \ {m} => (Used(u))' <= Used(u)
<1>1. PICK T : Additive(Size, Letters, T) /\ Used(u) = T[Keeps(u)] /\ (Used(u))' = T[(Keeps(u))']
  BY UsedIs
<1>2. PICK A \in SUBSET Letters, B \in SUBSET Letters : A = Keeps(u) /\ B = (Keeps(u))'
  BY DEF Keeps
<1>3. PICK x \in Nat, y \in Nat : x = T[A] /\ y = T[B]
  BY <1>1 DEF Additive
<1>4. PICK z \in [Letters -> Nat] : z = Size
  BY InboundAssumption
<1>5. ASSUME NEW m \in Letters, B = A \cup {m} PROVE y <= x + z[m]
  <2>1. PICK w \in Nat : w = z[m]
    BY <1>4
  <2>2. y = x \/ y = x + w
    <3>1. m \notin A => T[A \cup {m}] = T[A] + w
      BY <1>1, <1>4, <2>1 DEF Additive
    <3>2. m \in A => B = A
      BY <1>5
    <3> QED
      BY <1>3, <1>5, <3>1, <3>2
  <2>3. y <= x + w
    BY <2>2
  <2> QED
    BY <2>1, <2>3
<1>6. ASSUME NEW m \in Letters, B = A \ {m} PROVE y <= x
  <2>1. PICK w \in Nat : w = z[m]
    BY <1>4
  <2>2. x = y \/ x = y + w
    <3>1. m \notin B /\ T[B \cup {m}] = T[B] + w
      BY <1>1, <1>4, <1>6, <2>1 DEF Additive
    <3>2. m \in A => B \cup {m} = A
      BY <1>6
    <3>3. m \notin A => B = A
      BY <1>6
    <3> QED
      BY <1>3, <3>1, <3>2, <3>3
  <2> QED
    BY <2>2
<1>7. B = A => y = x
  BY <1>3
<1>8. x = Used(u) /\ y = (Used(u))'
  BY <1>1, <1>2, <1>3
<1> QED
  BY <1>2, <1>4, <1>5, <1>6, <1>7, <1>8

LEMMA PastIs ==
    ASSUME NEW u \in Users
    PROVE  /\ Past(u) = {d \in Conns : conn[d].pc \in InTransit /\ u \in Claims(conn[d])}
           /\ (Past(u))' = {d \in Conns : conn'[d].pc \in InTransit /\ u \in Claims(conn'[d])}
BY DEF Past, Checked, Claims, InTransit, Owners

LEMMA BringsIs ==
    ASSUME ConnInv, NEW u \in Users
    PROVE  /\ Brings(u) \in [Past(u) -> 0..Biggest] /\ IsFiniteSet(Past(u)) /\ Cardinality(Conns) \in Nat
           /\ \A d \in Past(u) : Brings(u)[d] = Size[conn[d].letter] /\ d \in Conns /\ conn[d].letter \in Letters
<1>1. \A d \in Past(u) : d \in Conns /\ conn[d].pc # "cmd"
  BY PastIs DEF InTransit
<1>2. \A d \in Past(u) : conn[d].letter \in Letters
  BY <1>1 DEF ConnInv, ConnOK, Sender
<1>3. \A d \in Past(u) : Size[conn[d].letter] \in 0..Biggest
  BY <1>2, BiggestIs
<1>4. IsFiniteSet(Past(u)) /\ Cardinality(Conns) \in Nat
  BY InboundAssumption, FS_Subset, FS_CardinalityType DEF Past
<1> QED
  BY <1>1, <1>2, <1>3, <1>4 DEF Brings

(* Steps after which no more deliveries are past the check of user u, and   *)
(* no more is kept.                                                         *)
LEMMA RoomKept ==
    ASSUME ConnInv, ConnInv', RoomInv, NEW u \in Users, Limit[u] > 0,
           (Past(u))' \subseteq Past(u), \A d \in (Past(u))' : conn'[d].letter = conn[d].letter,
           u \in crowded' <=> u \in crowded,
           (Used(u))' <= Used(u)
    PROVE  Roomy(Used(u), Past(u), Brings(u), Limit[u], u \in crowded, Biggest, Cardinality(Conns))'
<1>1. PICK P : P = Past(u)
  OBVIOUS
<1>2. PICK R \in SUBSET P : R = (Past(u))'
  BY <1>1
<1>3. PICK M \in Nat, n \in Nat : M = Biggest /\ n = Cardinality(Conns) /\ IsFiniteSet(P)
  BY <1>1, BiggestIs, BringsIs
<1>4. PICK s \in [P -> 0..M] : s = Brings(u)
  BY <1>1, <1>3, BringsIs
<1>5. PICK t : t = (Brings(u))'
  OBVIOUS
<1>6. \A d \in R : t[d] = s[d]
  <2>1. \A d \in R : s[d] = Size[conn[d].letter]
    BY <1>1, <1>4, BringsIs
  <2>2. \A d \in R : t[d] = Size[conn'[d].letter]
    BY <1>2, <1>5 DEF Brings
  <2> QED
    BY <1>2, <2>1, <2>2
<1>7. PICK lim \in Nat, late \in BOOLEAN : lim = Limit[u] /\ late = (u \in crowded) /\ late = (u \in crowded')
  <2>1. PICK late \in BOOLEAN : late = (u \in crowded)
    <3>1. (u \in crowded) \in BOOLEAN
      OBVIOUS
    <3> QED
      BY <3>1, Zenon
  <2>2. late = (u \in crowded')
    BY <2>1
  <2> QED
    BY <2>1, <2>2, InboundAssumption
<1>8. PICK x \in Nat, y \in Nat : x = Used(u) /\ y = (Used(u))' /\ y <= x
  BY UsedSteps
<1>9. Roomy(x, P, s, lim, late, M, n)
  BY <1>1, <1>3, <1>4, <1>7, <1>8 DEF RoomInv
<1>10. Roomy(y, R, t, lim, late, M, n)
  BY <1>3, <1>6, <1>8, <1>9, RoomyLess
<1> QED
  BY <1>2, <1>3, <1>5, <1>7, <1>8, <1>10
LEMMA MovesRoom == ASSUME ConnInv, ConnInv', RoomInv, NEW c \in Conns, NEW k, Moves(c, k) PROVE RoomInv'
<1>1. conn'[c] = k /\ (\A d \in Conns \ {c} : conn'[d] = conn[d]) /\ Calm(conn[c], k)
  BY Turned DEF Moves
<1>2. ASSUME NEW u \in Users, Limit[u] > 0
      PROVE  Roomy(Used(u), Past(u), Brings(u), Limit[u], u \in crowded, Biggest, Cardinality(Conns))'
  <2>1. (Past(u))' \subseteq Past(u) /\ \A d \in (Past(u))' : conn'[d].letter = conn[d].letter
    BY <1>1, PastIs DEF Calm
  <2>2. (Keeps(u))' = Keeps(u) /\ crowded' = crowded
    BY DEF Moves, Keeps
  <2>3. (Used(u))' <= Used(u)
    BY <2>2, UsedSteps
  <2> QED
    BY <1>2, <2>1, <2>2, <2>3, RoomKept
<1> QED
  BY <1>2 DEF RoomInv, Moves

LEMMA StartsRoom == ASSUME ConnInv, ConnInv', RoomInv, NEW c \in Conns, NEW m \in Letters, NEW k, Starts(c, m, k) PROVE RoomInv'
<1>1. conn'[c] = k /\ (\A d \in Conns \ {c} : conn'[d] = conn[d]) /\ Claims(k) = {}
  BY Turned DEF Starts
<1>2. ASSUME NEW u \in Users, Limit[u] > 0
      PROVE  Roomy(Used(u), Past(u), Brings(u), Limit[u], u \in crowded, Biggest, Cardinality(Conns))'
  <2>1. (Past(u))' \subseteq Past(u) /\ \A d \in (Past(u))' : conn'[d].letter = conn[d].letter
    BY <1>1, PastIs
  <2>2. (Keeps(u))' = Keeps(u) /\ crowded' = crowded
    BY DEF Starts, Keeps
  <2>3. (Used(u))' <= Used(u)
    BY <2>2, UsedSteps
  <2> QED
    BY <1>2, <2>1, <2>2, <2>3, RoomKept
<1> QED
  BY <1>2 DEF RoomInv, Starts

LEMMA EndsRoom == ASSUME ConnInv, ConnInv', RoomInv, NEW c \in Conns, NEW m \in Letters, NEW k, Ends(c, m, k) PROVE RoomInv'
<1>1. conn'[c] = k /\ (\A d \in Conns \ {c} : conn'[d] = conn[d]) /\ k.pc = "cmd"
  BY Turned DEF Ends
<1>2. ASSUME NEW u \in Users, Limit[u] > 0
      PROVE  Roomy(Used(u), Past(u), Brings(u), Limit[u], u \in crowded, Biggest, Cardinality(Conns))'
  <2>1. (Past(u))' \subseteq Past(u) /\ \A d \in (Past(u))' : conn'[d].letter = conn[d].letter
    BY <1>1, PastIs DEF InTransit
  <2>2. (Keeps(u))' = Keeps(u) /\ crowded' = crowded
    BY DEF Ends, Keeps
  <2>3. (Used(u))' <= Used(u)
    BY <2>2, UsedSteps
  <2> QED
    BY <1>2, <2>1, <2>2, <2>3, RoomKept
<1> QED
  BY <1>2 DEF RoomInv, Ends

LEMMA DeletesRoom ==
    ASSUME ConnInv, ConnInv', RoomInv, NEW w \in Users, NEW m \in Letters, UserDeletes(w, m)
    PROVE  RoomInv'
<1>1. ASSUME NEW u \in Users, Limit[u] > 0
      PROVE  Roomy(Used(u), Past(u), Brings(u), Limit[u], u \in crowded, Biggest, Cardinality(Conns))'
  <2>1. (Past(u))' \subseteq Past(u) /\ \A d \in (Past(u))' : conn'[d].letter = conn[d].letter
    BY PastIs DEF UserDeletes
  <2>2. (Keeps(u))' = Keeps(u) \/ (Keeps(u))' = Keeps(u) \ {m}
    BY DEF UserDeletes, Keeps
  <2>3. crowded' = crowded
    BY DEF UserDeletes
  <2>4. Used(u) \in Nat /\ (Used(u))' <= Used(u)
    BY <2>2, UsedSteps
  <2> QED
    BY <1>1, <2>1, <2>3, <2>4, RoomKept
<1> QED
  BY <1>1 DEF RoomInv, UserDeletes

LEMMA ChecksRoom ==
    ASSUME ConnInv, ConnInv', RoomInv, NEW c \in Conns, NEW w \in Users, NEW k, Checks(c, w, k)
    PROVE  RoomInv'
<1>1. /\ conn'[c] = k /\ (\A d \in Conns \ {c} : conn'[d] = conn[d]) /\ Claims(k) \subseteq Claims(conn[c]) \cup {w} /\ w \in Claims(k)
      /\ k.letter = conn[c].letter /\ conn[c].pc = "rcpt" /\ k.pc = "script" /\ w \in conn[c].todo
  BY Turned DEF Checks
<1>2. \A u \in Users : (Keeps(u))' = Keeps(u)
  BY DEF Checks, Keeps
<1>3. conn[c].letter \in Letters /\ w \notin Claims(conn[c])
  BY <1>1 DEF ConnInv, ConnOK, Sender, Loop, InTransit
<1>4. ASSUME NEW u \in Users, Limit[u] > 0, u # w
      PROVE  Roomy(Used(u), Past(u), Brings(u), Limit[u], u \in crowded, Biggest, Cardinality(Conns))'
  <2>1. (Past(u))' \subseteq Past(u) /\ \A d \in (Past(u))' : conn'[d].letter = conn[d].letter
    BY <1>1, <1>4, PastIs DEF InTransit
  <2>2. u \in crowded' <=> u \in crowded
    BY <1>4 DEF Checks
  <2>3. (Used(u))' <= Used(u)
    BY <1>2, UsedSteps
  <2> QED
    BY <1>4, <2>1, <2>2, <2>3, RoomKept
<1>5. ASSUME Limit[w] > 0
      PROVE  Roomy(Used(w), Past(w), Brings(w), Limit[w], w \in crowded, Biggest, Cardinality(Conns))'
  <2>1. PICK P : P = Past(w)
    OBVIOUS
  <2>2. PICK R : R = (Past(w))' /\ c \in R /\ R \subseteq Conns /\ P = R \ {c} /\ \A d \in R : conn'[d].letter = conn[d].letter
    <3>1. c \notin P /\ c \in (Past(w))'
      BY <1>1, <1>3, <2>1, PastIs DEF InTransit
    <3>2. \A d \in Conns \ {c} : d \in P <=> d \in (Past(w))'
      BY <1>1, <2>1, PastIs
    <3>3. P \subseteq Conns /\ (Past(w))' \subseteq Conns
      BY <2>1, PastIs
    <3>4. P = (Past(w))' \ {c}
      BY <3>1, <3>2, <3>3
    <3> QED
      BY <1>1, <3>1, <3>3, <3>4
  <2>3. PICK M \in Nat, n \in Nat : M = Biggest /\ n = Cardinality(Conns)
    BY <2>1, BiggestIs, BringsIs
  <2>4. IsFiniteSet(R) /\ Cardinality(R) <= n
    BY <2>2, <2>3, InboundAssumption, FS_Subset
  <2>5. PICK s : s = Brings(w)
    OBVIOUS
  <2>6. PICK t : t = (Brings(w))'
    OBVIOUS
  <2>7. t \in [R -> 0..M] /\ \A e \in R : t[e] = Size[conn[e].letter]
    <3>1. t = [d \in R |-> Size[conn'[d].letter]]
      BY <2>2, <2>6 DEF Brings
    <3>2. \A d \in R : conn[d].letter \in Letters
      BY <1>3, <2>1, <2>2, BringsIs
    <3>3. \A d \in R : Size[conn'[d].letter] \in 0..M
      BY <2>2, <2>3, <3>2, BiggestIs
    <3> QED
      BY <2>2, <3>1, <3>3
  <2>8. \A e \in R \ {c} : t[e] = s[e]
    BY <2>1, <2>2, <2>5, <2>7 DEF Brings
  <2>9. PICK lim \in Nat, x \in Nat : lim = Limit[w] /\ x = Used(w) /\ x = (Used(w))'
    BY <1>2, UsedSteps, InboundAssumption
  <2>10. PICK late \in BOOLEAN, after \in BOOLEAN : late = (w \in crowded) /\ after = (w \in crowded')
    <3>1. (w \in crowded) \in BOOLEAN /\ (w \in crowded') \in BOOLEAN
      OBVIOUS
    <3> QED
      BY <3>1, Zenon
  <2>11. after = (late \/ R \ {c} # {})
    <3>1. R \ {c} # {} <=> \E d \in Conns \ {c} : Checked(d, w)
      BY <2>1, <2>2 DEF Past
    <3>2. w \in crowded' <=> (w \in crowded \/ R \ {c} # {})
      BY <1>5, <3>1 DEF Checks
    <3> QED
      BY <2>10, <3>2
  <2>12. x + t[c] <= lim
    <3>1. PICK tc \in Nat : tc = t[c] /\ tc = Size[conn[c].letter]
      BY <2>2, <2>7
    <3>2. ~(x + tc > lim)
      BY <1>5, <2>9, <3>1 DEF Checks, WouldExceed
    <3> QED
      BY <3>1, <3>2
  <2>13. Roomy(x, R \ {c}, s, lim, late, M, n)
    BY <1>5, <2>1, <2>2, <2>3, <2>5, <2>9, <2>10 DEF RoomInv
  <2>14. Roomy(x, R, t, lim, late \/ R \ {c} # {}, M, n)
    <3>1. c \in R /\ M \in Nat /\ n \in Nat /\ lim \in Nat /\ x \in Nat /\ late \in BOOLEAN
      BY <2>2, <2>3, <2>9, <2>10
    <3>2. t \in [R -> 0..M]
      BY <2>7
    <3> QED
      BY <2>4, <2>8, <2>12, <2>13, <3>1, <3>2, RoomyChecks
  <2>15. Roomy(x, R, t, lim, after, M, n)
    BY <2>11, <2>14
  <2> QED
    BY <2>2, <2>3, <2>6, <2>9, <2>10, <2>15
<1>6. Conns # {} /\ Letters # {}
  BY <1>3
<1> QED
  BY <1>4, <1>5, <1>6 DEF RoomInv

LEMMA StoresRoom == ASSUME ConnInv, ConnInv', RoomInv, NEW c \in Conns, NEW k, Stores(c, k) PROVE RoomInv'
<1>1. /\ conn'[c] = k /\ (\A d \in Conns \ {c} : Calm(conn[d], conn'[d])) /\ crowded' = crowded
      /\ conn[c].pc = "insert" /\ k.pc = "vacation"
  BY DEF Stores
<1>2. PICK m \in Letters : m = conn[c].letter
  BY <1>1 DEF ConnInv, ConnOK, Sender
<1>3. PICK o : o = Owners(conn[c].rooms)
  OBVIOUS
<1>4. kept' = kept \cup {<<u, m>> : u \in o}
  BY <1>2, <1>3 DEF Stores
<1>5. ASSUME NEW u \in Users
      PROVE  (Past(u))' \subseteq Past(u) \ {c} /\ \A d \in (Past(u))' : conn'[d].letter = conn[d].letter
  <2>1. c \notin (Past(u))'
    BY <1>1, PastIs DEF InTransit
  <2> QED
    BY <1>1, <2>1, PastIs DEF Calm
<1>6. ASSUME NEW u \in Users, Limit[u] > 0, u \notin o
      PROVE  Roomy(Used(u), Past(u), Brings(u), Limit[u], u \in crowded, Biggest, Cardinality(Conns))'
  <2>1. (Keeps(u))' = Keeps(u)
    BY <1>4, <1>6 DEF Keeps
  <2>2. (Used(u))' <= Used(u)
    BY <2>1, UsedSteps
  <2> QED
    BY <1>1, <1>5, <1>6, <2>2, RoomKept
<1>7. ASSUME NEW u \in Users, Limit[u] > 0, u \in o
      PROVE  Roomy(Used(u), Past(u), Brings(u), Limit[u], u \in crowded, Biggest, Cardinality(Conns))'
  <2>1. PICK P : P = Past(u)
    OBVIOUS
  <2>2. c \in P
    BY <1>1, <1>3, <1>7, <2>1, PastIs DEF InTransit, Claims
  <2>3. PICK R \in SUBSET (P \ {c}) : R = (Past(u))'
    BY <1>5, <2>1
  <2>4. PICK M \in Nat, n \in Nat : M = Biggest /\ n = Cardinality(Conns) /\ IsFiniteSet(P)
    BY <2>1, BiggestIs, BringsIs
  <2>5. PICK s \in [P -> 0..M] : s = Brings(u)
    BY <2>1, <2>4, BringsIs
  <2>6. PICK t : t = (Brings(u))'
    OBVIOUS
  <2>7. \A d \in R : t[d] = s[d]
    <3>1. \A d \in R : s[d] = Size[conn[d].letter]
      BY <2>1, <2>5, BringsIs
    <3>2. \A d \in R : t[d] = Size[conn'[d].letter]
      BY <2>3, <2>6 DEF Brings
    <3> QED
      BY <1>5, <2>3, <3>1, <3>2
  <2>8. s[c] = Size[m]
    BY <1>2, <2>1, <2>2, <2>5, BringsIs
  <2>9. PICK x \in Nat, y \in Nat : x = Used(u) /\ y = (Used(u))' /\ y <= x + s[c]
    <3>1. (Keeps(u))' = Keeps(u) \cup {m}
      BY <1>4, <1>7 DEF Keeps
    <3>2. (Used(u))' <= Used(u) + Size[m]
      BY <3>1, UsedSteps
    <3> QED
      BY <2>8, <3>2, UsedSteps
  <2>10. PICK lim \in Nat, late \in BOOLEAN : lim = Limit[u] /\ late = (u \in crowded) /\ late = (u \in crowded')
    <3>1. PICK late \in BOOLEAN : late = (u \in crowded)
      <4>1. (u \in crowded) \in BOOLEAN
        OBVIOUS
      <4> QED
        BY <4>1, Zenon
    <3>2. late = (u \in crowded')
      BY <1>1, <3>1
    <3> QED
      BY <3>1, <3>2, InboundAssumption
  <2>11. Roomy(x, P, s, lim, late, M, n)
    BY <1>7, <2>1, <2>4, <2>5, <2>9, <2>10 DEF RoomInv
  <2>12. Roomy(y, R, t, lim, late, M, n)
    BY <2>2, <2>4, <2>7, <2>9, <2>11, RoomyStores
  <2> QED
    BY <2>3, <2>4, <2>6, <2>9, <2>10, <2>12
<1> QED
  BY <1>1, <1>6, <1>7 DEF RoomInv
-----------------------------------------------------------------------------
(* Copies *)

(* Envelope addresses that share no user: the client's two addresses of one *)
(* person are two letters to that person.                                   *)
AddressesApart == \A a, b \in Addrs : a # b => Resolve[a].users \cap Resolve[b].users = {}

(* What the users of a delivery have of its letter, and those of an address *)
(* the client will offer it for (again).                                    *)
GotOf(j) ==
    j.pc # "cmd" => \A u \in Meant(j) : IF j.pc \in InTransit THEN got[<<u, j.letter>>] = 0
                                        ELSE got[<<u, j.letter>>] = 0 \/ (j.ok = TRUE /\ u \notin j.over)
BeingBrought(m, a) == \E c \in Conns : conn[c].pc # "cmd" /\ conn[c].letter = m /\ a \in conn[c].rcpts
Unsettled ==
    \A m \in Letters, a \in Addrs :
        letter[m][a] \in {"none", "later"} /\ ~BeingBrought(m, a) => \A u \in Resolve[a].users : got[<<u, m>>] = 0

GotInv ==
    /\ DeliveredOnce
    /\ \A c \in Conns : GotOf(conn[c])
    /\ Unsettled

LEMMA MeantIs ==
    ASSUME ConnInv, NEW c \in Conns
    PROVE  Meant(conn[c]) \subseteq Users /\ conn[c].rcpts \subseteq Addrs
<1>1. conn[c].rcpts \in SUBSET Addrs
  BY DEF ConnInv, InboundTypeOK, ConnStates
<1>2. \A a \in Addrs : Resolve[a].users \in SUBSET Users
  BY InboundAssumption
<1> QED
  BY <1>1, <1>2 DEF Meant

(* A delivery that goes on, the letters where they are. *)
LEMMA GotGoesOn ==
    ASSUME NEW j, NEW k, GotOf(j), k.pc # "cmd" => j.pc # "cmd" /\ k.letter = j.letter /\ k.rcpts = j.rcpts,
           k.pc \in InTransit => j.pc \in InTransit,
           j.pc # "cmd" /\ j.pc \notin InTransit => k.ok = j.ok /\ k.over = j.over
    PROVE  GotOf(k)
BY DEF GotOf, Meant

LEMMA GotSame ==
    ASSUME GotInv, UNCHANGED <<got, letter>>, \A d \in Conns : GotOf(conn'[d]),
           \A d \in Conns : conn[d].pc # "cmd" =>
               conn'[d].pc # "cmd" /\ conn'[d].letter = conn[d].letter /\ conn'[d].rcpts = conn[d].rcpts
    PROVE  GotInv'
<1>1. \A d \in Conns : (GotOf(conn[d]))'
  BY DEF GotOf, Meant
<1>2. Unsettled'
  BY DEF Unsettled, BeingBrought, GotInv
<1>3. DeliveredOnce'
  BY DEF GotInv, DeliveredOnce
<1> QED
  BY <1>1, <1>2, <1>3 DEF GotInv

LEMMA MovesGot == ASSUME ConnInv, GotInv, NEW c \in Conns, NEW k, Moves(c, k) PROVE GotInv'
<1>1. conn'[c] = k /\ (\A d \in Conns \ {c} : conn'[d] = conn[d]) /\ Calm(conn[c], k)
  BY Turned DEF Moves
<1>2. GotOf(k)
  <2>1. GotOf(conn[c])
    BY DEF GotInv
  <2> QED
    BY <1>1, <2>1, GotGoesOn DEF Calm
<1>3. \A d \in Conns : GotOf(conn'[d])
  BY <1>1, <1>2 DEF GotInv
<1> QED
  BY <1>1, <1>3, GotSame DEF Moves, Calm

LEMMA ChecksGot == ASSUME ConnInv, GotInv, NEW c \in Conns, NEW u \in Users, NEW k, Checks(c, u, k) PROVE GotInv'
<1>1. conn'[c] = k /\ \A d \in Conns \ {c} : conn'[d] = conn[d]
  BY Turned DEF Checks
<1>2. GotOf(k)
  <2>1. GotOf(conn[c])
    BY DEF GotInv
  <2> QED
    BY <2>1, GotGoesOn DEF Checks, InTransit
<1>3. \A d \in Conns : GotOf(conn'[d])
  BY <1>1, <1>2 DEF GotInv
<1> QED
  BY <1>1, <1>3, GotSame DEF Checks

LEMMA StartsGot == ASSUME ConnInv, GotInv, NEW c \in Conns, NEW m \in Letters, NEW k, Starts(c, m, k) PROVE GotInv'
<1>1. conn'[c] = k /\ \A d \in Conns \ {c} : conn'[d] = conn[d]
  BY Turned DEF Starts
<1>2. GotOf(k)
  <2>1. \A a \in k.rcpts : a \in Addrs /\ letter[m][a] \in {"none", "later"} /\ ~BeingBrought(m, a)
    BY MeantIs DEF Starts, BeingBrought
  <2>2. \A u \in Meant(k) : got[<<u, m>>] = 0
    BY <2>1 DEF Meant, GotInv, Unsettled
  <2> QED
    BY <2>2 DEF Starts, GotOf
<1>3. \A d \in Conns : GotOf(conn'[d])
  BY <1>1, <1>2 DEF GotInv
<1> QED
  BY <1>1, <1>3, GotSame DEF Starts

LEMMA EndsGot == ASSUME ConnInv, GotInv, NEW c \in Conns, NEW m \in Letters, NEW k, Ends(c, m, k) PROVE GotInv'
<1>1. conn'[c] = k /\ (\A d \in Conns \ {c} : conn'[d] = conn[d]) /\ k.pc = "cmd" /\ got' = got
  BY Turned DEF Ends
<1>2. \A d \in Conns : (GotOf(conn[d]))'
  <2>1. \A d \in Conns : GotOf(conn'[d])
    BY <1>1 DEF GotInv, GotOf
  <2> QED
    BY <1>1, <2>1 DEF GotOf, Meant
<1>3. ASSUME NEW n \in Letters, NEW a \in Addrs, letter'[n][a] \in {"none", "later"}, ~(BeingBrought(n, a))', NEW u \in Resolve[a].users
      PROVE  got[<<u, n>>] = 0
  <2>1. \A d \in Conns \ {c} : ~(conn[d].pc # "cmd" /\ conn[d].letter = n /\ a \in conn[d].rcpts)
    BY <1>1, <1>3 DEF BeingBrought
  <2>2. CASE n = m /\ a \in conn[c].rcpts
    <3>1. conn[c].pc = "reply" /\ conn[c].letter = m /\ (conn[c].ok = TRUE => u \in conn[c].over)
      BY <1>3, <2>2 DEF Ends
    <3>2. u \in Meant(conn[c]) /\ GotOf(conn[c])
      BY <2>2 DEF Meant, GotInv
    <3> QED
      BY <2>2, <3>1, <3>2 DEF GotOf, InTransit
  <2>3. CASE ~(n = m /\ a \in conn[c].rcpts)
    <3>1. letter[n][a] \in {"none", "later"}
      BY <1>3, <2>3 DEF Ends
    <3>2. ~BeingBrought(n, a)
      BY <2>1, <2>3 DEF BeingBrought, Ends
    <3> QED
      BY <3>1, <3>2 DEF GotInv, Unsettled
  <2> QED
    BY <2>2, <2>3
<1>4. Unsettled'
  BY <1>1, <1>3 DEF Unsettled
<1>5. DeliveredOnce'
  BY <1>1 DEF GotInv, DeliveredOnce
<1> QED
  BY <1>2, <1>4, <1>5 DEF GotInv

LEMMA StoresGot == ASSUME AddressesApart, ConnInv, GotInv, NEW c \in Conns, NEW k, Stores(c, k) PROVE GotInv'
<1>1. /\ conn'[c] = k /\ (\A d \in Conns \ {c} : Calm(conn[d], conn'[d])) /\ letter' = letter
      /\ conn[c].pc = "insert" /\ k.pc = "vacation" /\ k.ok = TRUE /\ k.over = conn[c].over /\ k.rcpts = conn[c].rcpts
  BY DEF Stores
<1>2. PICK m \in Letters : m = conn[c].letter /\ m = k.letter
  BY <1>1 DEF ConnInv, ConnOK, Sender, Stores
<1>3. PICK o \in SUBSET Users : o = Owners(conn[c].rooms) /\ o \subseteq Meant(conn[c]) /\ o \cap conn[c].over = {}
  <2>1. Owners(conn[c].rooms) \subseteq Claims(conn[c]) /\ Owners(conn[c].rooms) \in SUBSET Users
    BY DEF Claims, Owners
  <2>2. Claims(conn[c]) \subseteq Meant(conn[c]) /\ Claims(conn[c]) \cap conn[c].over = {}
    BY <1>1 DEF ConnInv, ConnOK, Loop, InTransit
  <2> QED
    BY <2>1, <2>2
<1>4. \A u \in Meant(conn[c]) : u \in Users /\ got[<<u, m>>] = 0
  BY <1>1, <1>2, MeantIs DEF GotInv, GotOf, InTransit
<1>5. DOMAIN got = Users \X Letters
  BY DEF ConnInv, InboundTypeOK
<1>6. got' = [p \in Users \X Letters |-> IF p \in {<<u, m>> : u \in o} THEN CopyMore(got[p]) ELSE got[p]]
  BY <1>2, <1>3, <1>5 DEF Stores
<1>7. CopyMore(0) = 1
  <2>1. Cardinality(Conns) \in Nat
    BY InboundAssumption, FS_CardinalityType
  <2> QED
    BY <2>1 DEF CopyMore
<1>8. \A u \in o : got'[<<u, m>>] = 1
  <2> TAKE u \in o
  <2>1. <<u, m>> \in Users \X Letters /\ got[<<u, m>>] = 0 /\ <<u, m>> \in {<<v, m>> : v \in o}
    BY <1>3, <1>4
  <2> QED
    BY <1>6, <1>7, <2>1
<1>9. \A u \in Users, n \in Letters : n # m \/ u \notin o => got'[<<u, n>>] = got[<<u, n>>]
  <2> TAKE u \in Users, n \in Letters
  <2>1. <<u, n>> \in {<<v, m>> : v \in o} => n = m /\ u \in o
    OBVIOUS
  <2> QED
    BY <1>6, <2>1
<1>10. DeliveredOnce'
  <2>1. \A u \in Users, n \in Letters : got[<<u, n>>] <= 1
    BY <1>5 DEF GotInv, DeliveredOnce
  <2>2. \A u \in Users, n \in Letters : got'[<<u, n>>] <= 1
    <3> TAKE u \in Users, n \in Letters
    <3>1. CASE n = m /\ u \in o
      <4>1. got'[<<u, n>>] = 1
        BY <1>8, <3>1
      <4> QED
        BY <4>1
    <3>2. CASE n # m \/ u \notin o
      <4>1. got'[<<u, n>>] = got[<<u, n>>]
        BY <1>9, <3>2
      <4> QED
        BY <2>1, <4>1
    <3> QED
      BY <3>1, <3>2
  <2>3. DOMAIN got' = Users \X Letters
    BY <1>6
  <2> QED
    BY <2>2, <2>3 DEF DeliveredOnce
<1>11. (GotOf(conn[c]))'
  <2>1. Meant(k) = Meant(conn[c]) /\ "vacation" \notin InTransit
    BY <1>1 DEF Meant, InTransit
  <2>2. \A u \in Meant(k) : got'[<<u, m>>] = 0 \/ u \notin k.over
    <3> TAKE u \in Meant(k)
    <3>1. CASE u \in o
      BY <1>1, <1>3, <3>1
    <3>2. CASE u \notin o
      BY <1>4, <1>9, <2>1, <3>2
    <3> QED
      BY <3>1, <3>2
  <2> QED
    BY <1>1, <1>2, <2>1, <2>2 DEF GotOf, Meant
<1>12. ASSUME NEW d \in Conns \ {c} PROVE (GotOf(conn[d]))'
  <2>1. GotOf(conn'[d])
    <3>1. GotOf(conn[d])
      BY DEF GotInv
    <3> QED
      BY <1>1, <3>1, GotGoesOn DEF Calm
  <2>2. CASE conn'[d].pc = "cmd"
    BY <2>2 DEF GotOf
  <2>3. CASE conn'[d].pc # "cmd"
    <3>1. conn[d].pc # "cmd" /\ conn'[d].letter = conn[d].letter /\ conn'[d].rcpts = conn[d].rcpts
      BY <1>1, <2>3 DEF Calm
    <3>2. conn[d].letter # m /\ conn[d].letter \in Letters
      BY <1>1, <1>2, <3>1 DEF ConnInv, OneLetter, ConnOK, Sender
    <3>3. Meant(conn'[d]) \subseteq Users
      BY <3>1, MeantIs DEF Meant
    <3>4. \A u \in Meant(conn'[d]) : got'[<<u, conn'[d].letter>>] = got[<<u, conn'[d].letter>>]
      BY <1>9, <3>1, <3>2, <3>3
    <3> QED
      BY <2>1, <3>4 DEF GotOf, Meant
  <2> QED
    BY <2>2, <2>3
<1>13. ASSUME NEW n \in Letters, NEW a \in Addrs, letter'[n][a] \in {"none", "later"}, ~(BeingBrought(n, a))', NEW u \in Resolve[a].users
       PROVE  got'[<<u, n>>] = 0
  <2>1. \A d \in Conns : ~(conn[d].pc # "cmd" /\ conn[d].letter = n /\ a \in conn[d].rcpts)
    <3> TAKE d \in Conns
    <3>1. CASE d = c
      BY <1>1, <1>2, <1>13, <3>1 DEF BeingBrought
    <3>2. CASE d # c
      BY <1>1, <1>13, <3>2 DEF BeingBrought, Calm
    <3> QED
      BY <3>1, <3>2
  <2>2. got[<<u, n>>] = 0
    BY <1>1, <1>13, <2>1 DEF GotInv, Unsettled, BeingBrought
  <2>3. u \in Users
    BY InboundAssumption
  <2>4. n # m \/ u \notin o
    <3>1. SUFFICES ASSUME n = m, u \in o PROVE FALSE
      OBVIOUS
    <3>2. PICK b \in conn[c].rcpts : u \in Resolve[b].users
      BY <1>3, <3>1 DEF Meant
    <3>3. a \notin conn[c].rcpts
      BY <1>1, <1>2, <2>1, <3>1
    <3>4. b \in Addrs /\ b # a
      BY <3>2, <3>3, MeantIs
    <3> QED
      BY <3>2, <3>4 DEF AddressesApart
  <2> QED
    BY <1>9, <2>2, <2>3, <2>4
<1>14. Unsettled'
  BY <1>13 DEF Unsettled
<1> QED
  BY <1>10, <1>11, <1>12, <1>14 DEF GotInv

LEMMA RoomStep == ConnInv /\ RoomInv /\ [InboundNext]_invars => RoomInv'
<1> SUFFICES ASSUME ConnInv, RoomInv, [InboundNext]_invars PROVE RoomInv'
  OBVIOUS
<1>1. ConnInv'
  BY ConnInvStep
<1>2. CASE UNCHANGED invars
  <2>1. ASSUME NEW u \in Users, Limit[u] > 0
        PROVE  Roomy(Used(u), Past(u), Brings(u), Limit[u], u \in crowded, Biggest, Cardinality(Conns))'
    <3>1. (Past(u))' \subseteq Past(u) /\ \A d \in (Past(u))' : conn'[d].letter = conn[d].letter
      BY <1>2, PastIs DEF invars
    <3>2. (Keeps(u))' = Keeps(u) /\ crowded' = crowded
      BY <1>2 DEF Keeps, invars
    <3>3. (Used(u))' <= Used(u)
      BY <3>2, UsedSteps
    <3> QED
      BY <1>1, <2>1, <3>1, <3>2, <3>3, RoomKept
  <2> QED
    BY <1>2, <2>1 DEF RoomInv, invars
<1>3. ASSUME NEW u \in Users, NEW m \in Letters, UserDeletes(u, m) PROVE RoomInv'
  BY <1>1, <1>3, DeletesRoom
<1>4. ASSUME NEW c \in Conns, NEW k, Moves(c, k) \/ Stores(c, k) PROVE RoomInv'
  BY <1>1, <1>4, MovesRoom, StoresRoom
<1>5. ASSUME NEW c \in Conns, NEW u \in Users, NEW k, Checks(c, u, k) PROVE RoomInv'
  BY <1>1, <1>5, ChecksRoom
<1>6. ASSUME NEW c \in Conns, NEW m \in Letters, NEW k, Starts(c, m, k) \/ Ends(c, m, k) PROVE RoomInv'
  BY <1>1, <1>6, StartsRoom, EndsRoom
<1> QED
  BY <1>2, <1>3, <1>4, <1>5, <1>6, InboundKinds

LEMMA GotStep == AddressesApart /\ ConnInv /\ GotInv /\ [InboundNext]_invars => GotInv'
<1> SUFFICES ASSUME AddressesApart, ConnInv, GotInv, [InboundNext]_invars PROVE GotInv'
  OBVIOUS
<1>1. CASE UNCHANGED invars
  BY <1>1 DEF GotInv, GotOf, Unsettled, BeingBrought, DeliveredOnce, invars
<1>2. ASSUME NEW u \in Users, NEW m \in Letters, UserDeletes(u, m) PROVE GotInv'
  BY <1>2 DEF UserDeletes, GotInv, GotOf, Unsettled, BeingBrought, DeliveredOnce
<1>3. ASSUME NEW c \in Conns, NEW k, Moves(c, k) \/ Stores(c, k) PROVE GotInv'
  BY <1>3, MovesGot, StoresGot
<1>4. ASSUME NEW c \in Conns, NEW u \in Users, NEW k, Checks(c, u, k) PROVE GotInv'
  BY <1>4, ChecksGot
<1>5. ASSUME NEW c \in Conns, NEW m \in Letters, NEW k, Starts(c, m, k) \/ Ends(c, m, k) PROVE GotInv'
  BY <1>5, StartsGot, EndsGot
<1> QED
  BY <1>1, <1>2, <1>3, <1>4, <1>5, InboundKinds

LEMMA InboundInitial == InboundInit => RoomInv /\ GotInv
<1> SUFFICES ASSUME InboundInit PROVE RoomInv /\ GotInv
  OBVIOUS
<1>1. \A c \in Conns : conn[c].pc = "cmd"
  BY ConnInitial DEF InboundInit, Greeting
<1>2. GotInv
  <2>1. \A p \in DOMAIN got : got[p] = 0 /\ 0 <= 1
    BY DEF InboundInit
  <2>2. DeliveredOnce
    BY <2>1 DEF DeliveredOnce
  <2>3. \A m \in Letters, a \in Addrs : \A u \in Resolve[a].users : got[<<u, m>>] = 0
    <3> TAKE m \in Letters, a \in Addrs
    <3>1. Resolve[a].users \in SUBSET Users
      BY InboundAssumption
    <3> QED
      BY <3>1 DEF InboundInit
  <2> QED
    BY <1>1, <2>2, <2>3 DEF GotInv, GotOf, Unsettled
<1>3. RoomInv
  <2>1. ASSUME NEW u \in Users, Limit[u] > 0
        PROVE  Roomy(Used(u), Past(u), Brings(u), Limit[u], u \in crowded, Biggest, Cardinality(Conns))
    <3>1. Past(u) = {}
      BY <1>1, PastIs DEF InTransit
    <3>2. Used(u) = 0
      <4>1. PICK T : Additive(Size, Letters, T) /\ Used(u) = T[Keeps(u)]
        BY UsedIs
      <4>2. Keeps(u) = {}
        BY DEF Keeps, InboundInit
      <4> QED
        BY <4>1, <4>2 DEF Additive
    <3>3. u \notin crowded /\ Limit[u] \in Nat
      BY InboundAssumption DEF InboundInit
    <3> QED
      BY <3>1, <3>2, <3>3 DEF Roomy
  <2>2. crowded = {}
    BY DEF InboundInit
  <2> QED
    BY <2>1, <2>2 DEF RoomInv
<1> QED
  BY <1>2, <1>3

LEMMA RoomBounds == ConnInv /\ RoomInv => OvershootBounded
<1> SUFFICES ASSUME ConnInv, RoomInv, NEW u \in Users, Limit[u] > 0
             PROVE  Used(u) <= Limit[u] + IF u \in crowded
                              THEN (Cardinality(Conns) - 1) * Max({Size[m] : m \in Letters}) ELSE 0
  BY DEF OvershootBounded
<1>1. PICK x \in Nat, lim \in Nat : x = Used(u) /\ lim = Limit[u]
  BY UsedSteps, InboundAssumption
<1>2. Roomy(x, Past(u), Brings(u), lim, u \in crowded, Biggest, Cardinality(Conns))
  BY <1>1 DEF RoomInv
<1>3. CASE u \notin crowded
  <2>1. x <= lim
    BY <1>2, <1>3 DEF Roomy
  <2> QED
    BY <1>1, <1>3, <2>1
<1>4. CASE u \in crowded
  <2>1. Conns # {} /\ Letters # {}
    BY <1>4 DEF RoomInv
  <2>2. PICK M \in Nat : M = Biggest /\ M = Max({Size[m] : m \in Letters})
    BY <2>1, BiggestIs DEF Biggest
  <2>3. PICK n \in Nat : n = Cardinality(Conns) /\ n # 0
    BY <2>1, InboundAssumption, FS_CardinalityType, FS_EmptySet
  <2>4. PICK e \in Nat : n = e + 1
    <3>1. n - 1 \in Nat /\ n = (n - 1) + 1
      BY <2>3
    <3> QED
      BY <3>1
  <2>5. PICK eM \in Nat : eM = e * M
    BY Multiples
  <2>6. n * M = eM + M
    BY <2>4, <2>5, OneMore
  <2>7. x + M <= lim + n * M
    BY <1>2, <1>4, <2>2, <2>3 DEF Roomy
  <2>8. x <= lim + eM
    BY <2>6, <2>7
  <2>9. n - 1 = e
    BY <2>4
  <2> QED
    BY <1>1, <1>4, <2>2, <2>3, <2>5, <2>8, <2>9
<1> QED
  BY <1>3, <1>4

(* Whatever is stored, aborts or is deleted between the checks of a         *)
(* delivery and its insert, mailboxes go over their limit by no more than   *)
(* what the concurrent deliveries brought, a correspondent hears from a     *)
(* user's vacation once, and an SPF pass is the sender's own.               *)
THEOREM OvershootIsBounded == InboundSpec => [](OvershootBounded /\ QuietAfterReply /\ PassIsEarned)
<1>1. ConnInv /\ RoomInv => OvershootBounded /\ QuietAfterReply /\ PassIsEarned
  BY RoomBounds, DialogueIsSound
<1>2. InboundInit => ConnInv /\ RoomInv
  BY ConnInitial, InboundInitial
<1>3. ConnInv /\ RoomInv /\ [InboundNext]_invars => (ConnInv /\ RoomInv)'
  BY ConnInvStep, RoomStep
<1> QED
  BY <1>1, <1>2, <1>3, PTL DEF InboundSpec

(* And where no two addresses share a user, nobody is given a letter twice, *)
(* however often the client comes back after a transient answer.            *)
THEOREM InboundIsAlwaysSound == AddressesApart => (InboundSpec => []InboundIsSound)
<1> SUFFICES ASSUME AddressesApart PROVE InboundSpec => []InboundIsSound
  OBVIOUS
<1>1. ConnInv /\ RoomInv /\ GotInv => InboundIsSound
  BY RoomBounds, DialogueIsSound DEF InboundIsSound, GotInv
<1>2. ConnInv /\ RoomInv /\ GotInv /\ [InboundNext]_invars => (ConnInv /\ RoomInv /\ GotInv)'
  BY ConnInvStep, RoomStep, GotStep
<1>3. InboundInit => ConnInv /\ RoomInv /\ GotInv
  BY ConnInitial, InboundInitial
<1> QED
  BY <1>1, <1>2, <1>3, PTL DEF InboundSpec

-----------------------------------------------------------------------------
(* The components side by side, as MCMailFlow runs them *)

(* One component runs and the others rest, which every one of them allows;  *)
(* the bound on the work of a list only leaves some of its steps out.       *)
LEMMA EachRuns ==
    [MCNext]_mailFlowVars =>
        [SubmissionNext]_svars /\ [InboundNext]_invars /\ [RoomsNext]_rvars /\ [ListNext]_lvars /\ [ModerationNext]_mvars
BY DEF MCNext, mailFlowVars

LEMMA MailFlowRuns == MCSpec => SubmissionSpec /\ InboundSpec /\ RoomsSpec /\ ListSpec /\ ModerationSpec
<1>1. MCInit => SubmissionInit /\ InboundInit /\ RoomsInit /\ ListInit /\ ModerationInit
  BY DEF MCInit
<1>2. QED
  BY <1>1, EachRuns, PTL DEF MCSpec, SubmissionSpec, InboundSpec, RoomsSpec, ListSpec, ModerationSpec

(* The whole run is well typed, whichever component runs in it, and for any *)
(* number of sessions, connections, rooms, addresses and moderators.        *)
THEOREM MailTypeCorrect == MCSpec => []MailTypeOK
<1>1. ModerationSpec => []ModerationTypeOK
  <2>1. ModerationInv => ModerationTypeOK
    BY DEF ModerationInv
  <2>2. QED
    BY <2>1, ModerationInitial, ModerationStep, PTL DEF ModerationSpec
<1>2. SubmissionTypeOK /\ InboundTypeOK /\ RoomsTypeOK /\ ListTypeOK /\ ModerationTypeOK => MailTypeOK
  BY DEF MailTypeOK
<1>3. QED
  BY <1>1, <1>2, MailFlowRuns, SubmissionTypeCorrect, InboundTypeCorrect, RoomsTypeCorrect, ListTypeCorrect, PTL
=============================================================================
