----------------------------- MODULE InboundMail -----------------------------
(***************************************************************************)
(* Mail coming in: the SMTP and LMTP dialogue of HandleInbound (smtp_in)   *)
(* and deliver::LocalDeliver (core/src/delivery.cpp), with the recipients' *)
(* storage quotas (core/src/quota.cpp), Sieve filters and vacation         *)
(* replies.  A message is a model value with a size; the client sends it   *)
(* again after a transient answer.  Between two statements of a delivery   *)
(* other deliveries run and users delete mail.                             *)
(***************************************************************************)
EXTENDS Naturals, FiniteSets, FiniteSetsExt

CONSTANTS
    Conns,          \* inbound connections
    ModeOf,         \* the listener each came to: "mx" or "lmtp"
    Users,          \* local users
    Addrs,          \* envelope recipients
    Resolve,        \* what an address stands for: users, forwards, public rooms
    Senders,        \* envelope senders
    SendersOf,      \* those each connection brings mail of
    Letters,        \* messages
    Size,           \* of each letter, in the unit of Limit
    Limit,          \* each user's limit_bytes; 0 is unlimited
    Filters,        \* what each user's active script may do
    Enforce,        \* switched-on verdicts: subset of {"spf", "dkim", "dmarc"}
    MaxInMails,       \* bound: MAIL commands of each connection
    NoSender, NoLetter

ASSUME InboundAssumption ==
    /\ IsFiniteSet(Conns) /\ IsFiniteSet(Letters)    \* they are counted and summed
    /\ ModeOf \in [Conns -> {"mx", "lmtp"}]
    /\ Resolve \in [Addrs -> [users : SUBSET Users, forward : BOOLEAN, room : BOOLEAN]]
    /\ Size \in [Letters -> Nat] /\ Limit \in [Users -> Nat]
    /\ Filters \in [Users -> SUBSET {"none", "file", "redirect", "discard", "reject", "vacation"}]
    /\ Enforce \subseteq {"spf", "dkim", "dmarc"}
    /\ MaxInMails \in [Conns -> Nat] /\ SendersOf \in [Conns -> SUBSET Senders]

VARIABLES
    conn,       \* the dialogue and the delivery each connection is in
    filter,     \* each user's active script
    kept,       \* <<user, letter>>: letters in a mailbox of the user
    replied,    \* quackmail_vacation_sent: <<user, sender>>
    got,        \* copies of each letter each user was ever given
    wire,       \* <<user, sender>>: vacation replies of deliveries that are over
    crowded,    \* users two deliveries to whom were past the check at once
    letter      \* what the client knows of each letter, recipient by recipient

invars == <<conn, filter, kept, replied, got, wire, crowded, letter>>

Folders == {"Mail", "Other", "Quarantine"}
InRooms == (Users \X Folders) \cup {<<"public", "room">>}
Answers == {"none", "ok", "later", "never"}

NoVerdict == [of |-> NoSender, res |-> "none"]

Greeting(mode) ==
    [pc |-> "cmd", mode |-> mode, mails |-> 0, sender |-> NoSender, open |-> FALSE,
     spf |-> NoVerdict, rcpts |-> {}, letter |-> NoLetter,
     quarantine |-> FALSE, todo |-> {}, cur |-> {}, rooms |-> {}, over |-> {}, rejected |-> {},
     vacations |-> {}, sent |-> {}, known |-> {}, stale |-> {}, ok |-> TRUE]

ConnStates ==
    [pc : {"cmd", "rcpt", "script", "insert", "vacation", "vacsend", "vacrecord", "reply"},
     mode : {"mx", "lmtp"}, mails : Nat,
     sender : Senders \cup {NoSender}, open : BOOLEAN,
     spf : [of : Senders \cup {NoSender}, res : {"none", "pass", "fail"}],
     rcpts : SUBSET Addrs, letter : Letters \cup {NoLetter}, quarantine : BOOLEAN,
     todo : SUBSET Users, cur : SUBSET Users,       \* LocalDeliver's loop over recipients
     rooms : SUBSET InRooms, over : SUBSET Users, rejected : SUBSET Users,
     vacations : SUBSET Users, stale : SUBSET InRooms, ok : BOOLEAN,
     sent : SUBSET Users,                           \* vacation replies of this delivery
     known : SUBSET (Users \X Senders)]             \* wire when the delivery began

InboundTypeOK ==
    /\ conn \in [Conns -> ConnStates]
    /\ \A c \in Conns : conn[c].pc = "cmd" => conn[c].letter = NoLetter /\ conn[c].rooms = {} /\ conn[c].over = {}
    /\ DOMAIN filter = Users /\ \A u \in Users : filter[u] \in Filters[u]
    /\ kept \subseteq Users \X Letters
    /\ replied \subseteq Users \X Senders
    /\ got \in [Users \X Letters -> 0..(Cardinality(Conns) + 1)]
    /\ wire \subseteq Users \X Senders /\ crowded \subseteq Users
    /\ letter \in [Letters -> [Addrs -> Answers]]

InboundInit ==
    /\ conn = [c \in Conns |-> Greeting(ModeOf[c])]
    /\ filter \in {f \in [Users -> UNION {Filters[u] : u \in Users}] : \A u \in Users : f[u] \in Filters[u]}
    /\ kept = {} /\ replied = {} /\ wire = {} /\ crowded = {}
    /\ got = [p \in Users \X Letters |-> 0]
    /\ letter = [m \in Letters |-> [a \in Addrs |-> "none"]]

Say(c, j) == conn' = [conn EXCEPT ![c] = j]
CopyMore(n) == IF n <= Cardinality(Conns) THEN n + 1 ELSE n

ResetTransaction(j) == [Greeting(j.mode) EXCEPT !.mails = j.mails]

-----------------------------------------------------------------------------
(* Quotas *)

Used(u) == MapThenSumSet(LAMBDA m : Size[m], {m \in Letters : <<u, m>> \in kept})
IsOver(u) == Limit[u] > 0 /\ Used(u) >= Limit[u]

WouldExceed(u, extra) == Limit[u] > 0 /\ Used(u) + extra > Limit[u]

-----------------------------------------------------------------------------
(* Commands *)

(* Deviation: SPF is asked before the block lists, whose refusal then       *)
(* leaves the transaction that was open with the new verdict.               *)
MxMailSpfFirst(c, from) ==
    /\ conn[c].pc = "cmd"
    /\ conn[c].mails < MaxInMails[c]
    /\ \E res \in {"none", "pass", "fail"}, listed \in BOOLEAN :
          LET k == [conn[c] EXCEPT !.mails = @ + 1, !.spf = [of |-> from, res |-> res]]
          IN  Say(c, IF listed THEN k ELSE [k EXCEPT !.sender = from, !.rcpts = {}, !.open = TRUE])
    /\ UNCHANGED <<filter, crowded, kept, replied, got, wire, letter>>

(* MAIL on the MX evaluates SPF and may refuse on it; the transaction that  *)
(* was open before then stays open.  A sender on the block list is refused  *)
(* before anything changes.                                                 *)
MxMail(c, from) ==
    LET j == conn[c] IN
    /\ j.pc = "cmd"
    /\ j.mails < MaxInMails[c]
    /\ \E res \in IF j.mode = "mx" THEN {"none", "pass", "fail"} ELSE {j.spf.res} :
          LET k == [j EXCEPT !.mails = @ + 1,
                             !.spf = IF j.mode = "mx" THEN [of |-> from, res |-> res] ELSE @]
          IN  Say(c, IF j.mode = "mx" /\ res = "fail" /\ "spf" \in Enforce THEN k
                     ELSE [k EXCEPT !.sender = from, !.rcpts = {}, !.open = TRUE])
    /\ UNCHANGED <<filter, crowded, kept, replied, got, wire, letter>>

(* Block lists and DNSBLs refuse without a trace; so does an address nobody *)
(* has, and one all of whose users are over quota now.                      *)
MxRcpt(c, a) ==
    LET r == Resolve[a] IN
    /\ conn[c].pc = "cmd" /\ conn[c].open
    /\ r.users # {} \/ r.forward \/ r.room
    /\ r.users = {} \/ \E u \in r.users : ~IsOver(u)
    /\ a \notin conn[c].rcpts
    /\ Say(c, [conn[c] EXCEPT !.rcpts = @ \cup {a}])
    /\ UNCHANGED <<filter, crowded, kept, replied, got, wire, letter>>

(* RSET, STARTTLS, which also forgets the HELO name, and QUIT, whose place  *)
(* another connection takes.                                                *)
MxRset(c) ==
    /\ conn[c].pc = "cmd" /\ conn[c].open
    /\ Say(c, ResetTransaction(conn[c]))
    /\ UNCHANGED <<filter, crowded, kept, replied, got, wire, letter>>

Settle(m, rcpts, answer) ==
    letter' = [letter EXCEPT ![m] = [a \in Addrs |-> IF a \in rcpts THEN answer[a] ELSE @[a]]]

(* The client offers a letter to recipients who are not settled, on one     *)
(* connection at a time.                                                    *)
Offers(c, m) ==
    /\ conn[c].pc = "cmd" /\ conn[c].open /\ conn[c].rcpts # {}
    /\ \A a \in conn[c].rcpts : letter[m][a] \in {"none", "later"}
    /\ \A d \in Conns : conn[d].letter # m

(* DKIM failed, or the sender's DMARC policy is to reject. *)
DataRejected(c, m) ==
    /\ Offers(c, m)
    /\ conn[c].mode = "mx" /\ Enforce \cap {"dkim", "dmarc"} # {}
    /\ Settle(m, conn[c].rcpts, [a \in Addrs |-> "never"])
    /\ Say(c, ResetTransaction(conn[c]))
    /\ UNCHANGED <<filter, crowded, kept, replied, got, wire>>

(* The body is read, forwards are queued, and LocalDeliver begins unless    *)
(* everything was forwarded.  The SPF verdict has gone into the headers and *)
(* the DMARC decision and is not looked at again.                           *)
MxData(c, m) ==
    LET j == conn[c]
        users == UNION {Resolve[a].users : a \in j.rcpts}
        rooms == IF \E a \in j.rcpts : Resolve[a].room THEN {<<"public", "room">>} ELSE {}
    IN  /\ Offers(c, m)
        /\ \E q \in {FALSE} \cup {j.mode = "mx" /\ "dmarc" \in Enforce} :
              Say(c, [j EXCEPT !.letter = m, !.quarantine = q, !.todo = users, !.rooms = rooms, !.known = wire, !.spf = NoVerdict,
                               !.pc = IF users = {} /\ rooms = {} THEN "reply" ELSE "rcpt"])
        /\ UNCHANGED <<filter, crowded, kept, replied, got, wire, letter>>

-----------------------------------------------------------------------------
(* LocalDeliver *)

Owners(rooms) == {u \in Users : \E f \in Folders : <<u, f>> \in rooms}

(* The user's quota was found to allow the letter, which is not stored yet. *)
Checked(d, u) == u \in conn[d].cur \cup Owners(conn[d].rooms) /\ conn[d].pc \in {"rcpt", "script", "insert"}

RcptQuota(c, u) ==
    LET j == conn[c]
        full == WouldExceed(u, Size[j.letter])
    IN  /\ j.pc = "rcpt" /\ u \in j.todo
        /\ Say(c, IF full THEN [j EXCEPT !.todo = @ \ {u}, !.over = @ \cup {u}]
                  ELSE [j EXCEPT !.todo = @ \ {u}, !.cur = {u}, !.pc = "script"])
        /\ crowded' = IF ~full /\ Limit[u] > 0 /\ \E d \in Conns \ {c} : Checked(d, u)
                      THEN crowded \cup {u} ELSE crowded
        /\ UNCHANGED <<filter, kept, replied, got, wire, letter>>

(* A quarantine overrides the filter.  Redirected mail is queued at once and *)
(* not kept; a vacation waits until the message is stored.                  *)
RcptScript(c, u) ==
    LET j == conn[c]
        k == [j EXCEPT !.cur = {}, !.pc = "rcpt"]
        does == IF j.quarantine THEN "quarantine" ELSE filter[u]
        folder == CASE does = "quarantine" -> "Quarantine" [] does = "file" -> "Other" [] OTHER -> "Mail"
    IN  /\ j.pc = "script" /\ j.cur = {u}
        /\ Say(c, [k EXCEPT !.rooms = IF does \in {"redirect", "discard", "reject"} THEN @
                                      ELSE @ \cup {<<u, folder>>},
                            !.rejected = IF does = "reject" THEN @ \cup {u} ELSE @,
                            !.vacations = IF does = "vacation" THEN @ \cup {u} ELSE @])
        /\ UNCHANGED <<filter, crowded, kept, replied, got, wire, letter>>

(* InsertMessage begins, with its own quota check for all rooms together. *)
InsertBegin(c) ==
    LET j == conn[c] IN
    /\ j.pc = "rcpt" /\ j.todo = {}
    /\ Say(c, IF j.rooms = {} THEN [j EXCEPT !.pc = "vacation"]
              ELSE IF \E u \in Owners(j.rooms) : IsOver(u) THEN [j EXCEPT !.pc = "reply", !.ok = FALSE]
              ELSE [j EXCEPT !.pc = "insert", !.stale = {}])
    /\ UNCHANGED <<filter, crowded, kept, replied, got, wire, letter>>

(* It commits unless a room it updates was updated since it began. *)
InsertCommit(c) ==
    LET j == conn[c]
        aborts == j.stale \cap j.rooms # {}
        to == {<<u, j.letter>> : u \in Owners(j.rooms)}
    IN  /\ j.pc = "insert"
        /\ conn' = [d \in Conns |->
                      IF d = c THEN [j EXCEPT !.pc = IF aborts THEN "reply" ELSE "vacation",
                                              !.ok = ~aborts, !.stale = {}, !.rooms = {},
                                              !.quarantine = FALSE]
                      ELSE IF ~aborts /\ conn[d].pc = "insert"
                      THEN [conn[d] EXCEPT !.stale = @ \cup j.rooms] ELSE conn[d]]
        /\ kept' = IF aborts THEN kept ELSE kept \cup to
        /\ got' = IF aborts THEN got ELSE [p \in DOMAIN got |-> IF p \in to THEN CopyMore(got[p]) ELSE got[p]]
        /\ UNCHANGED <<filter, crowded, replied, wire, letter>>

VacationAlreadySent(c, u) ==
    LET j == conn[c] IN
    /\ j.pc = "vacation" /\ u \in j.vacations
    /\ Say(c, IF <<u, j.sender>> \in replied THEN [j EXCEPT !.vacations = @ \ {u}]
              ELSE [j EXCEPT !.vacations = @ \ {u}, !.cur = {u}, !.pc = "vacsend"])
    /\ UNCHANGED <<filter, crowded, kept, replied, got, wire, letter>>

(* Queued and charged, unless the user's send quota is used up. *)
SendVacation(c, u) ==
    /\ conn[c].pc = "vacsend" /\ conn[c].cur = {u}
    /\ Say(c, [conn[c] EXCEPT !.pc = "vacrecord", !.sent = @ \cup {u}])
    /\ UNCHANGED <<filter, crowded, kept, replied, got, wire, letter>>

VacationOverRate(c) ==
    /\ conn[c].pc = "vacsend"
    /\ Say(c, [conn[c] EXCEPT !.cur = {}, !.pc = "vacation"])
    /\ UNCHANGED <<filter, crowded, kept, replied, got, wire, letter>>

RecordVacation(c, u) ==
    /\ conn[c].pc = "vacrecord" /\ conn[c].cur = {u}
    /\ Say(c, [conn[c] EXCEPT !.cur = {}, !.pc = "vacation"])
    /\ replied' = replied \cup {<<u, conn[c].sender>>}
    /\ UNCHANGED <<filter, crowded, kept, got, wire, letter>>

VacationsDone(c) ==
    /\ conn[c].pc = "vacation" /\ conn[c].vacations = {}
    /\ Say(c, [conn[c] EXCEPT !.pc = "reply"])
    /\ UNCHANGED <<filter, crowded, kept, replied, got, wire, letter>>

-----------------------------------------------------------------------------
(* An envelope recipient is refused, or full, if all its destinations were. *)
Refused(j, a) == Resolve[a].users # {} /\ Resolve[a].users \subseteq j.rejected

Full(j, a) == Resolve[a].users # {} /\ Resolve[a].users \subseteq j.over

Answer(j, a) ==
    IF j.mode = "lmtp"
    THEN CASE ~j.ok -> "later"
           [] j.ok /\ Refused(j, a) -> "never"
           [] j.ok /\ ~Refused(j, a) /\ Full(j, a) -> "later"
           [] OTHER -> "ok"
    ELSE CASE ~j.ok \/ \A b \in j.rcpts : Full(j, b) -> "later"
           [] j.ok /\ j.rejected # {} /\ \E b \in j.rcpts : ~Full(j, b) -> "never"
           [] OTHER -> "ok"

Reply(c) ==
    LET j == conn[c] IN
    /\ j.pc = "reply"
    /\ Settle(j.letter, j.rcpts, [a \in Addrs |-> Answer(j, a)])
    /\ Say(c, ResetTransaction(j))
    /\ wire' = wire \cup {<<u, j.sender>> : u \in j.sent}
    /\ UNCHANGED <<filter, crowded, kept, replied, got>>

(* A user deletes a message; what one without a limit keeps is never asked. *)
UserDeletes(u, m) ==
    /\ <<u, m>> \in kept /\ Limit[u] > 0
    /\ kept' = kept \ {<<u, m>>}
    /\ UNCHANGED <<conn, filter, crowded, replied, got, wire, letter>>

InboundNext ==
    \/ \E c \in Conns :
        \/ \E s \in SendersOf[c] : MxMail(c, s)
        \/ \E a \in Addrs : MxRcpt(c, a)
        \/ MxRset(c)
        \/ \E m \in Letters : MxData(c, m)
        \/ \E m \in Letters : DataRejected(c, m)
        \/ \E u \in Users : RcptQuota(c, u)
        \/ \E u \in Users : RcptScript(c, u)
        \/ InsertBegin(c)
        \/ InsertCommit(c)
        \/ \E u \in Users : VacationAlreadySent(c, u)
        \/ \E u \in Users : SendVacation(c, u)
        \/ VacationOverRate(c)
        \/ \E u \in Users : RecordVacation(c, u)
        \/ VacationsDone(c)
        \/ Reply(c)
    \/ \E u \in Users, m \in Letters : UserDeletes(u, m)

InboundSpec == InboundInit /\ [][InboundNext]_invars

-----------------------------------------------------------------------------
(* Properties *)

(* A sender that is told to come back later has left no copy behind, so the *)
(* copy it brings then is the only one: whatever fills up or aborts between *)
(* the quota checks and the insert, and however the answers for several     *)
(* destinations are folded into one, nobody is given a letter twice.        *)
DeliveredOnce == \A p \in DOMAIN got : got[p] <= 1

(* The checks of a delivery are apart from its insert, so concurrent ones   *)
(* may together go over a limit, by no more than what the others carried;   *)
(* one at a time, with deletions at any point, they never do.               *)
OvershootBounded ==
    \A u \in Users : Limit[u] > 0 =>
        Used(u) <= Limit[u] + IF u \in crowded
                              THEN (Cardinality(Conns) - 1) * Max({Size[m] : m \in Letters}) ELSE 0

(* Once a delivery that answered a correspondent is over, no later one      *)
(* answers again inside the window, whichever connection it comes in on.    *)
QuietAfterReply ==
    \A c \in Conns : conn[c].pc = "vacsend" =>
        \A u \in conn[c].cur : <<u, conn[c].sender>> \notin conn[c].known

(* "SPF is evaluated here so its verdict covers the whole transaction": a   *)
(* pass on record was earned by the sender of the transaction it is on      *)
(* record for, through refused MAILs, RSETs and repeated MAILs.             *)
PassIsEarned ==
    \A c \in Conns : conn[c].open /\ conn[c].spf.res = "pass" => conn[c].spf.of = conn[c].sender

(* The whole of it: whatever the verdict, it is the sender's own. *)
VerdictIsTheSenders ==
    \A c \in Conns : conn[c].open /\ conn[c].spf.res # "none" => conn[c].spf.of = conn[c].sender

(* "at least one destination accepted it": an LMTP recipient is answered    *)
(* 250 only if some destination of it took the message.                     *)
AcceptedBySomeone ==
    [][\A c \in Conns, a \in Addrs :
          LET j == conn[c]
              r == Resolve[a]
          IN  (/\ j.pc = "reply" /\ conn'[c].pc = "cmd" /\ j.mode = "lmtp" /\ a \in j.rcpts
               /\ letter'[j.letter][a] = "ok" /\ ~r.forward /\ ~r.room)
              => ~(r.users \subseteq j.over \cup j.rejected)]_invars

(* What senders and recipients may rely on: DeliveredOnce, OvershootBounded, *)
(* QuietAfterReply and PassIsEarned.                                        *)
InboundIsSound == DeliveredOnce /\ OvershootBounded /\ QuietAfterReply /\ PassIsEarned
=============================================================================
