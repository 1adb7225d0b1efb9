-------------------------------- MODULE Acme --------------------------------
(***************************************************************************)
(* One managed certificate: its rows in quackmail_acme_orders, _certs and   *)
(* _challenges, the two files in the certificate directory, and the pair    *)
(* the listeners have loaded. RunOnce and RunOrder are run by the hourly    *)
(* worker and by the administrator, who also orders, revokes, forgets and   *)
(* reloads. The certificate authority may refuse or fail at every request.  *)
(*                                                                         *)
(* A key and the certificate issued for it carry the same number. The       *)
(* account, the backoff's length (fifteen minutes to a day) and the PEM     *)
(* texts are left out.                                                     *)
(***************************************************************************)
EXTENDS Naturals, FiniteSets

CONSTANTS Runners,      \* who calls RunOnce: the worker, and whoever runs it by hand
          CaTokens,     \* http-01 tokens the authority hands out; it may repeat one that is pending
          MaxIssued,    \* bound: certificates issued
          MaxCrashes    \* bound: process deaths

ASSUME AcmeBounds == {MaxIssued, MaxCrashes} \subseteq Nat

VARIABLES order,       \* the row of quackmail_acme_orders
          cert,        \* the row of quackmail_acme_certs
          disk,        \* <name>.pem and <name>.key
          served,      \* the pair the listeners present; 0 when they have none of ours
          challenges,  \* quackmail_acme_challenges: tokens
          job,         \* what each runner is doing
          admin,       \* the administrator's Forget, between its statements
          issued, deaths,
          excuse       \* history: what a crossing, a refusal half way or a death left behind
mvars == <<order, cert, disk, served, challenges, job, admin, issued, deaths, excuse>>

NoOrder == [on |-> FALSE, status |-> "none", waits |-> FALSE]
NoCert == [on |-> FALSE, id |-> 0, due |-> FALSE]
NoJob == [pc |-> "idle", id |-> 0, tok |-> 0, crossed |-> FALSE]

AcmeInit ==
    /\ order = NoOrder /\ cert = NoCert
    /\ disk = [cert |-> 0, key |-> 0] /\ served = 0
    /\ challenges = {}
    /\ job = [r \in Runners |-> NoJob]
    /\ admin = "idle"
    /\ issued = 0 /\ deaths = 0
    /\ excuse = [torn |-> FALSE, row |-> FALSE, token |-> FALSE]

Step(r, j) == job' = [job EXCEPT ![r] = j]
Others(r) == Runners \ {r}
Writing == {r \in Runners : job[r].pc \in {"cert", "key", "store", "issued", "reload"}}

-----------------------------------------------------------------------------
(* Orders come and go *)

Order ==
    /\ order' = [on |-> TRUE, status |-> "queued", waits |-> FALSE]
    /\ UNCHANGED <<cert, disk, served, challenges, job, admin, issued, deaths, excuse>>

(* Forget, and Revoke once the authority has agreed. *)
Forget ==
    /\ admin = "idle" /\ (order.on \/ cert.on)
    /\ order' = NoOrder
    /\ admin' = "forget"
    /\ UNCHANGED <<cert, disk, served, challenges, job, issued, deaths, excuse>>

ForgetCert ==
    /\ admin = "forget"
    /\ cert' = NoCert
    /\ admin' = "idle"
    /\ UNCHANGED <<order, disk, served, challenges, job, issued, deaths, excuse>>

(* Defer: the row, if it is still there, waits. *)
Deferred == IF order.on THEN [order EXCEPT !.status = "deferred", !.waits = TRUE] ELSE order
Defer(r) == order' = Deferred /\ Step(r, NoJob)

(* Time passes: the backoff ends; the certificate comes inside its renewal window. *)
WaitOver ==
    /\ order.waits
    /\ order' = [order EXCEPT !.waits = FALSE]
    /\ UNCHANGED <<cert, disk, served, challenges, job, admin, issued, deaths, excuse>>
CertAges ==
    /\ cert.on /\ ~cert.due
    /\ cert' = [cert EXCEPT !.due = TRUE]
    /\ UNCHANGED <<order, disk, served, challenges, job, admin, issued, deaths, excuse>>

-----------------------------------------------------------------------------
(* RunOnce *)

Due(force) == order.on /\ (force \/ (~order.waits /\ (~cert.on \/ cert.due)))

(* Challenges an hour old are pruned at every pass. *)
RunOnce(r, force) ==
    /\ job[r].pc = "idle" /\ Due(force)
    /\ \E old \in {{}, challenges} :
          /\ challenges' = challenges \ old
          /\ excuse' = [excuse EXCEPT !.token = @ /\ challenges' # {}]
    /\ Step(r, [NoJob EXCEPT !.pc = "account"])
    /\ UNCHANGED <<order, cert, disk, served, admin, issued, deaths>>

(* LoadDirectory, EnsureAccount: a failure defers nothing. *)
EnsureAccount(r, ok) ==
    /\ job[r].pc = "account"
    /\ Step(r, IF ok THEN [job[r] EXCEPT !.pc = "newOrder"] ELSE NoJob)
    /\ UNCHANGED <<order, cert, disk, served, challenges, admin, issued, deaths, excuse>>

NewOrder(r, ok) ==
    /\ job[r].pc = "newOrder"
    /\ IF ok THEN /\ order' = IF order.on THEN [order EXCEPT !.status = "pending"] ELSE order
                  /\ Step(r, [job[r] EXCEPT !.pc = "authz"])
       ELSE Defer(r)
    /\ UNCHANGED <<cert, disk, served, challenges, admin, issued, deaths, excuse>>

(* An authorization is valid already, or offers a token, which is published for the web listener. *)
Authz(r, valid, tok) ==
    /\ job[r].pc = "authz"
    /\ IF valid THEN Step(r, [job[r] EXCEPT !.pc = "finalize"]) /\ UNCHANGED challenges
       ELSE Step(r, [job[r] EXCEPT !.pc = "answer", !.tok = tok]) /\ challenges' = challenges \cup {tok}
    /\ UNCHANGED <<order, cert, disk, served, admin, issued, deaths, excuse>>

AuthzFails(r) ==
    /\ job[r].pc = "authz"
    /\ Defer(r)
    /\ UNCHANGED <<cert, disk, served, challenges, admin, issued, deaths, excuse>>

(* The authority is told to look. When that request fails the token stays. *)
Answer(r, ok) ==
    /\ job[r].pc = "answer"
    /\ IF ok THEN Step(r, [job[r] EXCEPT !.pc = "poll"]) /\ UNCHANGED order ELSE Defer(r)
    /\ excuse' = [excuse EXCEPT !.token = @ \/ ~ok]
    /\ UNCHANGED <<cert, disk, served, challenges, admin, issued, deaths>>

(* It looks (AcmeChallenge answers from the table), and finds the token or does not. *)
Poll(r, valid) ==
    /\ job[r].pc = "poll" /\ (valid => job[r].tok \in challenges)
    /\ Step(r, [job[r] EXCEPT !.pc = IF valid THEN "valid" ELSE "invalid"])
    /\ UNCHANGED <<order, cert, disk, served, challenges, admin, issued, deaths, excuse>>

(* The token goes either way; then the next authorization, the end of the order, or a deferral. *)
Polled(r, next) ==
    /\ job[r].pc \in {"valid", "invalid"}
    /\ challenges' = challenges \ {job[r].tok}
    /\ IF job[r].pc = "valid" THEN Step(r, [job[r] EXCEPT !.pc = next, !.tok = 0]) /\ UNCHANGED order
       ELSE Defer(r)
    /\ UNCHANGED <<cert, disk, served, admin, issued, deaths, excuse>>

(* finalize with a fresh key, the polls, the download. *)
Finalize(r) ==
    /\ job[r].pc = "finalize" /\ issued < MaxIssued
    /\ issued' = issued + 1
    /\ Step(r, [job[r] EXCEPT !.pc = "cert", !.id = issued + 1])
    /\ UNCHANGED <<order, cert, disk, served, challenges, admin, deaths, excuse>>

FinalizeFails(r) ==
    /\ job[r].pc = "finalize"
    /\ Defer(r)
    /\ UNCHANGED <<cert, disk, served, challenges, admin, issued, deaths, excuse>>

-----------------------------------------------------------------------------
(* Two files and two rows *)

(* A run that writes while another one is still about to is crossed, and so is the other. *)
WriteCert(r) ==
    LET meets == Others(r) \cap Writing IN
    /\ job[r].pc = "cert"
    /\ disk' = [disk EXCEPT !.cert = job[r].id]
    /\ job' = [q \in Runners |-> IF q = r THEN [job[r] EXCEPT !.pc = "key", !.crossed = @ \/ meets # {}]
                                 ELSE IF q \in meets THEN [job[q] EXCEPT !.crossed = TRUE] ELSE job[q]]
    /\ UNCHANGED <<order, cert, served, challenges, admin, issued, deaths, excuse>>

(* A wrong order of things: the row is written and the listeners reload before the key is there. *)
WriteKeyLast(r) ==
    /\ job[r].pc = "key"
    /\ Step(r, [job[r] EXCEPT !.pc = "store"])
    /\ excuse' = [excuse EXCEPT !.torn = job[r].crossed, !.row = @ \/ job[r].crossed]
    /\ UNCHANGED <<order, cert, disk, served, challenges, admin, issued, deaths>>

WriteKey(r) ==
    /\ job[r].pc = "key"
    /\ disk' = [disk EXCEPT !.key = job[r].id]
    /\ Step(r, [job[r] EXCEPT !.pc = "store"])
    /\ excuse' = [excuse EXCEPT !.torn = job[r].crossed, !.row = @ \/ job[r].crossed]
    /\ UNCHANGED <<order, cert, served, challenges, admin, issued, deaths>>

(* A file cannot be written: before the certificate, or between it and the key. *)
WriteFails(r) ==
    /\ job[r].pc \in {"cert", "key"}
    /\ Defer(r)
    /\ excuse' = [excuse EXCEPT !.torn = @ \/ job[r].pc = "key"]
    /\ UNCHANGED <<cert, disk, served, challenges, admin, issued, deaths>>

StoreCert(r) ==
    /\ job[r].pc = "store"
    /\ cert' = [on |-> TRUE, id |-> job[r].id, due |-> FALSE]
    /\ Step(r, [job[r] EXCEPT !.pc = "issued"])
    /\ excuse' = [excuse EXCEPT !.row = job[r].crossed]
    /\ UNCHANGED <<order, disk, served, challenges, admin, issued, deaths>>

MarkIssued(r) ==
    /\ job[r].pc = "issued"
    /\ order' = IF order.on THEN [order EXCEPT !.status = "issued", !.waits = FALSE] ELSE order
    /\ Step(r, [job[r] EXCEPT !.pc = "reload"])
    /\ UNCHANGED <<cert, disk, served, challenges, admin, issued, deaths, excuse>>

(* TlsContext::Reload keeps the old context when the files are not a pair. *)
Loaded == IF disk.cert = disk.key THEN disk.cert ELSE served

ReloadListeners(r) ==
    /\ job[r].pc = "reload"
    /\ served' = Loaded
    /\ Step(r, NoJob)
    /\ UNCHANGED <<order, cert, disk, challenges, admin, issued, deaths, excuse>>

PostAcmeReload ==
    /\ served # Loaded
    /\ served' = Loaded
    /\ UNCHANGED <<order, cert, disk, challenges, job, admin, issued, deaths, excuse>>

(* The process dies and starts again; a listener whose files are no pair does not start. *)
AcmeCrash ==
    /\ deaths < MaxCrashes
    /\ deaths' = deaths + 1
    /\ served' = IF disk.cert = disk.key THEN disk.cert ELSE 0
    /\ excuse' = [excuse EXCEPT !.torn = @ \/ \E r \in Runners : job[r].pc = "key",
                                !.row = @ \/ \E r \in Runners : job[r].pc \in {"key", "store"},
                                !.token = @ \/ challenges # {}]
    /\ job' = [r \in Runners |-> NoJob]
    /\ admin' = "idle"
    /\ UNCHANGED <<order, cert, disk, challenges, issued>>

-----------------------------------------------------------------------------
AcmeNext ==
    \/ Order
    \/ Forget
    \/ ForgetCert
    \/ WaitOver
    \/ CertAges
    \/ \E r \in Runners, b \in BOOLEAN : RunOnce(r, b) \/ EnsureAccount(r, b) \/ NewOrder(r, b) \/ Answer(r, b) \/ Poll(r, b)
    \/ \E r \in Runners, b \in BOOLEAN, t \in CaTokens : Authz(r, b, t)
    \/ \E r \in Runners, next \in {"authz", "finalize"} : Polled(r, next)
    \/ \E r \in Runners : \/ AuthzFails(r)
                          \/ Finalize(r)
                          \/ FinalizeFails(r)
                          \/ WriteCert(r)
                          \/ WriteKey(r)
                          \/ WriteFails(r)
                          \/ StoreCert(r)
                          \/ MarkIssued(r)
                          \/ ReloadListeners(r)
    \/ PostAcmeReload
    \/ AcmeCrash

AcmeSpec == AcmeInit /\ [][AcmeNext]_mvars

-----------------------------------------------------------------------------
(* Well-typed. *)
AcmeTypeOK ==
    /\ order.status \in {"none", "queued", "pending", "deferred", "issued"}
    /\ cert.id \in 0..issued
    /\ {disk.cert, disk.key, served} \subseteq 0..issued
    /\ challenges \subseteq CaTokens
    /\ \A r \in Runners : job[r].pc \in {"idle", "account", "newOrder", "authz", "answer", "poll", "valid", "invalid",
                                         "finalize", "cert", "key", "store", "issued", "reload"}
    /\ admin \in {"idle", "forget"} /\ issued \in 0..MaxIssued /\ deaths \in 0..MaxCrashes

AllIdle == \A r \in Runners : job[r].pc = "idle"

(* The two files are a pair, except while a run is between them, after one  *)
(* that crossed another, and after a failure or a death between the two.    *)
FilesArePaired == excuse.torn \/ Writing # {} \/ disk.cert = disk.key

(* When nobody is at work the listeners present what is on disk, and the    *)
(* row in quackmail_acme_certs describes it.                                *)
ServedIsOnDisk ==
    AllIdle /\ ~excuse.torn => /\ served = disk.cert
                               /\ cert.on /\ ~excuse.row => cert.id = disk.cert

(* No token is left for the world to ask about, unless the request that was *)
(* to answer it failed or the process died; the next pass prunes those.     *)
TokensGo == AllIdle /\ ~excuse.token => challenges = {}

(* The three above: a certificate in service is whole, and nothing is left behind. *)
CertificateIsSound == FilesArePaired /\ ServedIsOnDisk /\ TokensGo
=============================================================================
