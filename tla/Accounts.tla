------------------------------ MODULE Accounts ------------------------------
(***************************************************************************)
(* One account of quackmail_users and the browser sessions signed in to    *)
(* it: auth::Verify with its in-place upgrade of the stored hash, PostLogin *)
(* and the login throttle, CreateSession, LookupSession with the idle      *)
(* window and the presence row, and the ways a session ends: sign-out, a    *)
(* change of password, the administrator's pages, and housekeeping.         *)
(*                                                                         *)
(* A connection runs one request at a time and its statements commit one by *)
(* one. A password is a number, and 0 is a wrong one. `gen' counts the     *)
(* changes that must end every session: a new password, a disabled and a    *)
(* removed account. Sessions are minted over TLS; one minted in the clear   *)
(* and presented over TLS is refused and nothing changes.                   *)
(***************************************************************************)
EXTENDS Naturals, FiniteSets

CONSTANTS Conns, Tokens,
          MaxNow, MaxGen, MaxIds,     \* bounds: ticks, changes, presence rows
          Idle, Lifetime, Heartbeat,  \* kIdleSeconds, kMaxLifetimeSeconds, 3 * heartbeat_secs
          Window, MaxFailures         \* kLoginWindowSeconds, kMaxLoginFailures

ASSUME AccountsBounds == /\ {MaxNow, MaxIds, Idle, Lifetime, Heartbeat, Window} \subseteq Nat
                         /\ {MaxFailures, MaxGen} \subseteq Nat \ {0} /\ Idle <= Lifetime
                         /\ IsFiniteSet(Conns) /\ Tokens # {}

VARIABLES now, gen,
          user,     \* the row of quackmail_users; pw = 0 when there is none
          row,      \* quackmail_web_sessions
          online,   \* citadel_sessions: id -> its browser and last_seen
          fails,    \* quackmail_web_login_fails, numbered
          meant,    \* history: the password last set, and whether a late upgrade undid that
          conn      \* what each connection is doing
acvars == <<now, gen, user, row, online, fails, meant, conn>>

NoSession == [on |-> FALSE, revoked |-> FALSE, created |-> 0, expires |-> 0, presence |-> 0,
              gen |-> 0, crossed |-> FALSE]
Ready == [pc |-> "ready", try |-> 0, for |-> "login", gen |-> 0, tok |-> CHOOSE t \in Tokens : TRUE,
          id |-> 0, expires |-> 0, scope |-> {}, all |-> FALSE]
Ids == 1..MaxIds
Deleted == [NoSession EXCEPT !.gen = 1]
Unused == [st |-> "unused", tok |-> Ready.tok, seen |-> 0, crossed |-> FALSE]
Dropped == [Unused EXCEPT !.st = "off"]

(* The account at first: a hash of the old kind, which the first sign-in replaces. *)
AccountsInit ==
    /\ now = 0 /\ gen = 1
    /\ user = [pw |-> 1, old |-> TRUE, enabled |-> TRUE]
    /\ row = [t \in Tokens |-> NoSession]
    /\ online = [i \in Ids |-> Unused]
    /\ fails = {}
    /\ meant = [pw |-> 1, undone |-> FALSE]
    /\ conn = [c \in Conns |-> Ready]

Say(c, j) == conn' = [conn EXCEPT ![c] = j]
Issued == {t \in Tokens : row[t].gen > 0}

NextId(i) == online[i].st = "unused" /\ \A k \in Ids : k < i => online[k].st # "unused"

Tick == now < MaxNow /\ now' = now + 1 /\ UNCHANGED <<gen, user, row, online, fails, meant, conn>>

-----------------------------------------------------------------------------
(* Signing in *)

InWindow == {f \in fails : f[1] + Window >= now}
LoginAllowed == Cardinality(InWindow) < MaxFailures

(* PostLogin: the throttle is read before the password is. *)
PostLogin(c, try) ==
    /\ conn[c].pc = "ready" /\ LoginAllowed
    /\ Say(c, [Ready EXCEPT !.pc = "verify", !.try = try])
    /\ UNCHANGED <<now, gen, user, row, online, fails, meant>>

(* PostPassword asks for the current password first: the same Verify. *)
PostPassword(c, try) ==
    /\ conn[c].pc = "serve" /\ gen < MaxGen
    /\ Say(c, [Ready EXCEPT !.pc = "verify", !.try = try, !.for = "change"])
    /\ UNCHANGED <<now, gen, user, row, online, fails, meant>>

PasswordIs(try) == user.pw > 0 /\ user.enabled /\ user.pw = try
NeedsRehash == user.old

(* A wrong Verify: the hash is upgraded before the password is compared. *)
VerifyReadUpgradesFirst(c) ==
    LET j == conn[c] IN
    /\ j.pc = "verify"
    /\ Say(c, [j EXCEPT !.gen = gen,
                        !.pc = IF NeedsRehash THEN "rehash"
                               ELSE IF PasswordIs(j.try) THEN j.for ELSE "ready"])
    /\ UNCHANGED <<now, gen, user, row, online, fails, meant>>

(* Verify: the row is read and the password checked. *)
VerifyRead(c) ==
    LET j == conn[c] IN
    /\ j.pc = "verify"
    /\ Say(c, [j EXCEPT !.gen = gen,
                        !.pc = IF PasswordIs(j.try)
                               THEN IF NeedsRehash THEN "rehash" ELSE j.for
                               ELSE IF j.for = "login" THEN "failed" ELSE "ready",
                        !.try = IF PasswordIs(j.try) /\ NeedsRehash THEN @ ELSE 0,
                        !.for = IF PasswordIs(j.try) /\ NeedsRehash THEN @ ELSE "login"])
    /\ UNCHANGED <<now, gen, user, row, online, fails, meant>>

(* Verify: the hash of an older kind is replaced, in a statement of its own. *)
Rehash(c) ==
    LET j == conn[c] IN
    /\ j.pc = "rehash"
    /\ user' = IF user.pw > 0 THEN [user EXCEPT !.pw = j.try, !.old = FALSE] ELSE user
    /\ meant' = IF user.pw > 0 /\ j.gen # gen THEN [meant EXCEPT !.undone = TRUE] ELSE meant
    /\ Say(c, [j EXCEPT !.pc = j.for, !.try = 0, !.for = "login"])
    /\ UNCHANGED <<now, gen, row, online, fails>>

RecordLoginFailure(c) ==
    /\ conn[c].pc = "failed"
    /\ fails' = fails \cup {<<now, Cardinality(fails) + 1>>}
    /\ Say(c, Ready)
    /\ UNCHANGED <<now, gen, user, row, online, meant>>

(* CreateSession, with a token nobody has yet. *)
CreateSession(c, t) ==
    LET j == conn[c] IN
    /\ j.pc = "login" /\ t \notin Issued
    /\ row' = [row EXCEPT ![t] = [NoSession EXCEPT !.on = TRUE, !.created = now, !.expires = now + Idle,
                                                   !.gen = j.gen, !.crossed = j.gen # gen]]
    /\ Say(c, [Ready EXCEPT !.pc = "clear"])
    /\ UNCHANGED <<now, gen, user, online, fails, meant>>

ClearLoginFailures(c) ==
    /\ conn[c].pc = "clear"
    /\ fails' = {} /\ Say(c, Ready)
    /\ UNCHANGED <<now, gen, user, row, online, meant>>

-----------------------------------------------------------------------------
(* A request with a cookie *)

Usable(r) == r.on /\ ~r.revoked /\ r.expires > now /\ r.created + Lifetime > now
(* A wrong idle window: it may pass the end of the session's life. *)
CappedNot(r) == now + Idle

Capped(r) == IF now + Idle > r.created + Lifetime THEN r.created + Lifetime ELSE now + Idle

(* LookupSession reads the row. One that was minted over TLS and arrives in the clear is revoked. *)
LookupSession(c, t, tls) ==
    LET later == Capped(row[t]) IN
    /\ conn[c].pc = "ready" /\ t \in Issued /\ Usable(row[t])
    /\ row' = IF tls THEN row ELSE [row EXCEPT ![t].revoked = TRUE]
    /\ Say(c, IF tls THEN [Ready EXCEPT !.pc = "refresh", !.tok = t, !.id = row[t].presence,
                                        !.expires = IF later > row[t].expires THEN later ELSE 0]
              ELSE Ready)
    /\ UNCHANGED <<now, gen, user, online, fails, meant>>

Looked(j) == [j EXCEPT !.pc = IF j.id = 0 THEN "register" ELSE IF j.expires > 0 THEN "touch" ELSE "serve",
                       !.expires = 0]

(* A wrong refresh: the row is written back whole, as it was read. *)
RefreshSessionReplaces(c) ==
    LET j == conn[c] IN
    /\ j.pc = "refresh"
    /\ row' = [row EXCEPT ![j.tok].expires = IF j.expires > 0 THEN j.expires ELSE @, ![j.tok].on = TRUE]
    /\ Say(c, Looked(j))
    /\ UNCHANGED <<now, gen, user, online, fails, meant>>

(* ... moves the idle window of the row, if there still is one *)
RefreshSession(c) ==
    LET j == conn[c] IN
    /\ j.pc = "refresh"
    /\ row' = IF j.expires > 0 /\ row[j.tok].on THEN [row EXCEPT ![j.tok].expires = j.expires] ELSE row
    /\ Say(c, Looked(j))
    /\ UNCHANGED <<now, gen, user, online, fails, meant>>

(* ... and gives a browser that has none a presence row. *)
RegisterSession(c, i) ==
    LET j == conn[c]
        others == \E d \in Conns \ {c} : /\ conn[d].tok = j.tok
                                         /\ \/ conn[d].pc \in {"refresh", "register"} /\ conn[d].id = 0
                                            \/ conn[d].pc = "bind"
    IN  /\ j.pc = "register" /\ NextId(i)
        /\ online' = [online EXCEPT ![i] = [st |-> "on", tok |-> j.tok, seen |-> now,
                                            crossed |-> others \/ row[j.tok].presence > 0 \/ ~row[j.tok].on]]
        /\ Say(c, [j EXCEPT !.pc = "bind", !.id = i])
        /\ UNCHANGED <<now, gen, user, row, fails, meant>>

BindPresence(c) ==
    LET j == conn[c] IN
    /\ j.pc = "bind"
    /\ row' = IF row[j.tok].on THEN [row EXCEPT ![j.tok].presence = j.id] ELSE row
    /\ Say(c, [j EXCEPT !.pc = "touch"])
    /\ UNCHANGED <<now, gen, user, online, fails, meant>>

(* TouchSession changes a row that is there and creates none. *)
TouchSession(c) ==
    LET j == conn[c] IN
    /\ j.pc = "touch"
    /\ online' = IF online[j.id].st = "on" THEN [online EXCEPT ![j.id].seen = now] ELSE online
    /\ Say(c, [Ready EXCEPT !.pc = "serve"])
    /\ UNCHANGED <<now, gen, user, row, fails, meant>>

Served(c) ==
    /\ conn[c].pc = "serve"
    /\ Say(c, Ready)
    /\ UNCHANGED <<now, gen, user, row, online, fails, meant>>

-----------------------------------------------------------------------------
(* How sessions end: the presence rows first, then the sessions. *)

(* PostLogout; RevokeByHash from the preferences or the administrator's page. *)
PostLogout(c, t) ==
    /\ conn[c].pc = "serve" /\ t \in Issued
    /\ Say(c, [Ready EXCEPT !.pc = "drop", !.scope = {t}])
    /\ UNCHANGED <<now, gen, user, row, online, fails, meant>>

EndsEverything(c) == Say(c, [Ready EXCEPT !.pc = "drop", !.scope = Tokens, !.all = TRUE])

(* auth::AddUser replaces the row; RevokeAllForUser follows. *)
SetPassword(c) ==
    /\ conn[c].pc = "change" /\ gen < MaxGen
    /\ gen' = gen + 1
    /\ user' = [pw |-> gen + 1, old |-> FALSE, enabled |-> TRUE]
    /\ meant' = [pw |-> gen + 1, undone |-> FALSE]
    /\ EndsEverything(c)
    /\ UNCHANGED <<now, row, online, fails>>

(* The administrator sets a password; the account must be there. *)
PostUserPasswd(c) ==
    /\ conn[c].pc = "ready" /\ user.pw > 0 /\ gen < MaxGen
    /\ gen' = gen + 1
    /\ user' = [pw |-> gen + 1, old |-> FALSE, enabled |-> TRUE]
    /\ meant' = [pw |-> gen + 1, undone |-> FALSE]
    /\ EndsEverything(c)
    /\ UNCHANGED <<now, row, online, fails>>

(* An account that was removed is added again, with a new password: nothing is revoked. *)
PostUserAdd(c) ==
    /\ conn[c].pc = "ready" /\ user.pw = 0
    /\ user' = [pw |-> gen, old |-> FALSE, enabled |-> TRUE]
    /\ meant' = [pw |-> gen, undone |-> FALSE]
    /\ UNCHANGED <<now, gen, row, online, fails, conn>>

PostUserEnable(c, enabled) ==
    /\ conn[c].pc = "ready" /\ user.pw > 0 /\ gen < MaxGen
    /\ user' = [user EXCEPT !.enabled = enabled]
    /\ IF enabled THEN UNCHANGED <<gen, conn>> ELSE gen' = gen + 1 /\ EndsEverything(c)
    /\ UNCHANGED <<now, row, online, fails, meant>>

PostUserRemove(c) ==
    /\ conn[c].pc = "ready" /\ user.pw > 0 /\ gen < MaxGen
    /\ gen' = gen + 1
    /\ user' = [pw |-> 0, old |-> FALSE, enabled |-> FALSE]
    /\ meant' = [pw |-> 0, undone |-> FALSE]
    /\ EndsEverything(c)
    /\ UNCHANGED <<now, row, online, fails>>

(* PruneSessions, from the housekeeping of a request. *)
Stale(t) == row[t].on /\ (row[t].revoked \/ row[t].expires <= now)
PruneSessions(c) ==
    /\ conn[c].pc = "serve"
    /\ Say(c, [conn[c] EXCEPT !.pc = "prune"])
    /\ online' = [i \in Ids |-> IF \E t \in Tokens : Stale(t) /\ row[t].presence = i
                                THEN Dropped ELSE online[i]]
    /\ UNCHANGED <<now, gen, user, row, fails, meant>>

PruneRows(c) ==
    /\ conn[c].pc = "prune"
    /\ row' = [t \in Tokens |-> IF Stale(t) THEN Deleted ELSE row[t]]
    /\ fails' = InWindow
    /\ Say(c, [conn[c] EXCEPT !.pc = "reap"])
    /\ UNCHANGED <<now, gen, user, online, meant>>

(* ReapSessions: rows that nobody touched for three heartbeats. *)
ReapSessions(c) ==
    /\ conn[c].pc = "reap"
    /\ online' = [i \in Ids |-> IF online[i].st = "on" /\ online[i].seen + Heartbeat < now THEN Dropped
                                ELSE online[i]]
    /\ Say(c, Ready)
    /\ UNCHANGED <<now, gen, user, row, fails, meant>>

DropPresenceFor(c) ==
    LET ids == {row[t].presence : t \in {u \in conn[c].scope : row[u].on}} IN
    /\ conn[c].pc = "drop"
    /\ online' = [i \in Ids |-> IF i \in ids THEN Dropped ELSE online[i]]
    /\ Say(c, [conn[c] EXCEPT !.pc = "delete"])
    /\ UNCHANGED <<now, gen, user, row, fails, meant>>

DeleteSessions(c) ==
    /\ conn[c].pc = "delete"
    /\ row' = [t \in Tokens |-> IF t \in conn[c].scope THEN Deleted ELSE row[t]]
    /\ Say(c, Ready)
    /\ UNCHANGED <<now, gen, user, online, fails, meant>>

-----------------------------------------------------------------------------
AccountStep(c) ==
    \/ \E try \in 0..gen : PostLogin(c, try) \/ PostPassword(c, try)
    \/ VerifyRead(c)
    \/ Rehash(c)
    \/ RecordLoginFailure(c)
    \/ \E t \in Tokens : CreateSession(c, t) \/ PostLogout(c, t)
    \/ ClearLoginFailures(c)
    \/ \E t \in Tokens, tls \in BOOLEAN : LookupSession(c, t, tls)
    \/ RefreshSession(c)
    \/ \E i \in Ids : RegisterSession(c, i)
    \/ BindPresence(c)
    \/ TouchSession(c)
    \/ Served(c)
    \/ SetPassword(c)
    \/ PostUserPasswd(c)
    \/ PostUserAdd(c)
    \/ \E e \in BOOLEAN : PostUserEnable(c, e)
    \/ PostUserRemove(c)
    \/ PruneSessions(c)
    \/ PruneRows(c)
    \/ ReapSessions(c)
    \/ DropPresenceFor(c)
    \/ DeleteSessions(c)

AccountsNext == Tick \/ \E c \in Conns : AccountStep(c)

AccountsSpec == AccountsInit /\ [][AccountsNext]_acvars

-----------------------------------------------------------------------------
(* Well-typed; and no session outlives its longest life, however often its  *)
(* idle window is moved (LookupSession caps it).                            *)
AccountsTypeOK ==
    /\ now \in 0..MaxNow /\ gen \in 1..MaxGen
    /\ user \in [pw : 0..MaxGen, old : BOOLEAN, enabled : BOOLEAN]
    /\ \A t \in Tokens : /\ row[t].gen \in 0..gen /\ row[t].presence \in 0..MaxIds
                         /\ row[t].expires <= row[t].created + Lifetime
    /\ \A i \in Ids : online[i].st \in {"unused", "on", "off"} /\ online[i].tok \in Tokens
    /\ \A f \in fails : f[1] \in 0..MaxNow
    /\ meant \in [pw : 0..MaxGen, undone : BOOLEAN]
    /\ \A c \in Conns : conn[c].pc \in {"ready", "verify", "rehash", "login", "change", "failed", "clear",
                                        "refresh", "register", "bind", "touch", "serve",
                                        "drop", "delete", "prune", "reap"}

(* The password that works is the one set last. Verify writes the hash of   *)
(* the password it was given in a statement after the comparison, so only a  *)
(* change that falls between the two can be undone.                         *)
PasswordSticksUnlessCrossed == meant.undone \/ user.pw = meant.pw

(* A session begun before the password was changed, or the account disabled *)
(* or removed, does not outlive the change (RevokeAllForUser), unless its    *)
(* sign-in had passed Verify before the change and was stored after it.      *)
NoOldSessionUnlessCrossed ==
    \A t \in Tokens :
        row[t].on /\ row[t].gen < gen =>
            row[t].crossed \/ \E c \in Conns : conn[c].all /\ conn[c].pc \in {"drop", "delete"}

(* A session that was revoked or deleted is never usable again, whatever the *)
(* requests that had read its row before go on to write.                    *)
Gone(r) == r.gen > 0 /\ (~r.on \/ r.revoked)
RevokedIsFinal == [][\A t \in Tokens : Gone(row[t]) => Gone(row'[t])]_acvars

(* In one window an address gets at most as many wrong passwords looked at  *)
(* as the limit, and one more for every connection that passed the throttle  *)
(* beside the last.                                                          *)
GuessesBounded == Cardinality(InWindow) <= MaxFailures + Cardinality(Conns) - 1

(* A browser is listed among the users online once: a second presence row   *)
(* needs two requests that both found none, or a session that ended in      *)
(* between.                                                                 *)
OnePresenceUnlessCrossed ==
    \A t \in Tokens :
        Cardinality({i \in Ids : online[i].st = "on" /\ online[i].tok = t /\ ~online[i].crossed}) <= 1

(* The four above: what the account's owner, or the administrator, last said holds. *)
AccountsAreSafe ==
    /\ PasswordSticksUnlessCrossed
    /\ NoOldSessionUnlessCrossed
    /\ GuessesBounded
    /\ OnePresenceUnlessCrossed
=============================================================================
