-------------------------------- MODULE Fetch -------------------------------
(***************************************************************************)
(* One remote source polled into a room or a mailbox (core/src/fetch.cpp,  *)
(* core/src/mail_client.cpp): a POP3 or IMAP mailbox, or an RSS feed.  The *)
(* spooler and an administrator may run it at the same time, each on a     *)
(* connection of its own; the row of quackmail_feeds is read when a run    *)
(* begins and written when it ends.                                        *)
(***************************************************************************)
EXTENDS Naturals, FiniteSets, FiniteSetsExt

CONSTANTS
    Kinds,          \* subset of {"pop3", "imap", "rss"}
    Runners,        \* the spooler, an administrator
    MaxItem,        \* bound: items the source ever offers, numbered in order
    Big,            \* the items larger than max_bytes
    PerRun,         \* max_per_run
    SeenKeep,       \* kSeenKeep
    MaxRuns,        \* bound: runs
    MaxDeaths       \* bound: deaths of the process, renumberings of the mailbox

ASSUME FetchAssumption ==
    {MaxItem, PerRun, SeenKeep, MaxRuns, MaxDeaths} \subseteq Nat /\ Big \subseteq 1..MaxItem

VARIABLES
    source,     \* kind and leave_on_server; items offered so far, still there; UIDVALIDITY
    feed,       \* uidvalidity, last_uid and etag of the feed's row
    seen,       \* quackmail_feed_seen
    stored,     \* copies posted of each item
    run,        \* what each runner is doing
    gone,       \* items deleted upstream on our behalf
    passed,     \* items a run was offered, did not store, and went past
    excused,    \* items that may be posted again: see StoredOnceUnlessExcused
    fetchCount  \* runs and deaths so far, against the bounds

fvars == <<source, feed, seen, stored, run, gone, passed, excused, fetchCount>>

Items == 1..MaxItem
FetchIdle == [pc |-> "idle", row |-> [uidvalidity |-> 0, lastUid |-> 0, etag |-> 0], todo |-> {},
              at |-> 0, pulled |-> 0, high |-> 0, del |-> {}, valid |-> 0, etag |-> 0]

FetchTypeOK ==
    /\ source.kind \in Kinds /\ source.here \subseteq 1..source.last /\ source.last <= MaxItem
    /\ feed.lastUid \in 0..source.last /\ feed.etag \in 0..source.last /\ feed.uidvalidity \in 0..source.valid
    /\ seen \subseteq (0..source.valid) \X (1..source.last)
    /\ \A r \in Runners : run[r].pulled \in 0..PerRun /\ run[r].del \subseteq 1..source.last
    /\ gone \cap source.here = {}

FetchInit ==
    /\ source \in [kind : Kinds, leave : BOOLEAN, last : {0}, here : {{}}, valid : {1}]
    /\ source.kind = "rss" => source.leave
    /\ feed = FetchIdle.row /\ seen = {} /\ stored = [i \in Items |-> 0]
    /\ run = [r \in Runners |-> FetchIdle]
    /\ gone = {} /\ passed = {} /\ excused = {}
    /\ fetchCount = [runs |-> 0, deaths |-> 0]

SeenKey(i, v) == <<IF source.kind = "imap" THEN v ELSE 0, i>>
Seen(r, i) == SeenKey(i, run[r].valid) \in seen
RunIs(r, j) == run' = [run EXCEPT ![r] = j]

-----------------------------------------------------------------------------
(* The source *)

SourceGrows ==
    /\ source.last < MaxItem
    /\ source' = [source EXCEPT !.last = @ + 1, !.here = @ \cup {source.last + 1}]
    /\ UNCHANGED <<feed, seen, stored, run, gone, passed, excused, fetchCount>>

(* The mailbox is renumbered: every message is new to us again. *)
SourceRenumbers ==
    /\ source.kind = "imap" /\ fetchCount.deaths < MaxDeaths
    /\ \A r \in Runners : run[r].pc = "idle"
    /\ source' = [source EXCEPT !.valid = @ + 1]
    /\ excused' = excused \cup {i \in Items : stored[i] > 0}
    /\ fetchCount' = [fetchCount EXCEPT !.deaths = @ + 1]
    /\ UNCHANGED <<feed, seen, stored, run, gone, passed>>

-----------------------------------------------------------------------------
(* A run *)

(* UID SEARCH from the watermark, which counts only for its UIDVALIDITY;    *)
(* UIDL and GET list whatever is there.                                     *)
FromUid(row) == IF row.uidvalidity # 0 /\ row.uidvalidity # source.valid THEN 0 ELSE row.lastUid
Listed(row) == {i \in source.here : source.kind = "imap" => i > FromUid(row)}

(* RunFeed reads the row and lists the source.  A 304 ends the run, and so  *)
(* does a source that cannot be reached: both leave the state as it was.    *)
RunFeed(r) ==
    /\ run[r].pc = "idle" /\ fetchCount.runs < MaxRuns
    /\ ~(source.kind = "rss" /\ feed.etag # 0 /\ feed.etag = source.last)
    /\ RunIs(r, [FetchIdle EXCEPT !.pc = "next", !.row = feed, !.todo = Listed(feed), !.high = FromUid(feed),
                                  !.valid = source.valid, !.etag = source.last])
    /\ fetchCount' = [fetchCount EXCEPT !.runs = @ + 1]
    /\ UNCHANGED <<source, feed, seen, stored, gone, passed, excused>>

(* Past item i without storing it. *)
RunPasses(r, i, high) ==
    /\ RunIs(r, [run[r] EXCEPT !.todo = @ \ {i}, !.high = high, !.pc = "next"])
    /\ UNCHANGED <<source, feed, seen, stored, gone, excused, fetchCount>>

(* Deviation: one more than the limit. *)
AtLimitLate(r) == run[r].pulled > PerRun

AtLimit(r) == run[r].pulled >= PerRun

(* The next item in order: stop at the limit, skip what was seen, or take   *)
(* it.  A POP3 or IMAP message that cannot be retrieved is passed over, one *)
(* that is too large only moves IMAP's watermark.                           *)
RunNext(r) ==
    LET j == run[r]
        i == Min(j.todo)
        above == IF i > j.high THEN i ELSE j.high
    IN  /\ j.pc = "next" /\ j.todo # {} /\ ~AtLimit(r)
        /\ \/ Seen(r, i) /\ RunPasses(r, i, above) /\ UNCHANGED passed
           \/ /\ ~Seen(r, i) /\ (i \in Big => source.kind = "rss")
              /\ RunIs(r, [j EXCEPT !.at = i, !.pc = "store"])
              /\ excused' = IF \E q \in Runners \ {r} : run[q].at = i THEN excused \cup {i} ELSE excused
              /\ UNCHANGED <<source, feed, seen, stored, gone, passed, fetchCount>>
           \/ /\ ~Seen(r, i) /\ source.kind = "imap" /\ i \in Big
              /\ RunPasses(r, i, above) /\ UNCHANGED passed
           \/ /\ ~Seen(r, i) /\ source.kind # "rss"
              /\ RunPasses(r, i, j.high) /\ passed' = passed \cup {i}

(* Store posts the message. *)
StorePosts(r) ==
    /\ run[r].pc = "store"
    /\ stored' = [stored EXCEPT ![run[r].at] = @ + 1]
    /\ RunIs(r, [run[r] EXCEPT !.pc = "mark"])
    /\ UNCHANGED <<source, feed, seen, gone, passed, excused, fetchCount>>

(* Store fails: a mailbox run goes on to the next message, an RSS run ends  *)
(* and records the validators of the answer it did not finish.              *)
StoreRefuses(r) ==
    /\ run[r].pc = "store"
    /\ passed' = passed \cup IF source.kind = "rss" THEN run[r].todo ELSE {run[r].at}
    /\ IF source.kind = "rss"
       THEN RunIs(r, FetchIdle) /\ feed' = [run[r].row EXCEPT !.etag = run[r].etag]
       ELSE RunIs(r, [run[r] EXCEPT !.todo = @ \ {run[r].at}, !.at = 0, !.pc = "next"]) /\ UNCHANGED feed
    /\ UNCHANGED <<source, seen, stored, gone, excused, fetchCount>>

(* Deviation: nothing is remembered of an item that was posted. *)
MarkSeenNot(r) ==
    LET j == run[r] IN
    /\ j.pc = "mark"
    /\ RunIs(r, [j EXCEPT !.todo = @ \ {j.at}, !.at = 0, !.pc = "next", !.pulled = @ + 1])
    /\ UNCHANGED <<source, feed, seen, stored, gone, passed, excused, fetchCount>>

(* MarkSeen, and what the loop does for a message that was taken. *)
MarkSeen(r) ==
    LET j == run[r] IN
    /\ j.pc = "mark"
    /\ seen' = seen \cup {SeenKey(j.at, j.valid)}
    /\ RunIs(r, [j EXCEPT !.todo = @ \ {j.at}, !.at = 0, !.pc = "next", !.pulled = @ + 1,
                          !.high = IF j.at > @ THEN j.at ELSE @,
                          !.del = IF source.leave THEN @ ELSE @ \cup {j.at}])
    /\ UNCHANGED <<source, feed, stored, gone, passed, excused, fetchCount>>

(* DELE and QUIT, or \Deleted and EXPUNGE; any of it may come to nothing    *)
(* and the run is still a success.                                          *)
DeleteUpstream(r) ==
    LET j == run[r] IN
    /\ j.pc = "next" /\ (j.todo = {} \/ AtLimit(r))
    /\ \E d \in IF source.kind = "imap" THEN SUBSET j.del ELSE {{}, j.del} :
          /\ source' = [source EXCEPT !.here = @ \ d]
          /\ gone' = gone \cup (d \cap source.here)
    /\ passed' = IF source.kind = "rss" THEN passed \cup j.todo ELSE passed
    /\ RunIs(r, [j EXCEPT !.pc = "record"])
    /\ UNCHANGED <<feed, seen, stored, excused, fetchCount>>

(* RecordRun writes back the row it was given with what the run learned. *)
RecordRun(r) ==
    LET j == run[r] IN
    /\ j.pc = "record"
    /\ feed' = CASE source.kind = "imap" -> [j.row EXCEPT !.uidvalidity = j.valid, !.lastUid = j.high]
                 [] source.kind = "rss"  -> [j.row EXCEPT !.etag = j.etag]
                 [] OTHER -> j.row
    /\ RunIs(r, [FetchIdle EXCEPT !.pc = "prune"])
    /\ UNCHANGED <<source, seen, stored, gone, passed, excused, fetchCount>>

(* PruneSeen keeps the newest SeenKeep; which those are among entries of    *)
(* one second is left to the database, so any of them may stay.             *)
PruneSeen(r) ==
    /\ run[r].pc = "prune"
    /\ \E keep \in IF Cardinality(seen) <= SeenKeep THEN {seen} ELSE kSubset(SeenKeep, seen) :
          /\ seen' = keep
          /\ excused' = excused \cup {k[2] : k \in seen \ keep}
    /\ RunIs(r, FetchIdle)
    /\ UNCHANGED <<source, feed, stored, gone, passed, fetchCount>>

(* The process dies; the remote side drops the sessions without deleting.   *)
FetchDies ==
    /\ fetchCount.deaths < MaxDeaths
    /\ excused' = excused \cup {run[r].at : r \in {q \in Runners : run[q].pc = "mark"}}
    /\ run' = [r \in Runners |-> FetchIdle]
    /\ fetchCount' = [fetchCount EXCEPT !.deaths = @ + 1]
    /\ UNCHANGED <<source, feed, seen, stored, gone, passed>>

FetchNext ==
    \/ SourceGrows \/ SourceRenumbers \/ FetchDies
    \/ \E r \in Runners : \/ RunFeed(r) \/ RunNext(r) \/ StorePosts(r) \/ StoreRefuses(r)
                          \/ MarkSeen(r) \/ DeleteUpstream(r) \/ RecordRun(r) \/ PruneSeen(r)

FetchSpec == FetchInit /\ [][FetchNext]_fvars

-----------------------------------------------------------------------------
(* Properties *)

(* "The seen set makes a second poll a no-op": an item is posted once, with *)
(* refused items, limits, overlapping watermarks and lost deletions in      *)
(* between.  The exceptions are a death between posting and MarkSeen, two   *)
(* runs that hold the item at once, an entry PruneSeen dropped, and a       *)
(* renumbered mailbox.                                                      *)
StoredOnceUnlessExcused == \A i \in Items \ excused : stored[i] <= 1

(* Nothing is deleted upstream that was not posted here first, so no mail   *)
(* is lost whatever fails in a run or beside it.                            *)
DeletedWasStored == \A i \in gone : stored[i] > 0

(* What a later run will not look at: below IMAP's watermark, or behind a   *)
(* validator that makes the server answer 304.                              *)
Hidden(i) ==
    \/ source.kind = "imap" /\ feed.uidvalidity = source.valid /\ i <= feed.lastUid
    \/ source.kind = "rss" /\ feed.etag = source.last

(* The items a run will not look at again were posted, are too large, or    *)
(* were passed over by a run that saw them: the limit alone never hides     *)
(* mail, nor does a run that ends with an older row than the one there.     *)
HiddenWasSeen == \A i \in source.here : Hidden(i) => stored[i] > 0 \/ i \in Big \cup passed

(* "storage refused it; leave the watermark where it is": an item that was  *)
(* not posted is not hidden from the next run.                              *)
RefusedIsTriedAgain == \A i \in source.here : Hidden(i) => stored[i] > 0 \/ i \in Big

(* A poll loses nothing and repeats nothing, as far as the code can tell:   *)
(* posted once, deleted upstream only after that, and not hidden unseen.    *)
PollsAreSafe == StoredOnceUnlessExcused /\ DeletedWasStored /\ HiddenWasSeen
=============================================================================
