-------------------------- MODULE ServerController --------------------------
(***************************************************************************)
(* core/src/server_controller.cpp: the listener every protocol extension   *)
(* has, its accept thread, the detached session threads and the callers of *)
(* Start and Stop.  A lock_guard scope is one step; the atomics running_,  *)
(* stop_ and active_conns_ are read and written outside the lock too, and  *)
(* there each access is a step of its own.  Descriptor numbers are modelled*)
(* because the kernel hands a closed one to whoever asks next.             *)
(***************************************************************************)
EXTENDS Naturals, FiniteSets

CONSTANTS
    Callers,    \* threads that call Start and Stop
    Fds,        \* descriptor numbers
    Threads,    \* session threads, the bound on concurrent sessions
    Cap,        \* max_conns_; 0 is unlimited
    MaxStarts   \* bound on successful Starts

ASSUME ControllerAssumption == Cap \in Nat /\ MaxStarts \in Nat /\ IsFiniteSet(Threads)

VARIABLES
    running, stop,  \* running_ and stop_
    gen,        \* successful Starts so far; names the latest accept thread
    listening,  \* listen_fd_ >= 0
    handle,     \* the accept thread accept_thread_ holds, 0 when not joinable
    acceptor,   \* each accept thread
    clientFds,  \* client_fds_
    owner,      \* who has each descriptor number open
    shut,       \* descriptors whose socket has been shut down
    active,     \* active_conns_
    thread,     \* each session thread
    call,       \* what each caller is doing
    aborted     \* std::terminate was called

cvars == <<running, stop, gen, listening, handle, acceptor, clientFds, owner, shut, active,
           thread, call, aborted>>

Gens == 1..MaxStarts
NoThread == [pc |-> "none", fds |-> {}]

ControllerTypeOK ==
    /\ running \in BOOLEAN /\ stop \in BOOLEAN /\ listening \in BOOLEAN /\ aborted \in BOOLEAN
    /\ gen \in 0..MaxStarts /\ handle \in 0..MaxStarts
    /\ acceptor \in [Gens -> [pc : {"none", "top", "accept", "got", "insert", "exit", "done"},
                              fds : SUBSET Fds]]
    /\ clientFds \subseteq Fds /\ shut \subseteq Fds
    /\ owner \in [Fds -> {"nobody", "server", "stranger"}]
    /\ active \in 0..Cardinality(Threads)
    /\ thread \in [Threads -> [pc : {"none", "run", "erase", "close", "leave"}, fds : SUBSET Fds]]
    /\ call \in [Callers -> [pc : {"idle", "join", "wake", "wait"}, joins : 0..MaxStarts]]

ControllerInit ==
    /\ running = FALSE /\ stop = FALSE /\ listening = FALSE /\ aborted = FALSE
    /\ gen = 0 /\ handle = 0 /\ active = 0
    /\ acceptor = [g \in Gens |-> NoThread]
    /\ clientFds = {} /\ shut = {}
    /\ owner = [f \in Fds |-> "nobody"]
    /\ thread = [t \in Threads |-> NoThread]
    /\ call = [c \in Callers |-> [pc |-> "idle", joins |-> 0]]

-----------------------------------------------------------------------------
(* Start: refused while running; a host, TLS or bind error changes nothing. *)
(* Assigning to accept_thread_ while it is joinable would end the process.  *)
Start(c) ==
    /\ call[c].pc = "idle"
    /\ ~running
    /\ gen < MaxStarts
    /\ gen' = gen + 1
    /\ running' = TRUE /\ stop' = FALSE /\ listening' = TRUE
    /\ aborted' = (handle # 0)
    /\ handle' = gen + 1
    /\ acceptor' = [acceptor EXCEPT ![gen + 1] = [pc |-> "top", fds |-> {}]]
    /\ UNCHANGED <<clientFds, owner, shut, active, thread, call>>

-----------------------------------------------------------------------------
(* AcceptLoop *)

AcceptTop(g) ==
    /\ acceptor[g].pc = "top"
    /\ acceptor' = [acceptor EXCEPT ![g].pc = IF stop THEN "exit" ELSE "accept"]
    /\ UNCHANGED <<running, stop, gen, listening, handle, clientFds, owner, shut, active, thread, call, aborted>>

(* A peer connects.  A stopped listener's backlog is gone with its socket. *)
AcceptPeer(g, f) ==
    /\ acceptor[g].pc = "accept"
    /\ listening
    /\ owner[f] = "nobody"
    /\ owner' = [owner EXCEPT ![f] = "server"]
    /\ shut' = shut \ {f}
    /\ acceptor' = [acceptor EXCEPT ![g] = [pc |-> "got", fds |-> {f}]]
    /\ UNCHANGED <<running, stop, gen, listening, handle, clientFds, active, thread, call, aborted>>

AcceptFails(g) ==
    /\ acceptor[g].pc = "accept"
    /\ ~listening
    /\ acceptor' = [acceptor EXCEPT ![g].pc = IF stop THEN "exit" ELSE "top"]
    /\ UNCHANGED <<running, stop, gen, listening, handle, clientFds, owner, shut, active, thread, call, aborted>>

OverCap == Cap > 0 /\ active >= Cap

AcceptDrop(g) ==
    /\ acceptor[g].pc = "got"
    /\ OverCap
    /\ owner' = [f \in Fds |-> IF f \in acceptor[g].fds THEN "nobody" ELSE owner[f]]
    /\ acceptor' = [acceptor EXCEPT ![g] = [pc |-> "top", fds |-> {}]]
    /\ UNCHANGED <<running, stop, gen, listening, handle, clientFds, shut, active, thread, call, aborted>>

AcceptCount(g) ==
    /\ acceptor[g].pc = "got"
    /\ ~OverCap
    /\ active < Cardinality(Threads)
    /\ active' = active + 1
    /\ acceptor' = [acceptor EXCEPT ![g].pc = "insert"]
    /\ UNCHANGED <<running, stop, gen, listening, handle, clientFds, owner, shut, thread, call, aborted>>

(* Deviation: the session's descriptor is not put into client_fds_. *)
AcceptSpawnUnlisted(g, t) ==
    /\ acceptor[g].pc = "insert"
    /\ thread[t].pc = "none"
    /\ thread' = [thread EXCEPT ![t] = [pc |-> "run", fds |-> acceptor[g].fds]]
    /\ acceptor' = [acceptor EXCEPT ![g] = [pc |-> "top", fds |-> {}]]
    /\ UNCHANGED <<running, stop, gen, listening, handle, clientFds, owner, shut, active, call, aborted>>

AcceptSpawn(g, t) ==
    /\ acceptor[g].pc = "insert"
    /\ thread[t].pc = "none"
    /\ clientFds' = clientFds \cup acceptor[g].fds
    /\ thread' = [thread EXCEPT ![t] = [pc |-> "run", fds |-> acceptor[g].fds]]
    /\ acceptor' = [acceptor EXCEPT ![g] = [pc |-> "top", fds |-> {}]]
    /\ UNCHANGED <<running, stop, gen, listening, handle, owner, shut, active, call, aborted>>

AcceptExit(g) ==
    /\ acceptor[g].pc = "exit"
    /\ running' = FALSE
    /\ acceptor' = [acceptor EXCEPT ![g].pc = "done"]
    /\ UNCHANGED <<stop, gen, listening, handle, clientFds, owner, shut, active, thread, call, aborted>>

-----------------------------------------------------------------------------
(* A session thread.  The handler returns when its peer is done with it or  *)
(* its socket was shut down; it may also be stuck elsewhere for good.       *)
HandlerReturns(t) ==
    /\ thread[t].pc = "run"
    /\ thread' = [thread EXCEPT ![t].pc = "erase"]
    /\ UNCHANGED <<running, stop, gen, listening, handle, acceptor, clientFds, owner, shut, active, call, aborted>>

SessionErase(t) ==
    /\ thread[t].pc = "erase"
    /\ clientFds' = clientFds \ thread[t].fds
    /\ thread' = [thread EXCEPT ![t].pc = "close"]
    /\ UNCHANGED <<running, stop, gen, listening, handle, acceptor, owner, shut, active, call, aborted>>

(* ~ClientStream *)
SessionClose(t) ==
    /\ thread[t].pc = "close"
    /\ owner' = [f \in Fds |-> IF f \in thread[t].fds THEN "nobody" ELSE owner[f]]
    /\ thread' = [thread EXCEPT ![t] = [pc |-> "leave", fds |-> {}]]
    /\ UNCHANGED <<running, stop, gen, listening, handle, acceptor, clientFds, shut, active, call, aborted>>

SessionLeave(t) ==
    /\ thread[t].pc = "leave"
    /\ active' = active - 1
    /\ thread' = [thread EXCEPT ![t].pc = "none"]
    /\ UNCHANGED <<running, stop, gen, listening, handle, acceptor, clientFds, owner, shut, call, aborted>>

(* Another part of the process opens or closes a descriptor. *)
StrangerOpens(f) ==
    /\ owner[f] = "nobody"
    /\ owner' = [owner EXCEPT ![f] = "stranger"]
    /\ shut' = shut \ {f}
    /\ UNCHANGED <<running, stop, gen, listening, handle, acceptor, clientFds, active, thread, call, aborted>>

StrangerCloses(f) ==
    /\ owner[f] = "stranger"
    /\ owner' = [owner EXCEPT ![f] = "nobody"]
    /\ UNCHANGED <<running, stop, gen, listening, handle, acceptor, clientFds, shut, active, thread, call, aborted>>

-----------------------------------------------------------------------------
(* Stop *)

(* Deviation: the listening socket is left open. *)
StopBeginHalf(c) ==
    /\ call[c].pc = "idle"
    /\ running \/ handle # 0
    /\ stop' = TRUE
    /\ handle' = 0
    /\ call' = [call EXCEPT ![c] = [pc |-> "join", joins |-> handle]]
    /\ UNCHANGED <<running, gen, listening, acceptor, clientFds, owner, shut, active, thread, aborted>>

StopBegin(c) ==
    /\ call[c].pc = "idle"
    /\ running \/ handle # 0
    /\ stop' = TRUE
    /\ listening' = FALSE
    /\ handle' = 0
    /\ call' = [call EXCEPT ![c] = [pc |-> "join", joins |-> handle]]
    /\ UNCHANGED <<running, gen, acceptor, clientFds, owner, shut, active, thread, aborted>>

StopJoin(c) ==
    /\ call[c].pc = "join"
    /\ call[c].joins # 0 => acceptor[call[c].joins].pc = "done"
    /\ call' = [call EXCEPT ![c].pc = "wake"]
    /\ UNCHANGED <<running, stop, gen, listening, handle, acceptor, clientFds, owner, shut, active, thread, aborted>>

StopWake(c) ==
    /\ call[c].pc = "wake"
    /\ shut' = shut \cup clientFds
    /\ call' = [call EXCEPT ![c].pc = "wait"]
    /\ UNCHANGED <<running, stop, gen, listening, handle, acceptor, clientFds, owner, active, thread, aborted>>

(* Every session has left, or five seconds have passed. *)
StopReturn(c) ==
    /\ call[c].pc = "wait"
    /\ running' = FALSE
    /\ call' = [call EXCEPT ![c] = [pc |-> "idle", joins |-> 0]]
    /\ UNCHANGED <<stop, gen, listening, handle, acceptor, clientFds, owner, shut, active, thread, aborted>>

-----------------------------------------------------------------------------
AcceptStep(g) ==
    \/ AcceptTop(g)
    \/ \E f \in Fds : AcceptPeer(g, f)
    \/ AcceptFails(g)
    \/ AcceptDrop(g)
    \/ AcceptCount(g)
    \/ \E t \in Threads : AcceptSpawn(g, t)
    \/ AcceptExit(g)

SessionEnd(t) == SessionErase(t) \/ SessionClose(t) \/ SessionLeave(t)

StopStep(c) == StopJoin(c) \/ StopWake(c) \/ StopReturn(c)

ControllerNext ==
    /\ ~aborted
    /\ \/ \E c \in Callers : Start(c) \/ StopBegin(c) \/ StopStep(c)
       \/ \E g \in Gens : AcceptStep(g)
       \/ \E t \in Threads : HandlerReturns(t) \/ SessionEnd(t)
       \/ \E f \in Fds : StrangerOpens(f) \/ StrangerCloses(f)

ControllerSpec == ControllerInit /\ [][ControllerNext]_cvars

(* Threads that can run do run; a handler is never obliged to return unless *)
(* its socket was shut down, and even then it may be stuck elsewhere.       *)
ControllerFairness ==
    /\ \A c \in Callers : WF_cvars(StopStep(c))
    /\ \A g \in Gens : WF_cvars(AcceptStep(g))
    /\ \A t \in Threads : WF_cvars(SessionEnd(t))

FairControllerSpec == ControllerSpec /\ ControllerFairness

-----------------------------------------------------------------------------
(* Properties *)

(* The client_fds_ comment: a session removes its descriptor before closing *)
(* it, "so Stop never shuts down a descriptor number the kernel has already *)
(* handed to someone else".                                                 *)
NeverShutsStranger ==
    \A f \in clientFds : owner[f] = "server"

(* Stop "shuts down every open session's socket": once it waits for the     *)
(* sessions, none of them is still blocked on a socket nobody shut down,    *)
(* not even one whose connection was accepted while Stop was under way.     *)
StopWakesEverySession ==
    \A c \in Callers : call[c].pc = "wait" =>
        \A t \in Threads : thread[t].pc = "run" => thread[t].fds \subseteq shut

(* SetMaxConnections: new connections are refused "while this many are      *)
(* already open"; counted before the thread exists and given up after the   *)
(* descriptor is closed, the number of sessions never passes the cap.       *)
CapRespected ==
    Cap > 0 => Cardinality({t \in Threads : thread[t].pc # "none"}) <= Cap

(* With one caller, running_ is what qm_..._status reports and what Start   *)
(* relies on: between calls it is false only when no accept thread is left, *)
(* and Start never assigns over a thread nobody joined.                     *)
RunningIsTrue ==
    /\ ~aborted
    /\ (~running /\ \A c \in Callers : call[c].pc = "idle")
          => \A g \in Gens : acceptor[g].pc \in {"none", "done"}

(* Stop comes back: the join never waits on the lock the accept thread      *)
(* needs, a blocked accept is woken, and the wait for sessions is bounded,  *)
(* "because a handler stuck somewhere other than the socket should delay    *)
(* shutdown, not hang it".                                                  *)
StopReturns ==
    \A c \in Callers : call[c].pc # "idle" ~> call[c].pc = "idle"

(* What one caller of Start and Stop may rely on, under any load. *)
ListenerIsSound == StopWakesEverySession /\ NeverShutsStranger /\ CapRespected /\ RunningIsTrue
=============================================================================
