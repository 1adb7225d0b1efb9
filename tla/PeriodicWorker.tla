--------------------------- MODULE PeriodicWorker ---------------------------
(***************************************************************************)
(* PeriodicWorker (core/src/worker.cpp): the thread that runs the relay    *)
(* drainer, list distribution, fetching and housekeeping.  Start holds the *)
(* lock throughout; Stop gives it up before it joins, and joinable(),      *)
(* join() and running_ = false are steps of their own.                     *)
(***************************************************************************)
EXTENDS Naturals

CONSTANTS
    Stoppers,       \* threads that call Start and Stop (SQL connections)
    MaxLoops        \* bound on Starts

ASSUME WorkerAssumption == MaxLoops \in Nat \ {0}

VARIABLES
    wRunning,   \* running_
    wStop,      \* stop_
    wThread,    \* the loop thread_ stands for, 0 when it is not joinable
    loops,      \* what each loop thread is doing
    wCall,      \* the callers inside Stop
    wBroken     \* std::terminate, or a join of a thread somebody else joined

wvars == <<wRunning, wStop, wThread, loops, wCall, wBroken>>

Loops == 1..MaxLoops

WorkerTypeOK ==
    /\ wRunning \in BOOLEAN /\ wStop \in BOOLEAN /\ wBroken \in BOOLEAN
    /\ wThread \in 0..MaxLoops
    /\ loops \in [Loops -> {"none", "nap", "tick", "sleep", "done"}]
    /\ wCall \in [Stoppers -> [pc : {"idle", "joinable", "join", "clear"}, of : 0..MaxLoops]]
    /\ wThread # 0 => wRunning

WorkerInit ==
    /\ wRunning = FALSE /\ wStop = FALSE /\ wBroken = FALSE
    /\ wThread = 0
    /\ loops = [n \in Loops |-> "none"]
    /\ wCall = [c \in Stoppers |-> [pc |-> "idle", of |-> 0]]

WCalls(c, pc, of) == wCall' = [wCall EXCEPT ![c] = [pc |-> pc, of |-> of]]

(* Refused while running_; assigning over a joinable thread terminates. *)
WorkerStart(c) ==
    /\ wCall[c].pc = "idle"
    /\ ~wRunning
    /\ \E n \in Loops :
          /\ loops[n] = "none" /\ \A m \in Loops : m < n => loops[m] # "none"
          /\ loops' = [loops EXCEPT ![n] = "nap"]
          /\ wThread' = n
    /\ wStop' = FALSE
    /\ wRunning' = TRUE
    /\ wBroken' = (wBroken \/ wThread # 0)
    /\ UNCHANGED wCall

WorkerStop(c) ==
    /\ wCall[c].pc = "idle"
    /\ wRunning
    /\ wStop' = TRUE
    /\ WCalls(c, "joinable", 0)
    /\ UNCHANGED <<wRunning, wThread, loops, wBroken>>

WorkerJoinable(c) ==
    /\ wCall[c].pc = "joinable"
    /\ IF wThread = 0 THEN WCalls(c, "clear", 0) ELSE WCalls(c, "join", wThread)
    /\ UNCHANGED <<wRunning, wStop, wThread, loops, wBroken>>

WorkerJoin(c) ==
    /\ wCall[c].pc = "join"
    /\ loops[wCall[c].of] = "done"
    /\ wBroken' = (wBroken \/ wThread # wCall[c].of)
    /\ wThread' = 0
    /\ WCalls(c, "clear", 0)
    /\ UNCHANGED <<wRunning, wStop, loops>>

WorkerStopped(c) ==
    /\ wCall[c].pc = "clear"
    /\ wRunning' = FALSE
    /\ WCalls(c, "idle", 0)
    /\ UNCHANGED <<wStop, wThread, loops, wBroken>>

(* The nap and the sleep are cut short by stop_; a tick is run to its end,  *)
(* and what it throws is swallowed.                                         *)
LoopStep(n) ==
    /\ \/ /\ loops[n] \in {"nap", "sleep"}
          /\ loops' = [loops EXCEPT ![n] = IF wStop THEN "done" ELSE "tick"]
       \/ /\ loops[n] = "tick"
          /\ loops' = [loops EXCEPT ![n] = "sleep"]
    /\ UNCHANGED <<wRunning, wStop, wThread, wCall, wBroken>>

WorkerStep(c) ==
    \/ WorkerJoinable(c)
    \/ WorkerJoin(c)
    \/ WorkerStopped(c)

WorkerNext ==
    /\ ~wBroken
    /\ \/ \E c \in Stoppers : WorkerStart(c) \/ WorkerStop(c) \/ WorkerStep(c)
       \/ \E n \in Loops : LoopStep(n)

WorkerSpec == WorkerInit /\ [][WorkerNext]_wvars

WorkerFairness ==
    /\ \A c \in Stoppers : WF_wvars(WorkerStep(c))
    /\ \A n \in Loops : WF_wvars(LoopStep(n))

FairWorkerSpec == WorkerSpec /\ WorkerFairness

Alive(n) == loops[n] \in {"nap", "tick", "sleep"}

-----------------------------------------------------------------------------
(* Properties *)

(* worker.hpp: Start "Fails if already running".  Whatever the order of      *)
(* Starts and Stops, no loop is alive that IsRunning() denies: a second one  *)
(* would drain the same queue beside it.                                     *)
RunningMeansAlive ==
    \A n \in Loops : Alive(n) => wRunning /\ wThread = n

(* "Sleep in slices so Stop() returns promptly": a Stop ends, however long   *)
(* the interval, if ticks do.                                                *)
WorkerStopReturns ==
    \A c \in Stoppers : wCall[c].pc # "idle" ~> wCall[c].pc = "idle"
=============================================================================
