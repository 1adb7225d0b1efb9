----------------------------- MODULE MCSessions -----------------------------
(* The listener, the periodic worker, the mail access sessions and the news *)
(* feed share no state, so one of them runs in each behaviour: focus names  *)
(* it and the others rest in their first states, where none of the actions  *)
(* that fairness is assumed of is enabled.                                  *)
EXTENDS ServerController, PeriodicWorker, MailAccess, NewsFeed, TLC

CONSTANTS c1, f1, f2, f3, t1, t2, t3, b1, b2, i1, p1, n1, n2, a1, a2

VARIABLE focus

sessionsVars == <<cvars, wvars, avars, nvars, focus>>

MCInit ==
    /\ ControllerInit /\ WorkerInit /\ AccessInit /\ FeedInit
    /\ focus \in {"listener", "worker", "access", "feed"}

MCNext ==
    /\ UNCHANGED focus
    /\ \/ focus = "listener" /\ ControllerNext /\ UNCHANGED <<wvars, avars, nvars>>
       \/ focus = "worker" /\ WorkerNext /\ UNCHANGED <<cvars, avars, nvars>>
       \/ focus = "access" /\ AccessNext /\ UNCHANGED <<cvars, wvars, nvars>>
       \/ focus = "feed" /\ FeedNext /\ UNCHANGED <<cvars, wvars, avars>>

MCSpec == MCInit /\ [][MCNext]_sessionsVars /\ ControllerFairness /\ WorkerFairness /\ AccessFairness

(* The component that runs is well typed; the others are where they began. *)
SessionsTypeOK ==
    /\ focus = "listener" => ControllerTypeOK
    /\ focus = "worker" => WorkerTypeOK
    /\ focus = "access" => AccessTypeOK
    /\ focus = "feed" => FeedTypeOK

(* The threads are those that Start and Stop report (ListenerIsSound), and  *)
(* the worker's loop is the one IsRunning() admits to (RunningMeansAlive).  *)
ThreadsAreSound == ListenerIsSound /\ RunningMeansAlive

(* Stop of the listener and Stop of the worker return. *)
StopsReturn == StopReturns /\ WorkerStopReturns
=============================================================================
