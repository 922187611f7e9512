----------------------------- MODULE CpuWorker ------------------------------
(***************************************************************************)
(* The CPU engine driven by its worker thread (EngineWorker,                *)
(* src/runtime/concurrency/worker.cpp, which the constructor of             *)
(* CpuSchedulerDriver starts and its destructor stops).                     *)
(*                                                                         *)
(* Only the worker steps the engine.  A client notifies it after it has     *)
(* left the engine's mutex, under the worker's own mutex; between steps     *)
(* that find nothing to do the worker waits on a condition variable for a   *)
(* notification, the end, or "idle_sleep_microseconds".                     *)
(***************************************************************************)
EXTENDS CpuEngine

CONSTANT Callers  \* client threads inside submit() or start() at a time: bounds owed

ASSUME WorkerAssumption == Callers \in Nat

VARIABLES
    loop,     \* where the worker's thread is
    worked,   \* what the step returns: it ran a batch
    pending,  \* work_pending_
    owed,     \* calls of notify() between the two mutexes
    stopping, \* stopping_
    life      \* of the driver: destroyed by one thread, after the clients have left

worker  == <<loop, worked, pending, owed, stopping, life>>
allVars == <<vars, worker>>

\* EngineWorker::start has been called.
WorkerInit ==
    /\ Init
    /\ loop = "top"
    /\ worked = FALSE
    /\ pending = TRUE
    /\ owed = 0
    /\ stopping = FALSE
    /\ life = "alive"
-----------------------------------------------------------------------------
(* Clients. *)

\* submit() and start() have a notification to send once they have unlocked.
Wakeful == StartStop(TRUE) \/ \E r \in Requests : Submit(r)

\* poll() is left out: nothing the worker does depends on it.
Quiet == StartStop(FALSE) \/ \E r \in Requests : Cancel(r) \/ Release(r)

Call ==
    /\ life = "alive"
    /\ \/ Wakeful /\ owed < Callers /\ owed' = owed + 1
       \/ Quiet /\ UNCHANGED owed
    /\ UNCHANGED <<loop, worked, pending, stopping, life>>

Notify ==
    /\ owed > 0
    /\ owed' = owed - 1
    /\ pending' = TRUE
    /\ UNCHANGED <<vars, loop, worked, stopping, life>>
-----------------------------------------------------------------------------
(* The destructor of the driver. *)

Close ==
    /\ life = "alive" /\ owed = 0
    /\ running' = FALSE
    /\ life' = "closing"
    /\ UNCHANGED <<request, cached, metrics, step, loop, worked, pending, owed, stopping>>

\* Faulty: the worker is not told that it has to stop.
StopSilently ==
    /\ life = "closing"
    /\ life' = "joining"
    /\ UNCHANGED <<vars, loop, worked, pending, owed, stopping>>

Stop ==
    /\ life = "closing"
    /\ stopping' = TRUE
    /\ life' = "joining"
    /\ UNCHANGED <<vars, loop, worked, pending, owed>>

Join ==
    /\ life = "joining"
    /\ loop = "exited"
    /\ life' = "gone"
    /\ UNCHANGED <<vars, loop, worked, pending, owed, stopping>>
-----------------------------------------------------------------------------
(* The worker's thread. *)

GoesTo(place) ==
    /\ loop' = IF stopping THEN "exited" ELSE place
    /\ UNCHANGED <<vars, owed, stopping, life>>

Top ==
    /\ loop = "top"
    /\ GoesTo("gate")
    /\ UNCHANGED <<worked, pending>>

\* worker_step(): the engine is asked under its mutex and stepped outside it.
Gate ==
    /\ loop = "gate"
    /\ loop' = IF running THEN "step" ELSE "returned"
    /\ worked' = FALSE
    /\ UNCHANGED <<vars, pending, owed, stopping, life>>

\* step_once(): "progressed" when a batch was run, whatever its outcome.
Step ==
    /\ loop = "step"
    /\ EngineNext
    /\ worked' = (worked \/ batch # NoBatch)
    /\ loop' = IF pc = "end" THEN "returned" ELSE loop
    /\ UNCHANGED <<pending, owed, stopping, life>>

\* The notifications that came during the step are forgotten.
Returned ==
    /\ loop = "returned"
    /\ GoesTo(IF worked THEN "top" ELSE "waiting")
    /\ pending' = (pending /\ (stopping \/ worked))
    /\ UNCHANGED worked

\* Faulty: the wait has no timeout.
WakesWhenNotified ==
    /\ loop = "waiting"
    /\ stopping \/ pending
    /\ GoesTo("top")
    /\ UNCHANGED <<worked, pending>>

\* A notification, the end, or the timeout.
Wakes ==
    /\ loop = "waiting"
    /\ GoesTo("top")
    /\ UNCHANGED <<worked, pending>>
-----------------------------------------------------------------------------
ThreadNext == Top \/ Gate \/ Step \/ Returned \/ Wakes

WorkerNext == Call \/ Notify \/ Close \/ Stop \/ Join \/ ThreadNext

WorkerSpec == WorkerInit /\ [][WorkerNext]_allVars

\* The threads run, model calls return and the timeout expires; nothing is asked
\* of the clients, and nobody has to destroy the driver.
WorkerFairSpec ==
    /\ WorkerSpec
    /\ WF_allVars(ThreadNext) /\ WF_allVars(Notify) /\ WF_allVars(Stop) /\ WF_allVars(Join)
-----------------------------------------------------------------------------
(* Properties. *)

\* A request the engine accepted comes to an end unless the engine is stopped,
\* whatever its priority, the other requests and the step's budget, and also when
\* its notification came while the worker was in a step that had passed it by.
AcceptedEnds ==
    \A r \in Requests :
       status[r] \in {"Queued"} \cup Active ~> status[r] \in Terminal \cup Absent \/ ~running

\* The driver can be destroyed whatever its worker is doing: the thread ends.
DestructorReturns == life = "closing" ~> life = "gone"
=============================================================================
