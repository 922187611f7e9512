--------------------------- MODULE ExpertIoManager ---------------------------
(***************************************************************************)
(* The threads that read experts from disk (ExpertIoManager,                *)
(* src/runtime/cache/host_expert_cache.cpp:305-360): sessions submit tasks  *)
(* to a bounded queue and wait on futures, workers run them, and the        *)
(* destructor drains the queue and joins the workers.                       *)
(*                                                                         *)
(* "mutex_" is held for a whole action, with one exception: a worker that   *)
(* has found its predicate false is "dozing", still holding the mutex, until *)
(* it sleeps.  The destructor sets the flag and notifies without the mutex,  *)
(* so its steps may fall in between.  Sessions are gone by then (the manager *)
(* lives in SharedModelWeights), but tasks of a session that gave up after   *)
(* an exception may still be queued.                                        *)
(***************************************************************************)
EXTENDS Integers, Sequences, FiniteSets

CONSTANTS Workers, Tasks, Depth, \* workers_, calls of submit, max_queue_depth_
          NoTask

ASSUME ManagerAssumption ==
    /\ IsFiniteSet(Workers) /\ Workers # {} \* one at least: host_expert_cache.cpp:307
    /\ Depth \in Nat \ {0} \* apps/cuda/main.cpp:272
    /\ NoTask \notin Tasks

VARIABLES
    queue,    \* queue_
    shutdown, \* shutdown_
    owner,    \* where the destructor is
    worker,   \* where each worker is
    item,     \* the task it has popped
    task      \* the call of submit, then its promise

vars == <<queue, shutdown, owner, worker, item, task>>

Init ==
    /\ queue = <<>>
    /\ shutdown = FALSE
    /\ owner = "using"
    /\ worker = [w \in Workers |-> "testing"]
    /\ item = [w \in Workers |-> NoTask]
    /\ task = [t \in Tasks |-> "new"]

MutexFree == \A w \in Workers : worker[w] # "dozing"

\* notify_one(f, x): one thread of f that sleeps tests its predicate again; which
\* one is not specified.
NotifyOne(f, asleep, awake) ==
    LET sleepers == {x \in DOMAIN f : f[x] = asleep}
    IN IF sleepers = {} THEN {f} ELSE {[f EXCEPT ![x] = awake] : x \in sleepers}
-----------------------------------------------------------------------------
(* submit *)

RoomOnce(t) == Len(queue) < Depth \/ task[t] = "retrying"  \* faulty: an "if" for the "while"
Room(t)     == Len(queue) < Depth

PushAnd(t, woken) ==
    /\ owner = "using"
    /\ MutexFree
    /\ task[t] \in {"new", "retrying"}
    /\ Room(t)
    /\ queue' = Append(queue, t)
    /\ task' = [task EXCEPT ![t] = "queued"]
    /\ worker' \in woken
    /\ UNCHANGED <<shutdown, owner, item>>

PushSilently(t) == PushAnd(t, {worker})  \* faulty: nobody is notified

Push(t) == PushAnd(t, NotifyOne(worker, "asleep", "testing"))

Block(t) ==
    /\ owner = "using"
    /\ MutexFree
    /\ task[t] \in {"new", "retrying"}
    /\ ~Room(t)
    /\ task' = [task EXCEPT ![t] = "blocked"]
    /\ UNCHANGED <<queue, shutdown, owner, worker, item>>
-----------------------------------------------------------------------------
(* A worker *)

PopAnd(w, rest, woken) ==
    /\ MutexFree
    /\ worker[w] = "testing"
    /\ queue # <<>>
    /\ queue' = rest
    /\ item' = [item EXCEPT ![w] = Head(queue)]
    /\ worker' = [worker EXCEPT ![w] = "running"]
    /\ task' \in woken
    /\ UNCHANGED <<shutdown, owner>>

Started == [task EXCEPT ![Head(queue)] = "running"]
LetIn   == NotifyOne(Started, "blocked", "retrying")

PopCopies(w)   == PopAnd(w, queue, LetIn)             \* faulty: the item stays in the queue
PopSilently(w) == PopAnd(w, Tail(queue), {Started})   \* faulty: no submit is notified

Pop(w) == PopAnd(w, Tail(queue), LetIn)

ExitIf(w, done) ==
    /\ MutexFree
    /\ worker[w] = "testing"
    /\ done
    /\ worker' = [worker EXCEPT ![w] = "exited"]
    /\ UNCHANGED <<queue, shutdown, owner, item, task>>

ExitAtOnce(w) == ExitIf(w, shutdown)  \* faulty: leaves tasks behind

Exit(w) == ExitIf(w, shutdown /\ queue = <<>>)

Doze(w) ==
    /\ MutexFree
    /\ worker[w] = "testing"
    /\ ~shutdown
    /\ queue = <<>>
    /\ worker' = [worker EXCEPT ![w] = "dozing"]
    /\ UNCHANGED <<queue, shutdown, owner, item, task>>

Sleep(w) ==
    /\ worker[w] = "dozing"
    /\ worker' = [worker EXCEPT ![w] = "asleep"]
    /\ UNCHANGED <<queue, shutdown, owner, item, task>>

\* The task returns or throws; either way its future becomes ready.
Run(w) ==
    /\ worker[w] = "running"
    /\ \E outcome \in {"value", "exception"} : task' = [task EXCEPT ![item[w]] = outcome]
    /\ worker' = [worker EXCEPT ![w] = "testing"]
    /\ item' = [item EXCEPT ![w] = NoTask]
    /\ UNCHANGED <<queue, shutdown, owner>>
-----------------------------------------------------------------------------
(* ~ExpertIoManager *)

Shutdown ==
    /\ owner = "using"
    /\ \A t \in Tasks : task[t] \notin {"blocked", "retrying"}
    /\ shutdown' = TRUE
    /\ owner' = "notifying"
    /\ UNCHANGED <<queue, worker, item, task>>

Notify(woken) ==
    /\ owner = "notifying"
    /\ worker' \in woken
    /\ owner' = "joining"
    /\ UNCHANGED <<queue, shutdown, item, task>>

NotifyJustOne == Notify(NotifyOne(worker, "asleep", "testing"))  \* faulty: notify_one

NotifyAll ==
    Notify({[w \in Workers |-> IF worker[w] = "asleep" THEN "testing" ELSE worker[w]]})

Join ==
    /\ owner = "joining"
    /\ \A w \in Workers : worker[w] = "exited"
    /\ owner' = "gone"
    /\ UNCHANGED <<queue, shutdown, worker, item, task>>
-----------------------------------------------------------------------------
Submit(t) == Push(t) \/ Block(t)
Works(w)  == Pop(w) \/ Exit(w) \/ Doze(w) \/ Sleep(w) \/ Run(w)

Next ==
    \/ \E t \in Tasks : Submit(t)
    \/ \E w \in Workers : Works(w)
    \/ Shutdown \/ NotifyAll \/ Join

Spec == Init /\ [][Next]_vars

\* Threads run and tasks end.  The mutex is fair enough: a worker is not kept from
\* it for ever, nor is a submit that was woken up.
FairSpec ==
    /\ Spec
    /\ \A w \in Workers : WF_vars(Works(w))
    /\ \A t \in Tasks : WF_vars(task[t] = "retrying" /\ Submit(t))
    /\ WF_vars(NotifyAll \/ Join)
-----------------------------------------------------------------------------
(* Properties *)

\* The queue stays within its depth although a submit that was woken up may find
\* that another one has taken the place (host_expert_cache.cpp:350-352).
TypeOK ==
    /\ queue \in Seq(Tasks) /\ Len(queue) <= Depth
    /\ shutdown \in BOOLEAN
    /\ owner \in {"using", "notifying", "joining", "gone"}
    /\ worker \in [Workers -> {"testing", "dozing", "asleep", "running", "exited"}]
    /\ item \in [Workers -> Tasks \cup {NoTask}]
    /\ task \in [Tasks -> {"new", "blocked", "retrying", "queued", "running",
                           "value", "exception"}]

\* An accepted task is in one place only, the queue or one worker, and leaves it
\* with its future ready: no task is run twice, dropped or forgotten.
HandedOnce ==
    \A t \in Tasks :
        /\ Cardinality({k \in DOMAIN queue : queue[k] = t}) = IF task[t] = "queued" THEN 1 ELSE 0
        /\ Cardinality({w \in Workers : item[w] = t}) = IF task[t] = "running" THEN 1 ELSE 0

\* Nobody sleeps on an empty queue that is not empty: with a task queued, some worker
\* is up or one was notified for it; the destructor relies on it to drain the queue.
NoTaskWaitsAlone ==
    queue # <<>> => \E w \in Workers : worker[w] \in {"testing", "running"}

\* A submit that found the queue full is let in when there is room.
BlockedAreServed == \A t \in Tasks : task[t] = "blocked" ~> task[t] # "blocked" /\ task[t] # "retrying"

\* Every accepted task is run and its future becomes ready, also when the manager
\* is destroyed with tasks still queued.
AcceptedAreRun == \A t \in Tasks : task[t] = "queued" ~> task[t] \in {"value", "exception"}

\* The destructor joins its workers, unless it fell between a worker's test and its
\* sleep, which the notification then misses (host_expert_cache.cpp:336-337).
JoinsUnlessDozing == owner = "notifying" /\ MutexFree ~> owner = "gone"
=============================================================================
