---------------------------- MODULE CpuThreadPool ----------------------------
(***************************************************************************)
(* The pool on which the CPU kernels run their loops (CpuThreadPool,        *)
(* src/backend/cpu/runtime/thread_pool.cpp).  The one thread that calls     *)
(* parallel_for publishes a loop under "mutex_", claims chunks of it beside *)
(* the workers with a fetch_add on "next_", and returns when every worker   *)
(* has counted itself done.  A task stands for the number of its loop, and  *)
(* tasks do not throw.  A thread that waits on a condition variable is      *)
(* "asleep" until it is notified or wakes up by itself, and then tests its  *)
(* predicate again.                                                         *)
(***************************************************************************)
EXTENDS Integers, Sequences, FiniteSets, FiniteSetsExt

CONSTANTS Workers, \* workers_, one fewer than the pool's threads
          Caller,  \* the thread that owns the pool and calls parallel_for
          Loops    \* the begin, end and grain of its calls, in order

ASSUME PoolAssumption ==
    /\ IsFiniteSet(Workers)
    /\ Caller \notin Workers
    /\ Loops \in Seq([begin : Nat, end : Nat, grain : Nat])

VARIABLES
    stopping,   \* stopping_
    generation, \* generation_
    shared,     \* task_, end_ and grain_ (task 0 is the empty function)
    next,       \* next_
    pending,    \* pending_workers_
    pc,         \* where each thread is
    observed,   \* observed_generation of each worker
    mine,       \* each thread's own task, end and grain
    chunk,      \* the chunk each thread has claimed: chunk.first .. chunk.last - 1
    call,       \* how many calls of parallel_for have begun
    ran         \* how often each index of the current call was run

published == <<stopping, generation, shared>>
locals    == <<observed, mine>>
vars      == <<published, next, pending, pc, locals, chunk, call, ran>>

Threads == Workers \cup {Caller}
Grain(l) == IF l.grain = 0 THEN 1 ELSE l.grain
Indices  == UNION {l.begin .. l.end - 1 : l \in {Loops[k] : k \in DOMAIN Loops}}
Span(k)  == Loops[k].begin .. Loops[k].end - 1

NoTask  == [task |-> 0, end |-> 0, grain |-> 1]
NoChunk == [first |-> 0, last |-> 0]
NotRun  == [i \in Indices |-> 0]

Init ==
    /\ stopping = FALSE
    /\ generation = 0
    /\ shared = NoTask
    /\ next = 0
    /\ pending = 0
    /\ pc = [t \in Threads |-> IF t = Caller THEN "idle" ELSE "waiting"]
    /\ observed = [w \in Workers |-> 0]
    /\ mine = [t \in Threads |-> NoTask]
    /\ chunk = [t \in Threads |-> NoChunk]
    /\ call = 0
    /\ ran = NotRun

Go(t, from, to) == pc[t] = from /\ pc' = [pc EXCEPT ![t] = to]

\* notify_all and notify_one: the threads of ts that sleep test their predicate.
Woken(ts) == [t \in Threads |->
    IF t \in ts /\ pc[t] = "asleep" THEN IF t = Caller THEN "await" ELSE "waiting"
    ELSE pc[t]]
-----------------------------------------------------------------------------
(* parallel_for *)

\* An empty range, or one not worth sharing, never reaches the workers.
Serial(l) == l.end <= l.begin \/ Workers = {} \/ l.end - l.begin <= Grain(l)

RunSerially ==
    /\ pc[Caller] = "idle"
    /\ call < Len(Loops)
    /\ Serial(Loops[call + 1])
    /\ call' = call + 1
    /\ ran' = [i \in Indices |-> IF i \in Span(call + 1) THEN 1 ELSE 0]
    /\ UNCHANGED <<published, next, pending, pc, locals, chunk>>

PublishFor(count) ==
    /\ call < Len(Loops)
    /\ ~Serial(Loops[call + 1])
    /\ Go(Caller, "idle", "notify")
    /\ LET l == Loops[call + 1]
           work == [task |-> call + 1, end |-> l.end, grain |-> Grain(l)]
       IN /\ shared' = work
          /\ mine' = [mine EXCEPT ![Caller] = work]
          /\ next' = l.begin
    /\ pending' = count
    /\ generation' = generation + 1
    /\ call' = call + 1
    /\ ran' = NotRun
    /\ UNCHANGED <<stopping, observed, chunk>>

PublishForOthers == PublishFor(Cardinality(Workers) - 1)  \* faulty: one too few

Publish == PublishFor(Cardinality(Workers))

NotifyWork ==
    /\ pc[Caller] = "notify"
    /\ pc' = [Woken(Workers) EXCEPT ![Caller] = "claim"]
    /\ UNCHANGED <<published, next, pending, locals, chunk, call, ran>>

\* The loop over fetch_add is the same text in parallel_for and worker_loop.
ClaimBy(t, step) ==
    /\ next' = next + step
    /\ \/ /\ next < mine[t].end
          /\ Go(t, "claim", "run")
          /\ chunk' = [chunk EXCEPT ![t] =
                [first |-> next, last |-> Min({mine[t].end, next + mine[t].grain})]]
       \/ /\ next >= mine[t].end
          /\ Go(t, "claim", IF t = Caller THEN "await" ELSE "finish")
          /\ UNCHANGED chunk
    /\ UNCHANGED <<published, pending, locals, call, ran>>

ClaimOne(t) == ClaimBy(t, 1)  \* faulty: chunks overlap

Claim(t) == ClaimBy(t, mine[t].grain)

RunChunk(t) ==
    /\ Go(t, "run", "claim")
    /\ ran' = [i \in Indices |->
                 IF i \in chunk[t].first .. chunk[t].last - 1 THEN ran[i] + 1 ELSE ran[i]]
    /\ UNCHANGED <<published, next, pending, locals, chunk, call>>

\* done_cv_.wait: the call returns, with task_ cleared, once nobody is pending.
Await ==
    /\ Go(Caller, "await", IF pending = 0 THEN "idle" ELSE "asleep")
    /\ shared' = IF pending = 0 THEN [shared EXCEPT !.task = 0] ELSE shared
    /\ UNCHANGED <<stopping, generation, next, pending, locals, chunk, call, ran>>
-----------------------------------------------------------------------------
(* worker_loop *)

ObserveNothing(w) == UNCHANGED observed  \* faulty: the same loop is seen again

Observe(w) == observed' = [observed EXCEPT ![w] = generation]

\* work_cv_.wait and what follows it under the same lock.
Wait(w) ==
    /\ \/ /\ stopping
          /\ Go(w, "waiting", "exited")
          /\ UNCHANGED locals
       \/ /\ ~stopping
          /\ generation # observed[w]
          /\ Go(w, "waiting", "claim")
          /\ Observe(w)
          /\ mine' = [mine EXCEPT ![w] = shared]
       \/ /\ ~stopping
          /\ generation = observed[w]
          /\ Go(w, "waiting", "asleep")
          /\ UNCHANGED locals
    /\ UNCHANGED <<published, next, pending, chunk, call, ran>>

NobodyWakes == pc  \* faulty: the caller is not notified

LastWakes == IF pending = 1 THEN Woken({Caller}) ELSE pc

\* std::terminate() if nobody is pending; the last one to finish wakes the caller.
Finish(w) ==
    /\ pc[w] = "finish"
    /\ pending' = IF pending = 0 THEN 0 ELSE pending - 1
    /\ pc' = [LastWakes EXCEPT ![w] = IF pending = 0 THEN "terminated" ELSE "waiting"]
    /\ UNCHANGED <<published, next, locals, chunk, call, ran>>

WakesUp(t) ==
    /\ pc[t] = "asleep"
    /\ pc' = Woken({t})
    /\ UNCHANGED <<published, next, pending, locals, chunk, call, ran>>
-----------------------------------------------------------------------------
(* ~CpuThreadPool *)

Stop ==
    /\ Go(Caller, "idle", "stop")
    /\ stopping' = TRUE
    /\ generation' = generation + 1
    /\ UNCHANGED <<shared, next, pending, locals, chunk, call, ran>>

NotifyStopTo(ts) ==
    /\ pc[Caller] = "stop"
    /\ pc' = [Woken(ts) EXCEPT ![Caller] = "join"]
    /\ UNCHANGED <<published, next, pending, locals, chunk, call, ran>>

NotifyStopToOne == \E w \in Workers : NotifyStopTo({w})  \* faulty: notify_one

NotifyStop == NotifyStopTo(Workers)

Join ==
    /\ \A w \in Workers : pc[w] = "exited"
    /\ Go(Caller, "join", "gone")
    /\ UNCHANGED <<published, next, pending, locals, chunk, call, ran>>
-----------------------------------------------------------------------------
CallerWorks == RunSerially \/ Publish \/ NotifyWork \/ Await \/ NotifyStop \/ Join
WorkerWorks(w) == Wait(w) \/ Finish(w)
Steps(t) == Claim(t) \/ RunChunk(t)

Next ==
    \/ CallerWorks
    \/ Stop
    \/ \E w \in Workers : WorkerWorks(w)
    \/ \E t \in Threads : Steps(t) \/ WakesUp(t)

Spec == Init /\ [][Next]_vars

\* Threads run, and tasks return; nobody is obliged to destroy the pool, and a
\* sleeping thread need not wake up by itself.
FairSpec ==
    /\ Spec
    /\ WF_vars(CallerWorks)
    /\ \A w \in Workers : WF_vars(WorkerWorks(w))
    /\ \A t \in Threads : WF_vars(Steps(t))
-----------------------------------------------------------------------------
(* Properties *)

InCall == pc[Caller] \in {"notify", "claim", "run", "await", "asleep"}

TypeOK ==
    /\ stopping \in BOOLEAN
    /\ generation \in Nat
    /\ shared \in [task : 0 .. Len(Loops), end : Nat, grain : Nat \ {0}]
    /\ next \in Nat
    /\ pending \in 0 .. Cardinality(Workers)
    /\ pc \in [Threads -> {"idle", "notify", "claim", "run", "await", "asleep", "waiting",
                 "finish", "exited", "terminated", "stop", "join", "gone"}]
    /\ observed \in [Workers -> Nat]
    /\ mine \in [Threads -> [task : 0 .. Len(Loops), end : Nat, grain : Nat \ {0}]]
    /\ chunk \in [Threads -> [first : Nat, last : Nat]]
    /\ call \in 0 .. Len(Loops)
    /\ ran \in [Indices -> Nat]

\* When parallel_for has returned, every index of its range was run exactly once
\* and no other index was, however chunks were claimed (thread_pool.cpp:63-67, 104-109).
RanOnce ==
    pc[Caller] = "idle" /\ call > 0 =>
        \A i \in Indices : ran[i] = IF i \in Span(call) THEN 1 ELSE 0

\* A worker touches a task only while the call it belongs to has not returned: a
\* task refers to the caller's stack (thread_pool.cpp:66, 108).
NoStragglers ==
    \A w \in Workers : pc[w] \in {"claim", "run", "finish"} => InCall /\ mine[w].task = call

\* The count of workers never runs out before the workers do, so worker_loop
\* never calls std::terminate (thread_pool.cpp:113-115).
NeverTerminates == \A w \in Workers : pc[w] # "terminated"

\* parallel_for returns: no wake-up of the workers or of the caller is lost.
CallReturns == InCall ~> pc[Caller] = "idle"

\* The destructor joins every worker, wherever stopping found it.
PoolEnds == pc[Caller] = "stop" ~> pc[Caller] = "gone"
=============================================================================
