------------------------ MODULE GenerationDispatcher ------------------------
(***************************************************************************)
(* The thread between the HTTP routes and an inference service              *)
(* (GenerationDispatcher, src/serve/generation_dispatcher.cpp).  It drives  *)
(* the scheduler, polls every watched request and hands the events to the   *)
(* watchers; the event loop's thread submits, watches and, when a client    *)
(* goes away, cancels.  "watchers_mutex_" protects the map of watchers and  *)
(* nothing else: the poll of an id happens outside it.                      *)
(*                                                                         *)
(* The service is the one of RequestService.  The life of the dispatcher is *)
(* that of apps/serve/main.cpp: start, serve, stop, destroy.               *)
(***************************************************************************)
EXTENDS RequestService, FiniteSets

CONSTANTS MayAbort,    \* the requests whose client may go away (onAborted)
          MayUnwatch,  \* the requests whose owner may call unwatch
          StepMayThrow \* whether the service's step() may throw

ASSUME DispatcherAssumption ==
    /\ 0 \notin Requests
    /\ MayAbort \subseteq Requests
    /\ MayUnwatch \subseteq Requests
    /\ StepMayThrow \in BOOLEAN

VARIABLES
    client,     \* what the event loop's thread has done for each request
    watchers,   \* watchers_: the client's callback, the no-op of cancel, or none
    delivered,  \* tokens handed to the client's callback
    ended,      \* the client's callback has seen finished
    running,    \* running_
    thread,     \* the state of thread_
    scheduler,  \* the scheduler has been started and not stopped
    main,       \* where main() is
    pc,         \* where the dispatcher's thread is
    todo,       \* ids of this round's snapshot that are still to be polled
    event       \* the event poll returned, until it is delivered or dropped

clients == <<client, delivered, ended>>
life    == <<running, thread, scheduler, main>>
loop    == <<pc, todo, event>>
vars    == <<svc, clients, watchers, life, loop>>

NoEvent == [id |-> 0, tokens |-> 0, finished |-> FALSE]

TypeOK ==
    /\ ServiceTypeOK
    /\ client \in [Requests -> {"new", "submitted", "watching", "aborted", "unwatched"}]
    /\ watchers \in [Requests -> {"none", "client", "noop"}]
    /\ delivered \in [Requests -> Nat]
    /\ ended \in [Requests -> BOOLEAN]
    /\ running \in BOOLEAN
    /\ thread \in {"none", "up", "exited", "joined"}
    /\ scheduler \in BOOLEAN
    /\ main \in {"starting", "serving", "stopping", "stopped"}
    /\ pc \in {"top", "step", "snapshot", "scan", "deliver"}
    /\ todo \subseteq Requests
    /\ event \in [id : Requests \cup {0}, tokens : Nat, finished : BOOLEAN]

Init ==
    /\ ServiceInit
    /\ client = [r \in Requests |-> "new"]
    /\ watchers = [r \in Requests |-> "none"]
    /\ delivered = [r \in Requests |-> 0]
    /\ ended = [r \in Requests |-> FALSE]
    /\ running = FALSE
    /\ thread = "none"
    /\ scheduler = FALSE
    /\ main = "starting"
    /\ pc = "top"
    /\ todo = {}
    /\ event = NoEvent
-----------------------------------------------------------------------------
(* main(): start, and stop in its two halves, with the join between them. *)

Start ==
    /\ main = "starting"
    /\ running' = TRUE
    /\ thread' = "up"
    /\ scheduler' = TRUE
    /\ main' = "serving"
    /\ UNCHANGED <<svc, clients, watchers, loop>>

\* "if (!running_.exchange(false)) return;" comes before the join.
StopBegin ==
    /\ main = "serving"
    /\ main' = IF running THEN "stopping" ELSE "stopped"
    /\ running' = FALSE
    /\ UNCHANGED <<svc, clients, watchers, thread, scheduler, loop>>

StopEnd ==
    /\ main = "stopping"
    /\ thread = "exited"
    /\ thread' = "joined"
    /\ scheduler' = FALSE
    /\ main' = "stopped"
    /\ UNCHANGED <<svc, clients, watchers, running, loop>>
-----------------------------------------------------------------------------
(* The event loop's thread, while main() is in app.run(). *)

ClientSubmit(r) ==
    /\ main = "serving"
    /\ client[r] = "new"
    /\ Submit(r)
    /\ client' = [client EXCEPT ![r] = "submitted"]
    /\ UNCHANGED <<delivered, ended, watchers, life, loop>>

Watch(r) ==
    /\ main = "serving"
    /\ client[r] = "submitted"
    /\ client' = [client EXCEPT ![r] = "watching"]
    /\ watchers' = [watchers EXCEPT ![r] = "client"]
    /\ UNCHANGED <<svc, delivered, ended, life, loop>>

Unwatch(r) ==
    /\ main = "serving"
    /\ r \in MayUnwatch
    /\ client[r] = "watching"
    /\ client' = [client EXCEPT ![r] = "unwatched"]
    /\ watchers' = [watchers EXCEPT ![r] = "none"]
    /\ UNCHANGED <<svc, delivered, ended, life, loop>>

\* cancel: the map is locked from the erase to the release.  The dispatcher's
\* thread can only poll or step in between, which commutes with both.
Cancel(r, replacement) ==
    /\ main = "serving"
    /\ r \in MayAbort
    /\ client[r] = "watching"
    /\ client' = [client EXCEPT ![r] = "aborted"]
    /\ \/ /\ CancelAccepted(r)
          /\ watchers' = [watchers EXCEPT ![r] = replacement]
       \/ /\ CancelRefused(r)
          /\ watchers' = [watchers EXCEPT ![r] = "none"]
          /\ IF Known(r) THEN Release(r) ELSE UNCHANGED svc
    /\ UNCHANGED <<delivered, ended, life, loop>>

\* Faulty: nobody is left to poll and release the request.
AbortForgets(r) == Cancel(r, "none")

\* The no-op watcher keeps the request polled until its end.
Abort(r) == Cancel(r, "noop")
-----------------------------------------------------------------------------
(* The dispatcher's thread. *)

StepCalled ==
    /\ thread = "up"
    /\ pc = "top"
    /\ running
    /\ pc' = "step"
    /\ UNCHANGED <<svc, clients, watchers, life, todo, event>>

\* scheduler_.step() moves some of the requests, each under the service's lock.
StepMoves(r) ==
    /\ pc = "step"
    /\ \E n \in Moves(r) : svc' = [svc EXCEPT ![r] = n]
    /\ UNCHANGED <<clients, watchers, life, loop>>

StepReturns ==
    /\ pc = "step"
    /\ pc' = "snapshot"
    /\ UNCHANGED <<svc, clients, watchers, life, todo, event>>

\* run() catches what dispatch_once throws, clears running_ and returns: the
\* thread is over and nobody has joined it.
Dies ==
    /\ running' = FALSE
    /\ thread' = "exited"
    /\ pc' = "top"
    /\ todo' = {}
    /\ UNCHANGED <<clients, watchers, scheduler, main, event>>

StepThrows ==
    /\ pc = "step"
    /\ StepMayThrow
    /\ Dies
    /\ UNCHANGED svc

Snapshot ==
    /\ pc = "snapshot"
    /\ todo' = {r \in Requests : watchers[r] # "none"}
    /\ pc' = "scan"
    /\ UNCHANGED <<svc, clients, watchers, life, event>>

\* What dispatch_once does with an event: nothing, or keep it for delivery.
Handle(r, tokens, finished, skip) ==
    /\ todo' = todo \ {r}
    /\ IF skip
       THEN UNCHANGED <<pc, event>>
       ELSE /\ event' = [id |-> r, tokens |-> tokens, finished |-> finished]
            /\ pc' = "deliver"
    /\ UNCHANGED <<clients, watchers, life>>

Polling(r) == pc = "scan" /\ r \in todo /\ Known(r)

\* Faulty: an event without tokens is skipped even when it is the last.
PollSkipsEmpty(r) ==
    /\ Polling(r)
    /\ PollTakes(r, Unread(r))
    /\ Handle(r, Unread(r), FinishedAfter(r, Unread(r)), Unread(r) = 0)

\* Faulty: a poll of one token that calls every terminal request finished.
PollOneByOne(r) ==
    LET n == IF Unread(r) = 0 THEN 0 ELSE 1
    IN  /\ Polling(r)
        /\ PollTakes(r, n)
        /\ Handle(r, n, svc[r].status \in Terminal, n = 0 /\ svc[r].status \notin Terminal)

\* poll(id, 0), without the lock: everything unread, and whether that is all.
Poll(r) ==
    LET tokens   == Unread(r)
        finished == FinishedAfter(r, tokens)
    IN  /\ Polling(r)
        /\ PollTakes(r, tokens)
        /\ Handle(r, tokens, finished, tokens = 0 /\ ~finished)

\* poll throws std::out_of_range.
PollThrows(r) ==
    /\ pc = "scan"
    /\ r \in todo
    /\ ~Known(r)
    /\ Dies
    /\ UNCHANGED svc

\* The event of r goes to its callback ("call") and, if it is the last, the
\* watcher ("forget") and the request ("free") go with it.
Hand(r, call, forget, free) ==
    /\ delivered' = [delivered EXCEPT ![r] = @ + (IF call THEN event.tokens ELSE 0)]
    /\ ended' = [ended EXCEPT ![r] = @ \/ (call /\ event.finished)]
    /\ watchers' = [watchers EXCEPT ![r] = IF forget THEN "none" ELSE @]
    /\ IF free THEN Release(r) ELSE UNCHANGED svc
    /\ event' = NoEvent
    /\ pc' = "scan"
    /\ UNCHANGED <<client, life, todo>>

\* Faulty: the callback copied with the snapshot is called, not the current one.
DeliverStale ==
    LET last == event.finished /\ Known(event.id)
    IN pc = "deliver" /\ Hand(event.id, TRUE, last, last)

\* Faulty: the request is released and its watcher stays.
DeliverKeepsWatcher ==
    LET r    == event.id
        last == watchers[r] # "none" /\ event.finished
    IN pc = "deliver" /\ Hand(r, watchers[r] = "client", FALSE, last)

\* Under the lock: the watcher is looked up again, called, and on the last event
\* erased with its request.
Deliver ==
    LET r    == event.id
        last == watchers[r] # "none" /\ event.finished
    IN pc = "deliver" /\ Hand(r, watchers[r] = "client", last, last)

RoundEnds ==
    /\ pc = "scan"
    /\ todo = {}
    /\ pc' = "top"
    /\ UNCHANGED <<svc, clients, watchers, life, todo, event>>

RunReturns ==
    /\ thread = "up"
    /\ pc = "top"
    /\ ~running
    /\ thread' = "exited"
    /\ UNCHANGED <<svc, clients, watchers, running, scheduler, main, loop>>
-----------------------------------------------------------------------------
MainNext == Start \/ StopBegin \/ StopEnd

LoopNext == \E r \in Requests :
                ClientSubmit(r) \/ Watch(r) \/ Unwatch(r) \/ Abort(r)

ThreadNext == \/ StepCalled
              \/ StepReturns
              \/ StepThrows
              \/ Snapshot
              \/ \E r \in Requests : Poll(r) \/ PollThrows(r)
              \/ Deliver
              \/ RoundEnds
              \/ RunReturns

Next == \/ MainNext
        \/ LoopNext
        \/ ThreadNext
        \/ \E r \in Requests : StepMoves(r)

Spec == Init /\ [][Next]_vars

\* The thread runs, and a service that is stepped again and again serves every
\* request (CpuWorker!AcceptedEnds); clients and main() may stop anywhere.
FairSpec == /\ Spec
            /\ WF_vars(ThreadNext)
            /\ \A r \in Requests : SF_vars(StepMoves(r))
-----------------------------------------------------------------------------
(* Properties. *)

\* Once cancel or unwatch has returned, the callback is never called again,
\* whatever the thread had already snapshot or polled: the callback's captures
\* (the HTTP response) may be gone.
SilentAfterCancel ==
    [][\A r \in Requests :
         client[r] \in {"aborted", "unwatched"} =>
            delivered'[r] = delivered[r] /\ ended'[r] = ended[r]]_vars

\* Every token a poll consumed for a client that still listens has reached its
\* callback or is in the event being delivered: none is dropped, none repeated.
InFlight(r) == IF event.id = r THEN event.tokens ELSE 0

NothingLost ==
    \A r \in Requests :
       client[r] = "watching" /\ Known(r) => delivered[r] + InFlight(r) = svc[r].taken

\* The finished event is the last one: it comes with the whole output delivered.
FinishedIsComplete ==
    [][\A r \in Requests :
         ended'[r] /\ ~ended[r] => delivered'[r] = svc[r].produced /\ ~Known(r)']_vars

\* A snapshot id the service no longer knows belongs to a client that went away
\* between the snapshot and its poll: that is the only way poll can throw, and,
\* when step() does not, the only way the dispatcher's thread can end by itself.
OnlyAbortsThrow ==
    /\ \A r \in todo : Known(r) \/ client[r] = "aborted"
    /\ thread = "exited" /\ main = "serving" =>
          StepMayThrow \/ \E r \in Requests : client[r] = "aborted"

\* A request whose client went away does not stay in the service for ever:
\* either cancel released it or its no-op watcher will.
AbortedIsReleased ==
    \A r \in Requests : client[r] = "aborted" ~> ~Known(r) \/ ~running

\* A client that stays gets its finished event, as long as the dispatcher runs.
WatchedEnds ==
    \A r \in Requests : client[r] = "watching" ~>
                           ended[r] \/ client[r] # "watching" \/ ~running

\* The test of the dispatcher: a watched request completes (until main stops it).
WatchedCompletes ==
    \A r \in Requests : client[r] = "watching" ~>
                           ended[r] \/ client[r] # "watching" \/ main # "serving"

\* The test of the dispatcher: once stop() has returned the scheduler is stopped.
StopStops == main = "stopped" => ~scheduler
=============================================================================
