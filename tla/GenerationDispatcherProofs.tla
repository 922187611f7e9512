--------------------- MODULE GenerationDispatcherProofs ---------------------
(***************************************************************************)
(* Theorems of GenerationDispatcher, for every set of requests, every limit  *)
(* of tokens and every set of clients that may go away: no token is lost or  *)
(* repeated, a callback is silent once its client has gone, the finished     *)
(* event is the last, and only a client that goes away can make a poll fail. *)
(***************************************************************************)
EXTENDS GenerationDispatcher, TLAPS

Statuses == Live \cup Terminal \cup Absent

\* What the event loop's thread has done agrees with the map and the service.
Watched ==
    \A r \in Requests :
       /\ watchers[r] = "client" => client[r] = "watching"
       /\ watchers[r] = "noop" => client[r] = "aborted"
       /\ watchers[r] # "none" => Known(r)
       /\ client[r] = "watching" /\ Known(r) => watchers[r] = "client"
       /\ client[r] = "submitted" => Known(r)

\* Nothing was polled or delivered for a request nobody has watched yet.
Untouched ==
    \A r \in Requests : client[r] \in {"new", "submitted"} =>
       delivered[r] = 0 /\ svc[r].taken = 0 /\ r \notin todo /\ event.id # r

\* The event at hand is of a request whose turn is over, and if it is the last
\* there is nothing left to read.
Rounds ==
    /\ pc # "deliver" => event = NoEvent
    /\ pc = "deliver" => event.id \in Requests /\ event.id \notin todo
    /\ pc = "deliver" /\ event.finished /\ Known(event.id) =>
          /\ svc[event.id].status \in Terminal
          /\ svc[event.id].taken = svc[event.id].produced

\* While main() serves, the thread ends by an exception only.
Alive ==
    main = "serving" => thread # "none" /\ (thread = "up" => running)

Inv == TypeOK /\ Watched /\ Untouched /\ Rounds /\ Alive /\ NothingLost /\ OnlyAbortsThrow
-----------------------------------------------------------------------------
(* What the operations of the service do to its requests. *)

Others(r) == \A q \in Requests \ {r} : svc'[q] = svc[q]

LEMMA SubmitChanges ==
    ASSUME ServiceTypeOK, NEW r \in Requests, Submit(r)
    PROVE  /\ ServiceTypeOK' /\ Others(r)
           /\ svc'[r].status = "Live" /\ svc'[r].taken = svc[r].taken
<1> DEFINE n == [svc[r] EXCEPT !.status = "Live"]
<1>1. svc' = [svc EXCEPT ![r] = n]
    BY DEF Submit
<1>2. /\ n \in [status : Statuses, produced : Nat, taken : Nat, cancelled : BOOLEAN]
      /\ n.status = "Live" /\ n.taken = svc[r].taken /\ n.produced = svc[r].produced
    BY DEF ServiceTypeOK, Statuses, Live
<1> HIDE DEF n
<1> QED
    BY <1>1, <1>2 DEF ServiceTypeOK, Others, Statuses

LEMMA PollChanges ==
    ASSUME ServiceTypeOK, NEW r \in Requests, NEW k \in Nat, PollTakes(r, k)
    PROVE  /\ ServiceTypeOK' /\ Others(r) /\ k <= Unread(r)
           /\ svc'[r].status = svc[r].status /\ svc'[r].produced = svc[r].produced
           /\ svc'[r].taken = svc[r].taken + k
<1> DEFINE n == [svc[r] EXCEPT !.taken = svc[r].taken + k]
<1>1. svc' = [svc EXCEPT ![r] = n]
    BY DEF PollTakes, Advance
<1>2. k <= svc[r].produced - svc[r].taken
    BY DEF PollTakes, Unread, ServiceTypeOK
<1>3. /\ n \in [status : Statuses, produced : Nat, taken : Nat, cancelled : BOOLEAN]
      /\ n.status = svc[r].status /\ n.produced = svc[r].produced
      /\ n.taken = svc[r].taken + k /\ n.taken <= n.produced
    BY <1>2 DEF ServiceTypeOK, Statuses
<1> HIDE DEF n
<1> QED
    BY <1>1, <1>2, <1>3 DEF ServiceTypeOK, Others, Statuses, Unread

LEMMA CancelChanges ==
    ASSUME ServiceTypeOK, NEW r \in Requests, CancelAccepted(r)
    PROVE  /\ ServiceTypeOK' /\ Others(r) /\ Known(r)
           /\ svc'[r].status \in Live \cup {"Cancelled"}
           /\ svc'[r].produced = svc[r].produced /\ svc'[r].taken = svc[r].taken
<1>1. PICK s \in Live \cup {"Cancelled"} :
         svc' = [svc EXCEPT ![r].status = s, ![r].cancelled = TRUE]
    BY DEF CancelAccepted
<1> DEFINE n == [svc[r] EXCEPT !.status = s, !.cancelled = TRUE]
<1>2. svc' = [svc EXCEPT ![r] = n]
    BY <1>1 DEF ServiceTypeOK
<1>3. /\ n \in [status : Statuses, produced : Nat, taken : Nat, cancelled : BOOLEAN]
      /\ n.status = s /\ n.taken = svc[r].taken /\ n.produced = svc[r].produced
    BY DEF ServiceTypeOK, Statuses, Live, Terminal
<1>4. Known(r)
    BY DEF CancelAccepted, Known, Live, Absent
<1> HIDE DEF n
<1> QED
    BY <1>2, <1>3, <1>4 DEF ServiceTypeOK, Others, Statuses

LEMMA ReleaseChanges ==
    ASSUME ServiceTypeOK, NEW r \in Requests, Release(r)
    PROVE  /\ ServiceTypeOK' /\ Others(r) /\ ~Known(r)' /\ svc'[r].status = "Released"
<1> DEFINE n == [Fresh EXCEPT !.status = "Released"]
<1>1. svc' = [svc EXCEPT ![r] = n]
    BY DEF Release
<1>2. /\ n \in [status : Statuses, produced : Nat, taken : Nat, cancelled : BOOLEAN]
      /\ n.status = "Released" /\ n.taken = 0 /\ n.produced = 0
    BY DEF Fresh, Statuses, Absent
<1>3. MaxNew[r] \in Nat
    BY ServiceAssumption
<1> HIDE DEF n
<1> QED
    BY <1>1, <1>2, <1>3 DEF ServiceTypeOK, Others, Statuses, Known, Absent

LEMMA MoveChanges ==
    ASSUME ServiceTypeOK, NEW r \in Requests, NEW n \in Moves(r),
           svc' = [svc EXCEPT ![r] = n]
    PROVE  /\ ServiceTypeOK' /\ Others(r) /\ svc[r].status = "Live"
           /\ Known(r)' /\ svc'[r].taken = svc[r].taken
<1>1. n \in Record(r) /\ Move(svc[r], n, MaxNew[r])
    BY DEF Moves
<1>2. /\ n \in [status : Statuses, produced : Nat, taken : Nat, cancelled : BOOLEAN]
      /\ n.produced <= MaxNew[r]
    BY <1>1, ServiceAssumption DEF Record, Statuses
<1>3. n.taken = svc[r].taken /\ svc[r].status = "Live"
    BY <1>1 DEF Move, Live
<1>4. n.produced \in {svc[r].produced, svc[r].produced + 1}
    BY <1>1 DEF Move, Produce, Retire
<1>5. n.status \notin Absent
    BY <1>1 DEF Move, Produce, Retire, Live, Absent
<1>6. n.taken <= n.produced
    BY <1>3, <1>4 DEF ServiceTypeOK
<1> QED
    BY <1>2, <1>3, <1>5, <1>6 DEF ServiceTypeOK, Others, Statuses, Known
-----------------------------------------------------------------------------
LEMMA InitSteady == Init => Inv
<1> SUFFICES ASSUME Init PROVE Inv
    OBVIOUS
<1> USE DEF Init, ServiceInit
<1>1. TypeOK
  <2>1. Fresh \in [status : Statuses, produced : Nat, taken : Nat, cancelled : BOOLEAN]
      BY DEF Fresh, Statuses, Absent
  <2>2. ServiceTypeOK
      BY <2>1, ServiceAssumption DEF ServiceTypeOK, Statuses, Fresh
  <2> QED
      BY <2>2 DEF TypeOK, NoEvent
<1>2. Watched /\ Untouched /\ NothingLost
    BY DispatcherAssumption DEF Watched, Untouched, NothingLost, NoEvent, Fresh
<1>3. Rounds /\ Alive /\ OnlyAbortsThrow
    BY DEF Rounds, Alive, OnlyAbortsThrow
<1> QED
    BY <1>1, <1>2, <1>3 DEF Inv
-----------------------------------------------------------------------------
(* main(). *)

LEMMA MainKeeps == Inv /\ MainNext => Inv'
<1> SUFFICES ASSUME Inv, MainNext PROVE Inv'
    OBVIOUS
<1> USE DEF Inv
<1>1. UNCHANGED <<svc, client, delivered, ended, watchers, pc, todo, event>>
    BY DEF MainNext, Start, StopBegin, StopEnd, clients, loop
<1>2. TypeOK'
  <2>1. ServiceTypeOK'
      BY <1>1 DEF TypeOK, ServiceTypeOK
  <2> QED
      BY <1>1, <2>1, ZenonT(30) DEF TypeOK, MainNext, Start, StopBegin, StopEnd
<1>3. Watched' /\ Untouched' /\ Rounds' /\ NothingLost'
    BY <1>1 DEF Watched, Untouched, Rounds, NothingLost, InFlight, Known
<1>4. Alive' /\ OnlyAbortsThrow'
    BY <1>1 DEF Alive, OnlyAbortsThrow, Known, TypeOK, MainNext, Start, StopBegin, StopEnd
<1> QED
    BY <1>2, <1>3, <1>4
-----------------------------------------------------------------------------
(* The event loop's thread. *)

LEMMA ClientSubmitKeeps == ASSUME Inv, NEW r \in Requests, ClientSubmit(r) PROVE Inv'
<1> USE DEF Inv
<1>1. /\ client[r] = "new" /\ client' = [client EXCEPT ![r] = "submitted"]
      /\ UNCHANGED <<delivered, ended, watchers, running, thread, scheduler, main,
                     pc, todo, event>>
    BY DEF ClientSubmit, life, loop
<1>2. /\ ServiceTypeOK' /\ Others(r)
      /\ svc[r].status = "Unsubmitted"
      /\ svc'[r].status = "Live" /\ svc'[r].taken = svc[r].taken
    BY SubmitChanges DEF ClientSubmit, TypeOK, Submit
<1>3. \A q \in Requests : q = r \/ (client'[q] = client[q] /\ svc'[q] = svc[q])
    BY <1>1, <1>2 DEF Others, TypeOK
<1>4. client'[r] = "submitted" /\ Known(r)' /\ ~Known(r)
    BY <1>1, <1>2 DEF TypeOK, Known, Absent
<1>5. TypeOK'
    BY <1>1, <1>2 DEF TypeOK
<1>6. Watched' /\ Untouched' /\ NothingLost'
    BY <1>1, <1>2, <1>3, <1>4 DEF Watched, Untouched, NothingLost, InFlight, Known
<1>7. Rounds' /\ Alive' /\ OnlyAbortsThrow'
  <2>1. \A q \in Requests : client[q] = "aborted" => client'[q] = "aborted"
      BY <1>1, <1>3
  <2> QED
      BY <1>1, <1>2, <1>3, <1>4, <2>1
         DEF Rounds, Alive, OnlyAbortsThrow, Known, Untouched, TypeOK
<1> QED
    BY <1>5, <1>6, <1>7

\* Watching and unwatching leave the service alone.
LEMMA WatchKeeps ==
    ASSUME Inv, NEW r \in Requests, Watch(r) \/ Unwatch(r) PROVE Inv'
<1> USE DEF Inv
<1>1. UNCHANGED <<svc, delivered, ended, running, thread, scheduler, main, pc, todo, event>>
    BY DEF Watch, Unwatch, life, loop
<1>2. \/ /\ client[r] = "submitted" /\ client' = [client EXCEPT ![r] = "watching"]
         /\ watchers' = [watchers EXCEPT ![r] = "client"]
      \/ /\ client[r] = "watching" /\ client' = [client EXCEPT ![r] = "unwatched"]
         /\ watchers' = [watchers EXCEPT ![r] = "none"]
    BY DEF Watch, Unwatch
<1>3. ServiceTypeOK' /\ \A q \in Requests : Known(q)' <=> Known(q)
    BY <1>1 DEF TypeOK, ServiceTypeOK, Known
<1>4. TypeOK'
    BY <1>1, <1>2, <1>3 DEF TypeOK
<1>5. Watched'
    BY <1>1, <1>2, <1>3 DEF Watched, TypeOK
<1>6. Untouched' /\ NothingLost'
    BY <1>1, <1>2, <1>3 DEF Watched, Untouched, NothingLost, InFlight, TypeOK
<1>7. Rounds' /\ Alive' /\ OnlyAbortsThrow'
  <2>1. \A q \in Requests : client[q] = "aborted" => client'[q] = "aborted"
      BY <1>2 DEF TypeOK
  <2> QED
      BY <1>1, <1>3, <2>1 DEF Rounds, Alive, OnlyAbortsThrow, Known, TypeOK
<1> QED
    BY <1>4, <1>5, <1>6, <1>7

LEMMA AbortKeeps == ASSUME Inv, NEW r \in Requests, Abort(r) PROVE Inv'
<1> USE DEF Inv
<1>1. /\ client[r] = "watching" /\ client' = [client EXCEPT ![r] = "aborted"]
      /\ UNCHANGED <<delivered, ended, running, thread, scheduler, main, pc, todo, event>>
    BY DEF Abort, Cancel, life, loop
<1>2. \/ CancelAccepted(r) /\ watchers' = [watchers EXCEPT ![r] = "noop"]
      \/ /\ CancelRefused(r) /\ watchers' = [watchers EXCEPT ![r] = "none"]
         /\ IF Known(r) THEN Release(r) ELSE UNCHANGED svc
    BY DEF Abort, Cancel
<1>3. /\ ServiceTypeOK' /\ Others(r)
      /\ watchers'[r] = "noop" => Known(r)'
      /\ ~Known(r)' \/ /\ svc[r].status = "Live"
                       /\ svc'[r].produced = svc[r].produced /\ svc'[r].taken = svc[r].taken
  <2>1. CASE CancelAccepted(r)
    <3>1. /\ ServiceTypeOK' /\ Others(r)
          /\ svc'[r].status \in Live \cup {"Cancelled"}
          /\ svc'[r].produced = svc[r].produced /\ svc'[r].taken = svc[r].taken
        BY <2>1, CancelChanges DEF TypeOK
    <3> QED
        BY <2>1, <3>1 DEF CancelAccepted, Known, Live, Absent
  <2>2. CASE /\ CancelRefused(r) /\ watchers' = [watchers EXCEPT ![r] = "none"]
             /\ Known(r) /\ Release(r)
    <3>1. ServiceTypeOK' /\ Others(r) /\ ~Known(r)'
        BY <2>2, ReleaseChanges DEF TypeOK
    <3> QED
        BY <2>2, <3>1 DEF TypeOK
  <2>3. CASE /\ CancelRefused(r) /\ watchers' = [watchers EXCEPT ![r] = "none"]
             /\ ~Known(r) /\ UNCHANGED svc
      BY <2>3 DEF TypeOK, ServiceTypeOK, Others, Known
  <2> QED
      BY <1>2, <2>1, <2>2, <2>3
<1>4. /\ client'[r] = "aborted" /\ watchers'[r] \in {"none", "noop"}
      /\ \A q \in Requests : q = r \/ /\ client'[q] = client[q] /\ watchers'[q] = watchers[q]
                                      /\ svc'[q] = svc[q]
    BY <1>1, <1>2, <1>3 DEF TypeOK, Others
<1>5. TypeOK'
    BY <1>1, <1>2, <1>3 DEF TypeOK
<1>6. Watched' /\ Untouched' /\ NothingLost'
    BY <1>1, <1>3, <1>4 DEF Watched, Untouched, NothingLost, InFlight, Known
<1>7. Rounds'
    BY <1>1, <1>3, <1>4 DEF Rounds, Known, Terminal, Absent
<1>8. Alive' /\ OnlyAbortsThrow'
    BY <1>1, <1>4 DEF Alive, OnlyAbortsThrow, Known, TypeOK
<1> QED
    BY <1>5, <1>6, <1>7, <1>8
-----------------------------------------------------------------------------
(* The dispatcher's thread. *)

\* Actions that move the thread and nothing of the requests or of the round.
LEMMA WalksKeeps ==
    ASSUME Inv,
           \/ StepCalled \/ StepReturns \/ RoundEnds \/ RunReturns
    PROVE  Inv'
<1> USE DEF Inv
<1>1. UNCHANGED <<svc, client, delivered, ended, watchers, todo, event, main, running>>
    BY DEF StepCalled, StepReturns, RoundEnds, RunReturns, clients, life, loop
<1>2. ServiceTypeOK' /\ \A q \in Requests : Known(q)' <=> Known(q)
    BY <1>1 DEF TypeOK, ServiceTypeOK, Known
<1>3. TypeOK' /\ pc # "deliver" /\ pc' # "deliver"
    BY <1>1, <1>2 DEF TypeOK, StepCalled, StepReturns, RoundEnds, RunReturns, life, loop
<1>4. Watched' /\ Untouched' /\ NothingLost' /\ Rounds'
    BY <1>1, <1>2, <1>3 DEF Watched, Untouched, NothingLost, InFlight, Rounds, NoEvent
<1>5. Alive' /\ OnlyAbortsThrow'
    BY <1>1, <1>2 DEF Alive, OnlyAbortsThrow, TypeOK, StepCalled, StepReturns,
                      RoundEnds, RunReturns, life, loop
<1> QED
    BY <1>3, <1>4, <1>5

LEMMA SnapshotKeeps == ASSUME Inv, Snapshot PROVE Inv'
<1> USE DEF Inv
<1>1. /\ pc = "snapshot" /\ pc' = "scan" /\ todo' = {r \in Requests : watchers[r] # "none"}
      /\ UNCHANGED <<svc, client, delivered, ended, watchers, running, thread, scheduler,
                     main, event>>
    BY DEF Snapshot, clients, life
<1>2. ServiceTypeOK' /\ \A q \in Requests : Known(q)' <=> Known(q)
    BY <1>1 DEF TypeOK, ServiceTypeOK, Known
<1>3. \A r \in todo' : Known(r) /\ client[r] \in {"watching", "aborted"}
    BY <1>1 DEF Watched, TypeOK
<1>4. TypeOK' /\ Watched' /\ NothingLost'
    BY <1>1, <1>2 DEF TypeOK, Watched, NothingLost, InFlight
<1>5. Untouched' /\ Rounds' /\ Alive' /\ OnlyAbortsThrow'
    BY <1>1, <1>2, <1>3 DEF Untouched, Rounds, Alive, OnlyAbortsThrow
<1> QED
    BY <1>4, <1>5

LEMMA DeathKeeps ==
    ASSUME Inv, StepThrows \/ \E r \in Requests : PollThrows(r)
    PROVE  Inv'
<1> USE DEF Inv
<1>1. /\ running' = FALSE /\ thread' = "exited" /\ pc' = "top" /\ todo' = {} /\ pc # "deliver"
      /\ UNCHANGED <<svc, client, delivered, ended, watchers, scheduler, main, event>>
    BY DEF StepThrows, PollThrows, Dies, clients
<1>2. ServiceTypeOK' /\ \A q \in Requests : Known(q)' <=> Known(q)
    BY <1>1 DEF TypeOK, ServiceTypeOK, Known
<1>3. StepMayThrow \/ \E r \in Requests : client[r] = "aborted"
    BY DEF StepThrows, PollThrows, OnlyAbortsThrow, TypeOK
<1>4. TypeOK' /\ Watched' /\ Untouched' /\ NothingLost'
    BY <1>1, <1>2 DEF TypeOK, Watched, Untouched, NothingLost, InFlight
<1>5. Rounds' /\ Alive' /\ OnlyAbortsThrow'
    BY <1>1, <1>2, <1>3 DEF Rounds, Alive, OnlyAbortsThrow
<1> QED
    BY <1>4, <1>5

\* A poll reads what is unread, and its event carries it or there was nothing.
LEMMA PollKeeps == ASSUME Inv, NEW r \in Requests, Poll(r) PROVE Inv'
<1> USE DEF Inv
<1> DEFINE k == Unread(r)
           last == FinishedAfter(r, k)
<1>1. /\ pc = "scan" /\ r \in todo /\ Known(r) /\ PollTakes(r, k) /\ todo' = todo \ {r}
      /\ UNCHANGED <<client, delivered, ended, watchers, running, thread, scheduler, main>>
    BY DEF Poll, Polling, Handle, clients, life
<1>2. \/ k = 0 /\ ~last /\ UNCHANGED <<pc, event>>
      \/ event' = [id |-> r, tokens |-> k, finished |-> last] /\ pc' = "deliver"
    BY DEF Poll, Handle
<1>3. /\ ServiceTypeOK' /\ Others(r) /\ k \in Nat
      /\ svc'[r].status = svc[r].status /\ svc'[r].produced = svc[r].produced
      /\ svc'[r].taken = svc[r].taken + k
      /\ last => svc[r].status \in Terminal
      /\ last \in BOOLEAN
      /\ svc'[r].taken = svc'[r].produced
  <2>1. k \in Nat
      BY DEF Unread, TypeOK, ServiceTypeOK
  <2>2. /\ ServiceTypeOK' /\ Others(r)
        /\ svc'[r].status = svc[r].status /\ svc'[r].produced = svc[r].produced
        /\ svc'[r].taken = svc[r].taken + k
      BY <1>1, <2>1, PollChanges DEF TypeOK
  <2> QED
      BY <2>1, <2>2 DEF Unread, FinishedAfter, TypeOK, ServiceTypeOK
<1> HIDE DEF k, last
<1>4. event = NoEvent /\ r # 0 /\ event.id = 0
    BY <1>1, DispatcherAssumption DEF Rounds, NoEvent
<1>5. \A q \in Requests : (Known(q)' <=> Known(q)) /\ (q = r \/ svc'[q] = svc[q])
    BY <1>3 DEF Known, Others
<1>6. TypeOK'
    BY <1>1, <1>2, <1>3 DEF TypeOK
<1>7. Watched'
    BY <1>1, <1>5 DEF Watched
<1>8. client[r] \notin {"new", "submitted"}
    BY <1>1 DEF Untouched
<1>9. CASE k = 0 /\ ~last /\ UNCHANGED <<pc, event>>
  <2>1. Untouched' /\ Rounds'
      BY <1>1, <1>3, <1>5, <1>8, <1>9 DEF Untouched, Rounds
  <2>2. NothingLost'
      BY <1>1, <1>3, <1>4, <1>5, <1>9 DEF NothingLost, InFlight, TypeOK, ServiceTypeOK
  <2>3. Alive' /\ OnlyAbortsThrow'
      BY <1>1, <1>5 DEF Alive, OnlyAbortsThrow, TypeOK
  <2> QED
      BY <1>6, <1>7, <2>1, <2>2, <2>3
<1>10. CASE event' = [id |-> r, tokens |-> k, finished |-> last] /\ pc' = "deliver"
  <2>1. event'.id = r /\ event'.tokens = k /\ event'.finished = last
      BY <1>10
  <2>2. Untouched' /\ Rounds'
      BY <1>1, <1>3, <1>5, <1>8, <1>10, <2>1 DEF Untouched, Rounds
  <2>3. ASSUME NEW q \in Requests, client'[q] = "watching", Known(q)'
        PROVE  delivered'[q] + InFlight(q)' = svc'[q].taken
    <3>1. delivered[q] + 0 = svc[q].taken
        BY <1>1, <1>4, <1>5, <2>3, DispatcherAssumption DEF NothingLost, InFlight
    <3>2. delivered[q] \in Nat
        BY DEF TypeOK
    <3>3. CASE q = r
        BY <1>1, <1>3, <2>1, <3>1, <3>2, <3>3 DEF InFlight
    <3>4. CASE q # r
        BY <1>1, <1>5, <2>1, <3>1, <3>2, <3>4 DEF InFlight
    <3> QED
        BY <3>3, <3>4
  <2>4. NothingLost'
      BY <2>3 DEF NothingLost
  <2>5. Alive' /\ OnlyAbortsThrow'
      BY <1>1, <1>5 DEF Alive, OnlyAbortsThrow, TypeOK
  <2> QED
      BY <1>6, <1>7, <2>2, <2>4, <2>5
<1> QED
    BY <1>2, <1>9, <1>10

\* What Deliver does, in plain terms.
LEMMA DeliverActs ==
    ASSUME Inv, Deliver
    PROVE  LET r    == event.id
               last == watchers[r] # "none" /\ event.finished
           IN  /\ r \in Requests /\ pc = "deliver" /\ pc' = "scan" /\ event' = NoEvent
               /\ UNCHANGED <<client, running, thread, scheduler, main, todo>>
               /\ \A q \in Requests : q = r \/ /\ delivered'[q] = delivered[q]
                                               /\ ended'[q] = ended[q]
                                               /\ watchers'[q] = watchers[q]
                                               /\ svc'[q] = svc[q]
               /\ watchers[r] # "client" => delivered'[r] = delivered[r] /\ ended'[r] = ended[r]
               /\ watchers[r] = "client" => /\ delivered'[r] = delivered[r] + event.tokens
                                            /\ ended'[r] = (ended[r] \/ event.finished)
               /\ ServiceTypeOK'
               /\ ~last => svc' = svc /\ watchers' = watchers
               /\ last => svc'[r].status \in Absent /\ watchers'[r] = "none"
               /\ delivered' \in [Requests -> Nat] /\ ended' \in [Requests -> BOOLEAN]
               /\ watchers' \in [Requests -> {"none", "client", "noop"}]
<1> USE DEF Inv
<1> DEFINE r == event.id
           last == watchers[r] # "none" /\ event.finished
           call == watchers[r] = "client"
<1>1. pc = "deliver" /\ r \in Requests
    BY DEF Deliver, Rounds
<1>2. Hand(r, call, last, last)
    BY DEF Deliver
<1> HIDE DEF r
<1>3. /\ pc' = "scan" /\ event' = NoEvent
      /\ delivered' = [delivered EXCEPT ![r] = @ + (IF call THEN event.tokens ELSE 0)]
      /\ ended' = [ended EXCEPT ![r] = @ \/ (call /\ event.finished)]
      /\ watchers' = [watchers EXCEPT ![r] = IF last THEN "none" ELSE @]
      /\ IF last THEN Release(r) ELSE UNCHANGED svc
      /\ UNCHANGED <<client, running, thread, scheduler, main, todo>>
    BY <1>2 DEF Hand, life
<1>4. /\ event.tokens \in Nat /\ event.finished \in BOOLEAN
      /\ delivered \in [Requests -> Nat] /\ ended \in [Requests -> BOOLEAN]
      /\ watchers \in [Requests -> {"none", "client", "noop"}]
    BY DEF TypeOK
<1>5. ServiceTypeOK' /\ Others(r) /\ (last => svc'[r].status \in Absent)
  <2>1. CASE last
      BY <1>1, <1>3, <2>1, ReleaseChanges DEF TypeOK, Absent
  <2>2. CASE ~last
      BY <1>3, <2>2 DEF TypeOK, ServiceTypeOK, Others
  <2> QED
      BY <2>1, <2>2
<1>6. /\ delivered' \in [Requests -> Nat]
      /\ \A q \in Requests : q = r \/ delivered'[q] = delivered[q]
      /\ ~call => delivered'[r] = delivered[r]
      /\ call => delivered'[r] = delivered[r] + event.tokens
    BY <1>1, <1>3, <1>4
<1>7. /\ ended' \in [Requests -> BOOLEAN]
      /\ \A q \in Requests : q = r \/ ended'[q] = ended[q]
      /\ ~call => ended'[r] = ended[r]
      /\ call => ended'[r] = (ended[r] \/ event.finished)
    BY <1>1, <1>3, <1>4
<1>8. /\ watchers' \in [Requests -> {"none", "client", "noop"}]
      /\ \A q \in Requests : q = r \/ watchers'[q] = watchers[q]
      /\ last => watchers'[r] = "none"
      /\ ~last => watchers' = watchers
    BY <1>1, <1>3, <1>4
<1> QED
    BY <1>1, <1>3, <1>5, <1>6, <1>7, <1>8 DEF Others, r

LEMMA DeliverKeeps == ASSUME Inv, Deliver PROVE Inv'
<1> USE DEF Inv
<1> DEFINE r == event.id
           last == watchers[r] # "none" /\ event.finished
<1>1. /\ r \in Requests /\ pc = "deliver" /\ pc' = "scan" /\ event' = NoEvent
      /\ UNCHANGED <<client, running, thread, scheduler, main, todo>>
      /\ \A q \in Requests : q = r \/ /\ delivered'[q] = delivered[q]
                                      /\ watchers'[q] = watchers[q]
                                      /\ svc'[q] = svc[q]
      /\ watchers[r] = "client" => delivered'[r] = delivered[r] + event.tokens
      /\ ServiceTypeOK'
      /\ ~last => svc' = svc /\ watchers' = watchers
      /\ last => svc'[r].status \in Absent /\ watchers'[r] = "none"
      /\ delivered' \in [Requests -> Nat] /\ ended' \in [Requests -> BOOLEAN]
      /\ watchers' \in [Requests -> {"none", "client", "noop"}]
    BY DeliverActs
<1>2. r \notin todo /\ client[r] \notin {"new", "submitted"} /\ event.tokens \in Nat
    BY <1>1 DEF Rounds, Untouched, TypeOK
<1> HIDE DEF r, last
<1>3. \A q \in Requests : q # r => (Known(q)' <=> Known(q))
    BY <1>1 DEF Known
<1>4. NoEvent \in [id : Requests \cup {0}, tokens : Nat, finished : BOOLEAN]
    BY DEF NoEvent
<1>5. TypeOK'
    BY <1>1, <1>4 DEF TypeOK
<1>6. Watched'
  <2> SUFFICES ASSUME NEW q \in Requests
               PROVE  /\ watchers'[q] = "client" => client[q] = "watching"
                      /\ watchers'[q] = "noop" => client[q] = "aborted"
                      /\ watchers'[q] # "none" => Known(q)'
                      /\ client[q] = "watching" /\ Known(q)' => watchers'[q] = "client"
                      /\ client[q] = "submitted" => Known(q)'
      BY <1>1 DEF Watched
  <2>1. CASE q # r
      BY <1>1, <1>3, <2>1 DEF Watched
  <2>2. CASE q = r /\ ~last
      BY <1>1, <2>2 DEF Watched, Known
  <2>3. CASE q = r /\ last
      BY <1>1, <1>2, <2>3 DEF Known
  <2> QED
      BY <2>1, <2>2, <2>3
<1>7. event'.id = 0 /\ 0 \notin Requests
    BY <1>1, DispatcherAssumption DEF NoEvent
<1>8. Untouched'
    BY <1>1, <1>2, <1>7 DEF Untouched
<1>9. Rounds' /\ Alive' /\ OnlyAbortsThrow'
    BY <1>1, <1>2, <1>3 DEF Rounds, Alive, OnlyAbortsThrow, TypeOK
<1>10. ASSUME NEW q \in Requests, client'[q] = "watching", Known(q)'
       PROVE  delivered'[q] + InFlight(q)' = svc'[q].taken
  <2>1. InFlight(q)' = 0
      BY <1>7 DEF InFlight
  <2>2. CASE q # r
    <3>1. InFlight(q) = 0
        BY <2>2 DEF InFlight, r
    <3> QED
        BY <1>1, <1>3, <1>10, <2>1, <2>2, <3>1 DEF NothingLost
  <2>3. CASE q = r
    <3>1. ~last /\ Known(r)
        BY <1>1, <1>10, <2>3 DEF Known, r, Absent
    <3>2. watchers[r] = "client" /\ InFlight(r) = event.tokens
        BY <1>1, <1>10, <2>3, <3>1 DEF Watched, InFlight, r
    <3>3. delivered[r] + event.tokens = svc[r].taken
        BY <1>1, <1>10, <2>3, <3>1, <3>2 DEF NothingLost
    <3>4. delivered[r] \in Nat
        BY <1>1 DEF TypeOK
    <3> QED
        BY <1>1, <1>2, <2>1, <2>3, <3>1, <3>2, <3>3, <3>4
  <2> QED
      BY <2>2, <2>3
<1>11. NothingLost'
    BY <1>10 DEF NothingLost
<1> QED
    BY <1>5, <1>6, <1>8, <1>9, <1>11

LEMMA MovesKeep == ASSUME Inv, NEW r \in Requests, StepMoves(r) PROVE Inv'
<1> USE DEF Inv
<1>1. /\ pc = "step"
      /\ UNCHANGED <<client, delivered, ended, watchers, running, thread, scheduler, main,
                     pc, todo, event>>
    BY DEF StepMoves, clients, life, loop
<1>2. /\ ServiceTypeOK' /\ Others(r) /\ svc[r].status = "Live"
      /\ Known(r)' /\ svc'[r].taken = svc[r].taken
  <2>1. PICK n \in Moves(r) : svc' = [svc EXCEPT ![r] = n]
      BY DEF StepMoves
  <2> QED
      BY <2>1, MoveChanges DEF TypeOK
<1>3. Known(r) /\ \A q \in Requests : (Known(q)' <=> Known(q)) /\ svc'[q].taken = svc[q].taken
    BY <1>2 DEF Known, Others, Absent
<1>4. TypeOK'
    BY <1>1, <1>2 DEF TypeOK
<1>5. Watched' /\ Untouched' /\ NothingLost'
    BY <1>1, <1>3 DEF Watched, Untouched, NothingLost, InFlight
<1>6. Rounds' /\ Alive' /\ OnlyAbortsThrow'
    BY <1>1, <1>3 DEF Rounds, Alive, OnlyAbortsThrow, TypeOK
<1> QED
    BY <1>4, <1>5, <1>6
-----------------------------------------------------------------------------
LEMMA StepKeepsInv == Inv /\ [Next]_vars => Inv'
<1> SUFFICES ASSUME Inv, [Next]_vars PROVE Inv'
    OBVIOUS
<1>1. CASE MainNext
    BY <1>1, MainKeeps
<1>2. CASE LoopNext
    BY <1>2, ClientSubmitKeeps, WatchKeeps, AbortKeeps DEF LoopNext
<1>3. CASE ThreadNext
    BY <1>3, WalksKeeps, SnapshotKeeps, DeathKeeps, PollKeeps, DeliverKeeps DEF ThreadNext
<1>4. CASE \E r \in Requests : StepMoves(r)
    BY <1>4, MovesKeep
<1>5. CASE UNCHANGED vars
  <2>1. /\ UNCHANGED <<svc, client, delivered, ended, watchers, running, thread, scheduler>>
        /\ UNCHANGED <<main, pc, todo, event>>
      BY <1>5 DEF vars, clients, life, loop
  <2>2. TypeOK'
      BY <2>1 DEF Inv, TypeOK, ServiceTypeOK
  <2>3. Watched' /\ Untouched' /\ NothingLost'
      BY <2>1 DEF Inv, Watched, Untouched, NothingLost, InFlight, Known
  <2>4. Rounds' /\ Alive' /\ OnlyAbortsThrow'
      BY <2>1 DEF Inv, Rounds, Alive, OnlyAbortsThrow, Known
  <2> QED
      BY <2>2, <2>3, <2>4 DEF Inv
<1> QED
    BY <1>1, <1>2, <1>3, <1>4, <1>5 DEF Next

LEMMA InvAlways == Spec => []Inv
<1>1. Init => Inv
    BY InitSteady
<1>2. Inv /\ [Next]_vars => Inv'
    BY StepKeepsInv
<1> QED
    BY <1>1, <1>2, PTL DEF Spec

\* Every variable of the dispatcher keeps its type, and no client reads more tokens
\* than were produced (generation_dispatcher.hpp, inference_service.hpp).
THEOREM DispatcherTypeTheorem == Spec => []TypeOK
<1>1. Inv => TypeOK
    BY DEF Inv
<1> QED
    BY <1>1, InvAlways, PTL

\* dispatch_once: what was polled for a client that still listens has reached its
\* callback or is in the event at hand.
THEOREM NothingLostTheorem == Spec => []NothingLost
<1>1. Inv => NothingLost
    BY DEF Inv
<1> QED
    BY <1>1, InvAlways, PTL

\* run: a poll throws for a client that went away only, and without one, and with a
\* step that does not throw, the thread never ends while main() serves.
THEOREM OnlyAbortsTheorem == Spec => []OnlyAbortsThrow
<1>1. Inv => OnlyAbortsThrow
    BY DEF Inv
<1> QED
    BY <1>1, InvAlways, PTL
-----------------------------------------------------------------------------
\* Only Deliver calls a callback.
LEMMA OnlyDeliverCalls ==
    ASSUME [Next]_vars, ~Deliver
    PROVE  delivered' = delivered /\ ended' = ended
<1>1. CASE MainNext
    BY <1>1 DEF MainNext, Start, StopBegin, StopEnd, clients
<1>2. CASE LoopNext
    BY <1>2 DEF LoopNext, ClientSubmit, Watch, Unwatch, Abort, Cancel
<1>3. CASE ThreadNext
    BY <1>3 DEF ThreadNext, StepCalled, StepReturns, StepThrows, Snapshot, Poll, PollThrows,
                RoundEnds, RunReturns, Handle, Dies, clients
<1>4. CASE \E r \in Requests : StepMoves(r)
    BY <1>4 DEF StepMoves, clients
<1>5. CASE UNCHANGED vars
    BY <1>5 DEF vars, clients
<1> QED
    BY <1>1, <1>2, <1>3, <1>4, <1>5 DEF Next

Silent == \A r \in Requests : client[r] \in {"aborted", "unwatched"} =>
             delivered'[r] = delivered[r] /\ ended'[r] = ended[r]

\* cancel and unwatch: once they have returned, the callback is never called again,
\* whatever the thread had already snapshot or polled.
THEOREM SilentTheorem == Spec => SilentAfterCancel
<1>1. Inv /\ [Next]_vars => [Silent]_vars
  <2> SUFFICES ASSUME Inv, [Next]_vars PROVE Silent
      OBVIOUS
  <2>1. CASE ~Deliver
      BY <2>1, OnlyDeliverCalls DEF Silent
  <2>2. CASE Deliver
    <3>1. /\ event.id \in Requests
          /\ \A q \in Requests : \/ q = event.id
                                 \/ delivered'[q] = delivered[q] /\ ended'[q] = ended[q]
          /\ watchers[event.id] # "client" =>
                delivered'[event.id] = delivered[event.id] /\ ended'[event.id] = ended[event.id]
        BY <2>2, DeliverActs
    <3> QED
        BY <3>1 DEF Silent, Inv, Watched
  <2> QED
      BY <2>1, <2>2
<1>2. [][Silent]_vars <=> SilentAfterCancel
    BY DEF Silent, SilentAfterCancel
<1> QED
    BY <1>1, <1>2, InvAlways, PTL DEF Spec

Complete == \A r \in Requests :
               ended'[r] /\ ~ended[r] => delivered'[r] = svc[r].produced /\ ~Known(r)'

\* dispatch_once: the finished event comes with the last of the output and releases
\* the request.
THEOREM FinishedTheorem == Spec => FinishedIsComplete
<1>1. Inv /\ [Next]_vars => [Complete]_vars
  <2> SUFFICES ASSUME Inv, [Next]_vars PROVE Complete
      OBVIOUS
  <2>1. CASE ~Deliver
      BY <2>1, OnlyDeliverCalls DEF Complete
  <2>2. CASE Deliver
    <3> DEFINE r == event.id
    <3>1. /\ r \in Requests /\ pc = "deliver"
          /\ \A q \in Requests : q = r \/ ended'[q] = ended[q]
          /\ watchers[r] # "client" => ended'[r] = ended[r]
          /\ watchers[r] = "client" => /\ delivered'[r] = delivered[r] + event.tokens
                                       /\ ended'[r] = (ended[r] \/ event.finished)
          /\ watchers[r] # "none" /\ event.finished => svc'[r].status \in Absent
        BY <2>2, DeliverActs
    <3>2. ASSUME watchers[r] = "client", event.finished
          PROVE  delivered[r] + event.tokens = svc[r].produced
      <4>1. client[r] = "watching" /\ Known(r)
          BY <3>1, <3>2 DEF Inv, Watched
      <4>2. delivered[r] + event.tokens = svc[r].taken
          BY <3>1, <4>1 DEF Inv, NothingLost, InFlight
      <4>3. svc[r].taken = svc[r].produced
          BY <3>1, <3>2, <4>1 DEF Inv, Rounds
      <4> QED
          BY <4>2, <4>3
    <3> HIDE DEF r
    <3> QED
        BY <3>1, <3>2 DEF Complete, Known
  <2> QED
      BY <2>1, <2>2
<1>2. [][Complete]_vars <=> FinishedIsComplete
    BY DEF Complete, FinishedIsComplete
<1> QED
    BY <1>1, <1>2, InvAlways, PTL DEF Spec
=============================================================================
