------------------------ MODULE ExpertIoManagerProofs ------------------------
(***************************************************************************)
(* Theorems of ExpertIoManager, for every number of workers, of tasks and   *)
(* every depth of the queue: a task is in one place only, and none waits in *)
(* the queue while all workers sleep.                                      *)
(***************************************************************************)
EXTENDS ExpertIoManager, FiniteSetTheorems, SequenceTheorems, TLAPS

\* The queue holds the queued tasks, each once.
QueueHolds ==
    /\ \A i, j \in 1 .. Len(queue) : queue[i] = queue[j] => i = j
    /\ \A i \in 1 .. Len(queue) : task[queue[i]] = "queued"
    /\ \A t \in Tasks : task[t] = "queued" => \E i \in 1 .. Len(queue) : queue[i] = t

\* The workers that run hold the running tasks, each one.
WorkersHold ==
    /\ \A w \in Workers : item[w] # NoTask <=> worker[w] = "running"
    /\ \A w \in Workers : item[w] # NoTask => task[item[w]] = "running"
    /\ \A t \in Tasks : task[t] = "running" => \E w \in Workers : item[w] = t
    /\ \A v, w \in Workers : item[v] = item[w] /\ item[v] # NoTask => v = w

\* Workers leave once the destructor has begun, and no task is submitted then.
Closing ==
    /\ shutdown <=> owner # "using"
    /\ \A w \in Workers : worker[w] = "exited" => shutdown

Inv == TypeOK /\ QueueHolds /\ WorkersHold /\ Closing /\ NoTaskWaitsAlone
-----------------------------------------------------------------------------
\* notify_one wakes one of those that sleep, if there are any, and changes
\* nothing else.
LEMMA NotifyOneEffect ==
    ASSUME NEW f, NEW asleep, NEW awake, NEW g \in NotifyOne(f, asleep, awake)
    PROVE  \/ g = f /\ \A x \in DOMAIN f : f[x] # asleep
           \/ \E x \in DOMAIN f : f[x] = asleep /\ g = [f EXCEPT ![x] = awake]
<1> DEFINE sleepers == {x \in DOMAIN f : f[x] = asleep}
<1>1. CASE sleepers = {}
    BY <1>1 DEF NotifyOne
<1>2. CASE sleepers # {}
    BY <1>2 DEF NotifyOne
<1>3. QED
    BY <1>1, <1>2

LEMMA QueueFacts ==
    ASSUME TypeOK
    PROVE  /\ queue \in Seq(Tasks) /\ Len(queue) \in Nat
           /\ \A i \in 1 .. Len(queue) : queue[i] \in Tasks
           /\ queue # <<>> => /\ Head(queue) = queue[1] /\ Len(queue) >= 1
                              /\ Tail(queue) \in Seq(Tasks)
                              /\ Len(Tail(queue)) = Len(queue) - 1
                              /\ \A i \in 1 .. Len(queue) - 1 : Tail(queue)[i] = queue[i + 1]
<1>1. queue \in Seq(Tasks)
    BY DEF TypeOK
<1>2. Len(queue) \in Nat /\ \A i \in 1 .. Len(queue) : queue[i] \in Tasks
    BY <1>1, LenProperties, ElementOfSeq
<1>3. ASSUME queue # <<>>
      PROVE  /\ Head(queue) = queue[1] /\ Len(queue) >= 1
             /\ Tail(queue) \in Seq(Tasks)
             /\ Len(Tail(queue)) = Len(queue) - 1
             /\ \A i \in 1 .. Len(queue) - 1 : Tail(queue)[i] = queue[i + 1]
    BY <1>1, <1>2, <1>3, HeadTailProperties, EmptySeq
<1>4. QED
    BY <1>1, <1>2, <1>3

LEMMA InitInv == Init => Inv
<1> SUFFICES ASSUME Init PROVE Inv
    OBVIOUS
<1>1. queue = <<>> /\ Len(queue) = 0 /\ queue \in Seq(Tasks)
    BY EmptySeq DEF Init
<1>2. TypeOK
  <2>1. Len(queue) <= Depth
    BY <1>1, ManagerAssumption
  <2>2. QED
    BY <1>1, <2>1 DEF Init, TypeOK
<1>3. QueueHolds
    BY <1>1 DEF Init, QueueHolds
<1>4. WorkersHold
    BY DEF Init, WorkersHold
<1>5. Closing /\ NoTaskWaitsAlone
    BY <1>1 DEF Init, Closing, NoTaskWaitsAlone
<1>6. QED
    BY <1>2, <1>3, <1>4, <1>5 DEF Inv
-----------------------------------------------------------------------------
(* Each action keeps the invariant. *)

LEMMA PushKeepsInv ==
    ASSUME Inv, NEW t \in Tasks, Push(t)
    PROVE  Inv'
<1>1. /\ TypeOK /\ QueueHolds /\ WorkersHold /\ Closing /\ NoTaskWaitsAlone
    BY DEF Inv
<1>2. /\ owner = "using" /\ MutexFree /\ task[t] \in {"new", "retrying"} /\ Len(queue) < Depth
      /\ queue' = Append(queue, t) /\ task' = [task EXCEPT ![t] = "queued"]
      /\ worker' \in NotifyOne(worker, "asleep", "testing")
      /\ UNCHANGED <<shutdown, owner, item>>
    BY DEF Push, PushAnd, Room
<1>3. /\ queue \in Seq(Tasks) /\ Len(queue) \in Nat
      /\ \A i \in 1 .. Len(queue) : queue[i] \in Tasks
    BY <1>1, QueueFacts
<1>4. /\ queue' \in Seq(Tasks) /\ Len(queue') = Len(queue) + 1
      /\ \A i \in 1 .. Len(queue) : queue'[i] = queue[i]
      /\ queue'[Len(queue) + 1] = t
    BY <1>2, <1>3, AppendProperties
<1>5. \/ worker' = worker /\ \A w \in Workers : worker[w] # "asleep"
      \/ \E w \in Workers : worker[w] = "asleep" /\ worker' = [worker EXCEPT ![w] = "testing"]
    BY <1>1, <1>2, NotifyOneEffect DEF TypeOK
<1>6. TypeOK'
  <2>1. queue' \in Seq(Tasks) /\ Len(queue') <= Depth
    BY <1>2, <1>3, <1>4, ManagerAssumption
  <2>2. worker' \in [Workers -> {"testing", "dozing", "asleep", "running", "exited"}]
    BY <1>1, <1>5 DEF TypeOK
  <2>3. QED
    BY <1>1, <1>2, <2>1, <2>2 DEF TypeOK
<1>7. QueueHolds'
  <2>1. \A i \in 1 .. Len(queue) : queue[i] # t
    BY <1>1, <1>2 DEF QueueHolds
  <2>2. \A q \in Tasks : task'[q] = IF q = t THEN "queued" ELSE task[q]
    BY <1>1, <1>2 DEF TypeOK
  <2>3. \A i \in 1 .. Len(queue') : i \in 1 .. Len(queue) \/ (i = Len(queue) + 1 /\ queue'[i] = t)
    BY <1>3, <1>4
  <2>4. \A i, j \in 1 .. Len(queue') : queue'[i] = queue'[j] => i = j
    BY <1>1, <1>4, <2>1, <2>3 DEF QueueHolds
  <2>5. \A i \in 1 .. Len(queue') : task'[queue'[i]] = "queued"
    BY <1>1, <1>3, <1>4, <2>2, <2>3 DEF QueueHolds
  <2>6. ASSUME NEW q \in Tasks, task'[q] = "queued"
        PROVE  \E i \in 1 .. Len(queue') : queue'[i] = q
    <3>1. CASE q = t
      <4>1. Len(queue) + 1 \in 1 .. Len(queue')
        BY <1>3, <1>4
      <4>2. QED
        BY <1>4, <3>1, <4>1
    <3>2. CASE q # t
      <4>1. PICK i \in 1 .. Len(queue) : queue[i] = q
        BY <1>1, <2>2, <2>6, <3>2 DEF QueueHolds
      <4>2. i \in 1 .. Len(queue') /\ queue'[i] = q
        BY <1>3, <1>4, <4>1
      <4>3. QED
        BY <4>2
    <3>3. QED
      BY <3>1, <3>2
  <2>7. QED
    BY <2>4, <2>5, <2>6 DEF QueueHolds
<1>8. WorkersHold'
  <2>1. \A q \in Tasks : task'[q] = IF q = t THEN "queued" ELSE task[q]
    BY <1>1, <1>2 DEF TypeOK
  <2>2. \A w \in Workers : worker'[w] = "running" <=> worker[w] = "running"
    BY <1>1, <1>5 DEF TypeOK
  <2>3. \A w \in Workers : item[w] # NoTask => item[w] \in Tasks
    BY <1>1 DEF TypeOK
  <2>4. QED
    BY <1>1, <1>2, <2>1, <2>2, <2>3 DEF WorkersHold
<1>9. Closing'
    BY <1>1, <1>2, <1>5 DEF Closing, TypeOK
<1>10. NoTaskWaitsAlone'
  <2>1. \A w \in Workers : worker[w] \in {"testing", "asleep", "running"}
    BY <1>1, <1>2 DEF MutexFree, Closing, TypeOK
  <2>2. \E w \in Workers : worker'[w] \in {"testing", "running"}
    BY <1>1, <1>5, <2>1, ManagerAssumption DEF TypeOK
  <2>3. QED
    BY <2>2 DEF NoTaskWaitsAlone
<1>11. QED
    BY <1>6, <1>7, <1>8, <1>9, <1>10 DEF Inv

LEMMA PopKeepsInv ==
    ASSUME Inv, NEW w \in Workers, Pop(w)
    PROVE  Inv'
<1>1. /\ TypeOK /\ QueueHolds /\ WorkersHold /\ Closing /\ NoTaskWaitsAlone
    BY DEF Inv
<1> DEFINE t == Head(queue)
<1>2. /\ worker[w] = "testing" /\ queue # <<>> /\ queue' = Tail(queue)
      /\ item' = [item EXCEPT ![w] = t] /\ worker' = [worker EXCEPT ![w] = "running"]
      /\ task' \in NotifyOne(Started, "blocked", "retrying")
      /\ UNCHANGED <<shutdown, owner>>
    BY DEF Pop, PopAnd, LetIn
<1>3. /\ queue \in Seq(Tasks) /\ Len(queue) \in Nat /\ Len(queue) >= 1 /\ t = queue[1]
      /\ \A i \in 1 .. Len(queue) : queue[i] \in Tasks
      /\ queue' \in Seq(Tasks) /\ Len(queue') = Len(queue) - 1
      /\ \A i \in 1 .. Len(queue) - 1 : queue'[i] = queue[i + 1]
    BY <1>1, <1>2, QueueFacts
<1>4. t \in Tasks /\ task[t] = "queued"
    BY <1>1, <1>3 DEF QueueHolds
<1> HIDE DEF t
<1>5. Started = [task EXCEPT ![t] = "running"]
    BY DEF Started, t
<1>6. /\ \A q \in Tasks : Started[q] = IF q = t THEN "running" ELSE task[q]
      /\ DOMAIN Started = Tasks
    BY <1>1, <1>5 DEF TypeOK
<1>7. \/ task' = Started
      \/ \E q \in Tasks : Started[q] = "blocked" /\ task' = [Started EXCEPT ![q] = "retrying"]
    BY <1>2, <1>6, NotifyOneEffect
<1>8. task' \in [Tasks -> {"new", "blocked", "retrying", "queued", "running", "value", "exception"}]
    BY <1>1, <1>5, <1>7 DEF TypeOK
<1>9. \A q \in Tasks :
         /\ task'[q] = "queued" <=> (task[q] = "queued" /\ q # t)
         /\ task'[q] = "running" <=> (task[q] = "running" \/ q = t)
    BY <1>6, <1>7
<1>10. TypeOK'
  <2>1. Len(queue') <= Depth
    BY <1>1, <1>3, ManagerAssumption DEF TypeOK
  <2>2. QED
    BY <1>1, <1>2, <1>3, <1>4, <1>8, <2>1 DEF TypeOK
<1>11. QueueHolds'
  <2>1. \A i \in 1 .. Len(queue') : i + 1 \in 1 .. Len(queue) /\ queue'[i] = queue[i + 1] /\ i + 1 # 1
    BY <1>3
  <2>2. \A i \in 1 .. Len(queue') : queue'[i] # t
    BY <1>1, <1>3, <2>1 DEF QueueHolds
  <2>3. ASSUME NEW i \in 1 .. Len(queue'), NEW j \in 1 .. Len(queue'), queue'[i] = queue'[j]
        PROVE  i = j
    <3>1. i + 1 = j + 1
      BY <1>1, <2>1, <2>3 DEF QueueHolds
    <3>2. QED
      BY <1>3, <3>1
  <2>4. ASSUME NEW i \in 1 .. Len(queue') PROVE task'[queue'[i]] = "queued"
    <3> DEFINE q == queue[i + 1]
    <3>1. q \in Tasks /\ task[q] = "queued" /\ queue'[i] = q
      BY <1>1, <1>3, <2>1 DEF QueueHolds
    <3>2. q # t
      BY <2>2, <3>1
    <3> HIDE DEF q
    <3>3. QED
      BY <1>9, <3>1, <3>2
  <2>5. ASSUME NEW q \in Tasks, task'[q] = "queued"
        PROVE  \E i \in 1 .. Len(queue') : queue'[i] = q
    <3>1. PICK k \in 1 .. Len(queue) : queue[k] = q
      BY <1>1, <1>9, <2>5 DEF QueueHolds
    <3>2. k # 1
      BY <1>3, <1>9, <2>5, <3>1
    <3>3. k - 1 \in 1 .. Len(queue') /\ queue'[k - 1] = queue[(k - 1) + 1] /\ (k - 1) + 1 = k
      BY <1>3, <3>1, <3>2
    <3>4. QED
      BY <3>1, <3>3
  <2>6. QED
    BY <2>3, <2>4, <2>5 DEF QueueHolds
<1>12. WorkersHold'
  <2>1. \A v \in Workers : /\ item'[v] = IF v = w THEN t ELSE item[v]
                           /\ worker'[v] = IF v = w THEN "running" ELSE worker[v]
    BY <1>1, <1>2 DEF TypeOK, t
  <2>2. t # NoTask /\ \A v \in Workers : item[v] # t
    BY <1>1, <1>4, ManagerAssumption DEF WorkersHold
  <2>3. \A v \in Workers : item[v] # NoTask => item[v] \in Tasks
    BY <1>1 DEF TypeOK
  <2>4. item[w] = NoTask
    BY <1>1, <1>2 DEF WorkersHold
  <2>5. \A q \in Tasks : task'[q] = "running" => \E v \in Workers : item'[v] = q
    <3>1. SUFFICES ASSUME NEW q \in Tasks, task'[q] = "running", q # t
                   PROVE  \E v \in Workers : item'[v] = q
      BY <2>1
    <3>2. PICK v \in Workers : item[v] = q
      BY <1>1, <1>9, <3>1 DEF WorkersHold
    <3>3. v # w
      BY <2>4, <3>1, <3>2, ManagerAssumption
    <3>4. QED
      BY <2>1, <3>2, <3>3
  <2>6. QED
    BY <1>1, <1>9, <1>4, <2>1, <2>2, <2>3, <2>5 DEF WorkersHold
<1>13. Closing'
    BY <1>1, <1>2 DEF Closing, TypeOK
<1>14. NoTaskWaitsAlone'
    BY <1>1, <1>2 DEF NoTaskWaitsAlone, TypeOK
<1>15. QED
    BY <1>10, <1>11, <1>12, <1>13, <1>14 DEF Inv

LEMMA RunKeepsInv ==
    ASSUME Inv, NEW w \in Workers, Run(w)
    PROVE  Inv'
<1>1. /\ TypeOK /\ QueueHolds /\ WorkersHold /\ Closing /\ NoTaskWaitsAlone
    BY DEF Inv
<1>2. PICK outcome \in {"value", "exception"} : task' = [task EXCEPT ![item[w]] = outcome]
    BY DEF Run
<1>3. /\ worker[w] = "running" /\ worker' = [worker EXCEPT ![w] = "testing"]
      /\ item' = [item EXCEPT ![w] = NoTask]
      /\ UNCHANGED <<queue, shutdown, owner>>
    BY DEF Run
<1> DEFINE t == item[w]
<1>4. t \in Tasks /\ task[t] = "running" /\ t # NoTask
    BY <1>1, <1>3 DEF WorkersHold, TypeOK
<1>5. \A q \in Tasks : task'[q] = IF q = t THEN outcome ELSE task[q]
    BY <1>1, <1>2 DEF TypeOK
<1>6. \A v \in Workers : /\ item'[v] = IF v = w THEN NoTask ELSE item[v]
                         /\ worker'[v] = IF v = w THEN "testing" ELSE worker[v]
    BY <1>1, <1>3 DEF TypeOK
<1>7. \A v \in Workers : item[v] # NoTask => item[v] \in Tasks
    BY <1>1 DEF TypeOK
<1>8. \A v \in Workers \ {w} : item[v] # t
    BY <1>1, <1>4 DEF WorkersHold
<1>9. \A i \in 1 .. Len(queue) : queue[i] \in Tasks
    BY <1>1, QueueFacts
<1>10. TypeOK'
    BY <1>1, <1>2, <1>3 DEF TypeOK
<1> HIDE DEF t
<1>11. QueueHolds'
    BY <1>1, <1>3, <1>4, <1>5, <1>9 DEF QueueHolds
<1>12. WorkersHold'
    BY <1>1, <1>4, <1>5, <1>6, <1>7, <1>8 DEF WorkersHold
<1>13. Closing' /\ NoTaskWaitsAlone'
    BY <1>1, <1>3, <1>6 DEF Closing, NoTaskWaitsAlone
<1>14. QED
    BY <1>10, <1>11, <1>12, <1>13 DEF Inv

\* The other steps of workers move one of them and nothing else.
LEMMA WaitKeepsInv ==
    ASSUME Inv, NEW w \in Workers, Exit(w) \/ Doze(w) \/ Sleep(w)
    PROVE  Inv'
<1>1. /\ TypeOK /\ QueueHolds /\ WorkersHold /\ Closing /\ NoTaskWaitsAlone
    BY DEF Inv
<1>2. /\ UNCHANGED <<queue, shutdown, owner, item, task>>
      /\ \/ /\ worker[w] = "testing" /\ queue = <<>>
            /\ \/ shutdown /\ worker' = [worker EXCEPT ![w] = "exited"]
               \/ worker' = [worker EXCEPT ![w] = "dozing"]
         \/ worker[w] = "dozing" /\ worker' = [worker EXCEPT ![w] = "asleep"]
    BY DEF Exit, ExitIf, Doze, Sleep
<1>3. TypeOK' /\ QueueHolds'
    BY <1>1, <1>2 DEF TypeOK, QueueHolds
<1>4. WorkersHold' /\ Closing'
    BY <1>1, <1>2 DEF TypeOK, WorkersHold, Closing
<1>5. NoTaskWaitsAlone'
    BY <1>1, <1>2 DEF TypeOK, NoTaskWaitsAlone
<1>6. QED
    BY <1>3, <1>4, <1>5 DEF Inv

LEMMA BlockKeepsInv ==
    ASSUME Inv, NEW t \in Tasks, Block(t)
    PROVE  Inv'
<1>1. /\ TypeOK /\ QueueHolds /\ WorkersHold /\ Closing /\ NoTaskWaitsAlone
    BY DEF Inv
<1>2. /\ task[t] \in {"new", "retrying"} /\ task' = [task EXCEPT ![t] = "blocked"]
      /\ UNCHANGED <<queue, shutdown, owner, worker, item>>
    BY DEF Block
<1>3. \A i \in 1 .. Len(queue) : queue[i] \in Tasks
    BY <1>1, QueueFacts
<1>4. \A v \in Workers : item[v] # NoTask => item[v] \in Tasks
    BY <1>1 DEF TypeOK
<1>5. TypeOK' /\ Closing' /\ NoTaskWaitsAlone'
    BY <1>1, <1>2 DEF TypeOK, Closing, NoTaskWaitsAlone
<1>6. QueueHolds' /\ WorkersHold'
    BY <1>1, <1>2, <1>3, <1>4 DEF TypeOK, QueueHolds, WorkersHold
<1>7. QED
    BY <1>5, <1>6 DEF Inv

LEMMA CloseKeepsInv ==
    ASSUME Inv, Shutdown \/ NotifyAll \/ Join
    PROVE  Inv'
<1>1. /\ TypeOK /\ QueueHolds /\ WorkersHold /\ Closing /\ NoTaskWaitsAlone
    BY DEF Inv
<1>2. UNCHANGED <<queue, item, task>>
    BY DEF Shutdown, NotifyAll, Notify, Join
<1>3. /\ worker' \in [Workers -> {"testing", "dozing", "asleep", "running", "exited"}]
      /\ \A w \in Workers : \/ worker'[w] = worker[w]
                            \/ worker[w] = "asleep" /\ worker'[w] = "testing"
    BY <1>1 DEF Shutdown, NotifyAll, Notify, Join, TypeOK
<1>4. shutdown' \in BOOLEAN /\ (shutdown' <=> owner' # "using") /\ (shutdown => shutdown')
      /\ owner' \in {"using", "notifying", "joining", "gone"}
    BY <1>1 DEF Shutdown, NotifyAll, Notify, Join, TypeOK, Closing
<1>5. TypeOK' /\ QueueHolds'
    BY <1>1, <1>2, <1>3, <1>4 DEF TypeOK, QueueHolds
<1>6. WorkersHold' /\ Closing' /\ NoTaskWaitsAlone'
    BY <1>1, <1>2, <1>3, <1>4 DEF WorkersHold, Closing, NoTaskWaitsAlone
<1>7. QED
    BY <1>5, <1>6 DEF Inv

LEMMA StepKeepsInv == Inv /\ [Next]_vars => Inv'
<1> SUFFICES ASSUME Inv, [Next]_vars PROVE Inv'
    OBVIOUS
<1>1. CASE UNCHANGED vars
    BY <1>1 DEF vars, Inv, TypeOK, QueueHolds, WorkersHold, Closing, NoTaskWaitsAlone
<1>2. ASSUME NEW t \in Tasks, Submit(t) PROVE Inv'
    BY <1>2, PushKeepsInv, BlockKeepsInv DEF Submit
<1>3. ASSUME NEW w \in Workers, Works(w) PROVE Inv'
    BY <1>3, PopKeepsInv, RunKeepsInv, WaitKeepsInv DEF Works
<1>4. QED
    BY <1>1, <1>2, <1>3, CloseKeepsInv DEF Next

LEMMA InvAlways == Spec => []Inv
BY InitInv, StepKeepsInv, PTL DEF Spec
-----------------------------------------------------------------------------
\* The queue of tasks never outgrows its depth, although a submit that was woken up
\* may find its place taken, and every other variable has its type.
THEOREM TypeTheorem == Spec => []TypeOK
<1>1. Inv => TypeOK
    BY DEF Inv
<1>2. QED
    BY <1>1, InvAlways, PTL

\* With a task in the queue some worker is up: no notification that the queue is
\* not empty is lost between a worker's test and its sleep.
THEOREM AwakeTheorem == Spec => []NoTaskWaitsAlone
<1>1. Inv => NoTaskWaitsAlone
    BY DEF Inv
<1>2. QED
    BY <1>1, InvAlways, PTL

\* A queued task is in the queue once, a running one with one worker, any other
\* nowhere: no accepted task is dropped, forgotten or run twice.
THEOREM HandedTheorem == Spec => []HandedOnce
<1>1. Inv => HandedOnce
  <2>1. SUFFICES ASSUME Inv, NEW t \in Tasks
                 PROVE  /\ Cardinality({k \in DOMAIN queue : queue[k] = t})
                              = IF task[t] = "queued" THEN 1 ELSE 0
                        /\ Cardinality({w \in Workers : item[w] = t})
                              = IF task[t] = "running" THEN 1 ELSE 0
    BY DEF HandedOnce
  <2>2. QueueHolds /\ WorkersHold /\ DOMAIN queue = 1 .. Len(queue)
    BY <2>1, LenProperties DEF Inv, TypeOK
  <2>3. t # NoTask
    BY ManagerAssumption
  <2> DEFINE places == {k \in DOMAIN queue : queue[k] = t}
             holders == {w \in Workers : item[w] = t}
  <2>4. IF task[t] = "queued" THEN \E k : places = {k} ELSE places = {}
    <3>1. ASSUME task[t] = "queued"
          PROVE  \E k : places = {k}
      <4>1. PICK k \in 1 .. Len(queue) : queue[k] = t
        BY <2>2, <3>1 DEF QueueHolds
      <4>2. \A j \in 1 .. Len(queue) : queue[j] = t => j = k
        BY <2>2, <4>1 DEF QueueHolds
      <4>3. places = {k}
        BY <2>2, <4>1, <4>2
      <4>4. QED
        BY <4>3
    <3>2. ASSUME task[t] # "queued"
          PROVE  places = {}
      BY <2>2, <3>2 DEF QueueHolds
    <3>3. QED
      BY <3>1, <3>2
  <2>5. IF task[t] = "running" THEN \E w : holders = {w} ELSE holders = {}
    BY <2>2, <2>3 DEF WorkersHold
  <2> HIDE DEF places, holders
  <2>6. Cardinality(places) = IF task[t] = "queued" THEN 1 ELSE 0
    BY <2>4, FS_Singleton, FS_EmptySet
  <2>7. Cardinality(holders) = IF task[t] = "running" THEN 1 ELSE 0
    BY <2>5, FS_Singleton, FS_EmptySet
  <2>8. QED
    BY <2>6, <2>7 DEF places, holders
<1>2. QED
    BY <1>1, InvAlways, PTL
=============================================================================
