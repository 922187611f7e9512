------------------------- MODULE CpuThreadPoolProofs -------------------------
(***************************************************************************)
(* Theorems of CpuThreadPool, for every number of workers and every sequence *)
(* of calls: a worker is never left behind in a call that has returned, the  *)
(* count of workers never runs out, and every index is run exactly once.     *)
(***************************************************************************)
EXTENDS CpuThreadPool, FiniteSetTheorems, TLAPS

Places == {"idle", "notify", "claim", "run", "await", "asleep", "waiting",
           "finish", "exited", "terminated", "stop", "join", "gone"}
Busy   == {"claim", "run", "finish"}
Work   == [task : 0 .. Len(Loops), end : Nat, grain : Nat \ {0}]

Shape ==
    /\ stopping \in BOOLEAN
    /\ generation \in Nat
    /\ shared \in Work
    /\ next \in Nat
    /\ pending \in Nat
    /\ pc \in [Threads -> Places]
    /\ observed \in [Workers -> Nat]
    /\ mine \in [Threads -> Work]
    /\ chunk \in [Threads -> [first : Nat, last : Nat]]
    /\ call \in 0 .. Len(Loops)
    /\ ran \in [Indices -> Nat]

\* Who can be where; no worker is at "terminated".
Control ==
    /\ pc[Caller] \in {"idle", "notify", "claim", "run", "await", "asleep",
                       "stop", "join", "gone"}
    /\ stopping <=> pc[Caller] \in {"stop", "join", "gone"}
    /\ \A w \in Workers :
        /\ pc[w] \in {"waiting", "asleep", "claim", "run", "finish", "exited"}
        /\ pc[w] = "exited" => stopping
        /\ observed[w] <= generation

\* A thread that runs chunks works on the loop that is published.
Current ==
    /\ \A w \in Workers : pc[w] \in Busy =>
        InCall /\ observed[w] = generation /\ mine[w] = shared
    /\ InCall => shared.task = call
    /\ pc[Caller] \in {"notify", "claim", "run"} => mine[Caller] = shared

\* The workers that still have to count themselves done.
Owes(w) ==
    \/ pc[w] \in Busy
    \/ ~stopping /\ pc[w] \in {"waiting", "asleep"} /\ observed[w] # generation
Owing == {w \in Workers : Owes(w)}

Counted ==
    /\ pending = Cardinality(Owing)
    /\ ~InCall => pending = 0

Steady == Shape /\ Control /\ Current /\ Counted
-----------------------------------------------------------------------------
LEMMA OwingIsFinite == IsFiniteSet(Owing)
    BY PoolAssumption, FS_Subset DEF Owing

\* While a worker owes, the count is not zero.
LEMMA SomebodyOwes ==
    ASSUME Steady, NEW w \in Workers, Owes(w)
    PROVE  pending > 0
<1>1. w \in Owing
    BY DEF Owing
<1>2. Cardinality(Owing) # 0
    BY <1>1, OwingIsFinite, FS_EmptySet
<1>3. QED
    BY <1>2 DEF Steady, Counted, Shape

LEMMA CallerIsNoWorker == Caller \in Threads /\ Caller \notin Workers /\ Workers \subseteq Threads
    BY PoolAssumption DEF Threads

\* The records of the calls are what their type says.
LEMMA LoopsTyped ==
    ASSUME NEW k \in 1 .. Len(Loops)
    PROVE  /\ Loops[k].begin \in Nat /\ Loops[k].end \in Nat
           /\ Grain(Loops[k]) \in Nat \ {0}
<1> DEFINE Calls == [begin : Nat, end : Nat, grain : Nat]
<1>1. Loops \in Seq(Calls)
    BY PoolAssumption
<1>2. ASSUME NEW S, Loops \in Seq(S)
      PROVE  Loops[k] \in S
    BY <1>2
<1>3. Loops[k] \in Calls
    BY <1>1, <1>2
<1>4. QED
    BY <1>3 DEF Grain

LEMMA LenIsNat == Len(Loops) \in Nat
    BY PoolAssumption

LEMMA SmallerOfTwo ==
    ASSUME NEW a \in Nat, NEW b \in Nat
    PROVE  /\ Min({a, b}) \in Nat /\ Min({a, b}) <= a /\ Min({a, b}) <= b
           /\ Min({a, b}) = a \/ Min({a, b}) = b
<1>1. \E x \in {a, b} : \A y \in {a, b} : x <= y
    OBVIOUS
<1>2. Min({a, b}) \in {a, b} /\ \A y \in {a, b} : Min({a, b}) <= y
    BY <1>1 DEF Min
<1>3. QED
    BY <1>2

\* A notification moves sleepers to the test of their predicate, and nobody else.
LEMMA WokenMoves ==
    ASSUME Shape, NEW ts
    PROVE  /\ Woken(ts) \in [Threads -> Places]
           /\ \A w \in Workers : Woken(ts)[w] =
                  IF w \in ts /\ pc[w] = "asleep" THEN "waiting" ELSE pc[w]
           /\ Woken(ts)[Caller] =
                  IF Caller \in ts /\ pc[Caller] = "asleep" THEN "await" ELSE pc[Caller]
    BY CallerIsNoWorker DEF Woken, Shape, Places
-----------------------------------------------------------------------------
LEMMA InitSteady == Init => Steady
<1>1. SUFFICES ASSUME Init PROVE Steady
    OBVIOUS
<1>2. NoTask \in Work /\ NoChunk \in [first : Nat, last : Nat]
    BY LenIsNat DEF NoTask, NoChunk, Work
<1>3. Shape
  <2>1. pc \in [Threads -> Places]
      BY <1>1 DEF Init, Places
  <2>2. chunk \in [Threads -> [first : Nat, last : Nat]] /\ mine \in [Threads -> Work]
      BY <1>1, <1>2 DEF Init
  <2>3. ran \in [Indices -> Nat] /\ observed \in [Workers -> Nat]
      BY <1>1 DEF Init, NotRun
  <2>4. call \in 0 .. Len(Loops)
      BY <1>1, LenIsNat DEF Init
  <2>5. QED
      BY <1>1, <1>2, <2>1, <2>2, <2>3, <2>4 DEF Init, Shape
<1>4. Control /\ Current /\ ~InCall
    BY <1>1, CallerIsNoWorker DEF Init, Control, Current, Busy, InCall
<1>5. Owing = {}
    BY <1>1, CallerIsNoWorker DEF Init, Owing, Owes, Busy
<1>6. QED
    BY <1>1, <1>3, <1>4, <1>5, FS_EmptySet DEF Init, Steady, Counted

LEMMA StepKeepsShape ==
    ASSUME Steady, [Next]_vars
    PROVE  Shape'
<1> USE CallerIsNoWorker, LenIsNat DEF Steady, Shape, Go
<1>1. CASE RunSerially
    BY <1>1 DEF RunSerially, published, locals
<1>2. CASE Publish
  <2>1. call + 1 \in 1 .. Len(Loops)
      BY <1>2 DEF Publish, PublishFor
  <2>2. shared' \in Work /\ next' \in Nat
      BY <1>2, <2>1, LoopsTyped, SMTT(20) DEF Publish, PublishFor, Work
  <2>3. mine' \in [Threads -> Work]
      BY <1>2, <2>2 DEF Publish, PublishFor
  <2>4. Cardinality(Workers) \in Nat
      BY PoolAssumption, FS_CardinalityType
  <2>5. pc' \in [Threads -> Places] /\ ran' \in [Indices -> Nat]
      BY <1>2 DEF Publish, PublishFor, Places, NotRun
  <2>6. QED
      BY <1>2, <2>1, <2>2, <2>3, <2>4, <2>5 DEF Publish, PublishFor
<1>3. CASE NotifyWork
    BY <1>3, WokenMoves DEF NotifyWork, published, locals, Places
<1>4. CASE Await
  <2>1. shared' \in Work
    <3>1. CASE pending = 0
      <4>1. shared' = [shared EXCEPT !.task = 0]
          BY <1>4, <3>1 DEF Await
      <4>2. 0 \in 0 .. Len(Loops)
          OBVIOUS
      <4>3. QED
          BY <4>1, <4>2 DEF Work
    <3>2. CASE pending # 0
        BY <1>4, <3>2 DEF Await
    <3>3. QED
        BY <3>1, <3>2
  <2>2. pc' \in [Threads -> Places]
      BY <1>4 DEF Await, Places
  <2>3. QED
      BY <1>4, <2>1, <2>2 DEF Await, locals
<1>5. CASE NotifyStop
    BY <1>5, WokenMoves DEF NotifyStop, NotifyStopTo, published, locals, Places
<1>6. CASE Join
    BY <1>6 DEF Join, published, locals, Places
<1>7. CASE Stop
  <2>1. pc' \in [Threads -> Places] /\ generation' \in Nat
      BY <1>7 DEF Stop, Places
  <2>2. QED
      BY <1>7, <2>1 DEF Stop, locals
<1>8. ASSUME NEW w \in Workers, Wait(w)
      PROVE  Shape'
  <2>1. pc' \in [Threads -> Places]
      BY <1>8 DEF Wait, Places
  <2>2. observed' \in [Workers -> Nat]
      BY <1>8 DEF Wait, Observe, locals
  <2>3. mine' \in [Threads -> Work]
      BY <1>8 DEF Wait, locals
  <2>4. QED
      BY <1>8, <2>1, <2>2, <2>3 DEF Wait, published
<1>9. ASSUME NEW w \in Workers, Finish(w)
      PROVE  Shape'
  <2>1. LastWakes \in [Threads -> Places]
      BY WokenMoves DEF LastWakes
  <2>2. pc' \in [Threads -> Places]
      BY <1>9, <2>1 DEF Finish, Places
  <2>3. pending' \in Nat
      BY <1>9 DEF Finish
  <2>4. QED
      BY <1>9, <2>2, <2>3 DEF Finish, published, locals
<1>10. ASSUME NEW t \in Threads, Claim(t)
       PROVE  Shape'
  <2>1. mine[t].grain \in Nat /\ mine[t].end \in Nat
      BY DEF Work
  <2> DEFINE top   == mine[t].end
  <2> DEFINE bound == next + mine[t].grain
  <2> DEFINE last  == Min({top, bound})
  <2>2. next' \in Nat
      BY <1>10, <2>1 DEF Claim, ClaimBy
  <2>6. last \in Nat
    <3>1. top \in Nat /\ bound \in Nat
        BY <2>1
    <3> HIDE DEF top, bound
    <3>2. QED
        BY <3>1, SmallerOfTwo
  <2>3. chunk' \in [Threads -> [first : Nat, last : Nat]]
    <3>1. \/ chunk' = chunk
          \/ chunk' = [chunk EXCEPT ![t] = [first |-> next, last |-> last]]
        BY <1>10 DEF Claim, ClaimBy
    <3> HIDE DEF last
    <3>2. [first |-> next, last |-> last] \in [first : Nat, last : Nat]
        BY <2>6
    <3>3. QED
        BY <3>1, <3>2
  <2>4. pc' \in [Threads -> Places]
      BY <1>10 DEF Claim, ClaimBy, Places
  <2>5. QED
      BY <1>10, <2>2, <2>3, <2>4 DEF Claim, ClaimBy, published, locals
<1>11. ASSUME NEW t \in Threads, RunChunk(t)
       PROVE  Shape'
  <2>1. pc' \in [Threads -> Places]
      BY <1>11 DEF RunChunk, Places
  <2>2. ran' \in [Indices -> Nat]
      BY <1>11 DEF RunChunk
  <2>3. QED
      BY <1>11, <2>1, <2>2 DEF RunChunk, published, locals
<1>12. ASSUME NEW t \in Threads, WakesUp(t)
       PROVE  Shape'
    BY <1>12, WokenMoves DEF WakesUp, published, locals
<1>13. CASE UNCHANGED vars
    BY <1>13 DEF vars, published, locals
<1>14. QED
    BY <1>1, <1>2, <1>3, <1>4, <1>5, <1>6, <1>7, <1>8, <1>9, <1>10, <1>11, <1>12, <1>13
    DEF Next, CallerWorks, WorkerWorks, Steps
-----------------------------------------------------------------------------
\* With nobody pending no worker is in a loop; this is when a call returns and
\* when the next one, or the end, is published.
LEMMA NobodyIsBusy ==
    ASSUME Steady, pending = 0, NEW w \in Workers
    PROVE  pc[w] \notin Busy /\ (~stopping => pc[w] \in {"waiting", "asleep"}
                                              /\ observed[w] = generation)
<1>1. ~Owes(w)
    BY SomebodyOwes DEF Steady, Shape
<1>2. QED
    BY <1>1 DEF Owes, Steady, Control, Busy

LEMMA StepKeepsControl ==
    ASSUME Steady, [Next]_vars
    PROVE  Control' /\ Current'
<1> USE CallerIsNoWorker DEF Steady, Shape, Go, Control, Current, InCall
<1>1. CASE RunSerially
    BY <1>1, NobodyIsBusy DEF RunSerially, published, locals, Counted, Busy
<1>2. CASE Publish
  <2>1. \A w \in Workers : pc[w] \in {"waiting", "asleep"}
      BY <1>2, NobodyIsBusy DEF Publish, PublishFor, Counted
  <2>2. Control'
      BY <1>2, <2>1 DEF Publish, PublishFor
  <2>3. Current'
      BY <1>2, <2>1 DEF Publish, PublishFor, Busy
  <2>4. QED
      BY <2>2, <2>3
<1>3. CASE NotifyWork
  <2>1. /\ \A v \in Workers : pc'[v] = pc[v] \/ (pc[v] = "asleep" /\ pc'[v] = "waiting")
        /\ pc[Caller] = "notify" /\ pc'[Caller] = "claim"
      BY <1>3, WokenMoves DEF NotifyWork
  <2>2. UNCHANGED <<stopping, generation, shared, observed, mine, call>>
      BY <1>3 DEF NotifyWork, published, locals
  <2>3. Control'
      BY <2>1, <2>2
  <2>4. Current'
      BY <2>1, <2>2 DEF Busy
  <2>5. QED
      BY <2>3, <2>4
<1>4. CASE Await
  <2>1. CASE pending = 0
      BY <1>4, <2>1, NobodyIsBusy DEF Await, locals, Busy
  <2>2. CASE pending # 0
      BY <1>4, <2>2 DEF Await, locals, Busy
  <2>3. QED
      BY <2>1, <2>2
<1>5. CASE NotifyStop
  <2>1. /\ \A v \in Workers : pc'[v] = pc[v] \/ (pc[v] = "asleep" /\ pc'[v] = "waiting")
        /\ pc[Caller] = "stop" /\ pc'[Caller] = "join"
      BY <1>5, WokenMoves DEF NotifyStop, NotifyStopTo
  <2>2. UNCHANGED <<stopping, generation, shared, observed, mine, call>>
      BY <1>5 DEF NotifyStop, NotifyStopTo, published, locals
  <2>3. Control'
      BY <2>1, <2>2
  <2>4. Current'
      BY <2>1, <2>2 DEF Busy
  <2>5. QED
      BY <2>3, <2>4
<1>6. CASE Join
    BY <1>6 DEF Join, published, locals, Busy
<1>7. CASE Stop
    BY <1>7, NobodyIsBusy DEF Stop, locals, Counted, Busy
<1>8. ASSUME NEW w \in Workers, Wait(w)
      PROVE  Control' /\ Current'
  <2>1. CASE pc'[w] = "exited"
      BY <1>8, <2>1 DEF Wait, Observe, published, locals, Busy
  <2>2. CASE pc'[w] = "asleep"
      BY <1>8, <2>2 DEF Wait, Observe, published, locals, Busy
  <2>3. CASE pc'[w] = "claim"
    <3>1. Owes(w)
        BY <1>8, <2>3 DEF Wait, Owes
    <3>2. InCall
        BY <3>1, SomebodyOwes, SMTT(20) DEF Counted
    <3>3. /\ ~stopping
          /\ pc' = [pc EXCEPT ![w] = "claim"]
          /\ observed' = [observed EXCEPT ![w] = generation]
          /\ mine' = [mine EXCEPT ![w] = shared]
        BY <1>8, <2>3 DEF Wait, Observe
    <3>4. UNCHANGED <<stopping, generation, shared, call>>
        BY <1>8 DEF Wait, published
    <3>5. Control'
        BY <3>3, <3>4
    <3>6. \A v \in Workers : pc'[v] \in Busy =>
            observed'[v] = generation' /\ mine'[v] = shared'
        BY <3>3, <3>4
    <3>7. QED
        BY <3>2, <3>3, <3>4, <3>5, <3>6
  <2>4. QED
      BY <1>8, <2>1, <2>2, <2>3 DEF Wait
<1>9. ASSUME NEW w \in Workers, Finish(w)
      PROVE  Control' /\ Current'
  <2>1. pending > 0 /\ InCall
      BY <1>9, SomebodyOwes DEF Finish, Owes, Busy
  <2>2. /\ LastWakes \in [Threads -> Places]
        /\ \A v \in Workers : LastWakes[v] = pc[v]
        /\ LastWakes[Caller] = pc[Caller] \/ (InCall /\ LastWakes[Caller] = "await")
      BY <2>1, WokenMoves, SMTT(20) DEF LastWakes
  <2>3. /\ pc'[w] = "waiting"
        /\ \A v \in Workers \ {w} : pc'[v] = pc[v]
        /\ pc'[Caller] = LastWakes[Caller]
      BY <1>9, <2>1, <2>2 DEF Finish
  <2>4. UNCHANGED <<stopping, generation, shared, observed, mine, call>>
      BY <1>9 DEF Finish, published, locals
  <2>5. Control'
      BY <2>1, <2>2, <2>3, <2>4
  <2>6. InCall' /\ (pc'[Caller] = pc[Caller] \/ pc'[Caller] = "await")
      BY <2>1, <2>2, <2>3
  <2>7. \A v \in Workers : pc'[v] \in Busy =>
            observed'[v] = generation' /\ mine'[v] = shared'
      BY <2>3, <2>4 DEF Busy
  <2>8. shared'.task = call'
      BY <2>1, <2>4
  <2>9. pc'[Caller] \in {"notify", "claim", "run"} => mine'[Caller] = shared'
      BY <2>4, <2>6
  <2>10. QED
      BY <2>5, <2>6, <2>7, <2>8, <2>9
<1>10. ASSUME NEW t \in Threads, Claim(t)
       PROVE  Control' /\ Current'
  <2>1. CASE t = Caller
      BY <1>10, <2>1 DEF Claim, ClaimBy, published, locals, Busy
  <2>2. CASE t \in Workers
      BY <1>10, <2>2 DEF Claim, ClaimBy, published, locals, Busy
  <2>3. QED
      BY <2>1, <2>2 DEF Threads
<1>11. ASSUME NEW t \in Threads, RunChunk(t)
       PROVE  Control' /\ Current'
  <2>1. CASE t = Caller
      BY <1>11, <2>1 DEF RunChunk, published, locals, Busy
  <2>2. CASE t \in Workers
      BY <1>11, <2>2 DEF RunChunk, published, locals, Busy
  <2>3. QED
      BY <2>1, <2>2 DEF Threads
<1>12. ASSUME NEW t \in Threads, WakesUp(t)
       PROVE  Control' /\ Current'
  <2>1. /\ \A v \in Workers : pc'[v] = pc[v] \/ (pc[v] = "asleep" /\ pc'[v] = "waiting")
        /\ pc'[Caller] = pc[Caller] \/ (pc[Caller] = "asleep" /\ pc'[Caller] = "await")
      BY <1>12, WokenMoves DEF WakesUp
  <2>2. UNCHANGED <<stopping, generation, shared, observed, mine, call>>
      BY <1>12 DEF WakesUp, published, locals
  <2>3. QED
      BY <2>1, <2>2 DEF Busy
<1>13. CASE UNCHANGED vars
    BY <1>13 DEF vars, published, locals, Busy
<1>14. QED
    BY <1>1, <1>2, <1>3, <1>4, <1>5, <1>6, <1>7, <1>8, <1>9, <1>10, <1>11, <1>12, <1>13
    DEF Next, CallerWorks, WorkerWorks, Steps
-----------------------------------------------------------------------------
LEMMA SameOwing ==
    ASSUME Steady, pending' = pending, \A w \in Workers : Owes(w)' <=> Owes(w),
           ~InCall' => pending = 0
    PROVE  Counted'
<1>1. Owing' = Owing
    BY DEF Owing
<1>2. QED
    BY <1>1 DEF Steady, Counted

LEMMA PublishCounts ==
    ASSUME Steady, Publish
    PROVE  Counted'
<1>1. \A w \in Workers : pc[w] \in {"waiting", "asleep"} /\ observed[w] = generation
    BY NobodyIsBusy DEF Publish, PublishFor, Go, Steady, Control, Counted, InCall
<1>2. \A w \in Workers : pc'[w] = pc[w] /\ observed'[w] = observed[w]
    BY CallerIsNoWorker DEF Publish, PublishFor, Go, Steady, Shape
<1>3. ~stopping' /\ generation' = generation + 1 /\ generation \in Nat
    BY DEF Publish, PublishFor, Go, Steady, Shape, Control
<1>4. \A w \in Workers : Owes(w)'
    BY <1>1, <1>2, <1>3 DEF Owes
<1>5. Owing' = Workers
    BY <1>4 DEF Owing
<1>6. InCall' /\ pending' = Cardinality(Workers)
    BY CallerIsNoWorker DEF Publish, PublishFor, Go, InCall, Steady, Shape
<1>7. QED
    BY <1>5, <1>6 DEF Counted

LEMMA FinishCounts ==
    ASSUME Steady, NEW w \in Workers, Finish(w)
    PROVE  Counted'
<1>1. pending > 0 /\ Owes(w) /\ InCall
    BY SomebodyOwes DEF Finish, Owes, Busy, Steady, Current
<1>2. pending \in Nat /\ pending' = pending - 1
    BY <1>1 DEF Finish, Steady, Shape
<1>3. /\ pc'[w] = "waiting"
      /\ \A v \in Workers \ {w} : pc'[v] = pc[v]
      /\ InCall'
  <2>1. /\ LastWakes \in [Threads -> Places]
        /\ \A v \in Workers : LastWakes[v] = pc[v]
        /\ LastWakes[Caller] = pc[Caller] \/ LastWakes[Caller] = "await"
      BY <1>1, WokenMoves, CallerIsNoWorker DEF LastWakes, Steady, Shape
  <2>2. QED
      BY <1>1, <2>1, CallerIsNoWorker DEF Finish, Steady, Shape, InCall
<1>4. UNCHANGED <<stopping, generation, observed>>
    BY DEF Finish, published, locals
<1>5. observed[w] = generation
    BY DEF Finish, Busy, Steady, Current
<1>6. Owing' = Owing \ {w}
    BY <1>3, <1>4, <1>5 DEF Owing, Owes, Busy
<1>7. w \in Owing
    BY <1>1 DEF Owing
<1>8. Cardinality(Owing') = Cardinality(Owing) - 1
    BY <1>6, <1>7, OwingIsFinite, FS_RemoveElement
<1>9. QED
    BY <1>2, <1>3, <1>8 DEF Counted, Steady

LEMMA StepKeepsCounted ==
    ASSUME Steady, [Next]_vars
    PROVE  Counted'
<1> USE CallerIsNoWorker DEF Go, InCall
<1>1. CASE RunSerially
    BY <1>1, SameOwing DEF RunSerially, published, locals, Owes, Steady, Counted
<1>2. CASE Publish
    BY <1>2, PublishCounts
<1>3. CASE NotifyWork
  <2>1. /\ \A v \in Workers : pc'[v] = pc[v] \/ (pc[v] = "asleep" /\ pc'[v] = "waiting")
        /\ pc'[Caller] = "claim"
      BY <1>3, WokenMoves DEF NotifyWork, Steady, Shape
  <2>2. QED
      BY <1>3, <2>1, SameOwing DEF NotifyWork, published, locals, Owes, Busy
<1>4. CASE Await
  <2>1. \A v \in Workers : pc'[v] = pc[v]
      BY <1>4 DEF Await, Steady, Shape
  <2>2. ~InCall' => pending = 0
      BY <1>4 DEF Await, Steady, Shape
  <2>3. QED
      BY <1>4, <2>1, <2>2, SameOwing DEF Await, locals, Owes
<1>5. CASE NotifyStop
  <2>1. \A v \in Workers : pc'[v] = pc[v] \/ (pc[v] = "asleep" /\ pc'[v] = "waiting")
      BY <1>5, WokenMoves DEF NotifyStop, NotifyStopTo, Steady, Shape
  <2>2. QED
      BY <1>5, <2>1, SameOwing
      DEF NotifyStop, NotifyStopTo, published, locals, Owes, Busy, Steady, Counted
<1>6. CASE Join
  <2>1. \A v \in Workers : pc'[v] = pc[v]
      BY <1>6 DEF Join, Steady, Shape
  <2>2. QED
      BY <1>6, <2>1, SameOwing DEF Join, published, locals, Owes, Steady, Counted
<1>7. CASE Stop
  <2>1. pending = 0 /\ \A v \in Workers : pc'[v] = pc[v] /\ ~Owes(v)
      BY <1>7, SomebodyOwes DEF Stop, Steady, Shape, Counted
  <2>2. QED
      BY <1>7, <2>1, SameOwing DEF Stop, Owes, Busy
<1>8. ASSUME NEW w \in Workers, Wait(w)
      PROVE  Counted'
  <2>1. UNCHANGED <<stopping, generation, pending>> /\ pc'[Caller] = pc[Caller]
      BY <1>8 DEF Wait, published, Steady, Shape
  <2>2. /\ pc[w] = "waiting"
        /\ \A v \in Workers \ {w} : pc'[v] = pc[v] /\ observed'[v] = observed[v]
      BY <1>8 DEF Wait, Observe, locals, Steady, Shape
  <2>3. \/ stopping /\ pc'[w] = "exited"
        \/ ~stopping /\ generation # observed[w] /\ pc'[w] = "claim"
        \/ ~stopping /\ generation = observed[w] /\ pc'[w] = "asleep" /\ observed' = observed
      BY <1>8 DEF Wait, locals, Steady, Shape
  <2>4. \A v \in Workers : Owes(v)' <=> Owes(v)
      BY <2>1, <2>2, <2>3 DEF Owes, Busy
  <2>5. QED
      BY <2>1, <2>4, SameOwing DEF Steady, Counted
<1>9. ASSUME NEW w \in Workers, Finish(w)
      PROVE  Counted'
    BY <1>9, FinishCounts
<1>10. ASSUME NEW t \in Threads, Steps(t)
       PROVE  Counted'
  <2>1. UNCHANGED <<stopping, generation, pending, observed>>
      BY <1>10 DEF Steps, Claim, ClaimBy, RunChunk, published, locals
  <2>2. /\ \A v \in Workers : pc'[v] = pc[v] \/ (pc[v] \in Busy /\ pc'[v] \in Busy)
        /\ InCall <=> InCall'
      BY <1>10 DEF Steps, Claim, ClaimBy, RunChunk, Steady, Shape, Busy
  <2>3. QED
      BY <2>1, <2>2, SameOwing DEF Owes, Steady, Counted, Busy
<1>12. ASSUME NEW t \in Threads, WakesUp(t)
       PROVE  Counted'
  <2>1. /\ \A v \in Workers : pc'[v] = pc[v] \/ (pc[v] = "asleep" /\ pc'[v] = "waiting")
        /\ pc'[Caller] = pc[Caller] \/ (pc[Caller] = "asleep" /\ pc'[Caller] = "await")
      BY <1>12, WokenMoves DEF WakesUp, Steady
  <2>2. UNCHANGED <<stopping, generation, pending, observed>>
      BY <1>12 DEF WakesUp, published, locals
  <2>3. QED
      BY <2>1, <2>2, SameOwing DEF Owes, Steady, Counted, Busy
<1>13. CASE UNCHANGED vars
    BY <1>13, SameOwing DEF vars, published, locals, Owes, Steady, Counted
<1>14. QED
    BY <1>1, <1>2, <1>3, <1>4, <1>5, <1>6, <1>7, <1>8, <1>9, <1>10, <1>12, <1>13
    DEF Next, CallerWorks, WorkerWorks

LEMMA SteadyAlways == Spec => []Steady
<1>1. Steady /\ [Next]_vars => Steady'
    BY StepKeepsShape, StepKeepsControl, StepKeepsCounted DEF Steady
<1>2. QED
    BY <1>1, InitSteady, PTL DEF Spec
-----------------------------------------------------------------------------
\* No worker ever finds the count of workers at zero when it has finished a loop,
\* so std::terminate is never called.
THEOREM NeverTerminatesTheorem == Spec => []NeverTerminates
<1>1. Steady => NeverTerminates
    BY DEF Steady, Control, NeverTerminates
<1>2. QED
    BY <1>1, SteadyAlways, PTL

\* A worker works only on the loop of the call in progress: once parallel_for has
\* returned nobody touches its task.
THEOREM NoStragglersTheorem == Spec => []NoStragglers
<1>1. Steady => NoStragglers
    BY DEF Steady, Current, NoStragglers, Busy
<1>2. QED
    BY <1>1, SteadyAlways, PTL

\* Every variable keeps its type, and the count of pending workers stays within
\* the number of workers.
THEOREM PoolTypeTheorem == Spec => []TypeOK
<1>1. ASSUME Steady
      PROVE  TypeOK
  <2>1. Owing \in SUBSET Workers
      BY DEF Owing
  <2>2. pending <= Cardinality(Workers) /\ Cardinality(Workers) \in Nat
      BY <1>1, <2>1, PoolAssumption, FS_Subset, FS_CardinalityType DEF Steady, Counted
  <2>3. QED
      BY <1>1, <2>2 DEF Steady, Shape, TypeOK, Places, Work
<1>2. QED
    BY <1>1, SteadyAlways, PTL
-----------------------------------------------------------------------------
(* Every index is run once: in a call, the indices below next_ have been run   *)
(* or are in a chunk some thread holds, and no two threads hold the same one.  *)

Holds(t, i) == pc[t] = "run" /\ i \in chunk[t].first .. chunk[t].last - 1

Bounds ==
    /\ InCall => /\ call \in 1 .. Len(Loops)
                 /\ shared.end = Loops[call].end
                 /\ Loops[call].begin <= next
    /\ \A t \in Threads : pc[t] = "run" =>
        /\ Loops[call].begin <= chunk[t].first
        /\ chunk[t].last <= shared.end
        /\ chunk[t].last <= next
    /\ pc[Caller] \in {"await", "asleep"} => shared.end <= next

Apart ==
    \A t, u \in Threads : pc[t] = "run" /\ pc[u] = "run" /\ t # u =>
        chunk[t].last <= chunk[u].first \/ chunk[u].last <= chunk[t].first

Accounted ==
    InCall => \A i \in Indices :
        ran[i] = IF i \in Span(call) /\ i < next /\ \A t \in Threads : ~Holds(t, i)
                 THEN 1 ELSE 0

Covered == Bounds /\ Apart /\ Accounted /\ RanOnce

LEMMA IndicesAreIntegers == \A i \in Indices : i \in Int
    BY DEF Indices

\* Every thread that holds a chunk does so within the call.
LEMMA HoldersAreInCall ==
    ASSUME Steady, NEW t \in Threads, pc[t] \in Busy
    PROVE  InCall /\ mine[t].end = shared.end /\ mine[t].grain = shared.grain
<1>1. CASE t = Caller
    BY <1>1 DEF Steady, Control, Current, InCall, Busy
<1>2. CASE t \in Workers
    BY <1>2 DEF Steady, Current
<1>3. QED
    BY <1>1, <1>2 DEF Threads

\* A step that claims and runs nothing leaves all of this as it is.
LEMMA SameCover ==
    ASSUME Covered, UNCHANGED <<next, chunk, call, ran>>, shared'.end = shared.end,
           \A t \in Threads : pc'[t] = "run" <=> pc[t] = "run",
           InCall' => InCall,
           pc'[Caller] \in {"await", "asleep"} => pc[Caller] \in {"await", "asleep"},
           pc'[Caller] = "idle" => pc[Caller] = "idle"
    PROVE  Covered'
<1>1. Bounds' /\ Apart'
    BY DEF Covered, Bounds, Apart
<1>2. \A t \in Threads, i \in Indices : Holds(t, i)' <=> Holds(t, i)
    BY DEF Holds
<1>3. Accounted'
    BY <1>2 DEF Covered, Accounted, Span
<1>4. RanOnce'
    BY DEF Covered, RanOnce, Span
<1>5. QED
    BY <1>1, <1>3, <1>4 DEF Covered

LEMMA CallsKeepCovered ==
    ASSUME Steady, Covered, RunSerially \/ Publish \/ Await
    PROVE  Covered'
<1> USE CallerIsNoWorker DEF Go
<1>1. ASSUME pending = 0
      PROVE  \A w \in Workers : pc[w] # "run"
    BY <1>1, NobodyIsBusy DEF Busy
<1>2. CASE RunSerially
  <2>1. \A t \in Threads : pc'[t] # "run"
      BY <1>1, <1>2 DEF RunSerially, Threads, Steady, Counted, InCall
  <2>2. Bounds' /\ Apart' /\ Accounted'
      BY <1>2, <2>1 DEF RunSerially, Bounds, Apart, Accounted, InCall
  <2>3. RanOnce'
      BY <1>2 DEF RunSerially, RanOnce, Span
  <2>4. QED
      BY <2>2, <2>3 DEF Covered
<1>3. CASE Publish
  <2>1. \A t \in Threads : pc'[t] # "run"
      BY <1>1, <1>3 DEF Publish, PublishFor, Threads, Steady, Shape, Counted, InCall
  <2>2. /\ call' = call + 1 /\ call' \in 1 .. Len(Loops)
        /\ next' = Loops[call'].begin /\ shared'.end = Loops[call'].end
        /\ pc'[Caller] = "notify" /\ ran' = NotRun
      BY <1>3, LenIsNat DEF Publish, PublishFor, Steady, Shape
  <2>3. Bounds' /\ Apart' /\ RanOnce'
      BY <2>1, <2>2, LoopsTyped DEF Bounds, Apart, RanOnce
  <2>4. Accounted'
    <3>1. \A i \in Indices : ~(i \in Span(call)' /\ i < next')
        BY <2>2, LoopsTyped, IndicesAreIntegers DEF Span
    <3>2. \A i \in Indices : ran'[i] = 0
        BY <2>2 DEF NotRun
    <3>3. QED
        BY <3>1, <3>2 DEF Accounted
  <2>5. QED
      BY <2>3, <2>4 DEF Covered
<1>4. CASE Await /\ pending = 0
  <2>1. \A t \in Threads : pc[t] # "run"
      BY <1>1, <1>4 DEF Await, Threads
  <2>2. /\ pc'[Caller] = "idle" /\ UNCHANGED <<next, chunk, call, ran>>
        /\ \A w \in Workers : pc'[w] = pc[w]
      BY <1>4 DEF Await, Steady, Shape
  <2>3. \A t \in Threads : pc'[t] # "run"
      BY <2>1, <2>2 DEF Threads
  <2>4. InCall /\ shared.end <= next /\ call \in 1 .. Len(Loops) /\ shared.end = Loops[call].end
      BY <1>4 DEF Await, Covered, Bounds, InCall
  <2>5. \A i \in Span(call) : i < next
      BY <2>4, LoopsTyped DEF Span, Steady, Shape
  <2>6. \A i \in Indices : ran[i] = IF i \in Span(call) THEN 1 ELSE 0
      BY <2>1, <2>4, <2>5 DEF Covered, Accounted, Holds
  <2>7. RanOnce'
      BY <2>2, <2>6 DEF RanOnce, Span
  <2>8. Bounds' /\ Apart' /\ Accounted'
      BY <2>2, <2>3 DEF Bounds, Apart, Accounted, InCall
  <2>9. QED
      BY <2>7, <2>8 DEF Covered
<1>5. CASE Await /\ pending # 0
  <2>1. /\ \A t \in Threads : pc'[t] = "run" <=> pc[t] = "run"
        /\ pc[Caller] = "await" /\ pc'[Caller] = "asleep"
      BY <1>5 DEF Await, Steady, Shape
  <2>2. UNCHANGED <<shared, next, chunk, call, ran>>
      BY <1>5 DEF Await
  <2>3. QED
      BY <2>1, <2>2, SameCover DEF InCall
<1>6. QED
    BY <1>2, <1>3, <1>4, <1>5

LEMMA ClaimKeepsCovered ==
    ASSUME Steady, Covered, NEW t \in Threads, Claim(t)
    PROVE  Covered'
<1> DEFINE end == mine[t].end
           step == mine[t].grain
           last == Min({end, next + step})
<1>1. /\ pc[t] = "claim" /\ InCall /\ end = shared.end /\ step = shared.grain
      /\ \A u \in Threads : u # t => pc'[u] = pc[u]
  <2>1. pc[t] = "claim" /\ \A u \in Threads : u # t => pc'[u] = pc[u]
      BY DEF Claim, ClaimBy, Go, Steady, Shape
  <2>2. QED
      BY <2>1, HoldersAreInCall DEF Busy
<1>2. /\ end \in Nat /\ step \in Nat \ {0} /\ next \in Nat
      /\ next' = next + step /\ next' \in Nat
    BY <1>1 DEF Claim, ClaimBy, Steady, Shape, Work
<1>3. /\ call \in 1 .. Len(Loops) /\ end = Loops[call].end
      /\ Loops[call].begin <= next /\ Loops[call].begin \in Nat
    BY <1>1, LoopsTyped DEF Covered, Bounds
<1>4. UNCHANGED <<shared, mine, call, ran>>
    BY DEF Claim, ClaimBy, published, locals
<1>5. InCall' /\ pc'[Caller] # "idle"
    BY <1>1, CallerIsNoWorker DEF Claim, ClaimBy, Go, InCall, Steady, Shape
<1>6. \A u \in Threads : chunk[u].first \in Nat /\ chunk[u].last \in Nat
    BY DEF Steady, Shape
<1>7. \A u \in Threads : pc[u] = "run" => chunk[u].last <= next
    BY DEF Covered, Bounds
<1>9. CASE next < end
  <2>1. last \in Nat /\ last <= end /\ last <= next' /\ (last = end \/ last = next')
    <3>1. next + step \in Nat
        BY <1>2
    <3>2. QED
        BY <1>2, <3>1, SmallerOfTwo
  <2> HIDE DEF end, step, last
  <2>2. /\ pc'[t] = "run"
        /\ chunk' = [chunk EXCEPT ![t] = [first |-> next, last |-> last]]
      BY <1>2, <1>9 DEF Claim, ClaimBy, Go, Steady, Shape, end, step, last
  <2>3. /\ chunk'[t].first = next /\ chunk'[t].last = last
        /\ \A u \in Threads : u # t => chunk'[u] = chunk[u]
      BY <2>2 DEF Steady, Shape
  <2>4. pc'[Caller] \notin {"await", "asleep"} \/ pc'[Caller] = pc[Caller]
      BY <1>1, <2>2, CallerIsNoWorker
  <2>5. Bounds'
    <3>1. \A u \in Threads : pc'[u] = "run" =>
            /\ Loops[call'].begin <= chunk'[u].first
            /\ chunk'[u].last <= shared'.end
            /\ chunk'[u].last <= next'
      <4> TAKE u \in Threads
      <4>1. CASE u = t
          BY <1>1, <1>3, <1>4, <2>1, <2>3, <4>1
      <4>2. CASE u # t
          BY <1>1, <1>2, <1>4, <1>6, <2>3, <4>2, SMTT(20) DEF Covered, Bounds
      <4>3. QED
          BY <4>1, <4>2
    <3>2. pc'[Caller] \in {"await", "asleep"} => shared'.end <= next'
        BY <1>1, <1>2, <1>4, <2>4 DEF Covered, Bounds
    <3>3. shared'.end = Loops[call'].end /\ Loops[call'].begin <= next'
      <4>1. call' = call /\ shared' = shared
          BY <1>4
      <4>2. Loops[call'] = Loops[call] /\ shared'.end = shared.end
          BY <4>1
      <4>3. Loops[call].begin <= next'
          BY <1>2, <1>3
      <4>4. QED
          BY <1>1, <1>3, <4>2, <4>3
    <3>4. QED
        BY <1>3, <1>4, <3>1, <3>2, <3>3 DEF Bounds
  <2>6. Apart'
    <3>1. \A u \in Threads : u # t /\ pc'[u] = "run" => chunk'[u].last <= chunk'[t].first
        BY <1>1, <1>7, <2>3
    <3>2. QED
        BY <1>1, <2>3, <3>1 DEF Covered, Apart
  <2>7. ASSUME NEW i \in Indices
        PROVE  ran'[i] = IF i \in Span(call)' /\ i < next' /\ \A u \in Threads : ~Holds(u, i)'
                         THEN 1 ELSE 0
    <3>1. i \in Int /\ Span(call)' = Span(call) /\ ran'[i] = ran[i]
        BY <1>4, IndicesAreIntegers DEF Span
    <3>2. ran[i] = IF i \in Span(call) /\ i < next /\ \A u \in Threads : ~Holds(u, i)
                   THEN 1 ELSE 0
        BY <1>1 DEF Covered, Accounted
    <3>3. \A u \in Threads : u # t => (Holds(u, i)' <=> Holds(u, i))
        BY <1>1, <2>3 DEF Holds
    <3>4. ~Holds(t, i) /\ (Holds(t, i)' <=> next <= i /\ i < last)
        BY <1>1, <1>2, <2>1, <2>2, <2>3, <3>1 DEF Holds
    <3>5. CASE i < next
        BY <1>2, <3>1, <3>2, <3>3, <3>4, <3>5
    <3>6. CASE ~(i < next)
      <4>1. i \in Span(call) /\ i < next' => Holds(t, i)'
          BY <1>2, <1>3, <2>1, <3>1, <3>4, <3>6 DEF Span
      <4>2. QED
          BY <3>1, <3>2, <3>6, <4>1
    <3>7. QED
        BY <3>5, <3>6
  <2>8. QED
      BY <1>5, <2>5, <2>6, <2>7 DEF Covered, Accounted, RanOnce
<1>10. CASE next >= end
  <2>1. chunk' = chunk /\ pc'[t] # "run"
      BY <1>2, <1>10 DEF Claim, ClaimBy, Go, Steady, Shape
  <2>2. \A u \in Threads : pc'[u] = "run" <=> pc[u] = "run"
      BY <1>1, <2>1
  <2>3. Bounds'
    <3>1. Loops[call'] = Loops[call] /\ shared' = shared
        BY <1>4
    <3>2. Loops[call].begin <= next' /\ shared.end <= next'
        BY <1>1, <1>2, <1>3, <1>10
    <3>3. \A u \in Threads : pc'[u] = "run" =>
            /\ Loops[call].begin <= chunk'[u].first
            /\ chunk'[u].last <= shared.end
            /\ chunk'[u].last <= next'
        BY <1>2, <1>6, <2>1, <2>2 DEF Covered, Bounds
    <3>4. call' \in 1 .. Len(Loops) /\ shared.end = Loops[call].end
        BY <1>1, <1>3, <1>4
    <3>5. QED
        BY <3>1, <3>2, <3>3, <3>4 DEF Bounds
  <2>4. Apart'
      BY <2>1, <2>2 DEF Covered, Apart
  <2>5. ASSUME NEW i \in Indices
        PROVE  ran'[i] = IF i \in Span(call)' /\ i < next' /\ \A u \in Threads : ~Holds(u, i)'
                         THEN 1 ELSE 0
    <3>1. i \in Int /\ Span(call)' = Span(call) /\ ran'[i] = ran[i]
        BY <1>4, IndicesAreIntegers DEF Span
    <3>2. \A u \in Threads : Holds(u, i)' <=> Holds(u, i)
        BY <2>1, <2>2 DEF Holds
    <3>3. i \in Span(call) => i < next /\ i < next'
        BY <1>2, <1>3, <1>10, <3>1 DEF Span
    <3>4. QED
        BY <1>1, <3>1, <3>2, <3>3 DEF Covered, Accounted
  <2>6. QED
      BY <1>5, <2>3, <2>4, <2>5 DEF Covered, Accounted, RanOnce
<1>11. QED
    BY <1>2, <1>9, <1>10

LEMMA RunKeepsCovered ==
    ASSUME Steady, Covered, NEW t \in Threads, RunChunk(t)
    PROVE  Covered'
<1>1. /\ pc[t] = "run" /\ pc'[t] = "claim" /\ InCall
      /\ \A u \in Threads : u # t => pc'[u] = pc[u]
  <2>1. pc[t] = "run" /\ pc'[t] = "claim" /\ \A u \in Threads : u # t => pc'[u] = pc[u]
      BY DEF RunChunk, Go, Steady, Shape
  <2>2. QED
      BY <2>1, HoldersAreInCall DEF Busy
<1>2. UNCHANGED <<shared, next, chunk, call>>
    BY DEF RunChunk, published
<1>3. InCall' /\ pc'[Caller] # "idle"
    BY <1>1, CallerIsNoWorker DEF InCall
<1>4. pc'[Caller] \in {"await", "asleep"} => pc[Caller] \in {"await", "asleep"}
    BY <1>1, CallerIsNoWorker
<1>5. \A u \in Threads : pc'[u] = "run" => pc[u] = "run" /\ u # t
    BY <1>1
<1>6. Bounds' /\ Apart'
    BY <1>1, <1>2, <1>4, <1>5 DEF Covered, Bounds, Apart
<1>7. /\ call \in 1 .. Len(Loops) /\ shared.end = Loops[call].end
      /\ Loops[call].begin <= chunk[t].first
      /\ chunk[t].last <= shared.end /\ chunk[t].last <= next
    BY <1>1 DEF Covered, Bounds
<1>8. /\ Loops[call].begin \in Nat /\ Loops[call].end \in Nat /\ next \in Nat
      /\ \A u \in Threads : chunk[u].first \in Nat /\ chunk[u].last \in Nat
    BY <1>7, LoopsTyped DEF Steady, Shape
<1>9. ASSUME NEW i \in Indices
      PROVE  ran'[i] = IF i \in Span(call)' /\ i < next' /\ \A u \in Threads : ~Holds(u, i)'
                       THEN 1 ELSE 0
  <2>1. /\ i \in Int /\ Span(call)' = Span(call) /\ next' = next
        /\ ran'[i] = IF Holds(t, i) THEN ran[i] + 1 ELSE ran[i]
      BY <1>1, <1>2, IndicesAreIntegers DEF RunChunk, Span, Holds
  <2>2. ran[i] = IF i \in Span(call) /\ i < next /\ \A u \in Threads : ~Holds(u, i)
                 THEN 1 ELSE 0
      BY <1>1 DEF Covered, Accounted
  <2>3. \A u \in Threads : Holds(u, i)' <=> (u # t /\ Holds(u, i))
      BY <1>1, <1>2 DEF Holds
  <2>4. CASE Holds(t, i)
    <3>1. i \in Span(call) /\ i < next
        BY <1>7, <1>8, <2>1, <2>4 DEF Holds, Span
    <3>2. ASSUME NEW u \in Threads, u # t, Holds(u, i)
          PROVE  FALSE
      <4>1. /\ chunk[t].first <= i /\ i < chunk[t].last
            /\ chunk[u].first <= i /\ i < chunk[u].last
          BY <1>8, <2>1, <2>4, <3>2 DEF Holds
      <4>2. chunk[t].last <= chunk[u].first \/ chunk[u].last <= chunk[t].first
          BY <1>1, <3>2 DEF Covered, Apart, Holds
      <4>3. QED
          BY <1>8, <2>1, <4>1, <4>2
    <3>3. ran'[i] = 1
        BY <2>1, <2>2, <2>4
    <3>4. QED
        BY <2>1, <2>3, <3>1, <3>2, <3>3, SMTT(20)
  <2>5. CASE ~Holds(t, i)
      BY <2>1, <2>2, <2>3, <2>5
  <2>6. QED
      BY <2>4, <2>5
<1>10. QED
    BY <1>3, <1>6, <1>9 DEF Covered, Accounted, RanOnce

LEMMA InitCovered == Init => Covered
<1>1. SUFFICES ASSUME Init PROVE Covered
    OBVIOUS
<1>2. call = 0 /\ \A t \in Threads : pc[t] \notin {"notify", "claim", "run", "await", "asleep"}
    BY <1>1 DEF Init
<1>3. QED
    BY <1>2, CallerIsNoWorker DEF Covered, Bounds, Apart, Accounted, RanOnce, InCall

LEMMA StepKeepsCovered ==
    ASSUME Steady, Covered, [Next]_vars
    PROVE  Covered'
<1> USE CallerIsNoWorker DEF Go
<1>1. CASE RunSerially \/ Publish \/ Await
    BY <1>1, CallsKeepCovered
<1>2. CASE NotifyWork \/ NotifyStop
  <2>1. /\ \A w \in Workers : pc'[w] = "run" <=> pc[w] = "run"
        /\ \/ pc[Caller] = "notify" /\ pc'[Caller] = "claim"
           \/ pc[Caller] = "stop" /\ pc'[Caller] = "join"
    <3>1. /\ Woken(Workers) \in [Threads -> Places]
          /\ \A w \in Workers : Woken(Workers)[w] =
                IF pc[w] = "asleep" THEN "waiting" ELSE pc[w]
        BY WokenMoves DEF Steady
    <3>2. CASE NotifyWork
        BY <3>1, <3>2 DEF NotifyWork
    <3>3. CASE NotifyStop
        BY <3>1, <3>3 DEF NotifyStop, NotifyStopTo
    <3>4. QED
        BY <1>2, <3>2, <3>3
  <2>2. \A t \in Threads : pc'[t] = "run" <=> pc[t] = "run"
      BY <2>1 DEF Threads
  <2>3. UNCHANGED <<shared, next, chunk, call, ran>>
      BY <1>2 DEF NotifyWork, NotifyStop, NotifyStopTo, published
  <2>4. QED
      BY <2>1, <2>2, <2>3, SameCover DEF InCall
<1>3. CASE Join \/ Stop
  <2>1. /\ pc[Caller] \in {"idle", "join"} /\ pc'[Caller] \in {"stop", "gone"}
        /\ \A t \in Threads : t # Caller => pc'[t] = pc[t]
      BY <1>3 DEF Join, Stop, Steady, Shape
  <2>2. UNCHANGED <<shared, next, chunk, call, ran>>
      BY <1>3 DEF Join, Stop, published
  <2>3. \A t \in Threads : pc'[t] = "run" <=> pc[t] = "run"
      BY <2>1
  <2>4. QED
      BY <2>1, <2>2, <2>3, SameCover DEF InCall
<1>4. ASSUME NEW w \in Workers, Wait(w)
      PROVE  Covered'
  <2>1. (\A t \in Threads : pc'[t] = "run" <=> pc[t] = "run") /\ pc'[Caller] = pc[Caller]
      BY <1>4 DEF Wait, Steady, Shape
  <2>2. UNCHANGED <<shared, next, chunk, call, ran>>
      BY <1>4 DEF Wait, published
  <2>3. QED
      BY <2>1, <2>2, SameCover DEF InCall
<1>5. ASSUME NEW w \in Workers, Finish(w)
      PROVE  Covered'
  <2>1. InCall /\ pc[w] = "finish"
      BY <1>5, HoldersAreInCall DEF Finish, Busy
  <2>2. /\ LastWakes \in [Threads -> Places]
        /\ \A v \in Workers : LastWakes[v] = pc[v]
        /\ \/ LastWakes[Caller] = pc[Caller]
           \/ pc[Caller] = "asleep" /\ LastWakes[Caller] = "await"
      BY WokenMoves DEF LastWakes, Steady, Shape
  <2>3. /\ pc'[w] \in {"terminated", "waiting"}
        /\ \A t \in Threads : t # w => pc'[t] = LastWakes[t]
      BY <1>5, <2>2 DEF Finish
  <2>4. \A t \in Threads : pc'[t] = "run" <=> pc[t] = "run"
    <3>1. pc'[Caller] = "run" <=> pc[Caller] = "run"
        BY <2>2, <2>3
    <3>2. \A v \in Workers : pc'[v] = "run" <=> pc[v] = "run"
        BY <2>1, <2>2, <2>3
    <3>3. QED
        BY <3>1, <3>2 DEF Threads
  <2>5. UNCHANGED <<shared, next, chunk, call, ran>>
      BY <1>5 DEF Finish, published
  <2>6. /\ pc'[Caller] \in {"await", "asleep"} => pc[Caller] \in {"await", "asleep"}
        /\ pc'[Caller] = "idle" => pc[Caller] = "idle"
      BY <2>2, <2>3
  <2>7. QED
      BY <2>1, <2>4, <2>5, <2>6, SameCover
<1>6. ASSUME NEW t \in Threads, Claim(t)
      PROVE  Covered'
    BY <1>6, ClaimKeepsCovered
<1>7. ASSUME NEW t \in Threads, RunChunk(t)
      PROVE  Covered'
    BY <1>7, RunKeepsCovered
<1>8. ASSUME NEW t \in Threads, WakesUp(t)
      PROVE  Covered'
  <2>1. /\ \A w \in Workers : pc'[w] = "run" <=> pc[w] = "run"
        /\ \/ pc'[Caller] = pc[Caller]
           \/ pc[Caller] = "asleep" /\ pc'[Caller] = "await"
      BY <1>8, WokenMoves DEF WakesUp, Steady
  <2>2. \A u \in Threads : pc'[u] = "run" <=> pc[u] = "run"
      BY <2>1 DEF Threads
  <2>3. UNCHANGED <<shared, next, chunk, call, ran>>
      BY <1>8 DEF WakesUp, published
  <2>4. QED
      BY <2>1, <2>2, <2>3, SameCover DEF InCall
<1>9. CASE UNCHANGED vars
    BY <1>9, SameCover DEF vars, published, InCall
<1>10. QED
    BY <1>1, <1>2, <1>3, <1>4, <1>5, <1>6, <1>7, <1>8, <1>9
    DEF Next, CallerWorks, WorkerWorks, Steps

\* When a call has returned, every index of its range was run exactly once and no
\* other index was, whichever threads claimed the chunks.
THEOREM RanOnceTheorem == Spec => []RanOnce
<1>1. Init => Covered
    BY InitCovered
<1>2. Steady /\ Covered /\ [Next]_vars => Covered'
    BY StepKeepsCovered
<1>3. Covered => RanOnce
    BY DEF Covered
<1>4. QED
    BY <1>1, <1>2, <1>3, SteadyAlways, PTL DEF Spec
=============================================================================
