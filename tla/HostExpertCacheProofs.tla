------------------------ MODULE HostExpertCacheProofs ------------------------
(***************************************************************************)
(* Theorems of HostExpertCache, for every number of calls, slots and        *)
(* experts: ref_count is the number of calls that use a slot, so the memory *)
(* behind a lease is never taken over, and the check after a wait for       *)
(* another call's load never fails.                                         *)
(***************************************************************************)
EXTENDS HostExpertCache, FiniteSetTheorems, TLAPS

Using == {"loading", "read", "waiting", "leased"}

Shape ==
    /\ slot \in [Slots -> Slot]
    /\ payload \in [Slots -> Experts \cup {NoExpert}]
    /\ promise \in [Calls -> {"none", "pending", "value", "exception"}]
    /\ pc \in [Calls -> {"new", "loading", "read", "waiting", "leased", "refused",
                         "failed", "raced", "released"}]
    /\ at \in [Calls -> Slots \cup {NoSlot}]
    /\ wait \in [Calls -> [load : Calls \cup {NoCall}, generation : Nat]]
    /\ \A c \in Calls : pc[c] \in Using => at[c] \in Slots

Measured ==
    metrics \in [hits : Nat, misses : Nat, coalesced : Nat, evictions : Nat, read : Nat]

\* A call that loads is the one whose future the slot offers, and the other way round.
Loads ==
    /\ \A c \in Calls : pc[c] \in {"loading", "read"} =>
        /\ slot[at[c]].loading
        /\ slot[at[c]].future = c
        /\ slot[at[c]].expert = Want[c]
        /\ promise[c] = "pending"
    /\ \A c \in Calls : pc[c] = "read" => payload[at[c]] = Want[c]
    /\ \A c \in Calls : pc[c] = "new" => promise[c] = "none"
    /\ \A s \in Slots : slot[s].loading =>
        /\ slot[s].future \in Calls
        /\ pc[slot[s].future] \in {"loading", "read"}
        /\ at[slot[s].future] = s

\* Until the load it waits for has failed, a call finds the slot as it left it.
Waits ==
    \A c \in Calls : pc[c] = "waiting" =>
        /\ wait[c].load \in Calls
        /\ promise[wait[c].load] # "none"
        /\ promise[wait[c].load] = "pending" =>
            slot[at[c]].loading /\ slot[at[c]].future = wait[c].load
        /\ promise[wait[c].load] = "value" => ~slot[at[c]].loading
        /\ promise[wait[c].load] # "exception" => Unchanged(c)

Leases ==
    \A c \in Calls : pc[c] = "leased" =>
        ~slot[at[c]].loading /\ slot[at[c]].expert = Want[c]

Filled ==
    \A s \in Slots : ~slot[s].loading /\ slot[s].expert # NoExpert =>
        payload[s] = slot[s].expert

Unique ==
    \A s, t \in Slots : s # t /\ slot[s].expert = slot[t].expert => slot[s].expert = NoExpert

Consistent == Loads /\ Waits /\ Leases /\ Filled /\ Unique

Steady == Shape /\ Consistent /\ RefsAccount
-----------------------------------------------------------------------------
LEMMA UsersAreFinite == \A s \in Slots : IsFiniteSet(Users(s)) /\ Cardinality(Users(s)) \in Nat
    BY CacheAssumption, FS_Subset, FS_CardinalityType DEF Users

\* A slot that may be taken over is used by no call.
LEMMA FreeIsUnused ==
    ASSUME Steady, NEW s \in Slots, slot[s].refs = 0, NEW c \in Calls, pc[c] \in Using
    PROVE  at[c] # s
<1>1. Cardinality(Users(s)) = 0
    BY DEF Steady, RefsAccount
<1>2. Users(s) = {}
    BY <1>1, UsersAreFinite, FS_EmptySet
<1>3. QED
    BY <1>2 DEF Users, Using

\* The counts follow when one call starts to use a slot, ...
LEMMA OneMoreUser ==
    ASSUME Steady, NEW c \in Calls, NEW s \in Slots, pc[c] \notin Using,
           slot'[s].refs = slot[s].refs + 1,
           \A t \in Slots \ {s} : slot'[t].refs = slot[t].refs,
           pc'[c] \in Using, at'[c] = s,
           \A d \in Calls \ {c} : pc'[d] = pc[d] /\ at'[d] = at[d]
    PROVE  RefsAccount'
<1>1. c \notin Users(s) /\ Users(s)' = Users(s) \cup {c}
  <2>1. c \notin Users(s)
      BY DEF Users, Using
  <2>2. \A d \in Calls : d \in Users(s)' <=> d \in Users(s) \/ d = c
      BY DEF Users, Using
  <2>3. Users(s) \subseteq Calls /\ Users(s)' \subseteq Calls
      BY DEF Users
  <2>4. QED
      BY <2>1, <2>2, <2>3
<1>2. \A t \in Slots \ {s} : Users(t)' = Users(t)
    BY DEF Users, Using
<1>3. Cardinality(Users(s)') = Cardinality(Users(s)) + 1
  <2>1. IsFiniteSet(Users(s))
      BY UsersAreFinite
  <2>2. Cardinality(Users(s) \cup {c}) = Cardinality(Users(s)) + 1
      BY <1>1, <2>1, FS_AddElement
  <2>3. QED
      BY <1>1, <2>2
<1>4. QED
    BY <1>2, <1>3 DEF Steady, RefsAccount

\* ... when one stops, which is why the count is not zero then, ...
LEMMA UsedIsCounted ==
    ASSUME Steady, NEW c \in Calls, pc[c] \in Using
    PROVE  slot[at[c]].refs \in Nat \ {0} /\ Unref(at[c]) = slot[at[c]].refs - 1
<1>1. at[c] \in Slots /\ slot[at[c]].refs \in Nat
    BY DEF Steady, Shape, Slot
<1>2. slot[at[c]].refs # 0
    BY <1>1, FreeIsUnused
<1>3. QED
    BY <1>1, <1>2 DEF Unref

LEMMA OneUserLess ==
    ASSUME Steady, NEW c \in Calls, pc[c] \in Using,
           slot'[at[c]].refs = Unref(at[c]),
           \A t \in Slots \ {at[c]} : slot'[t].refs = slot[t].refs,
           pc'[c] \notin Using, at' = at,
           \A d \in Calls \ {c} : pc'[d] = pc[d]
    PROVE  RefsAccount'
<1> DEFINE s == at[c]
<1>1. s \in Slots
    BY DEF Steady, Shape
<1>2. c \in Users(s) /\ Users(s)' = Users(s) \ {c}
  <2>1. c \in Users(s)
      BY DEF Users, Using
  <2>2. \A d \in Calls : d \in Users(s)' <=> d \in Users(s) /\ d # c
      BY DEF Users, Using
  <2>3. Users(s) \subseteq Calls /\ Users(s)' \subseteq Calls
      BY DEF Users
  <2>4. QED
      BY <2>1, <2>2, <2>3
<1>3. \A t \in Slots \ {s} : Users(t)' = Users(t)
    BY DEF Users, Using
<1>4. Cardinality(Users(s)') = Cardinality(Users(s)) - 1
  <2>1. IsFiniteSet(Users(s))
      BY <1>1, UsersAreFinite
  <2>2. Cardinality(Users(s) \ {c}) = Cardinality(Users(s)) - 1
      BY <1>2, <2>1, FS_RemoveElement
  <2>3. QED
      BY <1>2, <2>2
<1>5. QED
    BY <1>1, <1>3, <1>4, UsedIsCounted DEF Steady, RefsAccount

\* ... and when a call goes from one use to another.
LEMMA SameUsers ==
    ASSUME Steady, \A s \in Slots : slot'[s].refs = slot[s].refs,
           at' = at, \A d \in Calls : pc'[d] \in Using <=> pc[d] \in Using
    PROVE  RefsAccount'
<1>1. \A s \in Slots : Users(s)' = Users(s)
    BY DEF Users, Using
<1>2. QED
    BY <1>1 DEF Steady, RefsAccount

LEMMA InitSteady == Init => Steady /\ Measured
<1>1. SUFFICES ASSUME Init PROVE Steady /\ Measured
    OBVIOUS
<1>2. Shape /\ Measured
    BY <1>1 DEF Init, Shape, Slot, Using, Measured
<1>3. Consistent
    BY <1>1 DEF Init, Consistent, Loads, Waits, Leases, Filled, Unique
<1>4. \A s \in Slots : Users(s) = {}
    BY <1>1 DEF Init, Users
<1>5. RefsAccount
    BY <1>1, <1>4, FS_EmptySet DEF Init, RefsAccount
<1>6. QED
    BY <1>2, <1>3, <1>5 DEF Steady
-----------------------------------------------------------------------------
\* A step that changes only reference counts of slots, and no promise or payload.
OnlyCounts ==
    /\ UNCHANGED <<payload, promise>>
    /\ slot' \in [Slots -> Slot]
    /\ \A s \in Slots : \E n \in Nat : slot'[s] = [slot[s] EXCEPT !.refs = n]

LEMMA CountsLeaveSlots ==
    ASSUME Steady, OnlyCounts
    PROVE  /\ \A s \in Slots :
                /\ slot'[s].expert = slot[s].expert
                /\ slot'[s].loading = slot[s].loading
                /\ slot'[s].generation = slot[s].generation
                /\ slot'[s].future = slot[s].future
           /\ Filled' /\ Unique'
<1>1. \A s \in Slots :
        /\ slot'[s].expert = slot[s].expert
        /\ slot'[s].loading = slot[s].loading
        /\ slot'[s].generation = slot[s].generation
        /\ slot'[s].future = slot[s].future
  <2> TAKE s \in Slots
  <2>1. PICK n \in Nat : slot'[s] = [slot[s] EXCEPT !.refs = n]
      BY DEF OnlyCounts
  <2>2. QED
      BY <2>1 DEF Steady, Shape, Slot
<1>2. QED
    BY <1>1 DEF OnlyCounts, Steady, Consistent, Filled, Unique

LEMMA RetainCounts ==
    ASSUME Steady, NEW s \in Slots, Retain(s, 1), UNCHANGED <<payload, promise>>
    PROVE  /\ OnlyCounts
           /\ slot'[s].refs = slot[s].refs + 1
           /\ \A t \in Slots \ {s} : slot'[t].refs = slot[t].refs
<1>1. slot[s].refs \in Nat /\ slot' = [slot EXCEPT ![s] = [slot[s] EXCEPT !.refs = slot[s].refs + 1]]
    BY DEF Retain, Steady, Shape, Slot
<1>2. \A t \in Slots : slot[t] = [slot[t] EXCEPT !.refs = slot[t].refs] /\ slot[t].refs \in Nat
    BY DEF Steady, Shape, Slot
<1>3. slot' \in [Slots -> Slot]
    BY <1>1 DEF Steady, Shape, Slot
<1>4. slot'[s] = [slot[s] EXCEPT !.refs = slot[s].refs + 1]
      /\ \A t \in Slots \ {s} : slot'[t] = slot[t]
    BY <1>1 DEF Steady, Shape
<1>5. \A t \in Slots : \E n \in Nat : slot'[t] = [slot[t] EXCEPT !.refs = n]
  <2> TAKE t \in Slots
  <2>1. CASE t = s
      BY <1>1, <1>4, <2>1
  <2>2. CASE t # s
      BY <1>2, <1>4, <2>2, ZenonT(30)
  <2>3. QED
      BY <2>1, <2>2
<1>6. slot'[s].refs = slot[s].refs + 1
    BY <1>4 DEF Steady, Shape, Slot
<1>7. QED
    BY <1>3, <1>4, <1>5, <1>6 DEF OnlyCounts

LEMMA UnrefCounts ==
    ASSUME Steady, NEW c \in Calls, pc[c] \in Using, UNCHANGED <<payload, promise>>,
           slot' = [slot EXCEPT ![at[c]].refs = Unref(at[c])]
    PROVE  /\ OnlyCounts
           /\ slot'[at[c]].refs = Unref(at[c])
           /\ \A t \in Slots \ {at[c]} : slot'[t].refs = slot[t].refs
<1> DEFINE s == at[c]
           n == Unref(at[c])
<1>1. s \in Slots /\ n \in Nat
  <2>1. s \in Slots
      BY DEF Steady, Shape
  <2>2. slot[at[c]].refs \in Nat \ {0} /\ Unref(at[c]) = slot[at[c]].refs - 1
      BY UsedIsCounted
  <2>3. n \in Nat
      BY <2>2
  <2>4. QED
      BY <2>1, <2>3
<1> HIDE DEF n, s
<1>2. slot' = [slot EXCEPT ![s] = [slot[s] EXCEPT !.refs = n]]
    BY DEF n, s
<1>3. \A t \in Slots : slot[t] = [slot[t] EXCEPT !.refs = slot[t].refs] /\ slot[t].refs \in Nat
    BY DEF Steady, Shape, Slot
<1>4. slot' \in [Slots -> Slot]
    BY <1>1, <1>2, SMTT(20) DEF Steady, Shape, Slot
<1>5. slot'[s] = [slot[s] EXCEPT !.refs = n] /\ \A t \in Slots \ {s} : slot'[t] = slot[t]
    BY <1>1, <1>2 DEF Steady, Shape
<1>6. \A t \in Slots : \E m \in Nat : slot'[t] = [slot[t] EXCEPT !.refs = m]
  <2> TAKE t \in Slots
  <2>1. CASE t = s
      BY <1>1, <1>5, <2>1
  <2>2. CASE t # s
      BY <1>3, <1>5, <2>2
  <2>3. QED
      BY <2>1, <2>2
<1>7. slot'[s].refs = n
    BY <1>1, <1>5 DEF Steady, Shape, Slot
<1>8. QED
    BY <1>4, <1>5, <1>6, <1>7 DEF OnlyCounts, n, s

LEMMA HitKeeps ==
    ASSUME Steady, NEW c \in Calls, Hit(c)
    PROVE  Steady'
<1>1. PICK s \in Holding(Want[c]) :
        ~slot[s].loading /\ Retain(s, 1) /\ at' = [at EXCEPT ![c] = s]
    BY DEF Hit
<1>2. s \in Slots /\ slot[s].expert = Want[c]
    BY <1>1 DEF Holding
<1>3. UNCHANGED <<payload, promise, wait>>
    BY DEF Hit
<1>4. /\ OnlyCounts
      /\ slot'[s].refs = slot[s].refs + 1
      /\ \A t \in Slots \ {s} : slot'[t].refs = slot[t].refs
    BY <1>1, <1>2, <1>3, RetainCounts
<1>5. /\ pc[c] = "new" /\ pc'[c] = "leased" /\ at'[c] = s
      /\ \A d \in Calls \ {c} : pc'[d] = pc[d] /\ at'[d] = at[d]
    BY <1>1 DEF Hit, Go, Steady, Shape
<1>6. Shape'
    BY <1>1, <1>2, <1>3, <1>4, <1>5 DEF OnlyCounts, Hit, Go, Steady, Shape, Using
<1>7. RefsAccount'
    BY <1>2, <1>4, <1>5, OneMoreUser DEF Using
<1>8. Consistent'
  <2> USE CountsLeaveSlots, <1>2, <1>3, <1>4, <1>5 DEF Steady, Shape, Consistent, Using
  <2>1. Loads'
      BY SMTT(20) DEF Loads
  <2>2. Waits'
      BY DEF Waits, Unchanged
  <2>3. Leases'
      BY <1>1 DEF Leases
  <2>4. QED
      BY <2>1, <2>2, <2>3
<1>9. QED
    BY <1>6, <1>7, <1>8 DEF Steady

LEMMA CoalesceKeeps ==
    ASSUME Steady, NEW c \in Calls, Coalesce(c)
    PROVE  Steady'
<1>1. PICK s \in Loading(c) : JoinLoad(c, s, 1)
    BY DEF Coalesce
<1>2. s \in Slots /\ slot[s].expert = Want[c] /\ slot[s].loading
    BY <1>1 DEF Loading, Holding
<1>3. UNCHANGED <<payload, promise>>
    BY <1>1 DEF JoinLoad
<1>4. /\ OnlyCounts
      /\ slot'[s].refs = slot[s].refs + 1
      /\ \A t \in Slots \ {s} : slot'[t].refs = slot[t].refs
    BY <1>1, <1>2, <1>3, RetainCounts DEF JoinLoad
<1>5. /\ pc[c] = "new" /\ pc'[c] = "waiting" /\ at'[c] = s
      /\ wait'[c].load = slot[s].future /\ wait'[c].generation = slot[s].generation
      /\ \A d \in Calls \ {c} : pc'[d] = pc[d] /\ at'[d] = at[d] /\ wait'[d] = wait[d]
    BY <1>1 DEF JoinLoad, Go, Steady, Shape
<1>6. [load |-> slot[s].future, generation |-> slot[s].generation]
        \in [load : Calls \cup {NoCall}, generation : Nat]
    BY <1>2 DEF Steady, Shape, Slot
<1>7. Shape'
    BY <1>1, <1>2, <1>3, <1>4, <1>5, <1>6 DEF OnlyCounts, JoinLoad, Go, Steady, Shape, Using
<1>8. RefsAccount'
    BY <1>2, <1>4, <1>5, OneMoreUser DEF Using
<1>9. Consistent'
  <2> USE CountsLeaveSlots, <1>2, <1>3, <1>4, <1>5 DEF Steady, Shape, Consistent, Using
  <2>1. Loads'
      BY DEF Loads
  <2>2. slot[s].future \in Calls /\ promise[slot[s].future] = "pending"
      BY DEF Loads
  <2>3. Waits'
      BY <2>2 DEF Waits, Unchanged
  <2>4. Leases'
      BY DEF Leases
  <2>5. QED
      BY <2>1, <2>3, <2>4
<1>10. QED
    BY <1>7, <1>8, <1>9 DEF Steady

LEMMA ReleaseKeeps ==
    ASSUME Steady, NEW c \in Calls, pc[c] \in Using \ {"loading", "read"},
           slot' = [slot EXCEPT ![at[c]].refs = Unref(at[c])],
           pc' \in [Calls -> {"new", "loading", "read", "waiting", "leased", "refused",
                              "failed", "raced", "released"}],
           pc'[c] \in {"released", "failed", "raced"},
           \A d \in Calls \ {c} : pc'[d] = pc[d],
           UNCHANGED <<payload, promise, at, wait>>
    PROVE  Steady'
<1>1. /\ OnlyCounts
      /\ slot'[at[c]].refs = Unref(at[c])
      /\ \A t \in Slots \ {at[c]} : slot'[t].refs = slot[t].refs
    BY UnrefCounts
<1>2. Shape'
    BY <1>1 DEF OnlyCounts, Steady, Shape, Using
<1>3. RefsAccount'
    BY <1>1, OneUserLess DEF Using
<1>4. Consistent'
  <2> USE CountsLeaveSlots, <1>1 DEF Steady, Shape, Consistent, Using
  <2>1. Loads'
      BY DEF Loads
  <2>2. Waits'
      BY DEF Waits, Unchanged
  <2>3. Leases'
      BY DEF Leases
  <2>4. QED
      BY <2>1, <2>2, <2>3
<1>5. QED
    BY <1>2, <1>3, <1>4 DEF Steady

LEMMA MissKeeps ==
    ASSUME Steady, NEW c \in Calls, Miss(c)
    PROVE  Steady'
<1>1. PICK s \in Victims :
        /\ slot' = [slot EXCEPT ![s] =
                [expert |-> Want[c], refs |-> 1, loading |-> TRUE,
                 generation |-> slot[s].generation + 1, future |-> c]]
        /\ payload' = [payload EXCEPT ![s] = NoExpert]
        /\ at' = [at EXCEPT ![c] = s]
    BY DEF Miss
<1>2. s \in Slots /\ slot[s].refs = 0 /\ ~slot[s].loading
    BY <1>1 DEF Victims, Free, Holding
<1>3. /\ \A t \in Slots : slot[t].expert # Want[c]
      /\ Want[c] \in Experts
    BY CacheAssumption DEF Miss, Holding
<1>4. \A d \in Calls : pc[d] \in Using => at[d] # s
    BY <1>2, FreeIsUnused
<1>5. /\ slot'[s].expert = Want[c] /\ slot'[s].refs = 1 /\ slot'[s].loading
      /\ slot'[s].future = c
      /\ \A t \in Slots \ {s} : slot'[t] = slot[t] /\ payload'[t] = payload[t]
    BY <1>1, <1>2 DEF Steady, Shape
<1>6. /\ pc[c] = "new" /\ pc'[c] = "loading" /\ at'[c] = s /\ promise'[c] = "pending"
      /\ \A d \in Calls \ {c} : pc'[d] = pc[d] /\ at'[d] = at[d] /\ promise'[d] = promise[d]
      /\ wait' = wait
    BY <1>1 DEF Miss, Go, Steady, Shape
<1>7. Shape'
  <2>1. [expert |-> Want[c], refs |-> 1, loading |-> TRUE,
         generation |-> slot[s].generation + 1, future |-> c] \in Slot
      BY <1>2, <1>3 DEF Steady, Shape, Slot
  <2>2. slot' \in [Slots -> Slot]
      BY <1>1, <1>2, <2>1 DEF Steady, Shape
  <2>3. pc' \in [Calls -> {"new", "loading", "read", "waiting", "leased", "refused",
                           "failed", "raced", "released"}]
        /\ promise' \in [Calls -> {"none", "pending", "value", "exception"}]
      BY DEF Miss, Go, Steady, Shape
  <2>4. QED
      BY <1>1, <1>2, <1>6, <2>2, <2>3 DEF Steady, Shape, Using
<1>8. RefsAccount'
    BY <1>2, <1>5, <1>6, OneMoreUser DEF Using
<1>9. Consistent'
  <2> USE <1>2, <1>3, <1>4, <1>5, <1>6 DEF Steady, Shape, Consistent, Using
  <2>1. Loads'
      BY DEF Loads
  <2>2. Waits'
      BY DEF Waits, Unchanged, Loads
  <2>3. Leases'
      BY DEF Leases
  <2>4. Filled' /\ Unique'
      BY DEF Filled, Unique
  <2>5. QED
      BY <2>1, <2>2, <2>3, <2>4
<1>10. QED
    BY <1>7, <1>8, <1>9 DEF Steady

LEMMA RefuseKeeps ==
    ASSUME Steady, NEW c \in Calls, Refuse(c)
    PROVE  Steady'
<1>1. /\ pc[c] = "new" /\ pc'[c] = "refused" /\ \A d \in Calls \ {c} : pc'[d] = pc[d]
      /\ UNCHANGED <<slot, payload, promise, at, wait>>
    BY DEF Refuse, Go, Steady, Shape
<1>2. Shape'
    BY <1>1 DEF Refuse, Go, Steady, Shape, Using
<1>3. RefsAccount'
    BY <1>1, SameUsers DEF Using
<1>4. Consistent'
    BY <1>1 DEF Steady, Shape, Consistent, Loads, Waits, Unchanged, Leases, Filled, Unique
<1>5. QED
    BY <1>2, <1>3, <1>4 DEF Steady

LEMMA LoadReadsKeeps ==
    ASSUME Steady, NEW c \in Calls, LoadReads(c)
    PROVE  Steady'
<1> DEFINE s == at[c]
<1>1. /\ pc[c] = "loading" /\ pc'[c] = "read" /\ \A d \in Calls \ {c} : pc'[d] = pc[d]
      /\ UNCHANGED <<slot, promise, at, wait>>
    BY DEF LoadReads, Go, Steady, Shape
<1>2. s \in Slots /\ slot[s].loading /\ slot[s].future = c /\ slot[s].expert = Want[c]
    BY <1>1 DEF Steady, Shape, Consistent, Loads, Using
<1>3. payload'[s] = Want[c] /\ \A t \in Slots \ {s} : payload'[t] = payload[t]
    BY <1>2 DEF LoadReads, Steady, Shape
<1>4. Shape'
    BY <1>1, CacheAssumption DEF LoadReads, Go, Steady, Shape, Using
<1>5. RefsAccount'
    BY <1>1, SameUsers DEF Using
<1>6. Consistent'
  <2> USE <1>1, <1>2, <1>3 DEF Steady, Shape, Consistent, Using
  <2>1. Loads'
      BY DEF Loads
  <2>2. Waits' /\ Leases'
      BY DEF Waits, Unchanged, Leases
  <2>3. Filled' /\ Unique'
      BY DEF Filled, Unique
  <2>4. QED
      BY <2>1, <2>2, <2>3
<1>7. QED
    BY <1>4, <1>5, <1>6 DEF Steady

LEMMA LoadSucceedsKeeps ==
    ASSUME Steady, NEW c \in Calls, LoadSucceeds(c)
    PROVE  Steady'
<1> DEFINE s == at[c]
<1>1. /\ pc[c] = "read" /\ pc'[c] = "leased" /\ promise'[c] = "value"
      /\ \A d \in Calls \ {c} : pc'[d] = pc[d] /\ promise'[d] = promise[d]
      /\ UNCHANGED <<payload, at, wait>>
    BY DEF LoadSucceeds, Go, Steady, Shape
<1>2. /\ s \in Slots /\ slot[s].loading /\ slot[s].future = c /\ slot[s].expert = Want[c]
      /\ payload[s] = Want[c]
    BY <1>1 DEF Steady, Shape, Consistent, Loads, Using
<1>3. slot' = [slot EXCEPT ![s].loading = FALSE, ![s].future = NoCall]
    BY DEF LoadSucceeds
<1>4. /\ ~slot'[s].loading /\ slot'[s].expert = slot[s].expert
      /\ slot'[s].refs = slot[s].refs /\ slot'[s].generation = slot[s].generation
      /\ \A t \in Slots \ {s} : slot'[t] = slot[t]
    BY <1>2, <1>3 DEF Steady, Shape, Slot
<1>5. Shape'
  <2>1. slot[s] \in Slot /\ slot'[s] = [slot[s] EXCEPT !.loading = FALSE, !.future = NoCall]
      BY <1>2, <1>3 DEF Steady, Shape, Slot
  <2>2. slot' \in [Slots -> Slot]
    <3>1. slot'[s] \in Slot
        BY <2>1 DEF Slot
    <3>2. DOMAIN slot' = Slots /\ \A t \in Slots : slot'[t] \in Slot
        BY <1>3, <1>4, <3>1 DEF Steady, Shape
    <3>3. slot' = [t \in Slots |-> slot'[t]]
        BY <1>3 DEF Steady, Shape
    <3>4. QED
        BY <3>2, <3>3
  <2>3. pc' \in [Calls -> {"new", "loading", "read", "waiting", "leased", "refused",
                           "failed", "raced", "released"}]
        /\ promise' \in [Calls -> {"none", "pending", "value", "exception"}]
      BY DEF LoadSucceeds, Go, Steady, Shape
  <2>4. QED
      BY <1>1, <2>2, <2>3 DEF Steady, Shape, Using
<1>6. RefsAccount'
    BY <1>1, <1>4, SameUsers DEF Using
<1>7. Consistent'
  <2> USE <1>1, <1>2, <1>4 DEF Steady, Shape, Consistent, Using
  <2>1. Loads'
      BY DEF Loads
  <2>2. Waits'
      BY DEF Waits, Unchanged, Loads
  <2>3. Leases'
      BY DEF Leases
  <2>4. Filled' /\ Unique'
      BY DEF Filled, Unique
  <2>5. QED
      BY <2>1, <2>2, <2>3, <2>4
<1>8. QED
    BY <1>5, <1>6, <1>7 DEF Steady

LEMMA LoadFailsKeeps ==
    ASSUME Steady, NEW c \in Calls, LoadFails(c)
    PROVE  Steady'
<1> DEFINE s == at[c]
<1>1. /\ pc[c] = "loading" /\ pc'[c] = "failed" /\ promise'[c] = "exception"
      /\ \A d \in Calls \ {c} : pc'[d] = pc[d] /\ promise'[d] = promise[d]
      /\ UNCHANGED <<payload, at, wait>>
    BY DEF LoadFails, LoadFailsWith, Go, Steady, Shape
<1>2. /\ s \in Slots /\ slot[s].loading /\ slot[s].future = c /\ slot[s].expert = Want[c]
      /\ Unref(s) \in Nat
    BY <1>1, UsedIsCounted DEF Steady, Shape, Consistent, Loads, Using
<1>3. slot' = [slot EXCEPT ![s].expert = NoExpert, ![s].refs = Unref(s),
                           ![s].loading = FALSE, ![s].future = NoCall]
    BY DEF LoadFails, LoadFailsWith
<1>4. /\ ~slot'[s].loading /\ slot'[s].expert = NoExpert /\ slot'[s].refs = Unref(s)
      /\ \A t \in Slots \ {s} : slot'[t] = slot[t]
    BY <1>2, <1>3 DEF Steady, Shape, Slot
<1>5. Shape'
    BY <1>1, <1>2, <1>3 DEF LoadFails, LoadFailsWith, Go, Steady, Shape, Slot, Using
<1>6. RefsAccount'
    BY <1>1, <1>4, OneUserLess DEF Using
<1>7. Consistent'
  <2> USE <1>1, <1>2, <1>4 DEF Steady, Shape, Consistent, Using
  <2>1. Loads'
      BY DEF Loads
  <2>2. Waits'
      BY DEF Waits, Unchanged, Loads
  <2>3. Leases'
      BY DEF Leases
  <2>4. Filled' /\ Unique'
      BY DEF Filled, Unique
  <2>5. QED
      BY <2>1, <2>2, <2>3, <2>4
<1>8. QED
    BY <1>5, <1>6, <1>7 DEF Steady

\* The waiter finds the slot unchanged, so it is never "raced".
LEMMA WaitKeeps ==
    ASSUME Steady, NEW c \in Calls, WaitEnds(c)
    PROVE  Steady' /\ pc'[c] # "raced"
<1>1. CASE WaitSucceeds(c)
  <2>1. pc[c] = "waiting" /\ promise[wait[c].load] = "value"
      BY <1>1 DEF WaitSucceeds, Go
  <2>2. Unchanged(c) /\ ~slot[at[c]].loading
      BY <2>1 DEF Steady, Consistent, Waits
  <2>3. pc' = [pc EXCEPT ![c] = "leased"] /\ UNCHANGED <<slot, payload, promise, at, wait>>
      BY <1>1, <2>2 DEF WaitSucceeds, Go
  <2>4. pc'[c] = "leased" /\ \A d \in Calls \ {c} : pc'[d] = pc[d]
      BY <2>3 DEF Steady, Shape
  <2>5. Shape'
      BY <2>1, <2>3 DEF Steady, Shape, Using
  <2>6. RefsAccount'
      BY <2>1, <2>3, <2>4, SameUsers DEF Using
  <2>7. Consistent'
      BY <2>1, <2>2, <2>3, <2>4
      DEF Steady, Shape, Consistent, Loads, Waits, Unchanged, Leases, Filled, Unique
  <2>8. QED
      BY <2>4, <2>5, <2>6, <2>7 DEF Steady
<1>2. CASE WaitFails(c)
  <2>1. /\ pc[c] = "waiting" /\ pc' = [pc EXCEPT ![c] = "failed"]
        /\ slot' = [slot EXCEPT ![at[c]].refs = Unref(at[c])]
        /\ UNCHANGED <<payload, promise, at, wait>>
      BY <1>2 DEF WaitFails, Go
  <2>2. pc'[c] = "failed" /\ \A d \in Calls \ {c} : pc'[d] = pc[d]
      BY <2>1 DEF Steady, Shape
  <2>3. pc' \in [Calls -> {"new", "loading", "read", "waiting", "leased", "refused",
                           "failed", "raced", "released"}]
      BY <2>1 DEF Steady, Shape
  <2>4. QED
      BY <2>1, <2>2, <2>3, ReleaseKeeps DEF Using
<1>3. QED
    BY <1>1, <1>2 DEF WaitEnds

LEMMA ReleaseSlotKeeps ==
    ASSUME Steady, NEW c \in Calls, ReleaseSlot(c)
    PROVE  Steady'
<1>1. /\ pc[c] = "leased" /\ pc' = [pc EXCEPT ![c] = "released"]
      /\ slot' = [slot EXCEPT ![at[c]].refs = Unref(at[c])]
      /\ UNCHANGED <<payload, promise, at, wait>>
    BY DEF ReleaseSlot, Go
<1>2. pc'[c] = "released" /\ \A d \in Calls \ {c} : pc'[d] = pc[d]
    BY <1>1 DEF Steady, Shape
<1>3. pc' \in [Calls -> {"new", "loading", "read", "waiting", "leased", "refused",
                         "failed", "raced", "released"}]
    BY <1>1 DEF Steady, Shape
<1>4. QED
    BY <1>1, <1>2, <1>3, ReleaseKeeps DEF Using

LEMMA StepKeepsSteady ==
    ASSUME Steady, [Next]_vars
    PROVE  Steady'
<1>1. CASE UNCHANGED vars
  <2>1. Shape'
      BY <1>1 DEF vars, shared, Steady, Shape
  <2>2. RefsAccount'
      BY <1>1, SameUsers DEF vars, shared
  <2>3. Consistent'
      BY <1>1 DEF vars, shared, Steady, Shape, Consistent, Loads, Waits, Unchanged,
                  Leases, Filled, Unique
  <2>4. QED
      BY <2>1, <2>2, <2>3 DEF Steady
<1>2. ASSUME NEW c \in Calls,
             Acquire(c) \/ LoadEnds(c) \/ WaitEnds(c) \/ ReleaseSlot(c)
      PROVE  Steady'
  <2>1. CASE Acquire(c)
      BY <2>1, HitKeeps, CoalesceKeeps, MissKeeps, RefuseKeeps DEF Acquire
  <2>2. CASE LoadEnds(c)
      BY <2>2, LoadReadsKeeps, LoadSucceedsKeeps, LoadFailsKeeps DEF LoadEnds
  <2>3. CASE WaitEnds(c) \/ ReleaseSlot(c)
      BY <2>3, WaitKeeps, ReleaseSlotKeeps, SMTT(20)
  <2>4. QED
      BY <1>2, <2>1, <2>2, <2>3
<1>3. QED
    BY <1>1, <1>2 DEF Next

LEMMA StepKeepsMeasured ==
    ASSUME Measured, [Next]_vars
    PROVE  Measured'
<1>1. CASE UNCHANGED metrics
    BY <1>1 DEF Measured
<1>2. ASSUME NEW m \in {"hits", "misses", "coalesced", "read"}, Count(m)
      PROVE  Measured'
    BY <1>2 DEF Count, Measured
<1>3. ASSUME NEW s, metrics' = [metrics EXCEPT !.misses = @ + 1, !.evictions = @ + Evicts(s)]
      PROVE  Measured'
  <2>1. Evicts(s) \in Nat
      BY DEF Evicts
  <2>2. ASSUME NEW n \in Nat, metrics' = [metrics EXCEPT !.misses = @ + 1, !.evictions = @ + n]
        PROVE  Measured'
    <3>1. metrics.misses \in Nat /\ metrics.evictions \in Nat
        BY DEF Measured
    <3>2. metrics.misses + 1 \in Nat /\ metrics.evictions + n \in Nat
        BY <2>2, <3>1
    <3>3. metrics' = [metrics EXCEPT !.misses = metrics.misses + 1,
                                     !.evictions = metrics.evictions + n]
        BY <2>2
    <3>4. QED
        BY <3>2, <3>3 DEF Measured
  <2>3. QED
      BY <1>3, <2>1, <2>2
<1>4. QED
    BY <1>1, <1>2, <1>3, ZenonT(30)
    DEF Next, vars, shared, Acquire, LoadEnds, WaitEnds, Hit, Coalesce, JoinLoad, Miss, Refuse,
        LoadReads, LoadSucceeds, LoadFails, LoadFailsWith, WaitSucceeds, WaitFails, ReleaseSlot

LEMMA SteadyAlways == Spec => [](Steady /\ Measured)
<1>1. Init => Steady /\ Measured
    BY InitSteady
<1>2. (Steady /\ Measured) /\ [Next]_vars => (Steady /\ Measured)'
    BY StepKeepsSteady, StepKeepsMeasured
<1>3. QED
    BY <1>1, <1>2, PTL DEF Spec
-----------------------------------------------------------------------------
\* ref_count is exactly the number of calls that load, wait for or lease the slot.
THEOREM RefsTheorem == Spec => []RefsAccount
<1>1. Steady => RefsAccount
    BY DEF Steady
<1>2. QED
    BY <1>1, SteadyAlways, PTL

\* The memory behind a lease holds what was asked for until the lease is released.
THEOREM LeaseTheorem == Spec => []LeaseKeepsBytes
<1>1. ASSUME Steady
      PROVE  LeaseKeepsBytes
  <2> SUFFICES ASSUME NEW c \in Calls, pc[c] = "leased"
               PROVE  payload[at[c]] = Want[c] /\ slot[at[c]].expert = Want[c]
      BY DEF LeaseKeepsBytes
  <2>1. ~slot[at[c]].loading /\ slot[at[c]].expert = Want[c] /\ at[c] \in Slots
      BY <1>1 DEF Steady, Shape, Using, Consistent, Leases
  <2>2. Want[c] # NoExpert
      BY CacheAssumption
  <2>3. QED
      BY <1>1, <2>1, <2>2 DEF Steady, Consistent, Filled
<1>2. QED
    BY <1>1, SteadyAlways, PTL

\* An expert is in one slot at most and is read by one call at a time.
THEOREM LoadedOnceTheorem == Spec => []LoadedOnce
<1>1. ASSUME Steady
      PROVE  LoadedOnce
  <2>1. ASSUME NEW e \in Experts
        PROVE  Cardinality(Holding(e)) <= 1
    <3>1. CASE Holding(e) = {}
        BY <3>1, FS_EmptySet
    <3>2. CASE Holding(e) # {}
      <4>1. PICK s \in Slots : slot[s].expert = e
          BY <3>2 DEF Holding
      <4>2. \A t \in Slots : slot[t].expert = e => t = s
        <5>1. Unique
            BY <1>1 DEF Steady, Consistent
        <5>2. e # NoExpert
            BY CacheAssumption
        <5>3. QED
            BY <4>1, <5>1, <5>2 DEF Unique
      <4>3. Holding(e) = {s}
          BY <4>1, <4>2 DEF Holding
      <4>4. Cardinality({s}) = 1
          BY FS_Singleton
      <4>5. QED
          BY <4>3, <4>4
    <3>3. QED
        BY <3>1, <3>2
  <2>2. ASSUME NEW c \in Calls, NEW d \in Calls, c # d,
               pc[c] \in {"loading", "read"}, pc[d] \in {"loading", "read"}
        PROVE  Want[c] # Want[d] /\ at[c] # at[d]
    <3>1. /\ at[c] \in Slots /\ slot[at[c]].future = c /\ slot[at[c]].expert = Want[c]
          /\ at[d] \in Slots /\ slot[at[d]].future = d /\ slot[at[d]].expert = Want[d]
        BY <1>1, <2>2 DEF Steady, Shape, Using, Consistent, Loads
    <3>2. Want[c] # NoExpert
        BY CacheAssumption
    <3>3. QED
        BY <1>1, <2>2, <3>1, <3>2 DEF Steady, Consistent, Unique
  <2>3. QED
      BY <2>1, <2>2 DEF LoadedOnce
<1>2. QED
    BY <1>1, SteadyAlways, PTL

\* The check behind "race condition detected" never fails.
THEOREM NeverRacesTheorem == Spec => []NeverRaces
<1>1. Init => NeverRaces
    BY DEF Init, NeverRaces
<1>2. ASSUME Steady, NeverRaces, [Next]_vars
      PROVE  NeverRaces'
  <2>1. CASE UNCHANGED vars
      BY <1>2, <2>1 DEF NeverRaces, vars
  <2>2. ASSUME NEW c \in Calls, WaitEnds(c)
        PROVE  NeverRaces'
    <3>1. pc'[c] # "raced"
        BY <1>2, <2>2, WaitKeeps
    <3>2. \A d \in Calls \ {c} : pc'[d] = pc[d]
        BY <1>2, <2>2 DEF WaitEnds, WaitSucceeds, WaitFails, Go, Steady, Shape
    <3>3. QED
        BY <1>2, <3>1, <3>2 DEF NeverRaces
  <2>3. ASSUME NEW c \in Calls, Acquire(c) \/ LoadEnds(c) \/ ReleaseSlot(c)
        PROVE  NeverRaces'
    <3>1. \E to \in {"leased", "waiting", "loading", "refused", "read", "failed", "released"} :
            pc' = [pc EXCEPT ![c] = to]
        BY <2>3 DEF Acquire, LoadEnds, Hit, Coalesce, JoinLoad, Miss, Refuse, LoadReads,
                    LoadSucceeds, LoadFails, LoadFailsWith, ReleaseSlot, Go
    <3>2. QED
        BY <1>2, <3>1 DEF NeverRaces, Steady, Shape
  <2>4. QED
      BY <1>2, <2>1, <2>2, <2>3 DEF Next
<1>3. QED
    BY <1>1, <1>2, SteadyAlways, PTL DEF Spec

\* Every variable keeps its type.
THEOREM CacheTypeTheorem == Spec => []TypeOK
<1>1. Steady /\ Measured => TypeOK
    BY DEF Steady, Shape, Measured, Consistent, Waits, TypeOK
<1>2. QED
    BY <1>1, SteadyAlways, PTL
-----------------------------------------------------------------------------
(* The counters: what is resident or about to be is what was read and not evicted. *)

Resident == {s \in Slots : slot[s].expert # NoExpert /\ ~slot[s].loading}
Arriving == {c \in Calls : pc[c] = "read"}

LEMMA BothAreFinite ==
    /\ IsFiniteSet(Resident) /\ Cardinality(Resident) \in Nat
    /\ IsFiniteSet(Arriving) /\ Cardinality(Arriving) \in Nat
    BY CacheAssumption, FS_Subset, FS_CardinalityType DEF Resident, Arriving

LEMMA BalanceOfSets ==
    /\ ReadOrEvicted <=>
         metrics.read - metrics.evictions = Cardinality(Resident) + Cardinality(Arriving)
    /\ ReadOrEvicted' <=>
         metrics'.read - metrics'.evictions = Cardinality(Resident') + Cardinality(Arriving')
    BY DEF ReadOrEvicted, Resident, Arriving

LEMMA SameBalance ==
    ASSUME ReadOrEvicted, Resident' = Resident, Arriving' = Arriving,
           metrics'.read = metrics.read, metrics'.evictions = metrics.evictions
    PROVE  ReadOrEvicted'
    BY BalanceOfSets

LEMMA LoadsBalance ==
    ASSUME Steady, Measured, ReadOrEvicted, NEW c \in Calls, LoadEnds(c)
    PROVE  ReadOrEvicted'
<1> DEFINE s == at[c]
<1>1. metrics.read \in Nat /\ metrics.evictions \in Nat
    BY DEF Measured
<1>2. ASSUME pc[c] \in {"loading", "read"}
      PROVE  s \in Slots /\ slot[s].loading /\ slot[s].expert = Want[c] /\ Want[c] # NoExpert
    BY <1>2, CacheAssumption DEF Steady, Shape, Using, Consistent, Loads
<1>3. CASE LoadReads(c)
  <2>1. /\ pc[c] = "loading" /\ pc'[c] = "read" /\ \A d \in Calls \ {c} : pc'[d] = pc[d]
        /\ slot' = slot
        /\ metrics'.read = metrics.read + 1 /\ metrics'.evictions = metrics.evictions
      BY <1>3 DEF LoadReads, Go, Count, Steady, Shape, Measured
  <2>2. Resident' = Resident
      BY <2>1 DEF Resident
  <2>3. Arriving' = Arriving \cup {c} /\ c \notin Arriving
      BY <2>1 DEF Arriving
  <2>4. Cardinality(Arriving') = Cardinality(Arriving) + 1
      BY <2>3, BothAreFinite, FS_AddElement
  <2>5. QED
      BY <1>1, <2>1, <2>2, <2>4, BothAreFinite, BalanceOfSets
<1>4. CASE LoadSucceeds(c)
  <2>1. /\ pc[c] = "read" /\ pc'[c] = "leased" /\ \A d \in Calls \ {c} : pc'[d] = pc[d]
        /\ metrics' = metrics
      BY <1>4 DEF LoadSucceeds, Go, Steady, Shape
  <2>2. /\ ~slot'[s].loading /\ slot'[s].expert = slot[s].expert
        /\ \A t \in Slots \ {s} : slot'[t] = slot[t]
      BY <1>2, <1>4, <2>1 DEF LoadSucceeds, Steady, Shape, Slot
  <2>3. Resident' = Resident \cup {s} /\ s \notin Resident
      BY <1>2, <2>1, <2>2 DEF Resident
  <2>4. Arriving' = Arriving \ {c} /\ c \in Arriving
      BY <2>1 DEF Arriving
  <2>5. /\ Cardinality(Resident') = Cardinality(Resident) + 1
        /\ Cardinality(Arriving') = Cardinality(Arriving) - 1
      BY <2>3, <2>4, BothAreFinite, FS_AddElement, FS_RemoveElement
  <2>6. QED
      BY <1>1, <2>1, <2>5, BothAreFinite, BalanceOfSets
<1>5. CASE LoadFails(c)
  <2>1. /\ pc[c] = "loading" /\ pc'[c] = "failed" /\ \A d \in Calls \ {c} : pc'[d] = pc[d]
        /\ metrics' = metrics
      BY <1>5 DEF LoadFails, LoadFailsWith, Go, Steady, Shape
  <2>2. /\ slot'[s].expert = NoExpert
        /\ \A t \in Slots \ {s} : slot'[t] = slot[t]
      BY <1>2, <1>5, <2>1 DEF LoadFails, LoadFailsWith, Steady, Shape, Slot
  <2>3. Resident' = Resident /\ Arriving' = Arriving
      BY <1>2, <2>1, <2>2 DEF Resident, Arriving
  <2>4. QED
      BY <2>1, <2>3, SameBalance
<1>6. QED
    BY <1>3, <1>4, <1>5 DEF LoadEnds

LEMMA MissBalances ==
    ASSUME Steady, Measured, ReadOrEvicted, NEW c \in Calls, Miss(c)
    PROVE  ReadOrEvicted'
<1>1. metrics.read \in Nat /\ metrics.evictions \in Nat
    BY DEF Measured
<1>2. PICK s \in Victims :
        /\ slot' = [slot EXCEPT ![s] =
                [expert |-> Want[c], refs |-> 1, loading |-> TRUE,
                 generation |-> slot[s].generation + 1, future |-> c]]
        /\ metrics' = [metrics EXCEPT !.misses = @ + 1, !.evictions = @ + Evicts(s)]
    BY DEF Miss
<1>3. s \in Slots /\ ~slot[s].loading
    BY <1>2 DEF Victims, Free, Holding
<1>4. slot'[s].loading /\ \A t \in Slots \ {s} : slot'[t] = slot[t]
    BY <1>2, <1>3 DEF Steady, Shape
<1>5. metrics'.read = metrics.read /\ metrics'.evictions = metrics.evictions + Evicts(s)
    BY <1>2 DEF Measured
<1>6. Arriving' = Arriving
    BY DEF Arriving, Miss, Go, Steady, Shape
<1>7. CASE slot[s].expert = NoExpert
  <2>1. Resident' = Resident
      BY <1>3, <1>4, <1>7 DEF Resident
  <2>2. metrics'.evictions = metrics.evictions
      BY <1>1, <1>5, <1>7 DEF Evicts
  <2>3. QED
      BY <1>5, <1>6, <2>1, <2>2, SameBalance
<1>8. CASE slot[s].expert # NoExpert
  <2>1. Resident' = Resident \ {s} /\ s \in Resident
      BY <1>3, <1>4, <1>8 DEF Resident
  <2>2. Cardinality(Resident') = Cardinality(Resident) - 1
      BY <2>1, BothAreFinite, FS_RemoveElement
  <2>3. metrics'.evictions = metrics.evictions + 1
      BY <1>5, <1>8 DEF Evicts
  <2>4. QED
      BY <1>1, <1>5, <1>6, <2>2, <2>3, BothAreFinite, BalanceOfSets
<1>9. QED
    BY <1>7, <1>8

\* The counters of metrics() account for every expert in the cache.
THEOREM ReadOrEvictedTheorem == Spec => []ReadOrEvicted
<1>1. ASSUME Init PROVE ReadOrEvicted
  <2>1. Resident = {} /\ Arriving = {}
      BY <1>1 DEF Init, Resident, Arriving
  <2>2. QED
    <3>1. Cardinality(Resident) = 0 /\ Cardinality(Arriving) = 0
        BY <2>1, FS_EmptySet
    <3>2. metrics.read = 0 /\ metrics.evictions = 0
        BY <1>1 DEF Init
    <3>3. QED
        BY <3>1, <3>2, BalanceOfSets
<1>2. ASSUME Steady, Measured, ReadOrEvicted, [Next]_vars
      PROVE  ReadOrEvicted'
  <2>1. CASE UNCHANGED vars
      BY <1>2, <2>1 DEF vars, shared, ReadOrEvicted
  <2>2. ASSUME NEW c \in Calls, Hit(c) \/ Coalesce(c) \/ Refuse(c) \/ WaitEnds(c) \/ ReleaseSlot(c)
        PROVE  ReadOrEvicted'
    <3>1. metrics'.read = metrics.read /\ metrics'.evictions = metrics.evictions
        BY <1>2, <2>2
        DEF Hit, Coalesce, JoinLoad, Refuse, WaitEnds, WaitSucceeds, WaitFails, ReleaseSlot,
            Count, Measured
    <3>2. \A d \in Calls : pc'[d] = "read" <=> pc[d] = "read"
        BY <1>2, <2>2
        DEF Hit, Coalesce, JoinLoad, Refuse, WaitEnds, WaitSucceeds, WaitFails, ReleaseSlot,
            Go, Steady, Shape
    <3>3. \A s \in Slots : slot'[s].expert = slot[s].expert /\ slot'[s].loading = slot[s].loading
        BY <1>2, <2>2
        DEF Hit, Coalesce, JoinLoad, Refuse, WaitEnds, WaitSucceeds, WaitFails, ReleaseSlot,
            Retain, Steady, Shape, Slot
    <3>4. Resident' = Resident /\ Arriving' = Arriving
        BY <3>2, <3>3 DEF Resident, Arriving
    <3>5. QED
        BY <1>2, <3>1, <3>4, SameBalance
  <2>3. QED
      BY <1>2, <2>1, <2>2, LoadsBalance, MissBalances DEF Next, Acquire
<1>3. QED
    BY <1>1, <1>2, SteadyAlways, PTL DEF Spec
=============================================================================
