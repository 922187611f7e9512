--------------------------- MODULE HostExpertCache ---------------------------
(***************************************************************************)
(* The cache of expert weights in host memory (HostExpertCache,             *)
(* src/runtime/cache/host_expert_cache.cpp).  Calls of acquire come from    *)
(* the I/O workers of several sessions at once.  A call that misses takes a *)
(* slot and reads the weights into it without the lock; calls for the same  *)
(* expert meanwhile take a reference and wait on the load's shared future;  *)
(* a call that succeeds returns a lease, which its owner releases.          *)
(*                                                                         *)
(* An element of Calls is one call of acquire and the lease it returns.     *)
(* Which of the unreferenced slots is the victim depends on heat and age,   *)
(* which are floating-point: any of them may be chosen.                     *)
(***************************************************************************)
EXTENDS Integers, FiniteSets

CONSTANTS Calls, Slots, Experts,
          Want, \* the expert (and layer) each call asks for
          NoExpert, NoCall, NoSlot

ASSUME CacheAssumption ==
    /\ IsFiniteSet(Calls) /\ IsFiniteSet(Slots)
    /\ Want \in [Calls -> Experts]
    /\ NoExpert \notin Experts
    /\ NoCall \notin Calls
    /\ NoSlot \notin Slots

VARIABLES
    slot,    \* slots_: expert (and layer), ref_count, loading, generation, shared_fut
    payload, \* the expert whose weights a slot's memory holds
    promise, \* the promise of the load a call has started
    pc,      \* where each call is
    at,      \* slot_idx
    wait,    \* what a coalesced call remembers: the load and expected_gen
    metrics  \* hits_, misses_, coalesced_waits_, evictions_, bytes_read_ in experts

shared == <<slot, payload, promise, metrics>>
vars   == <<shared, pc, at, wait>>

Slot == [expert : Experts \cup {NoExpert}, refs : Nat, loading : BOOLEAN,
         generation : Nat, future : Calls \cup {NoCall}]

Init ==
    /\ slot = [s \in Slots |-> [expert |-> NoExpert, refs |-> 0, loading |-> FALSE,
                                generation |-> 0, future |-> NoCall]]
    /\ payload = [s \in Slots |-> NoExpert]
    /\ promise = [c \in Calls |-> "none"]
    /\ pc = [c \in Calls |-> "new"]
    /\ at = [c \in Calls |-> NoSlot]
    /\ wait = [c \in Calls |-> [load |-> NoCall, generation |-> 0]]
    /\ metrics = [hits |-> 0, misses |-> 0, coalesced |-> 0, evictions |-> 0, read |-> 0]

\* find_slot; the faulty one does not see a load in flight.
HoldingLoaded(e) == {s \in Slots : slot[s].expert = e /\ ~slot[s].loading}
Holding(e)       == {s \in Slots : slot[s].expert = e}

\* The faulty test takes a leased slot.
FreeUnlessLoading(s) == ~slot[s].loading
Free(s)              == slot[s].refs = 0 /\ ~slot[s].loading

\* Only a slot with an expert is evicted; the faulty count is of all misses.
AlwaysEvicts(s) == 1
Evicts(s)       == IF slot[s].expert # NoExpert THEN 1 ELSE 0

\* choose_victim_slot: an empty slot if there is one, else one nobody refers to.
Victims ==
    LET empty == {s \in Holding(NoExpert) : Free(s)}
    IN IF empty # {} THEN empty ELSE {s \in Slots : Free(s)}

Go(c, from, to) == pc[c] = from /\ pc' = [pc EXCEPT ![c] = to]
Count(m)     == metrics' = [metrics EXCEPT ![m] = @ + 1]
Retain(s, n) == slot' = [slot EXCEPT ![s].refs = @ + n]
Unref(s)     == IF slot[s].refs > 0 THEN slot[s].refs - 1 ELSE 0
-----------------------------------------------------------------------------
(* The first critical section of acquire *)

Hit(c) ==
    /\ Go(c, "new", "leased")
    /\ \E s \in Holding(Want[c]) :
        /\ ~slot[s].loading
        /\ Retain(s, 1)
        /\ at' = [at EXCEPT ![c] = s]
    /\ Count("hits")
    /\ UNCHANGED <<payload, promise, wait>>

JoinLoad(c, s, references) ==
    /\ Go(c, "new", "waiting")
    /\ Retain(s, references)
    /\ at' = [at EXCEPT ![c] = s]
    /\ wait' = [wait EXCEPT ![c] =
            [load |-> slot[s].future, generation |-> slot[s].generation]]
    /\ Count("coalesced")
    /\ UNCHANGED <<payload, promise>>

Loading(c) == {s \in Holding(Want[c]) : slot[s].loading}

CoalesceWeakly(c) == \E s \in Loading(c) : JoinLoad(c, s, 0)          \* faulty: no reference

Coalesce(c) == \E s \in Loading(c) : JoinLoad(c, s, 1)

\* From here on the slot's memory is being overwritten.
Miss(c) ==
    /\ Go(c, "new", "loading")
    /\ Holding(Want[c]) = {}
    /\ \E s \in Victims :
        /\ slot' = [slot EXCEPT ![s] =
                [expert |-> Want[c], refs |-> 1, loading |-> TRUE,
                 generation |-> slot[s].generation + 1, future |-> c]]
        /\ payload' = [payload EXCEPT ![s] = NoExpert]
        /\ at' = [at EXCEPT ![c] = s]
        /\ metrics' = [metrics EXCEPT !.misses = @ + 1,
                          !.evictions = @ + Evicts(s)]
    /\ promise' = [promise EXCEPT ![c] = "pending"]
    /\ UNCHANGED wait

\* "out of free slots (all leased/loading)"
Refuse(c) ==
    /\ Go(c, "new", "refused")
    /\ Holding(Want[c]) = {}
    /\ Victims = {}
    /\ Count("misses")
    /\ UNCHANGED <<slot, payload, promise, at, wait>>
-----------------------------------------------------------------------------
(* The load, and what follows it *)

\* loader_fn has returned: bytes_read_ is counted before the slot is opened.
LoadReads(c) ==
    /\ Go(c, "loading", "read")
    /\ payload' = [payload EXCEPT ![at[c]] = Want[c]]
    /\ Count("read")
    /\ UNCHANGED <<slot, promise, at, wait>>

LoadSucceeds(c) ==
    /\ Go(c, "read", "leased")
    /\ promise' = [promise EXCEPT ![c] = "value"]
    /\ slot' = [slot EXCEPT ![at[c]].loading = FALSE, ![at[c]].future = NoCall]
    /\ UNCHANGED <<payload, metrics, at, wait>>

LoadFailsWith(c, outcome, refs) ==
    /\ Go(c, "loading", "failed")
    /\ promise' = [promise EXCEPT ![c] = outcome]
    /\ slot' = [slot EXCEPT ![at[c]].expert = NoExpert, ![at[c]].refs = refs,
                            ![at[c]].loading = FALSE, ![at[c]].future = NoCall]
    /\ UNCHANGED <<payload, metrics, at, wait>>

LoadFailsSilently(c) == LoadFailsWith(c, "pending", Unref(at[c]))  \* faulty: the future stays
LoadFailsAlone(c)    == LoadFailsWith(c, "exception", 0)           \* faulty: waiters forgotten

LoadFails(c) == LoadFailsWith(c, "exception", Unref(at[c]))

\* The slot is still the one whose load was waited for.
Unchanged(c) ==
    /\ slot[at[c]].expert = Want[c]
    /\ slot[at[c]].generation = wait[c].generation

WaitSucceeds(c) ==
    /\ Go(c, "waiting", IF Unchanged(c) THEN "leased" ELSE "raced")
    /\ promise[wait[c].load] = "value"
    /\ slot' = IF Unchanged(c) THEN slot ELSE [slot EXCEPT ![at[c]].refs = Unref(at[c])]
    /\ UNCHANGED <<payload, promise, metrics, at, wait>>

WaitFails(c) ==
    /\ Go(c, "waiting", "failed")
    /\ promise[wait[c].load] = "exception"
    /\ slot' = [slot EXCEPT ![at[c]].refs = Unref(at[c])]
    /\ UNCHANGED <<payload, promise, metrics, at, wait>>

\* release_slot, from ~ExpertHostLease or release()
ReleaseSlot(c) ==
    /\ Go(c, "leased", "released")
    /\ slot' = [slot EXCEPT ![at[c]].refs = Unref(at[c])]
    /\ UNCHANGED <<payload, promise, metrics, at, wait>>
-----------------------------------------------------------------------------
Acquire(c) == Hit(c) \/ Coalesce(c) \/ Miss(c) \/ Refuse(c)
LoadEnds(c) == LoadReads(c) \/ LoadSucceeds(c) \/ LoadFails(c)
WaitEnds(c) == WaitSucceeds(c) \/ WaitFails(c)

Next == \E c \in Calls : Acquire(c) \/ LoadEnds(c) \/ WaitEnds(c) \/ ReleaseSlot(c)

Spec == Init /\ [][Next]_vars

\* A read of the expert file returns or throws, and a thread that waits on a
\* future that is ready goes on.  Nobody is obliged to release a lease.
FairSpec == Spec /\ \A c \in Calls : WF_vars(LoadEnds(c)) /\ WF_vars(WaitEnds(c))
-----------------------------------------------------------------------------
(* Properties *)

Users(s) == {c \in Calls : pc[c] \in {"loading", "read", "waiting", "leased"} /\ at[c] = s}

TypeOK ==
    /\ slot \in [Slots -> Slot]
    /\ payload \in [Slots -> Experts \cup {NoExpert}]
    /\ promise \in [Calls -> {"none", "pending", "value", "exception"}]
    /\ pc \in [Calls -> {"new", "loading", "read", "waiting", "leased", "refused",
                         "failed", "raced", "released"}]
    /\ at \in [Calls -> Slots \cup {NoSlot}]
    /\ wait \in [Calls -> [load : Calls \cup {NoCall}, generation : Nat]]
    /\ metrics \in [hits : Nat, misses : Nat, coalesced : Nat, evictions : Nat, read : Nat]
    /\ \A c \in Calls : pc[c] = "waiting" => wait[c].load \in Calls

\* The memory behind a lease holds the weights of the expert that was asked for
\* until the lease is released, whoever loads, waits or fails meanwhile.
LeaseKeepsBytes ==
    \A c \in Calls : pc[c] = "leased" =>
        payload[at[c]] = Want[c] /\ slot[at[c]].expert = Want[c]

\* ref_count is the number of calls that load, wait for or lease the slot: it
\* neither leaks, which would lose the slot for good, nor runs out early, however
\* failed loads, failed waits and releases interleave (the clamps at zero never act).
RefsAccount == \A s \in Slots : slot[s].refs = Cardinality(Users(s))

\* "race condition detected" (host_expert_cache.cpp:213) is never thrown.
NeverRaces == \A c \in Calls : pc[c] # "raced"

\* An expert is read by one call at a time and is in one slot at most, and no two
\* calls write one slot.
LoadedOnce ==
    /\ \A e \in Experts : Cardinality(Holding(e)) <= 1
    /\ \A c, d \in Calls :
        pc[c] \in {"loading", "read"} /\ pc[d] \in {"loading", "read"} /\ c # d =>
            Want[c] # Want[d] /\ at[c] # at[d]

\* The counters of metrics() agree with resident_bytes(): what was read and not
\* evicted is resident, or is read and about to be.
ReadOrEvicted ==
    metrics.read - metrics.evictions =
        Cardinality({s \in Slots : slot[s].expert # NoExpert /\ ~slot[s].loading})
        + Cardinality({c \in Calls : pc[c] = "read"})

\* A call that waits for a load, its own or another's, ends: the future of a load
\* is always fulfilled.
CallsEnd == \A c \in Calls : pc[c] \in {"loading", "waiting"} ~>
                             pc[c] \in {"leased", "failed", "raced", "released"}
=============================================================================
