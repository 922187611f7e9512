----------------------------- MODULE CpuEngine ------------------------------
(***************************************************************************)
(* The continuous-batching engine of the CPU backend (CpuConcurrentEngine  *)
(* and CpuSchedulerDriver, src/backend/cpu/concurrent.cpp, with its         *)
(* admission controller, batch scheduler and request lifecycle).           *)
(*                                                                         *)
(* Clients call submit, poll, cancel and release under "mutex"; one step   *)
(* runs at a time, under "execution_mutex".  A step takes "mutex" only to  *)
(* plan a batch and to apply its outcome: the model call between the two   *)
(* runs unlocked over the session pointers of the plan, so every client    *)
(* operation may fall inside it.  Each critical section is one action.     *)
(***************************************************************************)
EXTENDS Naturals, FiniteSets, SequencesExt

CONSTANTS
    MaxRequests,          \* ids 1 .. MaxRequests are submitted: bounds next_id
    Prompt,               \* [Requests -> Seq(token)]
    MaxNew,               \* [Requests -> Nat \ {0}], max_new_tokens
    Priority,             \* [Requests -> Nat], larger first
    Embedded,             \* the requests submitted with a prompt embedding
    MaxActive,            \* max_active_requests
    MaxBatchedTokens,     \* max_batched_tokens
    MaxPrefillBatch,      \* max_prefill_batch
    MaxDecodeBatch,       \* max_decode_batch
    LongPrefillThreshold, \* long_prefill_threshold
    LongPrefillChunk,     \* long_prefill_chunk_tokens
    DecodeFirst,          \* decode_first
    CacheEntries          \* prefix_cache_max_entries, 0 when there is no cache

Requests == 1 .. MaxRequests

\* The driver's constructor and submit() refuse everything else.
ASSUME EngineAssumption ==
    /\ MaxRequests \in Nat
    /\ Prompt \in [Requests -> Seq(Nat)]
    /\ \A r \in Requests : Prompt[r] # << >>
    /\ MaxNew \in [Requests -> Nat \ {0}]
    /\ Priority \in [Requests -> Nat]
    /\ Embedded \subseteq Requests
    /\ MaxActive \in Nat \ {0}
    /\ MaxBatchedTokens \in Nat \ {0}
    /\ MaxPrefillBatch \in Nat \ {0}
    /\ MaxDecodeBatch \in Nat \ {0}
    /\ LongPrefillThreshold \in Nat \ {0}
    /\ LongPrefillChunk \in Nat \ {0}
    /\ DecodeFirst \in BOOLEAN
    /\ CacheEntries \in Nat

VARIABLES
    status,     \* RequestStatus of each id, or whether the map holds it at all
    offset,     \* prompt_offset
    generated,  \* generated.size()
    polled,     \* poll_offset
    cancelReq,  \* cancel_requested
    session,    \* session != nullptr
    cached,     \* the prompts the prefix cache holds
    metrics,    \* the request counters of ConcurrentMetrics
    running,    \* start() and stop(), for the worker thread of CpuWorker
    pc,         \* where the thread that holds execution_mutex is
    budget,     \* tokens this step may still spend
    batch       \* the batch whose model call is in flight

request == <<status, offset, generated, polled, cancelReq, session>>
step    == <<pc, budget, batch>>
vars    == <<request, cached, metrics, running, step>>

Active   == {"Prefill", "Decoding"}
Terminal == {"Finished", "Cancelled", "Failed"}
Absent   == {"Unsubmitted", "Released"}
Statuses == {"Queued"} \cup Active \cup Terminal \cup Absent

Kinds   == {"none", "decode", "embedded", "chunked", "ragged"}
NoBatch == [kind |-> "none", plan |-> {}, take |-> 0]

InStatus(S) == {r \in Requests : status[r] \in S}

TypeOK ==
    /\ status \in [Requests -> Statuses]
    /\ offset \in [Requests -> Nat]
    /\ generated \in [Requests -> Nat]
    /\ polled \in [Requests -> Nat]
    /\ cancelReq \in [Requests -> BOOLEAN]
    /\ session \in [Requests -> BOOLEAN]
    /\ cached \subseteq Seq(Nat)
    /\ metrics \in [{"submitted", "completed", "cancelled", "failed"} -> Nat]
    /\ running \in BOOLEAN
    /\ pc \in {"idle", "decode1", "prefill", "decode2", "end"}
    /\ budget \in 0 .. MaxBatchedTokens
    /\ batch \in [kind : Kinds, plan : SUBSET Requests, take : Nat]

Init ==
    /\ status = [r \in Requests |-> "Unsubmitted"]
    /\ offset = [r \in Requests |-> 0]
    /\ generated = [r \in Requests |-> 0]
    /\ polled = [r \in Requests |-> 0]
    /\ cancelReq = [r \in Requests |-> FALSE]
    /\ session = [r \in Requests |-> FALSE]
    /\ cached = {}
    /\ metrics = [c \in {"submitted", "completed", "cancelled", "failed"} |-> 0]
    /\ running = FALSE
    /\ pc = "idle"
    /\ budget = 0
    /\ batch = NoBatch

\* counter + n
Count(counter, n) == [metrics EXCEPT ![counter] = @ + n]
-----------------------------------------------------------------------------
(* Client operations, each one critical section under mutex. *)

\* Ids are handed out in the order of submission.
Submit(r) ==
    /\ status[r] = "Unsubmitted"
    /\ \A q \in Requests : q < r => status[q] # "Unsubmitted"
    /\ status' = [status EXCEPT ![r] = "Queued"]
    /\ metrics' = Count("submitted", 1)
    /\ UNCHANGED <<offset, generated, polled, cancelReq, session, cached, running, step>>

\* max = 0 asks for everything; an unknown id throws and changes nothing.
Poll(r, max) ==
    LET available == generated[r] - polled[r]
        count     == IF max = 0 \/ max > available THEN available ELSE max
    IN  /\ status[r] \notin Absent
        /\ count > 0
        /\ polled' = [polled EXCEPT ![r] = @ + count]
        /\ UNCHANGED <<status, offset, generated, cancelReq, session, cached,
                       metrics, running, step>>

\* Faulty: an active request is retired on the spot, its session with it.
CancelAtOnce(r) ==
    /\ status[r] \in {"Queued"} \cup Active
    /\ status' = [status EXCEPT ![r] = "Cancelled"]
    /\ session' = [session EXCEPT ![r] = FALSE]
    /\ metrics' = Count("cancelled", 1)
    /\ UNCHANGED <<offset, generated, polled, cancelReq, cached, running, step>>

\* A queued request is cancelled on the spot, an active one by the next batch
\* that carries it: its session may be in use.
Cancel(r) ==
    /\ \/ /\ status[r] = "Queued"
          /\ status' = [status EXCEPT ![r] = "Cancelled"]
          /\ metrics' = Count("cancelled", 1)
          /\ UNCHANGED cancelReq
       \/ /\ status[r] \in Active
          /\ cancelReq' = [cancelReq EXCEPT ![r] = TRUE]
          /\ UNCHANGED <<status, metrics>>
    /\ UNCHANGED <<offset, generated, polled, session, cached, running, step>>

\* Erases the request and all it holds.
Release(r) ==
    /\ status[r] \in Terminal
    /\ status' = [status EXCEPT ![r] = "Released"]
    /\ offset' = [offset EXCEPT ![r] = 0]
    /\ generated' = [generated EXCEPT ![r] = 0]
    /\ polled' = [polled EXCEPT ![r] = 0]
    /\ cancelReq' = [cancelReq EXCEPT ![r] = FALSE]
    /\ session' = [session EXCEPT ![r] = FALSE]
    /\ UNCHANGED <<cached, metrics, running, step>>

StartStop(on) ==
    /\ running # on
    /\ running' = on
    /\ UNCHANGED <<request, cached, metrics, step>>
-----------------------------------------------------------------------------
(* Order and selection. *)

\* BatchPlanner::order_priority: priority first, then age.
Before(q, r) == \/ Priority[q] > Priority[r]
                \/ Priority[q] = Priority[r] /\ q < r

\* The first k of S in that order.
First(S, k) == {r \in S : Cardinality({q \in S : Before(q, r)}) < k}

Smallest(S) == CHOOSE n \in S : \A m \in S : n <= m
-----------------------------------------------------------------------------
(* Admission. *)

\* What CpuPrefixCacheManager::acquire may match: the longest cached prompt
\* that is a prefix of this one.
Cached(r) == IF r \in Embedded THEN {} ELSE {p \in cached : IsPrefix(p, Prompt[r])}

Longest(r) == {p \in Cached(r) : \A q \in Cached(r) : Len(q) <= Len(p)}

Matched(r) == IF Longest(r) = {} THEN 0 ELSE Len(CHOOSE p \in Longest(r) : TRUE)

\* The loop over the queue: "visited" requests are tried in order, those whose
\* whole prompt is cached are "ready" to decode, those in "failed" throw (cloning
\* a session or restoring a snapshot), and the loop stops once every free slot is
\* taken.  A failure leaves whatever session it had created behind ("leaked") and
\* its slot free.
AdmitInto(available, ready, visited, failed, leaked) ==
    LET queued    == InStatus({"Queued"})
        admitted  == visited \ failed
        last(r)   == \A q \in visited : q = r \/ Before(q, r)
    IN  /\ \A r \in visited, q \in queued : Before(q, r) => q \in visited
        /\ Cardinality(admitted) <= available
        /\ IF Cardinality(admitted) = available
           THEN \A r \in visited : last(r) => r \in admitted
           ELSE visited = queued
        /\ status' = [r \in Requests |->
                        IF r \in failed THEN "Failed"
                        ELSE IF r \notin admitted THEN status[r]
                        ELSE IF r \in ready THEN "Decoding" ELSE "Prefill"]
        /\ session' = [r \in Requests |-> session[r] \/ r \in admitted \/ r \in leaked]
        /\ offset' = [r \in Requests |-> IF r \in admitted THEN Matched(r) ELSE offset[r]]
        /\ metrics' = Count("failed", Cardinality(failed))
        /\ UNCHANGED <<generated, polled, cancelReq, cached, running>>

FreeSlots(held) == IF held < MaxActive THEN MaxActive - held ELSE 0

Exact == {r \in Requests : Matched(r) = Len(Prompt[r])}

\* Faulty: only decoding requests are counted against max_active_requests.
AdmitOverPrefill(visited, failed, leaked) ==
    AdmitInto(FreeSlots(Cardinality(InStatus({"Decoding"}))), Exact, visited, failed, leaked)

\* Faulty: an exact match is treated as a partial one.
AdmitAllToPrefill(visited, failed, leaked) ==
    AdmitInto(FreeSlots(Cardinality(InStatus(Active))), {}, visited, failed, leaked)

Admit(visited, failed, leaked) ==
    AdmitInto(FreeSlots(Cardinality(InStatus(Active))), Exact, visited, failed, leaked)

Admission ==
    \E visited \in SUBSET InStatus({"Queued"}) :
       \E failed \in SUBSET visited : \E leaked \in SUBSET failed :
          Admit(visited, failed, leaked)
-----------------------------------------------------------------------------
(* One step of the scheduler. *)

StepBegin ==
    /\ pc = "idle"
    /\ Admission
    /\ budget' = MaxBatchedTokens
    /\ pc' = IF DecodeFirst THEN "decode1" ELSE "prefill"
    /\ UNCHANGED batch

StepEnd ==
    /\ pc = "end"
    /\ Admission
    /\ pc' = "idle"
    /\ UNCHANGED <<budget, batch>>

AfterDecode == IF pc = "decode1" THEN "prefill" ELSE "end"

\* Nothing is in flight and the phase is this one.
AtPhase(phases) == pc \in phases /\ batch = NoBatch

\* Faulty: the budget is not a limit.
DecodePlanUnbounded == First(InStatus({"Decoding"}), Smallest({MaxDecodeBatch, MaxActive}))

DecodePlan ==
    First(InStatus({"Decoding"}), Smallest({budget, MaxDecodeBatch, MaxActive}))

PlanDecode ==
    /\ AtPhase({"decode1", "decode2"})
    /\ DecodePlan # {}
    /\ batch' = [kind |-> "decode", plan |-> DecodePlan, take |-> 1]
    /\ UNCHANGED <<request, cached, metrics, running, pc, budget>>

\* Both run_decode_batch with nothing to decode and a spent budget.
SkipDecode ==
    /\ AtPhase({"decode1", "decode2"})
    /\ DecodePlan = {}
    /\ pc' = AfterDecode
    /\ UNCHANGED <<request, cached, metrics, running, budget, batch>>

PrefillLeft(n) ==
    First({r \in InStatus({"Prefill"}) : Len(Prompt[r]) - offset[r] >= n}, MaxActive)

Candidates == PrefillLeft(1)

LongPrefill(r) == /\ Candidates = {r}
                  /\ Len(Prompt[r]) - offset[r] >= LongPrefillThreshold
                  /\ budget >= LongPrefillThreshold

\* An embedded prompt is prefilled alone and ends the step's budget.
PlanEmbedded ==
    \E r \in First(Candidates \cap Embedded, 1) :
       /\ batch' = [kind |-> "embedded", plan |-> {r}, take |-> Len(Prompt[r]) - offset[r]]
       /\ budget' = 0

PlanChunked ==
    /\ Candidates \cap Embedded = {}
    /\ \E r \in Candidates :
          /\ LongPrefill(r)
          /\ batch' = [kind |-> "chunked", plan |-> {r},
                       take |-> Smallest({Len(Prompt[r]) - offset[r], budget, LongPrefillChunk})]
    /\ UNCHANGED budget

\* One prompt token of each of at most "limit" requests.
RaggedUpTo(limit) ==
    /\ Candidates # {}
    /\ Candidates \cap Embedded = {}
    /\ \A r \in Candidates : ~LongPrefill(r)
    /\ batch' = [kind |-> "ragged", plan |-> First(Candidates, limit), take |-> 1]
    /\ UNCHANGED budget

PlanRagged == RaggedUpTo(Smallest({budget, MaxPrefillBatch, MaxActive}))

PlanPrefill ==
    /\ AtPhase({"prefill"})
    /\ budget > 0
    /\ PlanEmbedded \/ PlanChunked \/ PlanRagged
    /\ UNCHANGED <<request, cached, metrics, running, pc>>

SkipPrefill ==
    /\ AtPhase({"prefill"})
    /\ budget = 0 \/ Candidates = {}
    /\ pc' = "decode2"
    /\ UNCHANGED <<request, cached, metrics, running, budget, batch>>

\* The batch is over: its tokens leave the budget and the step goes on.
Leave ==
    /\ batch' = NoBatch
    /\ budget' = IF batch.kind = "embedded" THEN budget
                 ELSE budget - batch.take * Cardinality(batch.plan)
    /\ pc' = IF batch.kind = "decode" THEN AfterDecode ELSE pc

\* CpuRequestLifecycle::cancel for every request of the batch that asked for it.
Stopped == {r \in batch.plan : cancelReq[r]}

\* apply_decode_token: the requests in "stopped" are retired, the others get their
\* token, and those in "eos" drew a stop token.
DecodeApplies(stopped, eos) ==
    LET served   == batch.plan \ stopped
        finished == {r \in served : r \in eos \/ generated[r] + 1 >= MaxNew[r]}
    IN  /\ batch.kind = "decode"
        /\ generated' = [r \in Requests |-> generated[r] + (IF r \in served THEN 1 ELSE 0)]
        /\ status' = [r \in Requests |-> IF r \in stopped THEN "Cancelled"
                                         ELSE IF r \in finished THEN "Finished"
                                         ELSE status[r]]
        /\ session' = [r \in Requests |-> session[r] /\ r \notin stopped \cup finished]
        /\ metrics' = [metrics EXCEPT !.cancelled = @ + Cardinality(stopped),
                                      !.completed = @ + Cardinality(finished)]
        /\ Leave
        /\ UNCHANGED <<offset, polled, cancelReq, cached, running>>

\* Faulty: the wish to cancel is looked at only when a batch fails.
DecodeIgnoresCancel(eos) == DecodeApplies({}, eos)

DecodeSucceeds(eos) == DecodeApplies(Stopped, eos)

\* apply_prefill, then cache_completed_prefix_locked: the cache keeps some of
\* its entries and the completed prompts, as its two limits allow.
PrefillSucceeds(keep) ==
    LET served    == batch.plan \ Stopped
        completed == {r \in served : offset[r] + batch.take >= Len(Prompt[r])}
    IN  /\ batch.kind \in {"embedded", "chunked", "ragged"}
        /\ offset' = [r \in Requests |-> IF r \in completed THEN Len(Prompt[r])
                                         ELSE IF r \in served THEN offset[r] + batch.take
                                         ELSE offset[r]]
        /\ status' = [r \in Requests |-> IF r \in Stopped THEN "Cancelled"
                                         ELSE IF r \in completed THEN "Decoding"
                                         ELSE status[r]]
        /\ session' = [r \in Requests |-> session[r] /\ r \notin Stopped]
        /\ metrics' = Count("cancelled", Cardinality(Stopped))
        /\ cached' = keep
        /\ keep \subseteq cached \cup {Prompt[r] : r \in completed \ Embedded}
        /\ Cardinality(keep) <= CacheEntries
        /\ completed \subseteq Embedded => keep = cached
        /\ Leave
        /\ UNCHANGED <<generated, polled, cancelReq, running>>

\* The model call threw: CpuRequestLifecycle::fail for the whole batch.
FailAll(failures) ==
    LET failed == batch.plan \ Stopped
    IN  /\ batch.kind # "none"
        /\ status' = [r \in Requests |-> IF r \in Stopped THEN "Cancelled"
                                         ELSE IF r \in failed THEN "Failed"
                                         ELSE status[r]]
        /\ session' = [r \in Requests |-> session[r] /\ r \notin batch.plan]
        /\ metrics' = [metrics EXCEPT !.cancelled = @ + Cardinality(Stopped),
                                      !.failed = @ + failures]
        /\ Leave
        /\ UNCHANGED <<offset, generated, polled, cancelReq, cached, running>>

\* Faulty: the cancelled ones are counted as failed, too.
BatchFailsTwice == FailAll(Cardinality(batch.plan))

BatchFails == FailAll(Cardinality(batch.plan \ Stopped))
-----------------------------------------------------------------------------
ClientNext ==
    \/ \E r \in Requests : \/ Submit(r)
                           \/ \E max \in 0 .. MaxNew[r] : Poll(r, max)
                           \/ Cancel(r)
                           \/ Release(r)
    \/ \E on \in BOOLEAN : StartStop(on)

EngineNext ==
    \/ StepBegin
    \/ PlanDecode
    \/ SkipDecode
    \/ PlanPrefill
    \/ SkipPrefill
    \/ \E eos \in SUBSET batch.plan : DecodeSucceeds(eos)
    \/ \E keep \in SUBSET (cached \cup {Prompt[r] : r \in batch.plan}) : PrefillSucceeds(keep)
    \/ BatchFails
    \/ StepEnd

Next == ClientNext \/ EngineNext

Spec == Init /\ [][Next]_vars
-----------------------------------------------------------------------------
(* Properties. *)

\* The model call of a batch runs without the lock on raw CpuModel pointers
\* (concurrent.cpp, sessions.push_back and items.push_back): no client
\* operation may retire a request of the batch or destroy its session while
\* the call is in flight.
SessionsPinned ==
    \A r \in batch.plan : session[r] /\ status[r] \in Active

\* However the two admissions of a step fall between cancellations, failures
\* and completions, no more than max_active_requests hold a slot.
ActiveBound == Cardinality(InStatus(Active)) <= MaxActive

\* Every accepted request is counted once: the lifetime counters of metrics()
\* and the two gauges it computes always add up, on every error path.
MetricsBalance ==
    metrics.submitted = metrics.completed + metrics.cancelled + metrics.failed
                        + Cardinality(InStatus(Active \cup {"Queued"}))

\* The phase of a request agrees with its prompt: no token is sampled before
\* the whole prompt is in the session, by prefill or by a cached prefix, and a
\* request in Prefill always has a token left, or it would be a candidate of no
\* batch and hold its slot for ever.
PhaseMatchesPrompt ==
    \A r \in Requests :
       /\ status[r] = "Decoding" => offset[r] = Len(Prompt[r]) /\ generated[r] < MaxNew[r]
       /\ status[r] = "Prefill" => offset[r] < Len(Prompt[r]) /\ generated[r] = 0
       /\ generated[r] > 0 => offset[r] = Len(Prompt[r])

\* "budget -= ..." is unsigned: what a batch takes fits in what the step has left.
BudgetCovers ==
    batch.kind \notin {"none", "embedded"} =>
       batch.take * Cardinality(batch.plan) <= budget

\* The engine keeps the promises of the service interface: tokens are never lost,
\* repeated or added once a cancel was accepted or the request is over, an
\* accepted cancel ends in Cancelled even when the batch fails, and only a
\* request that is over is forgotten.
ServiceStatus(r) ==
    IF status[r] \in {"Queued"} \cup Active THEN "Live" ELSE status[r]

Service == INSTANCE RequestService WITH
    CancelLoses <- FALSE,
    svc <- [r \in Requests |->
              [status    |-> ServiceStatus(r),
               produced  |-> generated[r],
               taken     |-> polled[r],
               cancelled |-> cancelReq[r] \/ (status[r] = "Cancelled")]]

ImplementsService == Service!ServiceSpec
=============================================================================
