----------------------------- MODULE CudaEngine -----------------------------
(***************************************************************************)
(* The continuous-batching engine of the CUDA backend (CudaSchedulerDriver, *)
(* src/backend/cuda/runtime/), with packed decoding: its requests run on    *)
(* lanes and keep their attention state in the pages of PagedKv.            *)
(*                                                                         *)
(* One step runs at a time, under "step_mutex_".  Clients call submit, poll, *)
(* cancel and release under "mutex_", which a step holds to admit, to plan, *)
(* and to apply the outcome of each request of a batch.  An admission is a  *)
(* loop: each turn of it is an action, and no client acts before it ends.   *)
(* Only the step touches the pages, so what it does to them between two     *)
(* critical sections belongs to the one before.                             *)
(***************************************************************************)
EXTENDS PagedKv

CONSTANTS
    MaxRequests,       \* ids 1 .. MaxRequests are submitted: bounds next_request_id_
    Prompt,            \* [Requests -> Seq(token)]
    MaxNew,            \* [Requests -> Nat \ {0}], max_new_tokens
    Priority,          \* [Requests -> Nat], larger first
    Embedded,          \* the requests submitted with a prompt embedding
    Lanes,             \* max_active_requests
    MaxBatchedTokens,  \* max_batched_tokens
    PrefillChunk,      \* prefill_chunk_tokens
    GuaranteedNoEvict  \* scheduler_policy, MaxUtilization otherwise

Requests == 1 .. MaxRequests

\* The constructor and submit() refuse everything else.
ASSUME CudaAssumption ==
    /\ MaxRequests \in Nat
    /\ Prompt \in [Requests -> Seq(Nat)]
    /\ \A r \in Requests : Prompt[r] # << >>
    /\ MaxNew \in [Requests -> Nat \ {0}]
    /\ Priority \in [Requests -> Nat]
    /\ Embedded \subseteq Requests
    /\ Lanes \in Nat \ {0}
    /\ MaxBatchedTokens \in Nat \ {0}
    /\ PrefillChunk \in Nat \ {0}
    /\ GuaranteedNoEvict \in BOOLEAN

VARIABLES
    status,     \* RequestStatus of each id, or whether the registry holds it at all
    offset,     \* prefill_offset
    generated,  \* tokens pushed to the output
    polled,     \* tokens popped from it
    cancelReq,  \* cancel_requested
    table,      \* pages
    kv,         \* paged_kv_ and prefix_cache_
    pc,         \* where the thread that holds step_mutex_ is
    work        \* the batch: tokens of each request whose outcome is to be applied

request == <<status, offset, generated, polled, cancelReq, table>>
vars    == <<request, kv, pc, work>>

Active   == {"Prefill", "Decoding"}  \* exactly the requests that have a lane
Terminal == {"Finished", "Cancelled", "Failed"}
Absent   == {"Unsubmitted", "Released"}

InStatus(S) == {r \in Requests : status[r] \in S}

TypeOK ==
    /\ status \in [Requests -> {"Queued"} \cup Active \cup Terminal \cup Absent]
    /\ offset \in [Requests -> Nat]
    /\ generated \in [Requests -> Nat]
    /\ polled \in [Requests -> Nat]
    /\ cancelReq \in [Requests -> BOOLEAN]
    /\ table \in [Requests -> Seq(Pages)]
    /\ kv \in Kv
    /\ pc \in {"idle", "admit1", "prefill", "prefilling", "decode", "decoding", "admit2"}
    /\ DOMAIN work \subseteq Requests /\ \A r \in DOMAIN work : work[r] \in Nat \ {0}

NoWork == [r \in {} |-> 0]

Init ==
    /\ status = [r \in Requests |-> "Unsubmitted"]
    /\ offset = [r \in Requests |-> 0]
    /\ generated = [r \in Requests |-> 0]
    /\ polled = [r \in Requests |-> 0]
    /\ cancelReq = [r \in Requests |-> FALSE]
    /\ table = [r \in Requests |-> << >>]
    /\ kv = EmptyKv
    /\ pc = "idle"
    /\ work = NoWork
-----------------------------------------------------------------------------
(* Client operations, each one critical section under mutex_. *)

Unlocked == pc \notin {"admit1", "admit2"}

Submit(r) ==
    /\ status[r] = "Unsubmitted"
    /\ \A q \in Requests : q < r => status[q] # "Unsubmitted"
    /\ status' = [status EXCEPT ![r] = "Queued"]
    /\ UNCHANGED <<offset, generated, polled, cancelReq, table, kv, pc, work>>

\* max_tokens = 0 asks for everything.
Poll(r, n) ==
    /\ status[r] \notin Absent
    /\ n \in 1 .. (generated[r] - polled[r])
    /\ polled' = [polled EXCEPT ![r] = @ + n]
    /\ UNCHANGED <<status, offset, generated, cancelReq, table, kv, pc, work>>

\* The flag alone: the next admission, plan or outcome acts on it.
Cancel(r) ==
    /\ status[r] \in {"Queued"} \cup Active
    /\ ~cancelReq[r]
    /\ cancelReq' = [cancelReq EXCEPT ![r] = TRUE]
    /\ UNCHANGED <<status, offset, generated, polled, table, kv, pc, work>>

\* Erases the request, which has no pages any more.
Release(r) ==
    /\ status[r] \in Terminal
    /\ status' = [status EXCEPT ![r] = "Released"]
    /\ offset' = [offset EXCEPT ![r] = 0]
    /\ generated' = [generated EXCEPT ![r] = 0]
    /\ polled' = [polled EXCEPT ![r] = 0]
    /\ cancelReq' = [cancelReq EXCEPT ![r] = FALSE]
    /\ UNCHANGED <<table, kv, pc, work>>

ClientNext ==
    /\ Unlocked
    /\ \E r \in Requests : Submit(r) \/ Cancel(r) \/ Release(r)
                           \/ \E n \in 1 .. MaxNew[r] : Poll(r, n)
-----------------------------------------------------------------------------
(* The end of requests, whatever the cause: finish_request_locked gives up  *)
(* the lane and the pages.                                                  *)

TablesOf(S) == [r \in S |-> table[r]]

\* Faulty: the pages stay with the request.
FinishOnly(S, state, end) ==
    /\ status' = [r \in Requests |-> IF r \in S THEN end ELSE status[r]]
    /\ kv' = state
    /\ UNCHANGED table

Finish(S, state, end) ==
    /\ status' = [r \in Requests |-> IF r \in S THEN end ELSE status[r]]
    /\ table' = [r \in Requests |-> IF r \in S THEN << >> ELSE table[r]]
    /\ kv' = ReleaseTables(state, TablesOf(S))
-----------------------------------------------------------------------------
(* Admission: one turn of the loop. *)

\* BatchPlanner: priority first, then age.
Before(q, r) == \/ Priority[q] > Priority[r]
                \/ Priority[q] = Priority[r] /\ q < r

First(S, k) == {r \in S : Cardinality({q \in S : Before(q, r)}) < k}

InOrder(S) ==
    [i \in 1 .. Cardinality(S) |->
        CHOOSE r \in S : Cardinality({q \in S : Before(q, r)}) = i - 1]

BestQueued == First(InStatus({"Queued"}), 1)

LaneFree == Cardinality(InStatus(Active)) < Lanes

Admitting == pc \in {"admit1", "admit2"}

AdmissionOver == pc' = IF pc = "admit1" THEN "prefill" ELSE "idle"

\* Faulty: no room is reserved for the tokens to come.
PromptOnly(r) == Len(Prompt[r])

Reservation(r) == Len(Prompt[r]) + (IF GuaranteedNoEvict THEN MaxNew[r] ELSE PageTokens)

\* The entry a request starts from.
Match(r) == IF r \in Embedded THEN {} ELSE Longest(kv, Prompt[r])

Matched(r) == IF Match(r) = {} THEN 0 ELSE Len((CHOOSE e \in Match(r) : TRUE).prompt)

Lease(r) ==
    IF Match(r) = {} THEN Obtain(kv, PagesFor(Reservation(r)), << >>)
    ELSE Acquire(kv, CHOOSE e \in Match(r) : TRUE, Reservation(r))

AdmitCancelled(r) ==
    /\ cancelReq[r]
    /\ Finish({r}, kv, "Cancelled")
    /\ UNCHANGED <<offset, pc>>

Admit(r) ==
    /\ ~cancelReq[r]
    /\ Lease(r).ok
    /\ kv' = Lease(r).kv
    /\ table' = [table EXCEPT ![r] = Lease(r).pages]
    /\ offset' = [offset EXCEPT ![r] = Matched(r)]
    /\ status' = [status EXCEPT ![r] =
                    IF Matched(r) = Len(Prompt[r]) THEN "Decoding" ELSE "Prefill"]
    /\ UNCHANGED pc

\* Faulty: the pages of a request whose lane cannot be made ready are forgotten.
LaneFailsAlone(r) ==
    /\ ~cancelReq[r]
    /\ Lease(r).ok
    /\ Finish({r}, Lease(r).kv, "Failed")
    /\ UNCHANGED <<offset, pc>>

\* Making the lane's model, or restoring a prefix into it, throws.
LaneFails(r) ==
    /\ ~cancelReq[r]
    /\ Lease(r).ok
    /\ Finish({r}, ReleasePages(Lease(r).kv, Lease(r).pages), "Failed")
    /\ UNCHANGED <<offset, pc>>

\* The loop stops at the first request that finds no pages.
NoPages(r) ==
    /\ ~cancelReq[r]
    /\ ~Lease(r).ok
    /\ kv' = Lease(r).kv
    /\ AdmissionOver
    /\ UNCHANGED <<status, offset, table>>

AdmitNext ==
    /\ Admitting /\ LaneFree
    /\ \E r \in BestQueued : AdmitCancelled(r) \/ Admit(r) \/ LaneFails(r) \/ NoPages(r)
    /\ UNCHANGED <<generated, polled, cancelReq, work>>

AdmitNobody ==
    /\ Admitting
    /\ ~LaneFree \/ BestQueued = {}
    /\ AdmissionOver
    /\ UNCHANGED <<request, kv, work>>

StepBegin ==
    /\ pc = "idle"
    /\ pc' = "admit1"
    /\ UNCHANGED <<request, kv, work>>
-----------------------------------------------------------------------------
(* Prefill. *)

Remaining(r) == Len(Prompt[r]) - offset[r]

\* Tokens of r where b are left; an embedded prompt ignores the budget.
Take(r, b) == IF r \in Embedded THEN Remaining(r) ELSE Min({Remaining(r), PrefillChunk, b})

\* The budget before and after each of a sequence of requests, -1 once the loop is left.
Budgets(order, first) ==
    LET left[i \in 0 .. Len(order)] ==
          IF i = 0 THEN first
          ELSE LET b == left[i - 1]
                   t == Take(order[i], b)
               IN  IF b < 0 \/ cancelReq[order[i]] \/ t = 0 THEN b
                   ELSE IF order[i] \in Embedded \/ t = b THEN -1
                   ELSE b - t
    IN  left

\* Decoding requests keep a token each of the budget.
PlanPrefill ==
    LET order   == InOrder(InStatus({"Prefill"}))
        waiting == {r \in InStatus({"Decoding"}) : ~cancelReq[r]}
        left    == Budgets(order, Max({0, MaxBatchedTokens - Cardinality(waiting)}))
        visited == {i \in DOMAIN order : left[i - 1] \in Nat}
        stopped == {order[i] : i \in {j \in visited : cancelReq[order[j]]}}
        batch   == {i \in visited : ~cancelReq[order[i]] /\ Take(order[i], left[i - 1]) > 0}
    IN  /\ pc = "prefill"
        /\ Finish(stopped, kv, "Cancelled")
        /\ work' = [r \in {order[i] : i \in batch} |->
                      Take(r, left[(CHOOSE i \in batch : order[i] = r) - 1])]
        /\ pc' = IF batch = {} THEN "decode" ELSE "prefilling"
        /\ UNCHANGED <<offset, generated, polled, cancelReq>>

\* The outcome of r has been applied.
Applied(r, next) ==
    /\ work' = [q \in DOMAIN work \ {r} |-> work[q]]
    /\ pc' = IF DOMAIN work = {r} THEN next ELSE pc

PrefillCancelled(r) ==
    /\ cancelReq[r]
    /\ Finish({r}, kv, "Cancelled")
    /\ UNCHANGED offset

\* A packed batch leaves out the requests cancelled since its plan.
PrefillLeftOut(r) == cancelReq[r] /\ UNCHANGED <<status, offset, table, kv>>

\* complete_prefill_locked puts the whole prompt in the cache.
PrefillSucceeds(r) ==
    /\ ~cancelReq[r]
    /\ offset' = [offset EXCEPT ![r] = @ + work[r]]
    /\ IF work[r] = Remaining(r)
       THEN /\ status' = [status EXCEPT ![r] = "Decoding"]
            /\ kv' = IF r \in Embedded THEN kv ELSE Insert(kv, Prompt[r], table[r])
       ELSE UNCHANGED <<status, kv>>
    /\ UNCHANGED table

\* The model call throws, even for a request that is to be cancelled.
Fails(r) == Finish({r}, kv, "Failed") /\ UNCHANGED offset

PrefillOutcome ==
    /\ pc = "prefilling"
    /\ \E r \in First(DOMAIN work, 1) :
          /\ PrefillCancelled(r) \/ PrefillLeftOut(r) \/ PrefillSucceeds(r) \/ Fails(r)
          /\ Applied(r, "decode")
    /\ UNCHANGED <<generated, polled, cancelReq>>
-----------------------------------------------------------------------------
(* Decoding. *)

\* Faulty: one token too few is counted.
CoversWritten(r) == Len(Prompt[r]) + generated[r] <= Len(table[r]) * PageTokens

\* The pages have a place for the token after the next one.
CoversNext(r) == Len(Prompt[r]) + generated[r] + 1 <= Len(table[r]) * PageTokens

\* Under MaxUtilization a request whose pages are full gets one more, and stays
\* out of the batch when there is none.
PlanDecode ==
    LET ready   == {r \in InStatus({"Decoding"}) : ~cancelReq[r]}
        stopped == {r \in InStatus({"Decoding"}) \ ready :
                      Cardinality({q \in ready : Before(q, r)}) < MaxBatchedTokens}
        planned == First(ready, MaxBatchedTokens)
        needy   == {r \in planned : ~GuaranteedNoEvict /\ ~CoversNext(r)}
        after   == ReleaseTables(kv, TablesOf(stopped))
        pressed == Pressed(after, Cardinality(needy), << >>)
        served  == First(needy, Cardinality(Free(pressed)))
        pages   == Taken(pressed, Cardinality(served))
        batch   == planned \ (needy \ served)
    IN  /\ pc = "decode"
        /\ status' = [r \in Requests |-> IF r \in stopped THEN "Cancelled" ELSE status[r]]
        /\ kv' = RetainPages(pressed, pages)
        /\ table' = [r \in Requests |->
                       IF r \in stopped THEN << >>
                       ELSE IF r \in served
                       THEN Append(table[r], pages[1 + Cardinality({q \in served : Before(q, r)})])
                       ELSE table[r]]
        /\ work' = [r \in batch |-> 1]
        /\ pc' = IF batch = {} THEN "admit2" ELSE "decoding"
        /\ UNCHANGED <<offset, generated, polled, cancelReq>>

DecodeCancelled(r) ==
    /\ cancelReq[r]
    /\ Finish({r}, kv, "Cancelled")
    /\ UNCHANGED generated

\* Faulty: what the client asked for during the model call is not looked at.
AcceptAnyway(r, eos) ==
    /\ generated' = [generated EXCEPT ![r] = @ + 1]
    /\ IF eos \/ generated[r] + 1 >= MaxNew[r]
       THEN Finish({r}, kv, "Finished")
       ELSE UNCHANGED <<status, table, kv>>

\* accept_token: the token is a stop token (eos) or not.
Accept(r, eos) ==
    /\ ~cancelReq[r]
    /\ generated' = [generated EXCEPT ![r] = @ + 1]
    /\ IF eos \/ generated[r] + 1 >= MaxNew[r]
       THEN Finish({r}, kv, "Finished")
       ELSE UNCHANGED <<status, table, kv>>

DecodeOutcome ==
    /\ pc = "decoding"
    /\ \E r \in DOMAIN work :
          /\ \/ DecodeCancelled(r)
             \/ \E eos \in BOOLEAN : Accept(r, eos)
             \/ Fails(r) /\ UNCHANGED generated
          /\ Applied(r, "admit2")
    /\ UNCHANGED <<offset, polled, cancelReq>>
-----------------------------------------------------------------------------
EngineNext == \/ StepBegin
              \/ AdmitNext
              \/ AdmitNobody
              \/ PlanPrefill
              \/ PrefillOutcome
              \/ PlanDecode
              \/ DecodeOutcome

Next == ClientNext \/ EngineNext

Spec == Init /\ [][Next]_vars

\* The thread that steps the engine keeps stepping and model calls return; nothing
\* is asked of the clients.  This is weak fairness of EngineNext, which is never
\* disabled: some action of the engine can be taken at each of its places.
FairSpec == Spec /\ []<><<EngineNext>>_vars
-----------------------------------------------------------------------------
(* Properties. *)

\* What clients see of the engine.
Service == INSTANCE RequestService WITH
    CancelLoses <- TRUE,
    svc <- [r \in Requests |->
              [status    |-> IF status[r] \in {"Queued"} \cup Active THEN "Live" ELSE status[r],
               produced  |-> generated[r],
               taken     |-> polled[r],
               cancelled |-> cancelReq[r]]]

\* Through submit, poll, cancel and release the engine is a RequestService: no
\* token is lost, repeated or added to a request that is over, and a cancelled
\* request gets none and ends Cancelled, or Failed when its model call throws.
ImplementsService == Service!ServiceSpec

\* Tables and cache entries that hold page p.
Holders(p) == {r \in Requests : p \in Range(table[r])}
Entries(p) == {e \in Range(kv.cache) : p \in Range(e.pages)}

\* Every page is counted once for each request and each cached prefix that holds
\* it: none is leaked by a failure, none is given back twice.
PagesAccount ==
    \A p \in Pages : kv.refs[p] = Cardinality(Holders(p)) + Cardinality(Entries(p))

\* Copy on write: the pages a request has yet to write to, from the one its
\* prefix ends in, are held by nobody else.
WritesAlone ==
    \A r \in InStatus(Active) : \A i \in DOMAIN table[r] :
       i > offset[r] \div PageTokens => kv.refs[table[r][i]] = 1

\* Under both policies, the pages of a request in a batch have a place for
\* every token the batch makes it write.
BatchHasPages ==
    \A r \in DOMAIN work :
       IF status[r] = "Prefill"
       THEN offset[r] + work[r] <= Len(table[r]) * PageTokens
       ELSE status[r] = "Decoding" =>
               Len(Prompt[r]) + generated[r] < Len(table[r]) * PageTokens

\* The head of the queue needs more pages than there are, or all of them and one
\* more for the copy of the last page of a prefix that its own match protects.
Blocked(r) ==
    LET need == PagesFor(Reservation(r))
    IN  /\ r \in BestQueued /\ ~cancelReq[r]
        /\ \/ need > NumPages
           \/ need = NumPages /\ Matched(r) % PageTokens # 0

\* Every request on a lane waits for a page, and only these requests hold pages.
Starved ==
    /\ ~GuaranteedNoEvict
    /\ InStatus(Active) # {}
    /\ Free(kv) = {} /\ kv.cache = << >>
    /\ \A r \in InStatus(Active) : status[r] = "Decoding" /\ ~cancelReq[r] /\ ~CoversNext(r)

Wedged == Starved \/ \E r \in Requests : Blocked(r)

\* Every accepted request is over some day, unless the engine stays wedged in
\* one of these two ways.
EndsUnlessWedged ==
    \/ <>[]Wedged
    \/ \A r \in Requests : status[r] \in {"Queued"} \cup Active
                              ~> status[r] \in Terminal \cup Absent
=============================================================================
