-------------------------- MODULE CpuEngineProofs ---------------------------
(***************************************************************************)
(* Theorems of CpuEngine, for every number of requests, every prompt, limit *)
(* and priority: the sessions of a batch in flight stay alive, the phase of *)
(* a request agrees with what its session has seen, at most                 *)
(* max_active_requests hold a slot, the counters of metrics() add up, and   *)
(* what clients see of the engine is a RequestService; and theorems of the  *)
(* engine under its worker, CpuWorker.                                      *)
(***************************************************************************)
EXTENDS CpuWorker, FiniteSetTheorems, Integers, TLAPS

\* The part of the type invariant the two proofs need.
Shape ==
    /\ status \in [Requests -> Statuses]
    /\ offset \in [Requests -> Nat]
    /\ generated \in [Requests -> Nat]
    /\ cancelReq \in [Requests -> BOOLEAN]
    /\ session \in [Requests -> BOOLEAN]
    /\ cached \subseteq Seq(Nat)
    /\ budget \in Int
    /\ batch \in [kind : Kinds, plan : SUBSET Requests, take : Nat]

\* Why no client can pull a session from under a batch: an active request holds
\* a session, and the requests of the batch stay in the phase it was planned for,
\* since clients only retire queued requests and only the step moves active ones.
ActiveHolds == \A r \in Requests : status[r] \in Active => session[r]

BatchInPhase ==
    /\ batch.kind = "none" => batch.plan = {}
    /\ \A r \in batch.plan :
          status[r] = IF batch.kind = "decode" THEN "Decoding" ELSE "Prefill"

Pinned == Shape /\ ActiveHolds /\ BatchInPhase

\* Nothing is generated before a request leaves the queue.
NothingYet ==
    \A r \in Requests : status[r] \in {"Unsubmitted", "Queued"} => generated[r] = 0

Phased == Pinned /\ NothingYet /\ PhaseMatchesPrompt
-----------------------------------------------------------------------------
LEMMA MatchedIsPartial ==
    ASSUME Shape, NEW r \in Requests
    PROVE  Matched(r) \in Nat /\ Matched(r) <= Len(Prompt[r]) /\ Len(Prompt[r]) \in Nat
<1>1. Prompt[r] \in Seq(Nat)
    BY EngineAssumption
<1>2. CASE Longest(r) = {}
    BY <1>1, <1>2 DEF Matched
<1>3. CASE Longest(r) # {}
  <2>1. PICK p \in Longest(r) : Matched(r) = Len(p)
    BY <1>3 DEF Matched
  <2>2. p \in Seq(Nat) /\ IsPrefix(p, Prompt[r])
    BY DEF Longest, Cached, Shape
  <2>3. QED
    BY <1>1, <2>1, <2>2 DEF IsPrefix
<1>4. QED
    BY <1>2, <1>3

\* What an admission does to the requests, whatever it visits: the ones it
\* admits come from the queue, get a session, and are active in the phase the
\* match decides; the others keep their phase, or go from the queue to Failed.
Enters(r) ==
    /\ status[r] = "Queued"
    /\ session'[r]
    /\ offset'[r] = Matched(r)
    /\ status'[r] = IF Matched(r) = Len(Prompt[r]) THEN "Decoding" ELSE "Prefill"

LEMMA AdmissionEffect ==
    ASSUME Shape, Admission
    PROVE  /\ status' \in [Requests -> Statuses]
           /\ offset' \in [Requests -> Nat]
           /\ session' \in [Requests -> BOOLEAN]
           /\ UNCHANGED <<generated, cancelReq, cached>>
           /\ \A r \in Requests :
                 \/ UNCHANGED <<status[r], offset[r], session[r]>>
                 \/ status[r] = "Queued" /\ status'[r] = "Failed" /\ UNCHANGED offset[r]
                 \/ Enters(r)
<1>1. PICK visited \in SUBSET InStatus({"Queued"}) :
         \E failed \in SUBSET visited : \E leaked \in SUBSET failed :
            Admit(visited, failed, leaked)
    BY DEF Admission
<1>2. PICK failed \in SUBSET visited :
         \E leaked \in SUBSET failed : Admit(visited, failed, leaked)
    BY <1>1
<1>3. PICK leaked \in SUBSET failed : Admit(visited, failed, leaked)
    BY <1>2
<1>4. \A r \in visited : r \in Requests /\ status[r] = "Queued"
    BY DEF InStatus
<1>5. /\ status' = [r \in Requests |->
                      IF r \in failed THEN "Failed"
                      ELSE IF r \notin visited \ failed THEN status[r]
                      ELSE IF r \in Exact THEN "Decoding" ELSE "Prefill"]
      /\ session' = [r \in Requests |-> session[r] \/ r \in visited \ failed \/ r \in leaked]
      /\ offset' = [r \in Requests |-> IF r \in visited \ failed THEN Matched(r) ELSE offset[r]]
      /\ UNCHANGED <<generated, cancelReq, cached>>
    BY <1>3 DEF Admit, AdmitInto
<1>6. \A r \in Requests : r \in Exact <=> Matched(r) = Len(Prompt[r])
    BY DEF Exact
<1>7. status' \in [Requests -> Statuses] /\ session' \in [Requests -> BOOLEAN]
    BY <1>5 DEF Shape, Statuses, Active, Terminal
<1>8. offset' \in [Requests -> Nat]
    BY <1>5, MatchedIsPartial DEF Shape
<1>9. ASSUME NEW r \in Requests
      PROVE  \/ UNCHANGED <<status[r], offset[r], session[r]>>
             \/ status[r] = "Queued" /\ status'[r] = "Failed" /\ UNCHANGED offset[r]
             \/ Enters(r)
  <2>1. CASE r \in failed
    BY <2>1, <1>4, <1>5
  <2>2. CASE r \in visited \ failed
    BY <2>2, <1>4, <1>5, <1>6 DEF Enters
  <2>3. CASE r \notin visited
    BY <2>3, <1>5 DEF Shape
  <2>4. QED
    BY <2>1, <2>2, <2>3
<1>10. QED
    BY <1>5, <1>7, <1>8, <1>9
-----------------------------------------------------------------------------
LEMMA FirstIsSubset ==
    ASSUME NEW S, NEW k
    PROVE  First(S, k) \subseteq S
BY DEF First

LEMMA SmallestOfThree ==
    ASSUME NEW a \in Int, NEW b \in Int, NEW c \in Int
    PROVE  /\ Smallest({a, b, c}) \in {a, b, c}
           /\ \A m \in {a, b, c} : Smallest({a, b, c}) <= m
<1>1. \E n \in {a, b, c} : \A m \in {a, b, c} : n <= m
    OBVIOUS
<1>2. QED
    BY <1>1 DEF Smallest

LEMMA InitPhased == Init => Phased
BY DEF Init, Phased, Pinned, Shape, ActiveHolds, BatchInPhase, NothingYet,
       PhaseMatchesPrompt, Statuses, Kinds, NoBatch, Active, Terminal, Absent

\* The steps of clients: none of them touches an active request but Cancel, which
\* only raises its flag.
LEMMA ClientKeepsPhased ==
    ASSUME Phased, ClientNext
    PROVE  Phased'
<1> USE DEF Phased, Pinned, Shape, ActiveHolds, BatchInPhase, NothingYet,
            PhaseMatchesPrompt, Statuses, Active, Terminal, Absent, step
<1>1. ASSUME NEW r \in Requests, Submit(r)
      PROVE  Phased'
  <2>1. /\ status[r] = "Unsubmitted" /\ status' = [status EXCEPT ![r] = "Queued"]
        /\ UNCHANGED <<offset, generated, cancelReq, session, cached, running,
                       pc, budget, batch>>
      BY <1>1 DEF Submit
  <2>2. status'[r] = "Queued" /\ \A q \in Requests \ {r} : status'[q] = status[q]
      BY <2>1
  <2>3. Shape'
      BY <2>1 DEF Submit
  <2>4. ActiveHolds' /\ BatchInPhase'
      BY <2>1, <2>2
  <2>5. NothingYet' /\ PhaseMatchesPrompt'
      BY <2>1, <2>2
  <2>6. QED
      BY <2>3, <2>4, <2>5
<1>2. ASSUME NEW r \in Requests, NEW max \in 0 .. MaxNew[r], Poll(r, max)
      PROVE  Phased'
    BY <1>2 DEF Poll
<1>3. ASSUME NEW r \in Requests, Cancel(r)
      PROVE  Phased'
  <2>1. UNCHANGED <<offset, generated, session, cached, running, pc, budget, batch>>
      BY <1>3 DEF Cancel
  <2>2. CASE /\ status[r] = "Queued" /\ status' = [status EXCEPT ![r] = "Cancelled"]
             /\ UNCHANGED cancelReq
    <3>1. status'[r] = "Cancelled" /\ \A q \in Requests \ {r} : status'[q] = status[q]
        BY <2>2
    <3>2. Shape'
        BY <2>1, <2>2
    <3>3. QED
        BY <2>1, <2>2, <3>1, <3>2
  <2>3. CASE /\ UNCHANGED status
             /\ cancelReq' = [cancelReq EXCEPT ![r] = TRUE]
    <3>1. Shape'
        BY <2>1, <2>3
    <3>2. QED
        BY <2>1, <2>3, <3>1
  <2>4. QED
      BY <1>3, <2>2, <2>3 DEF Cancel
<1>4. ASSUME NEW r \in Requests, Release(r)
      PROVE  Phased'
    BY <1>4 DEF Release
<1>5. ASSUME NEW on \in BOOLEAN, StartStop(on)
      PROVE  Phased'
    BY <1>5 DEF StartStop, request
<1>6. QED
    BY <1>1, <1>2, <1>3, <1>4, <1>5 DEF ClientNext

\* Both admissions of a step fall where no batch is in flight.
LEMMA AdmissionKeepsPhased ==
    ASSUME Phased, Admission, UNCHANGED batch, budget' \in Int, batch.plan = {}
    PROVE  Phased'
<1>1. Shape
    BY DEF Phased, Pinned
<1>2. /\ status' \in [Requests -> Statuses]
      /\ offset' \in [Requests -> Nat]
      /\ session' \in [Requests -> BOOLEAN]
      /\ UNCHANGED <<generated, cancelReq, cached>>
      /\ \A r \in Requests :
            \/ UNCHANGED <<status[r], offset[r], session[r]>>
            \/ status[r] = "Queued" /\ status'[r] = "Failed" /\ UNCHANGED offset[r]
            \/ Enters(r)
    BY <1>1, AdmissionEffect
<1>3. Shape'
    BY <1>1, <1>2 DEF Shape
<1>4. ASSUME NEW r \in Requests
      PROVE  /\ status'[r] \in Active => session'[r]
             /\ status'[r] \in {"Unsubmitted", "Queued"} => generated'[r] = 0
             /\ status'[r] = "Decoding" => offset'[r] = Len(Prompt[r]) /\ generated'[r] < MaxNew[r]
             /\ status'[r] = "Prefill" => offset'[r] < Len(Prompt[r]) /\ generated'[r] = 0
             /\ generated'[r] > 0 => offset'[r] = Len(Prompt[r])
  <2>1. CASE UNCHANGED <<status[r], offset[r], session[r]>>
      BY <2>1, <1>2 DEF Phased, Pinned, ActiveHolds, NothingYet, PhaseMatchesPrompt
  <2>2. CASE status[r] = "Queued" /\ status'[r] = "Failed" /\ UNCHANGED offset[r]
      BY <2>2, <1>2 DEF Phased, NothingYet, Active
  <2>3. CASE Enters(r)
    <3>1. generated[r] = 0 /\ generated'[r] = 0 /\ MaxNew[r] \in Nat \ {0}
        BY <2>3, <1>2, EngineAssumption DEF Enters, Phased, NothingYet
    <3>2. Matched(r) \in Nat /\ Matched(r) <= Len(Prompt[r]) /\ Len(Prompt[r]) \in Nat
        BY <1>1, MatchedIsPartial
    <3>3. QED
        BY <2>3, <3>1, <3>2 DEF Enters
  <2>4. QED
      BY <1>2, <2>1, <2>2, <2>3
<1>5. QED
    BY <1>3, <1>4 DEF Phased, Pinned, ActiveHolds, BatchInPhase, NothingYet, PhaseMatchesPrompt

\* Planning picks requests in the phase of the batch, which hold a session.
LEMMA PlanKeepsPhased ==
    ASSUME Phased, PlanDecode \/ PlanPrefill
    PROVE  Phased'
<1> USE DEF Phased, Pinned, ActiveHolds, BatchInPhase, NothingYet, PhaseMatchesPrompt
<1>1. CASE PlanDecode
  <2>1. DecodePlan \subseteq {r \in Requests : status[r] = "Decoding"}
    BY FirstIsSubset DEF DecodePlan, InStatus
  <2>2. UNCHANGED <<request, cached, budget>>
        /\ batch' = [kind |-> "decode", plan |-> DecodePlan, take |-> 1]
    BY <1>1 DEF PlanDecode
  <2>3. QED
    BY <2>1, <2>2 DEF request, Shape, Kinds
<1>2. CASE PlanPrefill
  <2>1. Candidates \subseteq {r \in Requests : status[r] = "Prefill"}
    BY FirstIsSubset DEF Candidates, PrefillLeft, InStatus
  <2>2. UNCHANGED <<request, cached>> /\ budget > 0
    BY <1>2 DEF PlanPrefill
  <2>3. /\ batch' \in [kind : Kinds, plan : SUBSET Requests, take : Nat]
        /\ batch'.kind \in {"embedded", "chunked", "ragged"}
        /\ batch'.plan \subseteq Candidates
    <3>1. CASE PlanEmbedded
      <4>1. PICK r \in First(Candidates \cap Embedded, 1) :
               batch' = [kind |-> "embedded", plan |-> {r}, take |-> Len(Prompt[r]) - offset[r]]
        BY <3>1 DEF PlanEmbedded
      <4>2. r \in Candidates
        BY <4>1, FirstIsSubset
      <4>3. Len(Prompt[r]) - offset[r] \in Nat
        BY <2>1, <4>2, EngineAssumption DEF Shape
      <4>4. QED
        BY <2>1, <4>1, <4>2, <4>3 DEF Kinds
    <3>2. CASE PlanChunked
      <4>1. PICK r \in Candidates :
               batch' = [kind |-> "chunked", plan |-> {r},
                         take |-> Smallest({Len(Prompt[r]) - offset[r], budget, LongPrefillChunk})]
        BY <3>2 DEF PlanChunked
      <4>2. Len(Prompt[r]) - offset[r] \in Nat
        BY <2>1, EngineAssumption DEF Shape
      <4>3. budget \in Nat /\ LongPrefillChunk \in Nat
        BY <2>2, EngineAssumption DEF Shape
      <4>4. Smallest({Len(Prompt[r]) - offset[r], budget, LongPrefillChunk})
               \in {Len(Prompt[r]) - offset[r], budget, LongPrefillChunk}
        <5> DEFINE left == Len(Prompt[r]) - offset[r]
        <5>1. left \in Int /\ budget \in Int /\ LongPrefillChunk \in Int
          BY <4>2, <4>3
        <5> HIDE DEF left
        <5>2. Smallest({left, budget, LongPrefillChunk}) \in {left, budget, LongPrefillChunk}
          BY <5>1, SmallestOfThree
        <5>3. QED
          BY <5>2 DEF left
      <4>5. QED
        BY <2>1, <4>1, <4>2, <4>3, <4>4 DEF Kinds
    <3>3. CASE PlanRagged
      <4> DEFINE chosen == First(Candidates, Smallest({budget, MaxPrefillBatch, MaxActive}))
      <4>1. batch' = [kind |-> "ragged", plan |-> chosen, take |-> 1]
        BY <3>3 DEF PlanRagged, RaggedUpTo
      <4>2. chosen \in SUBSET Candidates
        BY FirstIsSubset
      <4> HIDE DEF chosen
      <4>3. QED
        BY <2>1, <4>1, <4>2 DEF Kinds
    <3>4. QED
      BY <1>2, <3>1, <3>2, <3>3 DEF PlanPrefill
  <2>4. budget' \in Int
    BY <1>2 DEF PlanPrefill, PlanEmbedded, PlanChunked, PlanRagged, RaggedUpTo, Shape
  <2>5. QED
    BY <2>1, <2>2, <2>3, <2>4 DEF request, Shape, Kinds
<1>3. QED
    BY <1>1, <1>2

\* The outcome of a batch is applied to the requests it was planned for; each is
\* still where the plan found it.
LEMMA LeaveKeepsBudget ==
    ASSUME Shape, Leave
    PROVE  budget' \in Int /\ batch' = NoBatch
<1>1. IsFiniteSet(batch.plan)
  <2>1. IsFiniteSet(Requests)
    BY FS_Interval, EngineAssumption DEF Requests
  <2>2. batch.plan \subseteq Requests
    BY DEF Shape
  <2>3. QED
    BY <2>1, <2>2, FS_Subset
<1>2. Cardinality(batch.plan) \in Nat /\ batch.take \in Nat
    BY <1>1, FS_CardinalityType DEF Shape
<1>3. batch.take * Cardinality(batch.plan) \in Nat
    BY <1>2
<1>4. QED
    BY <1>3 DEF Leave, Shape

LEMMA DecodeKeepsPhased ==
    ASSUME Phased, NEW eos, DecodeSucceeds(eos)
    PROVE  Phased'
<1> DEFINE served   == batch.plan \ Stopped
           finished == {r \in served : r \in eos \/ generated[r] + 1 >= MaxNew[r]}
<1>1. /\ batch.kind = "decode"
      /\ generated' = [r \in Requests |-> generated[r] + (IF r \in served THEN 1 ELSE 0)]
      /\ status' = [r \in Requests |-> IF r \in Stopped THEN "Cancelled"
                                       ELSE IF r \in finished THEN "Finished"
                                       ELSE status[r]]
      /\ session' = [r \in Requests |-> session[r] /\ r \notin Stopped \cup finished]
      /\ Leave
      /\ UNCHANGED <<offset, cancelReq, cached>>
    BY DEF DecodeSucceeds, DecodeApplies
<1>2. Shape /\ budget' \in Int /\ batch' = NoBatch
    BY <1>1, LeaveKeepsBudget DEF Phased, Pinned
<1> HIDE DEF served, finished
<1>3. Shape'
    BY <1>1, <1>2 DEF Shape, NoBatch, Kinds, Statuses, Active, Terminal
<1>4. ASSUME NEW r \in Requests
      PROVE  /\ status'[r] \in Active => session'[r]
             /\ status'[r] \in {"Unsubmitted", "Queued"} => generated'[r] = 0
             /\ status'[r] = "Decoding" => offset'[r] = Len(Prompt[r]) /\ generated'[r] < MaxNew[r]
             /\ status'[r] = "Prefill" => offset'[r] < Len(Prompt[r]) /\ generated'[r] = 0
             /\ generated'[r] > 0 => offset'[r] = Len(Prompt[r])
  <2>1. generated[r] \in Nat /\ MaxNew[r] \in Nat
    BY <1>2, EngineAssumption DEF Shape
  <2>2. CASE r \in served
    <3>1. status[r] = "Decoding" /\ offset[r] = Len(Prompt[r])
      BY <1>1, <2>2 DEF served, Phased, Pinned, BatchInPhase, PhaseMatchesPrompt
    <3>2. generated'[r] = generated[r] + 1 /\ r \notin Stopped
      BY <1>1, <2>2 DEF served
    <3>3. r \in finished \/ generated[r] + 1 < MaxNew[r]
      BY <2>1, <2>2 DEF finished
    <3>4. QED
      BY <1>1, <3>1, <3>2, <3>3 DEF Phased, Pinned, ActiveHolds, Active
  <2>3. CASE r \notin served
    <3>1. r \notin finished /\ generated'[r] = generated[r]
      BY <1>1, <2>1, <2>3 DEF finished
    <3>2. r \in Stopped \/ UNCHANGED <<status[r], session[r], offset[r]>>
      BY <1>1, <1>2, <3>1 DEF Shape
    <3>3. r \in Stopped => status'[r] = "Cancelled" /\ r \in batch.plan
      BY <1>1 DEF Stopped
    <3>4. QED
      BY <1>1, <3>1, <3>2, <3>3 DEF Phased, Pinned, ActiveHolds, BatchInPhase, NothingYet,
                                     PhaseMatchesPrompt, Active
  <2>4. QED
    BY <2>2, <2>3
<1>5. QED
    BY <1>2, <1>3, <1>4 DEF Phased, Pinned, ActiveHolds, BatchInPhase, NothingYet,
                            PhaseMatchesPrompt, NoBatch
LEMMA PrefillKeepsPhased ==
    ASSUME Phased, NEW keep, PrefillSucceeds(keep)
    PROVE  Phased'
<1> DEFINE served    == batch.plan \ Stopped
           completed == {r \in served : offset[r] + batch.take >= Len(Prompt[r])}
<1>1. /\ batch.kind \in {"embedded", "chunked", "ragged"}
      /\ offset' = [r \in Requests |-> IF r \in completed THEN Len(Prompt[r])
                                       ELSE IF r \in served THEN offset[r] + batch.take
                                       ELSE offset[r]]
      /\ status' = [r \in Requests |-> IF r \in Stopped THEN "Cancelled"
                                       ELSE IF r \in completed THEN "Decoding"
                                       ELSE status[r]]
      /\ session' = [r \in Requests |-> session[r] /\ r \notin Stopped]
      /\ cached' \subseteq cached \cup {Prompt[r] : r \in completed \ Embedded}
      /\ Leave
      /\ UNCHANGED <<generated, cancelReq>>
    BY DEF PrefillSucceeds
<1>2. Shape /\ budget' \in Int /\ batch' = NoBatch
    BY <1>1, LeaveKeepsBudget DEF Phased, Pinned
<1>3. \A r \in Requests : Prompt[r] \in Seq(Nat) /\ Len(Prompt[r]) \in Nat
    BY EngineAssumption
<1>4. completed \subseteq Requests /\ batch.take \in Nat
    BY <1>2 DEF Shape
<1>5. cached' \subseteq Seq(Nat)
    BY <1>1, <1>2, <1>3, <1>4 DEF Shape
<1> HIDE DEF served, completed
<1>6. Shape'
  <2>1. offset' \in [Requests -> Nat]
    BY <1>1, <1>2, <1>3, <1>4 DEF Shape
  <2>2. status' \in [Requests -> Statuses] /\ session' \in [Requests -> BOOLEAN]
    BY <1>1, <1>2 DEF Shape, Statuses, Active, Terminal
  <2>3. QED
    BY <1>1, <1>2, <1>5, <2>1, <2>2 DEF Shape, NoBatch, Kinds
<1>7. ASSUME NEW r \in Requests
      PROVE  /\ status'[r] \in Active => session'[r]
             /\ status'[r] \in {"Unsubmitted", "Queued"} => generated'[r] = 0
             /\ status'[r] = "Decoding" => offset'[r] = Len(Prompt[r]) /\ generated'[r] < MaxNew[r]
             /\ status'[r] = "Prefill" => offset'[r] < Len(Prompt[r]) /\ generated'[r] = 0
             /\ generated'[r] > 0 => offset'[r] = Len(Prompt[r])
  <2>1. generated[r] \in Nat /\ offset[r] \in Nat /\ MaxNew[r] \in Nat \ {0}
    BY <1>2, EngineAssumption DEF Shape
  <2>2. CASE r \in served
    <3>1. status[r] = "Prefill" /\ offset[r] < Len(Prompt[r]) /\ generated[r] = 0 /\ session[r]
      BY <1>1, <2>2 DEF served, Phased, Pinned, ActiveHolds, Active, BatchInPhase,
                        PhaseMatchesPrompt
    <3>2. r \notin Stopped
      BY <2>2 DEF served
    <3>3. r \in completed \/ offset[r] + batch.take < Len(Prompt[r])
      BY <1>3, <1>4, <2>1, <2>2 DEF completed
    <3>4. session'[r] /\ generated'[r] = 0
      BY <1>1, <3>1, <3>2
    <3>5. CASE r \in completed
      BY <1>1, <2>1, <3>2, <3>4, <3>5
    <3>6. CASE r \notin completed
      BY <1>1, <2>1, <2>2, <3>1, <3>2, <3>3, <3>4, <3>6
    <3>7. QED
      BY <3>5, <3>6
  <2>3. CASE r \notin served
    <3>1. r \notin completed
      BY <2>3 DEF completed
    <3>2. r \in Stopped \/ UNCHANGED <<status[r], session[r]>>
      BY <1>1, <1>2, <3>1 DEF Shape
    <3>3. offset'[r] = offset[r] /\ generated'[r] = generated[r]
      BY <1>1, <2>3, <3>1
    <3>4. r \in Stopped => status'[r] = "Cancelled"
      BY <1>1
    <3>5. QED
      BY <3>2, <3>3, <3>4 DEF Phased, Pinned, ActiveHolds, NothingYet, PhaseMatchesPrompt, Active
  <2>4. QED
    BY <2>2, <2>3
<1>8. QED
    BY <1>2, <1>6, <1>7 DEF Phased, Pinned, ActiveHolds, BatchInPhase, NothingYet,
                            PhaseMatchesPrompt, NoBatch

LEMMA FailKeepsPhased ==
    ASSUME Phased, BatchFails
    PROVE  Phased'
<1>1. /\ status' = [r \in Requests |-> IF r \in Stopped THEN "Cancelled"
                                       ELSE IF r \in batch.plan \ Stopped THEN "Failed"
                                       ELSE status[r]]
      /\ session' = [r \in Requests |-> session[r] /\ r \notin batch.plan]
      /\ Leave
      /\ UNCHANGED <<offset, generated, cancelReq, cached>>
    BY DEF BatchFails, FailAll
<1>2. Shape /\ budget' \in Int /\ batch' = NoBatch
    BY <1>1, LeaveKeepsBudget DEF Phased, Pinned
<1>3. Shape'
    BY <1>1, <1>2 DEF Shape, NoBatch, Kinds, Statuses, Active, Terminal
<1>4. \A r \in Requests :
         \/ status'[r] \in {"Cancelled", "Failed"}
         \/ UNCHANGED <<status[r], session[r]>>
    BY <1>1, <1>2 DEF Shape
<1>5. QED
    BY <1>1, <1>2, <1>3, <1>4 DEF Phased, Pinned, ActiveHolds, BatchInPhase, NothingYet,
                                  PhaseMatchesPrompt, NoBatch, Active
-----------------------------------------------------------------------------
(* The rest of the type invariant.  "budget" is unsigned: that it never wraps *)
(* is the arithmetic fact, which needs the size of a plan.                    *)

Bookkept ==
    /\ polled \in [Requests -> Nat]
    /\ \A r \in Requests : polled[r] <= generated[r]
    /\ metrics \in [{"submitted", "completed", "cancelled", "failed"} -> Nat]
    /\ running \in BOOLEAN
    /\ pc \in {"idle", "decode1", "prefill", "decode2", "end"}

\* A batch is in flight only in a phase that plans batches: both admissions of
\* a step find none.
Driven == batch.kind # "none" => pc \notin {"idle", "end"}

Spendable == budget \in 0 .. MaxBatchedTokens /\ BudgetCovers

Inv == Phased /\ Bookkept /\ Driven /\ Spendable

LEMMA FiniteRequests ==
    ASSUME NEW S \in SUBSET Requests
    PROVE  IsFiniteSet(S) /\ Cardinality(S) \in Nat
<1>1. IsFiniteSet(Requests)
    BY FS_Interval, EngineAssumption DEF Requests
<1>2. IsFiniteSet(S)
    BY <1>1, FS_Subset
<1>3. QED
    BY <1>2, FS_CardinalityType

\* Before is a strict total order of the requests.
LEMMA BeforeOrders ==
    /\ \A q \in Requests : ~Before(q, q)
    /\ \A q, r \in Requests : q = r \/ Before(q, r) \/ Before(r, q)
    /\ \A p, q, r \in Requests : Before(p, q) /\ Before(q, r) => Before(p, r)
<1>1. \A r \in Requests : r \in Int /\ Priority[r] \in Int
    BY EngineAssumption DEF Requests
<1>2. QED
    BY <1>1 DEF Before

\* The first k of a set are at most k: the rank of a request among them is one
\* of 0 .. k - 1 and no two have the same.
LEMMA FirstIsBounded ==
    ASSUME NEW S \in SUBSET Requests, NEW k \in Nat
    PROVE  Cardinality(First(S, k)) <= k
<1> DEFINE ahead(r) == {q \in S : Before(q, r)}
           rank     == [r \in First(S, k) |-> Cardinality(ahead(r))]
<1>1. \A r \in S : ahead(r) \in SUBSET Requests
    OBVIOUS
<1>2. \A r \in S : IsFiniteSet(ahead(r)) /\ Cardinality(ahead(r)) \in Nat
    BY <1>1, FiniteRequests
<1>3. rank \in [First(S, k) -> 0 .. k - 1]
    BY <1>2 DEF First
<1>4. ASSUME NEW q \in First(S, k), NEW r \in First(S, k), Before(q, r)
      PROVE  rank[q] # rank[r]
  <2>1. q \in S /\ r \in S /\ q \in Requests /\ r \in Requests
    BY DEF First
  <2>2. ahead(q) \in SUBSET ahead(r)
    BY <1>4, <2>1, BeforeOrders
  <2>3. q \in ahead(r) /\ q \notin ahead(q)
    BY <1>4, <2>1, BeforeOrders
  <2>4. Cardinality(ahead(q)) # Cardinality(ahead(r))
    BY <1>2, <2>1, <2>2, <2>3, FS_Subset
  <2>5. QED
    BY <2>4
<1>5. rank \in Injection(First(S, k), 0 .. k - 1)
  <2>1. ASSUME NEW q \in First(S, k), NEW r \in First(S, k), rank[q] = rank[r]
        PROVE  q = r
    <3>1. q \in Requests /\ r \in Requests
      BY DEF First
    <3>2. QED
      BY <1>4, <2>1, <3>1, BeforeOrders
  <2>2. QED
    BY <1>3, <2>1 DEF Injection, IsInjective
<1>6. IsFiniteSet(0 .. k - 1) /\ Cardinality(0 .. k - 1) = k
    BY FS_Interval
<1>7. QED
    BY <1>5, <1>6, FS_Injection
\* A batch takes no more than the step has left: one token of each request of a
\* plan cut to the budget, or a chunk cut to it of a single one.
LEMMA PlanKeepsSpendable ==
    ASSUME Inv, PlanDecode \/ PlanPrefill
    PROVE  Spendable'
<1>1. Shape /\ budget \in 0 .. MaxBatchedTokens
    BY DEF Inv, Phased, Pinned, Spendable
<1>2. ASSUME NEW S \in SUBSET Requests, NEW m \in Nat, NEW n \in Nat,
             NEW kind, budget' = budget,
             batch' = [kind |-> kind, take |-> 1, plan |-> First(S, Smallest({budget, m, n}))]
      PROVE  Spendable'
  <2>1. budget \in Nat
    BY <1>1, EngineAssumption
  <2> DEFINE limit == Smallest({budget, m, n})
  <2>2. limit \in Nat /\ limit <= budget
    <3>1. budget \in Int /\ m \in Int /\ n \in Int
      BY <2>1
    <3>2. \A a, b, c \in Int : /\ Smallest({a, b, c}) \in {a, b, c}
                               /\ \A x \in {a, b, c} : Smallest({a, b, c}) <= x
      BY SmallestOfThree
    <3>3. limit \in {budget, m, n} /\ \A x \in {budget, m, n} : limit <= x
      BY <3>1, <3>2, ZenonT(30)
    <3>4. QED
      BY <2>1, <3>3
  <2> HIDE DEF limit
  <2>3. First(S, limit) \in SUBSET Requests
    BY FirstIsSubset
  <2>4. Cardinality(First(S, limit)) <= limit /\ Cardinality(First(S, limit)) \in Nat
    BY <2>2, <2>3, FirstIsBounded, FiniteRequests
  <2>5. batch'.take = 1 /\ batch'.plan = First(S, limit)
    BY <1>2 DEF limit
  <2>6. batch'.take * Cardinality(batch'.plan) <= budget
    BY <2>1, <2>2, <2>4, <2>5
  <2>7. QED
    BY <1>1, <1>2, <2>6 DEF Spendable, BudgetCovers
<1>3. \A S : InStatus(S) \in SUBSET Requests
    BY DEF InStatus
<1>4. Candidates \in SUBSET Requests
    BY FirstIsSubset DEF Candidates, PrefillLeft, InStatus
<1>5. CASE PlanDecode
  <2>1. /\ budget' = budget
        /\ batch' = [kind |-> "decode", take |-> 1,
                     plan |-> First(InStatus({"Decoding"}), Smallest({budget, MaxDecodeBatch, MaxActive}))]
    BY <1>5 DEF PlanDecode, DecodePlan
  <2>2. QED
    BY <1>2, <1>3, <2>1, EngineAssumption
<1>6. CASE PlanPrefill /\ PlanEmbedded
    BY <1>6, EngineAssumption DEF PlanEmbedded, Spendable, BudgetCovers
<1>7. CASE PlanPrefill /\ PlanChunked
  <2>1. PICK r \in Candidates :
           batch' = [kind |-> "chunked", plan |-> {r},
                     take |-> Smallest({Len(Prompt[r]) - offset[r], budget, LongPrefillChunk})]
    BY <1>7 DEF PlanChunked
  <2>2. budget' = budget /\ budget \in Nat /\ LongPrefillChunk \in Nat
    BY <1>1, <1>7, EngineAssumption DEF PlanChunked
  <2> DEFINE left == Len(Prompt[r]) - offset[r]
  <2>3. left \in Int /\ budget \in Int /\ LongPrefillChunk \in Int
    BY <1>1, <1>4, <2>2, EngineAssumption DEF Shape
  <2>4. batch'.take \in Int /\ batch'.take <= budget
    <3>1. batch'.take = Smallest({left, budget, LongPrefillChunk})
      BY <2>1
    <3> HIDE DEF left
    <3>2. /\ Smallest({left, budget, LongPrefillChunk}) \in {left, budget, LongPrefillChunk}
          /\ \A x \in {left, budget, LongPrefillChunk} :
                Smallest({left, budget, LongPrefillChunk}) <= x
      BY <2>3, SmallestOfThree
    <3>3. QED
      BY <2>3, <3>1, <3>2
  <2>5. Cardinality(batch'.plan) = 1
    BY <2>1, FS_Singleton
  <2>6. batch'.take * Cardinality(batch'.plan) <= budget
    BY <2>2, <2>4, <2>5
  <2>7. QED
    BY <1>1, <2>2, <2>6 DEF Spendable, BudgetCovers
<1>8. CASE PlanPrefill /\ PlanRagged
  <2>1. /\ budget' = budget
        /\ batch' = [kind |-> "ragged", take |-> 1,
                     plan |-> First(Candidates, Smallest({budget, MaxPrefillBatch, MaxActive}))]
    BY <1>8 DEF PlanRagged, RaggedUpTo
  <2>2. QED
    BY <1>2, <1>4, <2>1, EngineAssumption
<1>9. QED
    BY <1>5, <1>6, <1>7, <1>8 DEF PlanPrefill

LEMMA LeaveKeepsSpendable ==
    ASSUME Inv, batch.kind # "none", Leave
    PROVE  Spendable'
<1>1. Shape /\ budget \in 0 .. MaxBatchedTokens /\ BudgetCovers
    BY DEF Inv, Phased, Pinned, Spendable
<1>2. Cardinality(batch.plan) \in Nat /\ batch.take \in Nat
    BY <1>1, FiniteRequests DEF Shape
<1>3. batch.take * Cardinality(batch.plan) \in Nat
    BY <1>2
<1>4. CASE batch.kind = "embedded"
    BY <1>1, <1>4 DEF Leave, Spendable, BudgetCovers, NoBatch
<1>5. CASE batch.kind # "embedded"
  <2>1. batch.take * Cardinality(batch.plan) <= budget
    BY <1>1, <1>5 DEF BudgetCovers
  <2>2. budget' = budget - batch.take * Cardinality(batch.plan) /\ batch'.kind = "none"
    BY <1>5 DEF Leave, NoBatch
  <2>3. budget' \in 0 .. MaxBatchedTokens
    BY <1>1, <1>3, <2>1, <2>2, EngineAssumption
  <2>4. QED
    BY <2>2, <2>3 DEF Spendable, BudgetCovers
<1>6. QED
    BY <1>4, <1>5
\* Every step keeps the counters natural numbers: the sets they count are finite.
LEMMA CountIsNat ==
    ASSUME Bookkept, NEW c \in {"submitted", "completed", "cancelled", "failed"},
           NEW n \in Nat, metrics' = Count(c, n)
    PROVE  metrics' \in [{"submitted", "completed", "cancelled", "failed"} -> Nat]
BY DEF Bookkept, Count

LEMMA CountTwoIsNat ==
    ASSUME Bookkept, NEW m \in Nat, NEW n \in Nat,
           \/ metrics' = [metrics EXCEPT !.cancelled = @ + m, !.completed = @ + n]
           \/ metrics' = [metrics EXCEPT !.cancelled = @ + m, !.failed = @ + n]
    PROVE  metrics' \in [{"submitted", "completed", "cancelled", "failed"} -> Nat]
<1>1. metrics \in [{"submitted", "completed", "cancelled", "failed"} -> Nat]
    BY DEF Bookkept
<1>2. metrics.cancelled + m \in Nat /\ metrics.completed + n \in Nat /\ metrics.failed + n \in Nat
    BY <1>1
<1>3. CASE metrics' = [metrics EXCEPT !.cancelled = @ + m, !.completed = @ + n]
    BY <1>1, <1>2, <1>3
<1>4. CASE metrics' = [metrics EXCEPT !.cancelled = @ + m, !.failed = @ + n]
    BY <1>1, <1>2, <1>4
<1>5. QED
    BY <1>3, <1>4

LEMMA ClientKeepsBookkept ==
    ASSUME Inv, ClientNext
    PROVE  Bookkept'
<1>1. Bookkept /\ Shape
    BY DEF Inv, Phased, Pinned
<1>2. ASSUME NEW r \in Requests, Submit(r)
      PROVE  Bookkept'
  <2>1. metrics' = Count("submitted", 1)
    BY <1>2 DEF Submit
  <2>2. QED
    BY <1>1, <1>2, <2>1, CountIsNat DEF Submit, Bookkept, step
<1>3. ASSUME NEW r \in Requests, NEW max \in 0 .. MaxNew[r], Poll(r, max)
      PROVE  Bookkept'
  <2>1. max \in Nat
    BY <1>3, EngineAssumption
  <2> DEFINE available == generated[r] - polled[r]
             count     == IF max = 0 \/ max > available THEN available ELSE max
  <2>2. available \in Nat /\ count \in Nat /\ count <= available
    BY <1>1, <2>1 DEF Bookkept, Shape
  <2>3. polled' = [polled EXCEPT ![r] = @ + count]
    BY <1>3 DEF Poll
  <2>4. polled[r] + count \in Nat /\ polled[r] + count <= generated[r]
    BY <1>1, <2>2, SMTT(20) DEF Bookkept, Shape
  <2> HIDE DEF available, count
  <2>5. UNCHANGED <<generated, metrics, running, step>>
    BY <1>3 DEF Poll
  <2>6. QED
    BY <1>1, <2>3, <2>4, <2>5 DEF Bookkept, step
<1>4. ASSUME NEW r \in Requests, Cancel(r)
      PROVE  Bookkept'
  <2>1. metrics' = Count("cancelled", 1) \/ UNCHANGED metrics
    BY <1>4 DEF Cancel
  <2>2. QED
    BY <1>1, <1>4, <2>1, CountIsNat DEF Cancel, Bookkept, step
<1>5. ASSUME NEW r \in Requests, Release(r)
      PROVE  Bookkept'
    BY <1>1, <1>5 DEF Release, Bookkept, Shape, step
<1>6. ASSUME NEW on \in BOOLEAN, StartStop(on)
      PROVE  Bookkept'
    BY <1>1, <1>6 DEF StartStop, Bookkept, request, step
<1>7. QED
    BY <1>2, <1>3, <1>4, <1>5, <1>6 DEF ClientNext

LEMMA AdmissionKeepsCounters ==
    ASSUME Inv, Admission
    PROVE  /\ UNCHANGED <<generated, polled, running>>
           /\ metrics' \in [{"submitted", "completed", "cancelled", "failed"} -> Nat]
<1>1. PICK visited \in SUBSET InStatus({"Queued"}) :
         \E failed \in SUBSET visited : \E leaked \in SUBSET failed :
            Admit(visited, failed, leaked)
    BY DEF Admission
<1>2. PICK failed \in SUBSET visited :
         \E leaked \in SUBSET failed : Admit(visited, failed, leaked)
    BY <1>1
<1>3. PICK leaked \in SUBSET failed : Admit(visited, failed, leaked)
    BY <1>2
<1>4. /\ UNCHANGED <<generated, polled, running>>
      /\ metrics' = Count("failed", Cardinality(failed))
    BY <1>3 DEF Admit, AdmitInto
<1>5. failed \in SUBSET Requests
    BY DEF InStatus
<1>6. QED
    BY <1>4, <1>5, FiniteRequests, CountIsNat DEF Inv

\* The outcomes of a batch: the counters grow by the sizes of parts of its plan.
LEMMA OutcomeKeepsBookkept ==
    ASSUME Inv,
           \/ \E eos : DecodeSucceeds(eos)
           \/ \E keep : PrefillSucceeds(keep)
           \/ BatchFails
    PROVE  Bookkept'
<1>1. Bookkept /\ Shape
    BY DEF Inv, Phased, Pinned
<1>2. ASSUME NEW S \in SUBSET batch.plan
      PROVE  Cardinality(S) \in Nat
    BY <1>1, FiniteRequests DEF Shape
<1>3. Cardinality(Stopped) \in Nat
    BY <1>2 DEF Stopped
<1>4. ASSUME Leave
      PROVE  pc' \in {"idle", "decode1", "prefill", "decode2", "end"}
    BY <1>1, <1>4 DEF Leave, AfterDecode, Bookkept
<1>5. ASSUME NEW eos, DecodeSucceeds(eos)
      PROVE  Bookkept'
  <2> DEFINE finished == {r \in batch.plan \ Stopped : r \in eos \/ generated[r] + 1 >= MaxNew[r]}
  <2>1. /\ generated' = [r \in Requests |->
                           generated[r] + (IF r \in batch.plan \ Stopped THEN 1 ELSE 0)]
        /\ metrics' = [metrics EXCEPT !.cancelled = @ + Cardinality(Stopped),
                                      !.completed = @ + Cardinality(finished)]
        /\ Leave
        /\ UNCHANGED <<polled, running>>
    BY <1>5, Zenon DEF DecodeSucceeds, DecodeApplies
  <2>2. Cardinality(finished) \in Nat
    <3>1. finished \in SUBSET batch.plan
      OBVIOUS
    <3>2. QED
      BY <1>2, <3>1
  <2> HIDE DEF finished
  <2>3. metrics' \in [{"submitted", "completed", "cancelled", "failed"} -> Nat]
    BY <1>1, <1>3, <2>1, <2>2, CountTwoIsNat
  <2>4. \A r \in Requests : generated'[r] \in Nat /\ generated[r] <= generated'[r]
    BY <1>1, <2>1 DEF Shape
  <2>5. \A r \in Requests : /\ polled[r] \in Nat /\ polled[r] <= generated[r]
                             /\ generated[r] \in Nat
    BY <1>1 DEF Bookkept, Shape
  <2>6. \A r \in Requests : polled'[r] <= generated'[r]
    BY <2>1, <2>4, <2>5, SMTT(20)
  <2>7. pc' \in {"idle", "decode1", "prefill", "decode2", "end"}
    BY <1>4, <2>1
  <2>8. polled' \in [Requests -> Nat] /\ running' \in BOOLEAN
    BY <1>1, <2>1 DEF Bookkept
  <2>9. QED
    BY <2>3, <2>6, <2>7, <2>8, Zenon DEF Bookkept
<1>6. ASSUME NEW keep, PrefillSucceeds(keep)
      PROVE  Bookkept'
  <2>1. metrics' = Count("cancelled", Cardinality(Stopped))
    BY <1>6 DEF PrefillSucceeds
  <2>2. Leave /\ UNCHANGED <<generated, polled, running>>
    BY <1>6 DEF PrefillSucceeds
  <2>3. QED
    BY <1>1, <1>3, <1>4, <2>1, <2>2, CountIsNat DEF Bookkept
<1>7. ASSUME BatchFails
      PROVE  Bookkept'
  <2>1. /\ metrics' = [metrics EXCEPT !.cancelled = @ + Cardinality(Stopped),
                                      !.failed = @ + Cardinality(batch.plan \ Stopped)]
        /\ Leave
        /\ UNCHANGED <<generated, polled, running>>
    BY <1>7 DEF BatchFails, FailAll
  <2>2. Cardinality(batch.plan \ Stopped) \in Nat
    BY <1>2
  <2>3. metrics' \in [{"submitted", "completed", "cancelled", "failed"} -> Nat]
    BY <1>1, <1>3, <2>1, <2>2, CountTwoIsNat
  <2>4. QED
    BY <1>1, <1>4, <2>1, <2>3 DEF Bookkept
<1>8. QED
    BY <1>5, <1>6, <1>7
-----------------------------------------------------------------------------
LEMMA InitInv == Init => Inv
<1> SUFFICES ASSUME Init PROVE Inv
    OBVIOUS
<1>1. Phased
    BY InitPhased
<1>2. Bookkept /\ Driven /\ Spendable
  <2>1. polled = [r \in Requests |-> 0] /\ generated = [r \in Requests |-> 0]
    BY DEF Init
  <2>2. metrics = [c \in {"submitted", "completed", "cancelled", "failed"} |-> 0]
    BY DEF Init
  <2>3. running = FALSE /\ pc = "idle" /\ budget = 0 /\ batch.kind = "none"
    BY DEF Init, NoBatch
  <2>4. 0 \in 0 .. MaxBatchedTokens
    BY EngineAssumption
  <2>5. Bookkept
    <3>1. polled \in [Requests -> Nat] /\ \A r \in Requests : polled[r] <= generated[r]
      BY <2>1
    <3>2. metrics \in [{"submitted", "completed", "cancelled", "failed"} -> Nat]
      BY <2>2
    <3>3. running \in BOOLEAN /\ pc \in {"idle", "decode1", "prefill", "decode2", "end"}
      BY <2>3
    <3>4. QED
      BY <3>1, <3>2, <3>3, Zenon DEF Bookkept
  <2>6. Driven
    BY <2>3 DEF Driven
  <2>7. Spendable
    BY <2>3, <2>4 DEF Spendable, BudgetCovers
  <2>8. QED
    BY <2>5, <2>6, <2>7
<1>3. QED
    BY <1>1, <1>2 DEF Inv

LEMMA StepKeepsInv == Inv /\ [Next]_vars => Inv'
<1> SUFFICES ASSUME Inv, [Next]_vars PROVE Inv'
    OBVIOUS
<1>1. Phased /\ Shape /\ Bookkept /\ Driven /\ Spendable
    BY DEF Inv, Phased, Pinned
<1>2. CASE ClientNext
  <2>1. UNCHANGED step
    BY <1>2 DEF ClientNext, Submit, Poll, Cancel, Release, StartStop
  <2>2. Driven' /\ Spendable'
    BY <1>1, <2>1 DEF step, Driven, Spendable, BudgetCovers
  <2>3. QED
    BY <1>1, <1>2, <2>2, ClientKeepsPhased, ClientKeepsBookkept DEF Inv
<1>3. CASE StepBegin \/ StepEnd
  <2>1. pc \in {"idle", "end"} /\ Admission /\ UNCHANGED batch
    BY <1>3 DEF StepBegin, StepEnd
  <2>2. batch.kind = "none" /\ batch.plan = {}
    BY <1>1, <2>1 DEF Driven, Phased, Pinned, BatchInPhase
  <2>3. budget' \in 0 .. MaxBatchedTokens
    BY <1>1, <1>3, EngineAssumption DEF StepBegin, StepEnd, Spendable
  <2>4. pc' \in {"idle", "decode1", "prefill", "decode2", "end"}
    BY <1>3 DEF StepBegin, StepEnd
  <2>5. Bookkept'
    BY <1>1, <2>1, <2>4, AdmissionKeepsCounters DEF Bookkept
  <2>6. Phased'
    BY <1>1, <2>1, <2>2, <2>3, AdmissionKeepsPhased
  <2>7. QED
    BY <2>1, <2>2, <2>3, <2>5, <2>6 DEF Inv, Driven, Spendable, BudgetCovers
<1>4. CASE PlanDecode \/ PlanPrefill
  <2>1. pc \notin {"idle", "end"} /\ UNCHANGED <<request, metrics, running, pc>>
    BY <1>4 DEF PlanDecode, PlanPrefill, AtPhase
  <2>2. Bookkept' /\ Driven'
    BY <1>1, <2>1 DEF request, Bookkept, Driven
  <2>3. QED
    BY <1>1, <1>4, <2>2, PlanKeepsPhased, PlanKeepsSpendable DEF Inv
<1>5. CASE SkipDecode \/ SkipPrefill
  <2>1. /\ batch = NoBatch
        /\ pc' \in {"prefill", "decode2", "end"}
        /\ UNCHANGED <<request, cached, metrics, running, budget, batch>>
    BY <1>5 DEF SkipDecode, SkipPrefill, AtPhase, AfterDecode
  <2>2. QED
    BY <1>1, <2>1 DEF request, NoBatch, Inv, Phased, Pinned, Shape, ActiveHolds, BatchInPhase,
                      NothingYet, PhaseMatchesPrompt, Bookkept, Driven, Spendable, BudgetCovers
<1>6. CASE \/ \E eos \in SUBSET batch.plan : DecodeSucceeds(eos)
           \/ \E keep \in SUBSET (cached \cup {Prompt[r] : r \in batch.plan}) : PrefillSucceeds(keep)
           \/ BatchFails
  <2>1. /\ \/ \E eos : DecodeSucceeds(eos)
           \/ \E keep : PrefillSucceeds(keep)
           \/ BatchFails
    BY <1>6
  <2>2. Phased'
    BY <1>1, <2>1, DecodeKeepsPhased, PrefillKeepsPhased, FailKeepsPhased
  <2>3. batch.kind # "none" /\ Leave
    BY <2>1 DEF DecodeSucceeds, DecodeApplies, PrefillSucceeds, BatchFails, FailAll
  <2>4. Driven'
    BY <2>3 DEF Leave, NoBatch, Driven
  <2>5. QED
    BY <2>1, <2>2, <2>3, <2>4, LeaveKeepsSpendable, OutcomeKeepsBookkept DEF Inv
<1>7. CASE UNCHANGED vars
    BY <1>1, <1>7 DEF vars, request, step, Inv, Phased, Pinned, Shape, ActiveHolds, BatchInPhase,
                      NothingYet, PhaseMatchesPrompt, Bookkept, Driven, Spendable, BudgetCovers
<1>8. QED
    BY <1>2, <1>3, <1>4, <1>5, <1>6, <1>7 DEF Next, EngineNext

LEMMA InvAlways == Spec => []Inv
BY InitInv, StepKeepsInv, PTL DEF Spec

\* Every variable of the engine has its type; in particular the budget of a
\* step, an unsigned number in run_decode_batch and run_prefill_batch, stays
\* between 0 and max_batched_tokens.
THEOREM TypeTheorem == Spec => []TypeOK
<1>1. Inv => TypeOK
    BY DEF Inv, Phased, Pinned, Shape, Bookkept, Spendable, TypeOK
<1>2. QED
    BY <1>1, InvAlways, PTL

\* The sessions whose raw pointers a model call uses without the lock stay alive
\* and their requests stay active until the call is over, whatever the clients
\* do in the meantime.
THEOREM PinnedTheorem == Spec => []SessionsPinned
<1>1. Inv => SessionsPinned
  <2>1. SUFFICES ASSUME Inv, NEW r \in batch.plan
                 PROVE  session[r] /\ status[r] \in Active
    BY DEF SessionsPinned
  <2>2. r \in Requests /\ status[r] \in Active
    BY <2>1 DEF Inv, Phased, Pinned, Shape, BatchInPhase, Active
  <2>3. QED
    BY <2>1, <2>2 DEF Inv, Phased, Pinned, ActiveHolds
<1>2. QED
    BY <1>1, InvAlways, PTL

\* No request samples a token before its whole prompt is in its session, and
\* none is stuck in the prefill phase with nothing left to prefill, whatever
\* the prefix cache matched and however the prompts were chunked.
THEOREM PhaseTheorem == Spec => []PhaseMatchesPrompt
<1>1. Inv => PhaseMatchesPrompt
    BY DEF Inv, Phased
<1>2. QED
    BY <1>1, InvAlways, PTL

\* What a batch takes from the budget of its step is there: the subtraction
\* after a batch never wraps around.
THEOREM BudgetTheorem == Spec => []BudgetCovers
<1>1. Inv => BudgetCovers
    BY DEF Inv, Spendable
<1>2. QED
    BY <1>1, InvAlways, PTL
-----------------------------------------------------------------------------
(* Slots and counters. *)

\* A set without some of its elements, counted.
LEMMA Without ==
    ASSUME NEW S \in SUBSET Requests, NEW T \in SUBSET S
    PROVE  Cardinality(S) = Cardinality(S \ T) + Cardinality(T)
<1>1. IsFiniteSet(T) /\ IsFiniteSet(S \ T)
    BY FiniteRequests
<1>2. S = (S \ T) \cup T /\ (S \ T) \cap T = {}
    OBVIOUS
<1>3. Cardinality((S \ T) \cap T) = 0
    BY <1>2, FS_EmptySet, Zenon
<1>4. Cardinality(S) = Cardinality(S \ T) + Cardinality(T) - Cardinality((S \ T) \cap T)
    BY <1>1, <1>2, FS_Union, Zenon
<1>5. Cardinality(S \ T) \in Nat /\ Cardinality(T) \in Nat
    BY FiniteRequests
<1>6. QED
    BY <1>3, <1>4, <1>5

LEMMA Fewer ==
    ASSUME NEW S \in SUBSET Requests, NEW T \in SUBSET S
    PROVE  Cardinality(T) <= Cardinality(S)
BY FiniteRequests, FS_Subset

LEMMA InStatusIsSubset ==
    ASSUME NEW S
    PROVE  InStatus(S) \in SUBSET Requests
BY DEF InStatus

\* What an admission makes of the queue: "admitted" requests become active, as
\* many as there are free slots at most, and "failed" ones are over.
LEMMA AdmissionSplits ==
    ASSUME Inv, Admission
    PROVE  \E admitted, failed \in SUBSET InStatus({"Queued"}) :
              /\ admitted \cap failed = {}
              /\ Cardinality(admitted) <= FreeSlots(Cardinality(InStatus(Active)))
              /\ InStatus(Active)' = InStatus(Active) \cup admitted
              /\ InStatus({"Queued"})' = InStatus({"Queued"}) \ (admitted \cup failed)
              /\ metrics' = Count("failed", Cardinality(failed))
<1>0. PICK visited \in SUBSET InStatus({"Queued"}) :
         \E failed \in SUBSET visited : \E leaked \in SUBSET failed :
            Admit(visited, failed, leaked)
    BY DEF Admission
<1>1. PICK failed \in SUBSET visited :
         \E leaked \in SUBSET failed : Admit(visited, failed, leaked)
    BY <1>0
<1> DEFINE admitted == visited \ failed
<1>2. Cardinality(admitted) <= FreeSlots(Cardinality(InStatus(Active)))
    BY <1>1 DEF Admit, AdmitInto
<1>3. metrics' = Count("failed", Cardinality(failed))
    BY <1>1 DEF Admit, AdmitInto
<1>4. status' = [r \in Requests |->
                    IF r \in failed THEN "Failed"
                    ELSE IF r \notin admitted THEN status[r]
                    ELSE IF r \in Exact THEN "Decoding" ELSE "Prefill"]
    BY <1>1 DEF Admit, AdmitInto
<1>5. \A r \in Requests : r \in visited => status[r] = "Queued"
    BY DEF InStatus
<1>6. InStatus(Active)' = InStatus(Active) \cup admitted
    BY <1>4, <1>5 DEF InStatus, Active
<1>7. InStatus({"Queued"})' = InStatus({"Queued"}) \ (admitted \cup failed)
    BY <1>4, <1>5 DEF InStatus
<1>8. QED
    BY <1>2, <1>3, <1>6, <1>7
-----------------------------------------------------------------------------
(* The bound on active requests and the balance of the counters.  Both follow *)
(* the active and the queued requests through each step.                      *)

Pending == InStatus(Active \cup {"Queued"})

Balanced == ActiveBound /\ MetricsBalance

\* What a step may do to the sum: the requests that are over are counted.
Over == metrics.completed + metrics.cancelled + metrics.failed

LEMMA BalanceIsKept ==
    ASSUME Inv, MetricsBalance, NEW T \in SUBSET Pending, Pending' = Pending \ T,
           metrics'.submitted = metrics.submitted,
           Over' = Over + Cardinality(T)
    PROVE  MetricsBalance'
<1>1. Pending \in SUBSET Requests /\ T \in SUBSET Requests /\ Pending \ T \in SUBSET Requests
    BY InStatusIsSubset DEF Pending
<1>2. Cardinality(Pending) = Cardinality(Pending \ T) + Cardinality(T)
    BY <1>1, Without
<1>3. metrics.submitted = Over + Cardinality(Pending)
    BY DEF MetricsBalance, Pending, Over
<1>4. Cardinality(Pending \ T) \in Nat /\ Cardinality(T) \in Nat /\ Over \in Nat
    BY <1>1, FiniteRequests DEF Inv, Bookkept, Over
<1>5. metrics'.submitted = Over' + Cardinality(Pending')
    BY <1>2, <1>3, <1>4
<1>6. QED
    BY <1>5 DEF MetricsBalance, Pending, Over

LEMMA AdmissionKeepsBalanced ==
    ASSUME Inv, Balanced, Admission
    PROVE  Balanced'
<1>1. PICK admitted \in SUBSET InStatus({"Queued"}), failed \in SUBSET InStatus({"Queued"}) :
              /\ admitted \cap failed = {}
              /\ Cardinality(admitted) <= FreeSlots(Cardinality(InStatus(Active)))
              /\ InStatus(Active)' = InStatus(Active) \cup admitted
              /\ InStatus({"Queued"})' = InStatus({"Queued"}) \ (admitted \cup failed)
              /\ metrics' = Count("failed", Cardinality(failed))
    BY AdmissionSplits
<1>2. /\ InStatus(Active) \in SUBSET Requests
      /\ admitted \in SUBSET Requests /\ failed \in SUBSET Requests
      /\ Pending \in SUBSET Requests
    BY InStatusIsSubset DEF Pending
<1>3. ActiveBound'
  <2> DEFINE old == InStatus(Active)
  <2>1. IsFiniteSet(old) /\ IsFiniteSet(admitted)
    BY <1>2, FiniteRequests
  <2>2. /\ Cardinality(old) \in Nat /\ Cardinality(admitted) \in Nat
        /\ Cardinality(old \cap admitted) \in Nat
    BY <1>2, FiniteRequests
  <2>3. Cardinality(old \cup admitted) = Cardinality(old) + Cardinality(admitted)
                                         - Cardinality(old \cap admitted)
    BY <2>1, FS_Union
  <2>4. Cardinality(old) <= MaxActive /\ MaxActive \in Nat
    BY EngineAssumption DEF Balanced, ActiveBound
  <2>5. Cardinality(admitted) <= MaxActive - Cardinality(old)
    BY <1>1, <2>2, <2>4 DEF FreeSlots
  <2>6. Cardinality(InStatus(Active)') <= MaxActive
    BY <1>1, <2>2, <2>3, <2>4, <2>5
  <2>7. QED
    BY <2>6 DEF ActiveBound
<1>4. MetricsBalance'
  <2>1. Pending' = Pending \ failed /\ failed \in SUBSET Pending
    BY <1>1 DEF Pending, InStatus, Active
  <2>2. Cardinality(failed) \in Nat
    BY <1>2, FiniteRequests
  <2>3. metrics'.submitted = metrics.submitted /\ Over' = Over + Cardinality(failed)
    BY <1>1, <2>2 DEF Inv, Bookkept, Count, Over
  <2>4. QED
    BY <2>1, <2>3, BalanceIsKept DEF Balanced
<1>5. QED
    BY <1>3, <1>4 DEF Balanced

\* A step that activates nobody keeps the bound.
LEMMA BoundIsKept ==
    ASSUME ActiveBound, InStatus(Active)' \subseteq InStatus(Active)
    PROVE  ActiveBound'
<1>1. InStatus(Active) \in SUBSET Requests
    BY InStatusIsSubset
<1>2. /\ Cardinality(InStatus(Active)') <= Cardinality(InStatus(Active))
      /\ Cardinality(InStatus(Active)') \in Nat /\ Cardinality(InStatus(Active)) \in Nat
    BY <1>1, Fewer, FiniteRequests
<1>3. QED
    BY <1>2, EngineAssumption DEF ActiveBound

LEMMA ClientKeepsBalanced ==
    ASSUME Inv, Balanced, ClientNext
    PROVE  Balanced'
<1>1. Shape /\ Bookkept
    BY DEF Inv, Phased, Pinned
<1>2. ASSUME NEW r \in Requests, Submit(r)
      PROVE  Balanced'
  <2>1. /\ status[r] = "Unsubmitted" /\ status' = [status EXCEPT ![r] = "Queued"]
        /\ metrics' = Count("submitted", 1)
    BY <1>2 DEF Submit
  <2>2. InStatus(Active)' \subseteq InStatus(Active)
    BY <1>1, <2>1 DEF InStatus, Active, Shape
  <2>3. Pending' = Pending \cup {r} /\ r \notin Pending
    BY <1>1, <2>1 DEF Pending, InStatus, Active, Shape
  <2>4. Cardinality(Pending') = Cardinality(Pending) + 1 /\ Cardinality(Pending) \in Nat
    <3>1. Pending \in SUBSET Requests
      BY InStatusIsSubset DEF Pending
    <3>2. QED
      BY <2>3, <3>1, FiniteRequests, FS_AddElement
  <2>5. metrics'.submitted = metrics.submitted + 1 /\ Over' = Over /\ Over \in Nat
    BY <1>1, <2>1 DEF Bookkept, Count, Over
  <2>6. metrics.submitted = Over + Cardinality(Pending)
    BY DEF Balanced, MetricsBalance, Pending, Over
  <2>7. metrics'.submitted = Over' + Cardinality(Pending')
    BY <2>4, <2>5, <2>6
  <2>8. MetricsBalance'
    BY <2>7 DEF MetricsBalance, Pending, Over
  <2>9. QED
    BY <2>2, <2>8, BoundIsKept DEF Balanced
<1>3. ASSUME NEW r \in Requests, Cancel(r), status[r] = "Queued"
      PROVE  Balanced'
  <2>1. /\ status' = [status EXCEPT ![r] = "Cancelled"]
        /\ metrics' = Count("cancelled", 1)
    BY <1>3 DEF Cancel, Active
  <2>2. InStatus(Active)' \subseteq InStatus(Active)
    BY <1>1, <2>1 DEF InStatus, Active, Shape
  <2>3. Pending' = Pending \ {r} /\ {r} \in SUBSET Pending
    BY <1>1, <1>3, <2>1 DEF Pending, InStatus, Active, Shape
  <2>4. Cardinality({r}) = 1
    BY FS_Singleton
  <2>5. metrics'.submitted = metrics.submitted /\ Over' = Over + Cardinality({r})
    BY <1>1, <2>1, <2>4 DEF Bookkept, Count, Over
  <2>6. QED
    BY <2>2, <2>3, <2>5, BoundIsKept, BalanceIsKept DEF Balanced
<1>4. ASSUME UNCHANGED <<status, metrics>>
      PROVE  Balanced'
    BY <1>4 DEF Balanced, ActiveBound, MetricsBalance, InStatus
<1>5. ASSUME NEW r \in Requests, Release(r)
      PROVE  Balanced'
  <2>1. /\ status[r] \in Terminal /\ status' = [status EXCEPT ![r] = "Released"]
        /\ UNCHANGED metrics
    BY <1>5 DEF Release
  <2>2. InStatus(Active)' = InStatus(Active) /\ Pending' = Pending
    BY <1>1, <2>1 DEF Pending, InStatus, Active, Terminal, Shape
  <2>3. QED
    BY <2>1, <2>2 DEF Balanced, ActiveBound, MetricsBalance, Pending
<1>6. QED
  <2>1. \A r \in Requests : Cancel(r) => status[r] = "Queued" \/ UNCHANGED <<status, metrics>>
    BY DEF Cancel
  <2>2. ASSUME NEW r \in Requests, NEW max, Poll(r, max)
        PROVE  UNCHANGED <<status, metrics>>
    BY <2>2 DEF Poll
  <2>3. \A on : StartStop(on) => UNCHANGED <<status, metrics>>
    BY DEF StartStop, request
  <2>4. QED
    BY <1>2, <1>3, <1>4, <1>5, <2>1, <2>2, <2>3 DEF ClientNext

\* The outcome of a batch: requests of its plan are over, each counted once.
LEMMA OutcomeKeepsBalanced ==
    ASSUME Inv, Balanced,
           \/ \E eos : DecodeSucceeds(eos)
           \/ \E keep : PrefillSucceeds(keep)
           \/ BatchFails
    PROVE  Balanced'
<1>1. Shape /\ Bookkept /\ BatchInPhase
    BY DEF Inv, Phased, Pinned
<1>2. batch.plan \in SUBSET Requests /\ batch.plan \in SUBSET InStatus(Active)
    BY <1>1 DEF Shape, BatchInPhase, InStatus, Active
<1>3. Stopped \in SUBSET batch.plan
    BY DEF Stopped
<1>4. ASSUME NEW T \in SUBSET batch.plan, NEW U \in SUBSET batch.plan, T \cap U = {},
             \A r \in Requests : r \in T \cup U => status'[r] \in Terminal,
             \A r \in Requests \ (T \cup U) :
                status'[r] = status[r] \/ (status[r] \in Active /\ status'[r] \in Active),
             metrics'.submitted = metrics.submitted,
             Over' = Over + (Cardinality(T) + Cardinality(U))
      PROVE  Balanced'
  <2>1. InStatus(Active)' \subseteq InStatus(Active)
    BY <1>2, <1>4 DEF InStatus, Active, Terminal
  <2>2. Pending' = Pending \ (T \cup U) /\ T \cup U \in SUBSET Pending
    BY <1>2, <1>4 DEF Pending, InStatus, Active, Terminal
  <2>3. Cardinality(T \cup U) = Cardinality(T) + Cardinality(U)
    <3>1. T \cup U \in SUBSET Requests /\ U \in SUBSET (T \cup U) /\ (T \cup U) \ U = T
      BY <1>2, <1>4
    <3>2. QED
      BY <3>1, Without
  <2>4. QED
    BY <1>4, <2>1, <2>2, <2>3, BoundIsKept, BalanceIsKept DEF Balanced
<1>5. ASSUME NEW T \in SUBSET batch.plan
      PROVE  Cardinality(T) \in Nat
    BY <1>2, FiniteRequests
<1>6. ASSUME NEW eos, DecodeSucceeds(eos)
      PROVE  Balanced'
  <2> DEFINE finished == {r \in batch.plan \ Stopped : r \in eos \/ generated[r] + 1 >= MaxNew[r]}
  <2>1. /\ status' = [r \in Requests |-> IF r \in Stopped THEN "Cancelled"
                                         ELSE IF r \in finished THEN "Finished"
                                         ELSE status[r]]
        /\ metrics' = [metrics EXCEPT !.cancelled = @ + Cardinality(Stopped),
                                      !.completed = @ + Cardinality(finished)]
    BY <1>6, Zenon DEF DecodeSucceeds, DecodeApplies
  <2>2. finished \in SUBSET batch.plan /\ Stopped \cap finished = {}
    OBVIOUS
  <2> HIDE DEF finished
  <2>3. Cardinality(Stopped) \in Nat /\ Cardinality(finished) \in Nat
    BY <1>3, <1>5, <2>2
  <2>4. /\ metrics'.submitted = metrics.submitted
        /\ Over' = Over + (Cardinality(Stopped) + Cardinality(finished))
    BY <1>1, <2>1, <2>3 DEF Bookkept, Over
  <2>5. /\ \A r \in Requests : r \in Stopped \cup finished => status'[r] \in Terminal
        /\ \A r \in Requests \ (Stopped \cup finished) : status'[r] = status[r]
    BY <2>1 DEF Terminal
  <2>6. QED
    BY <1>3, <1>4, <2>2, <2>4, <2>5
<1>7. ASSUME NEW keep, PrefillSucceeds(keep)
      PROVE  Balanced'
  <2> DEFINE completed == {r \in batch.plan \ Stopped : offset[r] + batch.take >= Len(Prompt[r])}
  <2>1. /\ status' = [r \in Requests |-> IF r \in Stopped THEN "Cancelled"
                                         ELSE IF r \in completed THEN "Decoding"
                                         ELSE status[r]]
        /\ metrics' = Count("cancelled", Cardinality(Stopped))
    BY <1>7, Zenon DEF PrefillSucceeds
  <2>2. completed \in SUBSET batch.plan
    OBVIOUS
  <2> HIDE DEF completed
  <2>3. Cardinality(Stopped) \in Nat /\ Cardinality({}) = 0
    BY <1>3, <1>5, FS_EmptySet
  <2>4. /\ metrics'.submitted = metrics.submitted
        /\ Over' = Over + (Cardinality(Stopped) + Cardinality({}))
    BY <1>1, <2>1, <2>3 DEF Bookkept, Count, Over
  <2>5. /\ \A r \in Requests : r \in Stopped \cup {} => status'[r] \in Terminal
        /\ \A r \in Requests \ (Stopped \cup {}) :
              status'[r] = status[r] \/ (status[r] \in Active /\ status'[r] \in Active)
    BY <1>2, <2>1, <2>2 DEF Terminal, Active, InStatus
  <2>6. QED
    BY <1>3, <1>4, <2>4, <2>5
<1>8. ASSUME BatchFails
      PROVE  Balanced'
  <2> DEFINE failed == batch.plan \ Stopped
  <2>1. /\ status' = [r \in Requests |-> IF r \in Stopped THEN "Cancelled"
                                         ELSE IF r \in failed THEN "Failed"
                                         ELSE status[r]]
        /\ metrics' = [metrics EXCEPT !.cancelled = @ + Cardinality(Stopped),
                                      !.failed = @ + Cardinality(failed)]
    BY <1>8 DEF BatchFails, FailAll
  <2>2. failed \in SUBSET batch.plan /\ Stopped \cap failed = {}
    OBVIOUS
  <2> HIDE DEF failed
  <2>3. Cardinality(Stopped) \in Nat /\ Cardinality(failed) \in Nat
    BY <1>3, <1>5, <2>2
  <2>4. /\ metrics'.submitted = metrics.submitted
        /\ Over' = Over + (Cardinality(Stopped) + Cardinality(failed))
    BY <1>1, <2>1, <2>3 DEF Bookkept, Over
  <2>5. /\ \A r \in Requests : r \in Stopped \cup failed => status'[r] \in Terminal
        /\ \A r \in Requests \ (Stopped \cup failed) : status'[r] = status[r]
    BY <2>1 DEF Terminal
  <2>6. QED
    BY <1>3, <1>4, <2>2, <2>4, <2>5
<1>9. QED
    BY <1>6, <1>7, <1>8

LEMMA InitBalanced == Init => Balanced
<1> SUFFICES ASSUME Init PROVE Balanced
    OBVIOUS
<1>1. InStatus(Active) = {} /\ InStatus(Active \cup {"Queued"}) = {}
    BY DEF Init, InStatus, Active
<1>2. Cardinality({}) = 0
    BY FS_EmptySet
<1>3. ActiveBound
    BY <1>1, <1>2, EngineAssumption DEF ActiveBound
<1>4. MetricsBalance
    BY <1>1, <1>2 DEF Init, MetricsBalance
<1>5. QED
    BY <1>3, <1>4 DEF Balanced

LEMMA StepKeepsBalanced == Inv /\ Balanced /\ [Next]_vars => Balanced'
<1> SUFFICES ASSUME Inv, Balanced, [Next]_vars PROVE Balanced'
    OBVIOUS
<1>1. CASE UNCHANGED <<status, metrics>>
    BY <1>1 DEF Balanced, ActiveBound, MetricsBalance, InStatus
<1>2. CASE StepBegin \/ StepEnd
    BY <1>2, AdmissionKeepsBalanced DEF StepBegin, StepEnd
<1>3. \/ PlanDecode \/ SkipDecode \/ PlanPrefill \/ SkipPrefill \/ UNCHANGED vars
      => UNCHANGED <<status, metrics>>
    BY DEF PlanDecode, SkipDecode, PlanPrefill, SkipPrefill, vars, request
<1>4. QED
    BY <1>1, <1>2, <1>3, ClientKeepsBalanced, OutcomeKeepsBalanced DEF Next, EngineNext

LEMMA BalancedAlways == Spec => []Balanced
BY InitBalanced, InvAlways, StepKeepsBalanced, PTL DEF Spec

\* No more than max_active_requests ever hold a slot, however the two admissions
\* of a step fall between cancellations, failures and completions.
THEOREM ActiveTheorem == Spec => []ActiveBound
<1>1. Balanced => ActiveBound
    BY DEF Balanced
<1>2. QED
    BY <1>1, BalancedAlways, PTL

\* The lifetime counters and the gauges of metrics() add up at every moment:
\* every accepted request is counted once, on every error path.
THEOREM MetricsTheorem == Spec => []MetricsBalance
<1>1. Balanced => MetricsBalance
    BY DEF Balanced
<1>2. QED
    BY <1>1, BalancedAlways, PTL
-----------------------------------------------------------------------------
(* The engine implements RequestService.  "View" is the service that clients  *)
(* see; a client operation is the operation of that name, and a step of the   *)
(* scheduler moves the requests of its batch or those it fails to admit.      *)

View ==
    [r \in Requests |->
       [status    |-> ServiceStatus(r),
        produced  |-> generated[r],
        taken     |-> polled[r],
        cancelled |-> cancelReq[r] \/ (status[r] = "Cancelled")]]

\* A request that waits has no wish to be cancelled, or its admission could fail
\* it although a cancel was accepted; and none outgrows max_new_tokens.
Wishes ==
    \A r \in Requests :
       /\ generated[r] <= MaxNew[r]
       /\ status[r] \in {"Unsubmitted", "Queued", "Released"} => ~cancelReq[r]

Served == Inv /\ Wishes

LEMMA InitServed == Init => Served
<1> SUFFICES ASSUME Init PROVE Served
    OBVIOUS
<1>1. Wishes
    BY EngineAssumption DEF Init, Wishes
<1>2. QED
    BY <1>1, InitInv DEF Served

\* What one step does to one request, seen from the service: nothing, a token
\* (the last one finishes it), or its end.
Advances(r) ==
    /\ status[r] \in {"Queued"} \cup Active
    /\ ~cancelReq[r]
    /\ generated'[r] = generated[r] + 1
    /\ generated'[r] <= MaxNew[r]
    /\ status'[r] \in Active \cup {"Finished"}
    /\ generated'[r] >= MaxNew[r] => status'[r] = "Finished"

Ends(r) ==
    /\ status[r] \in {"Queued"} \cup Active
    /\ generated'[r] = generated[r]
    /\ status'[r] = IF cancelReq[r] THEN "Cancelled" ELSE "Failed"

Stays(r) ==
    /\ generated'[r] = generated[r]
    /\ \/ status'[r] = status[r]
       \/ status[r] \in {"Queued"} \cup Active /\ status'[r] \in {"Queued"} \cup Active

LEMMA SchedulerStep ==
    ASSUME Served, UNCHANGED <<polled, cancelReq>>,
           \A r \in Requests : Advances(r) \/ Ends(r) \/ Stays(r)
    PROVE  Service!SchedulerMoves
<1>1. ASSUME NEW r \in Requests
      PROVE  View'[r] = View[r] \/ View'[r] \in Service!Moves(r)
  <2>1. /\ generated[r] \in Nat /\ polled[r] \in Nat /\ cancelReq[r] \in BOOLEAN
        /\ status[r] \in Statuses /\ MaxNew[r] \in Nat
        /\ polled[r] <= generated[r] /\ generated[r] <= MaxNew[r]
    BY EngineAssumption DEF Served, Inv, Bookkept, Phased, Pinned, Shape, Wishes
  <2>2. View[r] = [status |-> ServiceStatus(r), produced |-> generated[r], taken |-> polled[r],
                   cancelled |-> cancelReq[r] \/ (status[r] = "Cancelled")]
    BY DEF View
  <2>3. View'[r] = [status |-> ServiceStatus(r)', produced |-> generated'[r], taken |-> polled[r],
                    cancelled |-> cancelReq[r] \/ (status'[r] = "Cancelled")]
    BY DEF View
  <2>4. CASE Stays(r)
    <3>1. ServiceStatus(r)' = ServiceStatus(r) /\ generated'[r] = generated[r]
      BY <2>4 DEF Stays, ServiceStatus, Active
    <3>2. (status'[r] = "Cancelled") <=> (status[r] = "Cancelled")
      BY <2>4 DEF Stays, Active
    <3>3. View'[r] = View[r]
      BY <2>2, <2>3, <3>1, <3>2
    <3>4. QED
      BY <3>3
  <2>5. CASE Advances(r)
    <3>1. View'[r] \in Service!Record(r)
      BY <2>1, <2>3, <2>5 DEF Advances, ServiceStatus, Active, Service!Record, Service!Live,
                              Service!Terminal, Service!Absent
    <3>2. Service!Move(View[r], View'[r], MaxNew[r])
      BY <2>1, <2>2, <2>3, <2>5 DEF Advances, ServiceStatus, Active, Service!Move,
                                    Service!Produce, Service!Live
    <3>3. QED
      BY <3>1, <3>2 DEF Service!Moves, View
  <2>6. CASE Ends(r)
    <3>1. View'[r] \in Service!Record(r)
      BY <2>1, <2>3, <2>6 DEF Ends, ServiceStatus, Active, Service!Record, Service!Live,
                              Service!Terminal, Service!Absent
    <3>2. Service!Move(View[r], View'[r], MaxNew[r])
      BY <2>1, <2>2, <2>3, <2>6 DEF Ends, ServiceStatus, Active, Service!Move,
                                    Service!Retire, Service!Live
    <3>3. QED
      BY <3>1, <3>2 DEF Service!Moves, View
  <2>7. QED
    BY <2>4, <2>5, <2>6
<1>2. DOMAIN View' = Requests
    BY DEF View
<1>3. QED
    BY <1>1, <1>2 DEF Service!SchedulerMoves, View

\* An operation of a client changes what the service shows of one request.
LEMMA OneChanges ==
    ASSUME Served, NEW r \in Requests, NEW n,
           View'[r] = n,
           \A q \in Requests \ {r} : UNCHANGED <<status[q], generated[q], polled[q], cancelReq[q]>>
    PROVE  View' = [View EXCEPT ![r] = n]
<1>1. \A q \in Requests \ {r} : View'[q] = View[q]
    BY DEF View, ServiceStatus
<1>2. View = [q \in Requests |-> View[q]] /\ View' = [q \in Requests |-> View'[q]]
    BY DEF View
<1>3. QED
    BY <1>1, <1>2

LEMMA ClientImplements ==
    ASSUME Served, ClientNext
    PROVE  Service!ServiceNext \/ UNCHANGED View
<1>1. /\ status \in [Requests -> Statuses] /\ generated \in [Requests -> Nat]
      /\ polled \in [Requests -> Nat] /\ cancelReq \in [Requests -> BOOLEAN]
      /\ \A r \in Requests : polled[r] <= generated[r] /\ generated[r] <= MaxNew[r]
      /\ \A r \in Requests : MaxNew[r] \in Nat
    BY EngineAssumption DEF Served, Inv, Bookkept, Phased, Pinned, Shape, Wishes
<1>2. \A r \in Requests :
         /\ View[r] = [status |-> ServiceStatus(r), produced |-> generated[r], taken |-> polled[r],
                       cancelled |-> cancelReq[r] \/ (status[r] = "Cancelled")]
         /\ View'[r] = [status |-> ServiceStatus(r)', produced |-> generated'[r], taken |-> polled'[r],
                        cancelled |-> cancelReq'[r] \/ (status'[r] = "Cancelled")]
    BY DEF View
<1>2a. \A r \in Requests :
         /\ View[r].status = ServiceStatus(r)
         /\ View[r].produced = generated[r]
         /\ View[r].taken = polled[r]
    BY DEF View
<1>3. ASSUME NEW r \in Requests, Submit(r)
      PROVE  Service!Submit(r)
  <2>1. /\ status[r] = "Unsubmitted" /\ status' = [status EXCEPT ![r] = "Queued"]
        /\ UNCHANGED <<generated, polled, cancelReq>>
    BY <1>3 DEF Submit
  <2>2. ServiceStatus(r) = "Unsubmitted" /\ ServiceStatus(r)' = "Live"
    BY <1>1, <2>1 DEF ServiceStatus, Active
  <2> DEFINE n == [View[r] EXCEPT !.status = "Live"]
  <2>3. View'[r] = n
    <3>1. status'[r] # "Cancelled" /\ status[r] # "Cancelled"
      BY <1>1, <2>1
    <3>2. View[r] = [status |-> "Unsubmitted", produced |-> generated[r], taken |-> polled[r],
                     cancelled |-> cancelReq[r]]
      BY <1>1, <1>2, <2>2, <3>1
    <3>3. View'[r] = [status |-> "Live", produced |-> generated[r], taken |-> polled[r],
                      cancelled |-> cancelReq[r]]
      BY <1>1, <1>2, <2>1, <2>2, <3>1
    <3>4. QED
      BY <3>2, <3>3
  <2>4. View' = [View EXCEPT ![r] = n]
    <3> HIDE DEF n
    <3>1. QED
      BY <1>1, <2>1, <2>3, OneChanges
  <2>5. View[r].status = "Unsubmitted"
    BY <1>2a, <2>2
  <2>6. View' = [View EXCEPT ![r].status = "Live"]
    BY <2>4
  <2>7. QED
    BY <2>5, <2>6 DEF Service!Submit, View
<1>4. ASSUME NEW r \in Requests, NEW max \in 0 .. MaxNew[r], Poll(r, max)
      PROVE  \E n \in 0 .. MaxNew[r] : Service!PollTakes(r, n)
  <2> DEFINE available == generated[r] - polled[r]
             count     == IF max = 0 \/ max > available THEN available ELSE max
  <2>1. /\ status[r] \notin Absent /\ polled' = [polled EXCEPT ![r] = @ + count]
        /\ UNCHANGED <<status, generated, cancelReq>>
    BY <1>4 DEF Poll
  <2>2. count \in 0 .. MaxNew[r] /\ count \in 0 .. available
    BY <1>1
  <2> HIDE DEF count
  <2>3. ServiceStatus(r)' = ServiceStatus(r)
    BY <2>1 DEF ServiceStatus
  <2> DEFINE n == [View[r] EXCEPT !.taken = @ + count]
  <2>4. View'[r] = n
    <3>1. View[r] = [status |-> ServiceStatus(r), produced |-> generated[r], taken |-> polled[r],
                     cancelled |-> cancelReq[r] \/ (status[r] = "Cancelled")]
      BY <1>2
    <3>2. View'[r] = [status |-> ServiceStatus(r), produced |-> generated[r],
                      taken |-> polled[r] + count,
                      cancelled |-> cancelReq[r] \/ (status[r] = "Cancelled")]
      BY <1>1, <1>2, <2>1, <2>3
    <3>3. QED
      BY <3>1, <3>2
  <2>5. View' = [View EXCEPT ![r] = n]
    <3> HIDE DEF n
    <3>1. QED
      BY <1>1, <2>1, <2>4, OneChanges
  <2>6. View' = [View EXCEPT ![r].taken = @ + count]
    BY <2>5
  <2>7. View[r].status \notin {"Unsubmitted", "Released"} /\ count \in 0 .. (View[r].produced - View[r].taken)
    BY <1>2a, <2>1, <2>2 DEF ServiceStatus, Absent, Active
  <2>8. Service!PollTakes(r, count)
    BY <2>6, <2>7 DEF Service!PollTakes, Service!Known, Service!Absent, Service!Unread,
                      Service!Advance, View
  <2>9. QED
    BY <2>2, <2>8
<1>5. ASSUME NEW r \in Requests, Cancel(r)
      PROVE  Service!CancelAccepted(r)
  <2>1. /\ status[r] \in {"Queued"} \cup Active
        /\ \/ status' = [status EXCEPT ![r] = "Cancelled"] /\ UNCHANGED cancelReq
           \/ cancelReq' = [cancelReq EXCEPT ![r] = TRUE] /\ UNCHANGED status
        /\ UNCHANGED <<generated, polled>>
    BY <1>5 DEF Cancel
  <2> DEFINE s == ServiceStatus(r)'
  <2>2. ServiceStatus(r) = "Live" /\ s \in {"Live", "Cancelled"}
    BY <1>1, <2>1 DEF ServiceStatus
  <2>3. cancelReq'[r] \/ status'[r] = "Cancelled"
    BY <1>1, <2>1
  <2> DEFINE n == [status |-> s, produced |-> generated[r], taken |-> polled[r], cancelled |-> TRUE]
  <2>4. View'[r] = n
    BY <1>1, <1>2, <2>1, <2>3
  <2>5. View' = [View EXCEPT ![r] = n]
    <3> HIDE DEF n, s
    <3>1. QED
      BY <1>1, <2>1, <2>4, OneChanges
  <2> HIDE DEF s
  <2>6. View' = [View EXCEPT ![r].status = s, ![r].cancelled = TRUE]
    <3>1. r \in DOMAIN View
      BY DEF View
    <3>2. View[r] = [status |-> ServiceStatus(r), produced |-> generated[r], taken |-> polled[r],
                     cancelled |-> cancelReq[r] \/ (status[r] = "Cancelled")]
      BY <1>2
    <3> DEFINE m == [View[r] EXCEPT !.status = s]
    <3>5. m = [status |-> s, produced |-> generated[r], taken |-> polled[r],
               cancelled |-> cancelReq[r] \/ (status[r] = "Cancelled")]
      BY <3>2
    <3>6. n = [m EXCEPT !.cancelled = TRUE]
      <4> HIDE DEF m
      <4>1. PICK u : u = [m EXCEPT !.cancelled = TRUE]
        OBVIOUS
      <4>2. u = n
        BY <3>5, <4>1
      <4>3. QED
        BY <4>1, <4>2, Zenon
    <3>3. n = [View[r] EXCEPT !.status = s, !.cancelled = TRUE]
      BY <3>6
    <3>4. QED
      BY <2>5, <3>1, <3>3
  <2>7. View[r].status = "Live"
    BY <1>2a, <2>2
  <2>8. QED
    BY <2>2, <2>6, <2>7 DEF Service!CancelAccepted, Service!Live, View
<1>6. ASSUME NEW r \in Requests, Release(r)
      PROVE  Service!Release(r)
  <2>1. /\ status[r] \in Terminal /\ status' = [status EXCEPT ![r] = "Released"]
        /\ generated' = [generated EXCEPT ![r] = 0] /\ polled' = [polled EXCEPT ![r] = 0]
        /\ cancelReq' = [cancelReq EXCEPT ![r] = FALSE]
    BY <1>6 DEF Release
  <2> DEFINE gone == [status |-> "Released", produced |-> 0, taken |-> 0, cancelled |-> FALSE]
  <2>2. ServiceStatus(r) = status[r] /\ ServiceStatus(r)' = "Released" /\ status'[r] = "Released"
    BY <1>1, <2>1 DEF ServiceStatus, Terminal, Active
  <2>3. View'[r] = gone
    BY <1>1, <1>2, <2>1, <2>2
  <2> HIDE DEF gone
  <2>4. View' = [View EXCEPT ![r] = gone]
    BY <1>1, <2>1, <2>3, OneChanges
  <2>5. gone = [Service!Fresh EXCEPT !.status = "Released"]
    <3> DEFINE f == Service!Fresh
    <3>1. f = [status |-> "Unsubmitted", produced |-> 0, taken |-> 0, cancelled |-> FALSE]
      BY DEF Service!Fresh
    <3> HIDE DEF f
    <3>2. PICK u : u = [f EXCEPT !.status = "Released"]
      OBVIOUS
    <3>3. u = gone
      BY <3>1, <3>2 DEF gone
    <3>4. QED
      BY <3>2, <3>3, Zenon DEF f
  <2>6. View[r].status \in Terminal
    BY <1>2a, <2>1, <2>2
  <2>7. QED
    BY <2>4, <2>5, <2>6 DEF Service!Release, Service!Terminal, Terminal, View
<1>7. ASSUME NEW on \in BOOLEAN, StartStop(on)
      PROVE  UNCHANGED View
    BY <1>7 DEF StartStop, request, View, ServiceStatus
<1>8. QED
    BY <1>3, <1>4, <1>5, <1>6, <1>7 DEF ClientNext, Service!ServiceNext

LEMMA AdmissionImplements ==
    ASSUME Served, Admission
    PROVE  Service!SchedulerMoves
<1>1. UNCHANGED <<generated, polled, cancelReq>>
    BY AdmissionEffect, AdmissionKeepsCounters DEF Served, Inv, Phased, Pinned
<1>2. \A r \in Requests : Ends(r) \/ Stays(r)
  <2>1. \A r \in Requests :
           \/ UNCHANGED status[r]
           \/ status[r] = "Queued" /\ status'[r] = "Failed"
           \/ Enters(r)
    BY AdmissionEffect DEF Served, Inv, Phased, Pinned
  <2>2. \A r \in Requests : status[r] = "Queued" => ~cancelReq[r]
    BY DEF Served, Wishes
  <2>3. QED
    BY <1>1, <2>1, <2>2 DEF Ends, Stays, Enters, Active
<1>3. QED
    BY <1>1, <1>2, SchedulerStep

LEMMA OutcomeImplements ==
    ASSUME Served,
           \/ \E eos : DecodeSucceeds(eos)
           \/ \E keep : PrefillSucceeds(keep)
           \/ BatchFails
    PROVE  Service!SchedulerMoves
<1>1. Shape /\ BatchInPhase /\ PhaseMatchesPrompt
    BY DEF Served, Inv, Phased, Pinned
<1>2. \A r \in batch.plan : r \in Requests /\ status[r] \in Active
    BY <1>1 DEF Shape, BatchInPhase, Active
<1>3. Stopped \in SUBSET batch.plan /\ \A r \in batch.plan : r \in Stopped <=> cancelReq[r]
    BY DEF Stopped
<1>4. UNCHANGED <<polled, cancelReq>>
    BY DEF DecodeSucceeds, DecodeApplies, PrefillSucceeds, BatchFails, FailAll
<1>5. ASSUME NEW eos, DecodeSucceeds(eos), NEW r \in Requests
      PROVE  Advances(r) \/ Ends(r) \/ Stays(r)
  <2> DEFINE finished == {q \in batch.plan \ Stopped : q \in eos \/ generated[q] + 1 >= MaxNew[q]}
  <2>1. /\ batch.kind = "decode"
        /\ generated' = [q \in Requests |->
                           generated[q] + (IF q \in batch.plan \ Stopped THEN 1 ELSE 0)]
        /\ status' = [q \in Requests |-> IF q \in Stopped THEN "Cancelled"
                                         ELSE IF q \in finished THEN "Finished"
                                         ELSE status[q]]
    BY <1>5, Zenon DEF DecodeSucceeds, DecodeApplies
  <2>2. generated[r] \in Nat /\ MaxNew[r] \in Nat
    BY <1>1, EngineAssumption DEF Shape
  <2>3. CASE r \in batch.plan \ Stopped
    <3>1. status[r] = "Decoding" /\ generated[r] < MaxNew[r]
      BY <1>1, <2>1, <2>3 DEF BatchInPhase, PhaseMatchesPrompt
    <3>2. generated'[r] = generated[r] + 1 /\ ~cancelReq[r]
      BY <1>3, <2>1, <2>3
    <3>3. generated[r] + 1 >= MaxNew[r] => r \in finished
      BY <2>3
    <3>4. status'[r] = IF r \in finished THEN "Finished" ELSE "Decoding"
      BY <2>1, <2>3, <3>1
    <3> HIDE DEF finished
    <3>5. QED
      BY <2>2, <3>1, <3>2, <3>3, <3>4 DEF Advances, Active
  <2>4. CASE r \in Stopped
    BY <1>2, <1>3, <2>1, <2>2, <2>4 DEF Ends, Active
  <2>5. CASE r \notin batch.plan
    BY <1>3, <2>1, <2>2, <2>5 DEF Stays
  <2>6. QED
    BY <2>3, <2>4, <2>5
<1>6. ASSUME NEW keep, PrefillSucceeds(keep), NEW r \in Requests
      PROVE  Ends(r) \/ Stays(r)
  <2> DEFINE completed == {q \in batch.plan \ Stopped : offset[q] + batch.take >= Len(Prompt[q])}
  <2>1. /\ UNCHANGED generated
        /\ status' = [q \in Requests |-> IF q \in Stopped THEN "Cancelled"
                                         ELSE IF q \in completed THEN "Decoding"
                                         ELSE status[q]]
    BY <1>6, Zenon DEF PrefillSucceeds
  <2>2. completed \in SUBSET batch.plan
    OBVIOUS
  <2> HIDE DEF completed
  <2>3. QED
    BY <1>2, <1>3, <2>1, <2>2 DEF Ends, Stays, Active
<1>7. ASSUME BatchFails, NEW r \in Requests
      PROVE  Ends(r) \/ Stays(r)
  <2>1. /\ UNCHANGED generated
        /\ status' = [q \in Requests |-> IF q \in Stopped THEN "Cancelled"
                                         ELSE IF q \in batch.plan \ Stopped THEN "Failed"
                                         ELSE status[q]]
    BY <1>7 DEF BatchFails, FailAll
  <2>2. QED
    BY <1>2, <1>3, <2>1 DEF Ends, Stays, Active
<1>8. QED
    BY <1>4, <1>5, <1>6, <1>7, SchedulerStep

LEMMA StepKeepsWishes == Served /\ [Next]_vars => Wishes'
<1> SUFFICES ASSUME Served, [Next]_vars PROVE Wishes'
    OBVIOUS
<1>1. /\ Shape /\ \A r \in Requests : MaxNew[r] \in Nat
      /\ Inv /\ Wishes /\ Bookkept
    BY EngineAssumption DEF Served, Inv, Phased, Pinned
<1>2. ASSUME UNCHANGED <<status, generated, cancelReq>>
      PROVE  Wishes'
    BY <1>1, <1>2 DEF Wishes
<1>3. CASE ClientNext
  <2>1. ASSUME NEW r \in Requests, Submit(r) PROVE Wishes'
    BY <1>1, <2>1 DEF Submit, Wishes, Shape
  <2>2. ASSUME NEW r \in Requests, Cancel(r) PROVE Wishes'
    BY <1>1, <2>2 DEF Cancel, Wishes, Shape, Active
  <2>3. ASSUME NEW r \in Requests, Release(r) PROVE Wishes'
    BY <1>1, <2>3 DEF Release, Wishes, Shape
  <2>4. ASSUME NEW r \in Requests, NEW max, Poll(r, max)
        PROVE  UNCHANGED <<status, generated, cancelReq>>
    BY <2>4 DEF Poll
  <2>5. \A on : StartStop(on) => UNCHANGED <<status, generated, cancelReq>>
    BY DEF StartStop, request
  <2>6. QED
    BY <1>2, <1>3, <2>1, <2>2, <2>3, <2>4, <2>5 DEF ClientNext
<1>4. CASE StepBegin \/ StepEnd
  <2>1. Admission
    BY <1>4 DEF StepBegin, StepEnd
  <2>2. UNCHANGED <<generated, cancelReq>>
    BY <1>1, <2>1, AdmissionEffect
  <2>3. \A r \in Requests :
           \/ UNCHANGED status[r]
           \/ status[r] = "Queued" /\ status'[r] = "Failed"
           \/ Enters(r)
    BY <1>1, <2>1, AdmissionEffect
  <2>4. QED
    BY <1>1, <2>2, <2>3 DEF Wishes, Enters
<1>5. CASE PlanDecode \/ SkipDecode \/ PlanPrefill \/ SkipPrefill \/ UNCHANGED vars
    BY <1>2, <1>5 DEF PlanDecode, SkipDecode, PlanPrefill, SkipPrefill, vars, request
<1>6. ASSUME NEW eos, DecodeSucceeds(eos) PROVE Wishes'
  <2> DEFINE finished == {q \in batch.plan \ Stopped : q \in eos \/ generated[q] + 1 >= MaxNew[q]}
  <2>1. /\ batch.kind = "decode" /\ UNCHANGED cancelReq
        /\ generated' = [q \in Requests |->
                           generated[q] + (IF q \in batch.plan \ Stopped THEN 1 ELSE 0)]
        /\ status' = [q \in Requests |-> IF q \in Stopped THEN "Cancelled"
                                         ELSE IF q \in finished THEN "Finished"
                                         ELSE status[q]]
    BY <1>6, Zenon DEF DecodeSucceeds, DecodeApplies
  <2> HIDE DEF finished
  <2>2. \A r \in Requests : r \in batch.plan => generated[r] < MaxNew[r]
    BY <1>1, <2>1 DEF Inv, Phased, Pinned, BatchInPhase, PhaseMatchesPrompt
  <2>3. \A r \in Requests : generated'[r] <= MaxNew[r]
    BY <1>1, <2>1, <2>2 DEF Wishes, Shape
  <2>4. \A r \in Requests : status'[r] \in {"Cancelled", "Finished"} \/ status'[r] = status[r]
    BY <2>1
  <2>5. QED
    BY <1>1, <2>1, <2>3, <2>4 DEF Wishes
<1>7. ASSUME NEW keep, PrefillSucceeds(keep) PROVE Wishes'
  <2>1. /\ UNCHANGED <<generated, cancelReq>>
        /\ \A r \in Requests : status'[r] \in {"Cancelled", "Decoding"} \/ status'[r] = status[r]
    BY <1>7 DEF PrefillSucceeds
  <2>2. QED
    BY <1>1, <2>1 DEF Wishes
<1>8. ASSUME BatchFails PROVE Wishes'
  <2>1. /\ UNCHANGED <<generated, cancelReq>>
        /\ \A r \in Requests : status'[r] \in {"Cancelled", "Failed"} \/ status'[r] = status[r]
    BY <1>8 DEF BatchFails, FailAll
  <2>2. QED
    BY <1>1, <2>1 DEF Wishes
<1>9. QED
    BY <1>3, <1>4, <1>5, <1>6, <1>7, <1>8 DEF Next, EngineNext

LEMMA ServedAlways == Spec => []Served
<1>1. Served /\ [Next]_vars => Served'
    BY StepKeepsInv, StepKeepsWishes DEF Served
<1>2. QED
    BY <1>1, InitServed, PTL DEF Spec

LEMMA StepImplements == Served /\ [Next]_vars => Service!ServiceNext \/ UNCHANGED View
<1> SUFFICES ASSUME Served, [Next]_vars PROVE Service!ServiceNext \/ UNCHANGED View
    OBVIOUS
<1>1. CASE StepBegin \/ StepEnd
    BY <1>1, AdmissionImplements DEF StepBegin, StepEnd, Service!ServiceNext
<1>2. CASE PlanDecode \/ SkipDecode \/ PlanPrefill \/ SkipPrefill \/ UNCHANGED vars
  <2>1. UNCHANGED <<status, generated, polled, cancelReq>>
    BY <1>2 DEF PlanDecode, SkipDecode, PlanPrefill, SkipPrefill, vars, request
  <2>2. QED
    BY <2>1 DEF View, ServiceStatus
<1>3. CASE \/ \E eos \in SUBSET batch.plan : DecodeSucceeds(eos)
           \/ \E keep \in SUBSET (cached \cup {Prompt[r] : r \in batch.plan}) : PrefillSucceeds(keep)
           \/ BatchFails
  <2>1. \/ \E eos : DecodeSucceeds(eos)
        \/ \E keep : PrefillSucceeds(keep)
        \/ BatchFails
    BY <1>3
  <2>2. QED
    BY <2>1, OutcomeImplements DEF Service!ServiceNext
<1>4. QED
    BY <1>1, <1>2, <1>3, ClientImplements DEF Next, EngineNext

\* The engine is a RequestService: no token is lost, repeated or added once a
\* cancel was accepted or the request is over, an accepted cancel ends in Cancelled
\* even when the batch or the admission fails, only a request that is over is
\* forgotten, and no request outgrows max_new_tokens.
THEOREM ServiceTheorem == Spec => ImplementsService
<1>1. Init => Service!ServiceInit
  <2>1. SUFFICES ASSUME Init PROVE View = [r \in Requests |-> Service!Fresh]
    BY DEF Service!ServiceInit, View
  <2>2. \A r \in Requests : View[r] = Service!Fresh
    BY <2>1 DEF Init, View, ServiceStatus, Active, Service!Fresh
  <2>3. QED
    BY <2>2 DEF View
<1>2. Served /\ [Next]_vars => Service!ServiceNext \/ UNCHANGED View
    BY StepImplements
<1>3. QED
    BY <1>1, <1>2, ServedAlways, PTL DEF Spec, ImplementsService, Service!ServiceSpec, View
-----------------------------------------------------------------------------
(* The worker.  Its thread is the only one that steps the engine; the theorems *)
(* above hold under it, since it does what the engine's specification allows.  *)

LEMMA WorkerSteps == WorkerNext => Next \/ UNCHANGED vars
<1> SUFFICES ASSUME WorkerNext PROVE Next \/ UNCHANGED vars
    OBVIOUS
<1>1. CASE Call
  <2>1. \/ StartStop(TRUE) \/ StartStop(FALSE)
        \/ \E r \in Requests : Submit(r) \/ Cancel(r) \/ Release(r)
    BY <1>1 DEF Call, Wakeful, Quiet
  <2>2. QED
    BY <2>1 DEF Next, ClientNext
<1>2. CASE Close
  <2>1. running' = FALSE
    BY <1>2 DEF Close
  <2>2. UNCHANGED <<request, cached, metrics, step>>
    BY <1>2 DEF Close
  <2>3. CASE running = FALSE
    <3>1. UNCHANGED running
      BY <2>1, <2>3
    <3>2. QED
      BY <2>2, <3>1 DEF vars
  <2>4. CASE running # FALSE
    <3>1. StartStop(FALSE)
      BY <2>1, <2>2, <2>4 DEF StartStop
    <3>2. QED
      BY <3>1 DEF Next, ClientNext
  <2>5. QED
    BY <2>3, <2>4
<1>3. CASE Step
  <2>1. EngineNext
    BY <1>3 DEF Step
  <2>2. QED
    BY <2>1 DEF Next
<1>4. CASE Notify \/ Stop \/ Join \/ Top \/ Gate \/ Returned \/ Wakes
  <2>1. UNCHANGED vars
    BY <1>4 DEF Notify, Stop, Join, Top, Gate, Returned, Wakes, GoesTo
  <2>2. QED
    BY <2>1
<1>5. QED
    BY <1>1, <1>2, <1>3, <1>4 DEF WorkerNext, ThreadNext

\* Between two steps the engine is at rest, the thread has ended when the destructor
\* has joined it, and no client is on its way to notify() when it begins.
Attended ==
    /\ pc \in {"idle", "end"} => batch = NoBatch
    /\ loop # "step" => pc = "idle"
    /\ life = "gone" => loop = "exited"
    /\ life # "alive" => owed = 0

LEMMA StepAttended ==
    ASSUME Attended, Step
    PROVE  Attended'
<1>1. loop = "step" /\ EngineNext /\ life # "gone" /\ UNCHANGED <<life, owed>>
      /\ loop' = IF pc = "end" THEN "returned" ELSE loop
    BY DEF Step, Attended
<1>2. /\ pc' \in {"idle", "end"} => batch' = NoBatch
      /\ pc = "end" => pc' = "idle"
  <2>1. batch # NoBatch => pc \notin {"idle", "end"}
    BY DEF Attended
  <2>2. NoBatch.kind = "none"
    BY DEF NoBatch
  <2>3. CASE StepBegin \/ StepEnd
    BY <2>1, <2>3 DEF StepBegin, StepEnd
  <2>4. CASE PlanDecode \/ PlanPrefill
    BY <2>4 DEF PlanDecode, PlanPrefill, AtPhase
  <2>5. CASE SkipDecode \/ SkipPrefill
    BY <2>5 DEF SkipDecode, SkipPrefill, AtPhase
  <2>6. CASE \/ \E eos : DecodeSucceeds(eos)
             \/ \E keep : PrefillSucceeds(keep)
             \/ BatchFails
    <3>1. batch.kind # "none" /\ Leave
      <4>1. ASSUME NEW eos, DecodeSucceeds(eos)
            PROVE  batch.kind = "decode" /\ Leave
        BY <4>1 DEF DecodeSucceeds, DecodeApplies
      <4>2. ASSUME NEW keep, PrefillSucceeds(keep)
            PROVE  batch.kind \in {"embedded", "chunked", "ragged"} /\ Leave
        BY <4>2 DEF PrefillSucceeds
      <4>3. BatchFails => batch.kind # "none" /\ Leave
        BY DEF BatchFails, FailAll
      <4>4. QED
        BY <2>6, <4>1, <4>2, <4>3
    <3>2. batch' = NoBatch
      BY <3>1 DEF Leave
    <3>3. QED
      BY <2>1, <2>2, <3>1, <3>2
  <2>7. QED
    BY <1>1, <2>3, <2>4, <2>5, <2>6 DEF EngineNext
<1>3. QED
    BY <1>1, <1>2 DEF Attended

LEMMA AttendedAlways == WorkerSpec => []Attended
<1>1. WorkerInit => Attended
    BY DEF WorkerInit, Init, Attended
<1>2. Attended /\ [WorkerNext]_allVars => Attended'
  <2> SUFFICES ASSUME Attended, [WorkerNext]_allVars PROVE Attended'
    OBVIOUS
  <2>1. CASE Call
    <3>1. /\ life = "alive" /\ UNCHANGED <<loop, life>>
          /\ UNCHANGED <<pc, batch>>
      BY <2>1 DEF Call, Wakeful, Quiet, StartStop, Submit, Cancel, Release, step
    <3>2. QED
      BY <3>1 DEF Attended
  <2>2. CASE Notify
    BY <2>2 DEF Notify, Attended, vars, step
  <2>3. CASE Close
    BY <2>3 DEF Close, Attended, step
  <2>4. CASE Stop \/ Join
    BY <2>4 DEF Stop, Join, Attended, vars, step
  <2>5. CASE Step
    BY <2>5, StepAttended
  <2>6. CASE Top \/ Gate \/ Returned \/ Wakes
    <3>1. /\ loop \in {"top", "gate", "returned", "waiting"} /\ UNCHANGED <<pc, batch, life, owed>>
      BY <2>6 DEF Top, Gate, Returned, Wakes, GoesTo, vars, step
    <3>2. QED
      BY <3>1 DEF Attended
  <2>7. CASE UNCHANGED allVars
    BY <2>7 DEF Attended, allVars, vars, step, worker
  <2>8. QED
    BY <2>1, <2>2, <2>3, <2>4, <2>5, <2>6, <2>7 DEF WorkerNext, ThreadNext
<1>3. QED
    BY <1>1, <1>2, PTL DEF WorkerSpec

\* The engine under its worker is the engine: the worker steps it and clients call it
\* only as they may, so everything proved of Spec holds of the two together.
THEOREM WorkerTheorem == WorkerSpec => Spec
<1>1. WorkerInit => Init
    BY DEF WorkerInit
<1>2. UNCHANGED allVars => UNCHANGED vars
    BY DEF allVars
<1>3. QED
    BY <1>1, <1>2, WorkerSteps, PTL DEF WorkerSpec, Spec

\* When ~CpuSchedulerDriver returns, no batch is in flight and nobody is left inside: the
\* thread has ended, at the end of a step and not in it, and no notify() is to come.
THEOREM DestroyedTheorem ==
    WorkerSpec => [](life = "gone" => loop = "exited" /\ pc = "idle" /\ batch = NoBatch /\ owed = 0)
<1>1. Attended => (life = "gone" => loop = "exited" /\ pc = "idle" /\ batch = NoBatch /\ owed = 0)
    BY DEF Attended
<1>2. QED
    BY <1>1, AttendedAlways, PTL
=============================================================================
