--------------------------- MODULE RequestService ---------------------------
(***************************************************************************)
(* What the serving layer may assume of an inference service               *)
(* (IRequestService and ISchedulerDriver, celeg/serve/inference_service.   *)
(* hpp): the life of a request, seen through submit, poll, cancel and      *)
(* release, with the scheduler reduced to the moves it may make.  CpuEngine *)
(* and CudaEngine are shown to implement this module; GenerationDispatcher  *)
(* is built on it.                                                          *)
(*                                                                         *)
(* A token is its position in the request's output: "produced" counts the  *)
(* tokens the scheduler has appended, "taken" those that polls returned.   *)
(***************************************************************************)
EXTENDS Naturals

CONSTANTS Requests,   \* the request ids clients may come to use
          MaxNew,     \* [Requests -> Nat \ {0}], max_new_tokens of each
          CancelLoses \* whether a request to be cancelled may fail instead: the
                      \* CUDA engine lets it, the CPU engine does not

ASSUME ServiceAssumption == MaxNew \in [Requests -> Nat \ {0}] /\ CancelLoses \in BOOLEAN

VARIABLE svc          \* [Requests -> Record]

Live     == {"Live"}  \* Queued, Prefill or Decoding: a poll tells them apart,
                      \* nothing a client may do depends on it
Terminal == {"Finished", "Cancelled", "Failed"}
Absent   == {"Unsubmitted", "Released"}       \* the id is not in the map

Record(r) == [status    : Live \cup Terminal \cup Absent,
              produced  : 0 .. MaxNew[r],
              taken     : 0 .. MaxNew[r],
              cancelled : BOOLEAN]

Fresh == [status |-> "Unsubmitted", produced |-> 0, taken |-> 0,
          cancelled |-> FALSE]

\* A client never reads more than there is, and no request outgrows its limit.
ServiceTypeOK ==
    /\ svc \in [Requests -> [status    : Live \cup Terminal \cup Absent,
                            produced  : Nat,
                            taken     : Nat,
                            cancelled : BOOLEAN]]
    /\ \A r \in Requests : svc[r].taken <= svc[r].produced /\ svc[r].produced <= MaxNew[r]

ServiceInit == svc = [r \in Requests |-> Fresh]

\* The ids the service knows: poll and status throw std::out_of_range on others.
Known(r) == svc[r].status \notin Absent
-----------------------------------------------------------------------------
(* Operations of the client. *)

Submit(r) ==
    /\ svc[r].status = "Unsubmitted"
    /\ svc' = [svc EXCEPT ![r].status = "Live"]

\* poll(id, max_tokens): the next n unread tokens.
Unread(r) == svc[r].produced - svc[r].taken

Advance(r, n) == svc' = [svc EXCEPT ![r].taken = @ + n]

\* Faulty: one token too many is taken for read.
PollOvershoots(r, n) == Known(r) /\ n \in 0 .. Unread(r) /\ Advance(r, n + 1)

PollTakes(r, n) == Known(r) /\ n \in 0 .. Unread(r) /\ Advance(r, n)

\* What poll reports as finished once it has taken n tokens.
FinishedAfter(r, n) == svc[r].status \in Terminal /\ n = Unread(r)

\* cancel(id) returns true: at once for a queued request, as a wish otherwise.
CancelAccepted(r) ==
    /\ svc[r].status \in Live
    /\ \E s \in Live \cup {"Cancelled"} :
          svc' = [svc EXCEPT ![r].status = s, ![r].cancelled = TRUE]

\* cancel(id) returns false: the request is unknown or already over.
CancelRefused(r) == svc[r].status \notin Live

\* release(id) returns true: only a request that is over can be forgotten.
Release(r) ==
    /\ svc[r].status \in Terminal
    /\ svc' = [svc EXCEPT ![r] = [Fresh EXCEPT !.status = "Released"]]
-----------------------------------------------------------------------------
(* What one step of the scheduler may do to one request: append a token,   *)
(* finish it, fail it, or, once it is cancelled, only retire it.           *)

Produce(q, n, limit) ==
    /\ ~q.cancelled
    /\ n.produced = q.produced + 1
    /\ n.status \in Live \cup {"Finished"}
    /\ n.produced >= limit => n.status = "Finished"

Retire(q, n) ==
    /\ n.produced = q.produced
    /\ n.status \in IF ~q.cancelled THEN {"Failed"}
                    ELSE IF CancelLoses THEN {"Cancelled", "Failed"} ELSE {"Cancelled"}

Move(q, n, limit) ==
    /\ q.status \in Live
    /\ n.taken = q.taken
    /\ n.cancelled = q.cancelled
    /\ Produce(q, n, limit) \/ Retire(q, n)

Moves(r) == {n \in Record(r) : Move(svc[r], n, MaxNew[r])}

\* A batch moves several requests at once.
SchedulerMoves ==
    /\ DOMAIN svc' = Requests
    /\ \A r \in Requests : svc'[r] = svc[r] \/ svc'[r] \in Moves(r)

ServiceNext ==
    \/ \E r \in Requests : \/ Submit(r)
                           \/ \E n \in 0 .. MaxNew[r] : PollTakes(r, n)
                           \/ CancelAccepted(r)
                           \/ Release(r)
    \/ SchedulerMoves

ServiceSpec == ServiceInit /\ [][ServiceNext]_svc
=============================================================================
