--------------------------- MODULE LifecyclePolicy ---------------------------
(* The transfer states and TransferLifecyclePolicy.assertTransition, which     *)
(* every writer of a transfer's status consults.                               *)

PreCollection == {"INITIATED", "PENDING_COLLECTION"}
PostCollection == {"COLLECTION_SUCCESS", "PENDING_PAYOUT",
                   "PAYOUT_SUCCESS", "PAYOUT_FAILED"}
Statuses == PreCollection \union {"COLLECTION_FAILED"} \union PostCollection

(* States from which the worker closes the chat session.                       *)
ClosedStatuses == {"COLLECTION_FAILED", "PAYOUT_SUCCESS", "PAYOUT_FAILED"}

AllowedTransitions ==
  {<<"INITIATED", "PENDING_COLLECTION">>,
   <<"PENDING_COLLECTION", "COLLECTION_SUCCESS">>,
   <<"PENDING_COLLECTION", "COLLECTION_FAILED">>,
   <<"COLLECTION_SUCCESS", "PENDING_PAYOUT">>,
   <<"PENDING_PAYOUT", "PAYOUT_SUCCESS">>,
   <<"PENDING_PAYOUT", "PAYOUT_FAILED">>}

(* Mutant of CanTransition: the target must be some step's target, from        *)
(* wherever.                                                                   *)
CanTransitionByTarget(from, to) ==
  from = to \/ \E s \in Statuses : <<s, to>> \in AllowedTransitions

(* assertTransition without a context: the same state, or a listed step.       *)
CanTransition(from, to) == from = to \/ <<from, to>> \in AllowedTransitions

(* Mutant of CanRetryPayout: any closed payout may be retried.                 *)
CanRetryClosedPayout(from) == from \in {"PAYOUT_FAILED", "PAYOUT_SUCCESS"}

(* The one further step, allowed only under MANUAL_PAYOUT_RETRY.               *)
CanRetryPayout(from) == from = "PAYOUT_FAILED"
=============================================================================
