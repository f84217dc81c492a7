--------------------------- MODULE TransferPromise ---------------------------
(* What the platform promises about a remittance, with no jobs, workers or     *)
(* messages: a transfer's status moves only along the lifecycle, a success is  *)
(* recorded only for money the partner has moved, and the partner pays out     *)
(* only what it has collected.                                                 *)
EXTENDS LifecyclePolicy

CONSTANT Transfers

VARIABLES status,     \* the recorded status, "ABSENT" before acceptance
          collected,  \* transfers whose collection the partner completed
          paid        \* transfers whose payout the partner completed

promiseVars == <<status, collected, paid>>

Init ==
  /\ status = [t \in Transfers |-> "ABSENT"]
  /\ collected = {}
  /\ paid = {}

Accept(t) ==
  /\ status[t] = "ABSENT"
  /\ status' = [status EXCEPT ![t] = "INITIATED"]
  /\ UNCHANGED <<collected, paid>>

(* The partner takes the sender's money, once.                                 *)
Collect(t) ==
  /\ status[t] # "ABSENT"
  /\ collected' = collected \union {t}
  /\ UNCHANGED <<status, paid>>

(* The partner pays the beneficiary, only from collected money.                *)
Disburse(t) ==
  /\ t \in collected
  /\ paid' = paid \union {t}
  /\ UNCHANGED <<status, collected>>

(* A status write; "success" must be backed by the partner's own record.       *)
Advance(t, to) ==
  /\ <<status[t], to>> \in AllowedTransitions
  /\ to = "COLLECTION_SUCCESS" => t \in collected
  /\ to = "PAYOUT_SUCCESS" => t \in paid
  /\ status' = [status EXCEPT ![t] = to]
  /\ UNCHANGED <<collected, paid>>

RetryPayout(t) ==
  /\ CanRetryPayout(status[t])
  /\ status' = [status EXCEPT ![t] = "PENDING_PAYOUT"]
  /\ UNCHANGED <<collected, paid>>

Next ==
  \E t \in Transfers :
    \/ Accept(t)
    \/ Collect(t)
    \/ Disburse(t)
    \/ \E to \in Statuses : Advance(t, to)
    \/ RetryPayout(t)

Spec == Init /\ [][Next]_promiseVars
=============================================================================
