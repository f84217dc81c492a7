---------------------------- MODULE Beneficiaries ----------------------------
(* Saved recipients and what a payout does with them. A correction never edits  *)
(* a row: BeneficiaryService inserts the next version of the family and then    *)
(* clears isCurrent on the one before, in two statements. A failed payout keeps *)
(* its recipient and gets a retry target, linked by BeneficiaryService or by    *)
(* the preparation of the retry itself.                                        *)
(*                                                                              *)
(* The unique index on family and version makes <<family, version>> the row.   *)
EXTENDS Naturals

CONSTANTS
  Families,
  MaxVersion,  \* bound on the versions of a family
  Owner,       \* the user and corridor of each family
  Foreign,     \* rows whose payout currency is not the one of the transfers
  Payments,    \* accepted transfers
  Payer,       \* the user and corridor of each transfer
  Editors      \* concurrent calls of the service and of Ops

ASSUME BeneficiaryAssumption == MaxVersion \in Nat \ {0}

Rows == Families \X (1..MaxVersion)
NoRow == <<>>

VARIABLES
  saved,      \* the newest version of each family, 0 before it is created
  current,    \* rows with isCurrent
  chosen,     \* TransferTransaction.beneficiaryId
  retryTo,    \* TransferTransaction.retryBeneficiaryId
  payout,     \* status of the transfer, from its payout on
  agreed,     \* the target when the payout was queued
  overtaken,  \* a target was linked by a call that had read the failure before
  call,       \* what each editor is in the middle of
  paying      \* whom the worker is about to have paid, per transfer

recordVars == <<saved, current>>
payoutVars == <<chosen, retryTo, payout, agreed, overtaken, paying>>
beneficiaryVars == <<recordVars, payoutVars, call>>

Idle == [step |-> "idle"]
Exists(b) == b[2] <= saved[b[1]]
Successor(b) == <<b[1], b[2] + 1>>

(* selectForTransfer: the recipient of another user, of another corridor or of  *)
(* an older revision is refused.                                               *)
Selectable(b, t) == b \in current /\ Owner[b[1]] = Payer[t]

(* Mutant of Target: the retry goes to the recipient that failed.              *)
TargetOriginal(t) == chosen[t]

(* Whom the worker pays: the retry target, if there is one.                    *)
Target(t) == IF retryTo[t] # NoRow THEN retryTo[t] ELSE chosen[t]

BeneficiaryInit ==
  /\ saved = [f \in Families |-> 0]
  /\ current = {}
  /\ chosen = [t \in Payments |-> NoRow]
  /\ retryTo = [t \in Payments |-> NoRow]
  /\ payout = [t \in Payments |-> "NONE"]
  /\ agreed = [t \in Payments |-> NoRow]
  /\ overtaken = [t \in Payments |-> FALSE]
  /\ call = [e \in Editors |-> Idle]
  /\ paying = [t \in Payments |-> NoRow]

CreateBeneficiary(f) ==
  /\ saved[f] = 0
  /\ saved' = [saved EXCEPT ![f] = 1]
  /\ current' = current \union {<<f, 1>>}
  /\ UNCHANGED <<payoutVars, call>>

(* revise reads the row, which must be current, ...                            *)
StartRevise(e, b) ==
  /\ call[e] = Idle
  /\ Exists(b) /\ b \in current /\ b[2] < MaxVersion
  /\ call' = [call EXCEPT ![e] = [step |-> "insert", row |-> b]]
  /\ UNCHANGED <<recordVars, payoutVars>>

(* ... inserts the next version, unless another revision has taken the number,  *)
InsertRevision(e) ==
  LET b == call[e].row
  IN /\ call[e].step = "insert"
     /\ IF Exists(Successor(b))
        THEN call' = [call EXCEPT ![e] = Idle] /\ UNCHANGED recordVars
        ELSE /\ saved' = [saved EXCEPT ![b[1]] = b[2] + 1]
             /\ current' = current \union {Successor(b)}
             /\ call' = [call EXCEPT ![e].step = "retire"]
     /\ UNCHANGED payoutVars

(* Mutant of RetirePrevious: the row before stays current.                     *)
RetireNothing(e) ==
  /\ call[e].step = "retire"
  /\ call' = [call EXCEPT ![e] = Idle]
  /\ UNCHANGED <<recordVars, payoutVars>>

(* ... and retires the one before.                                             *)
RetirePrevious(e) ==
  /\ call[e].step = "retire"
  /\ current' = current \ {call[e].row}
  /\ call' = [call EXCEPT ![e] = Idle]
  /\ UNCHANGED <<saved, payoutVars>>

(* The process dies, or the second statement fails: the call has no more effect. *)
CutRevision(e) ==
  /\ call[e].step = "retire"
  /\ call' = [call EXCEPT ![e] = [step |-> "cut", row |-> call[e].row]]
  /\ UNCHANGED <<recordVars, payoutVars>>

(* A transfer is accepted for a selectable recipient; its payout is queued once *)
(* the collection has succeeded.                                               *)
AcceptTransfer(t, b) ==
  /\ payout[t] = "NONE" /\ Selectable(b, t)
  /\ chosen' = [chosen EXCEPT ![t] = b]
  /\ agreed' = [agreed EXCEPT ![t] = b]
  /\ payout' = [payout EXCEPT ![t] = "PENDING_PAYOUT"]
  /\ UNCHANGED <<recordVars, call, retryTo, overtaken, paying>>

(* The worker reads the transfer with both recipients, ...                     *)
ReadTarget(t) ==
  /\ payout[t] = "PENDING_PAYOUT" /\ paying[t] = NoRow
  /\ paying' = [paying EXCEPT ![t] = Target(t)]
  /\ UNCHANGED <<recordVars, call, chosen, retryTo, payout, agreed, overtaken>>

(* ... and pays whom it read.                                                  *)
PayTarget(t) ==
  /\ paying[t] # NoRow
  /\ \E outcome \in {"PAYOUT_SUCCESS", "PAYOUT_FAILED"} :
       payout' = [payout EXCEPT ![t] = outcome]
  /\ paying' = [paying EXCEPT ![t] = NoRow]
  /\ UNCHANGED <<recordVars, call, chosen, retryTo, agreed, overtaken>>

(* setRetryTarget checks that the payout failed and that the recipient can be   *)
(* selected; the currency is not looked at.                                    *)
StartLink(e, t, b) ==
  /\ call[e] = Idle
  /\ payout[t] = "PAYOUT_FAILED" /\ Selectable(b, t)
  /\ call' = [call EXCEPT ![e] = [step |-> "link", row |-> b, payment |-> t]]
  /\ UNCHANGED <<recordVars, payoutVars>>

(* The link is written by id, whatever the transfer has become.                *)
LinkTarget(e) ==
  LET t == call[e].payment
  IN /\ call[e].step = "link"
     /\ retryTo' = [retryTo EXCEPT ![t] = call[e].row]
     /\ overtaken' = [overtaken EXCEPT ![t] = @ \/ payout[t] # "PAYOUT_FAILED"]
     /\ call' = [call EXCEPT ![e] = Idle]
     /\ UNCHANGED <<recordVars, chosen, payout, agreed, paying>>

(* prepareManualPayoutRetry reads the transfer and its retry target; the caller *)
(* may give a correction.                                                      *)
StartRetry(e, t, b) ==
  /\ call[e] = Idle
  /\ payout[t] = "PAYOUT_FAILED"
  /\ b # NoRow => Exists(b)
  /\ call' = [call EXCEPT ![e] = [step |-> "claim", row |-> b, payment |-> t,
                                  known |-> retryTo[t]]]
  /\ UNCHANGED <<recordVars, payoutVars>>

(* The transaction: the correction must still be selectable and of the same     *)
(* currency, and the transfer still failed. Without a correction the target     *)
(* that was read before is written back.                                       *)
ClaimRetry(e) ==
  LET c == call[e]
      t == c.payment
      to == IF c.row # NoRow THEN c.row ELSE c.known
  IN /\ c.step = "claim"
     /\ IF /\ payout[t] = "PAYOUT_FAILED"
           /\ c.row # NoRow => Selectable(c.row, t) /\ c.row \notin Foreign
        THEN /\ payout' = [payout EXCEPT ![t] = "PENDING_PAYOUT"]
             /\ retryTo' = [retryTo EXCEPT ![t] = to]
             /\ agreed' = [agreed EXCEPT ![t] = IF to # NoRow THEN to ELSE chosen[t]]
             /\ overtaken' = [overtaken EXCEPT ![t] = FALSE]
        ELSE UNCHANGED <<payout, retryTo, agreed, overtaken>>
     /\ call' = [call EXCEPT ![e] = Idle]
     /\ UNCHANGED <<recordVars, chosen, paying>>

BeneficiaryNext ==
  \/ \E f \in Families : CreateBeneficiary(f)
  \/ \E e \in Editors :
       \/ \E b \in Rows : StartRevise(e, b)
       \/ InsertRevision(e) \/ RetirePrevious(e) \/ CutRevision(e)
       \/ \E t \in Payments, b \in Rows : StartLink(e, t, b)
       \/ LinkTarget(e)
       \/ \E t \in Payments, b \in Rows \union {NoRow} : StartRetry(e, t, b)
       \/ ClaimRetry(e)
  \/ \E t \in Payments :
       \/ \E b \in Rows : AcceptTransfer(t, b)
       \/ ReadTarget(t) \/ PayTarget(t)

BeneficiarySpec == BeneficiaryInit /\ [][BeneficiaryNext]_beneficiaryVars

(* ------------------------------ Properties --------------------------------- *)

(* Every variable keeps its type.                                              *)
BeneficiaryTypeOK ==
  /\ saved \in [Families -> 0..MaxVersion]
  /\ current \subseteq Rows
  /\ {chosen, retryTo, agreed, paying} \subseteq
       [Payments -> Rows \union {NoRow}]
  /\ payout \in
       [Payments -> {"NONE", "PENDING_PAYOUT", "PAYOUT_FAILED", "PAYOUT_SUCCESS"}]
  /\ overtaken \in [Payments -> BOOLEAN]
  /\ \A e \in Editors :
       call[e].step \in {"idle", "insert", "retire", "cut", "link", "claim"}

(* Whichever corrections race, the newest revision of a family is current, and  *)
(* an older one is only while the call that replaced it has not finished, or    *)
(* for ever when that call was cut between its two statements.                 *)
OneCurrentRevision ==
  \A f \in Families : \A v \in 1..saved[f] :
    IF v = saved[f] THEN <<f, v>> \in current
    ELSE <<f, v>> \in current =>
           \E e \in Editors : call[e].step \in {"retire", "cut"}
                              /\ call[e].row = <<f, v>>

(* However links, corrections and retries interleave, the partner is told to    *)
(* pay the target the payout was queued with, and it is a recipient of the      *)
(* sender; the exception is a link whose call read the failure before the retry *)
(* was prepared and wrote after it.                                            *)
PaidAsAgreed ==
  \A t \in Payments :
    (paying[t] # NoRow) =>
      /\ paying[t] = agreed[t] \/ overtaken[t]
      /\ Owner[paying[t][1]] = Payer[t]
=============================================================================
