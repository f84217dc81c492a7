--------------------------- MODULE MC_Deliveries ---------------------------
(* A finite instance for TLC of the parts that must get a queue done: the alert *)
(* outbox, the notifications and the backfill script. They share no state, so   *)
(* each behaviour lets one of them act and the other two rest.                  *)
EXTENDS AdminAlertOutbox, Notifications, SensitiveBackfill, TLC

CONSTANTS r1, r2, r3

(* Two rows of a table to be sealed and one of a table to be indexed.           *)
RecordTable == [r \in Records |-> IF r = r3 THEN 2 ELSE 1]
SealThenIndex == <<"seal", "index">>

VARIABLE acting  \* the part that acts

deliveryVars == <<acting, vars, noteVars, backfillVars>>

Delivering ==
  \/ acting = "alerts" /\ Next /\ UNCHANGED <<noteVars, backfillVars>>
  \/ acting = "notes" /\ NoteNext /\ UNCHANGED <<vars, backfillVars>>
  \/ acting = "backfill" /\ BackfillNext /\ UNCHANGED <<vars, noteVars>>

(* The empty string of a blank record is a case of the backfill alone.          *)
DeliveriesInit ==
  /\ acting \in {"alerts", "notes", "backfill"}
  /\ Init /\ NoteInit /\ BackfillInit
  /\ acting # "backfill" => \A r \in Records : open[r] # ""

(* The fairness of the script holds while it is the part that acts.             *)
DeliveriesFairness ==
  /\ Fairness /\ NoteFairness
  /\ WF_backfillVars(acting = "backfill" /\ Script)
  /\ <>[][~Rerun]_backfillVars

DeliveriesSpec ==
  /\ DeliveriesInit
  /\ [][Delivering /\ UNCHANGED acting]_deliveryVars
  /\ DeliveriesFairness

(* Every variable of the three keeps its type.                                 *)
DeliveriesTypeOK == TypeOK /\ NoteTypeOK /\ BackfillTypeOK

(* The backfill script comes to its end when it is the part that acts.          *)
ScriptSeals == acting = "backfill" => EventuallySealed

=============================================================================
