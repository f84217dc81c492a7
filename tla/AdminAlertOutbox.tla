-------------------------- MODULE AdminAlertOutbox --------------------------
(* The outbox of operator alerts. Sensitive actions and the exposure monitor    *)
(* insert rows, AdminAlertDispatcher posts them to a webhook and records what   *)
(* came of it, and Ops may escalate an alert by hand at any time.               *)
(*                                                                              *)
(* A dispatcher decides by the snapshot its findMany returned: attempts and     *)
(* escalatedAt may have changed when it writes.                                 *)
EXTENDS Naturals, Sequences, FiniteSets

CONSTANTS
  Alerts,
  Dispatchers,  \* worker processes, each with its own timer
  Page,         \* rows one findMany returns (20 in the code)
  Routed,       \* alerts whose severity has a webhook configured
  MaxAttempts,  \* bound on the attempts a run explores
  Faults        \* "crash": the process dies; "throw": a database write fails

ASSUME OutboxAssumption ==
  /\ MaxAttempts \in Nat
  /\ Page \in Nat \ {0}
  /\ Routed \subseteq Alerts
  /\ Faults \subseteq {"crash", "throw"}

VARIABLES
  raised,      \* alerts by createdAt
  status,      \* AdminAlertDelivery.status
  attempts,
  due,         \* nextAttemptAt: "past", "future" or "null"
  escalated,   \* whether escalatedAt is set
  received,    \* the webhook has seen the alert
  escalations, \* escalations that took effect, by dispatchers and by Ops
  pc, batch,   \* where each dispatcher is, and the snapshots it still has
  held         \* the snapshot in its hands

rowVars == <<raised, status, attempts, due, escalated>>
vars == <<rowVars, received, escalations, pc, batch, held>>

Snapshots == [place: Nat, alert: Alerts, attempts: Nat, escalated: BOOLEAN]
None == [alert |-> "none"]

(* The i-th alert raised, as it is now.                                        *)
Snapshot(i) ==
  LET a == raised[i]
  IN [place |-> i, alert |-> a, attempts |-> attempts[a], escalated |-> escalated[a]]

(* Mutant of Deliverable: a failed row is not selected again.                  *)
DeliverableOnce(a) == status[a] = "PENDING" /\ due[a] # "future"

(* Rows findMany selects: a missing nextAttemptAt counts as due.               *)
Deliverable(a) == status[a] \in {"PENDING", "FAILED"} /\ due[a] # "future"

Waiting == {i \in DOMAIN raised : Deliverable(raised[i])}

(* The oldest Page of them.                                                    *)
FoundRows ==
  {Snapshot(i) : i \in {k \in Waiting : Cardinality({j \in Waiting : j < k}) < Page}}

Retryable(s) == s.attempts + 1 < 5

Init ==
  /\ raised = <<>>
  /\ status = [a \in Alerts |-> "ABSENT"]
  /\ attempts = [a \in Alerts |-> 0]
  /\ due = [a \in Alerts |-> "null"]
  /\ escalated = [a \in Alerts |-> FALSE]
  /\ received = {}
  /\ escalations = [a \in Alerts |-> 0]
  /\ pc = [d \in Dispatchers |-> "idle"]
  /\ batch = [d \in Dispatchers |-> {}]
  /\ held = [d \in Dispatchers |-> None]

(* An audited sensitive action or an exposure signal inserts its alert.        *)
Raise(a) ==
  /\ status[a] = "ABSENT"
  /\ raised' = Append(raised, a)
  /\ status' = [status EXCEPT ![a] = "PENDING"]
  /\ due' = [due EXCEPT ![a] = "past"]
  /\ UNCHANGED <<attempts, escalated, received, escalations, pc, batch, held>>

BackoffEnds(a) ==
  /\ due[a] = "future"
  /\ due' = [due EXCEPT ![a] = "past"]
  /\ UNCHANGED <<raised, status, attempts, escalated, received, escalations, pc, batch,
                 held>>

(* escalateAlert by an Ops operator: a conditional update.                     *)
EscalateByOps(a) ==
  /\ status[a] # "ABSENT"
  /\ ~escalated[a]
  /\ escalated' = [escalated EXCEPT ![a] = TRUE]
  /\ escalations' = [escalations EXCEPT ![a] = @ + 1]
  /\ UNCHANGED <<raised, status, attempts, due, received, pc, batch, held>>

FindDeliveries(d) ==
  /\ pc[d] = "idle" /\ batch[d] = {} /\ FoundRows # {}
  /\ batch' = [batch EXCEPT ![d] = FoundRows]
  /\ UNCHANGED <<rowVars, received, escalations, pc, held>>

(* The rows of a page are gone through from the oldest.                        *)
Take(d, s) ==
  /\ pc[d] = "idle"
  /\ s \in batch[d] /\ \A o \in batch[d] : s.place <= o.place
  /\ batch' = [batch EXCEPT ![d] = @ \ {s}]

(* Without a webhook the row is left as it is.                                 *)
SkipUnrouted(d, s) ==
  /\ s.alert \notin Routed
  /\ Take(d, s)
  /\ UNCHANGED <<rowVars, received, escalations, pc, held>>

(* Mutant of Post: response.ok is not looked at.                               *)
PostUnchecked(d, s) ==
  /\ s.alert \in Routed
  /\ attempts[s.alert] < MaxAttempts
  /\ Take(d, s)
  /\ received' \in {received, received \union {s.alert}}
  /\ pc' = [pc EXCEPT ![d] = "posted"]
  /\ held' = [held EXCEPT ![d] = s]
  /\ UNCHANGED <<rowVars, escalations>>

(* The POST: accepted, refused, or seen by the webhook with the answer lost.   *)
Post(d, s) ==
  /\ s.alert \in Routed
  /\ attempts[s.alert] < MaxAttempts
  /\ Take(d, s)
  /\ \E seen \in BOOLEAN, answered \in BOOLEAN :
       /\ answered => seen
       /\ received' = IF seen THEN received \union {s.alert} ELSE received
       /\ pc' = [pc EXCEPT ![d] = IF answered THEN "posted" ELSE "failed"]
  /\ held' = [held EXCEPT ![d] = s]
  /\ UNCHANGED <<rowVars, escalations>>

Done(d) ==
  /\ pc' = [pc EXCEPT ![d] = "idle"]
  /\ held' = [held EXCEPT ![d] = None]
  /\ UNCHANGED batch

(* Mutant of RecordDelivered: nextAttemptAt becomes the time of delivery.      *)
RecordDeliveredNow(d) ==
  LET a == held[d].alert
  IN /\ pc[d] = "posted"
     /\ status' = [status EXCEPT ![a] = "DELIVERED"]
     /\ attempts' = [attempts EXCEPT ![a] = @ + 1]
     /\ due' = [due EXCEPT ![a] = "now"]
     /\ Done(d)
     /\ UNCHANGED <<raised, escalated, received, escalations>>

RecordDelivered(d) ==
  LET a == held[d].alert
  IN /\ pc[d] = "posted"
     /\ status' = [status EXCEPT ![a] = "DELIVERED"]
     /\ attempts' = [attempts EXCEPT ![a] = @ + 1]
     /\ due' = [due EXCEPT ![a] = "null"]
     /\ Done(d)
     /\ UNCHANGED <<raised, escalated, received, escalations>>

(* The write of DELIVERED is inside the try: when it fails, the alert counts as *)
(* not delivered.                                                              *)
RecordingThrows(d) ==
  /\ "throw" \in Faults
  /\ pc[d] = "posted"
  /\ pc' = [pc EXCEPT ![d] = "failed"]
  /\ UNCHANGED <<rowVars, received, escalations, batch, held>>

(* Mutant of RecordFailure: the last failure is recorded like any other.       *)
RecordEveryFailure(d) ==
  LET a == held[d].alert
  IN /\ pc[d] = "failed"
     /\ status' = [status EXCEPT ![a] = "FAILED"]
     /\ attempts' = [attempts EXCEPT ![a] = @ + 1]
     /\ due' = [due EXCEPT ![a] = IF Retryable(held[d]) THEN "future" ELSE "null"]
     /\ Done(d)
     /\ UNCHANGED <<raised, escalated, received, escalations>>

(* The unconditional update of a failure that is not the last, or whose         *)
(* escalation the snapshot already shows.                                      *)
RecordFailure(d) ==
  LET a == held[d].alert
  IN /\ pc[d] = "failed"
     /\ Retryable(held[d]) \/ held[d].escalated
     /\ status' = [status EXCEPT ![a] = "FAILED"]
     /\ attempts' = [attempts EXCEPT ![a] = @ + 1]
     /\ due' = [due EXCEPT ![a] = IF Retryable(held[d]) THEN "future" ELSE "null"]
     /\ Done(d)
     /\ UNCHANGED <<raised, escalated, received, escalations>>

(* Mutant of EscalateExhausted: the update does not look at escalatedAt.       *)
EscalateAlways(d) ==
  LET a == held[d].alert
  IN /\ pc[d] = "failed"
     /\ ~Retryable(held[d]) /\ ~held[d].escalated
     /\ status' = [status EXCEPT ![a] = "FAILED"]
     /\ attempts' = [attempts EXCEPT ![a] = @ + 1]
     /\ due' = [due EXCEPT ![a] = "null"]
     /\ escalated' = [escalated EXCEPT ![a] = TRUE]
     /\ escalations' = [escalations EXCEPT ![a] = @ + 1]
     /\ Done(d)
     /\ UNCHANGED <<raised, received>>

(* The last failure: a conditional update that escalates, or, when somebody     *)
(* escalated since the snapshot, nothing at all.                               *)
EscalateExhausted(d) ==
  LET a == held[d].alert
  IN /\ pc[d] = "failed"
     /\ ~Retryable(held[d]) /\ ~held[d].escalated
     /\ IF escalated[a]
        THEN UNCHANGED <<status, attempts, due, escalated, escalations>>
        ELSE /\ status' = [status EXCEPT ![a] = "FAILED"]
             /\ attempts' = [attempts EXCEPT ![a] = @ + 1]
             /\ due' = [due EXCEPT ![a] = "null"]
             /\ escalated' = [escalated EXCEPT ![a] = TRUE]
             /\ escalations' = [escalations EXCEPT ![a] = @ + 1]
     /\ Done(d)
     /\ UNCHANGED <<raised, received>>

(* The process dies, or a write in the catch block fails and ends the batch.   *)
Crash(d) ==
  /\ "crash" \in Faults
  /\ pc[d] # "idle" \/ batch[d] # {}
  /\ pc' = [pc EXCEPT ![d] = "idle"]
  /\ batch' = [batch EXCEPT ![d] = {}]
  /\ held' = [held EXCEPT ![d] = None]
  /\ UNCHANGED <<rowVars, received, escalations>>

Dispatch(d) ==
  \/ FindDeliveries(d)
  \/ \E s \in batch[d] : SkipUnrouted(d, s) \/ Post(d, s)
  \/ RecordDelivered(d) \/ RecordingThrows(d)
  \/ RecordFailure(d) \/ EscalateExhausted(d)

Next ==
  \/ \E a \in Alerts : Raise(a) \/ BackoffEnds(a) \/ EscalateByOps(a)
  \/ \E d \in Dispatchers : Dispatch(d) \/ Crash(d)

Spec == Init /\ [][Next]_vars

(* ------------------------------ Properties --------------------------------- *)

(* Every variable keeps its type.                                              *)
TypeOK ==
  /\ raised \in Seq(Alerts)
  /\ status \in [Alerts -> {"ABSENT", "PENDING", "DELIVERED", "FAILED"}]
  /\ attempts \in [Alerts -> Nat]
  /\ due \in [Alerts -> {"past", "future", "null"}]
  /\ escalated \in [Alerts -> BOOLEAN]
  /\ received \subseteq Alerts
  /\ escalations \in [Alerts -> Nat]
  /\ pc \in [Dispatchers -> {"idle", "posted", "failed"}]
  /\ batch \in [Dispatchers -> SUBSET Snapshots]
  /\ held \in [Dispatchers -> Snapshots \union {None}]
  /\ \A d \in Dispatchers : pc[d] # "idle" => held[d] \in Snapshots

(* However many dispatchers exhaust an alert from stale snapshots, and whether  *)
(* or not Ops escalates it meanwhile, one escalation takes effect.             *)
EscalatedOnce ==
  \A a \in Alerts : escalations[a] = IF escalated[a] THEN 1 ELSE 0

(* An alert that ran out of retries without being delivered was escalated.     *)
ExhaustedIsEscalated ==
  \A a \in Alerts : status[a] = "FAILED" /\ due[a] = "null" => escalated[a]

(* An alert is marked delivered only if the webhook has seen it.               *)
DeliveredWasReceived ==
  \A a \in Alerts : status[a] = "DELIVERED" => a \in received

(* Processes do not crash for ever. (Skipping the last row looks like a crash.) *)
CrashesCease == <>[][\A d \in Dispatchers : Crash(d) => Dispatch(d)]_vars

(* The timers run for ever, backoffs end.                                      *)
Fairness ==
  /\ \A d \in Dispatchers : WF_vars(Dispatch(d))
  /\ \A a \in Alerts : WF_vars(BackoffEnds(a))
  /\ CrashesCease

FairSpec == Spec /\ Fairness

(* A raised alert with a webhook is delivered or escalated in the end, if the   *)
(* rows that are never delivered do not fill a page.                           *)
EventuallyHandled ==
  \A a \in Routed :
    status[a] = "PENDING" ~> status[a] = "DELIVERED" \/ escalated[a]
=============================================================================
