---------------------------- MODULE PilotRelease ----------------------------
(* The pilot's operational controls, the release record that a resume needs, and *)
(* the exposure monitor of the workers, which pauses initiation on its own.      *)
(*                                                                              *)
(* Admin requests are not transactions: they read the release record, check it,  *)
(* and write later. The monitor reads exposure and signals first, and writes a   *)
(* signal with its pause in a transaction of its own. Who may do what is checked  *)
(* first and refused without an effect; every action here is by somebody entitled. *)
EXTENDS Naturals

CONSTANTS
  Keys,          \* controls, by key
  Roles,         \* who must approve the release
  Metrics,       \* exposure metrics with a limit in the policy
  Requests,      \* admin requests served at the same time
  Monitors,      \* worker processes
  MaxRevisions,  \* approvals of one role that a run explores
  MaxRecords     \* stage records of one stage that a run explores

MovementKeys == {"GLOBAL", "INITIATION", "COLLECTION", "PAYOUT", "CORRIDOR_PROVIDER"}
Stages == {"FOUNDATION_COMPLETE", "LOCAL_E2E_COMPLETE"}
Levels == {"NORMAL", "WARNING", "URGENT"}

ASSUME ReleaseAssumption ==
  /\ {"INITIATION", "CORRIDOR_PROVIDER"} \subseteq Keys
  /\ Keys \subseteq MovementKeys \union {"NOTIFICATION"}
  /\ {"ENGINEERING", "OPERATIONS"} \subseteq Roles
  /\ MaxRevisions \in Nat /\ MaxRecords \in Nat

VARIABLES
  control,    \* PilotControl.state; "MISSING" before anybody set it
  approvals,  \* how often each role has approved; the row holds the last
  records,    \* how many stage records each stage has
  stage,      \* PilotReleaseRecord.stage
  published,  \* what the publication hash was taken of
  exposure,   \* how the observed values compare with the policy
  signal,     \* PilotExposureSignal.severity
  pc, op,     \* what each admin request is doing, and what it has read
  at, seen,   \* where each monitor is, and what it has read
  resumed     \* signals after which somebody resumed initiation (for a property)

releaseVars == <<approvals, records, stage, published>>
requestVars == <<pc, op>>
monitorVars == <<at, seen>>
vars == <<control, releaseVars, exposure, signal, requestVars, monitorVars, resumed>>

Facts == [approvals |-> approvals, records |-> records]
NotPublished == [approvals |-> [r \in Roles |-> 0], records |-> [s \in Stages |-> 0]]
NoOp == [key |-> "none", stage |-> "none", facts |-> NotPublished]
Unread == [level |-> [m \in Metrics |-> "UNLIMITED"], todo |-> {}, about |-> "none",
           stopped |-> FALSE, resumed |-> FALSE]

Init ==
  /\ control = [k \in Keys |-> "MISSING"]
  /\ approvals = [r \in Roles |-> 0]
  /\ records = [s \in Stages |-> 0]
  /\ stage = "FOUNDATION_COMPLETE"
  /\ published = NotPublished
  /\ exposure = [m \in Metrics |-> "NORMAL"]
  /\ signal = [m \in Metrics |-> "NONE"]
  /\ pc = [q \in Requests |-> "idle"]
  /\ op = [q \in Requests |-> NoOp]
  /\ at = [w \in Monitors |-> "idle"]
  /\ seen = [w \in Monitors |-> Unread]
  /\ resumed = {}

(* ------------------------------ admin requests ----------------------------- *)

Go(q, label, memory) ==
  /\ pc' = [pc EXCEPT ![q] = label]
  /\ op' = [op EXCEPT ![q] = memory]

Finish(q) == Go(q, "idle", NoOp)

(* A request that fails on its way has written what it has written.            *)
Abort(q) ==
  /\ pc[q] # "idle"
  /\ Finish(q)
  /\ UNCHANGED <<control, releaseVars, exposure, signal, monitorVars, resumed>>

(* The approver of a role approves, or approves again. The release row that is    *)
(* created first, if missing, has the stage of Init and nothing else.          *)
RecordApproval(r) ==
  /\ approvals[r] < MaxRevisions
  /\ approvals' = [approvals EXCEPT ![r] = @ + 1]
  /\ UNCHANGED <<control, records, stage, published, exposure, signal, requestVars,
                 monitorVars, resumed>>

RequiredRoles(s) ==
  IF s = "FOUNDATION_COMPLETE" THEN {"ENGINEERING"} ELSE {"ENGINEERING", "OPERATIONS"}

(* Mutant of StageAllowed: the earlier stage is not asked for.                 *)
StageAllowedAnyOrder(s) == \A r \in RequiredRoles(s) : approvals[r] > 0

StageAllowed(s) ==
  /\ \A r \in RequiredRoles(s) : approvals[r] > 0
  /\ s = "LOCAL_E2E_COMPLETE" => records["FOUNDATION_COMPLETE"] > 0

StageOrder(s) ==
  CASE s = "FOUNDATION_COMPLETE" -> 1
    [] s = "LOCAL_E2E_COMPLETE"  -> 2
    [] s = "PILOT_READY"         -> 3

BeginStage(q, s) ==
  /\ pc[q] = "idle"
  /\ StageAllowed(s)
  /\ Go(q, IF StageOrder(s) >= StageOrder(stage) THEN "advance" ELSE "record",
        [NoOp EXCEPT !.stage = s])
  /\ UNCHANGED <<control, releaseVars, exposure, signal, monitorVars, resumed>>

(* The stage is written although a publication may have come in between.       *)
AdvanceStage(q) ==
  /\ pc[q] = "advance"
  /\ stage' = op[q].stage
  /\ Go(q, "record", op[q])
  /\ UNCHANGED <<control, approvals, records, published, exposure, signal, monitorVars,
                 resumed>>

RecordStage(q) ==
  LET s == op[q].stage
  IN /\ pc[q] = "record"
     /\ records[s] < MaxRecords
     /\ records' = [records EXCEPT ![s] = @ + 1]
     /\ Finish(q)
     /\ UNCHANGED <<control, approvals, stage, published, exposure, signal, monitorVars,
                    resumed>>

Complete(f) ==
  /\ \A r \in Roles : f.approvals[r] > 0
  /\ \A s \in Stages : f.records[s] > 0

(* Mutant of BeginPublish: the roles that the stages need are enough.          *)
BeginPublishStages(q) ==
  /\ pc[q] = "idle"
  /\ \A r \in RequiredRoles("LOCAL_E2E_COMPLETE") : approvals[r] > 0
  /\ \A s \in Stages : records[s] > 0
  /\ Go(q, "publish", [NoOp EXCEPT !.facts = Facts])
  /\ UNCHANGED <<control, releaseVars, exposure, signal, monitorVars, resumed>>

(* Every role has approved, and both stages have evidence.                     *)
BeginPublish(q) ==
  /\ pc[q] = "idle"
  /\ Complete(Facts)
  /\ Go(q, "publish", [NoOp EXCEPT !.facts = Facts])
  /\ UNCHANGED <<control, releaseVars, exposure, signal, monitorVars, resumed>>

(* The hash is that of what was read, whatever has been approved since.        *)
Publish(q) ==
  /\ pc[q] = "publish"
  /\ stage' = "PILOT_READY"
  /\ published' = op[q].facts
  /\ Finish(q)
  /\ UNCHANGED <<control, approvals, records, exposure, signal, monitorVars, resumed>>

(* requirePublishedPilotReadiness.                                             *)
ReleaseHolds == stage = "PILOT_READY" /\ published = Facts

BeginResume(q, k) ==
  /\ pc[q] = "idle"
  /\ k \in MovementKeys
  /\ ReleaseHolds
  /\ Go(q, "resume", [NoOp EXCEPT !.key = k])
  /\ UNCHANGED <<control, releaseVars, exposure, signal, monitorVars, resumed>>

(* The upsert does not look at the state the control has now.                  *)
Resume(q) ==
  LET k == op[q].key
  IN /\ pc[q] = "resume"
     /\ control' = [control EXCEPT ![k] = "ENABLED"]
     /\ Finish(q)
     /\ IF k = "INITIATION"
        THEN /\ resumed' = Metrics
             /\ seen' = [w \in Monitors |->
                           [seen[w] EXCEPT !.resumed = at[w] = "commit"]]
        ELSE UNCHANGED <<resumed, seen>>
     /\ UNCHANGED <<releaseVars, exposure, signal, at>>

(* What needs no release: pausing, stopping, and enabling notifications.       *)
SetControl(k, s) ==
  /\ s = "ENABLED" => k \notin MovementKeys
  /\ control' = [control EXCEPT ![k] = s]
  /\ UNCHANGED <<releaseVars, exposure, signal, requestVars, monitorVars, resumed>>

(* Engineering isolates the provider.                                          *)
IsolateProvider ==
  /\ control' = [control EXCEPT !["CORRIDOR_PROVIDER"] = "PAUSED"]
  /\ UNCHANGED <<releaseVars, exposure, signal, requestVars, monitorVars, resumed>>

(* ------------------------------- the monitor ------------------------------- *)

(* Transfers come and go, and Ops changes or drops a limit.                    *)
Expose(m, level) ==
  /\ exposure' = [exposure EXCEPT ![m] = level]
  /\ UNCHANGED <<control, releaseVars, signal, requestVars, monitorVars, resumed>>

Proceed(w, label, memory) ==
  /\ at' = [at EXCEPT ![w] = label]
  /\ seen' = [seen EXCEPT ![w] = memory]

(* The metrics left to evaluate, and the end of the evaluation after the last. *)
NextMetric(w, m) ==
  LET rest == seen[w].todo \ {m}
  IN IF rest = {} THEN Proceed(w, "idle", Unread)
     ELSE Proceed(w, "loop", [seen[w] EXCEPT !.todo = rest, !.about = "none"])

(* The policy and the counts it is compared with, each of one metric.          *)
Observe(w) ==
  /\ at[w] = "idle"
  /\ Proceed(w, "loop", [Unread EXCEPT !.level = exposure, !.todo = Metrics])
  /\ UNCHANGED <<control, releaseVars, exposure, signal, requestVars, resumed>>

(* Mutant of Unremarkable: a signal that exists is not raised further.         *)
UnremarkableOnceRaised(w, m) ==
  LET level == seen[w].level[m]
  IN \/ level = "UNLIMITED"
     \/ level = "NORMAL" /\ signal[m] = "NONE"
     \/ level # "NORMAL" /\ signal[m] \in {"WARNING", "URGENT"}

(* No limit, or nothing new.                                                   *)
Unremarkable(w, m) ==
  LET level == seen[w].level[m]
  IN \/ level = "UNLIMITED"
     \/ level = "NORMAL" /\ signal[m] = "NONE"
     \/ level # "NORMAL" /\ signal[m] = level

SkipMetric(w, m) ==
  /\ at[w] = "loop" /\ m \in seen[w].todo
  /\ Unremarkable(w, m)
  /\ NextMetric(w, m)
  /\ UNCHANGED <<control, releaseVars, exposure, signal, requestVars, resumed>>

ReadSignal(w, m) ==
  /\ at[w] = "loop" /\ m \in seen[w].todo
  /\ ~Unremarkable(w, m)
  /\ Proceed(w, IF seen[w].level[m] = "NORMAL" THEN "calm" ELSE "raise",
             [seen[w] EXCEPT !.about = m])
  /\ UNCHANGED <<control, releaseVars, exposure, signal, requestVars, resumed>>

(* The row of a signal is locked from its write to the end of the transaction. *)
LockedBy(v, m) == at[v] = "commit" /\ seen[v].about = m

Calm(w) ==
  LET m == seen[w].about
  IN /\ at[w] = "calm"
     /\ \A v \in Monitors : ~LockedBy(v, m)
     /\ signal' = [signal EXCEPT ![m] = "NORMAL"]
     /\ NextMetric(w, m)
     /\ UNCHANGED <<control, releaseVars, exposure, requestVars, resumed>>

(* The transaction writes the signal and its alert, and reads the control.     *)
BeginRaise(w) ==
  LET m == seen[w].about
  IN /\ at[w] = "raise"
     /\ \A v \in Monitors : ~LockedBy(v, m)
     /\ Proceed(w, "commit",
          [seen[w] EXCEPT !.stopped = control["INITIATION"] = "PERMANENTLY_STOPPED",
                          !.resumed = FALSE])
     /\ UNCHANGED <<control, releaseVars, exposure, signal, requestVars, resumed>>

(* Mutant of Pauses: a warning pauses, an urgent signal does not.              *)
PausesOnWarning(w) == seen[w].level[seen[w].about] = "WARNING" /\ ~seen[w].stopped

Pauses(w) == seen[w].level[seen[w].about] = "URGENT" /\ ~seen[w].stopped

CommitRaise(w) ==
  LET m == seen[w].about
  IN /\ at[w] = "commit"
     /\ signal' = [signal EXCEPT ![m] = seen[w].level[m]]
     /\ control' = IF Pauses(w) THEN [control EXCEPT !["INITIATION"] = "PAUSED"] ELSE control
     /\ resumed' = IF seen[w].resumed THEN resumed \union {m} ELSE resumed \ {m}
     /\ NextMetric(w, m)
     /\ UNCHANGED <<releaseVars, exposure, requestVars>>

(* A query fails: the transaction is rolled back and the evaluation ends.      *)
Fail(w) ==
  /\ at[w] # "idle"
  /\ Proceed(w, "idle", Unread)
  /\ UNCHANGED <<control, releaseVars, exposure, signal, requestVars, resumed>>

Evaluate(w) ==
  \/ Observe(w)
  \/ \E m \in Metrics : SkipMetric(w, m) \/ ReadSignal(w, m)
  \/ Calm(w) \/ BeginRaise(w) \/ CommitRaise(w)

Next ==
  \/ \E r \in Roles : RecordApproval(r)
  \/ \E q \in Requests :
       \/ \E s \in Stages : BeginStage(q, s)
       \/ AdvanceStage(q) \/ RecordStage(q)
       \/ BeginPublish(q) \/ Publish(q)
       \/ \E k \in Keys : BeginResume(q, k)
       \/ Resume(q)
       \/ Abort(q)
  \/ \E k \in Keys, s \in {"ENABLED", "PAUSED", "PERMANENTLY_STOPPED"} : SetControl(k, s)
  \/ IsolateProvider
  \/ \E m \in Metrics, level \in Levels \union {"UNLIMITED"} : Expose(m, level)
  \/ \E w \in Monitors : Evaluate(w) \/ Fail(w)

Spec == Init /\ [][Next]_vars

(* ------------------------------ Properties --------------------------------- *)

FactsType == [approvals: [Roles -> Nat], records: [Stages -> Nat]]
OpType == [key: Keys \union {"none"}, stage: Stages \union {"none"}, facts: FactsType]
SeenType ==
  [level: [Metrics -> Levels \union {"UNLIMITED"}], todo: SUBSET Metrics,
   about: Metrics \union {"none"}, stopped: BOOLEAN, resumed: BOOLEAN]

(* Every variable keeps its type.                                              *)
TypeOK ==
  /\ control \in [Keys -> {"MISSING", "ENABLED", "PAUSED", "PERMANENTLY_STOPPED"}]
  /\ approvals \in [Roles -> Nat]
  /\ records \in [Stages -> Nat]
  /\ stage \in Stages \union {"PILOT_READY"}
  /\ published \in FactsType
  /\ exposure \in [Metrics -> Levels \union {"UNLIMITED"}]
  /\ signal \in [Metrics -> Levels \union {"NONE"}]
  /\ pc \in [Requests -> {"idle", "advance", "record", "publish", "resume"}]
  /\ op \in [Requests -> OpType]
  /\ at \in [Monitors -> {"idle", "loop", "calm", "raise", "commit"}]
  /\ seen \in [Monitors -> SeenType]
  /\ resumed \subseteq Metrics

(* Money moves only in a pilot that was released: while a control of movement is *)
(* enabled there is a publication that every role approved and that both stages  *)
(* precede, although each request writes what it checked earlier.              *)
EnabledWasReleased ==
  (\E k \in Keys \intersect MovementKeys : control[k] = "ENABLED") => Complete(published)

(* The end-to-end stage is recorded only in a pilot whose foundation was recorded *)
(* and which Engineering and Operations have approved.                         *)
StagesInOrder ==
  records["LOCAL_E2E_COMPLETE"] > 0 =>
    /\ records["FOUNDATION_COMPLETE"] > 0
    /\ approvals["ENGINEERING"] > 0 /\ approvals["OPERATIONS"] > 0

(* An urgent signal has paused initiation, and it stays paused or stopped until   *)
(* somebody resumes it, whatever other monitors and operators do.              *)
UrgentStaysPaused ==
  \A m \in Metrics :
    signal[m] = "URGENT" /\ m \notin resumed => control["INITIATION"] # "ENABLED"

(* Evaluations do not fail for ever.                                           *)
FailuresCease == <>[][\A w \in Monitors : Fail(w) => Evaluate(w)]_vars

(* Each worker evaluates on every poll.                                        *)
Fairness == FailuresCease /\ \A w \in Monitors : WF_vars(Evaluate(w))

FairSpec == Spec /\ Fairness

(* A breach that lasts is signalled in the end, and the signal stays, although    *)
(* monitors write what they observed before it.                                *)
BreachIsSignalled ==
  \A m \in Metrics : <>[](exposure[m] = "URGENT") => <>[](signal[m] = "URGENT")
=============================================================================
