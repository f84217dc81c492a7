------------------------ MODULE PilotRelease_proofs ------------------------
(* What the release record, the controls and the exposure signals keep true,     *)
(* for any number of requests, monitors, roles and metrics.                     *)
EXTENDS PilotRelease, TLAPS

(* What a request has checked stays true until it writes: approvals, records and  *)
(* publications are added to and never taken back.                             *)
RequestInv ==
  /\ stage = "PILOT_READY" => Complete(published)
  /\ \A q \in Requests :
       /\ pc[q] \in {"advance", "record"} =>
            /\ op[q].stage \in Stages
            /\ op[q].stage = "LOCAL_E2E_COMPLETE" =>
                 /\ records["FOUNDATION_COMPLETE"] > 0
                 /\ approvals["ENGINEERING"] > 0 /\ approvals["OPERATIONS"] > 0
       /\ pc[q] = "publish" => Complete(op[q].facts)
       /\ pc[q] = "resume" => op[q].key \in Keys /\ Complete(published)

(* A monitor that found initiation stopped finds it not enabled, unless somebody  *)
(* resumed it meanwhile; what it raises is above normal.                       *)
MonitorOK(w) ==
  /\ at[w] \in {"calm", "raise", "commit"} => seen[w].about \in Metrics
  /\ at[w] \in {"raise", "commit"} =>
       seen[w].level[seen[w].about] \in {"WARNING", "URGENT"}
  /\ at[w] = "commit" /\ seen[w].stopped /\ ~seen[w].resumed =>
       control["INITIATION"] # "ENABLED"

MonitorInv == \A w \in Monitors : MonitorOK(w)

ReleaseInv ==
  /\ TypeOK
  /\ RequestInv
  /\ StagesInOrder
  /\ EnabledWasReleased
  /\ MonitorInv
  /\ UrgentStaysPaused

USE ReleaseAssumption

LEMMA NoOpType == NoOp \in OpType
BY DEF NoOp, OpType, NotPublished, FactsType

LEMMA UnreadType == Unread \in SeenType
BY DEF Unread, SeenType, Levels

LEMMA FactsAreTyped == TypeOK => Facts \in FactsType
BY DEF TypeOK, Facts, FactsType

LEMMA ReleaseInit == Init => ReleaseInv
<1> SUFFICES ASSUME Init PROVE ReleaseInv
  OBVIOUS
<1>1. NotPublished \in FactsType
  BY DEF NotPublished, FactsType
<1>2. TypeOK
  BY <1>1, NoOpType, UnreadType DEF Init, TypeOK, Stages, Levels
<1>3. RequestInv /\ StagesInOrder /\ EnabledWasReleased
  BY DEF Init, RequestInv, StagesInOrder, EnabledWasReleased, Stages
<1>4. MonitorInv /\ UrgentStaysPaused
  BY DEF Init, MonitorInv, MonitorOK, UrgentStaysPaused
<1>5. QED
  BY <1>2, <1>3, <1>4 DEF ReleaseInv

(* ------------------------- what a step leaves alone ------------------------ *)

(* The half of the invariant about requests does not see the monitors ...      *)
LEMMA RequestsUntouched ==
  ASSUME ReleaseInv, UNCHANGED <<releaseVars, requestVars>>,
         \A k \in Keys \intersect MovementKeys :
           control'[k] = "ENABLED" => control[k] = "ENABLED"
  PROVE  RequestInv' /\ StagesInOrder' /\ EnabledWasReleased'
<1> USE DEF releaseVars, requestVars
<1>1. RequestInv' /\ StagesInOrder'
  BY DEF ReleaseInv, RequestInv, StagesInOrder, Complete
<1>2. EnabledWasReleased'
  BY DEF ReleaseInv, EnabledWasReleased, Complete
<1>3. QED
  BY <1>1, <1>2

(* ... and the half about monitors does not see the release.                   *)
LEMMA MonitorsUntouched ==
  ASSUME ReleaseInv, UNCHANGED <<signal, monitorVars, resumed>>,
         control'["INITIATION"] = "ENABLED" => control["INITIATION"] = "ENABLED"
  PROVE  MonitorInv' /\ UrgentStaysPaused'
<1> USE DEF monitorVars
<1>1. MonitorInv'
  BY DEF ReleaseInv, MonitorInv, MonitorOK
<1>2. UrgentStaysPaused'
  BY DEF ReleaseInv, UrgentStaysPaused
<1>3. QED
  BY <1>1, <1>2

(* The types of what Go and Proceed store.                                     *)
LEMMA GoType ==
  ASSUME TypeOK, NEW q \in Requests, NEW label, NEW memory, Go(q, label, memory),
         label \in {"idle", "advance", "record", "publish", "resume"}, memory \in OpType
  PROVE  /\ pc' \in [Requests -> {"idle", "advance", "record", "publish", "resume"}]
         /\ op' \in [Requests -> OpType]
BY DEF TypeOK, Go

LEMMA ProceedType ==
  ASSUME TypeOK, NEW w \in Monitors, NEW label, NEW memory, Proceed(w, label, memory),
         label \in {"idle", "loop", "calm", "raise", "commit"}, memory \in SeenType
  PROVE  /\ at' \in [Monitors -> {"idle", "loop", "calm", "raise", "commit"}]
         /\ seen' \in [Monitors -> SeenType]
BY DEF TypeOK, Proceed

LEMMA NextMetricType ==
  ASSUME TypeOK, NEW w \in Monitors, NEW m, NextMetric(w, m)
  PROVE  /\ at' \in [Monitors -> {"idle", "loop", "calm", "raise", "commit"}]
         /\ seen' \in [Monitors -> SeenType]
<1> DEFINE rest == seen[w].todo \ {m}
<1>1. [seen[w] EXCEPT !.todo = rest, !.about = "none"] \in SeenType
  <2>1. seen[w] \in SeenType
    BY DEF TypeOK
  <2>2. rest \in SUBSET Metrics
    BY <2>1 DEF SeenType
  <2>3. QED
    BY <2>1, <2>2 DEF SeenType
<1>2. CASE rest = {}
  <2>1. Proceed(w, "idle", Unread)
    BY <1>2 DEF NextMetric
  <2>2. QED
    BY <2>1, UnreadType, ProceedType
<1>3. CASE rest # {}
  <2>1. Proceed(w, "loop", [seen[w] EXCEPT !.todo = rest, !.about = "none"])
    BY <1>3 DEF NextMetric
  <2>2. QED
    BY <1>1, <2>1, ProceedType
<1>4. QED
  BY <1>2, <1>3

(* ------------------------------ admin requests ----------------------------- *)

LEMMA RecordApprovalStep ==
  ASSUME ReleaseInv, NEW r \in Roles, RecordApproval(r)
  PROVE  ReleaseInv'
<1> USE DEF RecordApproval, requestVars
<1>1. approvals' \in [Roles -> Nat] /\ \A x \in Roles : approvals[x] > 0 => approvals'[x] > 0
  BY DEF ReleaseInv, TypeOK
<1>2. TypeOK'
  BY <1>1 DEF ReleaseInv, TypeOK, monitorVars
<1>3. RequestInv' /\ StagesInOrder' /\ EnabledWasReleased'
  BY <1>1 DEF ReleaseInv, RequestInv, StagesInOrder, EnabledWasReleased, Complete
<1>4. MonitorInv' /\ UrgentStaysPaused'
  BY MonitorsUntouched
<1>5. QED
  BY <1>2, <1>3, <1>4 DEF ReleaseInv

LEMMA BeginStageStep ==
  ASSUME ReleaseInv, NEW q \in Requests, NEW s \in Stages, BeginStage(q, s)
  PROVE  ReleaseInv'
<1> USE DEF BeginStage, releaseVars
<1>1. [NoOp EXCEPT !.stage = s] \in OpType /\ [NoOp EXCEPT !.stage = s].stage = s
  BY NoOpType DEF OpType
<1>2. TypeOK'
  BY <1>1, GoType DEF ReleaseInv, TypeOK, monitorVars
<1>3. s = "LOCAL_E2E_COMPLETE" =>
        /\ records["FOUNDATION_COMPLETE"] > 0
        /\ approvals["ENGINEERING"] > 0 /\ approvals["OPERATIONS"] > 0
  BY DEF StageAllowed, RequiredRoles
<1>4. /\ op'[q].stage = s /\ pc'[q] \in {"advance", "record"}
      /\ \A x \in Requests \ {q} : op'[x] = op[x] /\ pc'[x] = pc[x]
  BY <1>1 DEF Go, ReleaseInv, TypeOK
<1>5. RequestInv' /\ StagesInOrder' /\ EnabledWasReleased'
  BY <1>3, <1>4 DEF ReleaseInv, RequestInv, StagesInOrder, EnabledWasReleased, Complete
<1>6. MonitorInv' /\ UrgentStaysPaused'
  BY MonitorsUntouched
<1>7. QED
  BY <1>2, <1>5, <1>6 DEF ReleaseInv

LEMMA AdvanceStageStep ==
  ASSUME ReleaseInv, NEW q \in Requests, AdvanceStage(q)
  PROVE  ReleaseInv'
<1> USE DEF AdvanceStage
<1>1. stage' \in Stages /\ stage' # "PILOT_READY"
  BY DEF ReleaseInv, RequestInv, Stages
<1>2. op[q] \in OpType
  BY DEF ReleaseInv, TypeOK
<1>3. TypeOK'
  BY <1>1, <1>2, GoType DEF ReleaseInv, TypeOK, monitorVars
<1>4. /\ op'[q] = op[q] /\ pc'[q] = "record"
      /\ \A x \in Requests \ {q} : op'[x] = op[x] /\ pc'[x] = pc[x]
  BY DEF Go, ReleaseInv, TypeOK
<1>5. RequestInv' /\ StagesInOrder' /\ EnabledWasReleased'
  BY <1>1, <1>4 DEF ReleaseInv, RequestInv, StagesInOrder, EnabledWasReleased, Complete
<1>6. MonitorInv' /\ UrgentStaysPaused'
  BY MonitorsUntouched
<1>7. QED
  BY <1>3, <1>5, <1>6 DEF ReleaseInv

LEMMA RecordStageStep ==
  ASSUME ReleaseInv, NEW q \in Requests, RecordStage(q)
  PROVE  ReleaseInv'
<1> DEFINE s == op[q].stage
<1> USE DEF RecordStage, Finish
<1>1. /\ s \in Stages
      /\ s = "LOCAL_E2E_COMPLETE" =>
           /\ records["FOUNDATION_COMPLETE"] > 0
           /\ approvals["ENGINEERING"] > 0 /\ approvals["OPERATIONS"] > 0
  BY DEF ReleaseInv, RequestInv
<1>2. /\ records' \in [Stages -> Nat]
      /\ \A x \in Stages : records[x] > 0 => records'[x] > 0
      /\ \A x \in Stages \ {s} : records'[x] = records[x]
  BY <1>1 DEF ReleaseInv, TypeOK
<1>3. TypeOK'
  BY <1>2, GoType, NoOpType DEF ReleaseInv, TypeOK, monitorVars
<1>4. pc'[q] = "idle" /\ \A x \in Requests \ {q} : op'[x] = op[x] /\ pc'[x] = pc[x]
  BY DEF Go, ReleaseInv, TypeOK
<1>5. RequestInv' /\ EnabledWasReleased'
  BY <1>2, <1>4 DEF ReleaseInv, RequestInv, EnabledWasReleased, Complete, Stages
<1>6. StagesInOrder'
  BY <1>1, <1>2 DEF ReleaseInv, StagesInOrder, Stages
<1>7. MonitorInv' /\ UrgentStaysPaused'
  BY MonitorsUntouched
<1>8. QED
  BY <1>3, <1>5, <1>6, <1>7 DEF ReleaseInv

LEMMA BeginPublishStep ==
  ASSUME ReleaseInv, NEW q \in Requests, BeginPublish(q)
  PROVE  ReleaseInv'
<1> USE DEF BeginPublish, releaseVars
<1>1. [NoOp EXCEPT !.facts = Facts] \in OpType /\ [NoOp EXCEPT !.facts = Facts].facts = Facts
  BY NoOpType, FactsAreTyped DEF OpType, ReleaseInv
<1>2. TypeOK'
  BY <1>1, GoType DEF ReleaseInv, TypeOK, monitorVars
<1>3. /\ op'[q].facts = Facts /\ pc'[q] = "publish"
      /\ \A x \in Requests \ {q} : op'[x] = op[x] /\ pc'[x] = pc[x]
  BY <1>1 DEF Go, ReleaseInv, TypeOK
<1>4. Complete(op'[q].facts)
  BY <1>3
<1>5. RequestInv' /\ StagesInOrder' /\ EnabledWasReleased'
  BY <1>3, <1>4 DEF ReleaseInv, RequestInv, StagesInOrder, EnabledWasReleased, Complete
<1>6. MonitorInv' /\ UrgentStaysPaused'
  BY MonitorsUntouched
<1>7. QED
  BY <1>2, <1>5, <1>6 DEF ReleaseInv

LEMMA PublishStep ==
  ASSUME ReleaseInv, NEW q \in Requests, Publish(q)
  PROVE  ReleaseInv'
<1> USE DEF Publish, Finish
<1>1. published' \in FactsType /\ Complete(published')
  BY DEF ReleaseInv, RequestInv, TypeOK, OpType
<1>2. TypeOK'
  BY <1>1, GoType, NoOpType DEF ReleaseInv, TypeOK, monitorVars
<1>3. pc'[q] = "idle" /\ \A x \in Requests \ {q} : op'[x] = op[x] /\ pc'[x] = pc[x]
  BY DEF Go, ReleaseInv, TypeOK
<1>4. RequestInv' /\ StagesInOrder' /\ EnabledWasReleased'
  BY <1>1, <1>3 DEF ReleaseInv, RequestInv, StagesInOrder, EnabledWasReleased, Complete
<1>5. MonitorInv' /\ UrgentStaysPaused'
  BY MonitorsUntouched
<1>6. QED
  BY <1>2, <1>4, <1>5 DEF ReleaseInv

LEMMA BeginResumeStep ==
  ASSUME ReleaseInv, NEW q \in Requests, NEW k \in Keys, BeginResume(q, k)
  PROVE  ReleaseInv'
<1> USE DEF BeginResume, releaseVars
<1>1. [NoOp EXCEPT !.key = k] \in OpType /\ [NoOp EXCEPT !.key = k].key = k
  BY NoOpType DEF OpType
<1>2. TypeOK'
  BY <1>1, GoType DEF ReleaseInv, TypeOK, monitorVars
<1>3. /\ op'[q].key = k /\ pc'[q] = "resume"
      /\ \A x \in Requests \ {q} : op'[x] = op[x] /\ pc'[x] = pc[x]
  BY <1>1 DEF Go, ReleaseInv, TypeOK
<1>4. Complete(published)
  BY DEF ReleaseHolds, ReleaseInv, RequestInv
<1>5. RequestInv' /\ StagesInOrder' /\ EnabledWasReleased'
  BY <1>3, <1>4 DEF ReleaseInv, RequestInv, StagesInOrder, EnabledWasReleased, Complete
<1>6. MonitorInv' /\ UrgentStaysPaused'
  BY MonitorsUntouched
<1>7. QED
  BY <1>2, <1>5, <1>6 DEF ReleaseInv

LEMMA ResumeStep ==
  ASSUME ReleaseInv, NEW q \in Requests, Resume(q)
  PROVE  ReleaseInv'
<1> DEFINE k == op[q].key
<1> USE DEF Resume, Finish, releaseVars
<1>1. control' \in [Keys -> {"MISSING", "ENABLED", "PAUSED", "PERMANENTLY_STOPPED"}]
  BY DEF ReleaseInv, TypeOK
<1>2. resumed' \subseteq Metrics
  BY DEF ReleaseInv, TypeOK
<1>3. seen' \in [Monitors -> SeenType]
  <2>1. CASE k = "INITIATION"
    <3>1. seen' = [w \in Monitors |-> [seen[w] EXCEPT !.resumed = at[w] = "commit"]]
      BY <2>1
    <3>2. ASSUME NEW w \in Monitors
          PROVE  [seen[w] EXCEPT !.resumed = at[w] = "commit"] \in SeenType
      <4>1. seen[w] \in SeenType
        BY DEF ReleaseInv, TypeOK
      <4>2. QED
        BY <4>1 DEF SeenType
    <3>3. QED
      BY <3>1, <3>2
  <2>2. CASE k # "INITIATION"
    BY <2>2 DEF ReleaseInv, TypeOK
  <2>3. QED
    BY <2>1, <2>2
<1>4. TypeOK'
  BY <1>1, <1>2, <1>3, GoType, NoOpType DEF ReleaseInv, TypeOK
<1>5. pc'[q] = "idle" /\ \A x \in Requests \ {q} : op'[x] = op[x] /\ pc'[x] = pc[x]
  BY DEF Go, ReleaseInv, TypeOK
<1>6. Complete(published')
  BY DEF ReleaseInv, RequestInv
<1>7. RequestInv' /\ StagesInOrder' /\ EnabledWasReleased'
  BY <1>5, <1>6 DEF ReleaseInv, RequestInv, StagesInOrder, EnabledWasReleased, Complete
<1>8. MonitorInv' /\ UrgentStaysPaused'
  <2>1. CASE k = "INITIATION"
    <3>1. \A w \in Monitors :
            /\ at'[w] = at[w] /\ seen'[w].about = seen[w].about
            /\ seen'[w].level = seen[w].level /\ seen'[w].stopped = seen[w].stopped
            /\ at[w] = "commit" => seen'[w].resumed
      <4> TAKE w \in Monitors
      <4>1. seen[w] \in SeenType
        BY DEF ReleaseInv, TypeOK
      <4>2. seen'[w] = [seen[w] EXCEPT !.resumed = at[w] = "commit"]
        BY <2>1
      <4>3. QED
        BY <4>1, <4>2 DEF SeenType
    <3>2. MonitorInv'
      BY <3>1 DEF ReleaseInv, MonitorInv, MonitorOK
    <3>3. UrgentStaysPaused'
      BY <2>1 DEF UrgentStaysPaused
    <3>4. QED
      BY <3>2, <3>3
  <2>2. CASE k # "INITIATION"
    <3>1. control'["INITIATION"] = control["INITIATION"]
      BY <2>2 DEF ReleaseInv, TypeOK
    <3>2. QED
      BY <2>2, <3>1, MonitorsUntouched DEF monitorVars
  <2>3. QED
    BY <2>1, <2>2
<1>9. QED
  BY <1>4, <1>7, <1>8 DEF ReleaseInv

(* Pausing, stopping, isolating: no control of movement becomes enabled.       *)
LEMMA LowerStep ==
  ASSUME ReleaseInv, (\E k \in Keys, s \in {"ENABLED", "PAUSED", "PERMANENTLY_STOPPED"} :
                        SetControl(k, s)) \/ IsolateProvider
  PROVE  ReleaseInv'
<1>1. control' \in [Keys -> {"MISSING", "ENABLED", "PAUSED", "PERMANENTLY_STOPPED"}]
  BY DEF SetControl, IsolateProvider, ReleaseInv, TypeOK
<1>2. \A k \in Keys \intersect MovementKeys : control'[k] = "ENABLED" => control[k] = "ENABLED"
  BY DEF SetControl, IsolateProvider, ReleaseInv, TypeOK
<1>3. UNCHANGED <<releaseVars, requestVars, monitorVars, exposure, signal, resumed>>
  BY DEF SetControl, IsolateProvider
<1>4. TypeOK'
  BY <1>1, <1>3 DEF ReleaseInv, TypeOK, releaseVars, requestVars, monitorVars
<1>5. QED
  BY <1>2, <1>3, <1>4, RequestsUntouched, MonitorsUntouched DEF ReleaseInv, MovementKeys

LEMMA AbortStep ==
  ASSUME ReleaseInv, NEW q \in Requests, Abort(q)
  PROVE  ReleaseInv'
<1> USE DEF Abort, Finish, releaseVars
<1>1. TypeOK'
  BY GoType, NoOpType DEF ReleaseInv, TypeOK, monitorVars
<1>2. pc'[q] = "idle" /\ \A x \in Requests \ {q} : op'[x] = op[x] /\ pc'[x] = pc[x]
  BY DEF Go, ReleaseInv, TypeOK
<1>3. RequestInv' /\ StagesInOrder' /\ EnabledWasReleased'
  BY <1>2 DEF ReleaseInv, RequestInv, StagesInOrder, EnabledWasReleased, Complete
<1>4. QED
  BY <1>1, <1>3, MonitorsUntouched DEF ReleaseInv

(* ------------------------------- the monitor ------------------------------- *)

LEMMA ExposeStep ==
  ASSUME ReleaseInv, NEW m \in Metrics, NEW level \in Levels \union {"UNLIMITED"},
         Expose(m, level)
  PROVE  ReleaseInv'
<1> USE DEF Expose
<1>1. TypeOK'
  BY DEF ReleaseInv, TypeOK, releaseVars, requestVars, monitorVars
<1>2. QED
  BY <1>1, RequestsUntouched, MonitorsUntouched DEF ReleaseInv

(* A step of monitor w leaves the memories of the others.                      *)
LEMMA ProceedMemory ==
  ASSUME TypeOK, NEW w \in Monitors, NEW label, NEW memory, Proceed(w, label, memory)
  PROVE  /\ at'[w] = label /\ seen'[w] = memory
         /\ \A v \in Monitors \ {w} : at'[v] = at[v] /\ seen'[v] = seen[v]
BY DEF Proceed, TypeOK

LEMMA NextMetricMemory ==
  ASSUME TypeOK, NEW w \in Monitors, NEW m, NextMetric(w, m)
  PROVE  /\ at'[w] \in {"idle", "loop"}
         /\ \A v \in Monitors \ {w} : at'[v] = at[v] /\ seen'[v] = seen[v]
<1> DEFINE rest == seen[w].todo \ {m}
<1>1. CASE rest = {}
  <2>1. Proceed(w, "idle", Unread)
    BY <1>1 DEF NextMetric
  <2>2. QED
    BY <2>1, ProceedMemory
<1>2. CASE rest # {}
  <2>1. Proceed(w, "loop", [seen[w] EXCEPT !.todo = rest, !.about = "none"])
    BY <1>2 DEF NextMetric
  <2>2. QED
    BY <2>1, ProceedMemory
<1>3. QED
  BY <1>1, <1>2

(* Steps that only read, or end the evaluation of a metric.                    *)
LEMMA QuietStep ==
  ASSUME ReleaseInv, NEW w \in Monitors,
         UNCHANGED <<control, releaseVars, exposure, signal, requestVars, resumed>>,
         at' \in [Monitors -> {"idle", "loop", "calm", "raise", "commit"}],
         seen' \in [Monitors -> SeenType],
         at'[w] \in {"idle", "loop"},
         \A v \in Monitors \ {w} : at'[v] = at[v] /\ seen'[v] = seen[v]
  PROVE  ReleaseInv'
<1>1. TypeOK'
  BY DEF ReleaseInv, TypeOK, releaseVars, requestVars
<1>2. MonitorInv'
  BY DEF ReleaseInv, MonitorInv, MonitorOK
<1>3. UrgentStaysPaused'
  BY DEF ReleaseInv, UrgentStaysPaused
<1>4. QED
  BY <1>1, <1>2, <1>3, RequestsUntouched DEF ReleaseInv

LEMMA ReadingStep ==
  ASSUME ReleaseInv, NEW w \in Monitors,
         Observe(w) \/ Fail(w) \/ \E m \in Metrics : SkipMetric(w, m)
  PROVE  ReleaseInv'
<1> TypeOK
  BY DEF ReleaseInv
<1>1. CASE Observe(w)
  <2>1. [Unread EXCEPT !.level = exposure, !.todo = Metrics] \in SeenType
    BY UnreadType DEF SeenType, TypeOK
  <2>2. QED
    BY <1>1, <2>1, ProceedType, ProceedMemory, QuietStep DEF Observe
<1>2. CASE Fail(w)
  BY <1>2, UnreadType, ProceedType, ProceedMemory, QuietStep DEF Fail
<1>3. ASSUME NEW m \in Metrics, SkipMetric(w, m) PROVE ReleaseInv'
  BY <1>3, NextMetricType, NextMetricMemory, QuietStep DEF SkipMetric
<1>4. QED
  BY <1>1, <1>2, <1>3

LEMMA ReadSignalStep ==
  ASSUME ReleaseInv, NEW w \in Monitors, NEW m \in Metrics, ReadSignal(w, m)
  PROVE  ReleaseInv'
<1> USE DEF ReadSignal
<1> TypeOK
  BY DEF ReleaseInv
<1> DEFINE memory == [seen[w] EXCEPT !.about = m]
           label == IF seen[w].level[m] = "NORMAL" THEN "calm" ELSE "raise"
<1>1. seen[w] \in SeenType
  BY DEF TypeOK
<1>2. memory \in SeenType /\ memory.about = m /\ memory.level = seen[w].level
  BY <1>1 DEF SeenType
<1>3. label = "raise" => seen[w].level[m] \in {"WARNING", "URGENT"}
  BY <1>1 DEF SeenType, Unremarkable, Levels
<1>4. /\ at'[w] = label /\ seen'[w] = memory
      /\ \A v \in Monitors \ {w} : at'[v] = at[v] /\ seen'[v] = seen[v]
  BY ProceedMemory
<1>5. TypeOK'
  BY <1>2, ProceedType DEF TypeOK, releaseVars, requestVars
<1>6. MonitorInv'
  <2>1. MonitorOK(w)'
    BY <1>2, <1>3, <1>4 DEF MonitorOK
  <2>2. ASSUME NEW v \in Monitors \ {w} PROVE MonitorOK(v)'
    BY <1>4 DEF ReleaseInv, MonitorInv, MonitorOK
  <2>3. QED
    BY <2>1, <2>2 DEF MonitorInv
<1>7. UrgentStaysPaused'
  BY DEF ReleaseInv, UrgentStaysPaused
<1>8. QED
  BY <1>5, <1>6, <1>7, RequestsUntouched DEF ReleaseInv

LEMMA CalmStep ==
  ASSUME ReleaseInv, NEW w \in Monitors, Calm(w)
  PROVE  ReleaseInv'
<1> USE DEF Calm
<1> TypeOK
  BY DEF ReleaseInv
<1>1. /\ signal' \in [Metrics -> Levels \union {"NONE"}]
      /\ \A m \in Metrics : signal'[m] = "URGENT" => signal[m] = "URGENT"
  BY DEF TypeOK, Levels
<1>2. TypeOK'
  BY <1>1, NextMetricType DEF TypeOK, releaseVars, requestVars
<1>3. MonitorInv'
  BY NextMetricMemory DEF ReleaseInv, MonitorInv, MonitorOK
<1>4. UrgentStaysPaused'
  BY <1>1 DEF ReleaseInv, UrgentStaysPaused
<1>5. QED
  BY <1>2, <1>3, <1>4, RequestsUntouched DEF ReleaseInv

LEMMA BeginRaiseStep ==
  ASSUME ReleaseInv, NEW w \in Monitors, BeginRaise(w)
  PROVE  ReleaseInv'
<1> USE DEF BeginRaise
<1> TypeOK
  BY DEF ReleaseInv
<1> DEFINE halted == control["INITIATION"] = "PERMANENTLY_STOPPED"
           memory == [seen[w] EXCEPT !.stopped = halted, !.resumed = FALSE]
<1>1. seen[w] \in SeenType
  BY DEF TypeOK
<1>2. /\ memory \in SeenType /\ memory.about = seen[w].about
      /\ memory.level = seen[w].level /\ memory.stopped = halted
  BY <1>1 DEF SeenType
<1>3. /\ at'[w] = "commit" /\ seen'[w] = memory
      /\ \A v \in Monitors \ {w} : at'[v] = at[v] /\ seen'[v] = seen[v]
  BY ProceedMemory
<1>4. TypeOK'
  BY <1>2, ProceedType DEF TypeOK, releaseVars, requestVars
<1>5. MonitorInv'
  <2>1. MonitorOK(w)'
    <3>1. MonitorOK(w)
      BY DEF ReleaseInv, MonitorInv
    <3>2. memory.stopped => control'["INITIATION"] # "ENABLED"
      BY <1>2
    <3>3. QED
      BY <1>2, <1>3, <3>1, <3>2 DEF MonitorOK
  <2>2. ASSUME NEW v \in Monitors \ {w} PROVE MonitorOK(v)'
    BY <1>3 DEF ReleaseInv, MonitorInv, MonitorOK
  <2>3. QED
    BY <2>1, <2>2 DEF MonitorInv
<1>6. UrgentStaysPaused'
  BY DEF ReleaseInv, UrgentStaysPaused
<1>7. QED
  BY <1>4, <1>5, <1>6, RequestsUntouched DEF ReleaseInv

(* An urgent signal comes with a pause, or with a stop that was read and that     *)
(* only a resume can have ended.                                               *)
LEMMA CommitRaiseStep ==
  ASSUME ReleaseInv, NEW w \in Monitors, CommitRaise(w)
  PROVE  ReleaseInv'
<1> USE DEF CommitRaise
<1> TypeOK
  BY DEF ReleaseInv
<1> DEFINE m == seen[w].about
<1>1. m \in Metrics /\ seen[w].level[m] \in {"WARNING", "URGENT"}
  BY DEF ReleaseInv, MonitorInv, MonitorOK
<1>2. signal' \in [Metrics -> Levels \union {"NONE"}] /\ resumed' \subseteq Metrics
  BY <1>1 DEF TypeOK, Levels
<1>3. /\ control' \in [Keys -> {"MISSING", "ENABLED", "PAUSED", "PERMANENTLY_STOPPED"}]
      /\ \A k \in Keys : control'[k] = "ENABLED" => control[k] = "ENABLED"
  BY DEF TypeOK
<1>4. TypeOK'
  BY <1>2, <1>3, NextMetricType DEF TypeOK, releaseVars, requestVars
<1>5. MonitorInv'
  BY <1>3, NextMetricMemory DEF ReleaseInv, MonitorInv, MonitorOK
<1>6. UrgentStaysPaused'
  <2> SUFFICES ASSUME NEW x \in Metrics, signal'[x] = "URGENT", x \notin resumed'
               PROVE  control'["INITIATION"] # "ENABLED"
    BY DEF UrgentStaysPaused
  <2>1. CASE x # m
    BY <1>3, <2>1 DEF ReleaseInv, UrgentStaysPaused, TypeOK
  <2>2. CASE x = m
    <3>1. seen[w].level[m] = "URGENT" /\ ~seen[w].resumed
      BY <2>2 DEF TypeOK
    <3>2. CASE seen[w].stopped
      BY <1>3, <3>1, <3>2 DEF ReleaseInv, MonitorInv, MonitorOK
    <3>3. CASE ~seen[w].stopped
      BY <3>1, <3>3 DEF Pauses, TypeOK
    <3>4. QED
      BY <3>2, <3>3
  <2>3. QED
    BY <2>1, <2>2
<1>7. QED
  BY <1>3, <1>4, <1>5, <1>6, RequestsUntouched DEF ReleaseInv

(* -------------------------------- theorems --------------------------------- *)

LEMMA ReleaseStep == ReleaseInv /\ [Next]_vars => ReleaseInv'
<1> SUFFICES ASSUME ReleaseInv, [Next]_vars PROVE ReleaseInv'
  OBVIOUS
<1>1. CASE UNCHANGED vars
  <2>1. TypeOK'
    BY <1>1 DEF ReleaseInv, TypeOK, vars, releaseVars, requestVars, monitorVars
  <2>2. QED
    BY <1>1, <2>1, RequestsUntouched, MonitorsUntouched DEF vars, ReleaseInv
<1>2. CASE Next
  BY <1>2, RecordApprovalStep, BeginStageStep, AdvanceStageStep, RecordStageStep,
     BeginPublishStep, PublishStep, BeginResumeStep, ResumeStep, LowerStep, AbortStep,
     ExposeStep, ReadingStep, ReadSignalStep, CalmStep, BeginRaiseStep, CommitRaiseStep
     DEF Next, Evaluate
<1>3. QED
  BY <1>1, <1>2

LEMMA ReleaseAlways == Spec => []ReleaseInv
  BY ReleaseInit, ReleaseStep, PTL DEF Spec

(* Every variable of the release model keeps its type.                         *)
THEOREM ReleaseTypes == Spec => []TypeOK
<1>1. ReleaseInv => TypeOK
  BY DEF ReleaseInv
<1>2. QED
  BY <1>1, ReleaseAlways, PTL

(* Whatever requests interleave, a control of movement is enabled only after a    *)
(* complete publication (requirePublishedPilotReadiness before the upsert).      *)
THEOREM MovementWasReleased == Spec => []EnabledWasReleased
<1>1. ReleaseInv => EnabledWasReleased
  BY DEF ReleaseInv
<1>2. QED
  BY <1>1, ReleaseAlways, PTL

(* Stage records come in order and after their approvals, although the checks and *)
(* the inserts of recordPilotReadinessStage are steps apart.                    *)
THEOREM OrderedStages == Spec => []StagesInOrder
<1>1. ReleaseInv => StagesInOrder
  BY DEF ReleaseInv
<1>2. QED
  BY <1>1, ReleaseAlways, PTL

(* However monitors and operators race, an urgent signal leaves initiation paused *)
(* or stopped until somebody resumes it.                                       *)
THEOREM UrgencyPauses == Spec => []UrgentStaysPaused
<1>1. ReleaseInv => UrgentStaysPaused
  BY DEF ReleaseInv
<1>2. QED
  BY <1>1, ReleaseAlways, PTL
=============================================================================
