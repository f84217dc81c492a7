------------------------ MODULE TransferWorker_proofs ------------------------
(* Proofs about TransferWorker, for every number of transfers, workers, retries *)
(* and dedup keys: that every variable keeps its type, and that BackedByPartner *)
(* holds whatever fails. The ledger and a success never claim more than the     *)
(* partner did.                                                                *)
EXTENDS TransferWorker, TLAPS

(* The constructors build rows of the job table.                               *)
LEMMA JobTypes ==
  /\ \A t \in Transfers : CollectionJob(t) \in Jobs /\ PayoutJob(t) \in Jobs
  /\ \A t \in Transfers, k \in 1..MaxRetries : RetryJob(t, k) \in Jobs
  /\ \A t \in Transfers, k \in RecheckKeys : RecheckJob(t, k) \in Jobs
  /\ \A t \in Transfers, k \in ReconKeys : ReconJob(t, k) \in Jobs
  /\ \A j \in Jobs : j.ref \in Transfers
  BY WorkerAssumption DEF Jobs, CollectionJob, PayoutJob, RetryJob, RecheckJob,
    ReconJob

(* What the partner's word and a failure are recorded as.                      *)
LEMMA StatusTypes ==
  /\ \A p, a : StatusOf(p, a) \in Statuses
  /\ \A j : ProcessingStatus(j) \in Statuses
  /\ \A j : FailureStatus(j) \in ClosedStatuses
  /\ ClosedStatuses \subseteq Statuses
  /\ "PENDING_PAYOUT" \in Statuses /\ "INITIATED" \in Statuses
  BY DEF StatusOf, ProcessingStatus, FailureStatus, Statuses, PreCollection,
    PostCollection, ClosedStatuses

JobStatuses == {"ABSENT", "PENDING", "RUNNING", "LAPSED", "SUCCEEDED", "FAILED"}

(* Enqueue changes nothing but the status of rows.                             *)
LEMMA EnqueueType ==
  ASSUME NEW rows \in [Jobs -> JobStatuses], NEW S
  PROVE  Enqueue(rows, S) \in [Jobs -> JobStatuses]
  BY DEF Enqueue, JobStatuses

(* A worker that is somewhere in process() has claimed a row, and the row names *)
(* a transfer.                                                                 *)
LEMMA BusyWorker ==
  ASSUME TypeOK, NEW w \in Workers, pc[w] # "idle"
  PROVE  job[w] \in Jobs /\ job[w].ref \in Transfers /\ job[w] # NoJob
  BY JobTypes, WorkerAssumption DEF TypeOK

(* What a worker may remember.                                                 *)
LEMMA MemTypes ==
  /\ Blank \in MemType
  /\ \A s \in Statuses : [Blank EXCEPT !.seen = s] \in MemType
  /\ \A m \in MemType, s \in Statuses \union {"ABSENT"}, n \in Nat :
       [m EXCEPT !.seen = s, !.code = n] \in MemType
  /\ \A m \in MemType, a \in PartnerStates \union Refusals :
       [m EXCEPT !.answer = a] \in MemType
  /\ \A m \in MemType, a \in PartnerStates \union Refusals, n \in Nat :
       [m EXCEPT !.answer = a, !.code = n] \in MemType
  /\ \A m \in MemType, f \in Findings : [m EXCEPT !.finding = f] \in MemType
  BY DEF Blank, MemType, NoCode, Findings

LEMMA RememberType ==
  ASSUME TypeOK, NEW w \in Workers, NEW m \in MemType, Remember(w, m)
  PROVE  mem' \in [Workers -> MemType]
  BY DEF TypeOK, Remember

LEMMA TypeInit == Init => TypeOK
  BY WorkerAssumption DEF Init, TypeOK, MemType, Blank, Statuses, Findings, Labels, NoCode

LEMMA TypeEnvironment ==
  ASSUME TypeOK, Environment
  PROVE  TypeOK'
<1> USE DEF TypeOK, vars, transferVars, partnerVars, workerVars
<1>1. ASSUME NEW t \in Transfers, Initiate(t) PROVE TypeOK'
  BY <1>1, EnqueueType, StatusTypes DEF Initiate, JobStatuses
<1>2. ASSUME NEW t \in Transfers, NEW word \in PartnerStates,
             NEW k \in RecheckKeys, Webhook(t, word, k)
      PROVE  TypeOK'
  BY <1>2, EnqueueType DEF Webhook, JobStatuses
<1>3. ASSUME NEW t \in Transfers, NEW k \in RecheckKeys, AdminRecheck(t, k)
      PROVE  TypeOK'
  BY <1>3, EnqueueType DEF AdminRecheck, JobStatuses
<1>4. ASSUME NEW t \in Transfers, AdminReconcile(t) PROVE TypeOK'
  BY <1>4, JobTypes DEF AdminReconcile
<1>5. ASSUME NEW t \in Transfers, NEW k \in 1..MaxRetries, ManualRetry(t, k)
      PROVE  TypeOK'
  BY <1>5, EnqueueType, StatusTypes DEF ManualRetry, JobStatuses
<1>6. ASSUME NEW t \in Transfers, Settle(t) PROVE TypeOK'
  BY <1>6 DEF Settle, PartnerStates
<1>7. ASSUME NEW c \in Toggled, Switch(c) PROVE TypeOK'
  BY <1>7, WorkerAssumption DEF Switch
<1>8. ASSUME NEW j \in Jobs, LeaseLapses(j) PROVE TypeOK'
  BY <1>8 DEF LeaseLapses
<1> QED
  BY <1>1, <1>2, <1>3, <1>4, <1>5, <1>6, <1>7, <1>8 DEF Environment

LEMMA TypeDispatch ==
  ASSUME TypeOK, NEW w \in Workers,
         \/ Dispatch(w)
         \/ \E k \in RecheckKeys : RecheckSweep(w, k)
         \/ \E k \in ReconKeys \ {0} : ReconSweep(w, k)
         \/ Crash(w)
  PROVE  TypeOK'
<1> USE DEF TypeOK, vars, transferVars, partnerVars, workerVars
<1>1. CASE Poll(w)
  BY <1>1 DEF Poll, Eligible
<1>2. ASSUME NEW j \in batch[w], Claim(w, j) PROVE TypeOK'
  BY <1>2, WorkerAssumption DEF Claim, Labels
<1>3. ASSUME NEW j \in batch[w], SkipClaimed(w, j) PROVE TypeOK'
  BY <1>3 DEF SkipClaimed
<1>4. ASSUME NEW k \in RecheckKeys, RecheckSweep(w, k) PROVE TypeOK'
  BY <1>4, EnqueueType DEF RecheckSweep, JobStatuses
<1>5. ASSUME NEW k \in ReconKeys, ReconSweep(w, k) PROVE TypeOK'
  BY <1>5, EnqueueType DEF ReconSweep, JobStatuses
<1>6. CASE Crash(w)
  BY <1>6 DEF Crash, Labels, MemType, Blank, Statuses, NoCode, Findings
<1> QED
  BY <1>1, <1>2, <1>3, <1>4, <1>5, <1>6 DEF Dispatch

LEMMA TypeProcess ==
  ASSUME TypeOK, NEW w \in Workers, Process(w) \/ Throw(w)
  PROVE  TypeOK'
<1> USE DEF TypeOK, vars, transferVars, partnerVars, workerVars, Goto, Return,
           SetJob, Labels
<1>m. Blank \in MemType /\ mem[w] \in MemType /\ mem[w].code \in Nat
  BY MemTypes DEF MemType
<1>j. pc[w] # "idle" => job[w] \in Jobs /\ job[w].ref \in Transfers /\ job[w] # NoJob
  BY BusyWorker
<1>1. CASE PauseJob(w)
  BY <1>1, <1>m DEF PauseJob
<1>2. CASE PassGate(w)
  BY <1>2, <1>j DEF PassGate
<1>r. ASSUME NEW to \in Statuses, Remember(w, [Blank EXCEPT !.seen = to])
      PROVE  mem' \in [Workers -> MemType]
  BY <1>r, MemTypes, RememberType
<1>3. CASE ReadTransfer(w)
  <2>1. /\ pc[w] # "idle"
        /\ Remember(w, [mem[w] EXCEPT !.seen = status[job[w].ref],
                                      !.code = code[job[w].ref]])
    BY <1>3 DEF ReadTransfer
  <2>2. status[job[w].ref] \in Statuses \union {"ABSENT"} /\ code[job[w].ref] \in Nat
    BY <2>1, <1>j
  <2>3. mem' \in [Workers -> MemType]
    BY <2>1, <2>2, <1>m, MemTypes, RememberType
  <2>4. UNCHANGED <<transferVars, jobStatus, controls, partnerVars, job, batch>>
    BY <1>3 DEF ReadTransfer
  <2> DEFINE next == CASE MovesMoney(job[w]) -> "mark"
                       [] job[w].type = "STATUS_RECHECK" -> "lookup"
                       [] OTHER -> "reconcile"
  <2>5. next \in {"mark", "lookup", "reconcile"}
    OBVIOUS
  <2>6. pc' = [pc EXCEPT ![w] = next]
    BY <1>3 DEF ReadTransfer
  <2> HIDE DEF next
  <2> QED  BY <1>j, <2>1, <2>3, <2>4, <2>5, <2>6
<1>4. CASE RejectMark(w)
  BY <1>4, <1>m, <1>j DEF RejectMark, RejectJob
<1>5. CASE MarkProcessing(w)
  BY <1>5, <1>j, StatusTypes DEF MarkProcessing
<1>h. \A r \in PartnerStates : Heard(r) \subseteq PartnerStates \union Refusals
  BY DEF Heard
<1>6. CASE CallCollect(w)
  <2>1. CollectionCode \in Nat
    BY DEF CollectionCode
  <2>2. mem' \in [Workers -> MemType]
    BY <1>6, <1>m, <1>h, <2>1, MemTypes, RememberType DEF CallCollect
  <2>3. col' \in [Transfers -> PartnerStates \union {"NONE"}]
    <3>1. job[w].ref \in Transfers
      BY <1>6, <1>j DEF CallCollect
    <3>2. \/ \E r \in PartnerStates : col' = [col EXCEPT ![job[w].ref] = r]
          \/ col' = col
      BY <1>6 DEF CallCollect
    <3> QED  BY <3>1, <3>2
  <2>4. /\ pc' = [pc EXCEPT ![w] = "settle"] /\ pc[w] # "idle"
        /\ UNCHANGED <<transferVars, jobStatus, controls, pay, tries, job, batch>>
    BY <1>6 DEF CallCollect
  <2> QED  BY <1>j, <2>2, <2>3, <2>4
<1>7. CASE CallPayout(w)
  <2>1. tries[job[w].ref] \in Nat
    BY <1>7, <1>j DEF CallPayout
  <2>2. \A n \in Nat : PayoutCode(n) \in Nat
    BY DEF PayoutCode
  <2>3. \/ \E n \in Nat, a \in PartnerStates \union Refusals :
             Remember(w, [mem[w] EXCEPT !.answer = a, !.code = PayoutCode(n)])
        \/ \E a \in Refusals : Remember(w, [mem[w] EXCEPT !.answer = a])
    <3> DEFINE n == IF pay[job[w].ref] \in {"NONE", "FAILED"}
                    THEN tries[job[w].ref] + 1 ELSE tries[job[w].ref]
    <3>1. n \in Nat
      BY <2>1
    <3>2. \/ \E r \in PartnerStates : \E a \in Heard(r) :
               Remember(w, [mem[w] EXCEPT !.answer = a, !.code = PayoutCode(n)])
          \/ \E a \in Refusals : Remember(w, [mem[w] EXCEPT !.answer = a])
      BY <1>7 DEF CallPayout
    <3> HIDE DEF n
    <3> QED  BY <3>1, <3>2, <1>h
  <2>4. mem' \in [Workers -> MemType]
    BY <2>2, <2>3, <1>m, MemTypes, RememberType
  <2>5. job[w].ref \in Transfers
    BY <1>7, <1>j DEF CallPayout
  <2>6. /\ \/ \E r \in PartnerStates : pay' = [pay EXCEPT ![job[w].ref] = r]
           \/ pay' = pay
        /\ \/ tries' = tries
           \/ \E n \in Nat : tries' = [tries EXCEPT ![job[w].ref] = n]
    <3> DEFINE n == IF pay[job[w].ref] \in {"NONE", "FAILED"}
                    THEN tries[job[w].ref] + 1 ELSE tries[job[w].ref]
    <3>1. n \in Nat
      BY <2>1
    <3>2. \/ /\ \E r \in PartnerStates : pay' = [pay EXCEPT ![job[w].ref] = r]
             /\ tries' = [tries EXCEPT ![job[w].ref] = n]
          \/ pay' = pay /\ tries' = tries
      BY <1>7 DEF CallPayout
    <3> HIDE DEF n
    <3> QED  BY <3>1, <3>2
  <2>7. /\ pay' \in [Transfers -> PartnerStates \union {"NONE"}]
        /\ tries' \in [Transfers -> Nat]
    BY <2>5, <2>6
  <2>8. /\ pc' = [pc EXCEPT ![w] = "settle"] /\ pc[w] # "idle"
        /\ UNCHANGED <<transferVars, jobStatus, controls, col, job, batch>>
    BY <1>7 DEF CallPayout
  <2> QED  BY <1>j, <2>4, <2>7, <2>8
<1>8. CASE KeepPending(w)
  BY <1>8, <1>m, <1>j DEF KeepPending, RejectJob
<1>9. ASSUME NEW label \in Labels \ {"idle"}, FailTransfer(w, label), pc[w] # "idle"
      PROVE  TypeOK'
  <2>1. FailureStatus(job[w]) \in Statuses
    BY StatusTypes
  <2>2. mem' \in [Workers -> MemType]
    BY <1>9, <1>r, <2>1 DEF FailTransfer
  <2>3. job[w].ref \in Transfers /\ job[w] \in Jobs /\ job[w] # NoJob
    BY <1>9, <1>j
  <2>4. /\ status' = [status EXCEPT ![job[w].ref] = FailureStatus(job[w])]
        /\ jobStatus' = [jobStatus EXCEPT ![job[w]] = "FAILED"]
        /\ pc' = [pc EXCEPT ![w] = label]
        /\ UNCHANGED <<code, ledger, recon, session, intent, controls, partnerVars,
                       job, batch>>
    BY <1>9 DEF FailTransfer
  <2>5. status' \in [Transfers -> Statuses \union {"ABSENT"}]
    BY <2>1, <2>3, <2>4
  <2>6. jobStatus' \in [Jobs -> JobStatuses]
    BY <2>3, <2>4 DEF JobStatuses
  <2> QED  BY <1>9, <2>2, <2>3, <2>4, <2>5, <2>6
<1>10. CASE Refused(w)
  BY <1>10, <1>9 DEF Refused
<1>11. CASE RecordFailure(w)
  <2>1. mem' \in [Workers -> MemType]
    BY <1>11, <1>r, StatusTypes DEF RecordFailure
  <2>2. StatusOf(job[w].type, "FAILED") \in Statuses
    BY StatusTypes
  <2>3. job[w].ref \in Transfers /\ job[w] \in Jobs /\ job[w] # NoJob
    BY <1>11, <1>j DEF RecordFailure
  <2>4. /\ status' = [status EXCEPT ![job[w].ref] = StatusOf(job[w].type, "FAILED")]
        /\ code' = [code EXCEPT ![job[w].ref] = mem[w].code]
        /\ jobStatus' = [jobStatus EXCEPT ![job[w]] = "SUCCEEDED"]
        /\ pc' = [pc EXCEPT ![w] = "resolve"] /\ pc[w] # "idle"
        /\ UNCHANGED <<ledger, recon, session, intent, controls, partnerVars, job,
                       batch>>
    BY <1>11 DEF RecordFailure
  <2>5. /\ status' \in [Transfers -> Statuses \union {"ABSENT"}]
        /\ code' \in [Transfers -> Nat]
    BY <2>2, <2>3, <2>4, <1>m
  <2>6. jobStatus' \in [Jobs -> JobStatuses]
    BY <2>3, <2>4 DEF JobStatuses
  <2> QED  BY <2>1, <2>3, <2>4, <2>5, <2>6
<1>q. ASSUME NEW S, pc[w] # "idle",
             jobStatus' = Enqueue([jobStatus EXCEPT ![job[w]] = "SUCCEEDED"], S)
      PROVE  jobStatus' \in [Jobs -> JobStatuses]
  <2>1. [jobStatus EXCEPT ![job[w]] = "SUCCEEDED"] \in [Jobs -> JobStatuses]
    BY <1>q, <1>j DEF JobStatuses
  <2> QED  BY <1>q, <2>1, EnqueueType
<1>12. ASSUME NEW k \in RecheckKeys, RecordPending(w, k) PROVE TypeOK'
  <2>1. mem' \in [Workers -> MemType]
    BY <1>12, <1>r, StatusTypes DEF RecordPending
  <2>2. jobStatus' \in [Jobs -> JobStatuses]
    BY <1>12, <1>q DEF RecordPending
  <2>3. ProcessingStatus(job[w]) \in Statuses
    BY StatusTypes
  <2>4. job[w].ref \in Transfers /\ job[w] # NoJob
    BY <1>12, <1>j DEF RecordPending
  <2>5. /\ status' = [status EXCEPT ![job[w].ref] = ProcessingStatus(job[w])]
        /\ code' = [code EXCEPT ![job[w].ref] = mem[w].code]
        /\ pc' = [pc EXCEPT ![w] = "resolve"]
        /\ UNCHANGED <<ledger, recon, session, intent, controls, partnerVars, job,
                       batch>>
    BY <1>12 DEF RecordPending
  <2> QED  BY <2>1, <2>2, <2>3, <2>4, <2>5, <1>m DEF JobStatuses
<1>13. CASE PostEntries(w)
  BY <1>13, <1>j DEF PostEntries, EventOf
<1>14. CASE CommitSuccess(w)
  <2>1. mem' \in [Workers -> MemType]
    BY <1>14, <1>r, StatusTypes DEF CommitSuccess
  <2>2. jobStatus' \in [Jobs -> JobStatuses]
    BY <1>14, <1>q DEF CommitSuccess
  <2>3. StatusOf(job[w].type, "COMPLETE") \in Statuses
    BY StatusTypes
  <2>4. job[w].ref \in Transfers /\ job[w] # NoJob
    BY <1>14, <1>j DEF CommitSuccess
  <2>5. /\ status' = [status EXCEPT ![job[w].ref] =
                         StatusOf(job[w].type, "COMPLETE")]
        /\ code' = [code EXCEPT ![job[w].ref] = mem[w].code]
        /\ pc' = [pc EXCEPT ![w] = "reconcile"]
        /\ UNCHANGED <<ledger, recon, session, intent, controls, partnerVars, job,
                       batch>>
    BY <1>14 DEF CommitSuccess
  <2> QED  BY <2>1, <2>2, <2>3, <2>4, <2>5, <1>m DEF JobStatuses
<1>15. CASE Lookup(w)
  <2>1. \A t \in Transfers : \A c, p : KnownRecords(t, c, p) \subseteq PartnerStates
    BY DEF KnownRecords, PartnerStates
  <2>2. \/ \E a \in PartnerStates, n \in Nat :
             Remember(w, [mem[w] EXCEPT !.answer = a, !.code = n])
        \/ \E a \in Refusals : Remember(w, [mem[w] EXCEPT !.answer = a])
    BY <1>15, <1>j, <1>m, <2>1 DEF Lookup, CollectionCode, Refusals
  <2>3. mem' \in [Workers -> MemType]
    BY <2>2, <1>m, MemTypes, RememberType
  <2>4. /\ pc' = [pc EXCEPT ![w] = "confirm"] /\ pc[w] # "idle"
        /\ UNCHANGED <<transferVars, jobStatus, controls, partnerVars, job, batch>>
    BY <1>15 DEF Lookup
  <2> QED  BY <1>j, <2>3, <2>4
<1>16. CASE LookupFailed(w)
  BY <1>16, <1>m, <1>j DEF LookupFailed, RejectJob
<1>17. CASE ConfirmStatus(w)
  <2>1. Confirmed(w) \in Statuses
    BY StatusTypes DEF Confirmed
  <2>2. mem' \in [Workers -> MemType]
    BY <1>17, <1>r, <2>1 DEF ConfirmStatus
  <2>3. jobStatus' \in [Jobs -> JobStatuses]
    BY <1>17, <1>q DEF ConfirmStatus
  <2>4. AfterConfirm(Confirmed(w)) \in {"record", "resolve"}
    BY DEF AfterConfirm
  <2>5. job[w].ref \in Transfers /\ job[w] # NoJob
    BY <1>17, <1>j DEF ConfirmStatus
  <2>6. /\ status' = [status EXCEPT ![job[w].ref] = Confirmed(w)]
        /\ code' = [code EXCEPT ![job[w].ref] = mem[w].code]
        /\ pc' = [pc EXCEPT ![w] = AfterConfirm(Confirmed(w))]
        /\ UNCHANGED <<ledger, recon, session, intent, controls, partnerVars, job,
                       batch>>
    BY <1>17 DEF ConfirmStatus
  <2> QED  BY <2>1, <2>2, <2>3, <2>4, <2>5, <2>6, <1>m DEF JobStatuses
<1>18. CASE RecordSuccess(w)
  BY <1>18, <1>j DEF RecordSuccess, EventOf
<1>19. CASE DeriveFinding(w)
  <2>1. \A s, e : Derive(s, e) \in Findings
    BY DEF Derive, Findings
  <2>2. mem' \in [Workers -> MemType]
    BY <1>19, <1>m, <2>1, MemTypes, RememberType DEF DeriveFinding
  <2>3. /\ pc' = [pc EXCEPT ![w] = "persist"] /\ pc[w] # "idle"
        /\ UNCHANGED <<transferVars, jobStatus, controls, partnerVars, job, batch>>
    BY <1>19 DEF DeriveFinding
  <2> QED  BY <1>j, <2>2, <2>3
<1>20. CASE PersistFinding(w)
  <2>1. mem[w].finding \in Findings /\ "NONE" \in Findings
    BY DEF MemType, Findings
  <2>2. recon' \in [Transfers -> Findings]
    BY <1>20, <1>j, <2>1 DEF PersistFinding
  <2>3. CASE job[w].type = "RECONCILIATION"
    BY <1>20, <2>2, <2>3, <1>j, <1>m DEF PersistFinding
  <2>4. CASE job[w].type # "RECONCILIATION"
    <3>1. mem' \in [Workers -> MemType]
      BY <1>20, <2>1, <2>4, <1>m, MemTypes, RememberType DEF PersistFinding
    <3>2. /\ pc[w] # "idle" /\ pc' = [pc EXCEPT ![w] = "resolve"]
          /\ UNCHANGED <<status, code, ledger, session, intent, jobStatus,
                         controls, partnerVars, job, batch>>
      BY <1>20, <2>4 DEF PersistFinding
    <3> QED  BY <2>2, <3>1, <3>2, <1>j
  <2> QED  BY <2>3, <2>4
<1>21. CASE ResolveSession(w)
  BY <1>21, <1>m, <1>j DEF ResolveSession
<1>22. CASE Throw(w)
  BY <1>22, <1>9 DEF Throw
<1> QED
  BY <1>1, <1>2, <1>3, <1>4, <1>5, <1>6, <1>7, <1>8, <1>10, <1>11, <1>12, <1>13,
     <1>14, <1>15, <1>16, <1>17, <1>18, <1>19, <1>20, <1>21, <1>22 DEF Process

LEMMA TypeStep == TypeOK /\ [Next]_vars => TypeOK'
<1> SUFFICES ASSUME TypeOK, [Next]_vars PROVE TypeOK'
  OBVIOUS
<1>1. CASE UNCHANGED vars
  BY <1>1 DEF vars, transferVars, partnerVars, workerVars, TypeOK
<1>2. CASE Environment
  BY <1>2, TypeEnvironment
<1>3. ASSUME NEW w \in Workers,
             \/ Dispatch(w)
             \/ \E k \in RecheckKeys : RecheckSweep(w, k)
             \/ \E k \in ReconKeys \ {0} : ReconSweep(w, k)
             \/ Crash(w)
      PROVE  TypeOK'
  BY <1>3, TypeDispatch
<1>4. ASSUME NEW w \in Workers, Process(w) \/ Throw(w) PROVE TypeOK'
  BY <1>4, TypeProcess
<1> QED  BY <1>1, <1>2, <1>3, <1>4 DEF Next

(* Every variable keeps its type.                                              *)
THEOREM TypeCorrect == Spec => []TypeOK
  BY TypeInit, TypeStep, PTL DEF Spec

(* ------------------------- What a step leaves alone ------------------------ *)

(* A step of w leaves every other worker where it was.                         *)
OthersKept(w) ==
  \A v \in Workers \ {w} :
    pc'[v] = pc[v] /\ job'[v] = job[v] /\ mem'[v] = mem[v]

(* The partner never takes back a completed collection or payout.              *)
MoneyStays ==
  \A t \in Transfers :
    /\ col[t] = "COMPLETE" => col'[t] = "COMPLETE"
    /\ pay[t] = "COMPLETE" => pay'[t] = "COMPLETE"

Sweep(w) ==
  \/ \E k \in RecheckKeys : RecheckSweep(w, k)
  \/ \E k \in ReconKeys \ {0} : ReconSweep(w, k)

(* Only three actions write the partner's records.                             *)
LEMMA MoneyStaysNext == TypeOK /\ [Next]_vars => MoneyStays
<1> SUFFICES ASSUME TypeOK, [Next]_vars, NEW t \in Transfers
             PROVE  /\ col[t] = "COMPLETE" => col'[t] = "COMPLETE"
                    /\ pay[t] = "COMPLETE" => pay'[t] = "COMPLETE"
  BY DEF MoneyStays
<1> USE DEF vars, transferVars, partnerVars, workerVars
<1>0. col \in [Transfers -> PartnerStates \union {"NONE"}]
      /\ pay \in [Transfers -> PartnerStates \union {"NONE"}]
  BY DEF TypeOK
<1>1. CASE UNCHANGED <<col, pay>>
  BY <1>1
<1>2. ASSUME NEW u \in Transfers, Settle(u)
      PROVE  /\ col[t] = "COMPLETE" => col'[t] = "COMPLETE"
             /\ pay[t] = "COMPLETE" => pay'[t] = "COMPLETE"
  BY <1>0, <1>2 DEF Settle
<1>3. ASSUME NEW w \in Workers, CallCollect(w)
      PROVE  /\ col[t] = "COMPLETE" => col'[t] = "COMPLETE"
             /\ pay[t] = "COMPLETE" => pay'[t] = "COMPLETE"
  BY <1>0, <1>3 DEF CallCollect
<1>4. ASSUME NEW w \in Workers, CallPayout(w)
      PROVE  /\ col[t] = "COMPLETE" => col'[t] = "COMPLETE"
             /\ pay[t] = "COMPLETE" => pay'[t] = "COMPLETE"
  <2>1. UNCHANGED col
    BY <1>4 DEF CallPayout
  <2>2. \/ UNCHANGED pay
        \/ \E r \in PartnerStates :
             /\ pay[job[w].ref] \in {"NONE", "FAILED"} \/ pay[job[w].ref] = r
             /\ pay' = [pay EXCEPT ![job[w].ref] = r]
    BY <1>4 DEF CallPayout
  <2> QED  BY <1>0, <2>1, <2>2
<1>5. ASSUME NEW w \in Workers, Process(w), ~CallCollect(w), ~CallPayout(w)
      PROVE  UNCHANGED <<col, pay>>
  BY <1>5 DEF Process, PauseJob, PassGate, ReadTransfer, RejectMark, RejectJob,
     MarkProcessing, KeepPending, Refused, FailTransfer, RecordFailure,
     RecordPending, PostEntries, CommitSuccess, Lookup, LookupFailed,
     ConfirmStatus, RecordSuccess, DeriveFinding, PersistFinding, ResolveSession
<1>6. ASSUME NEW w \in Workers, Dispatch(w) \/ Sweep(w) \/ Throw(w) \/ Crash(w)
      PROVE  UNCHANGED <<col, pay>>
  BY <1>6 DEF Dispatch, Sweep, Poll, Claim, SkipClaimed, RecheckSweep, ReconSweep,
     Throw, FailTransfer, Crash
<1>7. ASSUME Environment, \A u \in Transfers : ~Settle(u)
      PROVE  UNCHANGED <<col, pay>>
  BY <1>7 DEF Environment, Initiate, Webhook, AdminRecheck, AdminReconcile,
     ManualRetry, Switch, LeaseLapses
<1> QED
  BY <1>1, <1>2, <1>3, <1>4, <1>5, <1>6, <1>7 DEF Next, Sweep

LEMMA OthersKeptNext ==
  ASSUME TypeOK, NEW w \in Workers,
         Process(w) \/ Throw(w) \/ Dispatch(w) \/ Sweep(w) \/ Crash(w)
  PROVE  OthersKept(w)
<1> USE DEF vars, transferVars, partnerVars, workerVars, Goto, Return, Remember
<1>0. /\ pc \in [Workers -> Labels]
      /\ job \in [Workers -> Jobs \union {NoJob}]
      /\ mem \in [Workers -> MemType]
  BY DEF TypeOK
<1>1. ASSUME NEW m, NEW label,
             pc' = [pc EXCEPT ![w] = label],
             job' = job \/ \E j : job' = [job EXCEPT ![w] = j],
             mem' = mem \/ mem' = [mem EXCEPT ![w] = m]
      PROVE  OthersKept(w)
  BY <1>0, <1>1 DEF OthersKept
<1>2. CASE Throw(w) \/ Crash(w)
  BY <1>1, <1>2 DEF Throw, FailTransfer, Crash
<1>3. CASE Dispatch(w) \/ Sweep(w)
  BY <1>0, <1>3 DEF Dispatch, Sweep, Poll, Claim, SkipClaimed, RecheckSweep,
     ReconSweep, OthersKept
<1>4. CASE PauseJob(w) \/ PassGate(w) \/ ReadTransfer(w) \/ RejectMark(w)
           \/ MarkProcessing(w) \/ KeepPending(w)
  BY <1>1, <1>4 DEF PauseJob, PassGate, ReadTransfer, RejectMark, RejectJob,
     MarkProcessing, KeepPending
<1>5. CASE CallCollect(w) \/ CallPayout(w) \/ Lookup(w) \/ LookupFailed(w)
  BY <1>1, <1>5 DEF CallCollect, CallPayout, Lookup, LookupFailed, RejectJob
<1>6. CASE Refused(w) \/ RecordFailure(w) \/ \E k \in RecheckKeys : RecordPending(w, k)
  BY <1>1, <1>6 DEF Refused, FailTransfer, RecordFailure, RecordPending
<1>7. CASE PostEntries(w) \/ CommitSuccess(w) \/ ConfirmStatus(w) \/ RecordSuccess(w)
  BY <1>1, <1>7 DEF PostEntries, CommitSuccess, ConfirmStatus, RecordSuccess
<1>8. CASE DeriveFinding(w) \/ PersistFinding(w) \/ ResolveSession(w)
  BY <1>1, <1>8 DEF DeriveFinding, PersistFinding, ResolveSession
<1> QED
  BY <1>2, <1>3, <1>4, <1>5, <1>6, <1>7, <1>8 DEF Process

(* --------------------------- Backed by the partner ------------------------- *)

(* What a worker goes by is true: it settles only requests that move money, an  *)
(* answer COMPLETE it heard is in the partner's records, and so is a success it *)
(* is about to post.                                                           *)
HearsTruth(w) ==
  LET t == job[w].ref
      m == mem[w]
  IN /\ pc[w] \in {"mark", "call", "settle", "commit"} => MovesMoney(job[w])
     /\ pc[w] = "commit" => m.answer = "COMPLETE"
     /\ pc[w] \in {"settle", "commit"} /\ m.answer = "COMPLETE" =>
          /\ job[w].type = "COLLECTION" => col[t] = "COMPLETE"
          /\ job[w].type = "PAYOUT" => pay[t] = "COMPLETE"
     /\ pc[w] = "confirm" /\ m.answer = "COMPLETE" =>
          /\ RecheckPhase(m.seen) = "COLLECTION" => col[t] = "COMPLETE"
          /\ RecheckPhase(m.seen) = "PAYOUT" => pay[t] = "COMPLETE"
     /\ pc[w] = "record" =>
          /\ m.seen = "COLLECTION_SUCCESS" => col[t] = "COMPLETE"
          /\ m.seen = "PAYOUT_SUCCESS" => pay[t] = "COMPLETE"

BackedInv ==
  /\ TypeOK
  /\ BackedByPartner
  /\ \A w \in Workers : HearsTruth(w)

LEMMA StatusMeaning ==
  /\ \A p, a : StatusOf(p, a) = "COLLECTION_SUCCESS" =>
                 p = "COLLECTION" /\ a = "COMPLETE"
  /\ \A p, a : StatusOf(p, a) = "PAYOUT_SUCCESS" =>
                 p # "COLLECTION" /\ a = "COMPLETE"
  /\ \A p, a : StatusOf(p, a) \in PostCollection =>
                 \/ p = "COLLECTION" /\ a = "COMPLETE"
                 \/ p # "COLLECTION"
  /\ StatusOf("COLLECTION", "COMPLETE") = "COLLECTION_SUCCESS"
  /\ StatusOf("PAYOUT", "COMPLETE") = "PAYOUT_SUCCESS"
  /\ \A j : ProcessingStatus(j) # "PAYOUT_SUCCESS"
  /\ \A j : FailureStatus(j) # "PAYOUT_SUCCESS"
  /\ \A s : RecheckPhase(s) \in {"COLLECTION", "PAYOUT"}
  BY DEF StatusOf, ProcessingStatus, FailureStatus, RecheckPhase, PostCollection

(* What a worker has just put into its memory.                                 *)
LEMMA Recalls ==
  ASSUME TypeOK, NEW w \in Workers, NEW m, Remember(w, m)
  PROVE  mem'[w] = m
  BY DEF TypeOK, Remember

LEMMA Answers ==
  ASSUME TypeOK, NEW w \in Workers, NEW a, NEW n,
         \/ Remember(w, [mem[w] EXCEPT !.answer = a])
         \/ Remember(w, [mem[w] EXCEPT !.answer = a, !.code = n])
  PROVE  mem'[w].answer = a /\ mem'[w].seen = mem[w].seen
<1>1. mem[w] \in MemType
  BY DEF TypeOK
<1>2. /\ [mem[w] EXCEPT !.answer = a].answer = a
      /\ [mem[w] EXCEPT !.answer = a].seen = mem[w].seen
      /\ [mem[w] EXCEPT !.answer = a, !.code = n].answer = a
      /\ [mem[w] EXCEPT !.answer = a, !.code = n].seen = mem[w].seen
  BY <1>1 DEF MemType
<1>3. CASE Remember(w, [mem[w] EXCEPT !.answer = a])
  BY <1>2, <1>3, Recalls
<1>4. CASE Remember(w, [mem[w] EXCEPT !.answer = a, !.code = n])
  BY <1>2, <1>4, Recalls
<1> QED  BY <1>3, <1>4

(* Steps that post nothing and record no success keep the books backed.        *)
LEMMA BackedFrame ==
  ASSUME BackedByPartner, MoneyStays, ledger' = ledger,
         \A t \in Transfers : status'[t] = "PAYOUT_SUCCESS" =>
           status[t] = "PAYOUT_SUCCESS" \/ pay[t] = "COMPLETE"
  PROVE  BackedByPartner'
  BY DEF BackedByPartner, MoneyStays

(* It is enough to look at the worker that moves.                              *)
LEMMA TruthFrame ==
  ASSUME BackedInv, MoneyStays, NEW w \in Workers, OthersKept(w), HearsTruth(w)'
  PROVE  \A v \in Workers : HearsTruth(v)'
<1> TAKE v \in Workers
<1>1. CASE v = w
  BY <1>1
<1>2. CASE v # w
  <2>1. pc'[v] = pc[v] /\ job'[v] = job[v] /\ mem'[v] = mem[v]
    BY <1>2 DEF OthersKept
  <2>2. HearsTruth(v)
    BY DEF BackedInv
  <2>3. pc[v] # "idle" => job[v].ref \in Transfers
    BY BusyWorker DEF BackedInv
  <2> QED  BY <2>1, <2>2, <2>3 DEF HearsTruth, MoneyStays
<1> QED  BY <1>1, <1>2

LEMMA BackedInit == Init => BackedInv
  BY TypeInit DEF Init, BackedInv, BackedByPartner, HearsTruth

LEMMA BackedEnvironment ==
  ASSUME BackedInv, MoneyStays, Environment
  PROVE  BackedByPartner' /\ \A w \in Workers : HearsTruth(w)'
<1> USE DEF vars, transferVars, partnerVars, workerVars
<1>1. UNCHANGED <<ledger, workerVars>>
  BY DEF Environment, Initiate, Webhook, AdminRecheck, AdminReconcile, ManualRetry,
     Switch, Settle, LeaseLapses
<1>2. ASSUME NEW t \in Transfers, status'[t] = "PAYOUT_SUCCESS"
      PROVE  status[t] = "PAYOUT_SUCCESS"
  <2>1. status \in [Transfers -> Statuses \union {"ABSENT"}]
    BY DEF BackedInv, TypeOK
  <2> QED
    BY <1>2, <2>1 DEF Environment, Initiate, Webhook, AdminRecheck, AdminReconcile,
       ManualRetry, Switch, Settle, LeaseLapses
<1>3. BackedByPartner'
  BY <1>1, <1>2, BackedFrame DEF BackedInv
<1>4. ASSUME NEW w \in Workers PROVE HearsTruth(w)'
  <2>1. HearsTruth(w) /\ (pc[w] # "idle" => job[w].ref \in Transfers)
    BY BusyWorker DEF BackedInv
  <2> QED  BY <1>1, <2>1 DEF HearsTruth, MoneyStays
<1> QED  BY <1>3, <1>4

LEMMA BackedProcess ==
  ASSUME BackedInv, MoneyStays, NEW w \in Workers,
         Process(w) \/ Throw(w) \/ Dispatch(w) \/ Sweep(w) \/ Crash(w)
  PROVE  BackedByPartner' /\ HearsTruth(w)'
<1> USE DEF vars, transferVars, partnerVars, workerVars
<1> DEFINE t == job[w].ref
           Quiet == ledger' = ledger /\ status' = status
           Lands == pc'[w] \notin {"mark", "call", "settle", "commit", "confirm",
                                   "record"}
<1>t. /\ pc \in [Workers -> Labels] /\ mem \in [Workers -> MemType]
      /\ job \in [Workers -> Jobs \union {NoJob}]
      /\ status \in [Transfers -> Statuses \union {"ABSENT"}]
      /\ ledger \in [Transfers -> SUBSET {"collection", "payout"}]
      /\ col \in [Transfers -> PartnerStates \union {"NONE"}]
      /\ pay \in [Transfers -> PartnerStates \union {"NONE"}]
  BY DEF BackedInv, TypeOK
<1>k. TypeOK /\ mem[w] \in MemType
  BY DEF BackedInv, TypeOK
<1>b. BackedByPartner /\ HearsTruth(w)
  BY DEF BackedInv
<1>j. pc[w] # "idle" => t \in Transfers
  BY BusyWorker DEF BackedInv
<1>q. Quiet => BackedByPartner'
  BY <1>b, BackedFrame
<1>l. Lands => HearsTruth(w)'
  BY DEF HearsTruth
<1>s. ASSUME NEW to, to # "PAYOUT_SUCCESS" \/ pay[t] = "COMPLETE",
             status' = [status EXCEPT ![t] = to], ledger' = ledger
      PROVE  BackedByPartner'
  BY <1>s, <1>t, <1>b, BackedFrame
<1>1. CASE Dispatch(w)
  <2>1. Quiet /\ Lands
    BY <1>1, <1>t DEF Dispatch, Poll, Claim, SkipClaimed
  <2> QED  BY <2>1, <1>q, <1>l
<1>2. CASE Sweep(w)
  <2>1. Quiet /\ Lands
    BY <1>2, <1>t DEF Sweep, RecheckSweep, ReconSweep
  <2> QED  BY <2>1, <1>q, <1>l
<1>3. CASE Crash(w) \/ PauseJob(w) \/ PassGate(w) \/ RejectMark(w) \/ KeepPending(w)
           \/ LookupFailed(w) \/ DeriveFinding(w) \/ PersistFinding(w)
           \/ ResolveSession(w)
  <2>1. Quiet /\ Lands
    BY <1>3, <1>t DEF Crash, PauseJob, PassGate, RejectMark, KeepPending,
       LookupFailed, RejectJob, DeriveFinding, PersistFinding, ResolveSession,
       Goto, Return
  <2> QED  BY <2>1, <1>q, <1>l
<1>4. CASE ReadTransfer(w)
  <2>1. Quiet /\ job' = job
        /\ pc'[w] \in {"mark", "lookup", "reconcile"}
        /\ (pc'[w] = "mark" => MovesMoney(job[w]))
    BY <1>4, <1>t DEF ReadTransfer, Goto
  <2> QED  BY <2>1, <1>q DEF HearsTruth, MovesMoney
<1>5. CASE MarkProcessing(w)
  <2>1. /\ ledger' = ledger /\ job' = job /\ pc'[w] = "call"
        /\ \/ status' = status
           \/ status' = [status EXCEPT ![t] = ProcessingStatus(job[w])]
        /\ MovesMoney(job[w])
    BY <1>5, <1>t, <1>b DEF MarkProcessing, Goto, HearsTruth
  <2> QED  BY <2>1, <1>q, <1>s, StatusMeaning DEF HearsTruth, MovesMoney
<1>6. CASE CallCollect(w)
  <2>1. /\ Quiet /\ job' = job /\ pc'[w] = "settle" /\ job[w].type = "COLLECTION"
    BY <1>6, <1>t DEF CallCollect, Goto
  <2>2. \/ \E r \in PartnerStates : \E a, n :
             /\ a \in Heard(r)
             /\ col' = [col EXCEPT ![t] = r]
             /\ Remember(w, [mem[w] EXCEPT !.answer = a, !.code = n])
        \/ \E a \in Refusals : Remember(w, [mem[w] EXCEPT !.answer = a])
    BY <1>6 DEF CallCollect
  <2>3. t \in Transfers
    BY <1>6, <1>j DEF CallCollect
  <2>4. mem'[w].answer = "COMPLETE" => col'[t] = "COMPLETE"
    <3>1. ASSUME NEW r \in PartnerStates, NEW a, NEW n, a \in Heard(r),
                 col' = [col EXCEPT ![t] = r],
                 Remember(w, [mem[w] EXCEPT !.answer = a, !.code = n])
          PROVE  mem'[w].answer = "COMPLETE" => col'[t] = "COMPLETE"
      <4>1. mem'[w].answer = a
        BY <3>1, <1>k, Answers
      <4> QED  BY <3>1, <4>1, <2>3, <1>t DEF Heard, Refusals
    <3>2. ASSUME NEW a \in Refusals, Remember(w, [mem[w] EXCEPT !.answer = a])
          PROVE  mem'[w].answer # "COMPLETE"
      BY <3>2, <1>k, Answers DEF Refusals
    <3> QED  BY <2>2, <3>1, <3>2
  <2> QED  BY <2>1, <2>4, <1>q DEF HearsTruth, MovesMoney
<1>7. CASE CallPayout(w)
  <2>1. /\ Quiet /\ job' = job /\ pc'[w] = "settle" /\ job[w].type = "PAYOUT"
    BY <1>7, <1>t DEF CallPayout, Goto
  <2>2. \/ \E r \in PartnerStates : \E a, n :
             /\ a \in Heard(r)
             /\ pay' = [pay EXCEPT ![t] = r]
             /\ Remember(w, [mem[w] EXCEPT !.answer = a, !.code = n])
        \/ \E a \in Refusals : Remember(w, [mem[w] EXCEPT !.answer = a])
    BY <1>7 DEF CallPayout
  <2>3. t \in Transfers
    BY <1>7, <1>j DEF CallPayout
  <2>4. mem'[w].answer = "COMPLETE" => pay'[t] = "COMPLETE"
    <3>1. ASSUME NEW r \in PartnerStates, NEW a, NEW n, a \in Heard(r),
                 pay' = [pay EXCEPT ![t] = r],
                 Remember(w, [mem[w] EXCEPT !.answer = a, !.code = n])
          PROVE  mem'[w].answer = "COMPLETE" => pay'[t] = "COMPLETE"
      <4>1. mem'[w].answer = a
        BY <3>1, <1>k, Answers
      <4> QED  BY <3>1, <4>1, <2>3, <1>t DEF Heard, Refusals
    <3>2. ASSUME NEW a \in Refusals, Remember(w, [mem[w] EXCEPT !.answer = a])
          PROVE  mem'[w].answer # "COMPLETE"
      BY <3>2, <1>k, Answers DEF Refusals
    <3> QED  BY <2>2, <3>1, <3>2
  <2> QED  BY <2>1, <2>4, <1>q DEF HearsTruth, MovesMoney
<1>8. CASE Throw(w) \/ Refused(w)
  <2>1. /\ status' = [status EXCEPT ![t] = FailureStatus(job[w])]
        /\ ledger' = ledger /\ Lands
    BY <1>8, <1>t DEF Throw, Refused, FailTransfer, Goto
  <2> QED  BY <2>1, <1>s, <1>l, StatusMeaning
<1>9. CASE RecordFailure(w)
  <2>1. /\ status' = [status EXCEPT ![t] = StatusOf(job[w].type, "FAILED")]
        /\ ledger' = ledger /\ Lands
    BY <1>9, <1>t DEF RecordFailure, Goto
  <2>2. StatusOf(job[w].type, "FAILED") # "PAYOUT_SUCCESS"
    BY StatusMeaning
  <2> QED  BY <2>1, <2>2, <1>s, <1>l
<1>10. CASE \E k \in RecheckKeys : RecordPending(w, k)
  <2>1. /\ status' = [status EXCEPT ![t] = ProcessingStatus(job[w])]
        /\ ledger' = ledger /\ Lands
    BY <1>10, <1>t DEF RecordPending, Goto
  <2> QED  BY <2>1, <1>s, <1>l, StatusMeaning
<1>11. CASE PostEntries(w)
  <2>1. /\ pc[w] = "settle" /\ mem[w].answer = "COMPLETE" /\ status' = status
        /\ ledger' = [ledger EXCEPT ![t] =
                        @ \union EventOf(StatusOf(job[w].type, "COMPLETE"))]
        /\ job' = job /\ mem' = mem /\ pc'[w] = "commit"
        /\ col' = col /\ pay' = pay
    BY <1>11, <1>t DEF PostEntries, Goto
  <2>2. MovesMoney(job[w])
        /\ (job[w].type = "COLLECTION" => col[t] = "COMPLETE")
        /\ (job[w].type = "PAYOUT" => pay[t] = "COMPLETE")
    BY <2>1, <1>b DEF HearsTruth
  <2>3. HearsTruth(w)'
    BY <2>1, <2>2 DEF HearsTruth, MovesMoney
  <2>4. /\ "collection" \in EventOf(StatusOf(job[w].type, "COMPLETE")) =>
             col[t] = "COMPLETE"
        /\ "payout" \in EventOf(StatusOf(job[w].type, "COMPLETE")) =>
             pay[t] = "COMPLETE"
    BY <2>2 DEF EventOf, StatusOf, MovesMoney
  <2> QED  BY <2>1, <2>3, <2>4, <1>t, <1>b DEF BackedByPartner
<1>12. CASE CommitSuccess(w)
  <2>1. /\ pc[w] = "commit" /\ ledger' = ledger /\ Lands
        /\ status' = [status EXCEPT ![t] = StatusOf(job[w].type, "COMPLETE")]
    BY <1>12, <1>t DEF CommitSuccess, Goto
  <2>2. StatusOf(job[w].type, "COMPLETE") = "PAYOUT_SUCCESS" => pay[t] = "COMPLETE"
    BY <2>1, <1>b, StatusMeaning DEF HearsTruth, MovesMoney
  <2> QED  BY <2>1, <2>2, <1>s, <1>l
<1>13. CASE Lookup(w)
  <2>1. /\ Quiet /\ job' = job /\ pc'[w] = "confirm" /\ col' = col /\ pay' = pay
    BY <1>13, <1>t DEF Lookup, Goto
  <2>2. \/ \E a \in KnownRecords(t, mem[w].code, RecheckPhase(mem[w].seen)) : \E n :
             Remember(w, [mem[w] EXCEPT !.answer = a, !.code = n])
        \/ \E a \in Refusals : Remember(w, [mem[w] EXCEPT !.answer = a])
    BY <1>13 DEF Lookup, Refusals
  <2>3. ASSUME NEW a, NEW n,
               Remember(w, [mem[w] EXCEPT !.answer = a, !.code = n])
        PROVE  mem'[w].answer = a /\ mem'[w].seen = mem[w].seen
    BY <2>3, <1>k, Answers
  <2>4. ASSUME NEW a \in Refusals, Remember(w, [mem[w] EXCEPT !.answer = a])
        PROVE  mem'[w].answer # "COMPLETE" /\ mem'[w].seen = mem[w].seen
    BY <2>4, <1>k, Answers DEF Refusals
  <2>5. "COMPLETE" \in KnownRecords(t, mem[w].code, RecheckPhase(mem[w].seen)) =>
          /\ RecheckPhase(mem[w].seen) = "COLLECTION" => col[t] = "COMPLETE"
          /\ RecheckPhase(mem[w].seen) = "PAYOUT" => pay[t] = "COMPLETE"
    BY DEF KnownRecords
  <2> QED  BY <2>1, <2>2, <2>3, <2>4, <2>5, <1>q DEF HearsTruth
<1>14. CASE ConfirmStatus(w)
  <2>1. /\ pc[w] = "confirm" /\ ledger' = ledger /\ job' = job
        /\ status' = [status EXCEPT ![t] = Confirmed(w)]
        /\ Remember(w, [Blank EXCEPT !.seen = Confirmed(w)])
        /\ pc'[w] \in {"record", "resolve"}
        /\ col' = col /\ pay' = pay
    BY <1>14, <1>t DEF ConfirmStatus, Goto, AfterConfirm
  <2>2. mem'[w].seen = Confirmed(w)
    BY <2>1, <1>t DEF Remember, Blank, MemType
  <2>3. /\ Confirmed(w) = "COLLECTION_SUCCESS" => col[t] = "COMPLETE"
        /\ Confirmed(w) = "PAYOUT_SUCCESS" => pay[t] = "COMPLETE"
    BY <2>1, <1>b, StatusMeaning DEF HearsTruth, Confirmed
  <2>4. HearsTruth(w)'
    BY <2>1, <2>2, <2>3 DEF HearsTruth
  <2> QED  BY <2>1, <2>3, <2>4, <1>s
<1>15. CASE RecordSuccess(w)
  <2>1. /\ pc[w] = "record" /\ status' = status /\ Lands
        /\ ledger' = [ledger EXCEPT ![t] = @ \union EventOf(mem[w].seen)]
        /\ col' = col /\ pay' = pay
    BY <1>15, <1>t DEF RecordSuccess, Goto
  <2>2. /\ "collection" \in EventOf(mem[w].seen) => col[t] = "COMPLETE"
        /\ "payout" \in EventOf(mem[w].seen) => pay[t] = "COMPLETE"
    BY <2>1, <1>b DEF EventOf, HearsTruth
  <2> QED  BY <2>1, <2>2, <1>t, <1>b, <1>l DEF BackedByPartner
<1> QED
  BY <1>1, <1>2, <1>3, <1>4, <1>5, <1>6, <1>7, <1>8, <1>9, <1>10, <1>11, <1>12,
     <1>13, <1>14, <1>15 DEF Process

LEMMA BackedStep == BackedInv /\ [Next]_vars => BackedInv'
<1> SUFFICES ASSUME BackedInv, [Next]_vars PROVE BackedInv'
  OBVIOUS
<1>1. TypeOK' /\ MoneyStays
  BY TypeStep, MoneyStaysNext DEF BackedInv
<1>2. CASE UNCHANGED vars
  BY <1>1, <1>2 DEF vars, transferVars, partnerVars, workerVars, BackedInv,
     BackedByPartner, HearsTruth
<1>3. CASE Environment
  BY <1>1, <1>3, BackedEnvironment DEF BackedInv
<1>4. ASSUME NEW w \in Workers,
             Process(w) \/ Throw(w) \/ Dispatch(w) \/ Sweep(w) \/ Crash(w)
      PROVE  BackedInv'
  BY <1>1, <1>4, BackedProcess, OthersKeptNext, TruthFrame DEF BackedInv
<1> QED  BY <1>2, <1>3, <1>4 DEF Next, Sweep

(* Whatever fails and whoever races, the ledger holds a pair only for money the *)
(* partner moved, and a success only stands for a completed payout.            *)
THEOREM BooksAreBacked == Spec => []BackedByPartner
<1>1. Spec => []BackedInv
  BY BackedInit, BackedStep, PTL DEF Spec
<1>2. BackedInv => BackedByPartner
  BY DEF BackedInv
<1> QED  BY <1>1, <1>2, PTL
=============================================================================
