------------------------- MODULE TransferOrder_proofs -------------------------
(* That money is paid out only after it was collected, and that a running row   *)
(* has one worker. Both need that no call throws inside process(); the second   *)
(* also that no lease runs out under a live worker.                             *)
EXTENDS TransferWorker_proofs

(* --------------------------- Collected, then paid -------------------------- *)

Known(j) == jobStatus[j] # "ABSENT"

(* Workers only handle rows that exist, and rows are never deleted.            *)
RowsKnown ==
  \A w \in Workers :
    /\ job[w] # NoJob => Known(job[w])
    /\ \A j \in batch[w] : Known(j)

RowsStay == \A j \in Jobs : Known(j) => Known(j)'

(* The next three say why a payout can only follow a collection: its row was    *)
(* created for a collected transfer, and whoever remembers a status of the     *)
(* payout half read it when the collection was complete.                       *)
PayoutRows ==
  \A j \in Jobs : j.type = "PAYOUT" /\ Known(j) => col[j.ref] = "COMPLETE"

Remembers(w) ==
  mem[w].seen \in PostCollection =>
    pc[w] # "idle" /\ col[job[w].ref] = "COMPLETE"

OrderInv ==
  /\ BackedInv
  /\ CollectedBeforePayout
  /\ RowsKnown
  /\ PayoutRows
  /\ \A w \in Workers : Remembers(w)

(* What a step may do to the three of them.                                    *)
StatusFollows ==
  \A t \in Transfers :
    status'[t] \in PostCollection =>
      status[t] \in PostCollection \/ col[t] = "COMPLETE"

PayFollows ==
  \A t \in Transfers : pay'[t] # "NONE" => pay[t] # "NONE" \/ col[t] = "COMPLETE"

NewPayoutsFollow ==
  \A j \in Jobs : j.type = "PAYOUT" /\ Known(j)' =>
    Known(j) \/ col[j.ref] = "COMPLETE"

LEMMA Enqueued ==
  ASSUME NEW rows, NEW S, NEW j \in Jobs
  PROVE  /\ Enqueue(rows, S)[j] = rows[j]
            \/ (j \in S /\ Enqueue(rows, S)[j] = "PENDING")
  BY DEF Enqueue

(* A worker takes its row from its batch, and its batch from the table.        *)
LEMMA RowsTaken ==
  ASSUME TypeOK, [Next]_vars, NEW w \in Workers
  PROVE  /\ job'[w] \in {job[w], NoJob} \union batch[w]
         /\ batch'[w] \subseteq batch[w] \union Eligible
<1> USE DEF vars, transferVars, partnerVars, workerVars, Goto, Return
<1>0. /\ job \in [Workers -> Jobs \union {NoJob}]
      /\ batch \in [Workers -> SUBSET Jobs]
  BY DEF TypeOK
<1>1. CASE UNCHANGED <<job, batch>>
  BY <1>1
<1>2. CASE Environment
  BY <1>2 DEF Environment, Initiate, Webhook, AdminRecheck, AdminReconcile,
     ManualRetry, Switch, Settle, LeaseLapses
<1>3. ASSUME NEW v \in Workers, Dispatch(v) \/ Sweep(v) \/ Crash(v)
      PROVE  /\ job'[w] \in {job[w], NoJob} \union batch[w]
             /\ batch'[w] \subseteq batch[w] \union Eligible
  <2>1. CASE Poll(v)
    BY <1>0, <2>1 DEF Poll
  <2>2. ASSUME NEW j \in batch[v], Claim(v, j) \/ SkipClaimed(v, j)
        PROVE  /\ job'[w] \in {job[w], NoJob} \union batch[w]
               /\ batch'[w] \subseteq batch[w] \union Eligible
    BY <1>0, <2>2 DEF Claim, SkipClaimed
  <2>3. CASE Sweep(v)
    BY <2>3 DEF Sweep, RecheckSweep, ReconSweep
  <2>4. CASE Crash(v)
    BY <1>0, <2>4 DEF Crash
  <2> QED  BY <1>3, <2>1, <2>2, <2>3, <2>4 DEF Dispatch
<1>4. ASSUME NEW v \in Workers, Process(v) \/ Throw(v)
      PROVE  batch' = batch /\ (job' = job \/ job' = [job EXCEPT ![v] = NoJob])
  BY <1>4 DEF Process, PauseJob, PassGate, ReadTransfer, RejectMark, RejectJob,
     MarkProcessing, KeepPending, Refused, FailTransfer, RecordFailure,
     RecordPending, PostEntries, CommitSuccess, Lookup, LookupFailed,
     ConfirmStatus, RecordSuccess, DeriveFinding, PersistFinding, ResolveSession,
     CallCollect, CallPayout, Throw
<1>5. ASSUME NEW v \in Workers, Process(v) \/ Throw(v)
      PROVE  /\ job'[w] \in {job[w], NoJob} \union batch[w]
             /\ batch'[w] \subseteq batch[w] \union Eligible
  BY <1>0, <1>4, <1>5
<1> QED  BY <1>1, <1>2, <1>3, <1>5 DEF Next, Sweep

(* No step deletes a row.                                                      *)
LEMMA RowsStayNext == TypeOK /\ [Next]_vars => RowsStay
<1> SUFFICES ASSUME TypeOK, [Next]_vars, NEW j \in Jobs, jobStatus[j] # "ABSENT"
             PROVE  jobStatus'[j] # "ABSENT"
  BY DEF RowsStay, Known
<1> USE DEF vars, transferVars, partnerVars, workerVars
<1>0. jobStatus \in [Jobs -> JobStatuses]
  BY DEF TypeOK, JobStatuses
<1>1. ASSUME NEW i, NEW s \in JobStatuses \ {"ABSENT"},
             jobStatus' = [jobStatus EXCEPT ![i] = s]
      PROVE  jobStatus'[j] # "ABSENT"
  BY <1>0, <1>1
<1>2. ASSUME NEW S, jobStatus' = Enqueue(jobStatus, S)
      PROVE  jobStatus'[j] # "ABSENT"
  BY <1>2, Enqueued
<1>3. ASSUME NEW S, NEW i,
             jobStatus' = Enqueue([jobStatus EXCEPT ![i] = "SUCCEEDED"], S)
      PROVE  jobStatus'[j] # "ABSENT"
  <2>1. [jobStatus EXCEPT ![i] = "SUCCEEDED"][j] # "ABSENT"
    BY <1>0
  <2> QED  BY <1>3, <2>1, Enqueued
<1>4. CASE UNCHANGED jobStatus
  BY <1>4
<1>s. {"PENDING", "RUNNING", "LAPSED", "SUCCEEDED", "FAILED"}
         \subseteq JobStatuses \ {"ABSENT"}
  BY DEF JobStatuses
<1>5. CASE Environment
  <2>1. \/ UNCHANGED jobStatus
        \/ \E S : jobStatus' = Enqueue(jobStatus, S)
        \/ \E i : jobStatus' = [jobStatus EXCEPT ![i] = "PENDING"]
        \/ \E i : jobStatus' = [jobStatus EXCEPT ![i] = "LAPSED"]
    BY <1>5 DEF Environment, Initiate, Webhook, AdminRecheck, AdminReconcile,
       ManualRetry, Switch, Settle, LeaseLapses
  <2> QED  BY <1>1, <1>2, <1>4, <1>s, <2>1
<1>6. ASSUME NEW w \in Workers, Dispatch(w) \/ Sweep(w) \/ Crash(w)
      PROVE  jobStatus'[j] # "ABSENT"
  <2>1. \/ UNCHANGED jobStatus
        \/ \E S : jobStatus' = Enqueue(jobStatus, S)
        \/ \E i : jobStatus' = [jobStatus EXCEPT ![i] = "RUNNING"]
    BY <1>6 DEF Dispatch, Sweep, Poll, Claim, SkipClaimed, RecheckSweep,
       ReconSweep, Crash
  <2> QED  BY <1>1, <1>2, <1>4, <1>s, <2>1
<1>7. ASSUME NEW w \in Workers, Process(w) \/ Throw(w)
      PROVE  jobStatus'[j] # "ABSENT"
  <2>1. CASE \/ PauseJob(w) \/ PassGate(w) \/ ReadTransfer(w) \/ RejectMark(w)
             \/ MarkProcessing(w) \/ CallCollect(w) \/ CallPayout(w)
             \/ KeepPending(w) \/ Refused(w) \/ RecordFailure(w)
             \/ PostEntries(w) \/ Lookup(w) \/ LookupFailed(w)
             \/ RecordSuccess(w) \/ DeriveFinding(w) \/ PersistFinding(w)
             \/ ResolveSession(w) \/ Throw(w)
    <3>1. \/ UNCHANGED jobStatus
          \/ jobStatus' = [jobStatus EXCEPT ![job[w]] = "PENDING"]
          \/ jobStatus' = [jobStatus EXCEPT ![job[w]] = "FAILED"]
          \/ jobStatus' = [jobStatus EXCEPT ![job[w]] = "SUCCEEDED"]
      BY <2>1 DEF PauseJob, PassGate, ReadTransfer, RejectMark, RejectJob,
         MarkProcessing, CallCollect, CallPayout, KeepPending, Refused,
         FailTransfer, RecordFailure, PostEntries, Lookup, LookupFailed,
         RecordSuccess, DeriveFinding, PersistFinding, ResolveSession, Throw,
         SetJob, Goto, Return
    <3> QED  BY <1>1, <1>4, <1>s, <3>1
  <2>2. CASE (\E k \in RecheckKeys : RecordPending(w, k)) \/ CommitSuccess(w)
             \/ ConfirmStatus(w)
    <3>1. \E S : jobStatus' =
                   Enqueue([jobStatus EXCEPT ![job[w]] = "SUCCEEDED"], S)
      BY <2>2 DEF RecordPending, CommitSuccess, ConfirmStatus
    <3> QED  BY <1>3, <3>1
  <2> QED  BY <1>7, <2>1, <2>2 DEF Process
<1> QED  BY <1>4, <1>5, <1>6, <1>7 DEF Next, Sweep

LEMMA RowsKnownStep ==
  ASSUME TypeOK, TypeOK', RowsKnown, [Next]_vars
  PROVE  RowsKnown'
<1> SUFFICES ASSUME NEW w \in Workers
             PROVE  /\ job'[w] # NoJob => Known(job[w])'
                    /\ \A j \in batch'[w] : Known(j)'
  BY DEF RowsKnown
<1>1. RowsStay
  BY RowsStayNext
<1>2. /\ job'[w] \in Jobs \union {NoJob} /\ batch'[w] \subseteq Jobs
  BY DEF TypeOK
<1>3. \A j \in Eligible : Known(j)
  BY DEF Eligible, Known
<1>4. /\ job'[w] # NoJob => Known(job'[w])
      /\ \A j \in batch'[w] : Known(j)
  BY <1>3, RowsTaken DEF RowsKnown
<1> QED  BY <1>1, <1>2, <1>4 DEF RowsStay, Known

LEMMA OrderInit == Init => OrderInv
  BY BackedInit DEF Init, OrderInv, CollectedBeforePayout, RowsKnown, PayoutRows,
     Known, Remembers, Blank, PostCollection

LEMMA OrderEnvironment ==
  ASSUME OrderInv, Environment
  PROVE  StatusFollows /\ PayFollows /\ NewPayoutsFollow
<1> USE DEF vars, transferVars, partnerVars, workerVars
<1>0. /\ status \in [Transfers -> Statuses \union {"ABSENT"}]
      /\ pay \in [Transfers -> PartnerStates \union {"NONE"}]
      /\ jobStatus \in [Jobs -> JobStatuses]
      /\ CollectedBeforePayout
  BY DEF OrderInv, BackedInv, TypeOK, JobStatuses
<1>1. ASSUME NEW t \in Transfers, NEW k, ManualRetry(t, k)
      PROVE  StatusFollows /\ PayFollows /\ NewPayoutsFollow
  <2>1. status[t] \in PostCollection
    BY <1>1 DEF ManualRetry, CanRetryPayout, PostCollection
  <2>2. /\ pay' = pay /\ status' = [status EXCEPT ![t] = "PENDING_PAYOUT"]
        /\ jobStatus' = Enqueue(jobStatus, {RetryJob(t, k)})
    BY <1>1 DEF ManualRetry
  <2>3. StatusFollows /\ PayFollows
    BY <1>0, <2>1, <2>2 DEF StatusFollows, PayFollows
  <2>4. NewPayoutsFollow
    BY <1>0, <2>1, <2>2, Enqueued
       DEF NewPayoutsFollow, Known, RetryJob, CollectedBeforePayout
  <2> QED  BY <2>3, <2>4
<1>2. ASSUME NEW t \in Transfers, Initiate(t)
      PROVE  StatusFollows /\ PayFollows /\ NewPayoutsFollow
  <2>1. /\ pay' = pay /\ status' = [status EXCEPT ![t] = "INITIATED"]
        /\ jobStatus' = Enqueue(jobStatus, {CollectionJob(t)})
    BY <1>2 DEF Initiate
  <2>2. StatusFollows /\ PayFollows
    BY <1>0, <2>1 DEF StatusFollows, PayFollows, PostCollection
  <2>3. NewPayoutsFollow
    BY <1>0, <2>1, Enqueued DEF NewPayoutsFollow, Known, CollectionJob
  <2> QED  BY <2>2, <2>3
<1>3. ASSUME NEW t \in Transfers,
             \/ \E word \in PartnerStates, k \in RecheckKeys : Webhook(t, word, k)
             \/ \E k \in RecheckKeys : AdminRecheck(t, k)
             \/ AdminReconcile(t)
      PROVE  StatusFollows /\ PayFollows /\ NewPayoutsFollow
  <2>1. /\ status' = status /\ pay' = pay
        /\ \/ \E k : jobStatus' = Enqueue(jobStatus, {RecheckJob(t, k)})
           \/ jobStatus' = [jobStatus EXCEPT ![ReconJob(t, 0)] = "PENDING"]
    BY <1>3 DEF Webhook, AdminRecheck, AdminReconcile
  <2>2. ASSUME NEW S, \A j \in S : j.type # "PAYOUT",
               jobStatus' = Enqueue(jobStatus, S)
        PROVE  NewPayoutsFollow
    BY <2>2, Enqueued DEF NewPayoutsFollow, Known
  <2>3. ASSUME jobStatus' = [jobStatus EXCEPT ![ReconJob(t, 0)] = "PENDING"]
        PROVE  NewPayoutsFollow
    BY <1>0, <2>3 DEF NewPayoutsFollow, Known, ReconJob
  <2>4. \A k : \A j \in {RecheckJob(t, k)} : j.type # "PAYOUT"
    BY DEF RecheckJob
  <2>5. NewPayoutsFollow
    <3>1. ASSUME NEW k, jobStatus' = Enqueue(jobStatus, {RecheckJob(t, k)})
          PROVE  NewPayoutsFollow
      <4> DEFINE S == {RecheckJob(t, k)}
      <4>1. \A j \in S : j.type # "PAYOUT"
        BY <2>4
      <4>2. jobStatus' = Enqueue(jobStatus, S)
        BY <3>1
      <4> HIDE DEF S
      <4> QED  BY <2>2, <4>1, <4>2
    <3> QED  BY <2>1, <2>3, <3>1
  <2> QED  BY <2>1, <2>5 DEF StatusFollows, PayFollows
<1>4. ASSUME NEW t \in Transfers, Settle(t)
      PROVE  StatusFollows /\ PayFollows /\ NewPayoutsFollow
  BY <1>0, <1>4 DEF Settle, StatusFollows, PayFollows, NewPayoutsFollow, Known
<1>5. ASSUME (\E c \in Toggled : Switch(c)) \/ (\E j \in Jobs : LeaseLapses(j))
      PROVE  StatusFollows /\ PayFollows /\ NewPayoutsFollow
  BY <1>0, <1>5 DEF Switch, LeaseLapses, StatusFollows, PayFollows,
     NewPayoutsFollow, Known
<1> QED  BY <1>1, <1>2, <1>3, <1>4, <1>5 DEF Environment

(* Sweeps and the dispatcher touch neither transfers nor the partner.          *)
LEMMA OrderDispatch ==
  ASSUME OrderInv, NEW w \in Workers, Dispatch(w) \/ Sweep(w) \/ Crash(w)
  PROVE  /\ StatusFollows /\ PayFollows /\ NewPayoutsFollow
         /\ Remembers(w)'
<1> USE DEF vars, transferVars, partnerVars, workerVars
<1>0. /\ jobStatus \in [Jobs -> JobStatuses]
      /\ batch \in [Workers -> SUBSET Jobs]
      /\ pc \in [Workers -> Labels] /\ mem \in [Workers -> MemType]
      /\ RowsKnown /\ Remembers(w)
  BY DEF OrderInv, BackedInv, TypeOK, JobStatuses
<1>1. UNCHANGED <<status, pay, col>>
  BY DEF Dispatch, Sweep, Poll, Claim, SkipClaimed, RecheckSweep, ReconSweep, Crash
<1>2. StatusFollows /\ PayFollows
  BY <1>1 DEF StatusFollows, PayFollows
<1>3. CASE Poll(w) \/ \E j \in batch[w] : SkipClaimed(w, j)
  BY <1>0, <1>1, <1>2, <1>3
     DEF Poll, SkipClaimed, NewPayoutsFollow, Known, Remembers
<1>4. ASSUME NEW j \in batch[w], Claim(w, j)
      PROVE  NewPayoutsFollow /\ Remembers(w)'
  <2>1. /\ Known(j) /\ jobStatus' = [jobStatus EXCEPT ![j] = "RUNNING"]
        /\ mem' = mem /\ pc[w] = "idle"
    BY <1>0, <1>4 DEF RowsKnown, Claim
  <2> QED  BY <1>0, <2>1 DEF NewPayoutsFollow, Known, Remembers
<1>5. CASE Sweep(w)
  <2>1. ASSUME NEW S, jobStatus' = Enqueue(jobStatus, S),
               \A j \in S : j.type # "PAYOUT"
        PROVE  NewPayoutsFollow
    BY <2>1, Enqueued DEF NewPayoutsFollow, Known
  <2>2. ASSUME NEW k \in RecheckKeys, RecheckSweep(w, k)
        PROVE  NewPayoutsFollow
    <3> DEFINE S == {RecheckJob(t, k) :
                       t \in {u \in Transfers : status[u] \in SweptStatuses}}
    <3>1. jobStatus' = Enqueue(jobStatus, S)
      BY <2>2 DEF RecheckSweep
    <3>2. \A j \in S : j.type # "PAYOUT"
      BY DEF RecheckJob
    <3> HIDE DEF S
    <3> QED  BY <2>1, <3>1, <3>2
  <2>3. ASSUME NEW k \in ReconKeys, ReconSweep(w, k)
        PROVE  NewPayoutsFollow
    <3> DEFINE S == {ReconJob(t, k) : t \in {u \in Transfers : status[u] \in
                       PostCollection \union {"COLLECTION_FAILED"}}}
    <3>1. jobStatus' = Enqueue(jobStatus, S)
      BY <2>3 DEF ReconSweep
    <3>2. \A j \in S : j.type # "PAYOUT"
      BY DEF ReconJob
    <3> HIDE DEF S
    <3> QED  BY <2>1, <3>1, <3>2
  <2>4. UNCHANGED workerVars
    BY <1>5 DEF Sweep, RecheckSweep, ReconSweep
  <2>5. Remembers(w)'
    BY <1>0, <1>1, <2>4 DEF Remembers
  <2> QED  BY <1>2, <1>5, <2>2, <2>3, <2>5 DEF Sweep
<1>6. CASE Crash(w)
  <2>1. mem'[w] = Blank /\ jobStatus' = jobStatus
    BY <1>0, <1>6 DEF Crash
  <2> QED  BY <2>1, <1>2 DEF NewPayoutsFollow, Known, Remembers, Blank, PostCollection
<1> QED  BY <1>2, <1>3, <1>4, <1>5, <1>6 DEF Dispatch

LEMMA OrderProcess ==
  ASSUME OrderInv, MoneyStays, NEW w \in Workers, Process(w)
  PROVE  /\ StatusFollows /\ PayFollows /\ NewPayoutsFollow
         /\ Remembers(w)'
<1> USE DEF vars, transferVars, partnerVars, workerVars
<1> DEFINE t == job[w].ref
           Done == StatusFollows /\ PayFollows /\ NewPayoutsFollow /\ Remembers(w)'
<1>0. /\ jobStatus \in [Jobs -> JobStatuses]
      /\ pc \in [Workers -> Labels] /\ mem \in [Workers -> MemType]
      /\ job \in [Workers -> Jobs \union {NoJob}]
      /\ status \in [Transfers -> Statuses \union {"ABSENT"}]
      /\ pay \in [Transfers -> PartnerStates \union {"NONE"}]
      /\ RowsKnown /\ Remembers(w) /\ PayoutRows /\ CollectedBeforePayout
  BY DEF OrderInv, BackedInv, TypeOK, JobStatuses
<1>k. TypeOK /\ HearsTruth(w) /\ BackedInv /\ mem[w] \in MemType
  BY DEF OrderInv, BackedInv, TypeOK
<1>j. pc[w] # "idle"
  BY DEF Process, PauseJob, PassGate, ReadTransfer, RejectMark, MarkProcessing,
     CallCollect, CallPayout, KeepPending, Refused, RecordFailure, RecordPending,
     PostEntries, CommitSuccess, Lookup, LookupFailed, ConfirmStatus,
     RecordSuccess, DeriveFinding, PersistFinding, ResolveSession
<1>r. t \in Transfers /\ job[w] \in Jobs /\ Known(job[w])
  BY <1>j, <1>k, <1>0, BusyWorker DEF RowsKnown
<1>p. job[w].type = "PAYOUT" => col[t] = "COMPLETE"
  BY <1>r, <1>0 DEF PayoutRows
<1>s. ASSUME NEW to, to \in PostCollection => col[t] = "COMPLETE",
             status' = status \/ status' = [status EXCEPT ![t] = to]
      PROVE  StatusFollows
  BY <1>s, <1>0 DEF StatusFollows
<1>e. ASSUME NEW s, jobStatus' = jobStatus \/ jobStatus' = [jobStatus EXCEPT ![job[w]] = s]
      PROVE  NewPayoutsFollow
  BY <1>e, <1>0, <1>r DEF NewPayoutsFollow, Known
<1>f. ASSUME NEW S, \A j \in S : j.type = "PAYOUT" => col[j.ref] = "COMPLETE",
             jobStatus' = Enqueue([jobStatus EXCEPT ![job[w]] = "SUCCEEDED"], S)
      PROVE  NewPayoutsFollow
  <2> SUFFICES ASSUME NEW j \in Jobs, j.type = "PAYOUT", jobStatus'[j] # "ABSENT",
                      jobStatus[j] = "ABSENT"
               PROVE  col[j.ref] = "COMPLETE"
    BY DEF NewPayoutsFollow, Known
  <2>1. j # job[w]
    BY <1>r DEF Known
  <2>2. [jobStatus EXCEPT ![job[w]] = "SUCCEEDED"][j] = "ABSENT"
    BY <2>1, <1>0
  <2>3. j \in S
    BY <1>f, <2>2, Enqueued
  <2> QED  BY <1>f, <2>3
<1>m. ASSUME mem' = mem \/ mem'[w].seen \in {mem[w].seen, "ABSENT"},
             pc'[w] # "idle", job' = job
      PROVE  Remembers(w)'
  <2>1. mem'[w].seen \in PostCollection => mem[w].seen \in PostCollection
    BY <1>m DEF PostCollection
  <2> QED  BY <2>1, <1>m, <1>0, <1>r DEF Remembers, MoneyStays
<1>n. ASSUME NEW to, to \in PostCollection => col[t] = "COMPLETE",
             Remember(w, [Blank EXCEPT !.seen = to]), pc'[w] # "idle", job' = job
      PROVE  Remembers(w)'
  <2>1. mem'[w].seen = to
    BY <1>n, <1>k, Recalls DEF Blank
  <2> QED  BY <2>1, <1>n, <1>r DEF Remembers, MoneyStays
<1>b. ASSUME mem'[w] = Blank
      PROVE  Remembers(w)'
  BY <1>b DEF Remembers, Blank, PostCollection
<1> HIDE DEF Done
<1>1. CASE PauseJob(w) \/ RejectMark(w) \/ KeepPending(w) \/ LookupFailed(w)
           \/ ResolveSession(w)
  <2>1. /\ status' = status /\ pay' = pay /\ mem'[w] = Blank
        /\ \E s : jobStatus' = jobStatus \/ jobStatus' = [jobStatus EXCEPT ![job[w]] = s]
    BY <1>1, <1>0 DEF PauseJob, RejectMark, KeepPending, LookupFailed, RejectJob,
       ResolveSession, SetJob, Return
  <2> QED  BY <2>1, <1>b, <1>e DEF StatusFollows, PayFollows
<1>2. CASE PassGate(w) \/ PostEntries(w) \/ RecordSuccess(w)
  <2>1. /\ status' = status /\ pay' = pay /\ mem' = mem /\ job' = job
        /\ pc'[w] # "idle" /\ jobStatus' = jobStatus
    BY <1>2, <1>0 DEF PassGate, PostEntries, RecordSuccess, Goto
  <2> QED  BY <2>1, <1>m, <1>e DEF StatusFollows, PayFollows
<1>3. CASE ReadTransfer(w)
  <2>1. /\ status' = status /\ pay' = pay /\ job' = job /\ col' = col
        /\ pc'[w] # "idle" /\ jobStatus' = jobStatus
        /\ Remember(w, [mem[w] EXCEPT !.seen = status[t], !.code = code[t]])
    BY <1>3, <1>0 DEF ReadTransfer, Goto
  <2>2. mem'[w] = [mem[w] EXCEPT !.seen = status[t], !.code = code[t]]
    BY <2>1, <1>k, Recalls
  <2>3. mem'[w].seen = status[t]
    BY <2>2, <1>k DEF MemType
  <2>4. Remembers(w)'
    BY <2>1, <2>3, <1>r, <1>0 DEF Remembers, CollectedBeforePayout
  <2> QED  BY <2>1, <2>4, <1>e DEF StatusFollows, PayFollows
<1>4. CASE MarkProcessing(w)
  <2>1. /\ pay' = pay /\ mem' = mem /\ job' = job /\ pc'[w] # "idle"
        /\ jobStatus' = jobStatus
        /\ status' = status \/ status' = [status EXCEPT ![t] = ProcessingStatus(job[w])]
        /\ MovesMoney(job[w])
    BY <1>4, <1>0, <1>k DEF MarkProcessing, Goto, HearsTruth
  <2>2. ProcessingStatus(job[w]) \in PostCollection => col[t] = "COMPLETE"
    BY <2>1, <1>p DEF ProcessingStatus, StatusOf, MovesMoney, PostCollection
  <2> QED  BY <2>1, <2>2, <1>m, <1>e, <1>s DEF PayFollows
<1>5. CASE CallCollect(w)
  <2>1. /\ status' = status /\ pay' = pay /\ job' = job /\ jobStatus' = jobStatus
        /\ pc'[w] # "idle"
    BY <1>5, <1>0 DEF CallCollect, Goto
  <2>2. \E a, n : \/ Remember(w, [mem[w] EXCEPT !.answer = a])
                  \/ Remember(w, [mem[w] EXCEPT !.answer = a, !.code = n])
    BY <1>5 DEF CallCollect
  <2>3. mem'[w].seen = mem[w].seen
    BY <2>2, <1>k, Answers
  <2> QED  BY <2>1, <2>3, <1>m, <1>e DEF StatusFollows, PayFollows
<1>6. CASE CallPayout(w)
  <2>1. /\ status' = status /\ job' = job /\ jobStatus' = jobStatus
        /\ pc'[w] # "idle" /\ job[w].type = "PAYOUT"
    BY <1>6, <1>0 DEF CallPayout, Goto
  <2>2. \E a, n : \/ Remember(w, [mem[w] EXCEPT !.answer = a])
                  \/ Remember(w, [mem[w] EXCEPT !.answer = a, !.code = n])
    BY <1>6 DEF CallPayout
  <2>3. mem'[w].seen = mem[w].seen
    BY <2>2, <1>k, Answers
  <2>4. pay' = pay \/ \E r : pay' = [pay EXCEPT ![t] = r]
    BY <1>6 DEF CallPayout
  <2>5. PayFollows
    BY <2>1, <2>4, <1>0, <1>p DEF PayFollows
  <2> QED  BY <2>1, <2>3, <2>5, <1>m, <1>e DEF StatusFollows
<1>7. CASE Refused(w)
  <2>1. /\ pay' = pay /\ job' = job /\ pc'[w] # "idle"
        /\ jobStatus' = [jobStatus EXCEPT ![job[w]] = "FAILED"]
        /\ status' = [status EXCEPT ![t] = FailureStatus(job[w])]
        /\ Remember(w, [Blank EXCEPT !.seen = FailureStatus(job[w])])
        /\ MovesMoney(job[w])
    BY <1>7, <1>0, <1>k DEF Refused, FailTransfer, SetJob, Goto, HearsTruth
  <2>2. FailureStatus(job[w]) \in PostCollection => col[t] = "COMPLETE"
    BY <2>1, <1>p DEF FailureStatus, MovesMoney, PostCollection
  <2> QED  BY <2>1, <2>2, <1>n, <1>e, <1>s DEF PayFollows
<1>8. CASE RecordFailure(w)
  <2> DEFINE to == StatusOf(job[w].type, "FAILED")
  <2>1. /\ pay' = pay /\ job' = job /\ pc'[w] # "idle"
        /\ jobStatus' = [jobStatus EXCEPT ![job[w]] = "SUCCEEDED"]
        /\ status' = [status EXCEPT ![t] = to]
        /\ Remember(w, [Blank EXCEPT !.seen = to])
        /\ MovesMoney(job[w])
    BY <1>8, <1>0, <1>k DEF RecordFailure, SetJob, Goto, HearsTruth
  <2>2. to \in PostCollection => col[t] = "COMPLETE"
    BY <2>1, <1>p DEF StatusOf, MovesMoney, PostCollection
  <2> HIDE DEF to
  <2> QED  BY <2>1, <2>2, <1>n, <1>e, <1>s DEF PayFollows
<1>9. CASE \E k \in RecheckKeys : RecordPending(w, k)
  <2> DEFINE to == ProcessingStatus(job[w])
  <2>1. /\ pay' = pay /\ job' = job /\ pc'[w] # "idle"
        /\ \E k : jobStatus' = Enqueue([jobStatus EXCEPT ![job[w]] = "SUCCEEDED"],
                                       {RecheckJob(t, k)})
        /\ status' = [status EXCEPT ![t] = to]
        /\ Remember(w, [Blank EXCEPT !.seen = to])
        /\ MovesMoney(job[w])
    BY <1>9, <1>0, <1>k DEF RecordPending, Goto, HearsTruth
  <2>2. to \in PostCollection => col[t] = "COMPLETE"
    BY <2>1, <1>p DEF ProcessingStatus, StatusOf, MovesMoney, PostCollection
  <2>3. NewPayoutsFollow
    BY <2>1, <1>f DEF RecheckJob
  <2> HIDE DEF to
  <2> QED  BY <2>1, <2>2, <2>3, <1>n, <1>s DEF PayFollows
<1>10. CASE CommitSuccess(w)
  <2> DEFINE to == StatusOf(job[w].type, "COMPLETE")
             next == IF job[w].type = "COLLECTION" THEN {PayoutJob(t)} ELSE {}
  <2>1. /\ pay' = pay /\ job' = job /\ pc'[w] # "idle"
        /\ jobStatus' = Enqueue([jobStatus EXCEPT ![job[w]] = "SUCCEEDED"], next)
        /\ status' = [status EXCEPT ![t] = to]
        /\ Remember(w, [Blank EXCEPT !.seen = to])
    BY <1>10, <1>0 DEF CommitSuccess, Goto
  <2>2. col[t] = "COMPLETE"
    BY <1>10, <1>k, <1>p DEF CommitSuccess, HearsTruth, MovesMoney
  <2>3. \A j \in next : j.type = "PAYOUT" => col[j.ref] = "COMPLETE"
    BY <2>2 DEF PayoutJob
  <2> HIDE DEF to, next
  <2>4. NewPayoutsFollow
    BY <2>1, <2>3, <1>f
  <2> QED  BY <2>1, <2>2, <2>4, <1>n, <1>s DEF PayFollows
<1>11. CASE Lookup(w)
  <2>1. /\ status' = status /\ pay' = pay /\ job' = job /\ jobStatus' = jobStatus
        /\ pc'[w] # "idle"
    BY <1>11, <1>0 DEF Lookup, Goto
  <2>2. \E a, n : \/ Remember(w, [mem[w] EXCEPT !.answer = a])
                  \/ Remember(w, [mem[w] EXCEPT !.answer = a, !.code = n])
    BY <1>11 DEF Lookup
  <2>3. mem'[w].seen = mem[w].seen
    BY <2>2, <1>k, Answers
  <2> QED  BY <2>1, <2>3, <1>m, <1>e DEF StatusFollows, PayFollows
<1>12. CASE ConfirmStatus(w)
  <2> DEFINE to == Confirmed(w)
             next == IF to = "COLLECTION_SUCCESS" THEN {PayoutJob(t)} ELSE {}
  <2>1. /\ pay' = pay /\ job' = job /\ pc'[w] # "idle" /\ pc[w] = "confirm"
        /\ jobStatus' = Enqueue([jobStatus EXCEPT ![job[w]] = "SUCCEEDED"], next)
        /\ status' = [status EXCEPT ![t] = to]
        /\ Remember(w, [Blank EXCEPT !.seen = to])
    BY <1>12, <1>0 DEF ConfirmStatus, Goto, AfterConfirm
  <2>2. to \in PostCollection => col[t] = "COMPLETE"
    <3>1. CASE RecheckPhase(mem[w].seen) = "COLLECTION"
      BY <3>1, <2>1, <1>k, StatusMeaning DEF Confirmed, HearsTruth
    <3>2. CASE RecheckPhase(mem[w].seen) # "COLLECTION"
      BY <3>2, <2>1, <1>0 DEF RecheckPhase, Remembers, PostCollection
    <3> QED  BY <3>1, <3>2
  <2>3. \A j \in next : j.type = "PAYOUT" => col[j.ref] = "COMPLETE"
    BY <2>2 DEF PayoutJob, PostCollection
  <2> HIDE DEF to, next
  <2>4. NewPayoutsFollow
    BY <2>1, <2>3, <1>f
  <2> QED  BY <2>1, <2>2, <2>4, <1>n, <1>s DEF PayFollows
<1>13. CASE DeriveFinding(w) \/ PersistFinding(w)
  <2>1. /\ status' = status /\ pay' = pay
        /\ \E s : jobStatus' = jobStatus \/ jobStatus' = [jobStatus EXCEPT ![job[w]] = s]
    BY <1>13 DEF DeriveFinding, PersistFinding, SetJob, Return, Goto
  <2>2. \/ mem'[w] = Blank
        \/ /\ \E f : Remember(w, [mem[w] EXCEPT !.finding = f])
           /\ job' = job /\ pc'[w] # "idle"
    BY <1>13, <1>0 DEF DeriveFinding, PersistFinding, Return, Goto
  <2>3. \A f : [mem[w] EXCEPT !.finding = f].seen = mem[w].seen
    BY <1>k DEF MemType
  <2>4. Remembers(w)'
    BY <2>2, <2>3, <1>b, <1>m, <1>k, Recalls
  <2> QED  BY <2>1, <2>4, <1>e DEF StatusFollows, PayFollows
<1> QED
  BY <1>1, <1>2, <1>3, <1>4, <1>5, <1>6, <1>7, <1>8, <1>9, <1>10, <1>11, <1>12,
     <1>13 DEF Process

LEMMA OrderStep ==
  ASSUME "throw" \notin Faults, OrderInv, [Next]_vars
  PROVE  OrderInv'
<1> USE DEF vars, transferVars, partnerVars, workerVars
<1>1. BackedInv' /\ RowsKnown' /\ MoneyStays /\ RowsStay
  BY BackedStep, RowsKnownStep, RowsStayNext, MoneyStaysNext
     DEF OrderInv, BackedInv
<1>2. ASSUME StatusFollows, PayFollows, NewPayoutsFollow,
             \A w \in Workers : Remembers(w)'
      PROVE  OrderInv'
  <2>1. CollectedBeforePayout'
    BY <1>1, <1>2
       DEF OrderInv, CollectedBeforePayout, StatusFollows, PayFollows, MoneyStays
  <2>2. PayoutRows'
    BY <1>1, <1>2, JobTypes DEF OrderInv, PayoutRows, NewPayoutsFollow, MoneyStays
  <2> QED  BY <1>1, <1>2, <2>1, <2>2 DEF OrderInv
<1>3. ASSUME NEW v \in Workers,
             pc'[v] = pc[v] /\ job'[v] = job[v] /\ mem'[v] = mem[v]
      PROVE  Remembers(v)'
  <2>1. Remembers(v) /\ (pc[v] # "idle" => job[v].ref \in Transfers)
    BY BusyWorker DEF OrderInv, BackedInv
  <2> QED  BY <1>1, <1>3, <2>1 DEF Remembers, MoneyStays
<1>4. CASE UNCHANGED vars
  BY <1>2, <1>3, <1>4 DEF StatusFollows, PayFollows, NewPayoutsFollow, Known
<1>5. CASE Environment
  <2>1. UNCHANGED workerVars
    BY <1>5 DEF Environment, Initiate, Webhook, AdminRecheck, AdminReconcile,
       ManualRetry, Switch, Settle, LeaseLapses
  <2> QED  BY <1>2, <1>3, <1>5, <2>1, OrderEnvironment
<1>6. ASSUME NEW w \in Workers, Process(w) \/ Dispatch(w) \/ Sweep(w) \/ Crash(w)
      PROVE  OrderInv'
  <2>1. StatusFollows /\ PayFollows /\ NewPayoutsFollow /\ Remembers(w)'
    BY <1>1, <1>6, OrderProcess, OrderDispatch
  <2>2. OthersKept(w)
    BY <1>6, OthersKeptNext DEF OrderInv, BackedInv
  <2>3. \A v \in Workers : Remembers(v)'
    BY <1>3, <2>1, <2>2 DEF OthersKept
  <2> QED  BY <1>2, <2>1, <2>3
<1>7. \A w \in Workers : ~Throw(w)
  BY DEF Throw
<1> QED  BY <1>4, <1>5, <1>6, <1>7 DEF Next, Sweep

(* Unless a call throws, no transfer enters the payout half of its lifecycle    *)
(* and no payout reaches the partner before the partner completed the          *)
(* collection, for any number of workers, crashes, lost answers and lapses.    *)
THEOREM PaidFromCollected ==
  ASSUME "throw" \notin Faults
  PROVE  Spec => []CollectedBeforePayout
<1>1. OrderInv /\ [Next]_vars => OrderInv'
  BY OrderStep
<1>2. Spec => []OrderInv
  BY <1>1, OrderInit, PTL DEF Spec
<1>3. OrderInv => CollectedBeforePayout
  BY DEF OrderInv
<1> QED  BY <1>2, <1>3, PTL

(* ------------------------------- Exclusive claim --------------------------- *)

(* A row that is in the hands of a worker is RUNNING, unless it is one that Ops *)
(* may reset.                                                                  *)
HoldsRunning(w) ==
  pc[w] \in HoldingLabels /\ job[w].type # "RECONCILIATION" =>
    jobStatus[job[w]] = "RUNNING"

ClaimInv ==
  /\ TypeOK
  /\ ExclusiveClaim
  /\ \A w \in Workers : HoldsRunning(w)

Held(j) == \E w \in Workers : job[w] = j /\ pc[w] \in HoldingLabels

(* Steps of other processes leave a running row alone while it is held.        *)
LEMMA HeldRowsStay ==
  ASSUME "lapse" \notin Faults, ClaimInv, Environment,
         NEW j \in Jobs, j.type # "RECONCILIATION", jobStatus[j] = "RUNNING", Held(j)
  PROVE  jobStatus'[j] = "RUNNING"
<1> USE DEF vars, transferVars, partnerVars, workerVars
<1>0. jobStatus \in [Jobs -> JobStatuses]
  BY DEF ClaimInv, TypeOK, JobStatuses
<1>1. ~Fresh(j)
  BY DEF Fresh
<1>2. \A S : Enqueue(jobStatus, S)[j] = "RUNNING"
  BY <1>1 DEF Enqueue
<1>3. ASSUME NEW i, LeaseLapses(i) PROVE jobStatus'[j] = "RUNNING"
  BY <1>0, <1>3 DEF LeaseLapses, Held
<1>4. ASSUME NEW t, AdminReconcile(t) PROVE jobStatus'[j] = "RUNNING"
  BY <1>0, <1>4 DEF AdminReconcile, ReconJob
<1>5. ASSUME ~(\E i \in Jobs : LeaseLapses(i)),
             ~(\E t \in Transfers : AdminReconcile(t))
      PROVE  jobStatus' = jobStatus \/ \E S : jobStatus' = Enqueue(jobStatus, S)
  BY <1>5 DEF Environment, Initiate, Webhook, AdminRecheck, ManualRetry, Switch, Settle
<1> QED  BY <1>2, <1>3, <1>4, <1>5

(* What one worker's step does to the row another one holds, and to its own    *)
(* claim.                                                                      *)
LEMMA ClaimStepOfWorker ==
  ASSUME "throw" \notin Faults, ClaimInv, NEW w \in Workers,
         Process(w) \/ Dispatch(w) \/ Sweep(w) \/ Crash(w)
  PROVE  /\ \A j \in Jobs : jobStatus[j] = "RUNNING" /\ j.type # "RECONCILIATION" =>
              \/ jobStatus'[j] = "RUNNING"
              \/ job[w] = j /\ pc[w] \in HoldingLabels /\ pc'[w] \notin HoldingLabels
         /\ HoldsRunning(w)'
         /\ pc'[w] \in HoldingLabels =>
              \/ job'[w] = job[w] /\ pc[w] \in HoldingLabels
              \/ job'[w] \in Jobs /\ jobStatus[job'[w]] # "RUNNING"
<1> USE DEF vars, transferVars, partnerVars, workerVars
<1> DEFINE Goal ==
         /\ \A j \in Jobs : jobStatus[j] = "RUNNING" /\ j.type # "RECONCILIATION" =>
              \/ jobStatus'[j] = "RUNNING"
              \/ job[w] = j /\ pc[w] \in HoldingLabels /\ pc'[w] \notin HoldingLabels
         /\ HoldsRunning(w)'
         /\ pc'[w] \in HoldingLabels =>
              \/ job'[w] = job[w] /\ pc[w] \in HoldingLabels
              \/ job'[w] \in Jobs /\ jobStatus[job'[w]] # "RUNNING"
<1>0. /\ jobStatus \in [Jobs -> JobStatuses]
      /\ pc \in [Workers -> Labels] /\ batch \in [Workers -> SUBSET Jobs]
      /\ job \in [Workers -> Jobs \union {NoJob}]
      /\ HoldsRunning(w)
  BY DEF ClaimInv, TypeOK, JobStatuses
<1>j. pc[w] # "idle" => job[w] \in Jobs
  BY BusyWorker DEF ClaimInv
<1>1. ASSUME jobStatus' = jobStatus, job' = job,
             pc'[w] \in HoldingLabels => pc[w] \in HoldingLabels
      PROVE  Goal
  BY <1>0, <1>1 DEF HoldsRunning
<1>2. ASSUME NEW S, jobStatus' = Enqueue(jobStatus, S), job' = job, pc' = pc
      PROVE  Goal
  <2>1. \A j \in Jobs : jobStatus[j] = "RUNNING" => jobStatus'[j] = "RUNNING"
    BY <1>2 DEF Enqueue, Fresh
  <2>2. pc[w] \in HoldingLabels => job[w] \in Jobs
    BY <1>j DEF HoldingLabels
  <2> QED  BY <1>0, <1>2, <2>1, <2>2 DEF HoldsRunning
<1>3. ASSUME NEW s, NEW S, pc[w] \in HoldingLabels, pc'[w] \notin HoldingLabels,
             \/ jobStatus' = [jobStatus EXCEPT ![job[w]] = s]
             \/ jobStatus' = Enqueue([jobStatus EXCEPT ![job[w]] = s], S)
      PROVE  Goal
  <2>1. ASSUME NEW j \in Jobs, jobStatus[j] = "RUNNING", j # job[w]
        PROVE  jobStatus'[j] = "RUNNING"
    <3>1. [jobStatus EXCEPT ![job[w]] = s][j] = "RUNNING"
      BY <1>0, <2>1
    <3>2. Enqueue([jobStatus EXCEPT ![job[w]] = s], S)[j] = "RUNNING"
      BY <3>1, <2>1 DEF Enqueue, Fresh
    <3> QED  BY <1>3, <3>1, <3>2
  <2> QED  BY <1>3, <2>1 DEF HoldsRunning
<1> SUFFICES Goal
  OBVIOUS
<1> HIDE DEF Goal
<1>4. CASE Poll(w) \/ (\E j \in batch[w] : SkipClaimed(w, j))
  BY <1>1, <1>4 DEF Poll, SkipClaimed
<1>5. ASSUME NEW j \in batch[w], Claim(w, j) PROVE Goal
  <2>1. /\ jobStatus' = [jobStatus EXCEPT ![j] = "RUNNING"]
        /\ job'[w] = j /\ j \in Jobs /\ jobStatus[j] # "RUNNING"
    BY <1>0, <1>5 DEF Claim, Claimable
  <2> QED  BY <1>0, <2>1 DEF Goal, HoldsRunning
<1>6. CASE Sweep(w)
  <2>1. (\E S : jobStatus' = Enqueue(jobStatus, S)) /\ job' = job /\ pc' = pc
    BY <1>6 DEF Sweep, RecheckSweep, ReconSweep
  <2> QED  BY <1>2, <2>1
<1>7. CASE Crash(w)
  <2>1. jobStatus' = jobStatus /\ pc'[w] = "idle"
    BY <1>0, <1>7 DEF Crash
  <2> QED  BY <2>1 DEF Goal, HoldsRunning, HoldingLabels
<1>8. CASE PassGate(w) \/ MarkProcessing(w) \/ CallCollect(w) \/ CallPayout(w)
           \/ PostEntries(w) \/ Lookup(w) \/ ReadTransfer(w)
  <2>1. jobStatus' = jobStatus /\ job' = job /\ pc[w] \in HoldingLabels
    BY <1>8 DEF PassGate, MarkProcessing, CallCollect, CallPayout, PostEntries,
       Lookup, ReadTransfer, Goto, HoldingLabels
  <2> QED  BY <1>1, <2>1
<1>9. CASE PauseJob(w) \/ RejectMark(w) \/ KeepPending(w) \/ LookupFailed(w)
  <2>1. /\ pc[w] \in HoldingLabels /\ pc'[w] = "idle"
        /\ \E s : jobStatus' = [jobStatus EXCEPT ![job[w]] = s]
    BY <1>0, <1>9 DEF PauseJob, RejectMark, KeepPending, LookupFailed, RejectJob,
       SetJob, Return, HoldingLabels
  <2> QED  BY <1>3, <2>1 DEF HoldingLabels
<1>10. CASE Refused(w) \/ RecordFailure(w)
  <2>1. /\ pc[w] \in HoldingLabels /\ pc'[w] = "resolve"
        /\ \E s : jobStatus' = [jobStatus EXCEPT ![job[w]] = s]
    BY <1>0, <1>10 DEF Refused, FailTransfer, RecordFailure, SetJob, Goto,
       HoldingLabels
  <2> QED  BY <1>3, <2>1 DEF HoldingLabels
<1>11. CASE (\E k \in RecheckKeys : RecordPending(w, k)) \/ CommitSuccess(w)
            \/ ConfirmStatus(w)
  <2>1. /\ pc[w] \in HoldingLabels
        /\ pc'[w] \in {"resolve", "record", "reconcile"}
        /\ \E S : jobStatus' = Enqueue([jobStatus EXCEPT ![job[w]] = "SUCCEEDED"], S)
    BY <1>0, <1>11 DEF RecordPending, CommitSuccess, ConfirmStatus, Goto,
       AfterConfirm, HoldingLabels
  <2> QED  BY <1>3, <2>1 DEF HoldingLabels
<1>12. CASE RecordSuccess(w) \/ DeriveFinding(w) \/ ResolveSession(w)
  <2>1. jobStatus' = jobStatus /\ pc'[w] \notin HoldingLabels
    BY <1>0, <1>12 DEF RecordSuccess, DeriveFinding, ResolveSession, Goto, Return,
       HoldingLabels
  <2> QED  BY <2>1 DEF Goal, HoldsRunning
<1>13. CASE PersistFinding(w)
  <2>1. /\ pc'[w] \notin HoldingLabels
        /\ \/ jobStatus' = jobStatus
           \/ /\ job[w].type = "RECONCILIATION"
              /\ jobStatus' = [jobStatus EXCEPT ![job[w]] = "SUCCEEDED"]
    BY <1>0, <1>13 DEF PersistFinding, SetJob, Goto, Return, HoldingLabels
  <2> QED  BY <1>0, <2>1 DEF Goal, HoldsRunning
<1> QED
  BY <1>4, <1>5, <1>6, <1>7, <1>8, <1>9, <1>10, <1>11, <1>12, <1>13
     DEF Process, Dispatch

LEMMA ClaimStep ==
  ASSUME "throw" \notin Faults, "lapse" \notin Faults, ClaimInv, [Next]_vars
  PROVE  ClaimInv'
<1> USE DEF vars, transferVars, partnerVars, workerVars
<1>1. TypeOK'
  BY TypeStep DEF ClaimInv
<1>2. \A v \in Workers : pc[v] \in HoldingLabels => job[v] \in Jobs
  BY BusyWorker DEF ClaimInv, HoldingLabels
<1>3. CASE UNCHANGED vars
  BY <1>1, <1>3 DEF ClaimInv, ExclusiveClaim, HoldsRunning
<1>4. CASE Environment
  <2>1. UNCHANGED workerVars
    BY <1>4 DEF Environment, Initiate, Webhook, AdminRecheck, AdminReconcile,
       ManualRetry, Switch, Settle, LeaseLapses
  <2>2. ASSUME NEW v \in Workers PROVE HoldsRunning(v)'
    <3> SUFFICES ASSUME pc[v] \in HoldingLabels, job[v].type # "RECONCILIATION"
                 PROVE  jobStatus'[job[v]] = "RUNNING"
      BY <2>1 DEF HoldsRunning
    <3>1. jobStatus[job[v]] = "RUNNING" /\ job[v] \in Jobs /\ Held(job[v])
      BY <1>2 DEF ClaimInv, HoldsRunning, Held
    <3> QED  BY <1>4, <3>1, HeldRowsStay
  <2> QED  BY <1>1, <2>1, <2>2 DEF ClaimInv, ExclusiveClaim
<1>5. ASSUME NEW w \in Workers, Process(w) \/ Dispatch(w) \/ Sweep(w) \/ Crash(w)
      PROVE  ClaimInv'
  <2>1. /\ \A j \in Jobs : jobStatus[j] = "RUNNING" /\ j.type # "RECONCILIATION" =>
             \/ jobStatus'[j] = "RUNNING"
             \/ job[w] = j /\ pc[w] \in HoldingLabels /\ pc'[w] \notin HoldingLabels
        /\ HoldsRunning(w)'
        /\ pc'[w] \in HoldingLabels =>
             \/ job'[w] = job[w] /\ pc[w] \in HoldingLabels
             \/ job'[w] \in Jobs /\ jobStatus[job'[w]] # "RUNNING"
    BY <1>5, ClaimStepOfWorker
  <2>2. OthersKept(w)
    BY <1>5, OthersKeptNext DEF ClaimInv
  <2>3. ASSUME NEW v \in Workers \ {w}, pc[v] \in HoldingLabels,
               job[v].type # "RECONCILIATION"
        PROVE  /\ jobStatus[job[v]] = "RUNNING" /\ job[v] \in Jobs
               /\ ~(job[w] = job[v] /\ pc[w] \in HoldingLabels)
    BY <1>2, <2>3 DEF ClaimInv, HoldsRunning, ExclusiveClaim
  <2>4. ASSUME NEW v \in Workers PROVE HoldsRunning(v)'
    <3>1. CASE v = w
      BY <2>1, <3>1
    <3>2. CASE v # w
      BY <2>1, <2>2, <2>3, <3>2 DEF HoldsRunning, OthersKept
    <3> QED  BY <3>1, <3>2
  <2>5. ASSUME NEW v \in Workers \ {w}, job'[v] = job'[w],
               pc'[v] \in HoldingLabels, pc'[w] \in HoldingLabels
        PROVE  job'[v].type = "RECONCILIATION"
    <3>1. pc[v] \in HoldingLabels /\ job'[v] = job[v]
      BY <2>2, <2>5 DEF OthersKept
    <3> QED  BY <2>1, <2>3, <2>5, <3>1
  <2>6. ExclusiveClaim'
    <3> SUFFICES ASSUME NEW u \in Workers, NEW v \in Workers, u # v,
                        job'[u] = job'[v],
                        pc'[u] \in HoldingLabels, pc'[v] \in HoldingLabels
                 PROVE  job'[u].type = "RECONCILIATION"
      BY DEF ExclusiveClaim
    <3>1. CASE u = w \/ v = w
      BY <2>5, <3>1
    <3>2. CASE u # w /\ v # w
      BY <2>2, <3>2 DEF OthersKept, ClaimInv, ExclusiveClaim
    <3> QED  BY <3>1, <3>2
  <2> QED  BY <1>1, <2>4, <2>6 DEF ClaimInv
<1>6. \A w \in Workers : ~Throw(w)
  BY DEF Throw
<1> QED  BY <1>3, <1>4, <1>5, <1>6 DEF Next, Sweep

(* As long as leases outlive the work and nothing throws, no two workers hold   *)
(* the same row.                                                               *)
THEOREM OneWorkerPerRow ==
  ASSUME "throw" \notin Faults, "lapse" \notin Faults
  PROVE  Spec => []ExclusiveClaim
<1>1. ClaimInv /\ [Next]_vars => ClaimInv'
  BY ClaimStep
<1>2. Init => ClaimInv
  BY TypeInit DEF Init, ClaimInv, ExclusiveClaim, HoldsRunning, HoldingLabels
<1>3. Spec => []ClaimInv
  BY <1>1, <1>2, PTL DEF Spec
<1>4. ClaimInv => ExclusiveClaim
  BY DEF ClaimInv
<1> QED  BY <1>3, <1>4, PTL
=============================================================================
